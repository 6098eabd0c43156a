-------------------------- MODULE EnginePoolProofs --------------------------
(***************************************************************************)
(* Proofs about EnginePool: the invariant IInv is inductive, and with it   *)
(* the pool is type correct, exclusive and leaks no engine, for every      *)
(* number of threads, engines and nested activations.                      *)
(***************************************************************************)
EXTENDS EnginePool, ListTheorems

-----------------------------------------------------------------------------
(* Facts used by several steps                                             *)

\* -1 names no engine, and no thread is "no thread".
LEMMA Constants == Bochs \notin Box /\ NoThread \notin Thread /\ Box \subseteq Nat
BY PoolAssumption, NoThreadAssumption DEF Box, Bochs

\* Only one thread is between Lock and Unlock of EmuExecute.
LEMMA OneInside ==
    ASSUME LockHeld, TypeOK, NEW t \in Thread, NEW u \in Thread,
           pc[t] \in {"scan", "claim", "register", "unlock"},
           CanEnter(DosboxLock, u)
    PROVE  t = u
BY NoThreadAssumption DEF LockHeld, CanEnter

\* What is left of the list of a thread that is terminated: all of it or nothing.
LEMMA KilledList ==
    ASSUME TypeOK, NEW v \in Thread, LeavesLocks(v)
    PROVE  /\ notifications'[v] \in {notifications[v], <<>>}
           /\ \A u \in Thread \ {v} : notifications'[u] = notifications[u]
           /\ notifications' \in [Thread -> Seq(Box)]
<1>1. /\ notifications \in [Thread -> Seq(Box)]
      /\ <<>> \in Seq(Box)
  BY DEF TypeOK
<1>2. \/ notifications' = notifications
      \/ notifications' = [notifications EXCEPT ![v] = <<>>]
  BY DEF LeavesLocks
<1> QED
  BY <1>1, <1>2

-----------------------------------------------------------------------------
(* Type correctness of every step                                          *)

\* The sequence operators the steps use keep the types of frames and lists.
LEMMA StepTypes ==
    ASSUME TypeOK, NEW t \in Thread
    PROVE  /\ frames[t] # <<>> =>
                  /\ Front(frames[t]) \in Seq(Box \cup {Bochs})
                  /\ Top(t) \in Box \cup {Bochs}
           /\ \A i \in Box \cup {Bochs} : Append(frames[t], i) \in Seq(Box \cup {Bochs})
           /\ \A i \in Box : /\ Cons(i, notifications[t]) \in Seq(Box)
                             /\ RemoveFirst(notifications[t], i) \in Seq(Box)
           /\ pending[t] # <<>> => /\ Tail(pending[t]) \in Seq(Box)
                                   /\ Head(pending[t]) \in Box
<1>1. /\ frames[t] \in Seq(Box \cup {Bochs})
      /\ notifications[t] \in Seq(Box)
      /\ pending[t] \in Seq(Box)
  BY DEF TypeOK
<1>2. frames[t] # <<>> => Front(frames[t]) \in Seq(Box \cup {Bochs})
                          /\ Top(t) \in Box \cup {Bochs}
  BY <1>1, FrontElements DEF Top
<1>3. \A i \in Box \cup {Bochs} : Append(frames[t], i) \in Seq(Box \cup {Bochs})
  BY <1>1, AppendElements
<1>4. \A i \in Box : Cons(i, notifications[t]) \in Seq(Box)
                     /\ RemoveFirst(notifications[t], i) \in Seq(Box)
  BY <1>1, ConsProperties, RemoveFirstProperties
<1>5. pending[t] # <<>> => Tail(pending[t]) \in Seq(Box) /\ Head(pending[t]) \in Box
  BY <1>1, HeadTailProperties
<1> QED
  BY <1>2, <1>3, <1>4, <1>5

\* Locking and unlocking keep the type of the critical section.
LEMMA LockTypes ==
    ASSUME NEW cs \in CriticalSectionType, NEW t \in Thread
    PROVE  Entered(cs, t) \in CriticalSectionType /\ Left(cs) \in CriticalSectionType
<1>1. Entered(cs, t) \in CriticalSectionType
  BY DEF Entered, CriticalSectionType
<1>2. Left(cs) \in CriticalSectionType
  <2>1. CASE cs.count <= 1
    BY <2>1 DEF Left, Unowned, CriticalSectionType
  <2>2. CASE ~(cs.count <= 1)
    <3>1. cs.count \in Nat /\ cs.count - 1 \in Nat
      BY <2>2 DEF CriticalSectionType
    <3> QED
      BY <2>2, <3>1 DEF Left, CriticalSectionType
  <2> QED
    BY <2>1, <2>2
<1> QED
  BY <1>1, <1>2

LEMMA TypeInit == Init => TypeOK
BY Constants DEF Init, TypeOK, Unowned, CriticalSectionType, Location

\* Every step keeps the types.  Window and ChosenIdle are what makes the engine of
\* RegisterExitCall and Release an engine, and not -1.
LEMMA TypeNext ==
    ASSUME IInv, [Next]_vars
    PROVE  TypeOK'
<1> USE DEF IInv, TypeOK, Location
<1>1. ASSUME NEW t \in Thread, Start(t) PROVE TypeOK'
  BY <1>1 DEF Start, Goto
<1>2. ASSUME NEW t \in Thread, CallEmuExecute(t) PROVE TypeOK'
  BY <1>2 DEF CallEmuExecute, Goto
<1>3. ASSUME NEW t \in Thread, EnterLock(t) PROVE TypeOK'
  BY <1>3, LockTypes DEF EnterLock, Goto
<1>4. ASSUME NEW t \in Thread, ScanFree(t) PROVE TypeOK'
  BY <1>4 DEF ScanFree, Goto
<1>5. ASSUME NEW t \in Thread, ScanFull(t) PROVE TypeOK'
  BY <1>5, StepTypes DEF ScanFull, Goto
<1>6. ASSUME NEW t \in Thread, Claim(t) PROVE TypeOK'
  BY <1>6, StepTypes DEF Claim, Goto, ChosenIdle
<1>7. ASSUME NEW t \in Thread, RegisterExitCall(t) PROVE TypeOK'
  BY <1>7, StepTypes DEF RegisterExitCall, Goto, Window
<1>8. ASSUME NEW t \in Thread, LeaveLock(t) PROVE TypeOK'
  BY <1>8, LockTypes DEF LeaveLock, Goto
<1>9. ASSUME NEW t \in Thread, ReturnBochs(t) PROVE TypeOK'
  BY <1>9, StepTypes DEF ReturnBochs, Goto
<1>10. ASSUME NEW t \in Thread, Unregister(t) PROVE TypeOK'
  BY <1>10, StepTypes DEF Unregister, Goto
<1>11. ASSUME NEW t \in Thread, Release(t) PROVE TypeOK'
  BY <1>11, StepTypes DEF Release, Goto, Window
<1>12. ASSUME NEW t \in Thread, SwallowException(t) PROVE TypeOK'
  BY <1>12, StepTypes DEF SwallowException
<1>13. ASSUME NEW t \in Thread, UnhandledException(t) PROVE TypeOK'
  BY <1>13 DEF UnhandledException, Goto
<1>14. ASSUME NEW t \in Thread, LeaveForeign(t) PROVE TypeOK'
  BY <1>14 DEF LeaveForeign, Goto
<1>15. ASSUME NEW t \in Thread, BeginExit(t) PROVE TypeOK'
  BY <1>15 DEF BeginExit, Goto
<1>16. ASSUME NEW t \in Thread, DeliverFreeDB(t) PROVE TypeOK'
  BY <1>16, StepTypes DEF DeliverFreeDB
<1>17. ASSUME NEW t \in Thread, FinishExit(t) PROVE TypeOK'
  BY <1>17 DEF FinishExit, Goto
<1>18. ASSUME NEW c \in Thread, NEW v \in Thread, c # v, TerminateOther(c, v)
       PROVE  TypeOK'
  <2>1. ToSet(notifications[c]) \subseteq Box /\ Unlisted(v, notifications'[v]) \subseteq Box
    BY ToSetDef DEF Unlisted
  <2>2. /\ <<>> \in Seq(Box)
        /\ <<>> \in Seq(Box \cup {Bochs})
        /\ notifications[c] \in Seq(Box)
    OBVIOUS
  <2>3. pc' \in [Thread -> Location] /\ chosen' \in [Thread -> Box \cup {Bochs}]
    BY <1>18 DEF TerminateOther
  <2>4. /\ frames' \in [Thread -> Seq(Box \cup {Bochs})]
        /\ notifications' \in [Thread -> Seq(Box)]
        /\ pending' \in [Thread -> Seq(Box)]
    BY <1>18, <2>2, KilledList DEF TerminateOther
  <2>5. DosboxLock' \in CriticalSectionType /\ NotificationsLock' \in CriticalSectionType
    <3>1. LeavesLocks(v)
      BY <1>18 DEF TerminateOther
    <3>2. \/ UNCHANGED <<DosboxLock, NotificationsLock>>
          \/ DosboxLock' = Entered(DosboxLock, v) /\ UNCHANGED NotificationsLock
          \/ NotificationsLock' = Entered(NotificationsLock, v) /\ UNCHANGED DosboxLock
      BY <3>1 DEF LeavesLocks
    <3> QED
      BY <3>2, LockTypes
  <2>6. /\ DBInUse' = DBInUse /\ foreign' = foreign
        /\ lost' = lost \cup ToSet(notifications[c]) \cup Unlisted(v, notifications'[v])
    BY <1>18 DEF TerminateOther
  <2> QED
    BY <2>1, <2>3, <2>4, <2>5, <2>6
<1>19. ASSUME NEW t \in Thread, TakeList(t) PROVE TypeOK'
  <2>1. <<>> \in Seq(Box) /\ notifications[t] \in Seq(Box)
    OBVIOUS
  <2>2. pc' \in [Thread -> Location]
    BY <1>19 DEF TakeList, Goto
  <2>3. notifications' \in [Thread -> Seq(Box)] /\ pending' \in [Thread -> Seq(Box)]
    BY <1>19, <2>1 DEF TakeList
  <2> QED
    BY <1>19, <2>2, <2>3 DEF TakeList
<1>20. ASSUME UNCHANGED vars PROVE TypeOK'
  BY <1>20 DEF vars
<1> QED
  BY <1>1, <1>2, <1>3, <1>4, <1>5, <1>6, <1>7, <1>8, <1>9, <1>10, <1>11, <1>12,
     <1>13, <1>14, <1>15, <1>16, <1>17, <1>18, <1>19, <1>20 DEF Next, Step
-----------------------------------------------------------------------------
(* The parts of the invariant, one lemma each                              *)

\* Steps that touch neither an engine, nor an activation, nor a list.
Quiet(t) == Start(t) \/ CallEmuExecute(t) \/ EnterLock(t) \/ ScanFree(t)
            \/ LeaveLock(t) \/ LeaveForeign(t) \/ FinishExit(t)

\* Steps that end the innermost activation and do nothing else.
Pop(t) == ReturnBochs(t) \/ SwallowException(t)

LEMMA QuietUnchanged ==
    ASSUME NEW t \in Thread, Quiet(t)
    PROVE  UNCHANGED <<DBInUse, frames, notifications, pending, lost>>
BY DEF Quiet, Start, CallEmuExecute, EnterLock, ScanFree, LeaveLock, LeaveForeign,
       FinishExit

LEMMA LockHeldNext ==
    ASSUME IInv, [Next]_vars
    PROVE  LockHeld'
<1> USE DEF IInv, TypeOK, LockHeld
<1>1. ASSUME NEW t \in Thread, EnterLock(t) PROVE LockHeld'
  <2>1. \A u \in Thread : pc[u] \in {"scan", "claim", "register", "unlock"} => u = t
    BY <1>1, OneInside DEF EnterLock
  <2> QED
    BY <1>1, <2>1 DEF EnterLock, Goto, Entered
<1>2. ASSUME NEW t \in Thread, LeaveLock(t) PROVE LockHeld'
  <2>1. \A u \in Thread : pc[u] \in {"scan", "claim", "register", "unlock"} => u = t
    BY <1>2, OneInside DEF LeaveLock, Goto, CanEnter
  <2> QED
    BY <1>2, <2>1 DEF LeaveLock, Goto
<1>3. ASSUME NEW t \in Thread, Step(t), ~EnterLock(t), ~LeaveLock(t) PROVE LockHeld'
  BY <1>3 DEF Step, Start, CallEmuExecute, ScanFree, ScanFull, Claim,
     RegisterExitCall, ReturnBochs, Unregister, Release, SwallowException,
     UnhandledException, LeaveForeign, BeginExit, TakeList, DeliverFreeDB, FinishExit, Goto
<1>4. ASSUME NEW c \in Thread, NEW v \in Thread, c # v, TerminateOther(c, v)
      PROVE  LockHeld'
  <2>1. /\ LeavesLocks(v)
        /\ \A u \in Thread : pc'[u] \in {"scan", "claim", "register", "unlock"}
                               => u # v /\ pc[u] = pc'[u]
    BY <1>4 DEF TerminateOther
  <2>2. CASE DosboxLock' = DosboxLock
    BY <2>1, <2>2
  <2>3. CASE CanEnter(DosboxLock, v)
    <3>1. \A u \in Thread : pc[u] \in {"scan", "claim", "register", "unlock"} => u = v
      BY <2>3, OneInside
    <3> QED
      BY <2>1, <3>1
  <2> QED
    BY <2>1, <2>2, <2>3 DEF LeavesLocks
<1>5. ASSUME UNCHANGED vars PROVE LockHeld'
  BY <1>5 DEF vars
<1> QED
  BY <1>1, <1>2, <1>3, <1>4, <1>5 DEF Next

LEMMA ChosenIdleNext ==
    ASSUME IInv, [Next]_vars
    PROVE  ChosenIdle'
<1> USE DEF IInv, TypeOK, ChosenIdle
<1>1. ASSUME NEW t \in Thread, ScanFree(t) PROVE ChosenIdle'
  BY <1>1 DEF ScanFree, Goto
<1>2. ASSUME NEW t \in Thread, Claim(t) PROVE ChosenIdle'
  <2>1. \A u \in Thread : pc[u] = "claim" => u = t
    BY <1>2, OneInside DEF Claim, Goto, CanEnter, LockHeld
  <2> QED
    BY <1>2, <2>1 DEF Claim, Goto
<1>3. ASSUME NEW t \in Thread, Release(t) \/ DeliverFreeDB(t) PROVE ChosenIdle'
  <2>1. chosen' = chosen /\ \A u \in Thread : pc'[u] = "claim" => pc[u] = "claim"
    BY <1>3 DEF Release, DeliverFreeDB, Goto
  <2>2. \A i \in Box : DBInUse[i] = NoThread => DBInUse'[i] = NoThread
    BY <1>3 DEF Release, DeliverFreeDB
  <2> QED
    BY <2>1, <2>2
<1>4. ASSUME NEW t \in Thread, Step(t), ~ScanFree(t), ~Claim(t), ~Release(t),
             ~DeliverFreeDB(t)
      PROVE  ChosenIdle'
  BY <1>4 DEF Step, Start, CallEmuExecute, EnterLock, ScanFull, RegisterExitCall,
     LeaveLock, ReturnBochs, Unregister, SwallowException, UnhandledException,
     LeaveForeign, BeginExit, TakeList, FinishExit, Goto
<1>5. ASSUME NEW c \in Thread, NEW v \in Thread, c # v, TerminateOther(c, v)
      PROVE  ChosenIdle'
  BY <1>5 DEF TerminateOther
<1>6. ASSUME UNCHANGED vars PROVE ChosenIdle'
  BY <1>6 DEF vars
<1> QED
  BY <1>1, <1>2, <1>3, <1>4, <1>5, <1>6 DEF Next

LEMMA DeliveryPhaseNext ==
    ASSUME IInv, [Next]_vars
    PROVE  DeliveryPhase'
<1> USE DEF IInv, TypeOK, DeliveryPhase
<1>1. ASSUME NEW t \in Thread, DeliverFreeDB(t) PROVE DeliveryPhase'
  <2>1. ToSet(Tail(pending[t])) \subseteq ToSet(pending[t])
    BY <1>1, TailProperties DEF DeliverFreeDB
  <2> QED
    BY <1>1, <2>1 DEF DeliverFreeDB
<1>2. ASSUME NEW t \in Thread, BeginExit(t) \/ TakeList(t) PROVE DeliveryPhase'
  BY <1>2 DEF BeginExit, TakeList, Goto
<1>3. ASSUME NEW t \in Thread, FinishExit(t) PROVE DeliveryPhase'
  BY <1>3 DEF FinishExit, Goto
<1>4. ASSUME NEW t \in Thread, Step(t), ~DeliverFreeDB(t), ~BeginExit(t), ~TakeList(t),
             ~FinishExit(t)
      PROVE  DeliveryPhase'
  BY <1>4 DEF Step, Start, CallEmuExecute, EnterLock, ScanFree, ScanFull, Claim,
     RegisterExitCall, LeaveLock, ReturnBochs, Unregister, Release, SwallowException,
     UnhandledException, LeaveForeign, Goto
<1>5. ASSUME NEW c \in Thread, NEW v \in Thread, c # v, TerminateOther(c, v)
      PROVE  DeliveryPhase'
  <2>1. /\ \A u \in Thread : pending'[u] = IF u = v THEN <<>> ELSE pending[u]
        /\ \A u \in Thread : frames'[u] = IF u = v THEN <<>> ELSE frames[u]
        /\ \A u \in Thread : pc'[u] = IF u = c THEN "notify"
                                      ELSE IF u = v THEN "off" ELSE pc[u]
        /\ pc[c] = "run"
        /\ \A u \in Thread \ {v} : notifications'[u] = notifications[u]
    BY <1>5, KilledList DEF TerminateOther
  <2>2. lost \cup ToSet(notifications[c]) \subseteq lost'
    BY <1>5 DEF TerminateOther
  <2> QED
    BY <1>5, <2>1, <2>2, ToSetEmpty
<1>6. ASSUME UNCHANGED vars PROVE DeliveryPhase'
  BY <1>6 DEF vars
<1> QED
  BY <1>1, <1>2, <1>3, <1>4, <1>5, <1>6 DEF Next

\* What the owner's marks are worth: an intact engine that is marked with t is on no
\* list and under no activation of another thread.
LEMMA Marked ==
    ASSUME FramesOwned, RegisteredByHolder, NEW i \in Intact, NEW t \in Thread,
           \/ i \in ToSet(frames[t])
           \/ i \in ToSet(notifications[t])
           \/ i \in ToSet(pending[t])
    PROVE  DBInUse[i] = t
BY DEF FramesOwned, RegisteredByHolder

\* What the steps do to the stack of activations of a thread.
LEMMA FramesSteps ==
    ASSUME TypeOK, NEW t \in Thread
    PROVE  /\ frames[t] # <<>> =>
                  /\ Top(t) \in ToSet(frames[t])
                  /\ ToSet(frames[t]) = {Top(t)} \cup ToSet(Front(frames[t]))
                  /\ \A x : Once(frames[t], x) => Once(Front(frames[t]), x)
                  /\ Once(frames[t], Top(t)) => Top(t) \notin ToSet(Front(frames[t]))
           /\ \A i \in Box \cup {Bochs} :
                  /\ Append(frames[t], i) # <<>>
                  /\ Last(Append(frames[t], i)) = i
                  /\ ToSet(Append(frames[t], i)) = {i} \cup ToSet(frames[t])
                  /\ \A x : Once(frames[t], x) /\ (x = i => x \notin ToSet(frames[t]))
                            => Once(Append(frames[t], i), x)
<1>1. frames[t] \in Seq(Box \cup {Bochs})
  BY DEF TypeOK
<1>2. ASSUME frames[t] # <<>>
      PROVE  /\ Top(t) \in ToSet(frames[t])
             /\ ToSet(frames[t]) = {Top(t)} \cup ToSet(Front(frames[t]))
             /\ \A x : Once(frames[t], x) => Once(Front(frames[t]), x)
             /\ Once(frames[t], Top(t)) => Top(t) \notin ToSet(Front(frames[t]))
  BY <1>1, <1>2, FrontElements DEF Top
<1>3. ASSUME NEW i \in Box \cup {Bochs}
      PROVE  /\ Append(frames[t], i) # <<>>
             /\ Last(Append(frames[t], i)) = i
             /\ ToSet(Append(frames[t], i)) = {i} \cup ToSet(frames[t])
             /\ \A x : Once(frames[t], x) /\ (x = i => x \notin ToSet(frames[t]))
                       => Once(Append(frames[t], i), x)
  BY <1>1, AppendElements
<1> QED
  BY <1>2, <1>3

\* What they do to the list of a thread.
LEMMA ListSteps ==
    ASSUME TypeOK, NEW t \in Thread
    PROVE  /\ \A i \in Box :
                  /\ ToSet(Cons(i, notifications[t])) = {i} \cup ToSet(notifications[t])
                  /\ \A x : /\ Once(notifications[t], x)
                            /\ x = i => x \notin ToSet(notifications[t])
                            => Once(Cons(i, notifications[t]), x)
                  /\ ToSet(RemoveFirst(notifications[t], i)) \subseteq ToSet(notifications[t])
                  /\ ToSet(notifications[t]) \ {i}
                        \subseteq ToSet(RemoveFirst(notifications[t], i))
                  /\ \A x : Once(notifications[t], x)
                            => Once(RemoveFirst(notifications[t], i), x)
                  /\ Once(notifications[t], i)
                        => i \notin ToSet(RemoveFirst(notifications[t], i))
           /\ pending[t] # <<>> =>
                  /\ Head(pending[t]) \in ToSet(pending[t])
                  /\ ToSet(pending[t]) = {Head(pending[t])} \cup ToSet(Tail(pending[t]))
                  /\ \A x : Once(pending[t], x) => Once(Tail(pending[t]), x)
                  /\ Once(pending[t], Head(pending[t]))
                        => Head(pending[t]) \notin ToSet(Tail(pending[t]))
<1>1. notifications[t] \in Seq(Box) /\ pending[t] \in Seq(Box)
  BY DEF TypeOK
<1>2. ASSUME NEW i \in Box
      PROVE  /\ ToSet(Cons(i, notifications[t])) = {i} \cup ToSet(notifications[t])
             /\ \A x : /\ Once(notifications[t], x)
                       /\ x = i => x \notin ToSet(notifications[t])
                       => Once(Cons(i, notifications[t]), x)
  BY <1>1, ConsProperties
<1>3. ASSUME NEW i \in Box
      PROVE  /\ ToSet(RemoveFirst(notifications[t], i)) \subseteq ToSet(notifications[t])
             /\ ToSet(notifications[t]) \ {i}
                   \subseteq ToSet(RemoveFirst(notifications[t], i))
             /\ \A x : Once(notifications[t], x)
                       => Once(RemoveFirst(notifications[t], i), x)
             /\ Once(notifications[t], i)
                   => i \notin ToSet(RemoveFirst(notifications[t], i))
  BY <1>1, RemoveFirstProperties
<1>4. ASSUME pending[t] # <<>>
      PROVE  /\ Head(pending[t]) \in ToSet(pending[t])
             /\ ToSet(pending[t]) = {Head(pending[t])} \cup ToSet(Tail(pending[t]))
             /\ \A x : Once(pending[t], x) => Once(Tail(pending[t]), x)
             /\ Once(pending[t], Head(pending[t]))
                   => Head(pending[t]) \notin ToSet(Tail(pending[t]))
  BY <1>1, <1>4, TailProperties
<1> QED
  BY <1>2, <1>3, <1>4

LEMMA FramesOwnedNext ==
    ASSUME IInv, [Next]_vars
    PROVE  FramesOwned'
<1> USE DEF IInv, TypeOK, FramesOwned, Intact
<1>1. ASSUME NEW t \in Thread, Quiet(t) PROVE FramesOwned'
  BY <1>1, QuietUnchanged
<1>2. ASSUME NEW t \in Thread, ScanFull(t) PROVE FramesOwned'
  <2>1. /\ ToSet(Append(frames[t], Bochs)) = {Bochs} \cup ToSet(frames[t])
        /\ \A x : Once(frames[t], x) /\ x # Bochs => Once(Append(frames[t], Bochs), x)
    BY FramesSteps
  <2> QED
    BY <1>2, <2>1, Constants DEF ScanFull
<1>3. ASSUME NEW t \in Thread, Claim(t) PROVE FramesOwned'
  <2> DEFINE i == chosen[t]
  <2>1. i \in Box /\ DBInUse[i] = NoThread
    BY <1>3 DEF Claim, Goto, ChosenIdle
  <2>2. i \in Intact => \A u \in Thread : i \notin ToSet(frames[u])
    BY <2>1, Constants
  <2>3. /\ ToSet(Append(frames[t], i)) = {i} \cup ToSet(frames[t])
        /\ \A x : Once(frames[t], x) /\ (x = i => x \notin ToSet(frames[t]))
                   => Once(Append(frames[t], i), x)
    <3> i \in Box \cup {Bochs}
      BY <2>1
    <3> HIDE DEF i
    <3> QED
      BY FramesSteps
  <2> QED
    BY <1>3, <2>1, <2>2, <2>3 DEF Claim
<1>4. ASSUME NEW t \in Thread, Pop(t) PROVE FramesOwned'
  <2>1. /\ ToSet(Front(frames[t])) \subseteq ToSet(frames[t])
        /\ \A x : Once(frames[t], x) => Once(Front(frames[t]), x)
    BY <1>4, FramesSteps DEF Pop, ReturnBochs, SwallowException
  <2> QED
    BY <1>4, <2>1 DEF Pop, ReturnBochs, SwallowException
<1>5. ASSUME NEW t \in Thread, Release(t) PROVE FramesOwned'
  <2>1. /\ ToSet(Front(frames[t])) \subseteq ToSet(frames[t])
        /\ \A x : Once(frames[t], x) => Once(Front(frames[t]), x)
        /\ Once(frames[t], Top(t)) => Top(t) \notin ToSet(Front(frames[t]))
        /\ Top(t) \in ToSet(frames[t])
        /\ Top(t) \in Box
    BY <1>5, FramesSteps DEF Release, Goto, Window
  <2>2. Top(t) \in Intact => \A u \in Thread : Top(t) \in ToSet(frames[u]) => u = t
    BY <2>1
  <2> QED
    BY <1>5, <2>1, <2>2 DEF Release
<1>6. ASSUME NEW t \in Thread, UnhandledException(t) \/ BeginExit(t) PROVE FramesOwned'
  <2>1. /\ frames' = [frames EXCEPT ![t] = <<>>]
        /\ UNCHANGED <<DBInUse, lost>>
    BY <1>6 DEF UnhandledException, BeginExit
  <2>2. \A u \in Thread : frames'[u] = IF u = t THEN <<>> ELSE frames[u]
    BY <2>1
  <2> QED
    BY <2>1, <2>2, ToSetEmpty
<1>7. ASSUME NEW t \in Thread, DeliverFreeDB(t) PROVE FramesOwned'
  <2> DEFINE i == Head(pending[t])
  <2>1. i \in ToSet(pending[t])
    BY <1>7, ListSteps DEF DeliverFreeDB
  <2>2. i \in Intact => \A u \in Thread : i \notin ToSet(frames[u])
    <3> SUFFICES ASSUME i \in Intact, NEW u \in Thread, i \in ToSet(frames[u])
                 PROVE  FALSE
      OBVIOUS
    <3>1. u = t
      BY <2>1, Marked
    <3>2. frames[t] = <<>>
      BY <1>7, <2>1 DEF DeliverFreeDB, DeliveryPhase
    <3> QED
      BY <3>1, <3>2, ToSetEmpty
  <2> QED
    BY <1>7, <2>2 DEF DeliverFreeDB
<1>8. ASSUME NEW t \in Thread, RegisterExitCall(t) \/ Unregister(t) \/ TakeList(t)
      PROVE  FramesOwned'
  BY <1>8 DEF RegisterExitCall, Unregister, TakeList
<1>9. ASSUME NEW c \in Thread, NEW v \in Thread, c # v, TerminateOther(c, v)
      PROVE  FramesOwned'
  BY <1>9, ToSetEmpty DEF TerminateOther
<1>10. ASSUME UNCHANGED vars PROVE FramesOwned'
  BY <1>10 DEF vars
<1> QED
  BY <1>1, <1>2, <1>3, <1>4, <1>5, <1>6, <1>7, <1>8, <1>9, <1>10 DEF Next, Step, Quiet, Pop

\* The lists of the threads before and after each step that changes one.
LEMMA RegisteredByHolderNext ==
    ASSUME IInv, [Next]_vars
    PROVE  RegisteredByHolder'
<1> USE DEF IInv, TypeOK, RegisteredByHolder, Intact
<1>1. ASSUME NEW t \in Thread, Quiet(t) PROVE RegisteredByHolder'
  BY <1>1, QuietUnchanged
<1>2. ASSUME NEW t \in Thread, ScanFull(t) \/ Pop(t) \/ UnhandledException(t) \/ BeginExit(t)
      PROVE  RegisteredByHolder'
  BY <1>2 DEF ScanFull, Pop, ReturnBochs, SwallowException, UnhandledException, BeginExit
<1>3. ASSUME NEW t \in Thread, Claim(t) PROVE RegisteredByHolder'
  <2>1. chosen[t] \in Box /\ DBInUse[chosen[t]] = NoThread
    BY <1>3 DEF Claim, Goto, ChosenIdle
  <2>2. chosen[t] \in Intact => \A u \in Thread :
            chosen[t] \notin ToSet(notifications[u]) \cup ToSet(pending[u])
    BY <2>1, Constants
  <2> QED
    BY <1>3, <2>1, <2>2 DEF Claim
<1>4. ASSUME NEW t \in Thread, RegisterExitCall(t) PROVE RegisteredByHolder'
  <2>1. Top(t) \in Box /\ Top(t) \in ToSet(frames[t])
    BY <1>4, FramesSteps DEF RegisterExitCall, Goto, Window
  <2>2. ToSet(Cons(Top(t), notifications[t])) = {Top(t)} \cup ToSet(notifications[t])
    BY <2>1, ListSteps
  <2>3. Top(t) \in Intact => DBInUse[Top(t)] = t
    BY <2>1, Marked
  <2> QED
    BY <1>4, <2>2, <2>3 DEF RegisterExitCall
<1>5. ASSUME NEW t \in Thread, Unregister(t) PROVE RegisteredByHolder'
  <2>1. Top(t) \in Box
    BY <1>5, StepTypes DEF Unregister
  <2>2. ToSet(RemoveFirst(notifications[t], Top(t))) \subseteq ToSet(notifications[t])
    BY <2>1, ListSteps
  <2> QED
    BY <1>5, <2>2 DEF Unregister
<1>6. ASSUME NEW t \in Thread, Release(t) PROVE RegisteredByHolder'
  <2>1. /\ Top(t) \in Box
        /\ Top(t) \in ToSet(frames[t])
        /\ Top(t) \in Intact => Top(t) \notin ToSet(notifications[t])
    BY <1>6, FramesSteps DEF Release, Goto, Window
  <2>2. pending[t] = <<>>
    BY <1>6 DEF Release, Goto, DeliveryPhase
  <2>3. Top(t) \in Intact => \A u \in Thread :
            Top(t) \notin ToSet(notifications[u]) \cup ToSet(pending[u])
    BY <2>1, <2>2, ToSetEmpty, Marked
  <2> QED
    BY <1>6, <2>1, <2>3 DEF Release
<1>7. ASSUME NEW t \in Thread, TakeList(t) PROVE RegisteredByHolder'
  <2>1. /\ \A u \in Thread : notifications'[u] = IF u = t THEN <<>> ELSE notifications[u]
        /\ \A u \in Thread : pending'[u] = IF u = t THEN notifications[t] ELSE pending[u]
        /\ UNCHANGED <<DBInUse, lost>>
    BY <1>7 DEF TakeList
  <2> QED
    BY <2>1, ToSetEmpty
<1>8. ASSUME NEW t \in Thread, DeliverFreeDB(t) PROVE RegisteredByHolder'
  <2> DEFINE i == Head(pending[t])
  <2>1. /\ i \in ToSet(pending[t])
        /\ ToSet(Tail(pending[t])) \subseteq ToSet(pending[t])
        /\ Once(pending[t], i) => i \notin ToSet(Tail(pending[t]))
    BY <1>8, ListSteps DEF DeliverFreeDB
  <2>2. i \in Intact => notifications[t] = <<>> /\ i \notin ToSet(Tail(pending[t]))
    BY <1>8, <2>1 DEF DeliverFreeDB, DeliveryPhase, ListedOnce
  <2>3. i \in Intact => \A u \in Thread \ {t} :
            i \notin ToSet(notifications[u]) \cup ToSet(pending[u])
    BY <2>1, Marked
  <2> HIDE DEF i
  <2>4. /\ \A u \in Thread : pending'[u] = IF u = t THEN Tail(pending[t]) ELSE pending[u]
        /\ \A j \in Box : DBInUse'[j] = IF j = i THEN NoThread ELSE DBInUse[j]
        /\ UNCHANGED <<notifications, lost>>
    BY <1>8 DEF DeliverFreeDB, i
  <2>5. SUFFICES ASSUME NEW u \in Thread, NEW j \in Intact,
                        j \in ToSet(notifications[u]) \cup ToSet(pending'[u])
                 PROVE  DBInUse'[j] = u
    BY <2>4
  <2>6. j # i
    BY <2>1, <2>2, <2>3, <2>4, <2>5, ToSetEmpty
  <2>7. j \in ToSet(notifications[u]) \cup ToSet(pending[u])
    BY <2>1, <2>4, <2>5
  <2> QED
    BY <2>4, <2>6, <2>7
<1>9. ASSUME NEW c \in Thread, NEW v \in Thread, c # v, TerminateOther(c, v)
      PROVE  RegisteredByHolder'
  <2>1. /\ \A u \in Thread : notifications'[u] \in {notifications[u], <<>>}
        /\ \A u \in Thread : pending'[u] \in {pending[u], <<>>}
        /\ UNCHANGED DBInUse
        /\ lost \subseteq lost'
    BY <1>9, KilledList DEF TerminateOther
  <2> QED
    BY <2>1, ToSetEmpty
<1>10. ASSUME UNCHANGED vars PROVE RegisteredByHolder'
  BY <1>10 DEF vars
<1> QED
  BY <1>1, <1>2, <1>3, <1>4, <1>5, <1>6, <1>7, <1>8, <1>9, <1>10 DEF Next, Step, Quiet, Pop

LEMMA ListedOnceNext ==
    ASSUME IInv, [Next]_vars
    PROVE  ListedOnce'
<1> USE DEF IInv, TypeOK, ListedOnce, Intact
<1>1. ASSUME UNCHANGED <<notifications, pending, lost>> PROVE ListedOnce'
  BY <1>1
<1>2. ASSUME NEW t \in Thread, RegisterExitCall(t) PROVE ListedOnce'
  <2>1. Top(t) \in Box /\ (Top(t) \in Intact => Top(t) \notin ToSet(notifications[t]))
    BY <1>2 DEF RegisterExitCall, Goto, Window
  <2>2. \A x \in Intact : Once(Cons(Top(t), notifications[t]), x)
    BY <2>1, ListSteps
  <2> QED
    BY <1>2, <2>2 DEF RegisterExitCall
<1>3. ASSUME NEW t \in Thread, Unregister(t) PROVE ListedOnce'
  <2>1. Top(t) \in Box
    BY <1>3, StepTypes DEF Unregister
  <2>2. \A x \in Intact : Once(RemoveFirst(notifications[t], Top(t)), x)
    BY <2>1, ListSteps
  <2> QED
    BY <1>3, <2>2 DEF Unregister
<1>4. ASSUME NEW t \in Thread, TakeList(t) PROVE ListedOnce'
  <2>1. /\ \A u \in Thread : notifications'[u] = IF u = t THEN <<>> ELSE notifications[u]
        /\ \A u \in Thread : pending'[u] = IF u = t THEN notifications[t] ELSE pending[u]
        /\ UNCHANGED lost
    BY <1>4 DEF TakeList
  <2> QED
    BY <2>1, ToSetEmpty
<1>5. ASSUME NEW t \in Thread, DeliverFreeDB(t) PROVE ListedOnce'
  <2>1. \A x \in Intact : Once(Tail(pending[t]), x)
    BY <1>5, ListSteps DEF DeliverFreeDB
  <2> QED
    BY <1>5, <2>1 DEF DeliverFreeDB
<1>6. ASSUME NEW c \in Thread, NEW v \in Thread, c # v, TerminateOther(c, v)
      PROVE  ListedOnce'
  <2>1. /\ \A u \in Thread : notifications'[u] \in {notifications[u], <<>>}
        /\ \A u \in Thread : pending'[u] \in {pending[u], <<>>}
        /\ lost \subseteq lost'
    BY <1>6, KilledList DEF TerminateOther
  <2> QED
    BY <2>1, ToSetEmpty
<1>7. ASSUME NEW t \in Thread,
             \/ Quiet(t) \/ ScanFull(t) \/ Claim(t) \/ Pop(t) \/ Release(t)
             \/ UnhandledException(t) \/ BeginExit(t)
      PROVE  UNCHANGED <<notifications, pending, lost>>
  BY <1>7, QuietUnchanged DEF ScanFull, Claim, Pop, ReturnBochs, SwallowException,
     Release, UnhandledException, BeginExit
<1> QED
  BY <1>1, <1>2, <1>3, <1>4, <1>5, <1>6, <1>7 DEF Next, Step, Quiet, Pop, vars

LEMMA WindowNext ==
    ASSUME IInv, [Next]_vars
    PROVE  Window'
<1> USE DEF IInv, TypeOK, Window, Intact, Top
<1>1. ASSUME NEW t \in Thread, Claim(t) PROVE Window'
  <2>1. chosen[t] \in Box /\ DBInUse[chosen[t]] = NoThread
    BY <1>1 DEF Claim, Goto, ChosenIdle
  <2>2. chosen[t] \in Intact => chosen[t] \notin ToSet(notifications[t])
    BY <2>1, Constants, Marked
  <2>3. /\ Append(frames[t], chosen[t]) # <<>>
        /\ Last(Append(frames[t], chosen[t])) = chosen[t]
    BY <2>1, FramesSteps
  <2> QED
    BY <1>1, <2>1, <2>2, <2>3 DEF Claim, Goto
<1>2. ASSUME NEW t \in Thread, Unregister(t) PROVE Window'
  <2>1. Top(t) \in Box
    BY <1>2, StepTypes DEF Unregister
  <2>2. Top(t) \in Intact => Top(t) \notin ToSet(RemoveFirst(notifications[t], Top(t)))
    BY <2>1, ListSteps DEF ListedOnce
  <2> QED
    BY <1>2, <2>1, <2>2 DEF Unregister, Goto
<1>3. ASSUME NEW t \in Thread, RegisterExitCall(t) PROVE Window'
  BY <1>3 DEF RegisterExitCall, Goto
<1>4. ASSUME NEW t \in Thread, Step(t), ~Claim(t), ~Unregister(t), ~RegisterExitCall(t)
      PROVE  Window'
  <2>1. \A u \in Thread :
            pc'[u] \in {"register", "release"} =>
                /\ pc[u] \in {"register", "release"}
                /\ frames'[u] = frames[u]
                /\ notifications'[u] = notifications[u]
    BY <1>4 DEF Step, Start, CallEmuExecute, EnterLock, ScanFree, ScanFull, LeaveLock,
       ReturnBochs, Release, SwallowException, UnhandledException, LeaveForeign,
       BeginExit, TakeList, DeliverFreeDB, FinishExit, Goto
  <2>2. lost' = lost
    BY <1>4 DEF Step, Start, CallEmuExecute, EnterLock, ScanFree, ScanFull, LeaveLock,
       ReturnBochs, Release, SwallowException, UnhandledException, LeaveForeign,
       BeginExit, TakeList, DeliverFreeDB, FinishExit
  <2> QED
    BY <2>1, <2>2
<1>5. ASSUME NEW c \in Thread, NEW v \in Thread, c # v, TerminateOther(c, v)
      PROVE  Window'
  <2>1. \A u \in Thread :
            pc'[u] \in {"register", "release"} =>
                /\ pc[u] \in {"register", "release"}
                /\ frames'[u] = frames[u]
                /\ notifications'[u] = notifications[u]
    BY <1>5, KilledList DEF TerminateOther
  <2>2. lost \subseteq lost'
    BY <1>5 DEF TerminateOther
  <2> QED
    BY <2>1, <2>2
<1>6. ASSUME UNCHANGED vars PROVE Window'
  BY <1>6 DEF vars
<1> QED
  BY <1>1, <1>2, <1>3, <1>4, <1>5, <1>6 DEF Next

\* Only the step of a thread itself moves an engine of that thread between its list,
\* its deliveries and the two windows.
LEMMA BusyBoxRecoverableNext ==
    ASSUME IInv, [Next]_vars
    PROVE  BusyBoxRecoverable'
<1> USE DEF IInv, TypeOK, BusyBoxRecoverable, Intact
<1>1. ASSUME NEW t \in Thread, Quiet(t) PROVE BusyBoxRecoverable'
  <2>1. \A u \in Thread : pc[u] \in {"register", "release"} => pc'[u] = pc[u]
    BY <1>1 DEF Quiet, Start, CallEmuExecute, EnterLock, ScanFree, LeaveLock,
       LeaveForeign, FinishExit, Goto
  <2> QED
    BY <1>1, <2>1, QuietUnchanged DEF Top
<1>2. ASSUME NEW t \in Thread, ScanFull(t) \/ Pop(t) \/ UnhandledException(t) \/ BeginExit(t)
      PROVE  BusyBoxRecoverable'
  <2>1. \A u \in Thread : pc[u] \in {"register", "release"} =>
                              pc'[u] = pc[u] /\ frames'[u] = frames[u]
    BY <1>2 DEF ScanFull, Pop, ReturnBochs, SwallowException, UnhandledException, BeginExit,
       Goto
  <2>2. UNCHANGED <<DBInUse, notifications, pending, lost>>
    BY <1>2 DEF ScanFull, Pop, ReturnBochs, SwallowException, UnhandledException, BeginExit
  <2> QED
    BY <2>1, <2>2 DEF Top
<1>3. ASSUME NEW t \in Thread, Claim(t) PROVE BusyBoxRecoverable'
  <2>1. chosen[t] \in Box /\ Last(Append(frames[t], chosen[t])) = chosen[t]
    BY <1>3, FramesSteps DEF Claim, Goto, ChosenIdle
  <2>2. /\ pc'[t] = "register"
        /\ Top(t)' = chosen[t]
        /\ \A u \in Thread \ {t} : pc'[u] = pc[u] /\ Top(u)' = Top(u)
        /\ \A j \in Box : DBInUse'[j] = IF j = chosen[t] THEN t ELSE DBInUse[j]
        /\ UNCHANGED <<notifications, pending, lost>>
    BY <1>3, <2>1 DEF Claim, Goto, Top
  <2>3. pc[t] = "claim"
    BY <1>3 DEF Claim, Goto
  <2>4. SUFFICES ASSUME NEW u \in Thread, NEW i \in Intact, DBInUse'[i] = u
                 PROVE  \/ i \in ToSet(notifications[u]) \cup ToSet(pending'[u])
                        \/ pc'[u] \in {"register", "release"} /\ Top(u)' = i
    BY <2>2
  <2>5. CASE i = chosen[t]
    BY <2>2, <2>4, <2>5
  <2>6. CASE i # chosen[t]
    <3>1. DBInUse[i] = u
      BY <2>2, <2>4, <2>6
    <3>2. CASE u = t
      BY <2>2, <2>3, <3>1, <3>2
    <3>3. CASE u # t
      BY <2>2, <3>1, <3>3
    <3> QED
      BY <3>2, <3>3
  <2> QED
    BY <2>5, <2>6
<1>4. ASSUME NEW t \in Thread, RegisterExitCall(t) PROVE BusyBoxRecoverable'
  <2>1. Top(t) \in Box
    BY <1>4 DEF RegisterExitCall, Goto, Window
  <2>2. ToSet(Cons(Top(t), notifications[t])) = {Top(t)} \cup ToSet(notifications[t])
    BY <2>1, ListSteps
  <2>3. \A u \in Thread \ {t} : pc'[u] = pc[u] /\ Top(u)' = Top(u)
                               /\ notifications'[u] = notifications[u]
    BY <1>4 DEF RegisterExitCall, Goto, Top
  <2> QED
    BY <1>4, <2>2, <2>3 DEF RegisterExitCall
<1>5. ASSUME NEW t \in Thread, Unregister(t) PROVE BusyBoxRecoverable'
  <2>1. Top(t) \in Box
    BY <1>5, StepTypes DEF Unregister
  <2>2. ToSet(notifications[t]) \ {Top(t)} \subseteq ToSet(RemoveFirst(notifications[t], Top(t)))
    BY <2>1, ListSteps
  <2>3. /\ \A u \in Thread \ {t} : pc'[u] = pc[u] /\ notifications'[u] = notifications[u]
        /\ \A u \in Thread : Top(u)' = Top(u)
        /\ pc[t] = "run" /\ pc'[t] = "release"
    BY <1>5 DEF Unregister, Goto, Top
  <2> QED
    BY <1>5, <2>2, <2>3 DEF Unregister
<1>6. ASSUME NEW t \in Thread, Release(t) PROVE BusyBoxRecoverable'
  <2>1. /\ \A u \in Thread \ {t} : pc'[u] = pc[u] /\ Top(u)' = Top(u)
        /\ \A j \in Box : DBInUse'[j] = IF j = Top(t) THEN NoThread ELSE DBInUse[j]
        /\ UNCHANGED <<notifications, pending, lost>>
    BY <1>6 DEF Release, Goto, Top
  <2>2. SUFFICES ASSUME NEW u \in Thread, NEW i \in Intact, DBInUse'[i] = u
                 PROVE  \/ i \in ToSet(notifications[u]) \cup ToSet(pending'[u])
                        \/ pc'[u] \in {"register", "release"} /\ Top(u)' = i
    BY <2>1
  <2>3. i # Top(t) /\ DBInUse[i] = u
    BY <2>1, <2>2, NoThreadAssumption
  <2> QED
    BY <2>1, <2>3
<1>7. ASSUME NEW t \in Thread, TakeList(t) PROVE BusyBoxRecoverable'
  <2>1. /\ \A u \in Thread \ {t} : /\ pc'[u] = pc[u]
                                   /\ Top(u)' = Top(u)
                                   /\ notifications'[u] = notifications[u]
                                   /\ pending'[u] = pending[u]
        /\ pc[t] \in {"exit", "notify"}
        /\ pending'[t] = notifications[t]
        /\ UNCHANGED <<DBInUse, lost>>
    BY <1>7 DEF TakeList, Goto, Top
  <2>2. pending[t] = <<>>
    BY <2>1 DEF DeliveryPhase
  <2> QED
    BY <2>1, <2>2, ToSetEmpty
<1>8. ASSUME NEW t \in Thread, DeliverFreeDB(t) PROVE BusyBoxRecoverable'
  <2>1. ToSet(pending[t]) = {Head(pending[t])} \cup ToSet(Tail(pending[t]))
    BY <1>8, ListSteps DEF DeliverFreeDB
  <2>2. /\ \A u \in Thread : Top(u)' = Top(u)
        /\ \A u \in Thread \ {t} : pending'[u] = pending[u]
        /\ pending'[t] = Tail(pending[t])
        /\ \A j \in Box : DBInUse'[j] = IF j = Head(pending[t]) THEN NoThread ELSE DBInUse[j]
        /\ UNCHANGED <<pc, notifications, lost>>
    BY <1>8 DEF DeliverFreeDB, Top
  <2>3. SUFFICES ASSUME NEW u \in Thread, NEW i \in Intact, DBInUse'[i] = u
                 PROVE  \/ i \in ToSet(notifications[u]) \cup ToSet(pending'[u])
                        \/ pc'[u] \in {"register", "release"} /\ Top(u)' = i
    BY <2>2
  <2>4. i # Head(pending[t]) /\ DBInUse[i] = u
    BY <2>2, <2>3, NoThreadAssumption
  <2>5. CASE u = t
    BY <2>1, <2>2, <2>4, <2>5
  <2>6. CASE u # t
    BY <2>2, <2>4, <2>6
  <2> QED
    BY <2>5, <2>6
<1>9. ASSUME NEW c \in Thread, NEW v \in Thread, c # v, TerminateOther(c, v)
      PROVE  BusyBoxRecoverable'
  <2>1. /\ \A u \in Thread \ {c, v} : /\ pc'[u] = pc[u]
                                      /\ Top(u)' = Top(u)
                                      /\ notifications'[u] = notifications[u]
                                      /\ pending'[u] = pending[u]
        /\ UNCHANGED DBInUse
        /\ lost' = lost \cup ToSet(notifications[c]) \cup Unlisted(v, notifications'[v])
    BY <1>9, KilledList DEF TerminateOther, Top
  <2>2. pc[c] = "run" /\ pending[c] = <<>>
    BY <1>9 DEF TerminateOther, DeliveryPhase
  <2>3. \A i \in Box \ lost' : DBInUse[i] = v => i \in ToSet(notifications'[v])
    BY <2>1 DEF Unlisted
  <2>4. \A i \in Box \ lost' : DBInUse[i] # c
    BY <2>1, <2>2, ToSetEmpty
  <2> QED
    BY <2>1, <2>3, <2>4
<1>10. ASSUME UNCHANGED vars PROVE BusyBoxRecoverable'
  BY <1>10 DEF vars, Top
<1> QED
  BY <1>1, <1>2, <1>3, <1>4, <1>5, <1>6, <1>7, <1>8, <1>9, <1>10 DEF Next, Step, Quiet, Pop

-----------------------------------------------------------------------------
(* The theorems                                                            *)

LEMMA InitIInv == Init => IInv
<1> SUFFICES ASSUME Init PROVE IInv
  OBVIOUS
<1> USE DEF Init
<1>1. \A t \in Thread : frames[t] = <<>> /\ notifications[t] = <<>> /\ pending[t] = <<>>
  OBVIOUS
<1>2. TypeOK
  BY TypeInit
<1>3. LockHeld /\ ChosenIdle /\ Window
  BY DEF LockHeld, ChosenIdle, Window
<1>4. FramesOwned /\ RegisteredByHolder /\ ListedOnce /\ DeliveryPhase
  BY <1>1, ToSetEmpty DEF FramesOwned, RegisteredByHolder, ListedOnce, DeliveryPhase
<1>5. BusyBoxRecoverable
  BY Constants DEF BusyBoxRecoverable, Intact
<1> QED
  BY <1>2, <1>3, <1>4, <1>5 DEF IInv

\* The bookkeeping of the pool (marks in DBInUse, lists of exit calls, activations,
\* lock) agrees in every reachable state, whatever threads do and however they end.
THEOREM Invariant == Spec => []IInv
<1>1. Init => IInv
  BY InitIInv
<1>2. IInv /\ [Next]_vars => IInv'
  BY TypeNext, LockHeldNext, ChosenIdleNext, FramesOwnedNext, RegisteredByHolderNext,
     ListedOnceNext, WindowNext, DeliveryPhaseNext, BusyBoxRecoverableNext DEF IInv
<1> QED
  BY <1>1, <1>2, PTL DEF Spec

\* No step puts a value outside its type into a variable of the pool; in particular
\* the engine that is registered, cancelled or freed is always an engine.
THEOREM TypeCorrect == Spec => []TypeOK
BY Invariant, PTL DEF IInv

\* EmuExecute never runs two activations on one DOSBox engine that a TerminateThread
\* has not broken.
THEOREM EngineExclusive == Spec => []Exclusive
<1>1. IInv => Exclusive
  <2> SUFFICES ASSUME IInv, NEW i \in Intact, NEW t \in Thread, NEW u \in Thread,
                      NEW k \in 1 .. Len(frames[t]), NEW l \in 1 .. Len(frames[u]),
                      frames[t][k] = i, frames[u][l] = i
               PROVE  t = u /\ k = l
    BY DEF Exclusive
  <2>1. /\ frames[t] \in Seq(Box \cup {Bochs})
        /\ frames[u] \in Seq(Box \cup {Bochs})
    BY DEF IInv, TypeOK
  <2>2. i \in ToSet(frames[t]) /\ i \in ToSet(frames[u])
    BY <2>1, ToSetDef
  <2>3. t = u
    BY <2>2, Marked DEF IInv
  <2>4. k \in DOMAIN frames[t] /\ l \in DOMAIN frames[t]
    BY <2>1, <2>3, LenProperties
  <2> QED
    BY <2>3, <2>4 DEF IInv, FramesOwned, Once
<1> QED
  BY <1>1, Invariant, PTL

\* Every FreeDB that is registered or being delivered names an engine its thread
\* holds: no exit ever frees an engine that another thread runs.
THEOREM ExitFreesOwn == Spec => []RegisteredByHolder
BY Invariant, PTL DEF IInv

\* Every busy engine has a FreeDB in store that will give it back.
THEOREM NoEngineLeaks == Spec => []BusyBoxRecoverable
BY Invariant, PTL DEF IInv
=============================================================================
