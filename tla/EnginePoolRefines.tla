-------------------------- MODULE EnginePoolRefines --------------------------
(***************************************************************************)
(* Proof that EnginePool implements EngineLease.  The argument goes step   *)
(* by step through the actions: each grants a lease, ends activations,     *)
(* gives a lease back, breaks engines, or is invisible to EngineLease.     *)
(***************************************************************************)
EXTENDS EnginePoolProofs

-----------------------------------------------------------------------------
(* How the mapping changes with frames                                     *)

\* Where engine i runs after a step, when no thread or one thread runs it.
LEMMA ActivationsAfter ==
    ASSUME NEW i
    PROVE  /\ (\A u \in Thread : Positions(frames'[u], i) = Positions(frames[u], i))
                  => Activations(i)' = Activations(i)
           /\ (\A u \in Thread : Positions(frames'[u], i) = {}) => Activations(i)' = {}
           /\ \A t \in Thread : \A k :
                  /\ Positions(frames'[t], i) = {k}
                  /\ \A u \in Thread \ {t} : Positions(frames'[u], i) = {}
                  => Activations(i)' = {<<t, k>>}
<1>1. ASSUME \A u \in Thread : Positions(frames'[u], i) = Positions(frames[u], i)
      PROVE  Activations(i)' = Activations(i)
  BY <1>1 DEF Activations
<1>2. ASSUME \A u \in Thread : Positions(frames'[u], i) = {}
      PROVE  Activations(i)' = {}
  BY <1>2 DEF Activations
<1>3. ASSUME NEW t \in Thread, NEW k,
             Positions(frames'[t], i) = {k},
             \A u \in Thread \ {t} : Positions(frames'[u], i) = {}
      PROVE  Activations(i)' = {<<t, k>>}
  BY <1>3 DEF Activations
<1> QED
  BY <1>1, <1>2, <1>3

\* An engine nobody runs has no activation.
LEMMA NoActivation ==
    ASSUME TypeOK, NEW i, \A u \in Thread : i \notin ToSet(frames[u])
    PROVE  Activations(i) = {}
<1>1. \A u \in Thread : Positions(frames[u], i) = {}
  BY PositionsProperties DEF TypeOK
<1> QED
  BY <1>1 DEF Activations

\* What the steps do to the places of an engine on a stack of activations.
LEMMA PlacesSteps ==
    ASSUME TypeOK, NEW t \in Thread, NEW i
    PROVE  /\ Positions(<<>>, i) = {}
           /\ i \notin ToSet(frames[t]) => Positions(frames[t], i) = {}
           /\ \A j \in Box \cup {Bochs} :
                  /\ i # j => Positions(Append(frames[t], j), i) = Positions(frames[t], i)
                  /\ i = j /\ i \notin ToSet(frames[t])
                        => Positions(Append(frames[t], j), i) = {Len(frames[t]) + 1}
           /\ frames[t] # <<>> =>
                  /\ i # Top(t) => Positions(Front(frames[t]), i) = Positions(frames[t], i)
                  /\ i = Top(t) /\ Once(frames[t], i) => Positions(Front(frames[t]), i) = {}
<1>1. frames[t] \in Seq(Box \cup {Bochs})
  BY DEF TypeOK
<1>2. /\ Positions(frames[t], i) # {} <=> i \in ToSet(frames[t])
      /\ Positions(<<>>, i) = {}
  BY <1>1, PositionsProperties
<1>3. ASSUME NEW j \in Box \cup {Bochs}
      PROVE  Positions(Append(frames[t], j), i) =
                 Positions(frames[t], i) \cup (IF i = j THEN {Len(frames[t]) + 1} ELSE {})
  BY <1>1, PositionsProperties
<1>4. ASSUME frames[t] # <<>>
      PROVE  /\ i # Top(t) => Positions(Front(frames[t]), i) = Positions(frames[t], i)
             /\ i = Top(t) /\ Once(frames[t], i) => Positions(Front(frames[t]), i) = {}
  BY <1>1, <1>4, PositionsProperties DEF Top
<1> QED
  BY <1>2, <1>3, <1>4

-----------------------------------------------------------------------------
(* When a step of the pool is a given step of EngineLease                  *)

SameOn(S) == \A j \in S : /\ DBInUse'[j] = DBInUse[j]
                          /\ \A u \in Thread : Positions(frames'[u], j)
                                               = Positions(frames[u], j)
Gone(S) == \A j \in S, u \in Thread : Positions(frames'[u], j) = {}

LEMMA IsStutter ==
    ASSUME lost' = lost, SameOn(Intact)
    PROVE  UNCHANGED Lease!leaseVars
<1>1. \A j \in Intact : Activations(j)' = Activations(j)
  BY ActivationsAfter DEF SameOn
<1>2. Leases' = Leases
  BY DEF Leases, SameOn, Intact
<1>3. Running' = Running
  BY <1>1 DEF Running, Intact
<1> QED
  BY <1>2, <1>3 DEF Lease!leaseVars

LEMMA IsStop ==
    ASSUME lost' = lost, DBInUse' = DBInUse, NEW t \in Thread, NEW S \in SUBSET Intact,
           \A i \in S : DBInUse[i] = t, SameOn(Intact \ S), Gone(S)
    PROVE  Lease!LeaseNext
<1>1. /\ \A j \in Intact \ S : Activations(j)' = Activations(j)
      /\ \A j \in S : Activations(j)' = {}
  BY ActivationsAfter DEF SameOn, Gone
<1>2. Leases' = Leases /\ \A i \in S : Leases[i] = t
  BY DEF Leases, Intact
<1>3. Running' = [i \in Box |-> IF i \in S THEN {} ELSE Running[i]]
  BY <1>1 DEF Running, Intact
<1>4. Lease!Stop(t, S)
  BY <1>2, <1>3 DEF Lease!Stop, Lease!Sound, Lease!Without, Intact
<1>5. S \in SUBSET Box
  BY DEF Intact
<1> QED
  BY <1>4, <1>5 DEF Lease!LeaseNext

LEMMA IsGiveBack ==
    ASSUME lost' = lost, NEW t \in Thread, NEW i \in Intact,
           DBInUse[i] = t, DBInUse'[i] = NoThread,
           SameOn(Intact \ {i}), Gone({i})
    PROVE  Lease!LeaseNext
<1>1. /\ \A j \in Intact \ {i} : Activations(j)' = Activations(j)
      /\ Activations(i)' = {}
  BY ActivationsAfter DEF SameOn, Gone
<1>2. Leases' = [Leases EXCEPT ![i] = NoThread] /\ Leases[i] = t
  BY DEF Leases, Intact, SameOn
<1>3. Running' = [Running EXCEPT ![i] = {}]
  BY <1>1 DEF Running, Intact
<1>4. Lease!GiveBack(t, i)
  BY <1>2, <1>3 DEF Lease!GiveBack, Lease!Sound, Intact
<1> QED
  BY <1>4 DEF Lease!LeaseNext, Intact

LEMMA IsGrant ==
    ASSUME lost' = lost, NEW t \in Thread, NEW i \in Intact, NEW k,
           DBInUse[i] = NoThread, DBInUse'[i] = t, Activations(i) = {},
           Positions(frames'[t], i) = {k},
           \A u \in Thread \ {t} : Positions(frames'[u], i) = {},
           SameOn(Intact \ {i})
    PROVE  Lease!LeaseNext
<1>1. /\ \A j \in Intact \ {i} : Activations(j)' = Activations(j)
      /\ Activations(i)' = {<<t, k>>}
  BY ActivationsAfter DEF SameOn
<1>2. Leases' = [Leases EXCEPT ![i] = t] /\ Leases[i] = NoThread
  BY DEF Leases, Intact, SameOn
<1>3. Running' = [Running EXCEPT ![i] = {<<t, k>>}] /\ Running[i] = {}
  BY <1>1 DEF Running, Intact
<1>4. <<t, k>> \in Running'[i]
  BY <1>1 DEF Running, Intact
<1>5. Lease!Grant(t, i)
  BY <1>2, <1>3, <1>4 DEF Lease!Grant, Lease!Sound, Intact
<1> QED
  BY <1>5 DEF Lease!LeaseNext, Intact

LEMMA IsBreak ==
    ASSUME NEW c \in Thread, NEW v \in Thread, c # v,
           NEW S \in SUBSET Intact, NEW V \in SUBSET Intact,
           lost' = lost \cup V, DBInUse' = DBInUse,
           \A i \in S : DBInUse[i] = v, \A i \in V : DBInUse[i] \in {c, v},
           SameOn(Intact \ (S \cup V)), Gone(S)
    PROVE  Lease!LeaseNext
<1>1. /\ \A j \in Intact \ (S \cup V) : Activations(j)' = Activations(j)
      /\ \A j \in S : Activations(j)' = {}
  BY ActivationsAfter DEF SameOn, Gone
<1>2. /\ Leases' = [i \in Box |-> IF i \in V THEN NoThread ELSE Leases[i]]
      /\ \A i \in S : Leases[i] = v
      /\ \A i \in V : Leases[i] \in {c, v}
  BY DEF Leases, Intact
<1>3. Running' = [i \in Box |-> IF i \in S \cup V THEN {} ELSE Running[i]]
  BY <1>1 DEF Running, Intact
<1>4. Lease!Break(c, v, S, V)
  BY <1>2, <1>3 DEF Lease!Break, Lease!Sound, Lease!Without, Intact
<1>5. S \in SUBSET Box /\ V \in SUBSET Box
  BY DEF Intact
<1> QED
  BY <1>4, <1>5 DEF Lease!LeaseNext

-----------------------------------------------------------------------------
(* The steps                                                               *)

LEMMA LeaseInitially == Init => Lease!LeaseInit
<1> SUFFICES ASSUME Init PROVE Lease!LeaseInit
  OBVIOUS
<1>1. \A i : Activations(i) = {}
  BY DEF Activations, Init, Positions
<1> QED
  BY <1>1 DEF Init, Lease!LeaseInit, Leases, Running

\* Claim grants the lease of the engine the scan stopped at.
LEMMA ClaimGrants ==
    ASSUME IInv, NEW t \in Thread, Claim(t)
    PROVE  [Lease!LeaseNext]_Lease!leaseVars
<1> DEFINE i == chosen[t]
<1> USE DEF IInv
<1>1. /\ i \in Box
      /\ DBInUse[i] = NoThread
  BY DEF Claim, Goto, ChosenIdle
<1>2. /\ \A j \in Box : DBInUse'[j] = IF j = i THEN t ELSE DBInUse[j]
      /\ \A u \in Thread : frames'[u] = IF u = t THEN Append(frames[t], i) ELSE frames[u]
      /\ lost' = lost
  BY DEF Claim, TypeOK
<1> HIDE DEF i
<1>3. SameOn(Intact \ {i})
  <2>1. ASSUME NEW j \in Intact \ {i}, NEW u \in Thread
        PROVE  Positions(frames'[u], j) = Positions(frames[u], j)
    BY <1>1, <1>2, PlacesSteps
  <2> QED
    BY <1>2, <2>1 DEF SameOn, Intact
<1>4. CASE i \in Intact
  <2>1. \A u \in Thread : i \notin ToSet(frames[u])
    BY <1>1, <1>4, Constants, Marked
  <2>2. Activations(i) = {}
    BY <2>1, NoActivation
  <2>3. Positions(frames'[t], i) = {Len(frames[t]) + 1}
    BY <1>1, <1>2, <2>1, PlacesSteps
  <2>4. \A u \in Thread \ {t} : Positions(frames'[u], i) = {}
    BY <1>2, <2>1, PlacesSteps
  <2> QED
    BY <1>1, <1>2, <1>3, <1>4, <2>2, <2>3, <2>4, IsGrant
<1>5. CASE i \notin Intact
  BY <1>2, <1>3, <1>5, IsStutter DEF SameOn
<1> QED
  BY <1>4, <1>5

\* A normal return gives the engine of the innermost activation back.
LEMMA ReleaseGivesBack ==
    ASSUME IInv, NEW t \in Thread, Release(t)
    PROVE  [Lease!LeaseNext]_Lease!leaseVars
<1> DEFINE i == Top(t)
<1> USE DEF IInv
<1>1. /\ i \in Box
      /\ frames[t] # <<>>
      /\ i \in ToSet(frames[t])
  BY FramesSteps DEF Release, Goto, Window
<1>2. /\ \A j \in Box : DBInUse'[j] = IF j = i THEN NoThread ELSE DBInUse[j]
      /\ \A u \in Thread : frames'[u] = IF u = t THEN Front(frames[t]) ELSE frames[u]
      /\ lost' = lost
  BY DEF Release, TypeOK
<1>3. SameOn(Intact \ {i})
  <2>1. ASSUME NEW j \in Intact \ {i}, NEW u \in Thread
        PROVE  Positions(frames'[u], j) = Positions(frames[u], j)
    BY <1>1, <1>2, PlacesSteps
  <2> QED
    BY <1>2, <2>1 DEF SameOn, Intact
<1>4. CASE i \in Intact
  <2>1. DBInUse[i] = t
    BY <1>1, <1>4, Marked
  <2>2. Positions(frames'[t], i) = {}
    BY <1>1, <1>2, <1>4, PlacesSteps DEF FramesOwned
  <2>3. \A u \in Thread \ {t} : i \notin ToSet(frames[u])
    BY <1>4, <2>1, Marked
  <2>4. Gone({i})
    BY <1>2, <2>2, <2>3, PlacesSteps DEF Gone
  <2> QED
    BY <1>1, <1>2, <1>3, <1>4, <2>1, <2>4, IsGiveBack
<1>5. CASE i \notin Intact
  BY <1>2, <1>3, <1>5, IsStutter DEF SameOn
<1> QED
  BY <1>4, <1>5

\* A fault stops the innermost activation; the thread keeps the lease.
LEMMA PopStops ==
    ASSUME IInv, NEW t \in Thread, Pop(t)
    PROVE  [Lease!LeaseNext]_Lease!leaseVars
<1> DEFINE i == Top(t)
<1> USE DEF IInv
<1>1. /\ frames[t] # <<>>
      /\ i \in ToSet(frames[t])
  BY FramesSteps DEF Pop, ReturnBochs, SwallowException
<1>2. /\ DBInUse' = DBInUse
      /\ \A u \in Thread : frames'[u] = IF u = t THEN Front(frames[t]) ELSE frames[u]
      /\ lost' = lost
  BY DEF Pop, ReturnBochs, SwallowException, TypeOK
<1>3. SameOn(Intact \ {i})
  BY <1>1, <1>2, PlacesSteps DEF SameOn
<1>4. CASE i \in Intact
  <2>1. DBInUse[i] = t
    BY <1>1, <1>4, Marked
  <2>2. Positions(frames'[t], i) = {}
    BY <1>1, <1>2, <1>4, PlacesSteps DEF FramesOwned
  <2>3. \A u \in Thread \ {t} : i \notin ToSet(frames[u])
    BY <1>4, <2>1, Marked
  <2>4. Gone({i})
    BY <1>2, <2>2, <2>3, PlacesSteps DEF Gone
  <2>5. {i} \in SUBSET Intact /\ \A j \in {i} : DBInUse[j] = t
    BY <1>4, <2>1
  <2> QED
    BY <1>2, <1>3, <2>4, <2>5, IsStop
<1>5. CASE i \notin Intact
  <2>1. SameOn(Intact)
    BY <1>3, <1>5 DEF SameOn
  <2> QED
    BY <1>2, <2>1, IsStutter
<1> QED
  BY <1>4, <1>5

\* The end of a thread stops every activation it has.
LEMMA ExitStops ==
    ASSUME IInv, NEW t \in Thread, UnhandledException(t) \/ BeginExit(t)
    PROVE  [Lease!LeaseNext]_Lease!leaseVars
<1> DEFINE S == Intact \cap ToSet(frames[t])
<1> USE DEF IInv
<1>1. /\ DBInUse' = DBInUse
      /\ \A u \in Thread : frames'[u] = IF u = t THEN <<>> ELSE frames[u]
      /\ lost' = lost
  BY DEF UnhandledException, BeginExit, TypeOK
<1>2. \A i \in S : DBInUse[i] = t
  BY Marked
<1>3. SameOn(Intact \ S)
  BY <1>1, PlacesSteps DEF SameOn
<1>4. \A i \in S : \A u \in Thread \ {t} : i \notin ToSet(frames[u])
  BY <1>2, Marked
<1>5. Gone(S)
  BY <1>1, <1>4, PlacesSteps DEF Gone
<1> QED
  BY <1>1, <1>2, <1>3, <1>5, IsStop

\* FreeDB gives back what the exiting thread still holds; after a TerminateThread the
\* engines are void already.
LEMMA DeliveryGivesBack ==
    ASSUME IInv, NEW t \in Thread, DeliverFreeDB(t)
    PROVE  [Lease!LeaseNext]_Lease!leaseVars
<1> DEFINE i == Head(pending[t])
<1> USE DEF IInv
<1>1. i \in ToSet(pending[t]) /\ i \in Box
  BY ListSteps, StepTypes DEF DeliverFreeDB
<1>2. /\ \A j \in Box : DBInUse'[j] = IF j = i THEN NoThread ELSE DBInUse[j]
      /\ frames' = frames
      /\ lost' = lost
  BY DEF DeliverFreeDB, TypeOK
<1>3. SameOn(Intact \ {i})
  BY <1>2 DEF SameOn, Intact
<1>4. CASE i \in Intact
  <2>1. DBInUse[i] = t
    BY <1>1, <1>4, Marked
  <2>2. frames[t] = <<>>
    BY <1>1, <1>4 DEF DeliverFreeDB, DeliveryPhase, Intact
  <2>3. \A u \in Thread : i \notin ToSet(frames[u])
    BY <1>4, <2>1, <2>2, ToSetEmpty, Marked
  <2>4. Gone({i})
    BY <1>2, <2>3, PlacesSteps DEF Gone
  <2> QED
    BY <1>1, <1>2, <1>3, <1>4, <2>1, <2>4, IsGiveBack
<1>5. CASE i \notin Intact
  BY <1>2, <1>3, <1>5, IsStutter DEF SameOn
<1> QED
  BY <1>4, <1>5

\* A TerminateThread stops the activations of its victim and voids the engines on the
\* list of the caller and those of the victim that are on no list.
LEMMA TerminateBreaks ==
    ASSUME IInv, NEW c \in Thread, NEW v \in Thread, c # v, TerminateOther(c, v)
    PROVE  [Lease!LeaseNext]_Lease!leaseVars
<1> DEFINE S == Intact \cap ToSet(frames[v])
           V == Intact \cap (ToSet(notifications[c]) \cup Unlisted(v, notifications'[v]))
<1> USE DEF IInv
<1>1. /\ DBInUse' = DBInUse
      /\ \A u \in Thread : frames'[u] = IF u = v THEN <<>> ELSE frames[u]
      /\ lost' = lost \cup ToSet(notifications[c]) \cup Unlisted(v, notifications'[v])
  BY DEF TerminateOther, TypeOK
<1>2. lost' = lost \cup V
  <2>1. ToSet(notifications[c]) \subseteq Box /\ Unlisted(v, notifications'[v]) \subseteq Box
    BY ToSetDef DEF Unlisted, TypeOK
  <2> QED
    BY <1>1, <2>1 DEF Intact
<1>3. \A i \in S : DBInUse[i] = v
  BY Marked
<1>4. \A i \in V : DBInUse[i] \in {c, v}
  BY Marked DEF Unlisted
<1>5. SameOn(Intact \ (S \cup V))
  BY <1>1, PlacesSteps DEF SameOn
<1>6. \A i \in S : \A u \in Thread \ {v} : i \notin ToSet(frames[u])
  BY <1>3, Marked
<1>7. Gone(S)
  BY <1>1, <1>6, PlacesSteps DEF Gone
<1> QED
  BY <1>1, <1>2, <1>3, <1>4, <1>5, <1>7, IsBreak

\* The other steps are invisible: nothing is marked, and nothing starts or ends on a
\* DOSBox engine.
LEMMA OthersStutter ==
    ASSUME IInv, NEW t \in Thread,
           Quiet(t) \/ ScanFull(t) \/ RegisterExitCall(t) \/ Unregister(t) \/ TakeList(t)
    PROVE  [Lease!LeaseNext]_Lease!leaseVars
<1> USE DEF IInv
<1>1. DBInUse' = DBInUse /\ lost' = lost
  BY QuietUnchanged DEF ScanFull, RegisterExitCall, Unregister, TakeList
<1>2. ASSUME NEW j \in Intact, NEW u \in Thread
      PROVE  Positions(frames'[u], j) = Positions(frames[u], j)
  <2>1. CASE frames'[u] = frames[u]
    BY <2>1
  <2>2. CASE frames'[u] # frames[u]
    <3>1. frames'[u] = Append(frames[u], Bochs)
      BY <2>2, QuietUnchanged DEF ScanFull, RegisterExitCall, Unregister, TakeList,
         TypeOK
    <3>2. j # Bochs
      BY Constants DEF Intact
    <3>3. Positions(Append(frames[u], Bochs), j) = Positions(frames[u], j)
      <4> Bochs \in Box \cup {Bochs}
        OBVIOUS
      <4> HIDE DEF IInv
      <4> QED
        BY <3>2, PlacesSteps DEF IInv
    <3> QED
      BY <3>1, <3>3
  <2> QED
    BY <2>1, <2>2
<1> QED
  BY <1>1, <1>2, IsStutter DEF SameOn

\* The pool implements EngineLease for any number of threads, engines and nested
\* activations: engines are granted only when idle, given back only by their holder,
\* and only a TerminateThread voids a lease, of its caller or of its victim.
THEOREM Implements == Spec => ImplementsLease
<1>1. Init => Lease!LeaseInit
  BY LeaseInitially
<1>2. ASSUME IInv, [Next]_vars
      PROVE  [Lease!LeaseNext]_Lease!leaseVars
  <2>1. ASSUME UNCHANGED vars
        PROVE  UNCHANGED Lease!leaseVars
    BY <2>1, IsStutter DEF vars, SameOn
  <2>2. ASSUME NEW t \in Thread, Step(t)
        PROVE  [Lease!LeaseNext]_Lease!leaseVars
    BY <1>2, <2>2, ClaimGrants, ReleaseGivesBack, PopStops, ExitStops,
       DeliveryGivesBack, OthersStutter DEF Step, Quiet, Pop
  <2>3. ASSUME NEW c \in Thread, NEW v \in Thread, c # v, TerminateOther(c, v)
        PROVE  [Lease!LeaseNext]_Lease!leaseVars
    BY <1>2, <2>3, TerminateBreaks
  <2> QED
    BY <1>2, <2>1, <2>2, <2>3 DEF Next
<1> QED
  BY <1>1, <1>2, Invariant, PTL DEF Spec, ImplementsLease, Lease!LeaseSpec
=============================================================================
