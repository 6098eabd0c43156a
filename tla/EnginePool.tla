----------------------------- MODULE EnginePool -----------------------------
(***************************************************************************)
(* The pool of x86 engines: EmuExecute of yact/x86_emu/x86_emu.cpp with    *)
(* the exit notifications of yact/cbacks/callbacks.cpp it relies on and    *)
(* the ways a thread ends in yact/system_dlls/kernel32_yact.               *)
(*                                                                         *)
(* Every thread that runs emulated code calls EmuExecute, at the top of    *)
(* the thread or from a callback nested in native code.  EmuExecute takes  *)
(* the first idle DOSBox engine under DosboxLock, marks it with the thread *)
(* id and registers FreeDB to be called if the thread exits; on a normal   *)
(* return it cancels the registration and frees the engine.  When no       *)
(* engine is idle the activation runs on the re-entrant Bochs engine.      *)
(* Exceptions and exits skip the normal return, and then FreeDB is what    *)
(* gives the engine back.                                                  *)
(***************************************************************************)
EXTENDS CriticalSection, Lists

CONSTANTS Killers,     \* threads whose program calls TerminateThread on others
          NumBoxes,    \* NUM_DOSBOXES
          MaxDepth,    \* bound: activations nested on one thread
          MaxHolds,    \* bound: how often killed threads can hold a lock
          MaxListed    \* bound: registrations on the list of a thread that calls

ASSUME PoolAssumption == /\ Killers \subseteq Thread
                         /\ NumBoxes \in Nat
                         /\ MaxDepth \in Nat
                         /\ MaxHolds \in Nat
                         /\ MaxListed \in Nat

Box == 0 .. NumBoxes - 1
Bochs == -1    \* UsedDosBox when every DOSBox engine is taken

VARIABLES
    DBInUse,        \* Box -> id of the thread that took the engine, NoThread for 0
    DosboxLock,     \* the critical section that guards DBInUse
    NotificationsLock,  \* the critical section inside the CSet Notifications
    frames,         \* thread -> live activations of EmuExecute, innermost last
    chosen,         \* thread -> i of the scan loop, between the test and the assignment
    pc,             \* thread -> where it is
    foreign,        \* threads not created by yact_CreateThread
    notifications,  \* thread -> its FreeDB registrations, head of the CList first
    pending,        \* thread -> the detached list CbNotifyThreadExit is delivering
    lost            \* history: engines a TerminateThread of another thread broke

vars == <<DBInUse, DosboxLock, NotificationsLock, frames, chosen, pc, foreign, notifications,
          pending, lost>>

\* off: no such thread.  run: emulated or native code outside the pool.
\* enter, scan, claim, register, unlock: in EmuExecute before the engine is called.
\* release: after CbRemoveCallAtThreadExit.  exit, drain: in CbNotifyThreadExit on the
\* way out of the thread, before and after the list is taken; notify, wipe: the same
\* after a TerminateThread of another one.
Location == {"off", "run", "enter", "scan", "claim", "register", "unlock",
             "release", "exit", "drain", "notify", "wipe"}

TypeOK ==
    /\ DBInUse \in [Box -> Thread \cup {NoThread}]
    /\ DosboxLock \in CriticalSectionType
    /\ NotificationsLock \in CriticalSectionType
    /\ frames \in [Thread -> Seq(Box \cup {Bochs})]
    /\ chosen \in [Thread -> Box \cup {Bochs}]
    /\ pc \in [Thread -> Location]
    /\ foreign \in SUBSET Thread
    /\ notifications \in [Thread -> Seq(Box)]
    /\ pending \in [Thread -> Seq(Box)]
    /\ lost \in SUBSET Box

Top(t) == Last(frames[t])

Init ==
    /\ DBInUse = [i \in Box |-> NoThread]
    /\ DosboxLock = Unowned
    /\ NotificationsLock = Unowned
    /\ frames = [t \in Thread |-> <<>>]
    /\ chosen = [t \in Thread |-> Bochs]
    /\ pc = [t \in Thread |-> "off"]
    /\ foreign = {}
    /\ notifications = [t \in Thread |-> <<>>]
    /\ pending = [t \in Thread |-> <<>>]
    /\ lost = {}

-----------------------------------------------------------------------------
(* EmuExecute                                                              *)

Goto(t, from, to) == pc[t] = from /\ pc' = [pc EXCEPT ![t] = to]

\* A thread starts.  The OS reuses the ids of ended threads: the entry of
\* Notifications an earlier thread of this id left is now this thread's.
Start(t) ==
    /\ Goto(t, "off", "run")
    /\ foreign' \in {foreign \cup {t}, foreign \ {t}}
    /\ UNCHANGED <<DBInUse, DosboxLock, NotificationsLock, frames, chosen, notifications,
                   pending, lost>>

CallEmuExecute(t) ==
    /\ Goto(t, "run", "enter")
    /\ Len(frames[t]) < MaxDepth
    /\ Len(notifications[t]) <= MaxListed
    /\ UNCHANGED <<DBInUse, DosboxLock, NotificationsLock, frames, chosen, foreign,
                   notifications, pending, lost>>

\* Mutant: DosboxLock.Lock() is missing.
EnterLock_NoLock(t) ==
    /\ Goto(t, "enter", "scan")
    /\ UNCHANGED <<DBInUse, DosboxLock, NotificationsLock, frames, chosen, foreign,
                   notifications, pending, lost>>

EnterLock(t) ==
    /\ Goto(t, "enter", "scan")
    /\ CanEnter(DosboxLock, t)
    /\ DosboxLock' = Entered(DosboxLock, t)
    /\ UNCHANGED <<DBInUse, NotificationsLock, frames, chosen, foreign, notifications, pending,
                   lost>>

\* The loop stops at the first engine that is not in use ...
ScanFree(t) ==
    /\ Goto(t, "scan", "claim")
    /\ \E i \in Box :
          /\ DBInUse[i] = NoThread
          /\ \A j \in 0 .. i - 1 : DBInUse[j] # NoThread
          /\ chosen' = [chosen EXCEPT ![t] = i]
    /\ UNCHANGED <<DBInUse, DosboxLock, NotificationsLock, frames, foreign, notifications,
                   pending, lost>>

\* Mutant: the loop starts again until an engine is idle.
ScanFull_Waits(t) ==
    /\ pc[t] = "scan"
    /\ \A i \in Box : DBInUse[i] # NoThread
    /\ UNCHANGED vars

\* ... or finds none, and the activation gets the Bochs engine.
ScanFull(t) ==
    /\ Goto(t, "scan", "unlock")
    /\ \A i \in Box : DBInUse[i] # NoThread
    /\ frames' = [frames EXCEPT ![t] = Append(@, Bochs)]
    /\ UNCHANGED <<DBInUse, DosboxLock, NotificationsLock, chosen, foreign, notifications,
                   pending, lost>>

Claim(t) ==
    /\ Goto(t, "claim", "register")
    /\ DBInUse' = [DBInUse EXCEPT ![chosen[t]] = t]
    /\ frames' = [frames EXCEPT ![t] = Append(@, chosen[t])]
    /\ chosen' = [chosen EXCEPT ![t] = Bochs]
    /\ UNCHANGED <<DosboxLock, NotificationsLock, foreign, notifications, pending, lost>>

\* Mutant: the exit call is not registered.
RegisterExitCall_Missing(t) ==
    /\ Goto(t, "register", "unlock")
    /\ UNCHANGED <<DBInUse, DosboxLock, NotificationsLock, frames, chosen, foreign,
                   notifications, pending, lost>>

\* CbCallAtThreadExit(FreeDB, i).  Notifications.Get and Set enter the section of the
\* CSet and leave it again: a step, unless the thread is killed there (LeavesLocks).
RegisterExitCall(t) ==
    /\ Goto(t, "register", "unlock")
    /\ CanEnter(NotificationsLock, t)
    /\ notifications' = [notifications EXCEPT ![t] = Cons(Top(t), @)]
    /\ UNCHANGED <<DBInUse, DosboxLock, NotificationsLock, frames, chosen, foreign, pending,
                   lost>>

LeaveLock(t) ==
    /\ Goto(t, "unlock", "run")
    /\ DosboxLock' = Left(DosboxLock)
    /\ UNCHANGED <<DBInUse, NotificationsLock, frames, chosen, foreign, notifications, pending,
                   lost>>

\* The innermost activation returns from the Bochs engine: nothing to give back.
ReturnBochs(t) ==
    /\ pc[t] = "run"
    /\ frames[t] # <<>>
    /\ Top(t) = Bochs
    /\ frames' = [frames EXCEPT ![t] = Front(@)]
    /\ UNCHANGED <<DBInUse, DosboxLock, NotificationsLock, chosen, pc, foreign, notifications,
                   pending, lost>>

\* Mutant: CbRemoveCallAtThreadExit is not called.
Unregister_Missing(t) ==
    /\ Goto(t, "run", "release")
    /\ frames[t] # <<>>
    /\ Top(t) # Bochs
    /\ UNCHANGED <<DBInUse, DosboxLock, NotificationsLock, frames, chosen, foreign,
                   notifications, pending, lost>>

\* It returns from a DOSBox engine: CbRemoveCallAtThreadExit(FreeDB, UsedDosBox)
\* clears the first entry that matches, and does nothing when there is none.
Unregister(t) ==
    /\ Goto(t, "run", "release")
    /\ frames[t] # <<>>
    /\ Top(t) # Bochs
    /\ CanEnter(NotificationsLock, t)
    /\ notifications' = [notifications EXCEPT ![t] = RemoveFirst(@, Top(t))]
    /\ UNCHANGED <<DBInUse, DosboxLock, NotificationsLock, frames, chosen, foreign, pending,
                   lost>>

\* Mutant: the engine is marked -1 instead of 0.
Release_MarksMinusOne(t) ==
    /\ Goto(t, "release", "run")
    /\ CanEnter(DosboxLock, t)
    /\ DBInUse' = [DBInUse EXCEPT ![Top(t)] = Bochs]
    /\ frames' = [frames EXCEPT ![t] = Front(@)]
    /\ UNCHANGED <<DosboxLock, NotificationsLock, chosen, foreign, notifications, pending,
                   lost>>

\* Lock, DBInUse[UsedDosBox] = 0, unlock, return to the caller.
Release(t) ==
    /\ Goto(t, "release", "run")
    /\ CanEnter(DosboxLock, t)
    /\ DBInUse' = [DBInUse EXCEPT ![Top(t)] = NoThread]
    /\ frames' = [frames EXCEPT ![t] = Front(@)]
    /\ UNCHANGED <<DosboxLock, NotificationsLock, chosen, foreign, notifications, pending,
                   lost>>

-----------------------------------------------------------------------------
(* Exceptions                                                              *)

\* A fault ends the innermost activation.  The native call of the activation
\* outside it swallows the fault, and ThreadProc does when there is none.
SwallowException(t) ==
    /\ pc[t] = "run"
    /\ frames[t] # <<>>
    /\ Len(frames[t]) > 1 \/ t \notin foreign
    /\ frames' = [frames EXCEPT ![t] = Front(@)]
    /\ UNCHANGED <<DBInUse, DosboxLock, NotificationsLock, chosen, pc, foreign, notifications,
                   pending, lost>>

\* No handler: the thread is not one of ThreadProc, or the fault is in a DLL entry
\* point ThreadProc calls outside its __try.  YactUnhandledExceptionFilter ends the
\* thread and does not call CbNotifyThreadExit.
UnhandledException(t) ==
    /\ Goto(t, "run", "off")
    /\ Len(frames[t]) = 1
    /\ frames' = [frames EXCEPT ![t] = <<>>]
    /\ UNCHANGED <<DBInUse, DosboxLock, NotificationsLock, chosen, foreign, notifications,
                   pending, lost>>

-----------------------------------------------------------------------------
(* The end of a thread                                                     *)

\* A thread of the OS or of a native DLL returns into native code and ends there.
LeaveForeign(t) ==
    /\ Goto(t, "run", "off")
    /\ t \in foreign
    /\ frames[t] = <<>>
    /\ UNCHANGED <<DBInUse, DosboxLock, NotificationsLock, frames, chosen, foreign,
                   notifications, pending, lost>>

\* ThreadProc returns, or emulated code calls ExitThread, or TerminateThread on its
\* own thread.
BeginExit(t) ==
    /\ Goto(t, "run", "exit")
    /\ t \notin foreign \/ frames[t] # <<>>
    /\ frames' = [frames EXCEPT ![t] = <<>>]
    /\ UNCHANGED <<DBInUse, DosboxLock, NotificationsLock, chosen, foreign, notifications,
                   pending, lost>>

\* Mutant: Notifications.Set(GetCurrentThreadId(), 0) is missing.
TakeList_ListKept(t) ==
    /\ Goto(t, "exit", "drain") \/ Goto(t, "notify", "wipe")
    /\ CanEnter(NotificationsLock, t)
    /\ pending' = [pending EXCEPT ![t] = notifications[t]]
    /\ UNCHANGED <<DBInUse, DosboxLock, NotificationsLock, frames, chosen, foreign,
                   notifications, lost>>

\* CbNotifyThreadExit takes the list of the current thread out of Notifications: a Get
\* and a Set, each in the section of the CSet.
TakeList(t) ==
    /\ Goto(t, "exit", "drain") \/ Goto(t, "notify", "wipe")
    /\ CanEnter(NotificationsLock, t)
    /\ pending' = [pending EXCEPT ![t] = notifications[t]]
    /\ notifications' = [notifications EXCEPT ![t] = <<>>]
    /\ UNCHANGED <<DBInUse, DosboxLock, NotificationsLock, frames, chosen, foreign, lost>>

\* Mutant: the entry is freed without calling its function.
DeliverFreeDB_NotCalled(t) ==
    /\ pc[t] \in {"drain", "wipe"}
    /\ pending[t] # <<>>
    /\ CanEnter(DosboxLock, t)
    /\ pending' = [pending EXCEPT ![t] = Tail(@)]
    /\ UNCHANGED <<DBInUse, DosboxLock, NotificationsLock, frames, chosen, pc, foreign,
                   notifications, lost>>

\* CbNotifyThreadExit calls FreeDB for the head of the list.
DeliverFreeDB(t) ==
    /\ pc[t] \in {"drain", "wipe"}
    /\ pending[t] # <<>>
    /\ CanEnter(DosboxLock, t)
    /\ DBInUse' = [DBInUse EXCEPT ![Head(pending[t])] = NoThread]
    /\ pending' = [pending EXCEPT ![t] = Tail(@)]
    /\ UNCHANGED <<DosboxLock, NotificationsLock, frames, chosen, pc, foreign, notifications,
                   lost>>

\* The list is empty: the thread is gone, or goes on after its TerminateThread.
FinishExit(t) ==
    /\ pending[t] = <<>>
    /\ Goto(t, "drain", "off") \/ Goto(t, "wipe", "run")
    /\ UNCHANGED <<DBInUse, DosboxLock, NotificationsLock, frames, chosen, foreign,
                   notifications, pending, lost>>

\* What becomes of the locks when v stops.  Outside them nothing; between Lock and Unlock
\* of EmuExecute they stay as they are; in a step that locks and unlocks, v may stop
\* between the two, and in Notifications.Set before or after the list is gone.
LeavesLocks(v) ==
    \/ UNCHANGED <<DosboxLock, NotificationsLock, notifications>>
    \/ /\ pc[v] \in {"release", "drain", "wipe"}
       /\ CanEnter(DosboxLock, v)
       /\ DosboxLock' = Entered(DosboxLock, v)
       /\ UNCHANGED <<NotificationsLock, notifications>>
    \/ /\ pc[v] \in {"run", "register", "exit", "notify"}
       /\ CanEnter(NotificationsLock, v)
       /\ NotificationsLock' = Entered(NotificationsLock, v)
       /\ \/ UNCHANGED notifications
          \/ /\ pc[v] \in {"exit", "notify"}
             /\ notifications' = [notifications EXCEPT ![v] = <<>>]
       /\ UNCHANGED DosboxLock

\* Engines in use by v that the list would not free.
Unlisted(v, list) == {i \in Box : DBInUse[i] = v} \ ToSet(list)

\* yact_TerminateThread(v): v stops wherever it is, a lock it holds stays held.
\* Then CbNotifyThreadExit ignores its argument and takes the list of the CALLER.
TerminateOther(c, v) ==
    /\ c \in Killers
    /\ frames[c] # <<>>
    /\ DosboxLock.count <= MaxHolds /\ NotificationsLock.count <= MaxHolds
    /\ LeavesLocks(v)
    /\ pc[c] = "run" /\ pc' = [pc EXCEPT ![v] = "off", ![c] = "notify"]
    /\ frames' = [frames EXCEPT ![v] = <<>>]
    /\ chosen' = [chosen EXCEPT ![v] = Bochs]
    /\ pending' = [pending EXCEPT ![v] = <<>>]
    /\ lost' = lost \cup ToSet(notifications[c]) \cup Unlisted(v, notifications'[v])
    /\ UNCHANGED <<DBInUse, foreign>>

-----------------------------------------------------------------------------
Step(t) ==
    \/ Start(t) \/ CallEmuExecute(t) \/ EnterLock(t) \/ ScanFree(t) \/ ScanFull(t)
    \/ Claim(t) \/ RegisterExitCall(t) \/ LeaveLock(t)
    \/ ReturnBochs(t) \/ Unregister(t) \/ Release(t)
    \/ SwallowException(t) \/ UnhandledException(t)
    \/ LeaveForeign(t) \/ BeginExit(t) \/ TakeList(t) \/ DeliverFreeDB(t) \/ FinishExit(t)

Next ==
    \/ \E t \in Thread : Step(t)
    \/ \E c, v \in Thread : c # v /\ TerminateOther(c, v)

Spec == Init /\ [][Next]_vars

\* A thread inside EmuExecute or CbNotifyThreadExit runs no emulated code until it
\* is done: it needs only the processor, and a lock when the lock is free again
\* and again.  Nothing makes emulated code return, fault or exit.
LockFree(t) == ScanFree(t) \/ ScanFull(t) \/ Claim(t) \/ LeaveLock(t) \/ FinishExit(t)
TakesLock(t) == EnterLock(t) \/ RegisterExitCall(t) \/ Release(t) \/ TakeList(t)
                \/ DeliverFreeDB(t)

FairSpec == Spec /\ \A t \in Thread : WF_vars(LockFree(t)) /\ SF_vars(TakesLock(t))

-----------------------------------------------------------------------------
(* Safety                                                                  *)

Intact == Box \ lost

\* An engine executes at most one activation: its registers are global variables of
\* its dll, so a second one would run on the state of the first.  Scan and
\* assignment under DosboxLock, FreeDB on exits and the scan of other threads
\* must all agree; only what a TerminateThread broke is excepted.
Exclusive ==
    \A i \in Intact : \A t, u \in Thread :
        \A k \in 1 .. Len(frames[t]), l \in 1 .. Len(frames[u]) :
            frames[t][k] = i /\ frames[u][l] = i => t = u /\ k = l

\* An exit frees only engines that are marked with the exiting thread: a FreeDB
\* that is registered or about to be delivered never names an engine that was
\* given back, or taken by another thread since.
RegisteredByHolder ==
    \A t \in Thread : \A i \in Intact :
        i \in ToSet(notifications[t]) \cup ToSet(pending[t]) => DBInUse[i] = t

\* No engine leaks: a busy engine is either on a list of its holder, which the exit
\* of that thread (or of a later one with its id) delivers, or its holder is between
\* taking it and registering, or between cancelling and freeing it.
BusyBoxRecoverable ==
    \A t \in Thread : \A i \in Intact :
        DBInUse[i] = t =>
            \/ i \in ToSet(notifications[t]) \cup ToSet(pending[t])
            \/ pc[t] \in {"register", "release"} /\ Top(t) = i

-----------------------------------------------------------------------------
(* The inductive invariant                                                 *)

\* A thread between Lock and Unlock of EmuExecute owns DosboxLock.
LockHeld ==
    \A t \in Thread :
        pc[t] \in {"scan", "claim", "register", "unlock"} => DosboxLock.owner = t

\* The engine the scan stopped at is still idle when it is assigned.
ChosenIdle ==
    \A t \in Thread : pc[t] = "claim" => /\ chosen[t] \in Box
                                         /\ DBInUse[chosen[t]] = NoThread

\* A thread executes only on engines marked with its id, on each at one depth.
FramesOwned ==
    \A t \in Thread : \A i \in Intact :
        /\ i \in ToSet(frames[t]) => DBInUse[i] = t
        /\ Once(frames[t], i)

\* An engine is registered at most once.
ListedOnce ==
    \A t \in Thread : \A i \in Intact :
        Once(notifications[t], i) /\ Once(pending[t], i)

\* Between taking and registering an engine, and between cancelling and freeing it,
\* it is the engine of the innermost activation and is not on the list.
Window ==
    \A t \in Thread : pc[t] \in {"register", "release"} =>
        /\ frames[t] # <<>>
        /\ Top(t) \in Box
        /\ Top(t) \in Intact => Top(t) \notin ToSet(notifications[t])

\* A list is delivered by a thread that has nothing left to run, or, after a
\* TerminateThread, names broken engines only.
DeliveryPhase ==
    \A t \in Thread :
        /\ pending[t] # <<>> => pc[t] \in {"drain", "wipe"}
        /\ pc[t] = "exit" => frames[t] = <<>>
        /\ pc[t] = "drain" => frames[t] = <<>> /\ notifications[t] = <<>>
        /\ pc[t] = "notify" => ToSet(notifications[t]) \subseteq lost
        /\ pc[t] = "wipe" => ToSet(pending[t]) \subseteq lost

IInv ==
    /\ TypeOK
    /\ LockHeld
    /\ ChosenIdle
    /\ FramesOwned
    /\ RegisteredByHolder
    /\ ListedOnce
    /\ Window
    /\ DeliveryPhase
    /\ BusyBoxRecoverable

-----------------------------------------------------------------------------
(* The pool implements EngineLease                                         *)

\* An activation is named by its thread and its depth there.
Activations(i) == UNION {{t} \X Positions(frames[t], i) : t \in Thread}

Leases == [i \in Box |-> IF i \in lost THEN NoThread ELSE DBInUse[i]]
Running == [i \in Box |-> IF i \in lost THEN {} ELSE Activations(i)]

Lease == INSTANCE EngineLease WITH lease <- Leases, active <- Running, void <- lost

\* Every step of the pool is a step of EngineLease or none: leases are granted on
\* idle engines, end by their holder, and a TerminateThread voids only leases of
\* the thread that calls it and of the one it kills.
ImplementsLease == Lease!LeaseSpec

-----------------------------------------------------------------------------
(* Liveness                                                                *)

\* A thread was terminated between Lock and Unlock of DosboxLock, or inside the section of
\* Notifications (which no step leaves owned otherwise): nobody else enters it again.
LockLeftOwned ==
    \/ \E v \in Thread :
          DosboxLock.owner = v /\ pc[v] \notin {"scan", "claim", "register", "unlock"}
    \/ NotificationsLock # Unowned

\* EmuExecute never waits for an engine, and for a lock only as long as its owner lives:
\* whatever is busy and whoever is terminated, the activation starts unless its own
\* thread is terminated or a terminated thread left one of the two locks owned.
CallRuns ==
    \A t \in Thread : \A d \in 0 .. MaxDepth :
        pc[t] = "enter" /\ Len(frames[t]) = d ~> \/ pc[t] = "run" /\ Len(frames[t]) = d + 1
                                                 \/ pc[t] = "off"
                                                 \/ LockLeftOwned

\* A thread that exits gets at its list, unless it is terminated on the way, and then
\* ends, holding no engine a TerminateThread did not break; with the same exception.
ExitReclaims ==
    \A t \in Thread :
        /\ pc[t] = "exit" ~> pc[t] \in {"drain", "off"} \/ LockLeftOwned
        /\ pc[t] = "drain" ~> \/ pc[t] = "off" /\ \A i \in Intact : DBInUse[i] # t
                              \/ LockLeftOwned

-----------------------------------------------------------------------------
(* What the comments say                                                   *)

\* callbacks.cpp:87 "Call the given func when current thread exits": the functions
\* registered by a thread are called only when that thread is on its way out.
NotifiedThreadsExit == \A t \in Thread : pending[t] # <<>> => pc[t] = "drain"
=============================================================================
