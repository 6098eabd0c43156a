--------------------------- MODULE CriticalSection ---------------------------
(***************************************************************************)
(* The lock under every shared structure of the emulator: a Win32          *)
(* CRITICAL_SECTION, used through the class CLock of yact/inc/classes.h.   *)
(* It is recursive (the owning thread id may enter again) and it is owned  *)
(* by a thread ID: a thread killed inside leaves it owned, and a new       *)
(* thread that is given the same id passes through it.                     *)
(*                                                                         *)
(* A lock is a value [owner, count]; the operators are pure, so one module *)
(* can keep as many locks as the code has.                                 *)
(***************************************************************************)
EXTENDS Naturals

CONSTANTS Thread,    \* thread ids
          NoThread   \* the owner of a lock nobody holds

ASSUME NoThreadAssumption == NoThread \notin Thread

CriticalSectionType == [owner : Thread \cup {NoThread}, count : Nat]

\* The section as InitializeCriticalSection leaves it.
Unowned == [owner |-> NoThread, count |-> 0]

\* EnterCriticalSection does not block thread t.
CanEnter(cs, t) == cs.owner \in {NoThread, t}

\* CLock::Lock by a thread that CanEnter.
Entered(cs, t) == [owner |-> t, count |-> cs.count + 1]

\* CLock::Unlock by the owner: the section is free when the outermost hold ends.
Left(cs) == IF cs.count <= 1 THEN Unowned ELSE [cs EXCEPT !.count = @ - 1]
=============================================================================
