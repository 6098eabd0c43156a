----------------------------- MODULE LocalLocks -----------------------------
(***************************************************************************)
(* How functions take a lock that is not an object of its own but a        *)
(* pointer, CLock L(&CS); L.Lock(); (yact/inc/classes.h), and what they do *)
(* under it: look something up and make it if it is not there, as          *)
(* PeLdrLoadModule does under CSPeLdr (yact/peldr/peldr.cpp) and           *)
(* CbCreate...Callback under CSCb (yact/cbacks/callbacks.cpp).             *)
(*                                                                         *)
(* The CLock is a local object of the function.  If its constructor finds  *)
(* no section behind the pointer it makes one, and then its destructor     *)
(* deletes it.  CSPeLdr points to a section from the start, CSCb does not: *)
(* what holds of it while one thread at a time has a CLock for it is lost  *)
(* when a second one gets its own meanwhile (raced).                       *)
(***************************************************************************)
EXTENDS CriticalSection, Sequences, SequencesExt, FiniteSets

CONSTANTS Pointer,      \* CSPeLdr, CSCb
          Precreated,   \* those with a section before main: CSPeLdr = PeInitLdrCs()
          Nesting,      \* those held while other locks are taken: DllMain runs under
                        \*   CSPeLdr, the callback functions call nothing that locks
          Section,      \* memory for critical sections
          Key,          \* what is looked up: names of modules, native functions
          Nil,          \* no section, no pointer
          MaxDepth      \* bound: CLock objects of a thread

ASSUME LocalLocksAssumption ==
    /\ Precreated \subseteq Pointer /\ Nesting \subseteq Precreated
    /\ Nil \notin Section \cup Pointer
    /\ MaxDepth \in Nat

VARIABLES
    CS,        \* pointer -> the section it points to
    ready,     \* sections that InitializeCriticalSection has been called for
    raw,       \* sections that are allocated only
    section,   \* section -> owner and count
    locals,    \* thread -> its CLock objects, innermost last
    waiting,   \* thread -> the section it has passed to EnterCriticalSection
    pc,        \* thread -> where it is in the innermost function that locks
    made,      \* pointer -> key -> how often it was made
    misused,   \* pointer whose section was used though it is not there or not the one;
               \*   nothing is known from then on
    raced      \* history: pointers with no section at the start that a thread got a CLock
               \*   for when another had one

vars == <<CS, ready, raw, section, locals, waiting, pc, made, misused, raced>>

\* out: in none.  create, init: in CLock::CLock.  lock, wait: in CLock::Lock.  find,
\* make: under the lock.  in: done, under the lock.  free: in CLock::FreeCS.
Location == {"out", "create", "init", "lock", "wait", "find", "make", "in", "free"}

CLock == [of : Pointer, OwnCS : BOOLEAN, key : Key]

TypeOK ==
    /\ CS \in [Pointer -> Section \cup {Nil}]
    /\ ready \in SUBSET Section
    /\ raw \in SUBSET (Section \ ready)
    /\ section \in [Section -> CriticalSectionType]
    /\ locals \in [Thread -> Seq(CLock)]
    /\ waiting \in [Thread -> Section \cup {Nil}]
    /\ pc \in [Thread -> Location]
    /\ \A t \in Thread : pc[t] = "out" <=> locals[t] = <<>>
    /\ made \in [Pointer -> [Key -> Nat]]
    /\ misused \in Pointer \cup {Nil}
    /\ raced \in SUBSET (Pointer \ Precreated)

\* PeInitLdrCs runs before main, the other pointers are 0.
Init ==
    /\ CS \in [Pointer -> Section \cup {Nil}]
    /\ \A p, q \in Precreated : CS[p] # Nil /\ (CS[p] = CS[q] => p = q)
    /\ \A p \in Pointer \ Precreated : CS[p] = Nil
    /\ ready = {CS[p] : p \in Precreated}
    /\ raw = {}
    /\ section = [s \in Section |-> Unowned]
    /\ locals = [t \in Thread |-> <<>>]
    /\ waiting = [t \in Thread |-> Nil]
    /\ pc = [t \in Thread |-> "out"]
    /\ made = [p \in Pointer |-> [k \in Key |-> 0]]
    /\ misused = Nil
    /\ raced = {}

Top(t) == Last(locals[t])

\* The section the pointer of the innermost object of t points to now.
Pointed(t) == CS[Top(t).of]

Goto(t, from, to) == pc[t] = from /\ pc' = [pc EXCEPT ![t] = to]

\* Entering, leaving or deleting what is no section, or not the one: undefined.
Misuse(t) ==
    /\ misused' = Top(t).of
    /\ UNCHANGED <<CS, ready, raw, section, locals, waiting, pc, made, raced>>

\* Threads with a CLock object for p.
Users(p) == {u \in Thread : \E i \in DOMAIN locals[u] : locals[u][i].of = p}

-----------------------------------------------------------------------------
(* CLock::CLock                                                            *)

\* Another thread has a CLock for the pointer, and nobody made its section beforehand.
Races(t, p) == raced' = IF p \notin Precreated /\ Users(p) \ {t} # {} THEN raced \cup {p}
                                                                     ELSE raced

\* Mutant: OwnCS = true whether or not there was a section.
Construct_AlwaysOwn(t, p, k) ==
    /\ pc[t] = "out" \/ (pc[t] = "in" /\ Top(t).of \in Nesting)
    /\ Len(locals[t]) < MaxDepth
    /\ locals' = [locals EXCEPT ![t] = Append(@, [of |-> p, OwnCS |-> TRUE, key |-> k])]
    /\ pc' = [pc EXCEPT ![t] = IF CS[p] = Nil THEN "create" ELSE "lock"]
    /\ Races(t, p)
    /\ UNCHANGED <<CS, ready, raw, section, waiting, made, misused>>

\* Mutant: a function that made a callback loads a module under CSCb.
Construct_AnyNesting(t, p, k) ==
    /\ pc[t] \in {"out", "in"}
    /\ Len(locals[t]) < MaxDepth
    /\ locals' = [locals EXCEPT ![t] = Append(@, [of |-> p, OwnCS |-> CS[p] = Nil, key |-> k])]
    /\ pc' = [pc EXCEPT ![t] = IF CS[p] = Nil THEN "create" ELSE "lock"]
    /\ Races(t, p)
    /\ UNCHANGED <<CS, ready, raw, section, waiting, made, misused>>

\* A function that locks p is called: if (*Cs == 0) decides OwnCS.
Construct(t, p, k) ==
    /\ pc[t] = "out" \/ (pc[t] = "in" /\ Top(t).of \in Nesting)
    /\ Len(locals[t]) < MaxDepth
    /\ locals' = [locals EXCEPT ![t] = Append(@, [of |-> p, OwnCS |-> CS[p] = Nil, key |-> k])]
    /\ pc' = [pc EXCEPT ![t] = IF CS[p] = Nil THEN "create" ELSE "lock"]
    /\ Races(t, p)
    /\ UNCHANGED <<CS, ready, raw, section, waiting, made, misused>>

\* *Cs = new CRITICAL_SECTION
Create(t) ==
    /\ Goto(t, "create", "init")
    /\ \E s \in Section \ (ready \cup raw) :
          /\ CS' = [CS EXCEPT ![Top(t).of] = s]
          /\ raw' = raw \cup {s}
    /\ UNCHANGED <<ready, section, locals, waiting, made, misused, raced>>

\* InitializeCriticalSection(*Cs)
Initialize(t) ==
    /\ pc[t] = "init"
    /\ IF Pointed(t) \notin raw THEN Misuse(t)
       ELSE /\ Goto(t, "init", "lock")
            /\ raw' = raw \ {Pointed(t)}
            /\ ready' = ready \cup {Pointed(t)}
            /\ section' = [section EXCEPT ![Pointed(t)] = Unowned]
            /\ UNCHANGED <<CS, locals, waiting, made, misused, raced>>

-----------------------------------------------------------------------------
(* CLock::Lock and what is done under the lock                             *)

\* Mutant: CLock L(&CS) without L.Lock().
Lock_Missing(t) ==
    /\ Goto(t, "lock", "find")
    /\ UNCHANGED <<CS, ready, raw, section, locals, waiting, made, misused, raced>>

\* *CS is read for EnterCriticalSection(*CS) ...
Lock(t) ==
    /\ pc[t] = "lock"
    /\ IF Pointed(t) \notin ready THEN Misuse(t)
       ELSE /\ Goto(t, "lock", "wait")
            /\ waiting' = [waiting EXCEPT ![t] = Pointed(t)]
            /\ UNCHANGED <<CS, ready, raw, section, locals, made, misused, raced>>

\* ... which returns when nobody else owns the section.
Enter(t) ==
    /\ Goto(t, "wait", "find")
    /\ CanEnter(section[waiting[t]], t)
    /\ section' = [section EXCEPT ![waiting[t]] = Entered(@, t)]
    /\ waiting' = [waiting EXCEPT ![t] = Nil]
    /\ UNCHANGED <<CS, ready, raw, locals, made, misused, raced>>

\* PeLdrFindModule, X86Callbacks[Cbd] or NativeCallbacks[Cbd] ...
Find(t) ==
    /\ pc[t] = "find"
    /\ pc' = [pc EXCEPT ![t] = IF made[Top(t).of][Top(t).key] > 0 THEN "in" ELSE "make"]
    /\ UNCHANGED <<CS, ready, raw, section, locals, waiting, made, misused, raced>>

\* ... and PeLdrOpenModule or malloc for what is not there, unless that fails.
Make(t) ==
    /\ Goto(t, "make", "in")
    /\ \/ made' = [made EXCEPT ![Top(t).of][Top(t).key] = @ + 1]
       \/ UNCHANGED made
    /\ UNCHANGED <<CS, ready, raw, section, locals, waiting, misused, raced>>

-----------------------------------------------------------------------------
(* CLock::~CLock                                                           *)

\* Mutant: the function that called is forgotten.
Returned_ToNone(t) ==
    /\ locals' = [locals EXCEPT ![t] = Front(@)]
    /\ pc' = [pc EXCEPT ![t] = "out"]

\* The function returns, to the one of t that called it if there is one.
Returned(t) ==
    /\ locals' = [locals EXCEPT ![t] = Front(@)]
    /\ pc' = [pc EXCEPT ![t] = IF Len(locals[t]) = 1 THEN "out" ELSE "in"]

\* LeaveCriticalSection(*CS)
Unlock(t) ==
    /\ pc[t] = "in"
    /\ IF Pointed(t) \notin ready \/ section[Pointed(t)].owner # t THEN Misuse(t)
       ELSE /\ section' = [section EXCEPT ![Pointed(t)] = Left(@)]
            /\ IF Top(t).OwnCS THEN Goto(t, "in", "free") /\ UNCHANGED locals
                               ELSE Returned(t)
            /\ UNCHANGED <<CS, ready, raw, waiting, made, misused, raced>>

\* Threads that own section s or wait for it.
InUse(s) == {u \in Thread : section[s].owner = u \/ waiting[u] = s}

\* Mutant: without *CS = 0.
FreeCS_PointerKept(t) ==
    /\ pc[t] = "free"
    /\ IF Pointed(t) \notin ready \/ InUse(Pointed(t)) # {} THEN Misuse(t)
       ELSE /\ ready' = ready \ {Pointed(t)}
            /\ Returned(t)
            /\ UNCHANGED <<CS, raw, section, waiting, made, misused, raced>>

\* FreeCS: DeleteCriticalSection(*CS); delete *CS; *CS = 0
FreeCS(t) ==
    /\ pc[t] = "free"
    /\ IF Pointed(t) \notin ready \/ InUse(Pointed(t)) # {} THEN Misuse(t)
       ELSE /\ ready' = ready \ {Pointed(t)}
            /\ CS' = [CS EXCEPT ![Top(t).of] = Nil]
            /\ Returned(t)
            /\ UNCHANGED <<raw, section, waiting, made, misused, raced>>

Step(t) ==
    \/ \E p \in Pointer, k \in Key : Construct(t, p, k)
    \/ Create(t) \/ Initialize(t) \/ Lock(t) \/ Enter(t) \/ Find(t) \/ Make(t)
    \/ Unlock(t) \/ FreeCS(t)

\* After a misuse anything may happen; the model stops.
Undefined == misused # Nil /\ UNCHANGED vars

Next == Undefined \/ (misused = Nil /\ \E t \in Thread : Step(t))

Spec == Init /\ [][Next]_vars

-----------------------------------------------------------------------------
(* Correctness                                                             *)

\* No thread enters or leaves a section that is deleted or not initialized yet, leaves
\* one it does not own, or deletes one that others need: never the section of a pointer
\* that has one from the start (CSPeLdr), however many threads lock it inside each other's
\* calls, and not the one a CLock made (CSCb) as long as no other thread got a CLock for
\* the pointer while one lived.
NoMisuse == misused \in raced \cup {Nil}

\* classes.h:18 "Call FreeCS() to release memory allocated by crit section when it is no
\* longer needed": nobody owns the section a CLock is about to delete or waits for it.
FreedWhenNotNeeded ==
    \A t \in Thread : pc[t] = "free" /\ Pointed(t) # Nil => InUse(Pointed(t)) = {}

\* A module is loaded once and a function has one callback, however many threads ask:
\* finding nothing and making it are one step for everyone else.  Only for callbacks that
\* threads ask for at the same time it may fail.
MadeOnce == \A p \in Pointer \ raced : \A k \in Key : made[p][k] <= 1

\* EnterCriticalSection does not return: another thread owns the section.
Blocked(t) == pc[t] = "wait" /\ ~CanEnter(section[waiting[t]], t)

\* The thread t waits for.
Awaited(t) == section[waiting[t]].owner

Inside(t) == t \in Thread /\ locals[t] # <<>>

\* Threads that wait never wait for each other, not even for a section that was replaced
\* behind its pointer: whoever is waited for is in a function that will give the section
\* back, and goes on, or waits for one that goes on.
NoCircularWait ==
    \A t \in Thread : Blocked(t) =>
        /\ Inside(Awaited(t))
        /\ Blocked(Awaited(t)) =>
               Inside(Awaited(Awaited(t))) /\ ~Blocked(Awaited(Awaited(t)))

-----------------------------------------------------------------------------
(* The inductive invariant                                                 *)

\* The objects of t for p that have locked and not unlocked.
HeldBy(t, p) == {i \in DOMAIN locals[t] :
    /\ locals[t][i].of = p
    /\ i < Len(locals[t]) \/ pc[t] \in {"find", "make", "in"}}

\* Only an object for a pointer of Nesting has others above it; one that made its section
\* is for a pointer that had none.  All objects for such a pointer are of one thread unless
\* they raced, and the section is there once the constructor is past "create".
ObjectsSound ==
    \A t \in Thread : \A i \in DOMAIN locals[t] :
        /\ i < Len(locals[t]) => locals[t][i].of \in Nesting
        /\ locals[t][i].OwnCS => locals[t][i].of \notin Precreated
        /\ locals[t][i].of \notin raced =>
              /\ locals[t][i].of \in Precreated \/ Users(locals[t][i].of) = {t}
              /\ i < Len(locals[t]) \/ pc[t] # "create" => CS[locals[t][i].of] # Nil

\* What the steps of a constructor and a destructor rely on.  Who waits, waits for a section
\* that is there and is not that of another pointer.
StepsSound ==
    \A t \in Thread :
        /\ pc[t] \in {"create", "init", "free"} => Top(t).OwnCS
        /\ waiting[t] = Nil <=> pc[t] # "wait"
        /\ pc[t] = "wait" => /\ waiting[t] \in ready
                             /\ \A p \in Pointer \ {Top(t).of} : CS[p] # waiting[t]
        /\ pc[t] # "out" /\ Top(t).of \notin raced =>
              /\ pc[t] = "create" => Pointed(t) = Nil
              /\ pc[t] = "init" => Pointed(t) \in raw
              /\ pc[t] = "wait" => waiting[t] = Pointed(t)
              /\ pc[t] = "make" => made[Top(t).of][Top(t).key] = 0

\* Every pointer has a section of its own, which is ready unless its maker is about to
\* initialize it.
SectionsSound ==
    \A p \in Pointer :
        /\ p \in Precreated => CS[p] \in ready
        /\ CS[p] # Nil => \/ CS[p] \in ready
                          \/ /\ CS[p] \in raw
                             /\ p \in raced \/ \E t \in Thread : pc[t] = "init" /\ Top(t).of = p
        /\ \A q \in Pointer : CS[p] # Nil /\ CS[p] = CS[q] => p = q

\* A section that is ready counts the objects that hold it, all of one thread.
HoldsCounted ==
    \A p \in Pointer \ raced : CS[p] \in ready => \A t \in Thread :
        /\ HeldBy(t, p) # {} => section[CS[p]].owner = t
        /\ section[CS[p]].owner = t => /\ HeldBy(t, p) # {}
                                       /\ section[CS[p]].count = Cardinality(HeldBy(t, p))

\* A section that is not behind a pointer of Precreated: a CLock made it.
Local(s) == \A p \in Precreated : CS[p] # s

\* Such a section is owned once, by a thread whose innermost object is under the lock and
\* that owns no other one: also when no pointer points to it now.
OwnersSound ==
    \A s \in Section :
        /\ section[s].owner = NoThread => section[s].count = 0
        /\ \A u \in Thread : section[s].owner = u /\ Local(s) =>
              /\ pc[u] \in {"find", "make", "in"}
              /\ Top(u).of \notin Precreated
              /\ section[s].count = 1
              /\ \A r \in Section : section[r].owner = u /\ Local(r) => r = s

\* Locks nest in one order if one pointer is held while others are locked.
OneNesting == \A p, q \in Nesting : p = q

IInv ==
    /\ TypeOK
    /\ NoMisuse
    /\ ObjectsSound
    /\ StepsSound
    /\ SectionsSound
    /\ HoldsCounted
    /\ OwnersSound
    /\ MadeOnce
=============================================================================
