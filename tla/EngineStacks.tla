---------------------------- MODULE EngineStacks ----------------------------
(***************************************************************************)
(* What an activation of EmuExecute needs besides its engine, and how a    *)
(* thread gives it back: the stack caches of the DOSBox engines            *)
(* (yact/dosbox_emu/dosbox_emu.cpp), the CPU and stack caches of the Bochs *)
(* engine (yact/bochs_emu/bochs_test.cpp), the emulated TEB of each thread *)
(* (yact/peldr/peldr.cpp) and the one exit list of                         *)
(* yact/cbacks/callbacks.cpp on which all of them are registered.          *)
(*                                                                         *)
(* EnginePool shows that engines are leased to one activation at a time;   *)
(* here taking an engine and registering FreeDB is one step.  What can go  *)
(* wrong is the order of the entries on the exit list, and who has what    *)
(* after a fault, an exit or a TerminateThread left epilogues out.         *)
(***************************************************************************)
EXTENDS Lists, FiniteSets

CONSTANTS Thread,      \* thread ids
          Killers,     \* threads whose program calls TerminateThread on others
          Natives,     \* threads the OS or a native DLL may make
          Box,         \* DOSBox engines, each a dll with a StackList of its own
          Stack,       \* emulated stacks that can be allocated
          Cpu,         \* BX_CPU_C objects of the Bochs engine that can be allocated
          Teb,         \* emulated TEBs that can be allocated
          Bochs,       \* the re-entrant engine: one dll, one CpuList, one StackList
          None,        \* no TEB, no dll
          MaxDepth,    \* bound: thread -> activations nested on it
          MaxListed,   \* bound: thread -> entries on its exit list when it calls
          MaxVoid      \* bound: resources broken when a thread is terminated

Resource == Box \cup Stack \cup Cpu \cup Teb

ASSUME StacksAssumption ==
    /\ Killers \subseteq Thread
    /\ Natives \subseteq Thread
    /\ MaxDepth \in [Thread -> Nat]
    /\ MaxListed \in [Thread -> Nat]
    /\ MaxVoid \in Nat
    /\ Box \cap (Stack \cup Cpu \cup Teb) = {}
    /\ Stack \cap (Cpu \cup Teb) = {}
    /\ Cpu \cap Teb = {}
    /\ Bochs \notin Resource
    /\ None \notin Resource \cup {Bochs}

VARIABLES
    idle,      \* engines with DBInUse 0, stacks in a StackList, CPUs in CpuList
    fresh,     \* stacks, CPUs and TEBs that are not allocated
    dll,       \* stack -> the engine whose dll allocated it and has it in its StackList
    used,      \* thread -> what its live activations took, in that order: an engine
               \*   and a stack each, or Bochs, a CPU and a stack
    teb,       \* thread -> the TEB in its TLS slot TebTlsIndex
    listed,    \* thread -> its exit list, head first; the resource names the function
    pending,   \* thread -> the detached list CbNotifyThreadExit is delivering
    pc,        \* thread -> where it is
    foreign,   \* threads not created by yact_CreateThread
    void       \* history: resources a TerminateThread of another thread broke

vars == <<idle, fresh, dll, used, teb, listed, pending, pc, foreign, void>>

\* off: no such thread.  run: emulated or native code.  cpu, stack, list, code: in
\* EmuExecute before the code runs.  teb: in PeLdrGetCurrentTeb, the TEB not registered.
\* unlist, put: on the return of EmuExecute.  drain, wipe: in CbNotifyThreadExit, on the
\* way out or after a TerminateThread of another thread.
Location == {"off", "run", "cpu", "stack", "list", "teb", "code", "unlist", "put", "drain",
             "wipe"}

TypeOK ==
    /\ idle \in SUBSET (Box \cup Stack \cup Cpu)
    /\ fresh \in SUBSET (Stack \cup Cpu \cup Teb)
    /\ dll \in [Stack -> Box \cup {Bochs, None}]
    /\ used \in [Thread -> Seq(Box \cup {Bochs} \cup Cpu \cup Stack)]
    /\ teb \in [Thread -> Teb \cup {None}]
    /\ listed \in [Thread -> Seq(Resource)]
    /\ pending \in [Thread -> Seq(Resource)]
    /\ pc \in [Thread -> Location]
    /\ foreign \in SUBSET Thread
    /\ void \in SUBSET Resource

Init ==
    /\ idle = Box
    /\ fresh = Stack \cup Cpu \cup Teb
    /\ dll = [s \in Stack |-> None]
    /\ used = [t \in Thread |-> <<>>]
    /\ teb = [t \in Thread |-> None]
    /\ listed = [t \in Thread |-> <<>>]
    /\ pending = [t \in Thread |-> <<>>]
    /\ pc = [t \in Thread |-> "off"]
    /\ foreign = {}
    /\ void = {}

Goto(t, from, to) == pc[t] = from /\ pc' = [pc EXCEPT ![t] = to]

Top(t) == Last(used[t])

Take(t, r) == used' = [used EXCEPT ![t] = Append(@, r)]

\* Mutant: the entry is added at the tail.
CallAtExit_AtTail(t, r) == listed' = [listed EXCEPT ![t] = Append(@, r)]

\* CbCallAtThreadExit(FreeDB, ReuseStack, ReuseBX_CPU or FreeTEB; r)
CallAtExit(t, r) == listed' = [listed EXCEPT ![t] = Cons(r, @)]

-----------------------------------------------------------------------------
(* The start of a thread and of an activation                              *)

\* A thread starts.  ThreadProc asks for the TEB at once, other threads get theirs
\* when they first run emulated code.
Start(t) ==
    /\ \/ Goto(t, "off", "code") /\ foreign' = foreign \ {t}
       \/ t \in Natives /\ Goto(t, "off", "run") /\ foreign' = foreign \cup {t}
    /\ UNCHANGED <<idle, fresh, dll, used, teb, listed, pending, void>>

Depth(t) == Cardinality({k \in DOMAIN used[t] : used[t][k] \in Box \cup {Bochs}})

\* EmuExecute leases an idle engine and registers FreeDB ...
LeaseBox(t) ==
    /\ Goto(t, "run", "stack")
    /\ Depth(t) < MaxDepth[t]
    /\ Len(listed[t]) <= MaxListed[t]
    /\ \E i \in Box \cap idle :
          /\ idle' = idle \ {i}
          /\ Take(t, i)
          /\ CallAtExit(t, i)
    /\ UNCHANGED <<fresh, dll, teb, pending, foreign, void>>

\* ... or uses Bochs when there is none.
UseBochs(t) ==
    /\ Goto(t, "run", "cpu")
    /\ Depth(t) < MaxDepth[t]
    /\ Len(listed[t]) <= MaxListed[t]
    /\ Box \cap idle = {}
    /\ Take(t, Bochs)
    /\ UNCHANGED <<idle, fresh, dll, teb, listed, pending, foreign, void>>

\* CpuList.GetHead(), or a new CPU, whose FS base needs the TEB.
TakeCpu(t) ==
    /\ Goto(t, "cpu", "list")
    /\ \/ \E c \in Cpu \cap idle : Take(t, c) /\ idle' = idle \ {c} /\ UNCHANGED fresh
       \/ /\ Cpu \cap idle = {}
          /\ teb[t] # None
          /\ \E c \in Cpu \cap fresh : Take(t, c) /\ fresh' = fresh \ {c}
          /\ UNCHANGED idle
    /\ UNCHANGED <<dll, teb, listed, pending, foreign, void>>

\* The dll that runs the innermost activation of t, its engine being taken.
Engine(t) == IF Top(t) \in Box THEN Top(t) ELSE Bochs

\* What is in the StackList of dll e.
StackList(e) == {s \in Stack \cap idle : dll[s] = e}

\* Mutant: the stack stays in the list (its head is read, not removed).
TakeStack_Kept(t) ==
    /\ Goto(t, "stack", "list")
    /\ \/ \E s \in StackList(Engine(t)) : Take(t, s) /\ UNCHANGED <<idle, fresh, dll>>
       \/ /\ StackList(Engine(t)) = {}
          /\ \E s \in Stack \cap fresh :
                /\ Take(t, s)
                /\ fresh' = fresh \ {s}
                /\ dll' = [dll EXCEPT ![s] = Engine(t)]
          /\ UNCHANGED idle
    /\ UNCHANGED <<teb, listed, pending, foreign, void>>

\* StackList.GetHead(), or AllocStack when the list is empty.
TakeStack(t) ==
    /\ Goto(t, "stack", "list")
    /\ \/ \E s \in StackList(Engine(t)) :
             Take(t, s) /\ idle' = idle \ {s} /\ UNCHANGED <<fresh, dll>>
       \/ /\ StackList(Engine(t)) = {}
          /\ \E s \in Stack \cap fresh :
                /\ Take(t, s)
                /\ fresh' = fresh \ {s}
                /\ dll' = [dll EXCEPT ![s] = Engine(t)]
          /\ UNCHANGED idle
    /\ UNCHANGED <<teb, listed, pending, foreign, void>>

\* Mutant: only stacks are registered.
Register_StackOnly(t) ==
    /\ pc[t] = "list"
    /\ pc' = [pc EXCEPT ![t] = IF Top(t) \in Cpu THEN "stack" ELSE "code"]
    /\ IF Top(t) \in Stack THEN CallAtExit(t, Top(t)) ELSE UNCHANGED listed
    /\ UNCHANGED <<idle, fresh, dll, used, teb, pending, foreign, void>>

\* CbCallAtThreadExit(ReuseBX_CPU, cpu) and CbCallAtThreadExit(ReuseStack, stack)
Register(t) ==
    /\ pc[t] = "list"
    /\ pc' = [pc EXCEPT ![t] = IF Top(t) \in Cpu THEN "stack" ELSE "code"]
    /\ CallAtExit(t, Top(t))
    /\ UNCHANGED <<idle, fresh, dll, used, teb, pending, foreign, void>>

\* The first PeLdrGetCurrentTeb of a thread, for the FS base of a new CPU, for the
\* stack bounds EmuExecute stores, or in ThreadProc: the TEB is allocated and put into
\* the TLS slot ...
CreateTeb(t) ==
    /\ pc[t] = "code" \/ (pc[t] = "cpu" /\ Cpu \cap idle = {})
    /\ pc' = [pc EXCEPT ![t] = "teb"]
    /\ teb[t] = None
    /\ \E b \in Teb \cap fresh :
          /\ teb' = [teb EXCEPT ![t] = b]
          /\ fresh' = fresh \ {b}
    /\ UNCHANGED <<idle, dll, used, listed, pending, foreign, void>>

\* t is about to take a CPU, the innermost activation being one of Bochs.
NeedsCpu(t) == used[t] # <<>> /\ Top(t) = Bochs

\* ... and then registered.
RegisterTeb(t) ==
    /\ pc[t] = "teb"
    /\ pc' = [pc EXCEPT ![t] = IF NeedsCpu(t) THEN "cpu" ELSE "code"]
    /\ CallAtExit(t, teb[t])
    /\ UNCHANGED <<idle, fresh, dll, used, teb, pending, foreign, void>>

\* The stack bounds are stored in the TEB and the code runs.
EnterCode(t) ==
    /\ Goto(t, "code", "run")
    /\ teb[t] # None
    /\ UNCHANGED <<idle, fresh, dll, used, teb, listed, pending, foreign, void>>

-----------------------------------------------------------------------------
(* The ways an activation ends                                             *)

\* Mutant: CbRemoveCallAtThreadExit is not called for the stack.
Unlist_StackKept(t) ==
    /\ \/ Goto(t, "run", "put") /\ used[t] # <<>>
       \/ Goto(t, "unlist", "put")
    /\ listed' = IF Top(t) \in Stack THEN listed
                 ELSE [listed EXCEPT ![t] = RemoveFirst(@, Top(t))]
    /\ UNCHANGED <<idle, fresh, dll, used, teb, pending, foreign, void>>

\* The activation returns: CbRemoveCallAtThreadExit for its stack, then for its CPU
\* or engine.
Unlist(t) ==
    /\ \/ Goto(t, "run", "put") /\ used[t] # <<>>
       \/ Goto(t, "unlist", "put")
    /\ listed' = [listed EXCEPT ![t] = RemoveFirst(@, Top(t))]
    /\ UNCHANGED <<idle, fresh, dll, used, teb, pending, foreign, void>>

\* ReuseStack(Stack), ReuseBX_CPU(cpu) or DBInUse[UsedDosBox] = 0
Put(t) ==
    /\ pc[t] = "put"
    /\ pc' = [pc EXCEPT ![t] = IF Top(t) \in Stack THEN "unlist" ELSE "run"]
    /\ idle' = idle \cup {Top(t)}
    /\ used' = [used EXCEPT ![t] = IF Top(t) \in Cpu THEN Front(Front(@)) ELSE Front(@)]
    /\ UNCHANGED <<fresh, dll, teb, listed, pending, foreign, void>>

\* s without its innermost activation.
Outer(s) == SubSeq(s, 1, Len(s) - (IF s[Len(s) - 1] \in Box THEN 2 ELSE 3))

\* A fault ends the innermost activation without its epilogue, see EnginePool.
SwallowException(t) ==
    /\ pc[t] = "run"
    /\ used[t] # <<>>
    /\ Outer(used[t]) # <<>> \/ t \notin foreign
    /\ used' = [used EXCEPT ![t] = Outer(@)]
    /\ UNCHANGED <<idle, fresh, dll, teb, listed, pending, pc, foreign, void>>

\* The TLS slots of a thread end with it.
TlsEnds(T) == teb' = [t \in Thread |-> IF t \in T THEN None ELSE teb[t]]

\* YactUnhandledExceptionFilter ends the thread without CbNotifyThreadExit.
UnhandledException(t) ==
    /\ Goto(t, "run", "off")
    /\ used[t] # <<>>
    /\ Outer(used[t]) = <<>>
    /\ used' = [used EXCEPT ![t] = <<>>]
    /\ TlsEnds({t})
    /\ UNCHANGED <<idle, fresh, dll, listed, pending, foreign, void>>

\* A thread of the OS or of a native DLL ends in native code.
LeaveForeign(t) ==
    /\ Goto(t, "run", "off")
    /\ t \in foreign
    /\ used[t] = <<>>
    /\ TlsEnds({t})
    /\ UNCHANGED <<idle, fresh, dll, used, listed, pending, foreign, void>>

\* ThreadProc has told the DLLs, which is the last emulated code of the thread, or
\* emulated code calls ExitThread: CbNotifyThreadExit takes the list.
BeginExit(t) ==
    /\ Goto(t, "run", "drain")
    /\ t \notin foreign \/ used[t] # <<>>
    /\ pending' = [pending EXCEPT ![t] = listed[t]]
    /\ listed' = [listed EXCEPT ![t] = <<>>]
    /\ used' = [used EXCEPT ![t] = <<>>]
    /\ UNCHANGED <<idle, fresh, dll, teb, foreign, void>>

\* Mutant: every entry is put back like a stack, a TEB too.
Deliver_PutBack(t) ==
    /\ pc[t] \in {"drain", "wipe"}
    /\ pending[t] # <<>>
    /\ idle' = idle \cup {Head(pending[t])}
    /\ pending' = [pending EXCEPT ![t] = Tail(@)]
    /\ UNCHANGED <<fresh, dll, used, teb, listed, pc, foreign, void>>

\* The function of the head of the list is called: FreeTEB, or one that puts back.
Deliver(t) ==
    /\ pc[t] \in {"drain", "wipe"}
    /\ pending[t] # <<>>
    /\ LET r == Head(pending[t]) IN
          IF r \in Teb THEN fresh' = fresh \cup {r} /\ UNCHANGED idle
                       ELSE idle' = idle \cup {r} /\ UNCHANGED fresh
    /\ pending' = [pending EXCEPT ![t] = Tail(@)]
    /\ UNCHANGED <<dll, used, teb, listed, pc, foreign, void>>

\* Mutant: ThreadProc calls CbNotifyThreadExit before it tells the DLLs.
FinishExit_ThenDetach(t) ==
    /\ pending[t] = <<>>
    /\ Goto(t, "drain", "run") \/ Goto(t, "wipe", "run")
    /\ UNCHANGED <<idle, fresh, dll, used, teb, listed, pending, foreign, void>>

\* The list is empty: the thread is gone, or goes on after its TerminateThread.
FinishExit(t) ==
    /\ pending[t] = <<>>
    /\ \/ Goto(t, "drain", "off") /\ TlsEnds({t})
       \/ Goto(t, "wipe", "run") /\ UNCHANGED teb
    /\ UNCHANGED <<idle, fresh, dll, used, listed, pending, foreign, void>>

\* The TEB that t has not registered yet.
NewTeb(t) == IF pc[t] = "teb" THEN {teb[t]} ELSE {}

\* What v took and no list under Notifications would give back.
Unlisted(v) == (ToSet(used[v]) \cup ToSet(pending[v]) \cup NewTeb(v)) \ ToSet(listed[v])

\* yact_TerminateThread(v) by c: v stops wherever it is, then CbNotifyThreadExit
\* delivers the list of c, which goes on with what the list gave away.
TerminateOther(c, v) ==
    /\ c \in Killers
    /\ Cardinality(void) <= MaxVoid
    /\ used[c] # <<>>
    /\ pc[c] = "run"
    /\ pc' = [pc EXCEPT ![v] = "off", ![c] = "wipe"]
    /\ used' = [used EXCEPT ![v] = <<>>]
    /\ pending' = [pending EXCEPT ![v] = <<>>, ![c] = listed[c]]
    /\ listed' = [listed EXCEPT ![c] = <<>>]
    /\ TlsEnds({v})
    /\ void' = void \cup ((ToSet(listed[c]) \cup Unlisted(v)) \ {Bochs})
    /\ UNCHANGED <<idle, fresh, dll, foreign>>

-----------------------------------------------------------------------------
Step(t) ==
    \/ Start(t) \/ LeaseBox(t) \/ UseBochs(t) \/ TakeCpu(t) \/ TakeStack(t)
    \/ Register(t) \/ CreateTeb(t) \/ RegisterTeb(t) \/ EnterCode(t)
    \/ Unlist(t) \/ Put(t)
    \/ SwallowException(t) \/ UnhandledException(t)
    \/ LeaveForeign(t) \/ BeginExit(t) \/ Deliver(t) \/ FinishExit(t)

Next ==
    \/ \E t \in Thread : Step(t)
    \/ \E c, v \in Thread : c # v /\ TerminateOther(c, v)

Spec == Init /\ [][Next]_vars

-----------------------------------------------------------------------------
(* Safety.  Every promise is about the resources no TerminateThread broke. *)

Intact == Resource \ void

\* A stack or a CPU serves one activation: it is not in a list from which another
\* activation could take it, and it occurs once in what the activations took.
Exclusive ==
    \A t, u \in Thread : \A k \in DOMAIN used[t], l \in DOMAIN used[u] :
        used[t][k] \in Intact =>
            /\ used[t][k] \notin idle \cup fresh
            /\ used[t][k] = used[u][l] => t = u /\ k = l

\* An exit gives back what nobody has given back or taken since: an entry of an exit
\* list names nothing that is idle, that another thread runs on, or that has
\* another entry.
ListedByHolder ==
    \A t, u \in Thread : \A r \in Intact :
        r \in ToSet(listed[t]) \cup ToSet(pending[t]) =>
            /\ r \notin idle \cup fresh
            /\ t # u => r \notin ToSet(used[u]) \cup ToSet(listed[u]) \cup ToSet(pending[u])

\* Nothing leaks: what is neither idle nor free is on an exit list, or is the last
\* thing a thread took and has not registered yet or no longer.
Recoverable ==
    \A r \in Intact \ (idle \cup fresh) : \E t \in Thread :
        \/ r \in ToSet(listed[t]) \cup ToSet(pending[t])
        \/ pc[t] \in {"list", "put"} /\ used[t] # <<>> /\ Top(t) = r
        \/ r \in NewTeb(t)

\* A DOSBox engine never needs a second stack: whoever leases it next finds the
\* first one in the StackList, because every way to give back the engine gives
\* back the stack before.
OneStackPerEngine ==
    \A s, u \in Stack \ void : \A i \in Box \ void : dll[s] = i /\ dll[u] = i => s = u

\* Threads that can still run emulated code.
Alive == {t \in Thread : pc[t] \notin {"off", "drain"}}

\* The TEB of a thread that can run emulated code is not freed and no other such
\* thread has it: exits free it, but after the last DLL has been told.
TebAlive ==
    \A t, u \in Alive :
        teb[t] \in Intact => /\ teb[t] \notin fresh
                             /\ teb[t] = teb[u] => t = u

-----------------------------------------------------------------------------
(* The inductive invariant                                                 *)

Engines == Box \cup {Bochs}

\* An activation takes an engine, for Bochs a CPU, and a stack of the engine's dll;
\* how far it has come is in pc.
Shape ==
    \A t \in Thread :
        /\ \A k \in DOMAIN used[t] :
              /\ used[t][k] \in Engines /\ k > 1 => used[t][k - 1] \in Stack
              /\ used[t][k] \in Cpu => k > 1 /\ used[t][k - 1] = Bochs
              /\ used[t][k] \in Stack =>
                    /\ k > 1
                    /\ \/ used[t][k - 1] \in Box /\ dll[used[t][k]] = used[t][k - 1]
                       \/ used[t][k - 1] \in Cpu /\ dll[used[t][k]] = Bochs
        /\ pc[t] \in {"cpu", "stack", "list", "unlist", "put"} => used[t] # <<>>
        /\ used[t] # <<>> =>
              /\ pc[t] = "cpu" => Top(t) = Bochs
              /\ pc[t] \in {"stack", "unlist"} => Top(t) \in Box \cup Cpu
              /\ pc[t] = "list" => Top(t) \in Cpu \cup Stack
              /\ pc[t] = "put" => Top(t) \in Box \cup Cpu \cup Stack
              /\ pc[t] = "teb" => Top(t) = Bochs \/ Top(t) \in Stack
              /\ pc[t] \in {"run", "code", "wipe"} => Top(t) \in Stack

\* What was never allocated is in no list, has no dll and is not broken.
FreshUnused ==
    /\ idle \cap fresh = {}
    /\ \A s \in Stack : s \in fresh <=> dll[s] = None
    /\ \A r \in fresh \cap (Stack \cup Cpu) :
          r \notin void /\ \A t \in Thread : r \notin ToSet(used[t])

\* A resource has one entry.
ListedOnce ==
    \A t \in Thread : \A r \in Intact :
        /\ Once(listed[t], r)
        /\ Once(pending[t], r)
        /\ r \in ToSet(pending[t]) => r \notin ToSet(listed[t])

\* What an activation took is registered, except its last resource between taking and
\* registering and between cancelling and putting back.
UsedListed ==
    \A t \in Thread : \A r \in Intact \cap ToSet(used[t]) :
        IF pc[t] \in {"list", "put"} /\ r = Top(t) THEN r \notin ToSet(listed[t])
                                               ELSE r \in ToSet(listed[t])

\* A list is delivered by a thread that has nothing left to run, or, after a
\* TerminateThread, names broken resources only.
DeliveryPhase ==
    \A t \in Thread :
        /\ pending[t] # <<>> => pc[t] \in {"drain", "wipe"}
        /\ pc[t] \in {"off", "drain"} => used[t] = <<>>
        /\ pc[t] = "drain" => listed[t] = <<>>
        /\ pc[t] = "wipe" => ToSet(pending[t]) \subseteq void

\* The TEB a thread uses is on its own list.
TebListed ==
    \A t \in Thread : /\ pc[t] = "off" => teb[t] = None
                      /\ pc[t] = "teb" => teb[t] # None
                      /\ t \in Alive /\ pc[t] # "teb" /\ teb[t] \in Intact =>
                            teb[t] \in ToSet(listed[t])

\* One that is not registered yet is on none, and nobody else has it.
TebUnlisted ==
    \A t, u \in Thread : pc[t] = "teb" /\ teb[t] \in Intact =>
        /\ teb[t] \notin fresh \cup ToSet(listed[u]) \cup ToSet(pending[u])
        /\ u # t /\ u \in Alive => teb[u] # teb[t]

\* A list that gives back the stack of an engine gives back the engine.
PairListed ==
    \A s \in Stack \ void : dll[s] \in Intact => \A t \in Thread :
        /\ s \in ToSet(listed[t]) => dll[s] \in ToSet(listed[t])
        /\ s \in ToSet(pending[t]) => dll[s] \in ToSet(pending[t])

\* A broken stack whose engine is not broken is lost.
PairVoid ==
    \A s \in Stack \cap void : dll[s] \in Intact =>
        /\ s \notin idle
        /\ \A t \in Thread :
              s \notin ToSet(used[t]) \cup ToSet(listed[t]) \cup ToSet(pending[t])

\* x occurs in s and before every i.
Before(s, x, i) == \E k \in DOMAIN s : s[k] = x /\ \A l \in DOMAIN s : s[l] = i => k < l

\* While an engine runs no code its stack is in the StackList, and the exit list
\* that gives back the engine gives back the stack before it.
StackFirst ==
    \A s \in Stack \ (void \cup idle) :
        /\ dll[s] \in Intact => dll[s] \notin idle
        /\ \A t \in Thread :
              /\ pc[t] \in {"stack", "unlist", "put"} /\ dll[s] \in Intact => dll[s] # Top(t)
              /\ dll[s] \in Intact \cap ToSet(pending[t]) => Before(pending[t], s, dll[s])
              /\ dll[s] \in Intact \cap ToSet(listed[t]) =>
                    \/ Before(listed[t], s, dll[s])
                    \/ pc[t] \in {"list", "put"} /\ Top(t) = s

IInv ==
    /\ TypeOK
    /\ Shape
    /\ FreshUnused
    /\ Exclusive
    /\ ListedByHolder
    /\ ListedOnce
    /\ UsedListed
    /\ DeliveryPhase
    /\ TebListed
    /\ TebUnlisted
    /\ PairListed
    /\ PairVoid
    /\ StackFirst
    /\ OneStackPerEngine
    /\ Recoverable
=============================================================================
