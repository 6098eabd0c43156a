----------------------------- MODULE EngineLease -----------------------------
(***************************************************************************)
(* What the pool of DOSBox engines promises to the threads that run        *)
(* emulated code.                                                          *)
(*                                                                         *)
(* An engine (one copy of dosbox_emu.dll) keeps the x86 registers in its   *)
(* global variables, so it can execute one activation of EmuExecute at a   *)
(* time.  An engine is leased to a thread when an activation starts, and   *)
(* only an engine nobody holds and nobody runs; the lease ends by an act   *)
(* of the thread that holds it.  A TerminateThread may void the promise,   *)
(* but only for engines leased to the thread that calls it or to the one   *)
(* it kills; nothing else ever voids it.                                   *)
(***************************************************************************)
EXTENDS Naturals

CONSTANTS Thread,      \* thread ids
          NoThread,    \* the holder of an engine that is not leased
          Box          \* engines

VARIABLES lease,    \* Box -> the thread an engine is leased to, or NoThread
          active,   \* Box -> the activations the engine executes
          void      \* engines no promise is made for

leaseVars == <<lease, active, void>>

Sound == Box \ void

Without(f, S, none) == [i \in Box |-> IF i \in S THEN none ELSE f[i]]

LeaseInit ==
    /\ lease = [i \in Box |-> NoThread]
    /\ active = [i \in Box |-> {}]
    /\ void = {}

\* One activation a, whatever its name, starts on an engine nobody holds.
Grant(t, i) ==
    /\ i \in Sound
    /\ lease[i] = NoThread
    /\ active[i] = {}
    /\ \E a \in active'[i] : active' = [active EXCEPT ![i] = {a}]
    /\ lease' = [lease EXCEPT ![i] = t]
    /\ UNCHANGED void

\* Activations of t end (an exception or an exit unwinds them); it keeps its leases.
Stop(t, S) ==
    /\ S \subseteq Sound
    /\ \A i \in S : lease[i] = t
    /\ active' = Without(active, S, {})
    /\ UNCHANGED <<lease, void>>

\* The holder gives the engine back; what ran on it, if anything, was its own.
GiveBack(t, i) ==
    /\ i \in Sound
    /\ lease[i] = t
    /\ lease' = [lease EXCEPT ![i] = NoThread]
    /\ active' = [active EXCEPT ![i] = {}]
    /\ UNCHANGED void

\* c kills v: activations of v (on S) end, the promise for the engines in V is void.
Break(c, v, S, V) ==
    /\ S \cup V \subseteq Sound
    /\ \A i \in S : lease[i] = v
    /\ \A i \in V : lease[i] \in {c, v}
    /\ void' = void \cup V
    /\ lease' = Without(lease, V, NoThread)
    /\ active' = Without(active, S \cup V, {})

LeaseNext ==
    \/ \E t \in Thread, i \in Box : Grant(t, i) \/ GiveBack(t, i)
    \/ \E t \in Thread, S \in SUBSET Box : Stop(t, S)
    \/ \E c, v \in Thread, S, V \in SUBSET Box : c # v /\ Break(c, v, S, V)

LeaseSpec == LeaseInit /\ [][LeaseNext]_leaseVars
=============================================================================
