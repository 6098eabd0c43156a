---------------------------- MODULE MCEnginePool ----------------------------
(***************************************************************************)
(* Instances of EnginePool for TLC.                                        *)
(***************************************************************************)
EXTENDS EnginePool, TLC

CONSTANTS t1, t2, t3

\* Threads that never call TerminateThread on another one are interchangeable.
Peers == Permutations(Thread \ Killers)
=============================================================================
