--------------------------- MODULE MCEngineStacks ---------------------------
(***************************************************************************)
(* The TLC instances of EngineStacks.                                      *)
(***************************************************************************)
EXTENDS EngineStacks, TLC

CONSTANTS t1, t2

\* Emulated code on t1 nests, t2 runs one activation at a time.
Nesting == t1 :> 2 @@ t2 :> 1

\* With a TEB and one activation on its list t1 may call again; t2 may not call after
\* a fault.
Entries == t1 :> 3 @@ t2 :> 1

\* What is interchangeable.
Interchangeable == Permutations(Stack) \cup Permutations(Cpu) \cup Permutations(Teb)
=============================================================================
