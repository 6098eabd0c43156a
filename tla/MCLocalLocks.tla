---------------------------- MODULE MCLocalLocks ----------------------------
(***************************************************************************)
(* The TLC instances of LocalLocks.  Every thread calls the functions that *)
(* load modules (CSPeLdr) and those that make callbacks (CSCb).            *)
(***************************************************************************)
EXTENDS LocalLocks, TLC

CONSTANTS CSPeLdr, CSCb

\* No definition tells threads, sections or keys apart.
Symmetry == Permutations(Thread) \cup Permutations(Section) \cup Permutations(Key)
=============================================================================
