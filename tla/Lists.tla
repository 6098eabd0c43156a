-------------------------------- MODULE Lists --------------------------------
(***************************************************************************)
(* What the specifications say about the lists of yact/inc/classes.h       *)
(* (CList) beyond the operators of SequencesExt.                           *)
(***************************************************************************)
EXTENDS Integers, Sequences, SequencesExt

\* x occurs at most once in the sequence s.
Once(s, x) == \A k, l \in DOMAIN s : s[k] = x /\ s[l] = x => k = l

\* Where x occurs in the sequence s.
Positions(s, x) == {k \in DOMAIN s : s[k] = x}
=============================================================================
