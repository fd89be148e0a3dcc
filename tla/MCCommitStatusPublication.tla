--------------------- MODULE MCCommitStatusPublication ---------------------
(***************************************************************************)
(* The instances of CommitStatusPublication for TLC.  Evaluations 1 and 2  *)
(* evaluate one head, so that one replaces the other; 3 evaluates another, *)
(* so that a round copies two rows.                                        *)
(***************************************************************************)
EXTENDS CommitStatusPublication

CONSTANTS a, b

MCHeadOf == [e \in Evaluations |-> IF e < 3 THEN a ELSE b]
=============================================================================
