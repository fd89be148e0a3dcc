------------------------- MODULE MCCodexExecution -------------------------
(* Instances of CodexExecution for TLC. *)
EXTENDS CodexExecution, TLC

CONSTANTS e1, e2, e3, w1, w2

\* One Review Run of one Evaluation.
SingleOf == w1 :> e1

\* Two Review Runs of one Evaluation.
PairOf == w1 :> e1 @@ w2 :> e1

\* Two Evaluations with one Review Run each; a third has none.
ApartOf == w1 :> e1 @@ w2 :> e2
=============================================================================
