------------------------- MODULE EvaluationOutcome -------------------------
(***************************************************************************)
(* The outcome of an Evaluation, computed from the terminal facts of its   *)
(* Review Runs: src/src/evaluation/evaluation-aggregation.ts.              *)
(*                                                                         *)
(* A completed Review Run stores one result per criterion.  The aggregate  *)
(* only asks whether some criterion result is an error and whether some    *)
(* triggered criterion is blocking or advisory, so a completed Review Run  *)
(* is represented by its strongest criterion result, its verdict.          *)
(***************************************************************************)

Verdicts == {"clear", "advisory", "blocking", "error"}

Terminal == {"completed", "failed", "cancelled"}
Nonterminal == {"queued", "running"}

(***************************************************************************)
(* aggregateEvaluationOutcome over the Review Runs runs: executionStatus   *)
(* and verdict give the terminal facts of each of them, applicabilityError *)
(* says that some Applicability Result of the Evaluation is an error.      *)
(* Errors and failed or cancelled runs dominate, then blocking, advisory.  *)
(***************************************************************************)
AggregateOutcome(applicabilityError, runs, executionStatus, verdict) ==
    LET Has(v) == \E w \in runs : verdict[w] = v
        Unfinished == \E w \in runs : executionStatus[w] # "completed"
    IN  IF applicabilityError \/ Unfinished \/ Has("error") THEN "error"
        ELSE IF Has("blocking") THEN "blocking"
        ELSE IF Has("advisory") THEN "advisory"
        ELSE "clear"

AllTerminal(runs, executionStatus) ==
    \A w \in runs : executionStatus[w] \in Terminal
=============================================================================
