------------------------- MODULE ExecutionLifecycle -------------------------
(***************************************************************************)
(* What the execution of an Evaluation promises to whoever reads it: the   *)
(* Execution Status of its Review Runs and of itself, and its outcome.     *)
(* There are no leases, processes, retries or restarts here.               *)
(*                                                                         *)
(*  - an Evaluation is admitted with all its Review Runs, and is complete  *)
(*    at once when it has none;                                            *)
(*  - a queued Review Run starts at most once and ends in one final status;*)
(*  - the step that ends the last Review Run of an Evaluation completes    *)
(*    the Evaluation with the outcome of all of them;                      *)
(*  - an Evaluation is cancelled whole, with outcome error;                *)
(*  - several runs fail in one step only when they were all running.       *)
(***************************************************************************)
EXTENDS EvaluationOutcome

CONSTANTS Work, Evaluations, EvaluationOf, ApplicabilityErrors

VARIABLES executionStatus, verdict, evaluation, outcome

vars == <<executionStatus, verdict, evaluation, outcome>>

RunsOf(e) == {w \in Work : EvaluationOf[w] = e}

Init ==
    /\ executionStatus = [w \in Work |-> "absent"]
    /\ verdict = [w \in Work |-> "none"]
    /\ evaluation = [e \in Evaluations |-> "absent"]
    /\ outcome = [e \in Evaluations |-> "none"]

\* The Evaluations whose runs are all terminal after the step are completed,
\* provided the runs ended contain one of theirs.
CompleteAfter(ended) ==
    LET done == {e \in Evaluations : /\ RunsOf(e) \cap ended # {}
                                     /\ AllTerminal(RunsOf(e), executionStatus')}
        OutcomeOf(e) == AggregateOutcome(e \in ApplicabilityErrors, RunsOf(e),
                                         executionStatus', verdict')
    IN  /\ evaluation' = [e \in Evaluations |->
               IF e \in done THEN "completed" ELSE evaluation[e]]
        /\ outcome' = [e \in Evaluations |->
               IF e \in done THEN OutcomeOf(e) ELSE outcome[e]]

Admit(e) ==
    /\ evaluation[e] = "absent"
    /\ executionStatus' = [w \in Work |->
           IF w \in RunsOf(e) THEN "queued" ELSE executionStatus[w]]
    /\ evaluation' = [evaluation EXCEPT
           ![e] = IF RunsOf(e) = {} THEN "completed" ELSE "queued"]
    /\ outcome' = [outcome EXCEPT
           ![e] = IF RunsOf(e) # {} THEN "none"
                  ELSE IF e \in ApplicabilityErrors THEN "error" ELSE "clear"]
    /\ UNCHANGED verdict

Start(w) ==
    /\ executionStatus[w] = "queued"
    /\ executionStatus' = [executionStatus EXCEPT ![w] = "running"]
    /\ UNCHANGED <<verdict, evaluation, outcome>>

Accept(w, result) ==
    /\ executionStatus[w] = "running"
    /\ executionStatus' = [executionStatus EXCEPT ![w] = "completed"]
    /\ verdict' = [verdict EXCEPT ![w] = result]
    /\ CompleteAfter({w})

Fail(S) ==
    /\ S # {} /\ \A w \in S : executionStatus[w] = "running"
    /\ executionStatus' = [w \in Work |->
           IF w \in S THEN "failed" ELSE executionStatus[w]]
    /\ CompleteAfter(S)
    /\ UNCHANGED verdict

Cancel(e) ==
    /\ evaluation[e] = "queued"
    /\ executionStatus' = [w \in Work |->
           IF w \in RunsOf(e) /\ executionStatus[w] \in Nonterminal
           THEN "cancelled" ELSE executionStatus[w]]
    /\ evaluation' = [evaluation EXCEPT ![e] = "cancelled"]
    /\ outcome' = [outcome EXCEPT ![e] = "error"]
    /\ UNCHANGED verdict

Next ==
    \/ \E e \in Evaluations : Admit(e) \/ Cancel(e)
    \/ \E w \in Work : Start(w) \/ \E result \in Verdicts : Accept(w, result)
    \/ \E S \in SUBSET Work : Fail(S)

Spec == Init /\ [][Next]_vars
=============================================================================
