------------------------ MODULE CodexExecutionProofs ------------------------
(***************************************************************************)
(* Theorems about CodexExecution for every value of its constants.         *)
(***************************************************************************)
EXTENDS CodexExecution, FiniteSetTheorems, FunctionTheorems, TLAPS

USE DEF Tokens

(***************************************************************************)
(* The outcome of an Evaluation is always one of the four verdicts.        *)
(***************************************************************************)
LEMMA AggregateOutcomeType ==
    ASSUME NEW b, NEW S, NEW status, NEW result
    PROVE  AggregateOutcome(b, S, status, result) \in Verdicts
BY DEF AggregateOutcome, Verdicts

(***************************************************************************)
(* What the shared parts of the transactions preserve of the types.        *)
(***************************************************************************)
LEMMA AppendFailuresType ==
    ASSUME TypeOK, NEW S \in SUBSET queue, NEW error \in PreStartErrors,
           AppendFailures(S, error)
    PROVE  /\ attempts' \in [Work -> Nat]
           /\ lastError' \in [Work -> PreStartErrors \cup {"none"}]
           /\ attemptMarker' \in [Work -> Nat]
           /\ exhausted' \subseteq queue
BY DEF TypeOK, AppendFailures

LEMMA CompleteEvaluationsType ==
    ASSUME TypeOK, NEW S, NEW status, NEW result,
           CompleteEvaluations(S, status, result)
    PROVE  /\ evaluation' \in [Evaluations -> {"absent", "queued", "completed", "cancelled"}]
           /\ outcome' \in [Evaluations -> Verdicts \cup {"none"}]
BY AggregateOutcomeType DEF TypeOK, CompleteEvaluations

LEMMA FailRunsType ==
    ASSUME TypeOK, NEW S, FailRuns(S)
    PROVE  /\ executionStatus' \in [Work -> Statuses]
           /\ evaluation' \in [Evaluations -> {"absent", "queued", "completed", "cancelled"}]
           /\ outcome' \in [Evaluations -> Verdicts \cup {"none"}]
<1>1. executionStatus' \in [Work -> Statuses]
  BY DEF TypeOK, FailRuns, Statuses, Terminal
<1>2. CompleteEvaluations(S, executionStatus', verdict)
  BY DEF FailRuns
<1>3. QED
  BY <1>1, <1>2, CompleteEvaluationsType

LEMMA RecordPreStartFailureType ==
    ASSUME TypeOK, NEW w \in Work, NEW k \in Tokens,
           NEW error \in {"checkout", "definitive"},
           RecordPreStartFailure(w, k, error), UNCHANGED queue
    PROVE  /\ attempts' \in [Work -> Nat]
           /\ lastError' \in [Work -> PreStartErrors \cup {"none"}]
           /\ attemptMarker' \in [Work -> Nat]
           /\ exhausted' \subseteq queue /\ leased' \subseteq queue
<1>1. CASE HoldsUnstarted(w, k)
  <2>1. {w} \in SUBSET queue /\ AppendFailures({w}, error) /\ error \in PreStartErrors
    BY <1>1 DEF RecordPreStartFailure, HoldsUnstarted, Holds, PreStartErrors
  <2>2. leased' \subseteq queue
    BY <1>1 DEF RecordPreStartFailure, TypeOK
  <2>3. QED BY <2>1, <2>2, AppendFailuresType
<1>2. CASE ~HoldsUnstarted(w, k)
  BY <1>2 DEF RecordPreStartFailure, TypeOK
<1>3. QED BY <1>1, <1>2

(***************************************************************************)
(* Type correctness, one step per action.                                  *)
(***************************************************************************)
LEMMA TypeInit == Init => TypeOK
BY MaxConcurrencyAssumption
DEF Init, TypeOK, Statuses, Verdicts, PreStartErrors, Steps, Endings, GroupStates, Started

LEMMA TypeRequest == TypeOK /\ Request => TypeOK'
<1> SUFFICES ASSUME TypeOK, Request PROVE TypeOK'
  OBVIOUS
<1> USE DEF durableRun, durableEvaluation, claimVars, groupVars, volatile, bounds
<1>1. ASSUME NEW e \in Evaluations, Admit(e) PROVE TypeOK'
  BY <1>1 DEF TypeOK, Admit, RunsOf, Started, Statuses, Nonterminal, Verdicts
<1>2. ASSUME NEW e \in Evaluations, CancelEvaluation(e) PROVE TypeOK'
  BY <1>2 DEF TypeOK, CancelEvaluation, RunsOf, Started, Statuses, Terminal, Verdicts
<1>3. ASSUME NEW e \in Evaluations, RetryPreStart(e) PROVE TypeOK'
  <2> DEFINE retried == {w \in RunsOf(e) \cap Unstarted :
                           w \in exhausted /\ executionStatus[w] = "queued"}
  <2>1. /\ retryCycle' = [w \in Work |-> retryCycle[w] + IF w \in retried THEN 1 ELSE 0]
        /\ attempts' = [w \in Work |-> IF w \in retried THEN 0 ELSE attempts[w]]
        /\ lastError' = [w \in Work |-> IF w \in retried THEN "none" ELSE lastError[w]]
        /\ exhausted' = exhausted \ retried
    BY <1>3 DEF RetryPreStart
  <2> HIDE DEF retried
  <2>2. retryCycle' \in [Work -> Nat \ {0}] /\ attempts' \in [Work -> Nat]
    BY <2>1 DEF TypeOK
  <2>3. lastError' \in [Work -> PreStartErrors \cup {"none"}] /\ exhausted' \subseteq queue
    BY <2>1 DEF TypeOK
  <2>4. UNCHANGED <<executionStatus, verdict, durableEvaluation, queue, fencingToken, leased,
                    attemptMarker, groupVars, maximumRunning, volatile, bounds>>
    BY <1>3 DEF RetryPreStart
  <2> QED
    BY <2>2, <2>3, <2>4 DEF TypeOK, Started
<1>4. ASSUME NEW n \in 0 .. MaxConcurrency + 1, SetConcurrency(n) PROVE TypeOK'
  BY <1>4 DEF TypeOK, SetConcurrency, IsConcurrency, Started
<1>5. QED BY <1>1, <1>2, <1>3, <1>4 DEF Request

LEMMA TypeWorker == TypeOK /\ Worker => TypeOK'
<1> SUFFICES ASSUME TypeOK, Worker PROVE TypeOK'
  OBVIOUS
<1> USE DEF durableRun, durableEvaluation, claimVars, groupVars, volatile, bounds
<1>1. ASSUME RecoverInterruptedAttempts
      PROVE  /\ attempts' \in [Work -> Nat]
             /\ lastError' \in [Work -> PreStartErrors \cup {"none"}]
             /\ attemptMarker' \in [Work -> Nat]
             /\ exhausted' \subseteq queue
  <2>1. Interrupted \in SUBSET queue /\ "interrupted" \in PreStartErrors
    BY DEF Interrupted, Unstarted, PreStartErrors
  <2>2. QED BY <1>1, <2>1, AppendFailuresType DEF RecoverInterruptedAttempts
<1>2. CASE ClaimNothing
  BY <1>1, <1>2 DEF TypeOK, ClaimNothing, Started
<1>3. ASSUME NEW w \in Work, ClaimNext(w) PROVE TypeOK'
  <2>1. w \in queue
    BY <1>3 DEF ClaimNext, FirstClaimable, Claimable, Unstarted
  <2>2. fencingToken[w] + 1 \in Tokens
    BY <1>3, BoundAssumption DEF ClaimNext, TypeOK
  <2>3. fencingToken' \in [Work -> Nat] /\ pc' \in [Work -> [Tokens -> Steps]]
    BY <1>3, <2>2 DEF TypeOK, ClaimNext, GoTo, Steps
  <2>4. leased' \subseteq queue
    BY <1>3, <2>1 DEF TypeOK, ClaimNext
  <2>5. /\ attempts' \in [Work -> Nat] /\ attemptMarker' \in [Work -> Nat]
        /\ lastError' \in [Work -> PreStartErrors \cup {"none"}]
        /\ exhausted' \subseteq queue
    BY <1>1, <1>3 DEF ClaimNext
  <2>6. QED BY <1>3, <2>3, <2>4, <2>5 DEF TypeOK, ClaimNext, Started
<1>4. QED BY <1>2, <1>3 DEF Worker

LEMMA GoToType ==
    ASSUME TypeOK, NEW w \in Work, NEW k \in Tokens, NEW step \in Steps,
           GoTo(w, k, step)
    PROVE  pc' \in [Work -> [Tokens -> Steps]]
BY DEF TypeOK, GoTo

LEMMA TypeExecutor ==
    ASSUME TypeOK, NEW w \in Work, NEW k \in Tokens, Executor(w, k)
    PROVE  TypeOK'
<1> USE DEF durableRun, durableEvaluation, claimVars, groupVars, volatile, bounds
<1>s. {"idle", "claimed", "preparing", "prepared", "refused", "executing", "closing",
       "terminating", "finishing", "settling"} \subseteq Steps
  BY DEF Steps, StartedSteps
<1>1. CASE BeginPreStartAttempt(w, k)
  <2>1. attemptMarker' \in [Work -> Nat]
    BY <1>1 DEF TypeOK, BeginPreStartAttempt
  <2>2. pc' \in [Work -> [Tokens -> Steps]]
    BY <1>1, <1>s, GoToType DEF BeginPreStartAttempt
  <2>3. QED BY <1>1, <2>1, <2>2 DEF TypeOK, BeginPreStartAttempt, Started
<1>2. CASE ReleaseClaim(w, k)
  <2>1. leased' \subseteq queue /\ faults' \in Nat
    <3>1. leased \subseteq queue /\ faults \in Nat
      BY DEF TypeOK
    <3>2. leased' \subseteq leased
      BY <1>2 DEF ReleaseClaim
    <3>3. faults' = faults \/ faults' = faults + 1
      BY <1>2 DEF ReleaseClaim
    <3>4. QED BY <3>1, <3>2, <3>3
  <2>2. pc' \in [Work -> [Tokens -> Steps]]
    BY <1>2, <1>s, GoToType DEF ReleaseClaim
  <2>3. QED BY <1>2, <2>1, <2>2 DEF TypeOK, ReleaseClaim, Started
<1>3. ASSUME NEW error \in {"checkout", "definitive"}, CheckoutFails(w, k, error)
      PROVE  TypeOK'
  <2>1. RecordPreStartFailure(w, k, error) /\ GoTo(w, k, "idle") /\ queue' = queue
    BY <1>3 DEF CheckoutFails
  <2>2. pc' \in [Work -> [Tokens -> Steps]]
    BY <2>1, <1>s, GoToType
  <2>3. /\ attempts' \in [Work -> Nat] /\ attemptMarker' \in [Work -> Nat]
        /\ lastError' \in [Work -> PreStartErrors \cup {"none"}]
        /\ exhausted' \subseteq queue /\ leased' \subseteq queue
    BY <2>1, RecordPreStartFailureType
  <2>4. QED
    BY <1>3, <2>2, <2>3 DEF TypeOK, CheckoutFails, Started
<1>4. CASE CheckoutPrepared(w, k)
  BY <1>4, <1>s, GoToType DEF TypeOK, CheckoutPrepared, Started
<1>5. CASE PreparationFails(w, k)
  BY <1>5, <1>s, GoToType DEF TypeOK, PreparationFails, Started
<1>6. CASE StartTracked(w, k)
  BY <1>6, <1>s, GoToType
  DEF TypeOK, StartTracked, Started, Statuses, Nonterminal, GroupStates
<1>7. CASE StartOverLimit(w, k)
  BY <1>7, <1>s, GoToType DEF TypeOK, StartOverLimit, Started
<1>8. CASE StartClaimLost(w, k)
  BY <1>8, <1>s, GoToType DEF TypeOK, StartClaimLost, Started
<1>9. CASE RecordRefusal(w, k)
  <2>1. RecordPreStartFailure(w, k, "definitive") /\ GoTo(w, k, "idle") /\ queue' = queue
    BY <1>9 DEF RecordRefusal
  <2>2. QED
    BY <1>9, <2>1, <1>s, GoToType, RecordPreStartFailureType DEF TypeOK, RecordRefusal, Started
<1>10. ASSUME NEW result \in Results, Submit(w, k, result) PROVE TypeOK'
  <2>1. CompleteEvaluations({w}, executionStatus', verdict')
    BY <1>10 DEF Submit
  <2>2. QED
    BY <1>10, <2>1, CompleteEvaluationsType, ResultsAssumption
    DEF TypeOK, Submit, Started, Statuses, Terminal
<1>11. ASSUME NEW cause \in Endings, EndsWith(w, k, cause) PROVE TypeOK'
  BY <1>11, <1>s, GoToType DEF TypeOK, EndsWith, Started
<1>12. CASE CloseChannel(w, k)
  <2>1. /\ executionStatus' \in [Work -> Statuses]
        /\ evaluation' \in [Evaluations -> {"absent", "queued", "completed", "cancelled"}]
        /\ outcome' \in [Evaluations -> Verdicts \cup {"none"}]
    BY <1>12, FailRunsType DEF CloseChannel, TypeOK
  <2>2. QED BY <1>12, <2>1, <1>s, GoToType DEF TypeOK, CloseChannel, Started
<1>13. CASE Terminate(w, k)
  <2>1. PICK step \in Steps : GoTo(w, k, step)
    BY <1>13, <1>s DEF Terminate, AfterTermination
  <2>2. QED BY <1>13, <2>1, GoToType DEF TypeOK, Terminate, Started, GroupStates
<1>14. CASE TerminationFails(w, k)
  <2>1. PICK step \in Steps : GoTo(w, k, step)
    BY <1>14, <1>s DEF TerminationFails
  <2>2. QED BY <1>14, <2>1, GoToType DEF TypeOK, TerminationFails, Started
<1>15. CASE FinishProcessGroup(w, k)
  BY <1>15, <1>s, GoToType DEF TypeOK, FinishProcessGroup, Started
<1>16. CASE Settle(w, k)
  <2>1. /\ executionStatus' \in [Work -> Statuses]
        /\ evaluation' \in [Evaluations -> {"absent", "queued", "completed", "cancelled"}]
        /\ outcome' \in [Evaluations -> Verdicts \cup {"none"}]
    BY <1>16, FailRunsType DEF Settle, TypeOK
  <2>2. QED BY <1>16, <2>1, <1>s, GoToType DEF TypeOK, Settle, Started, Endings
<1>17. QED
  BY <1>1, <1>2, <1>3, <1>4, <1>5, <1>6, <1>7, <1>8, <1>9, <1>10, <1>11,
     <1>12, <1>13, <1>14, <1>15, <1>16
  DEF Executor, Advance, Disturb, ObserveSubmission, ObserveCancellation, ObserveExit,
      DeadlineFires, ExecutionFails, Endings

LEMMA TypeRecovery == TypeOK /\ Recovery => TypeOK'
<1> SUFFICES ASSUME TypeOK, Recovery PROVE TypeOK'
  OBVIOUS
<1> USE DEF durableRun, durableEvaluation, claimVars, groupVars, volatile, bounds,
            durableUnchanged, processUnchanged
<1>1. CASE Restart
  BY <1>1 DEF TypeOK, Restart, Started
<1>2. CASE FinishRecovery
  <2> DEFINE opened == {w \in Unstarted : attemptMarker[w] # 0}
  <2>1. opened \in SUBSET queue /\ "interrupted" \in PreStartErrors
    BY DEF Unstarted, PreStartErrors
  <2>2. AppendFailures(opened, "interrupted") /\ FailRuns(Running)
    BY <1>2 DEF FinishRecovery
  <2>3. QED
    BY <1>2, <2>1, <2>2, AppendFailuresType, FailRunsType DEF TypeOK, FinishRecovery, Started
<1>3. ASSUME NEW w \in Work, SignalTrackedGroup(w) PROVE TypeOK'
  BY <1>3 DEF TypeOK, SignalTrackedGroup, Started, GroupStates
<1>4. ASSUME NEW w \in Work, PersistTerminationOutcome(w) PROVE TypeOK'
  BY <1>4 DEF TypeOK, PersistTerminationOutcome, Unresolved, Started
<1>5. ASSUME NEW w \in Work, RecoveryAborts(w) PROVE TypeOK'
  BY <1>5 DEF TypeOK, RecoveryAborts, Started
<1>6. QED BY <1>1, <1>2, <1>3, <1>4, <1>5 DEF Recovery

LEMMA TypeNext == TypeOK /\ [Next]_vars => TypeOK'
<1> SUFFICES ASSUME TypeOK, [Next]_vars PROVE TypeOK'
  OBVIOUS
<1> USE DEF durableRun, durableEvaluation, claimVars, groupVars, volatile, bounds,
            durableUnchanged, processUnchanged
<1>1. CASE Crash
  BY <1>1 DEF TypeOK, Crash, Started, Steps, Endings
<1>2. ASSUME NEW w \in Work, ReadyAtPasses(w) PROVE TypeOK'
  BY <1>2 DEF TypeOK, ReadyAtPasses, Started
<1>3. ASSUME NEW w \in Work, LeaseLapses(w) PROVE TypeOK'
  <2>1. leased' \subseteq queue /\ faults' \in Nat
    BY <1>3 DEF TypeOK, LeaseLapses
  <2>2. QED
    BY <1>3, <2>1 DEF TypeOK, LeaseLapses, Started
<1>4. ASSUME NEW w \in Work, Process(w) PROVE TypeOK'
  <2>1. \E state \in GroupStates : codex' = [codex EXCEPT ![w] = state]
    <3>1. CASE Launch(w)
      BY <3>1 DEF Launch, GroupStates
    <3>2. CASE SupervisorExits(w)
      BY <3>2 DEF SupervisorExits, GroupStates
    <3>3. CASE CodexCloses(w)
      BY <3>3 DEF CodexCloses, GroupStates
    <3>4. CASE OrphanExits(w)
      BY <3>4 DEF OrphanExits, GroupStates
    <3>5. QED BY <1>4, <3>1, <3>2, <3>3, <3>4 DEF Process
  <2>2. codex' \in [Work -> GroupStates]
    BY <2>1 DEF TypeOK
  <2>3. UNCHANGED processUnchanged
    BY <1>4 DEF Process, Launch, SupervisorExits, CodexCloses, OrphanExits
  <2>4. QED BY <2>2, <2>3 DEF TypeOK, Started
<1>5. CASE UNCHANGED vars
  BY <1>5 DEF TypeOK, vars, Started
<1>6. QED
  BY <1>1, <1>2, <1>3, <1>4, <1>5, TypeRequest, TypeWorker, TypeRecovery, TypeExecutor
  DEF Next

\* Every variable keeps its type, whatever the instance.
THEOREM TypeCorrect == Spec => []TypeOK
BY TypeInit, TypeNext, PTL DEF Spec

-----------------------------------------------------------------------------
(***************************************************************************)
(* The claims invariant.  OpenAttemptIsCurrent, RetryBudget and            *)
(* OneAttemptPerClaim are not inductive alone: a claim is only taken, and  *)
(* a failure only recorded, for a row whose run is still queued, and a row *)
(* starts its life with no attempt, no marker and its first cycle.         *)
(***************************************************************************)
UnadmittedIsFresh ==
    \A w \in Work : evaluation[EvaluationOf[w]] = "absent" =>
        /\ w \notin queue /\ ~Started(w)
        /\ attemptMarker[w] = 0 /\ attempts[w] = 0 /\ retryCycle[w] = 1

UnstartedIsQueued == \A w \in Unstarted : executionStatus[w] = "queued"

ClaimsInv ==
    /\ UnadmittedIsFresh /\ UnstartedIsQueued
    /\ OpenAttemptIsCurrent /\ RetryBudget /\ OneAttemptPerClaim

\* The state ClaimsInv is about.
ledger == <<queue, processGroup, attemptMarker, fencingToken, exhausted, leased,
            executionStatus, attempts, retryCycle, evaluation>>

LEMMA ClaimsInit == Init => ClaimsInv
BY DEF Init, ClaimsInv, UnadmittedIsFresh, UnstartedIsQueued, OpenAttemptIsCurrent,
       RetryBudget, OneAttemptPerClaim, Unstarted, Started

LEMMA ClaimsStutter == ClaimsInv /\ UNCHANGED ledger => ClaimsInv'
BY DEF ClaimsInv, UnadmittedIsFresh, UnstartedIsQueued, OpenAttemptIsCurrent, MarkerIsCurrent,
       RetryBudget, OneAttemptPerClaim, Unstarted, Started, ledger

(***************************************************************************)
(* Recording the failure of open or leased attempts of rows that are not   *)
(* exhausted, and ending their leases, keeps the claims invariant, and so  *)
(* does claiming free rows C with the next fencing token.                  *)
(***************************************************************************)
LEMMA ClaimsAppendFailures ==
    ASSUME TypeOK, ClaimsInv, NEW S \in SUBSET Unstarted, NEW error \in PreStartErrors,
           NEW C \in SUBSET Unstarted, AppendFailures(S, error),
           \A w \in S : w \notin exhausted /\ (w \in leased \/ attemptMarker[w] # 0),
           \A w \in C : w \notin exhausted /\ attemptMarker[w] = 0,
           leased' \subseteq leased \cup C, S \cap leased' = {},
           \A w \in Work : fencingToken'[w] = fencingToken[w] + IF w \in C THEN 1 ELSE 0,
           UNCHANGED <<queue, processGroup, retryCycle>>,
           \A w \in Unstarted : executionStatus'[w] = executionStatus[w],
           \A e \in Evaluations : evaluation'[e] = "absent" => evaluation[e] = "absent"
    PROVE  ClaimsInv'
<1>1. Unstarted' = Unstarted /\ \A w \in Work : Started(w)' <=> Started(w)
  BY DEF Unstarted, Started
<1>2. Unstarted \subseteq Work /\ AttemptLimit \in Nat \ {0}
  BY AttemptLimitAssumption DEF Unstarted, TypeOK
<1>3. UnadmittedIsFresh'
  <2> SUFFICES ASSUME NEW w \in Work, evaluation'[EvaluationOf[w]] = "absent"
               PROVE  /\ w \notin queue' /\ ~Started(w)'
                      /\ attemptMarker'[w] = 0 /\ attempts'[w] = 0 /\ retryCycle'[w] = 1
    BY DEF UnadmittedIsFresh
  <2>1. w \notin queue /\ attemptMarker[w] = 0 /\ attempts[w] = 0 /\ retryCycle[w] = 1
        /\ ~Started(w)
    BY EvaluationOfAssumption DEF ClaimsInv, UnadmittedIsFresh
  <2>2. QED BY <2>1, <1>1 DEF AppendFailures, Unstarted
<1>4. UnstartedIsQueued'
  BY <1>1 DEF UnstartedIsQueued, ClaimsInv
<1>5. OpenAttemptIsCurrent'
  BY <1>1, <1>2, <1>4 DEF TypeOK, ClaimsInv, OpenAttemptIsCurrent, MarkerIsCurrent,
     AppendFailures, UnstartedIsQueued
<1>6. RetryBudget'
  <2> SUFFICES ASSUME NEW w \in Unstarted
               PROVE  /\ w \notin exhausted' => attempts'[w] < AttemptLimit
                      /\ w \in exhausted' => /\ attempts'[w] \in 1 .. AttemptLimit
                                             /\ w \notin leased' /\ attemptMarker'[w] = 0
    BY <1>1 DEF RetryBudget
  <2>1. attempts[w] \in Nat /\ w \in Work
    BY <1>2 DEF TypeOK
  <2>2. CASE w \in S
    <3>1. w \notin exhausted /\ attempts[w] < AttemptLimit
      BY <2>2 DEF ClaimsInv, RetryBudget
    <3>2. attempts'[w] = attempts[w] + 1 /\ attemptMarker'[w] = 0 /\ w \notin leased'
      BY <2>1, <2>2 DEF AppendFailures
    <3>3. w \notin exhausted' => attempts[w] + 1 < AttemptLimit
      BY <1>2, <2>1, <2>2 DEF AppendFailures, Exhausts
    <3>4. QED BY <1>2, <2>1, <3>1, <3>2, <3>3
  <2>3. CASE w \notin S
    <3>1. attempts'[w] = attempts[w] /\ attemptMarker'[w] = attemptMarker[w]
      BY <2>1, <2>3 DEF AppendFailures
    <3>2. w \in exhausted' <=> w \in exhausted
      BY <2>3 DEF AppendFailures
    <3>3. QED BY <3>1, <3>2 DEF ClaimsInv, RetryBudget
  <2>4. QED BY <2>2, <2>3
<1>7. OneAttemptPerClaim'
  <2> SUFFICES ASSUME NEW w \in Unstarted
               PROVE  attempts'[w] + (retryCycle[w] - 1)
                        + (IF w \in leased' \/ attemptMarker'[w] # 0 THEN 1 ELSE 0)
                      <= fencingToken'[w]
    BY <1>1 DEF OneAttemptPerClaim
  <2>1. /\ w \in Work /\ attempts[w] \in Nat /\ retryCycle[w] \in Nat
        /\ fencingToken[w] \in Nat
    BY <1>2 DEF TypeOK
  <2>2. attempts[w] + (retryCycle[w] - 1)
          + (IF w \in leased \/ attemptMarker[w] # 0 THEN 1 ELSE 0) <= fencingToken[w]
    BY DEF ClaimsInv, OneAttemptPerClaim
  <2>3. CASE w \in S
    <3>1. attempts'[w] = attempts[w] + 1 /\ attemptMarker'[w] = 0 /\ w \notin leased'
      BY <2>1, <2>3 DEF AppendFailures
    <3>2. fencingToken'[w] >= fencingToken[w]
      BY <2>1
    <3>3. QED BY <2>1, <2>2, <2>3, <3>1, <3>2
  <2>4. CASE w \notin S
    <3>1. attempts'[w] = attempts[w] /\ attemptMarker'[w] = attemptMarker[w]
      BY <2>1, <2>4 DEF AppendFailures
    <3>2. CASE w \in C
      BY <2>1, <2>2, <3>1, <3>2
    <3>3. CASE w \notin C
      BY <2>1, <2>2, <3>1, <3>3
    <3>4. QED BY <3>2, <3>3
  <2>5. QED BY <2>3, <2>4
<1>8. QED BY <1>3, <1>4, <1>5, <1>6, <1>7 DEF ClaimsInv

LEMMA ClaimsRecordPreStartFailure ==
    ASSUME TypeOK, ClaimsInv, NEW w \in Work, NEW k \in Tokens,
           NEW error \in {"checkout", "definitive"},
           RecordPreStartFailure(w, k, error),
           UNCHANGED <<queue, processGroup, fencingToken, retryCycle, executionStatus, evaluation>>
    PROVE  ClaimsInv'
<1>1. CASE HoldsUnstarted(w, k)
  <2>1. /\ {w} \in SUBSET Unstarted /\ {} \in SUBSET Unstarted /\ error \in PreStartErrors
        /\ w \in leased /\ w \notin exhausted
        /\ AppendFailures({w}, error) /\ leased' = leased \ {w}
    BY <1>1 DEF RecordPreStartFailure, HoldsUnstarted, Holds, PreStartErrors, Unstarted
  <2>2. \A v \in Work : fencingToken'[v] = fencingToken[v] + IF v \in {} THEN 1 ELSE 0
    BY DEF TypeOK
  <2>3. QED BY <2>1, <2>2, ClaimsAppendFailures
<1>2. CASE ~HoldsUnstarted(w, k)
  BY <1>2, ClaimsStutter DEF RecordPreStartFailure, ledger
<1>3. QED BY <1>1, <1>2

LEMMA ClaimsWorker ==
    ASSUME TypeOK, ClaimsInv, Worker
    PROVE  ClaimsInv'
<1>1. /\ Interrupted \in SUBSET Unstarted /\ "interrupted" \in PreStartErrors
      /\ \A w \in Interrupted : /\ w \notin exhausted /\ w \notin leased
                                /\ attemptMarker[w] # 0
  BY DEF Interrupted, PreStartErrors
<1>2. CASE ClaimNothing
  <2>1. AppendFailures(Interrupted, "interrupted") /\ {} \in SUBSET Unstarted
    BY <1>2 DEF ClaimNothing, RecoverInterruptedAttempts
  <2>2. /\ UNCHANGED <<queue, processGroup, fencingToken, retryCycle, leased>>
        /\ UNCHANGED <<executionStatus, evaluation>>
    BY <1>2 DEF ClaimNothing, groupVars, durableEvaluation
  <2>3. \A v \in Work : fencingToken'[v] = fencingToken[v] + IF v \in {} THEN 1 ELSE 0
    BY <2>2 DEF TypeOK
  <2>4. QED BY <1>1, <2>1, <2>2, <2>3, ClaimsAppendFailures
<1>3. ASSUME NEW w \in Work, ClaimNext(w) PROVE ClaimsInv'
  <2>1. /\ AppendFailures(Interrupted, "interrupted")
        /\ fencingToken' = [fencingToken EXCEPT ![w] = @ + 1]
        /\ leased' = leased \cup {w}
        /\ UNCHANGED <<queue, processGroup, retryCycle, executionStatus, evaluation>>
    BY <1>3 DEF ClaimNext, RecoverInterruptedAttempts, groupVars, durableEvaluation
  <2>2. /\ {w} \in SUBSET Unstarted /\ w \notin Interrupted
        /\ w \notin exhausted /\ attemptMarker[w] = 0
    BY <1>3 DEF ClaimNext, FirstClaimable, Claimable, Interrupted
  <2>3. \A v \in Work : fencingToken'[v] = fencingToken[v] + IF v \in {w} THEN 1 ELSE 0
    BY <2>1 DEF TypeOK
  <2>4. /\ leased' \subseteq leased \cup {w} /\ Interrupted \cap leased' = {}
        /\ \A v \in Unstarted : executionStatus'[v] = executionStatus[v]
        /\ \A e \in Evaluations : evaluation'[e] = "absent" => evaluation[e] = "absent"
        /\ \A v \in {w} : v \notin exhausted /\ attemptMarker[v] = 0
    BY <1>1, <2>1, <2>2
  <2>5. QED BY <1>1, <2>1, <2>2, <2>3, <2>4, ClaimsAppendFailures
<1>4. QED BY <1>2, <1>3 DEF Worker
(***************************************************************************)
(* The steps that record a final status keep the rows that are not started *)
(* as they are: a run with authority is running, so its row is started.    *)
(***************************************************************************)
LEMMA ClaimsFinalStatus ==
    ASSUME TypeOK, ClaimsInv,
           UNCHANGED <<queue, processGroup, attemptMarker, fencingToken, exhausted,
                       leased, attempts, retryCycle>>,
           \A w \in Unstarted : executionStatus'[w] = executionStatus[w],
           \A e \in Evaluations : evaluation'[e] = "absent" => evaluation[e] = "absent"
    PROVE  ClaimsInv'
<1>1. Unstarted' = Unstarted /\ \A w \in Work : Started(w)' <=> Started(w)
  BY DEF Unstarted, Started
<1>2. UnadmittedIsFresh'
  BY <1>1, EvaluationOfAssumption DEF ClaimsInv, UnadmittedIsFresh
<1>3. UnstartedIsQueued' /\ OpenAttemptIsCurrent'
  BY <1>1 DEF ClaimsInv, UnstartedIsQueued, OpenAttemptIsCurrent, MarkerIsCurrent
<1>4. RetryBudget' /\ OneAttemptPerClaim'
  BY <1>1 DEF ClaimsInv, RetryBudget, OneAttemptPerClaim
<1>5. QED BY <1>2, <1>3, <1>4 DEF ClaimsInv

LEMMA FailRunsOutcome ==
    ASSUME NEW S, TypeOK, FailRuns(S)
    PROVE  /\ \A w \in Work \ S : executionStatus'[w] = executionStatus[w]
           /\ \A e \in Evaluations : evaluation'[e] = "absent" => evaluation[e] = "absent"
BY DEF FailRuns, CompleteEvaluations, TypeOK

LEMMA ClaimsLeaseEnds ==
    ASSUME TypeOK, ClaimsInv, leased' \subseteq leased,
           UNCHANGED <<queue, processGroup, attemptMarker, fencingToken, exhausted,
                       executionStatus, attempts, retryCycle, evaluation>>
    PROVE  ClaimsInv'
<1>1. Unstarted' = Unstarted /\ \A w \in Work : Started(w)' <=> Started(w)
  BY DEF Unstarted, Started
<1>2. UnadmittedIsFresh' /\ UnstartedIsQueued' /\ OpenAttemptIsCurrent' /\ RetryBudget'
  BY <1>1 DEF ClaimsInv, UnadmittedIsFresh, UnstartedIsQueued, OpenAttemptIsCurrent,
              MarkerIsCurrent, RetryBudget
<1>3. OneAttemptPerClaim'
  BY <1>1 DEF ClaimsInv, OneAttemptPerClaim, Unstarted, TypeOK
<1>4. QED BY <1>2, <1>3 DEF ClaimsInv

LEMMA ClaimsRequest ==
    ASSUME TypeOK, ClaimsInv, Request
    PROVE  ClaimsInv'
<1> USE DEF durableRun, durableEvaluation, claimVars, groupVars, volatile, bounds
<1>1. ASSUME NEW e \in Evaluations, Admit(e) PROVE ClaimsInv'
  <2>1. \A w \in Work : Started(w)' <=> Started(w)
    BY <1>1 DEF Admit, Started
  <2>2. /\ queue' = queue \cup RunsOf(e) /\ evaluation[e] = "absent"
        /\ UNCHANGED <<attempts, retryCycle, fencingToken, leased, exhausted, attemptMarker>>
        /\ executionStatus' = [w \in Work |->
              IF w \in RunsOf(e) THEN "queued" ELSE executionStatus[w]]
    BY <1>1 DEF Admit
  <2>3. \A f \in Evaluations : f # e => evaluation'[f] = evaluation[f]
    BY <1>1 DEF Admit, TypeOK
  <2>4. RunsOf(e) # {} => evaluation'[e] # "absent"
    BY <1>1 DEF Admit, TypeOK
  <2>5. \A w \in RunsOf(e) : /\ w \in Work /\ EvaluationOf[w] = e /\ w \notin queue
                            /\ ~Started(w) /\ attemptMarker[w] = 0 /\ attempts[w] = 0
                            /\ retryCycle[w] = 1
    BY <2>2 DEF RunsOf, ClaimsInv, UnadmittedIsFresh
  <2>6. Unstarted' = Unstarted \cup RunsOf(e)
    BY <2>1, <2>2, <2>5 DEF Unstarted, TypeOK
  <2>7. UnadmittedIsFresh'
    BY <2>1, <2>2, <2>3, <2>4, EvaluationOfAssumption
    DEF ClaimsInv, UnadmittedIsFresh, RunsOf
  <2>8. UnstartedIsQueued'
    BY <2>2, <2>5, <2>6 DEF ClaimsInv, UnstartedIsQueued, Unstarted, TypeOK
  <2>9. OpenAttemptIsCurrent'
    BY <2>2, <2>5, <2>6, <2>8
    DEF ClaimsInv, OpenAttemptIsCurrent, MarkerIsCurrent, UnstartedIsQueued
  <2>10. \A w \in RunsOf(e) : w \notin leased /\ w \notin exhausted
    BY <2>5 DEF TypeOK
  <2>11. RetryBudget'
    BY <2>2, <2>5, <2>6, <2>10, AttemptLimitAssumption DEF ClaimsInv, RetryBudget
  <2>12. OneAttemptPerClaim'
    BY <2>2, <2>5, <2>6, <2>10 DEF ClaimsInv, OneAttemptPerClaim, TypeOK
  <2>13. QED BY <2>7, <2>8, <2>9, <2>11, <2>12 DEF ClaimsInv
<1>2. ASSUME NEW e \in Evaluations, CancelEvaluation(e) PROVE ClaimsInv'
  <2> DEFINE unfinished == {w \in RunsOf(e) : executionStatus[w] \in Nonterminal}
             removed == {w \in unfinished : executionStatus[w] = "queued" /\ ~Started(w)}
  <2>1. /\ queue' = queue \ removed /\ leased' = leased \ removed
        /\ exhausted' = exhausted \ removed
        /\ executionStatus' = [w \in Work |->
              IF w \in unfinished THEN "cancelled" ELSE executionStatus[w]]
        /\ UNCHANGED <<attempts, retryCycle, fencingToken, attemptMarker, processGroup>>
    BY <1>2 DEF CancelEvaluation
  <2>2. \A f \in Evaluations : evaluation'[f] = "absent" => evaluation[f] = "absent"
    BY <1>2 DEF CancelEvaluation, TypeOK
  <2>3. \A w \in Work : Started(w)' <=> Started(w)
    BY <2>1 DEF Started
  <2>4. Unstarted' = Unstarted \ removed
    BY <2>1, <2>3 DEF Unstarted, TypeOK
  <2>5. \A w \in Unstarted \ removed : w \notin unfinished
    BY DEF ClaimsInv, UnstartedIsQueued, Unstarted, TypeOK
  <2>6. \A w \in Unstarted' : w \in Unstarted /\ executionStatus'[w] = executionStatus[w]
                             /\ (w \in leased' <=> w \in leased)
                             /\ (w \in exhausted' <=> w \in exhausted)
    BY <2>1, <2>4, <2>5 DEF Unstarted, TypeOK
  <2>7. UnadmittedIsFresh'
    BY <2>1, <2>2, <2>3, EvaluationOfAssumption DEF ClaimsInv, UnadmittedIsFresh
  <2>8. UnstartedIsQueued'
    BY <2>6 DEF ClaimsInv, UnstartedIsQueued
  <2>9. OpenAttemptIsCurrent'
    BY <2>1, <2>6 DEF ClaimsInv, OpenAttemptIsCurrent, MarkerIsCurrent
  <2>10. RetryBudget' /\ OneAttemptPerClaim'
    BY <2>1, <2>6 DEF ClaimsInv, RetryBudget, OneAttemptPerClaim
  <2>11. QED BY <2>7, <2>8, <2>9, <2>10 DEF ClaimsInv
<1>3. ASSUME NEW e \in Evaluations, RetryPreStart(e) PROVE ClaimsInv'
  <2> DEFINE retried == {w \in RunsOf(e) \cap Unstarted :
                           w \in exhausted /\ executionStatus[w] = "queued"}
  <2>1. /\ retried \cap leased = {} /\ evaluation[e] = "queued"
        /\ retryCycle' = [w \in Work |-> retryCycle[w] + IF w \in retried THEN 1 ELSE 0]
        /\ attempts' = [w \in Work |-> IF w \in retried THEN 0 ELSE attempts[w]]
        /\ exhausted' = exhausted \ retried
        /\ UNCHANGED <<executionStatus, evaluation, queue, fencingToken, leased,
                       attemptMarker, processGroup>>
    BY <1>3 DEF RetryPreStart
  <2>2. Unstarted' = Unstarted /\ \A w \in Work : Started(w)' <=> Started(w)
    BY <2>1 DEF Unstarted, Started
  <2>3. \A w \in retried : /\ w \in Work /\ EvaluationOf[w] = e /\ w \in Unstarted
                          /\ attempts[w] \in 1 .. AttemptLimit /\ attemptMarker[w] = 0
                          /\ w \notin leased
    BY DEF RunsOf, ClaimsInv, RetryBudget
  <2>4. UnadmittedIsFresh'
    BY <2>1, <2>2, <2>3, EvaluationOfAssumption DEF ClaimsInv, UnadmittedIsFresh, TypeOK
  <2>5. UnstartedIsQueued'
    BY <2>1, <2>2 DEF ClaimsInv, UnstartedIsQueued
  <2>6. OpenAttemptIsCurrent'
    BY <2>1, <2>2 DEF ClaimsInv, OpenAttemptIsCurrent, MarkerIsCurrent
  <2>7. RetryBudget'
    BY <2>1, <2>2, <2>3, AttemptLimitAssumption DEF ClaimsInv, RetryBudget, Unstarted, TypeOK
  <2>8. OneAttemptPerClaim'
    <3> SUFFICES ASSUME NEW w \in Unstarted
                 PROVE  attempts'[w] + (retryCycle'[w] - 1)
                          + (IF w \in leased \/ attemptMarker[w] # 0 THEN 1 ELSE 0)
                        <= fencingToken[w]
      BY <2>1, <2>2 DEF OneAttemptPerClaim
    <3>1. /\ w \in Work /\ attempts[w] \in Nat /\ retryCycle[w] \in Nat
          /\ fencingToken[w] \in Nat
      BY DEF Unstarted, TypeOK
    <3>2. attempts[w] + (retryCycle[w] - 1)
            + (IF w \in leased \/ attemptMarker[w] # 0 THEN 1 ELSE 0) <= fencingToken[w]
      BY DEF ClaimsInv, OneAttemptPerClaim
    <3>3. CASE w \in retried
      <4>1. attempts'[w] = 0 /\ retryCycle'[w] = retryCycle[w] + 1 /\ attempts[w] >= 1
        BY <2>1, <2>3, <3>1, <3>3
      <4>2. w \notin leased /\ attemptMarker[w] = 0
        BY <2>3, <3>3
      <4>3. QED BY <3>1, <3>2, <4>1, <4>2
    <3>4. CASE w \notin retried
      <4>1. attempts'[w] = attempts[w] /\ retryCycle'[w] = retryCycle[w]
        BY <2>1, <3>1, <3>4
      <4>2. QED BY <3>2, <4>1
    <3>5. QED BY <3>3, <3>4
  <2>9. QED BY <2>4, <2>5, <2>6, <2>7, <2>8 DEF ClaimsInv
<1>4. ASSUME NEW n \in 0 .. MaxConcurrency + 1, SetConcurrency(n) PROVE ClaimsInv'
  BY <1>4, ClaimsStutter DEF SetConcurrency, ledger
<1>5. QED BY <1>1, <1>2, <1>3, <1>4 DEF Request
LEMMA ClaimsExecutor ==
    ASSUME TypeOK, ClaimsInv, NEW w \in Work, NEW k \in Tokens, Executor(w, k)
    PROVE  ClaimsInv'
<1> USE DEF durableRun, durableEvaluation, claimVars, groupVars, volatile, bounds
<1>a. Authoritative(w, k) => w \notin Unstarted
  BY DEF Authoritative, ClaimsInv, UnstartedIsQueued
<1>1. CASE BeginPreStartAttempt(w, k)
  <2>1. /\ attemptMarker' = [attemptMarker EXCEPT ![w] = k]
        /\ fencingToken[w] = k /\ w \in leased /\ w \in queue /\ w \notin exhausted
        /\ UNCHANGED <<queue, processGroup, fencingToken, exhausted, leased,
                       executionStatus, attempts, retryCycle, evaluation>>
    BY <1>1 DEF BeginPreStartAttempt, HoldsUnstarted, Holds
  <2>2. Unstarted' = Unstarted /\ \A v \in Work : Started(v)' <=> Started(v)
    BY <2>1 DEF Unstarted, Started
  <2>3. \A v \in Work : attemptMarker'[v] = IF v = w THEN k ELSE attemptMarker[v]
    BY <2>1 DEF TypeOK
  <2>4. UnadmittedIsFresh' /\ UnstartedIsQueued'
    BY <2>1, <2>2, <2>3, EvaluationOfAssumption
    DEF ClaimsInv, UnadmittedIsFresh, UnstartedIsQueued
  <2>5. OpenAttemptIsCurrent'
    BY <2>1, <2>2, <2>3, <2>4
    DEF ClaimsInv, OpenAttemptIsCurrent, MarkerIsCurrent, UnstartedIsQueued, Unstarted, TypeOK
  <2>6. RetryBudget' /\ OneAttemptPerClaim'
    BY <2>1, <2>2, <2>3 DEF ClaimsInv, RetryBudget, OneAttemptPerClaim, Unstarted, TypeOK
  <2>7. QED BY <2>4, <2>5, <2>6 DEF ClaimsInv
<1>2. CASE ReleaseClaim(w, k) \/ StartOverLimit(w, k)
  <2>1. /\ leased' \subseteq leased
        /\ UNCHANGED <<queue, processGroup, attemptMarker, fencingToken, exhausted,
                       executionStatus, attempts, retryCycle, evaluation>>
    BY <1>2 DEF ReleaseClaim, StartOverLimit
  <2>2. QED BY <2>1, ClaimsLeaseEnds
<1>3. ASSUME NEW error \in {"checkout", "definitive"},
             CheckoutFails(w, k, error) \/ (RecordRefusal(w, k) /\ error = "definitive")
      PROVE  ClaimsInv'
  <2>1. /\ RecordPreStartFailure(w, k, error)
        /\ UNCHANGED <<queue, processGroup, fencingToken, retryCycle, executionStatus, evaluation>>
    BY <1>3 DEF CheckoutFails, RecordRefusal
  <2>2. QED BY <2>1, ClaimsRecordPreStartFailure
<1>4. CASE StartTracked(w, k)
  <2>1. /\ processGroup' = [processGroup EXCEPT ![w] = "tracked"]
        /\ executionStatus' = [executionStatus EXCEPT ![w] = "running"]
        /\ w \in queue
        /\ UNCHANGED <<queue, attemptMarker, fencingToken, exhausted, leased,
                       attempts, retryCycle, evaluation>>
    BY <1>4 DEF StartTracked, HoldsUnstarted, Holds
  <2>2. \A v \in Work : Started(v)' <=> (v = w \/ Started(v))
    BY <2>1 DEF Started, TypeOK
  <2>3. Unstarted' = Unstarted \ {w}
    BY <2>1, <2>2 DEF Unstarted, TypeOK
  <2>4. \A v \in Unstarted' : v \in Unstarted /\ executionStatus'[v] = executionStatus[v]
    BY <2>1, <2>3 DEF Unstarted, TypeOK
  <2>5. UnadmittedIsFresh'
    BY <2>1, <2>2, EvaluationOfAssumption DEF ClaimsInv, UnadmittedIsFresh
  <2>6. UnstartedIsQueued' /\ OpenAttemptIsCurrent'
    BY <2>1, <2>4 DEF ClaimsInv, UnstartedIsQueued, OpenAttemptIsCurrent, MarkerIsCurrent
  <2>7. RetryBudget' /\ OneAttemptPerClaim'
    BY <2>1, <2>4 DEF ClaimsInv, RetryBudget, OneAttemptPerClaim
  <2>8. QED BY <2>5, <2>6, <2>7 DEF ClaimsInv
<1>5. ASSUME NEW result \in Results, Submit(w, k, result) PROVE ClaimsInv'
  <2>1. /\ executionStatus' = [executionStatus EXCEPT ![w] = "completed"]
        /\ w \notin Unstarted
        /\ CompleteEvaluations({w}, executionStatus', verdict')
        /\ UNCHANGED <<queue, processGroup, attemptMarker, fencingToken, exhausted,
                       leased, attempts, retryCycle>>
    BY <1>5, <1>a DEF Submit
  <2>2. \A e \in Evaluations : evaluation'[e] = "absent" => evaluation[e] = "absent"
    BY <2>1 DEF CompleteEvaluations
  <2>3. QED BY <2>1, <2>2, ClaimsFinalStatus DEF TypeOK, Unstarted
<1>6. CASE CloseChannel(w, k) \/ Settle(w, k)
  <2>1. UNCHANGED <<queue, processGroup, attemptMarker, fencingToken, exhausted,
                    leased, attempts, retryCycle>>
    BY <1>6 DEF CloseChannel, Settle
  <2>2. CASE FailRuns({w}) /\ Authoritative(w, k)
    <3>1. /\ \A v \in Work \ {w} : executionStatus'[v] = executionStatus[v]
          /\ \A e \in Evaluations : evaluation'[e] = "absent" => evaluation[e] = "absent"
      BY <2>2, FailRunsOutcome
    <3>2. \A v \in Unstarted : v \in Work \ {w}
      BY <1>a, <2>2 DEF Unstarted, TypeOK
    <3>3. QED BY <2>1, <3>1, <3>2, ClaimsFinalStatus
  <2>3. CASE UNCHANGED <<executionStatus, evaluation>>
    BY <2>1, <2>3, ClaimsStutter DEF ledger
  <2>4. QED BY <1>6, <2>2, <2>3 DEF CloseChannel, Settle
<1>7. CASE FinishProcessGroup(w, k)
  <2>1. \A v \in Work : (processGroup'[v] = "none") <=> (processGroup[v] = "none")
    BY <1>7 DEF FinishProcessGroup, TypeOK
  <2>2. UNCHANGED <<queue, attemptMarker, fencingToken, exhausted, leased,
                    executionStatus, attempts, retryCycle, evaluation>>
    BY <1>7 DEF FinishProcessGroup
  <2>3. Unstarted' = Unstarted /\ \A v \in Work : Started(v)' <=> Started(v)
    BY <2>1, <2>2 DEF Unstarted, Started, TypeOK
  <2>4. QED
    BY <2>2, <2>3
    DEF ClaimsInv, UnadmittedIsFresh, UnstartedIsQueued, OpenAttemptIsCurrent,
        MarkerIsCurrent, RetryBudget, OneAttemptPerClaim
<1>8. ASSUME \/ CheckoutPrepared(w, k) \/ PreparationFails(w, k) \/ StartClaimLost(w, k)
             \/ \E cause \in Endings : EndsWith(w, k, cause)
             \/ Terminate(w, k) \/ TerminationFails(w, k)
      PROVE  ClaimsInv'
  <2>1. UNCHANGED ledger
    BY <1>8 DEF ledger, CheckoutPrepared, PreparationFails, StartClaimLost, EndsWith,
                Terminate, TerminationFails
  <2>2. QED BY <2>1, ClaimsStutter
<1>9. QED
  BY <1>1, <1>2, <1>3, <1>4, <1>5, <1>6, <1>7, <1>8
  DEF Executor, Advance, Disturb, ObserveSubmission, ObserveCancellation, ObserveExit,
      DeadlineFires, ExecutionFails, Endings

LEMMA ClaimsRecovery ==
    ASSUME TypeOK, ClaimsInv, Recovery
    PROVE  ClaimsInv'
<1> USE DEF durableRun, durableEvaluation, claimVars, groupVars, volatile, bounds,
            durableUnchanged, processUnchanged
<1>1. CASE FinishRecovery
  <2> DEFINE opened == {w \in Unstarted : attemptMarker[w] # 0}
  <2>1. /\ AppendFailures(opened, "interrupted") /\ FailRuns(Running)
        /\ \A w \in opened : MarkerIsCurrent(w)
        /\ leased' = leased \ Unstarted
        /\ UNCHANGED <<queue, processGroup, retryCycle, fencingToken>>
    BY <1>1 DEF FinishRecovery
  <2>2. /\ opened \in SUBSET Unstarted /\ {} \in SUBSET Unstarted
        /\ "interrupted" \in PreStartErrors
        /\ \A w \in opened : w \notin exhausted /\ attemptMarker[w] # 0
        /\ opened \cap leased' = {}
    BY <2>1 DEF PreStartErrors, MarkerIsCurrent
  <2>3. \A v \in Work : fencingToken'[v] = fencingToken[v] + IF v \in {} THEN 1 ELSE 0
    BY <2>1 DEF TypeOK
  <2>4. \A w \in Unstarted : executionStatus'[w] = executionStatus[w]
    <3>1. \A w \in Work \ Running : executionStatus'[w] = executionStatus[w]
      BY <2>1, FailRunsOutcome
    <3>2. \A w \in Unstarted : w \in Work \ Running
      BY DEF Running, Unstarted, TypeOK
    <3>3. QED BY <3>1, <3>2
  <2>5. \A e \in Evaluations : evaluation'[e] = "absent" => evaluation[e] = "absent"
    BY <2>1, FailRunsOutcome
  <2>6. QED BY <2>1, <2>2, <2>3, <2>4, <2>5, ClaimsAppendFailures
<1>2. CASE Restart
  BY <1>2, ClaimsStutter DEF Restart, ledger
<1>3. ASSUME NEW w \in Work,
             SignalTrackedGroup(w) \/ PersistTerminationOutcome(w) \/ RecoveryAborts(w)
      PROVE  ClaimsInv'
  BY <1>3, ClaimsStutter
  DEF SignalTrackedGroup, PersistTerminationOutcome, RecoveryAborts, ledger
<1>4. QED BY <1>1, <1>2, <1>3 DEF Recovery

LEMMA ClaimsNext == TypeOK /\ ClaimsInv /\ [Next]_vars => ClaimsInv'
<1> SUFFICES ASSUME TypeOK, ClaimsInv, [Next]_vars PROVE ClaimsInv'
  OBVIOUS
<1> USE DEF durableRun, durableEvaluation, claimVars, groupVars, volatile, bounds,
            durableUnchanged, processUnchanged
<1>1. CASE Crash
  BY <1>1, ClaimsStutter DEF Crash, ledger
<1>2. ASSUME NEW w \in Work, ReadyAtPasses(w) \/ Process(w) PROVE ClaimsInv'
  BY <1>2, ClaimsStutter
  DEF ReadyAtPasses, Process, Launch, SupervisorExits, CodexCloses, OrphanExits, ledger
<1>3. ASSUME NEW w \in Work, LeaseLapses(w) PROVE ClaimsInv'
  BY <1>3, ClaimsLeaseEnds DEF LeaseLapses
<1>4. CASE UNCHANGED vars
  BY <1>4, ClaimsStutter DEF vars, ledger
<1>5. QED
  BY <1>1, <1>2, <1>3, <1>4, ClaimsRequest, ClaimsWorker, ClaimsRecovery, ClaimsExecutor
  DEF Next

\* The claims invariant holds in every reachable state.
THEOREM ClaimsCorrect == Spec => []ClaimsInv
<1>1. Init => TypeOK /\ ClaimsInv
  BY TypeInit, ClaimsInit
<1>2. (TypeOK /\ ClaimsInv) /\ [Next]_vars => (TypeOK /\ ClaimsInv)'
  BY TypeNext, ClaimsNext
<1>3. QED BY <1>1, <1>2, PTL DEF Spec

\* Neither claimNext nor the recovery at startup is ever blocked by an open
\* attempt it cannot record: the marker of an open attempt is always the
\* fencing token of its row, whatever lapses, crashes or is retried.
THEOREM OpenAttemptCorrect == Spec => []OpenAttemptIsCurrent
BY ClaimsCorrect, PTL DEF ClaimsInv

\* A row that may be claimed has an attempt left and an exhausted row holds
\* no lease, for every attempt limit.
THEOREM RetryBudgetCorrect == Spec => []RetryBudget
BY ClaimsCorrect, PTL DEF ClaimsInv

\* No interleaving of failures, lapses, interruptions and retries charges
\* one claim with two attempts.
THEOREM OneAttemptPerClaimCorrect == Spec => []OneAttemptPerClaim
BY ClaimsCorrect, PTL DEF ClaimsInv

\* Together: the attempts of every row are accounted for, whoever ended them.
THEOREM AttemptsAccounted == Spec => []AttemptsAreAccounted
BY ClaimsCorrect, PTL DEF ClaimsInv, AttemptsAreAccounted

-----------------------------------------------------------------------------
(***************************************************************************)
(* Fencing.  Only ClaimNext changes a fencing token, and only of a row     *)
(* that is not started; only CancelEvaluation removes rows, and only rows  *)
(* that are not started; only StartTracked enters the started steps, with  *)
(* the current token.  So the invariant is inductive beside TypeOK.        *)
(***************************************************************************)
LEMMA FencingPreserved ==
    ASSUME TypeOK, OnlyNewestClaimExecutes,
           \A w \in Work, k \in Tokens :
               pc'[w][k] \in StartedSteps => pc[w][k] \in StartedSteps,
           \A w \in queue : Started(w) => w \in queue' /\ Started(w)'
                                         /\ fencingToken'[w] = fencingToken[w]
    PROVE  OnlyNewestClaimExecutes'
BY DEF OnlyNewestClaimExecutes

LEMMA FencingExecutor ==
    ASSUME TypeOK, OnlyNewestClaimExecutes, NEW w \in Work, NEW k \in Tokens,
           Executor(w, k)
    PROVE  OnlyNewestClaimExecutes'
<1> USE DEF durableRun, durableEvaluation, claimVars, groupVars, volatile, bounds
<1>1. CASE StartTracked(w, k)
  <2>1. w \in queue /\ Started(w)' /\ fencingToken[w] = k
    BY <1>1 DEF StartTracked, HoldsUnstarted, Holds, Started, TypeOK
  <2>2. /\ UNCHANGED <<queue, fencingToken>>
        /\ \A v \in Work : Started(v) => Started(v)'
    BY <1>1 DEF StartTracked, Started, TypeOK
  <2>3. \A v \in Work, j \in Tokens : (v # w \/ j # k) => pc'[v][j] = pc[v][j]
    BY <1>1 DEF StartTracked, GoTo, TypeOK
  <2>4. QED BY <2>1, <2>2, <2>3 DEF OnlyNewestClaimExecutes
<1>2. ASSUME NEW step \in Steps, GoTo(w, k, step),
             step \in StartedSteps => pc[w][k] \in StartedSteps,
             UNCHANGED <<queue, fencingToken>>,
             \A v \in Work : Started(v) => Started(v)'
      PROVE  OnlyNewestClaimExecutes'
  <2>1. \A v \in Work, j \in Tokens :
           pc'[v][j] \in StartedSteps => pc[v][j] \in StartedSteps
    BY <1>2 DEF GoTo, TypeOK
  <2>2. queue \subseteq Work
    BY DEF TypeOK
  <2>3. QED BY <1>2, <2>1, <2>2, FencingPreserved
<1>3. ASSUME BeginPreStartAttempt(w, k) \/ CheckoutPrepared(w, k)
      PROVE  OnlyNewestClaimExecutes'
  BY <1>2, <1>3 DEF BeginPreStartAttempt, CheckoutPrepared, Steps, StartedSteps, Started
<1>4. ASSUME \/ ReleaseClaim(w, k) \/ RecordRefusal(w, k)
             \/ \E error \in {"checkout", "definitive"} : CheckoutFails(w, k, error)
      PROVE  OnlyNewestClaimExecutes'
  BY <1>2, <1>4 DEF ReleaseClaim, RecordRefusal, CheckoutFails, Steps, StartedSteps, Started
<1>5. ASSUME PreparationFails(w, k) \/ StartOverLimit(w, k) \/ StartClaimLost(w, k)
      PROVE  OnlyNewestClaimExecutes'
  BY <1>2, <1>5
  DEF PreparationFails, StartOverLimit, StartClaimLost, Steps, StartedSteps, Started
<1>6. ASSUME NEW result \in Results, Submit(w, k, result) PROVE OnlyNewestClaimExecutes'
  BY <1>6, FencingPreserved DEF Submit, Started
<1>7. ASSUME NEW cause \in Endings, EndsWith(w, k, cause) PROVE OnlyNewestClaimExecutes'
  BY <1>2, <1>7 DEF EndsWith, Steps, StartedSteps, Started
<1>8. ASSUME CloseChannel(w, k) \/ Terminate(w, k) \/ TerminationFails(w, k) \/ Settle(w, k)
      PROVE  OnlyNewestClaimExecutes'
  <2>1. PICK step \in Steps : GoTo(w, k, step)
    BY <1>8 DEF CloseChannel, Terminate, AfterTermination, TerminationFails, Settle, Steps,
       StartedSteps
  <2>2. pc[w][k] \in StartedSteps /\ UNCHANGED <<queue, fencingToken, processGroup>>
    BY <1>8 DEF CloseChannel, Terminate, TerminationFails, Settle, StartedSteps
  <2>3. QED BY <1>2, <2>1, <2>2 DEF Started
<1>9. CASE FinishProcessGroup(w, k)
  <2>1. \A v \in Work : Started(v) => Started(v)'
    BY <1>9 DEF FinishProcessGroup, Started, TypeOK
  <2>2. QED BY <1>2, <1>9, <2>1 DEF FinishProcessGroup, Steps, StartedSteps
<1>10. QED
  BY <1>1, <1>3, <1>4, <1>5, <1>6, <1>7, <1>8, <1>9
  DEF Executor, Advance, Disturb, ObserveSubmission, ObserveCancellation, ObserveExit,
      DeadlineFires, ExecutionFails, Endings

LEMMA FencingNext == TypeOK /\ OnlyNewestClaimExecutes /\ [Next]_vars => OnlyNewestClaimExecutes'
<1> SUFFICES ASSUME TypeOK, OnlyNewestClaimExecutes, [Next]_vars
             PROVE  OnlyNewestClaimExecutes'
  OBVIOUS
<1> USE DEF durableRun, durableEvaluation, claimVars, groupVars, volatile, bounds,
            durableUnchanged, processUnchanged
<1>1. CASE Request
  BY <1>1, FencingPreserved DEF Request, Admit, CancelEvaluation, RetryPreStart,
     SetConcurrency, Started
<1>2. CASE ClaimNothing
  BY <1>2, FencingPreserved DEF ClaimNothing, Started
<1>3. ASSUME NEW w \in Work, ClaimNext(w) PROVE OnlyNewestClaimExecutes'
  <2>1. ~Started(w) /\ fencingToken[w] + 1 \in Tokens
    BY <1>3, BoundAssumption DEF ClaimNext, FirstClaimable, Claimable, Unstarted, TypeOK
  <2>2. \A v \in Work, j \in Tokens : pc'[v][j] \in StartedSteps => pc[v][j] \in StartedSteps
    BY <1>3, <2>1 DEF ClaimNext, GoTo, StartedSteps, TypeOK
  <2>3. \A v \in Work : v # w => fencingToken'[v] = fencingToken[v]
    BY <1>3 DEF ClaimNext, TypeOK
  <2>4. UNCHANGED <<queue, processGroup>>
    BY <1>3 DEF ClaimNext
  <2>5. QED BY <2>1, <2>2, <2>3, <2>4, FencingPreserved DEF Started, TypeOK
<1>4. CASE Recovery
  BY <1>4, FencingPreserved
  DEF Recovery, Restart, FinishRecovery, SignalTrackedGroup, PersistTerminationOutcome,
      RecoveryAborts, Started
<1>5. CASE Crash
  <2>1. \A v \in Work, j \in Tokens : pc'[v][j] \notin StartedSteps
    BY <1>5 DEF Crash, StartedSteps
  <2>2. QED BY <2>1 DEF OnlyNewestClaimExecutes
<1>6. ASSUME NEW w \in Work, ReadyAtPasses(w) \/ Process(w) \/ LeaseLapses(w)
      PROVE  OnlyNewestClaimExecutes'
  BY <1>6, FencingPreserved
  DEF ReadyAtPasses, LeaseLapses, Process, Launch, SupervisorExits, CodexCloses,
      OrphanExits, Started
<1>7. CASE UNCHANGED vars
  BY <1>7, FencingPreserved DEF vars, Started
<1>8. QED
  BY <1>1, <1>2, <1>3, <1>4, <1>5, <1>6, <1>7, FencingExecutor DEF Next, Worker

\* However many superseded executors of a Review Run are still at work, only
\* that of its newest claim has ever started it.
THEOREM FencingCorrect == Spec => []OnlyNewestClaimExecutes
<1>1. Init => TypeOK /\ OnlyNewestClaimExecutes
  BY TypeInit DEF Init, OnlyNewestClaimExecutes, StartedSteps
<1>2. (TypeOK /\ OnlyNewestClaimExecutes) /\ [Next]_vars
         => (TypeOK /\ OnlyNewestClaimExecutes)'
  BY TypeNext, FencingNext
<1>3. QED BY <1>1, <1>2, PTL DEF Spec

-----------------------------------------------------------------------------
(***************************************************************************)
(* The refinement.  Each transaction maps to a step of ExecutionLifecycle  *)
(* or changes nothing of it.  LifecycleInv is what its steps preserve.     *)
(***************************************************************************)
\* The runs of an Evaluation are admitted with it, and cancelled only with it.
AdmittedTogether ==
    /\ \A w \in Work : executionStatus[w] = "absent" <=> evaluation[EvaluationOf[w]] = "absent"
    /\ \A e \in Evaluations : evaluation[e] = "queued" =>
           \A w \in RunsOf(e) : executionStatus[w] # "cancelled"

LifecycleInv == EvaluationFollowsItsRuns /\ AdmittedTogether

\* What readers of the lifecycle see.
readers == <<executionStatus, verdict, evaluation, outcome>>

\* Nothing is admitted at first.
LEMMA LifecycleInit == Init => LifecycleInv /\ Lifecycle!Init
BY EvaluationOfAssumption
DEF Init, LifecycleInv, AdmittedTogether, EvaluationFollowsItsRuns, Lifecycle!Init

\* completeEvaluationIfTerminal of runs of one step is CompleteAfter of them.
LEMMA CompleteEvaluationsIsCompleteAfter ==
    ASSUME NEW S \in SUBSET Work, CompleteEvaluations(S, executionStatus', verdict')
    PROVE  Lifecycle!CompleteAfter(S)
<1>1. {e \in {EvaluationOf[w] : w \in S} : AllTerminal(RunsOf(e), executionStatus')}
      = {e \in Evaluations : /\ Lifecycle!RunsOf(e) \cap S # {}
                             /\ Lifecycle!AllTerminal(Lifecycle!RunsOf(e), executionStatus')}
  BY EvaluationOfAssumption
  DEF RunsOf, Lifecycle!RunsOf, AllTerminal, Lifecycle!AllTerminal, Terminal, Lifecycle!Terminal
<1>2. \A b, R, s, v : AggregateOutcome(b, R, s, v) = Lifecycle!AggregateOutcome(b, R, s, v)
  BY DEF AggregateOutcome, Lifecycle!AggregateOutcome
<1> QED
  BY <1>1, <1>2 DEF CompleteEvaluations, Lifecycle!CompleteAfter, RunsOf, Lifecycle!RunsOf

\* Failing running runs is the lifecycle's Fail of them, if there are any.
LEMMA FailRunsIsFail ==
    ASSUME TypeOK, NEW S \in SUBSET Work, \A w \in S : executionStatus[w] = "running",
           FailRuns(S), UNCHANGED verdict
    PROVE  Lifecycle!Fail(S) \/ UNCHANGED readers
<1>1. CASE S = {}
  BY <1>1 DEF FailRuns, CompleteEvaluations, TypeOK, readers
<1>2. CASE S # {}
  <2>1. CompleteEvaluations(S, executionStatus', verdict')
    BY DEF FailRuns
  <2> QED
    BY <1>2, <2>1, CompleteEvaluationsIsCompleteAfter DEF FailRuns, Lifecycle!Fail
<1> QED
  BY <1>1, <1>2

\* Admission and cancellation are the lifecycle's, a retry is none of its.
LEMMA RequestImplements ==
    ASSUME TypeOK, LifecycleInv, Request
    PROVE  Lifecycle!Next \/ UNCHANGED readers
<1> USE DEF durableRun, durableEvaluation
<1>1. ASSUME NEW e \in Evaluations, Admit(e) PROVE Lifecycle!Admit(e)
  <2>1. outcome[e] = "none"
    BY <1>1 DEF Admit, LifecycleInv, EvaluationFollowsItsRuns
  <2> QED
    BY <1>1, <2>1 DEF Admit, Lifecycle!Admit, RunsOf, Lifecycle!RunsOf, TypeOK
<1>2. ASSUME NEW e \in Evaluations, CancelEvaluation(e) PROVE Lifecycle!Cancel(e)
  BY <1>2 DEF CancelEvaluation, Lifecycle!Cancel, RunsOf, Lifecycle!RunsOf, Nonterminal,
              Lifecycle!Nonterminal
<1>3. ASSUME NEW e \in Evaluations, RetryPreStart(e) PROVE UNCHANGED readers
  BY <1>3 DEF RetryPreStart, readers
<1>4. ASSUME NEW n, SetConcurrency(n) PROVE UNCHANGED readers
  BY <1>4 DEF SetConcurrency, readers
<1> QED
  BY <1>1, <1>2, <1>3, <1>4 DEF Request, Lifecycle!Next

\* An executor starts, accepts or fails its run, or changes nothing of it.
LEMMA ExecutorImplements ==
    ASSUME TypeOK, NEW w \in Work, NEW k \in Tokens, Executor(w, k)
    PROVE  Lifecycle!Next \/ UNCHANGED readers
<1> USE DEF durableRun, durableEvaluation
<1>1. CASE StartTracked(w, k)
  <2>1. Lifecycle!Start(w)
    BY <1>1 DEF StartTracked, HoldsUnstarted, Lifecycle!Start
  <2> QED
    BY <2>1 DEF Lifecycle!Next
<1>2. ASSUME NEW result \in Results, Submit(w, k, result) PROVE Lifecycle!Next
  <2>1. CompleteEvaluations({w}, executionStatus', verdict') /\ {w} \in SUBSET Work
    BY <1>2 DEF Submit
  <2>2. Lifecycle!Accept(w, result)
    BY <1>2, <2>1, CompleteEvaluationsIsCompleteAfter DEF Submit, Authoritative,
       Lifecycle!Accept
  <2> QED
    BY <2>2, ResultsAssumption DEF Lifecycle!Next, Verdicts, Lifecycle!Verdicts
<1>3. CASE CloseChannel(w, k) \/ Settle(w, k)
  <2>1. UNCHANGED verdict
    BY <1>3 DEF CloseChannel, Settle
  <2>2. CASE Authoritative(w, k) /\ FailRuns({w})
    <3>1. Lifecycle!Fail({w}) \/ UNCHANGED readers
      BY <2>1, <2>2, FailRunsIsFail DEF Authoritative
    <3> QED
      BY <3>1 DEF Lifecycle!Next
  <2>3. CASE UNCHANGED <<executionStatus, durableEvaluation>>
    BY <2>1, <2>3 DEF readers
  <2> QED
    BY <1>3, <2>2, <2>3 DEF CloseChannel, Settle
<1>4. ASSUME \/ BeginPreStartAttempt(w, k) \/ ReleaseClaim(w, k)
             \/ \E error \in {"checkout", "definitive"} : CheckoutFails(w, k, error)
             \/ CheckoutPrepared(w, k) \/ PreparationFails(w, k)
             \/ StartOverLimit(w, k) \/ StartClaimLost(w, k) \/ RecordRefusal(w, k)
             \/ \E cause \in Endings : EndsWith(w, k, cause)
             \/ Terminate(w, k) \/ TerminationFails(w, k) \/ FinishProcessGroup(w, k)
      PROVE  UNCHANGED readers
  BY <1>4 DEF BeginPreStartAttempt, ReleaseClaim, CheckoutFails, CheckoutPrepared,
      PreparationFails, StartOverLimit, StartClaimLost, RecordRefusal, EndsWith, Terminate,
      TerminationFails, FinishProcessGroup, readers
<1> QED
  BY <1>1, <1>2, <1>3, <1>4
  DEF Executor, Advance, Disturb, ObserveSubmission, ObserveCancellation, ObserveExit,
      DeadlineFires, ExecutionFails, Endings

\* The recovery fails all the runs that were running in one step.
LEMMA RecoveryImplements ==
    ASSUME TypeOK, Recovery
    PROVE  Lifecycle!Next \/ UNCHANGED readers
<1> USE DEF durableRun, durableEvaluation, claimVars, groupVars, volatile, bounds,
            durableUnchanged, processUnchanged
<1>1. CASE FinishRecovery
  <2>1. FailRuns(Running) /\ UNCHANGED verdict
    BY <1>1 DEF FinishRecovery
  <2>2. Running \in SUBSET Work /\ \A w \in Running : executionStatus[w] = "running"
    BY DEF Running, TypeOK
  <2>3. Lifecycle!Fail(Running) \/ UNCHANGED readers
    BY <2>1, <2>2, FailRunsIsFail
  <2> QED
    BY <2>2, <2>3 DEF Lifecycle!Next
<1>2. CASE Restart
  BY <1>2 DEF Restart, readers
<1>3. ASSUME NEW w \in Work,
             SignalTrackedGroup(w) \/ PersistTerminationOutcome(w) \/ RecoveryAborts(w)
      PROVE  UNCHANGED readers
  BY <1>3 DEF SignalTrackedGroup, PersistTerminationOutcome, RecoveryAborts, readers
<1> QED
  BY <1>1, <1>2, <1>3 DEF Recovery

\* Every step of the execution is one of its lifecycle or none.
LEMMA StepImplements ==
    ASSUME TypeOK, LifecycleInv, [Next]_vars
    PROVE  [Lifecycle!Next]_(Lifecycle!vars)
<1> USE DEF durableRun, durableEvaluation, claimVars, groupVars, volatile, bounds,
            durableUnchanged, processUnchanged
<1>1. ASSUME NEW w \in Work, ClaimNext(w) PROVE UNCHANGED readers
  BY <1>1 DEF ClaimNext, readers
<1>2. ASSUME ClaimNothing PROVE UNCHANGED readers
  BY <1>2 DEF ClaimNothing, readers
<1>3. ASSUME Crash PROVE UNCHANGED readers
  BY <1>3 DEF Crash, readers
<1>4. ASSUME NEW w \in Work, ReadyAtPasses(w) \/ Process(w) \/ LeaseLapses(w)
      PROVE  UNCHANGED readers
  BY <1>4 DEF ReadyAtPasses, Process, Launch, SupervisorExits, CodexCloses, OrphanExits,
              LeaseLapses, readers
<1>5. ASSUME UNCHANGED vars PROVE UNCHANGED readers
  BY <1>5 DEF vars, readers
<1>6. Lifecycle!Next \/ UNCHANGED readers
  BY <1>1, <1>2, <1>3, <1>4, <1>5, RequestImplements, ExecutorImplements, RecoveryImplements
  DEF Next, Worker
<1> QED
  BY <1>6 DEF readers, Lifecycle!vars

(***************************************************************************)
(* What a step of the lifecycle preserves.                                 *)
(***************************************************************************)
\* The types of what readers see.
ReadersOK ==
    /\ executionStatus \in [Work -> Statuses]
    /\ verdict \in [Work -> Verdicts \cup {"none"}]
    /\ evaluation \in [Evaluations -> {"absent", "queued", "completed", "cancelled"}]
    /\ outcome \in [Evaluations -> Verdicts \cup {"none"}]

\* Nothing that ended changes in this step.
FinalFacts ==
    /\ \A w \in Work : executionStatus[w] \in Terminal =>
           executionStatus'[w] = executionStatus[w] /\ verdict'[w] = verdict[w]
    /\ \A e \in Evaluations : outcome[e] # "none" =>
           outcome'[e] = outcome[e] /\ evaluation'[e] = evaluation[e]

\* A step that ends the running runs S and completes what ends with them.
LEMMA EndingPreserves ==
    ASSUME ReadersOK, LifecycleInv, NEW S \in SUBSET Work, S # {},
           \A w \in S : executionStatus[w] = "running" /\ executionStatus'[w] \in {"completed", "failed"},
           \A w \in Work \ S : executionStatus'[w] = executionStatus[w] /\ verdict'[w] = verdict[w],
           Lifecycle!CompleteAfter(S)
    PROVE  LifecycleInv' /\ FinalFacts
<1> DEFINE done == {e \in Evaluations : /\ RunsOf(e) \cap S # {}
                                        /\ AllTerminal(RunsOf(e), executionStatus')}
<1>1. /\ evaluation' = [e \in Evaluations |-> IF e \in done THEN "completed" ELSE evaluation[e]]
      /\ outcome' = [e \in Evaluations |->
             IF e \in done
             THEN AggregateOutcome(e \in ApplicabilityErrors, RunsOf(e), executionStatus', verdict')
             ELSE outcome[e]]
  <2>1. \A b, R, s, v : AggregateOutcome(b, R, s, v) = Lifecycle!AggregateOutcome(b, R, s, v)
    BY DEF AggregateOutcome, Lifecycle!AggregateOutcome
  <2> QED
    BY <2>1 DEF Lifecycle!CompleteAfter, RunsOf, Lifecycle!RunsOf, AllTerminal,
                Lifecycle!AllTerminal, Terminal, Lifecycle!Terminal
<1>2. \A e \in Evaluations : RunsOf(e) \cap S # {} => evaluation[e] = "queued"
  <2> SUFFICES ASSUME NEW e \in Evaluations, NEW w \in RunsOf(e) \cap S
               PROVE  evaluation[e] = "queued"
    OBVIOUS
  <2>1. w \in Work /\ EvaluationOf[w] = e /\ executionStatus[w] = "running"
    BY DEF RunsOf
  <2>2. evaluation[e] # "absent"
    BY <2>1 DEF LifecycleInv, AdmittedTogether
  <2>3. ~AllTerminal(RunsOf(e), executionStatus)
    BY <2>1 DEF AllTerminal, Terminal
  <2> QED
    BY <2>2, <2>3 DEF LifecycleInv, EvaluationFollowsItsRuns, ReadersOK
<1>3. \A e \in Evaluations \ done : evaluation'[e] = evaluation[e] /\ outcome'[e] = outcome[e]
  BY <1>1
<1>4. \A e \in done : /\ evaluation[e] = "queued" /\ evaluation'[e] = "completed"
                      /\ outcome'[e] = AggregateOutcome(e \in ApplicabilityErrors, RunsOf(e),
                                                        executionStatus', verdict')
                      /\ AllTerminal(RunsOf(e), executionStatus')
  BY <1>1, <1>2
<1>5. \A e \in Evaluations : RunsOf(e) \cap S = {} =>
         \A w \in RunsOf(e) : executionStatus'[w] = executionStatus[w] /\ verdict'[w] = verdict[w]
  BY DEF RunsOf
<1> HIDE DEF done
<1>6. AdmittedTogether'
  <2>1. ASSUME NEW w \in Work
        PROVE  executionStatus'[w] = "absent" <=> evaluation'[EvaluationOf[w]] = "absent"
    <3>1. executionStatus'[w] = "absent" <=> executionStatus[w] = "absent"
      OBVIOUS
    <3>2. evaluation'[EvaluationOf[w]] = "absent" <=> evaluation[EvaluationOf[w]] = "absent"
      BY <1>3, <1>4, EvaluationOfAssumption
    <3> QED
      BY <3>1, <3>2 DEF LifecycleInv, AdmittedTogether
  <2>2. ASSUME NEW e \in Evaluations, evaluation'[e] = "queued", NEW w \in RunsOf(e)
        PROVE  executionStatus'[w] # "cancelled"
    <3>1. evaluation[e] = "queued" /\ w \in Work
      BY <1>3, <1>4, <2>2 DEF RunsOf
    <3> QED
      BY <3>1 DEF LifecycleInv, AdmittedTogether
  <2> QED
    BY <2>1, <2>2 DEF AdmittedTogether, RunsOf
<1>7. EvaluationFollowsItsRuns'
  <2> SUFFICES ASSUME NEW e \in Evaluations
               PROVE  LET final == AllTerminal(RunsOf(e), executionStatus')
                      IN  /\ evaluation'[e] = "queued" => ~final
                          /\ evaluation'[e] = "completed" =>
                                 /\ final
                                 /\ \A w \in RunsOf(e) : executionStatus'[w] # "cancelled"
                                 /\ outcome'[e] = AggregateOutcome(e \in ApplicabilityErrors,
                                                      RunsOf(e), executionStatus', verdict')
                          /\ evaluation'[e] = "cancelled" => final /\ outcome'[e] = "error"
                          /\ outcome'[e] = "none" <=> evaluation'[e] \in {"absent", "queued"}
    BY DEF EvaluationFollowsItsRuns, RunsOf
  <2>1. CASE e \in done
    <3>1. ASSUME NEW w \in RunsOf(e) PROVE executionStatus'[w] # "cancelled"
      <4>1. evaluation[e] = "queued" /\ w \in Work
        BY <1>4, <2>1 DEF RunsOf
      <4>2. executionStatus[w] # "cancelled"
        BY <4>1 DEF LifecycleInv, AdmittedTogether
      <4> QED
        BY <4>1, <4>2
    <3>2. outcome'[e] # "none"
      BY <1>4, <2>1, AggregateOutcomeType DEF Verdicts
    <3> QED
      BY <1>4, <2>1, <3>1, <3>2
  <2>2. CASE e \notin done /\ RunsOf(e) \cap S # {}
    <3>1. evaluation'[e] = "queued" /\ outcome'[e] = outcome[e]
      BY <1>2, <1>3, <2>2
    <3>2. ~AllTerminal(RunsOf(e), executionStatus')
      BY <2>2 DEF done
    <3> QED
      BY <1>2, <2>2, <3>1, <3>2 DEF LifecycleInv, EvaluationFollowsItsRuns
  <2>3. CASE e \notin done /\ RunsOf(e) \cap S = {}
    <3>1. \A w \in RunsOf(e) : executionStatus'[w] = executionStatus[w] /\ verdict'[w] = verdict[w]
      BY <1>5, <2>3
    <3>2. evaluation'[e] = evaluation[e] /\ outcome'[e] = outcome[e]
      BY <1>3, <2>3
    <3>3. AllTerminal(RunsOf(e), executionStatus') <=> AllTerminal(RunsOf(e), executionStatus)
      BY <3>1 DEF AllTerminal
    <3>4. AggregateOutcome(e \in ApplicabilityErrors, RunsOf(e), executionStatus', verdict')
          = AggregateOutcome(e \in ApplicabilityErrors, RunsOf(e), executionStatus, verdict)
      BY <3>1 DEF AggregateOutcome
    <3> QED
      BY <3>1, <3>2, <3>3, <3>4 DEF LifecycleInv, EvaluationFollowsItsRuns
  <2> QED
    BY <2>1, <2>2, <2>3
<1>8. FinalFacts
  <2>1. \A e \in done : outcome[e] = "none"
    BY <1>4 DEF LifecycleInv, EvaluationFollowsItsRuns, done
  <2>2. \A w \in Work : executionStatus[w] \in Terminal => w \notin S
    BY DEF Terminal
  <2> QED
    BY <1>3, <2>1, <2>2 DEF FinalFacts
<1> QED
  BY <1>6, <1>7, <1>8 DEF LifecycleInv

\* Every step of the lifecycle keeps its invariant, and what is final.
LEMMA LifecyclePreserves ==
    ASSUME ReadersOK, LifecycleInv, Lifecycle!Next
    PROVE  LifecycleInv' /\ FinalFacts
<1>1. ASSUME NEW e \in Evaluations, Lifecycle!Admit(e) PROVE LifecycleInv' /\ FinalFacts
  <2>1. /\ evaluation[e] = "absent"
        /\ executionStatus' = [w \in Work |-> IF w \in RunsOf(e) THEN "queued" ELSE executionStatus[w]]
        /\ evaluation' = [evaluation EXCEPT ![e] = IF RunsOf(e) = {} THEN "completed" ELSE "queued"]
        /\ outcome' = [outcome EXCEPT ![e] = IF RunsOf(e) # {} THEN "none"
                           ELSE IF e \in ApplicabilityErrors THEN "error" ELSE "clear"]
        /\ verdict' = verdict
    BY <1>1 DEF Lifecycle!Admit, RunsOf, Lifecycle!RunsOf
  <2>2. /\ \A w \in RunsOf(e) : executionStatus[w] = "absent" /\ executionStatus'[w] = "queued"
        /\ outcome[e] = "none"
    BY <2>1, EvaluationOfAssumption DEF LifecycleInv, AdmittedTogether,
       EvaluationFollowsItsRuns, RunsOf
  <2>3. \A d \in Evaluations \ {e} :
           /\ evaluation'[d] = evaluation[d] /\ outcome'[d] = outcome[d]
           /\ \A w \in RunsOf(d) : executionStatus'[w] = executionStatus[w]
    BY <2>1 DEF ReadersOK, RunsOf
  <2>4. AdmittedTogether'
    <3>1. ASSUME NEW w \in Work
          PROVE  executionStatus'[w] = "absent" <=> evaluation'[EvaluationOf[w]] = "absent"
      <4>1. CASE EvaluationOf[w] = e
        BY <2>1, <2>2, <4>1 DEF RunsOf, ReadersOK
      <4>2. CASE EvaluationOf[w] # e
        BY <2>3, <4>2, EvaluationOfAssumption DEF RunsOf, LifecycleInv, AdmittedTogether
      <4> QED
        BY <4>1, <4>2
    <3>2. ASSUME NEW d \in Evaluations, evaluation'[d] = "queued", NEW w \in RunsOf(d)
          PROVE  executionStatus'[w] # "cancelled"
      BY <2>2, <2>3, <3>2 DEF LifecycleInv, AdmittedTogether
    <3> QED
      BY <3>1, <3>2 DEF AdmittedTogether, RunsOf
  <2>5. EvaluationFollowsItsRuns'
    <3>1. ASSUME NEW d \in Evaluations \ {e}
          PROVE  /\ AllTerminal(RunsOf(d), executionStatus') <=> AllTerminal(RunsOf(d), executionStatus)
                 /\ AggregateOutcome(d \in ApplicabilityErrors, RunsOf(d), executionStatus', verdict')
                    = AggregateOutcome(d \in ApplicabilityErrors, RunsOf(d), executionStatus, verdict)
                 /\ (\A w \in RunsOf(d) : executionStatus'[w] # "cancelled")
                      <=> (\A w \in RunsOf(d) : executionStatus[w] # "cancelled")
      BY <2>1, <2>3 DEF AllTerminal, AggregateOutcome
    <3>2. CASE RunsOf(e) = {}
      <4>1. /\ evaluation'[e] = "completed" /\ AllTerminal(RunsOf(e), executionStatus')
            /\ outcome'[e] = AggregateOutcome(e \in ApplicabilityErrors, RunsOf(e),
                                              executionStatus', verdict')
            /\ outcome'[e] # "none"
        BY <2>1, <3>2 DEF AllTerminal, AggregateOutcome, ReadersOK
      <4> QED
        BY <2>3, <3>1, <3>2, <4>1 DEF LifecycleInv, EvaluationFollowsItsRuns, RunsOf
    <3>3. CASE RunsOf(e) # {}
      <4>1. /\ evaluation'[e] = "queued" /\ ~AllTerminal(RunsOf(e), executionStatus')
            /\ outcome'[e] = "none"
        BY <2>1, <2>2, <3>3 DEF AllTerminal, Terminal, ReadersOK
      <4> QED
        BY <2>3, <3>1, <4>1 DEF LifecycleInv, EvaluationFollowsItsRuns, RunsOf
    <3> QED
      BY <3>2, <3>3
  <2>6. FinalFacts
    BY <2>1, <2>2, <2>3 DEF FinalFacts, Terminal, RunsOf
  <2> QED
    BY <2>4, <2>5, <2>6 DEF LifecycleInv
<1>2. ASSUME NEW e \in Evaluations, Lifecycle!Cancel(e) PROVE LifecycleInv' /\ FinalFacts
  <2>1. /\ evaluation[e] = "queued"
        /\ executionStatus' = [w \in Work |->
               IF w \in RunsOf(e) /\ executionStatus[w] \in Nonterminal
               THEN "cancelled" ELSE executionStatus[w]]
        /\ evaluation' = [evaluation EXCEPT ![e] = "cancelled"]
        /\ outcome' = [outcome EXCEPT ![e] = "error"]
        /\ verdict' = verdict
    BY <1>2 DEF Lifecycle!Cancel, RunsOf, Lifecycle!RunsOf, Nonterminal, Lifecycle!Nonterminal
  <2>2. /\ \A w \in RunsOf(e) : executionStatus[w] # "absent" /\ executionStatus'[w] \in Terminal
        /\ outcome[e] = "none"
    <3>1. \A w \in RunsOf(e) : executionStatus[w] # "absent"
      BY <2>1 DEF LifecycleInv, AdmittedTogether, RunsOf
    <3>2. \A w \in RunsOf(e) : executionStatus[w] \in Statuses /\ w \in Work
      BY DEF ReadersOK, RunsOf
    <3> QED
      BY <2>1, <3>1, <3>2 DEF LifecycleInv, EvaluationFollowsItsRuns, Statuses,
         Nonterminal, Terminal
  <2>3. \A d \in Evaluations \ {e} :
           /\ evaluation'[d] = evaluation[d] /\ outcome'[d] = outcome[d]
           /\ \A w \in RunsOf(d) : executionStatus'[w] = executionStatus[w]
    BY <2>1 DEF ReadersOK, RunsOf
  <2>4. AdmittedTogether'
    <3>1. ASSUME NEW w \in Work
          PROVE  executionStatus'[w] = "absent" <=> evaluation'[EvaluationOf[w]] = "absent"
      <4>1. CASE EvaluationOf[w] = e
        BY <2>1, <2>2, <4>1 DEF RunsOf, ReadersOK, Terminal
      <4>2. CASE EvaluationOf[w] # e
        BY <2>3, <4>2, EvaluationOfAssumption DEF RunsOf, LifecycleInv, AdmittedTogether
      <4> QED
        BY <4>1, <4>2
    <3>2. ASSUME NEW d \in Evaluations, evaluation'[d] = "queued", NEW w \in RunsOf(d)
          PROVE  executionStatus'[w] # "cancelled"
      <4>1. d # e
        BY <2>1, <3>2 DEF ReadersOK
      <4> QED
        BY <2>3, <3>2, <4>1 DEF LifecycleInv, AdmittedTogether
    <3> QED
      BY <3>1, <3>2 DEF AdmittedTogether, RunsOf
  <2>5. EvaluationFollowsItsRuns'
    <3>1. ASSUME NEW d \in Evaluations \ {e}
          PROVE  /\ AllTerminal(RunsOf(d), executionStatus') <=> AllTerminal(RunsOf(d), executionStatus)
                 /\ AggregateOutcome(d \in ApplicabilityErrors, RunsOf(d), executionStatus', verdict')
                    = AggregateOutcome(d \in ApplicabilityErrors, RunsOf(d), executionStatus, verdict)
                 /\ (\A w \in RunsOf(d) : executionStatus'[w] # "cancelled")
                      <=> (\A w \in RunsOf(d) : executionStatus[w] # "cancelled")
      BY <2>1, <2>3 DEF AllTerminal, AggregateOutcome
    <3>2. evaluation'[e] = "cancelled" /\ outcome'[e] = "error"
          /\ AllTerminal(RunsOf(e), executionStatus')
      BY <2>1, <2>2 DEF AllTerminal, ReadersOK
    <3> SUFFICES ASSUME NEW d \in Evaluations
                 PROVE  LET final == AllTerminal(RunsOf(d), executionStatus')
                        IN  /\ evaluation'[d] = "queued" => ~final
                            /\ evaluation'[d] = "completed" =>
                                   /\ final
                                   /\ \A w \in RunsOf(d) : executionStatus'[w] # "cancelled"
                                   /\ outcome'[d] = AggregateOutcome(d \in ApplicabilityErrors,
                                                        RunsOf(d), executionStatus', verdict')
                            /\ evaluation'[d] = "cancelled" => final /\ outcome'[d] = "error"
                            /\ outcome'[d] = "none" <=> evaluation'[d] \in {"absent", "queued"}
      BY DEF EvaluationFollowsItsRuns, RunsOf
    <3>3. CASE d = e
      BY <3>2, <3>3
    <3>4. CASE d # e
      BY <2>3, <3>1, <3>4 DEF LifecycleInv, EvaluationFollowsItsRuns
    <3> QED
      BY <3>3, <3>4
  <2>6. FinalFacts
    BY <2>1, <2>2, <2>3 DEF FinalFacts, Terminal, Nonterminal
  <2> QED
    BY <2>4, <2>5, <2>6 DEF LifecycleInv
<1>3. ASSUME NEW w \in Work, Lifecycle!Start(w) PROVE LifecycleInv' /\ FinalFacts
  <2>1. /\ executionStatus[w] = "queued" /\ executionStatus'[w] = "running"
        /\ \A v \in Work : v # w => executionStatus'[v] = executionStatus[v]
        /\ UNCHANGED <<verdict, evaluation, outcome>>
    BY <1>3 DEF Lifecycle!Start, ReadersOK
  <2>2. \A e \in Evaluations :
           AllTerminal(RunsOf(e), executionStatus') <=> AllTerminal(RunsOf(e), executionStatus)
    BY <2>1 DEF AllTerminal, Terminal, RunsOf
  <2>3. \A e \in Evaluations : AllTerminal(RunsOf(e), executionStatus) =>
           AggregateOutcome(e \in ApplicabilityErrors, RunsOf(e), executionStatus', verdict')
           = AggregateOutcome(e \in ApplicabilityErrors, RunsOf(e), executionStatus, verdict)
    BY <2>1 DEF AllTerminal, Terminal, RunsOf, AggregateOutcome
  <2>4. AdmittedTogether'
    BY <2>1 DEF LifecycleInv, AdmittedTogether, RunsOf
  <2>5. EvaluationFollowsItsRuns'
    BY <2>1, <2>2, <2>3 DEF LifecycleInv, EvaluationFollowsItsRuns, RunsOf
  <2>6. FinalFacts
    BY <2>1 DEF FinalFacts, Terminal
  <2> QED
    BY <2>4, <2>5, <2>6 DEF LifecycleInv
<1>4. ASSUME NEW w \in Work, NEW result \in Verdicts, Lifecycle!Accept(w, result)
      PROVE  LifecycleInv' /\ FinalFacts
  <2>1. /\ {w} \in SUBSET Work /\ {w} # {} /\ Lifecycle!CompleteAfter({w})
        /\ \A v \in {w} : executionStatus[v] = "running" /\ executionStatus'[v] = "completed"
        /\ \A v \in Work \ {w} : executionStatus'[v] = executionStatus[v] /\ verdict'[v] = verdict[v]
    BY <1>4 DEF Lifecycle!Accept, ReadersOK
  <2> QED
    BY <2>1, EndingPreserves
<1>5. ASSUME NEW S \in SUBSET Work, Lifecycle!Fail(S) PROVE LifecycleInv' /\ FinalFacts
  <2>1. /\ S # {} /\ Lifecycle!CompleteAfter(S)
        /\ \A v \in S : executionStatus[v] = "running" /\ executionStatus'[v] = "failed"
        /\ \A v \in Work \ S : executionStatus'[v] = executionStatus[v] /\ verdict'[v] = verdict[v]
    BY <1>5 DEF Lifecycle!Fail
  <2> QED
    BY <2>1, EndingPreserves
<1> QED
  BY <1>1, <1>2, <1>3, <1>4, <1>5 DEF Lifecycle!Next, Lifecycle!Verdicts, Verdicts

\* So does every step of the execution.
LEMMA LifecycleNext ==
    ASSUME TypeOK, LifecycleInv, [Next]_vars
    PROVE  LifecycleInv' /\ FinalFacts
<1>1. ReadersOK
  BY DEF TypeOK, ReadersOK
<1>2. CASE Lifecycle!Next
  BY <1>1, <1>2, LifecyclePreserves
<1>3. CASE UNCHANGED Lifecycle!vars
  BY <1>3 DEF Lifecycle!vars, LifecycleInv, AdmittedTogether, EvaluationFollowsItsRuns,
     FinalFacts
<1> QED
  BY <1>2, <1>3, StepImplements

\* In every reachable state Evaluations and their runs agree.
THEOREM LifecycleCorrect == Spec => []LifecycleInv
<1>1. Init => TypeOK /\ LifecycleInv
  BY TypeInit, LifecycleInit
<1>2. (TypeOK /\ LifecycleInv) /\ [Next]_vars => (TypeOK /\ LifecycleInv)'
  BY TypeNext, LifecycleNext
<1> QED
  BY <1>1, <1>2, PTL DEF Spec

\* The durable execution, with its leases, retries, crashes and recoveries,
\* implements the lifecycle its readers are promised.
THEOREM ImplementsLifecycleCorrect == Spec => ImplementsLifecycle
<1>1. Init => Lifecycle!Init
  BY LifecycleInit
<1>2. TypeOK /\ LifecycleInv /\ [Next]_vars => [Lifecycle!Next]_(Lifecycle!vars)
  BY StepImplements
<1> QED
  BY <1>1, <1>2, TypeCorrect, LifecycleCorrect, PTL DEF Spec, ImplementsLifecycle,
     Lifecycle!Spec

\* Every Evaluation ends with its runs, with the outcome of their final
\* facts, and no late Result, deadline, cancellation or recovery changes a
\* terminal fact.
THEOREM OutcomesSettled == Spec => OutcomesAreSettled
<1>1. TypeOK /\ LifecycleInv /\ [Next]_vars => [FinalFacts]_vars
  BY LifecycleNext
<1>2. Spec => TerminalFactsAreFinal
  BY <1>1, TypeCorrect, LifecycleCorrect, PTL DEF Spec, TerminalFactsAreFinal, FinalFacts
<1>3. Spec => []EvaluationFollowsItsRuns
  BY LifecycleCorrect, PTL DEF LifecycleInv
<1> QED
  BY <1>2, <1>3, PTL DEF OutcomesAreSettled

-----------------------------------------------------------------------------
(***************************************************************************)
(* Process groups.  What is on record of a group, and the group itself,    *)
(* are changed by few steps: GroupStep lists them.                         *)
(***************************************************************************)
groupState == <<queue, processGroup, recovered, codex>>

\* Rows come, and rows that are not started go.
RowsChange ==
    /\ \A w \in queue : Started(w) => w \in queue'
    /\ UNCHANGED <<processGroup, recovered, codex>>

\* Every other step is a RowsChange.
LEMMA GroupStep ==
    ASSUME [Next]_vars
    PROVE  \/ RowsChange \/ FinishRecovery
           \/ \E w \in Work : \/ Process(w) \/ SignalTrackedGroup(w)
                              \/ PersistTerminationOutcome(w)
           \/ \E w \in Work, k \in Tokens : \/ StartTracked(w, k) \/ Terminate(w, k)
                                            \/ FinishProcessGroup(w, k)
<1> USE DEF durableRun, durableEvaluation, claimVars, groupVars, volatile, bounds,
            durableUnchanged, RowsChange
<1>1. ASSUME Request PROVE RowsChange
  BY <1>1 DEF Request, Admit, CancelEvaluation, RetryPreStart, SetConcurrency
<1>2. ASSUME Worker PROVE RowsChange
  BY <1>2 DEF Worker, ClaimNothing, ClaimNext
<1>3. ASSUME NEW w \in Work, RecoveryAborts(w) PROVE RowsChange
  BY <1>3 DEF RecoveryAborts
<1>4. ASSUME Restart \/ Crash PROVE RowsChange
  BY <1>4 DEF Restart, Crash
<1>5. ASSUME NEW w \in Work, ReadyAtPasses(w) \/ LeaseLapses(w) PROVE RowsChange
  BY <1>5 DEF ReadyAtPasses, LeaseLapses
<1>6. ASSUME UNCHANGED vars PROVE RowsChange
  BY <1>6 DEF vars
<1>7. ASSUME NEW w \in Work, NEW k \in Tokens, Executor(w, k)
      PROVE  RowsChange \/ StartTracked(w, k) \/ Terminate(w, k) \/ FinishProcessGroup(w, k)
  <2>1. ASSUME \/ BeginPreStartAttempt(w, k) \/ ReleaseClaim(w, k) \/ CheckoutPrepared(w, k)
               \/ \E error \in {"checkout", "definitive"} : CheckoutFails(w, k, error)
               \/ StartOverLimit(w, k) \/ StartClaimLost(w, k) \/ RecordRefusal(w, k)
               \/ PreparationFails(w, k)
        PROVE  RowsChange
    BY <2>1 DEF BeginPreStartAttempt, ReleaseClaim, CheckoutPrepared, CheckoutFails,
                StartOverLimit, StartClaimLost, RecordRefusal, PreparationFails
  <2>2. ASSUME \/ \E cause \in Endings : EndsWith(w, k, cause)
               \/ \E result \in Results : Submit(w, k, result)
               \/ CloseChannel(w, k) \/ TerminationFails(w, k) \/ Settle(w, k)
        PROVE  RowsChange
    BY <2>2 DEF EndsWith, Submit, CloseChannel, TerminationFails, Settle
  <2> QED
    BY <1>7, <2>1, <2>2
    DEF Executor, Advance, Disturb, ObserveSubmission, ObserveCancellation, ObserveExit,
        DeadlineFires, ExecutionFails, Endings
<1> QED
  BY <1>1, <1>2, <1>3, <1>4, <1>5, <1>6, <1>7 DEF Next, Recovery

(***************************************************************************)
(* RunningCodexIsOnRecord is inductive once a row that is not started is   *)
(* known to have no process group at all: then startTracked finds none.    *)
(* A termination needs Fencing: it belongs to a started row.               *)
(***************************************************************************)
UnstartedHasNoCodex == \A w \in Work : ~Started(w) => codex[w] = "none"

GroupInv == UnstartedHasNoCodex /\ RunningCodexIsOnRecord

\* Every step keeps a Codex that has not closed on record.
LEMMA GroupNext ==
    ASSUME TypeOK, OnlyNewestClaimExecutes, GroupInv, [Next]_vars
    PROVE  GroupInv'
<1> USE DEF GroupInv, UnstartedHasNoCodex, RunningCodexIsOnRecord, Unresolved, Started
<1>1. CASE RowsChange
  BY <1>1 DEF RowsChange
<1>2. CASE FinishRecovery
  BY <1>2 DEF FinishRecovery
<1>3. ASSUME NEW w \in Work,
             Process(w) \/ SignalTrackedGroup(w) \/ PersistTerminationOutcome(w)
      PROVE  GroupInv'
  <2>1. CASE Launch(w)
    BY <2>1 DEF Launch, processUnchanged, groupVars, claimVars, TypeOK
  <2>2. CASE SupervisorExits(w) \/ OrphanExits(w) \/ SignalTrackedGroup(w)
    BY <2>2 DEF SupervisorExits, OrphanExits, SignalTrackedGroup, processUnchanged, groupVars,
                claimVars, TypeOK, Alive
  <2>3. CASE CodexCloses(w)
    <3>1. PICK state \in {"closed", "gone", "orphaned"} : codex' = [codex EXCEPT ![w] = state]
      BY <2>3 DEF CodexCloses
    <3>2. codex[w] = "running" /\ UNCHANGED <<queue, processGroup, recovered>>
      BY <2>3 DEF CodexCloses, processUnchanged, groupVars, claimVars
    <3> QED
      BY <3>1, <3>2 DEF TypeOK
  <2>4. CASE PersistTerminationOutcome(w)
    BY <2>4 DEF PersistTerminationOutcome, claimVars, volatile, Alive
  <2> QED
    BY <1>3, <2>1, <2>2, <2>3, <2>4 DEF Process
<1>4. ASSUME NEW w \in Work, NEW k \in Tokens, StartTracked(w, k) PROVE GroupInv'
  <2>1. /\ w \in queue /\ ~Started(w)
        /\ processGroup' = [processGroup EXCEPT ![w] = "tracked"]
        /\ codex' = [codex EXCEPT ![w] = "waiting"]
        /\ UNCHANGED <<queue, recovered>>
    BY <1>4 DEF StartTracked, HoldsUnstarted, Holds
  <2>2. w \notin recovered
    BY <2>1 DEF TypeOK
  <2> QED
    BY <2>1, <2>2 DEF TypeOK
<1>5. ASSUME NEW w \in Work, NEW k \in Tokens, Terminate(w, k) PROVE GroupInv'
  <2>1. Started(w)
    BY <1>5 DEF Terminate, OnlyNewestClaimExecutes, StartedSteps
  <2>2. codex' = [codex EXCEPT ![w] = "gone"] /\ UNCHANGED <<queue, processGroup, recovered>>
    BY <1>5 DEF Terminate, groupVars, claimVars
  <2> QED
    BY <2>1, <2>2 DEF TypeOK
<1>6. ASSUME NEW w \in Work, NEW k \in Tokens, FinishProcessGroup(w, k) PROVE GroupInv'
  <2>1. /\ codex[w] \in {"closed", "gone"} /\ UNCHANGED <<queue, recovered, codex>>
        /\ \/ processGroup' = processGroup
           \/ processGroup' = [processGroup EXCEPT ![w] = "finished"]
    BY <1>6 DEF FinishProcessGroup, claimVars
  <2> QED
    BY <2>1 DEF TypeOK
<1> QED
  BY <1>1, <1>2, <1>3, <1>4, <1>5, <1>6, GroupStep

\* There is no process at first.
LEMMA GroupInit == Init => GroupInv
BY DEF Init, GroupInv, UnstartedHasNoCodex, RunningCodexIsOnRecord

\* A Codex that has not closed is on record in every reachable state.
THEOREM GroupCorrect == Spec => []GroupInv
<1>1. (TypeOK /\ OnlyNewestClaimExecutes /\ GroupInv) /\ [Next]_vars => GroupInv'
  BY GroupNext
<1> QED
  BY <1>1, GroupInit, TypeCorrect, FencingCorrect, PTL DEF Spec

\* Only startTracked prepares a Codex, for a row that was never started.
LEMMA PreparedOnce ==
    ASSUME TypeOK, GroupInv, [Next]_vars, NEW w \in Work,
           codex[w] # "none", codex'[w] = "waiting"
    PROVE  codex[w] = "waiting"
<1>1. CASE RowsChange \/ FinishRecovery
  BY <1>1 DEF RowsChange, FinishRecovery
<1>2. ASSUME NEW v \in Work, Process(v) PROVE codex[w] = "waiting"
  BY <1>2 DEF Process, Launch, SupervisorExits, CodexCloses, OrphanExits, TypeOK
<1>3. ASSUME NEW v \in Work, SignalTrackedGroup(v) \/ PersistTerminationOutcome(v)
      PROVE  codex[w] = "waiting"
  BY <1>3 DEF SignalTrackedGroup, PersistTerminationOutcome, volatile, TypeOK
<1>4. ASSUME NEW v \in Work, NEW k \in Tokens, StartTracked(v, k) PROVE codex[w] = "waiting"
  BY <1>4 DEF StartTracked, HoldsUnstarted, GroupInv, UnstartedHasNoCodex, TypeOK
<1>5. ASSUME NEW v \in Work, NEW k \in Tokens, Terminate(v, k) \/ FinishProcessGroup(v, k)
      PROVE  codex[w] = "waiting"
  BY <1>5 DEF Terminate, FinishProcessGroup, TypeOK
<1> QED
  BY <1>1, <1>2, <1>3, <1>4, <1>5, GroupStep

\* Codex is prepared at most once for a Review Run, and stays on record
\* until it has closed, whatever signals fail and whenever a crash comes.
THEOREM CodexAccountedFor == Spec => CodexIsAccountedFor
<1>1. TypeOK /\ OnlyNewestClaimExecutes /\ GroupInv /\ [Next]_vars
        => [RunningCodexIsOnRecord']_vars
  BY GroupNext DEF GroupInv
<1>2. TypeOK /\ GroupInv /\ [Next]_vars
        => [\A w \in Work : codex[w] # "none" /\ codex'[w] = "waiting" =>
               codex[w] = "waiting"]_vars
  BY PreparedOnce
<1>3. Spec => [][RunningCodexIsOnRecord']_vars
  BY <1>1, TypeCorrect, FencingCorrect, GroupCorrect, PTL DEF Spec
<1>4. Spec => NeverExecutedTwice
  BY <1>2, TypeCorrect, GroupCorrect, PTL DEF Spec, NeverExecutedTwice
<1> QED
  BY <1>3, <1>4 DEF CodexIsAccountedFor

-----------------------------------------------------------------------------
(***************************************************************************)
(* Live groups.  When signals do not fail, an executor that has terminated *)
(* its group left no member, so recording the group as finished takes      *)
(* nothing alive off the record.                                           *)
(***************************************************************************)
FinishingIsGone ==
    \A w \in Work, k \in Tokens :
        pc[w][k] \in {"finishing", "settling"} => codex[w] = "gone"

LiveInv == FinishingIsGone /\ LiveGroupIsOnRecord

\* The steps of executors that bring them to finishing or settling.
LEMMA FinishingStep ==
    ASSUME TypeOK, ~TerminationMayFail, [Next]_vars,
           NEW w \in Work, NEW k \in Tokens, pc'[w][k] \in {"finishing", "settling"}
    PROVE  pc[w][k] \in {"finishing", "settling"} \/ Terminate(w, k)
<1> USE DEF durableRun, durableEvaluation, claimVars, groupVars, volatile, bounds,
            durableUnchanged, processUnchanged
<1>1. CASE UNCHANGED pc
  BY <1>1
<1>2. ASSUME NEW v \in Work, ClaimNext(v) PROVE pc[w][k] \in {"finishing", "settling"}
  BY <1>2 DEF ClaimNext, GoTo, TypeOK
<1>3. ASSUME NEW v \in Work, NEW j \in Tokens, NEW step, GoTo(v, j, step),
             step \notin {"finishing", "settling"} \/ pc[v][j] \in {"finishing", "settling"}
      PROVE  pc[w][k] \in {"finishing", "settling"}
  BY <1>3 DEF GoTo, TypeOK
<1>4. ASSUME NEW v \in Work, NEW j \in Tokens, Executor(v, j)
      PROVE  pc[w][k] \in {"finishing", "settling"} \/ Terminate(w, k)
  <2>1. CASE Terminate(v, j)
    <3>1. PICK step : GoTo(v, j, step)
      BY <2>1 DEF Terminate
    <3> QED
      BY <2>1, <3>1 DEF GoTo, TypeOK
  <2>2. CASE FinishProcessGroup(v, j) \/ Settle(v, j)
    BY <1>3, <2>2 DEF FinishProcessGroup, Settle
  <2>3. ASSUME \/ BeginPreStartAttempt(v, j) \/ ReleaseClaim(v, j) \/ CheckoutPrepared(v, j)
               \/ \E error \in {"checkout", "definitive"} : CheckoutFails(v, j, error)
               \/ StartOverLimit(v, j) \/ StartClaimLost(v, j) \/ RecordRefusal(v, j)
               \/ PreparationFails(v, j) \/ StartTracked(v, j) \/ CloseChannel(v, j)
               \/ \E cause \in Endings : EndsWith(v, j, cause)
        PROVE  pc[w][k] \in {"finishing", "settling"}
    BY <1>3, <2>3
    DEF BeginPreStartAttempt, ReleaseClaim, CheckoutPrepared, CheckoutFails, StartOverLimit,
        StartClaimLost, RecordRefusal, PreparationFails, StartTracked, CloseChannel, EndsWith
  <2>4. ASSUME NEW result \in Results, Submit(v, j, result) PROVE pc' = pc
    BY <2>4 DEF Submit
  <2>5. ~TerminationFails(v, j)
    BY DEF TerminationFails
  <2> QED
    BY <1>1, <1>4, <2>1, <2>2, <2>3, <2>4, <2>5
    DEF Executor, Advance, Disturb, ObserveSubmission, ObserveCancellation, ObserveExit,
        DeadlineFires, ExecutionFails, Endings
<1>5. ASSUME Request PROVE UNCHANGED pc
  BY <1>5 DEF Request, Admit, CancelEvaluation, RetryPreStart, SetConcurrency
<1>6. ASSUME Recovery \/ ClaimNothing PROVE UNCHANGED pc
  BY <1>6 DEF Recovery, ClaimNothing, Restart, FinishRecovery, SignalTrackedGroup,
              PersistTerminationOutcome, RecoveryAborts
<1>7. ~Crash
  BY DEF Crash
<1>8. ASSUME NEW v \in Work, ReadyAtPasses(v) \/ Process(v) \/ LeaseLapses(v)
      PROVE  UNCHANGED pc
  BY <1>8 DEF ReadyAtPasses, LeaseLapses, Process, Launch, SupervisorExits, CodexCloses,
              OrphanExits
<1> QED
  BY <1>1, <1>2, <1>4, <1>5, <1>6, <1>7, <1>8 DEF Next, Worker, vars

\* A group that is gone stays gone.
LEMMA GoneStaysGone ==
    ASSUME TypeOK, GroupInv, [Next]_vars, NEW w \in Work, codex[w] = "gone"
    PROVE  codex'[w] = "gone"
<1>1. CASE RowsChange \/ FinishRecovery
  BY <1>1 DEF RowsChange, FinishRecovery
<1>2. ASSUME NEW v \in Work, Process(v) \/ SignalTrackedGroup(v) \/ PersistTerminationOutcome(v)
      PROVE  codex'[w] = "gone"
  BY <1>2 DEF Process, Launch, SupervisorExits, CodexCloses, OrphanExits, SignalTrackedGroup,
              PersistTerminationOutcome, volatile, TypeOK
<1>3. ASSUME NEW v \in Work, NEW k \in Tokens, StartTracked(v, k) PROVE codex'[w] = "gone"
  BY <1>3 DEF StartTracked, HoldsUnstarted, GroupInv, UnstartedHasNoCodex, TypeOK
<1>4. ASSUME NEW v \in Work, NEW k \in Tokens, Terminate(v, k) \/ FinishProcessGroup(v, k)
      PROVE  codex'[w] = "gone"
  BY <1>4 DEF Terminate, FinishProcessGroup, TypeOK
<1> QED
  BY <1>1, <1>2, <1>3, <1>4, GroupStep

\* Every step keeps a group with a live member on record.
LEMMA LiveNext ==
    ASSUME TypeOK, OnlyNewestClaimExecutes, GroupInv, LiveInv, ~TerminationMayFail, [Next]_vars
    PROVE  LiveInv'
<1>1. FinishingIsGone'
  <2> SUFFICES ASSUME NEW w \in Work, NEW k \in Tokens, pc'[w][k] \in {"finishing", "settling"}
               PROVE  codex'[w] = "gone"
    BY DEF FinishingIsGone
  <2>1. CASE Terminate(w, k)
    BY <2>1 DEF Terminate, TypeOK
  <2>2. CASE pc[w][k] \in {"finishing", "settling"}
    BY <2>2, GoneStaysGone DEF LiveInv, FinishingIsGone
  <2> QED
    BY <2>1, <2>2, FinishingStep
<1>2. LiveGroupIsOnRecord'
  <2> USE DEF LiveInv, LiveGroupIsOnRecord, Unresolved, Started, Alive
  <2>1. CASE RowsChange
    BY <2>1 DEF RowsChange
  <2>2. CASE FinishRecovery
    BY <2>2 DEF FinishRecovery
  <2>3. ASSUME NEW w \in Work, Process(w) PROVE LiveGroupIsOnRecord'
    <3>1. PICK state : codex' = [codex EXCEPT ![w] = state]
      BY <2>3 DEF Process, Launch, SupervisorExits, CodexCloses, OrphanExits
    <3>2. codex[w] \in Alive /\ UNCHANGED <<queue, processGroup, recovered>>
      BY <2>3 DEF Process, Launch, SupervisorExits, CodexCloses, OrphanExits,
                  processUnchanged, groupVars, claimVars
    <3> QED
      BY <3>1, <3>2 DEF TypeOK
  <2>4. ASSUME NEW w \in Work, SignalTrackedGroup(w) PROVE LiveGroupIsOnRecord'
    BY <2>4 DEF SignalTrackedGroup, processUnchanged, groupVars, claimVars, TypeOK
  <2>5. ASSUME NEW w \in Work, PersistTerminationOutcome(w) PROVE LiveGroupIsOnRecord'
    BY <2>5 DEF PersistTerminationOutcome, claimVars, volatile
  <2>6. ASSUME NEW w \in Work, NEW k \in Tokens, StartTracked(w, k) PROVE LiveGroupIsOnRecord'
    <3>1. /\ w \in queue /\ w \notin recovered
          /\ processGroup' = [processGroup EXCEPT ![w] = "tracked"]
          /\ codex' = [codex EXCEPT ![w] = "waiting"]
          /\ UNCHANGED <<queue, recovered>>
      BY <2>6 DEF StartTracked, HoldsUnstarted, Holds, TypeOK
    <3> QED
      BY <3>1 DEF TypeOK
  <2>7. ASSUME NEW w \in Work, NEW k \in Tokens, Terminate(w, k) PROVE LiveGroupIsOnRecord'
    <3>1. codex' = [codex EXCEPT ![w] = "gone"] /\ UNCHANGED <<queue, processGroup, recovered>>
      BY <2>7 DEF Terminate, groupVars, claimVars
    <3> QED
      BY <3>1 DEF TypeOK
  <2>8. ASSUME NEW w \in Work, NEW k \in Tokens, FinishProcessGroup(w, k)
        PROVE  LiveGroupIsOnRecord'
    <3>1. codex[w] = "gone"
      BY <2>8 DEF FinishProcessGroup, FinishingIsGone
    <3>2. /\ UNCHANGED <<queue, recovered, codex>>
          /\ \/ processGroup' = processGroup
             \/ processGroup' = [processGroup EXCEPT ![w] = "finished"]
      BY <2>8 DEF FinishProcessGroup, claimVars
    <3> QED
      BY <3>1, <3>2 DEF TypeOK
  <2> QED
    BY <2>1, <2>2, <2>3, <2>4, <2>5, <2>6, <2>7, <2>8, GroupStep
<1> QED
  BY <1>1, <1>2 DEF LiveInv

\* While signals reach their groups, recovery finds every group with a live
\* member on record, at whatever point the crash came.
THEOREM LiveGroupsCorrect ==
    ASSUME ~TerminationMayFail
    PROVE  Spec => []LiveGroupIsOnRecord
<1>1. Init => LiveInv
  BY DEF Init, LiveInv, FinishingIsGone, LiveGroupIsOnRecord, Alive
<1>2. (TypeOK /\ OnlyNewestClaimExecutes /\ GroupInv) /\ LiveInv /\ [Next]_vars => LiveInv'
  BY LiveNext
<1>3. Spec => []LiveInv
  BY <1>1, <1>2, TypeCorrect, FencingCorrect, GroupCorrect, PTL DEF Spec
<1> QED
  BY <1>3, PTL DEF LiveInv

-----------------------------------------------------------------------------
(***************************************************************************)
(* Attendance.  An executor is lost when the application goes down, and    *)
(* ends by itself only in Settle.  There its claim is current (Fencing)    *)
(* and, while no lease lapses, leased: the run fails if it still runs.     *)
(* The recovery of the next start fails what was left running and ends     *)
(* what is left alive, for a running run is a started row.                 *)
(***************************************************************************)
RunningIsStarted ==
    \A w \in Work : executionStatus[w] = "running" => w \in queue /\ Started(w)

ExecutingIsLeased ==
    \A w \in Work, k \in Tokens : pc[w][k] \in StartedSteps => w \in leased

AttendInv == RunningIsStarted /\ ExecutingIsLeased /\ EveryExecutionIsAttended

\* Whoever lets go of a lease does so for rows that are not started.
LEMMA LeasesHeld ==
    ASSUME TypeOK, ~StallMayHappen, [Next]_vars, NEW w \in leased, Started(w)
    PROVE  w \in leased'
<1> USE DEF durableRun, durableEvaluation, claimVars, groupVars, volatile, bounds,
            durableUnchanged, processUnchanged
<1>1. ASSUME Request PROVE w \in leased'
  BY <1>1 DEF Request, Admit, CancelEvaluation, RetryPreStart, SetConcurrency
<1>2. ASSUME Worker PROVE w \in leased'
  BY <1>2 DEF Worker, ClaimNothing, ClaimNext
<1>3. ASSUME Recovery PROVE w \in leased'
  BY <1>3 DEF Recovery, Restart, FinishRecovery, SignalTrackedGroup,
              PersistTerminationOutcome, RecoveryAborts, Unstarted
<1>4. ASSUME NEW v \in Work, NEW k \in Tokens, Executor(v, k) PROVE w \in leased'
  <2>1. ASSUME \/ ReleaseClaim(v, k) \/ StartOverLimit(v, k) \/ RecordRefusal(v, k)
               \/ \E error \in {"checkout", "definitive"} : CheckoutFails(v, k, error)
        PROVE  w \in leased'
    BY <2>1 DEF ReleaseClaim, StartOverLimit, RecordRefusal, CheckoutFails,
                RecordPreStartFailure, HoldsUnstarted
  <2>2. ASSUME \/ BeginPreStartAttempt(v, k) \/ CheckoutPrepared(v, k) \/ PreparationFails(v, k)
               \/ StartClaimLost(v, k) \/ StartTracked(v, k) \/ CloseChannel(v, k)
               \/ \E cause \in Endings : EndsWith(v, k, cause)
               \/ \E result \in Results : Submit(v, k, result)
               \/ Terminate(v, k) \/ TerminationFails(v, k)
               \/ FinishProcessGroup(v, k) \/ Settle(v, k)
        PROVE  leased' = leased
    BY <2>2 DEF BeginPreStartAttempt, CheckoutPrepared, PreparationFails, StartClaimLost,
                StartTracked, CloseChannel, EndsWith, Submit, Terminate, TerminationFails,
                FinishProcessGroup, Settle
  <2> QED
    BY <1>4, <2>1, <2>2
    DEF Executor, Advance, Disturb, ObserveSubmission, ObserveCancellation, ObserveExit,
        DeadlineFires, ExecutionFails, Endings
<1>5. ASSUME NEW v \in Work, ReadyAtPasses(v) \/ Process(v) PROVE w \in leased'
  BY <1>5 DEF ReadyAtPasses, Process, Launch, SupervisorExits, CodexCloses, OrphanExits
<1>6. \A v \in Work : ~LeaseLapses(v)
  BY DEF LeaseLapses
<1>7. Crash \/ UNCHANGED vars => leased' = leased
  BY DEF Crash, vars
<1> QED
  BY <1>1, <1>2, <1>3, <1>4, <1>5, <1>6, <1>7 DEF Next

\* The steps that change where an executor is once it has started.
LEMMA StartedStep ==
    ASSUME TypeOK, [Next]_vars, NEW w \in Work, NEW k \in Tokens
    PROVE  /\ pc'[w][k] \in StartedSteps => pc[w][k] \in StartedSteps \/ StartTracked(w, k)
           /\ pc[w][k] \in StartedSteps =>
                 pc'[w][k] \in StartedSteps \/ Settle(w, k) \/ Crash \/ ~Started(w)
<1> DEFINE Stays == /\ pc'[w][k] \in StartedSteps => pc[w][k] \in StartedSteps
                    /\ pc[w][k] \in StartedSteps => pc'[w][k] \in StartedSteps
<1> USE DEF durableRun, durableEvaluation, claimVars, groupVars, volatile, bounds,
            durableUnchanged, processUnchanged
<1>1. ASSUME UNCHANGED pc PROVE Stays
  BY <1>1
<1>2. ASSUME NEW v \in Work, NEW j \in Tokens, NEW step, GoTo(v, j, step),
             step \in StartedSteps <=> pc[v][j] \in StartedSteps
      PROVE  Stays
  BY <1>2 DEF GoTo, TypeOK
<1>3. ASSUME NEW v \in Work, ClaimNext(v)
      PROVE  /\ pc'[w][k] \in StartedSteps => pc[w][k] \in StartedSteps
             /\ pc[w][k] \in StartedSteps => pc'[w][k] \in StartedSteps \/ ~Started(w)
  <2>1. ~Started(v)
    BY <1>3 DEF ClaimNext, FirstClaimable, Claimable, Unstarted
  <2>2. GoTo(v, fencingToken[v] + 1, "claimed")
    BY <1>3 DEF ClaimNext
  <2> QED
    BY <2>1, <2>2 DEF GoTo, TypeOK, StartedSteps
<1>4. ASSUME NEW v \in Work, NEW j \in Tokens, Executor(v, j)
      PROVE  Stays \/ StartTracked(w, k) \/ Settle(w, k)
  <2>1. ASSUME StartTracked(v, j) PROVE Stays \/ StartTracked(w, k)
    BY <2>1 DEF StartTracked, GoTo, TypeOK
  <2>2. ASSUME Settle(v, j) PROVE Stays \/ Settle(w, k)
    BY <2>2 DEF Settle, GoTo, TypeOK
  <2>3. ASSUME \/ BeginPreStartAttempt(v, j) \/ ReleaseClaim(v, j) \/ CheckoutPrepared(v, j)
               \/ \E error \in {"checkout", "definitive"} : CheckoutFails(v, j, error)
        PROVE  Stays
    <3>1. PICK step \in {"preparing", "idle", "prepared"} : GoTo(v, j, step)
      BY <2>3 DEF BeginPreStartAttempt, ReleaseClaim, CheckoutPrepared, CheckoutFails
    <3>2. pc[v][j] \in {"claimed", "preparing"}
      BY <2>3 DEF BeginPreStartAttempt, ReleaseClaim, CheckoutPrepared, CheckoutFails
    <3> QED
      BY <1>2, <3>1, <3>2 DEF StartedSteps
  <2>4. ASSUME \/ StartOverLimit(v, j) \/ StartClaimLost(v, j) \/ RecordRefusal(v, j)
               \/ PreparationFails(v, j)
        PROVE  Stays
    <3>1. PICK step \in {"refused", "idle"} : GoTo(v, j, step)
      BY <2>4 DEF StartOverLimit, StartClaimLost, RecordRefusal, PreparationFails
    <3>2. pc[v][j] \in {"prepared", "refused"}
      BY <2>4 DEF StartOverLimit, StartClaimLost, RecordRefusal, PreparationFails
    <3> QED
      BY <1>2, <3>1, <3>2 DEF StartedSteps
  <2>5. ASSUME \/ \E cause \in Endings : EndsWith(v, j, cause)
               \/ CloseChannel(v, j) \/ Terminate(v, j) \/ TerminationFails(v, j)
               \/ FinishProcessGroup(v, j)
        PROVE  Stays
    <3>1. PICK step \in StartedSteps : GoTo(v, j, step)
      BY <2>5 DEF EndsWith, CloseChannel, Terminate, TerminationFails, FinishProcessGroup,
                  AfterTermination, StartedSteps
    <3>2. pc[v][j] \in StartedSteps
      BY <2>5 DEF EndsWith, CloseChannel, Terminate, TerminationFails, FinishProcessGroup,
                  StartedSteps
    <3> QED
      BY <1>2, <3>1, <3>2
  <2>6. ASSUME NEW result \in Results, Submit(v, j, result) PROVE Stays
    BY <1>1, <2>6 DEF Submit
  <2> QED
    BY <1>4, <2>1, <2>2, <2>3, <2>4, <2>5, <2>6
    DEF Executor, Advance, Disturb, ObserveSubmission, ObserveCancellation, ObserveExit,
        DeadlineFires, ExecutionFails, Endings
<1>5. ASSUME Request PROVE UNCHANGED pc
  BY <1>5 DEF Request, Admit, CancelEvaluation, RetryPreStart, SetConcurrency
<1>6. ASSUME Recovery \/ ClaimNothing PROVE UNCHANGED pc
  BY <1>6 DEF Recovery, ClaimNothing, Restart, FinishRecovery, SignalTrackedGroup,
              PersistTerminationOutcome, RecoveryAborts
<1>7. Crash => pc'[w][k] \notin StartedSteps
  BY DEF Crash, StartedSteps
<1>8. ASSUME NEW v \in Work, ReadyAtPasses(v) \/ Process(v) \/ LeaseLapses(v)
      PROVE  UNCHANGED pc
  BY <1>8 DEF ReadyAtPasses, LeaseLapses, Process, Launch, SupervisorExits, CodexCloses,
              OrphanExits
<1>9. UNCHANGED vars => UNCHANGED pc
  BY DEF vars
<1> HIDE DEF Stays
<1>10. Stays => /\ pc'[w][k] \in StartedSteps => pc[w][k] \in StartedSteps
                /\ pc[w][k] \in StartedSteps => pc'[w][k] \in StartedSteps
  BY DEF Stays
<1>11. StartTracked(w, k) => pc[w][k] \notin StartedSteps
  BY DEF StartTracked, StartedSteps
<1>12. ASSUME Settle(w, k) PROVE pc'[w][k] \notin StartedSteps
  <2>1. GoTo(w, k, "idle")
    BY <1>12 DEF Settle
  <2> QED
    BY <2>1 DEF GoTo, StartedSteps, TypeOK
<1> QED
  BY <1>1, <1>3, <1>4, <1>5, <1>6, <1>7, <1>8, <1>9, <1>10, <1>11, <1>12 DEF Next, Worker

\* A run becomes running, and a group comes to life, only in startTracked.
LEMMA RunningStep ==
    ASSUME TypeOK, GroupInv, [Next]_vars, NEW w \in Work
    PROVE  /\ executionStatus'[w] = "running" =>
                 executionStatus[w] = "running" \/ \E k \in Tokens : StartTracked(w, k)
           /\ codex'[w] \in Alive => codex[w] \in Alive \/ \E k \in Tokens : StartTracked(w, k)
<1> USE DEF durableRun, durableEvaluation, claimVars, groupVars, volatile, bounds,
            durableUnchanged, processUnchanged
<1>1. executionStatus'[w] = "running" =>
         executionStatus[w] = "running" \/ \E k \in Tokens : StartTracked(w, k)
  <2> DEFINE Goal == executionStatus'[w] = "running" => executionStatus[w] = "running"
  <2>1. ASSUME Request PROVE Goal
    BY <2>1 DEF Request, Admit, CancelEvaluation, RetryPreStart, SetConcurrency
  <2>2. ASSUME Worker PROVE Goal
    BY <2>2 DEF Worker, ClaimNothing, ClaimNext
  <2>3. ASSUME Recovery PROVE Goal
    BY <2>3 DEF Recovery, Restart, FinishRecovery, SignalTrackedGroup, FailRuns,
                PersistTerminationOutcome, RecoveryAborts
  <2>4. ASSUME NEW v \in Work, NEW k \in Tokens, Executor(v, k)
        PROVE  Goal \/ StartTracked(w, k)
    <3>1. ASSUME StartTracked(v, k) PROVE Goal \/ StartTracked(w, k)
      BY <3>1 DEF StartTracked, TypeOK
    <3>2. ASSUME \/ BeginPreStartAttempt(v, k) \/ ReleaseClaim(v, k) \/ CheckoutPrepared(v, k)
                 \/ \E error \in {"checkout", "definitive"} : CheckoutFails(v, k, error)
                 \/ StartOverLimit(v, k) \/ StartClaimLost(v, k) \/ RecordRefusal(v, k)
                 \/ PreparationFails(v, k) \/ \E cause \in Endings : EndsWith(v, k, cause)
                 \/ Terminate(v, k) \/ TerminationFails(v, k) \/ FinishProcessGroup(v, k)
          PROVE  executionStatus' = executionStatus
      BY <3>2 DEF BeginPreStartAttempt, ReleaseClaim, CheckoutPrepared, CheckoutFails,
                  StartOverLimit, StartClaimLost, RecordRefusal, PreparationFails, EndsWith,
                  Terminate, TerminationFails, FinishProcessGroup
    <3>3. ASSUME \/ \E result \in Results : Submit(v, k, result)
                 \/ CloseChannel(v, k) \/ Settle(v, k)
          PROVE  Goal
      BY <3>3 DEF Submit, CloseChannel, Settle, FailRuns, TypeOK
    <3> QED
      BY <2>4, <3>1, <3>2, <3>3
      DEF Executor, Advance, Disturb, ObserveSubmission, ObserveCancellation, ObserveExit,
          DeadlineFires, ExecutionFails, Endings
  <2>5. ASSUME Crash \/ UNCHANGED vars PROVE Goal
    BY <2>5 DEF Crash, vars
  <2>6. ASSUME NEW v \in Work, ReadyAtPasses(v) \/ Process(v) \/ LeaseLapses(v) PROVE Goal
    BY <2>6 DEF ReadyAtPasses, LeaseLapses, Process, Launch, SupervisorExits, CodexCloses,
                OrphanExits
  <2> QED
    BY <2>1, <2>2, <2>3, <2>4, <2>5, <2>6 DEF Next
<1>2. codex'[w] \in Alive => codex[w] \in Alive \/ \E k \in Tokens : StartTracked(w, k)
  <2> USE DEF Alive
  <2>1. CASE RowsChange \/ FinishRecovery
    BY <2>1 DEF RowsChange, FinishRecovery
  <2>2. ASSUME NEW v \in Work, Process(v) \/ SignalTrackedGroup(v) \/ PersistTerminationOutcome(v)
        PROVE  codex'[w] \in Alive => codex[w] \in Alive
    BY <2>2 DEF Process, Launch, SupervisorExits, CodexCloses, OrphanExits, SignalTrackedGroup,
                PersistTerminationOutcome, TypeOK
  <2>3. ASSUME NEW v \in Work, NEW k \in Tokens, StartTracked(v, k), v # w
        PROVE  codex'[w] = codex[w]
    BY <2>3 DEF StartTracked, TypeOK
  <2>4. ASSUME NEW v \in Work, NEW k \in Tokens, Terminate(v, k) \/ FinishProcessGroup(v, k)
        PROVE  codex'[w] \in Alive => codex[w] \in Alive
    BY <2>4 DEF Terminate, FinishProcessGroup, TypeOK
  <2> QED
    BY <2>1, <2>2, <2>3, <2>4, GroupStep
<1> QED
  BY <1>1, <1>2

\* A started row stays, and stays started.
LEMMA StartedStays ==
    ASSUME TypeOK, [Next]_vars, NEW w \in queue, Started(w)
    PROVE  w \in queue' /\ Started(w)'
<1> USE DEF Started
<1>1. CASE RowsChange \/ FinishRecovery
  BY <1>1 DEF RowsChange, FinishRecovery
<1>2. ASSUME NEW v \in Work, Process(v) \/ SignalTrackedGroup(v) \/ PersistTerminationOutcome(v)
      PROVE  UNCHANGED <<queue, processGroup>>
  BY <1>2 DEF Process, Launch, SupervisorExits, CodexCloses, OrphanExits, SignalTrackedGroup,
              PersistTerminationOutcome, processUnchanged, groupVars, claimVars
<1>3. ASSUME NEW v \in Work, NEW k \in Tokens,
             StartTracked(v, k) \/ Terminate(v, k) \/ FinishProcessGroup(v, k)
      PROVE  w \in queue' /\ processGroup'[w] # "none"
  BY <1>3 DEF StartTracked, Terminate, FinishProcessGroup, groupVars, claimVars, TypeOK
<1> QED
  BY <1>1, <1>2, <1>3, GroupStep

\* Only the recovery brings the application up.
LEMMA ComesUp ==
    ASSUME [Next]_vars, application' = "up", application # "up"
    PROVE  FinishRecovery
<1> USE DEF durableRun, durableEvaluation, claimVars, groupVars, volatile, bounds,
            durableUnchanged, processUnchanged
<1>1. ~Request /\ ~Worker
  BY DEF Request, Admit, CancelEvaluation, RetryPreStart, SetConcurrency, Worker, ClaimNothing,
         ClaimNext
<1>2. Recovery => FinishRecovery
  BY DEF Recovery, Restart, SignalTrackedGroup, PersistTerminationOutcome, RecoveryAborts
<1>3. ASSUME NEW w \in Work, NEW k \in Tokens PROVE ~Executor(w, k)
  <2>1. ~ \/ BeginPreStartAttempt(w, k) \/ ReleaseClaim(w, k) \/ CheckoutPrepared(w, k)
          \/ \E error \in {"checkout", "definitive"} : CheckoutFails(w, k, error)
          \/ StartOverLimit(w, k) \/ StartClaimLost(w, k) \/ RecordRefusal(w, k)
          \/ PreparationFails(w, k) \/ StartTracked(w, k)
    BY DEF BeginPreStartAttempt, ReleaseClaim, CheckoutPrepared, CheckoutFails, StartOverLimit,
           StartClaimLost, RecordRefusal, PreparationFails, StartTracked
  <2>2. ~ \/ \E cause \in Endings : EndsWith(w, k, cause)
          \/ \E result \in Results : Submit(w, k, result)
          \/ CloseChannel(w, k) \/ Terminate(w, k) \/ TerminationFails(w, k)
          \/ FinishProcessGroup(w, k) \/ Settle(w, k)
    BY DEF EndsWith, Submit, CloseChannel, Terminate, TerminationFails, FinishProcessGroup,
       Settle
  <2> QED
    BY <2>1, <2>2
    DEF Executor, Advance, Disturb, ObserveSubmission, ObserveCancellation, ObserveExit,
        DeadlineFires, ExecutionFails, Endings
<1>4. ASSUME NEW w \in Work PROVE ~ReadyAtPasses(w) /\ ~Process(w) /\ ~LeaseLapses(w)
  BY DEF ReadyAtPasses, Process, Launch, SupervisorExits, CodexCloses, OrphanExits, LeaseLapses
<1>5. ~Crash /\ ~UNCHANGED vars
  BY DEF Crash, vars
<1> QED
  BY <1>1, <1>2, <1>3, <1>4, <1>5 DEF Next

\* Every step keeps running runs and live groups attended.
LEMMA AttendNext ==
    ASSUME TypeOK, OnlyNewestClaimExecutes, GroupInv, LiveInv, AttendInv,
           ~StallMayHappen, [Next]_vars
    PROVE  AttendInv'
<1>1. RunningIsStarted'
  <2> SUFFICES ASSUME NEW w \in Work, executionStatus'[w] = "running"
               PROVE  w \in queue' /\ Started(w)'
    BY DEF RunningIsStarted, Started
  <2>1. CASE executionStatus[w] = "running"
    BY <2>1, StartedStays DEF AttendInv, RunningIsStarted
  <2>2. ASSUME NEW k \in Tokens, StartTracked(w, k) PROVE w \in queue' /\ Started(w)'
    BY <2>2 DEF StartTracked, HoldsUnstarted, Holds, Started, TypeOK
  <2> QED
    BY <2>1, <2>2, RunningStep
<1>2. ExecutingIsLeased'
  <2> SUFFICES ASSUME NEW w \in Work, NEW k \in Tokens, pc'[w][k] \in StartedSteps
               PROVE  w \in leased'
    BY DEF ExecutingIsLeased
  <2>1. CASE pc[w][k] \in StartedSteps
    BY <2>1, LeasesHeld DEF AttendInv, ExecutingIsLeased, OnlyNewestClaimExecutes
  <2>2. CASE StartTracked(w, k)
    BY <2>2 DEF StartTracked, HoldsUnstarted, Holds
  <2> QED
    BY <2>1, <2>2, StartedStep
<1>3. EveryExecutionIsAttended'
  <2> SUFFICES ASSUME application' = "up", NEW w \in Work,
                      executionStatus'[w] = "running" \/ codex'[w] \in Alive
               PROVE  \E k \in Tokens : pc'[w][k] \in StartedSteps
    BY DEF EveryExecutionIsAttended, Alive, StartedSteps
  <2>1. ASSUME NEW k \in Tokens, StartTracked(w, k) PROVE pc'[w][k] \in StartedSteps
    BY <2>1 DEF StartTracked, GoTo, StartedSteps, TypeOK
  <2>2. CASE /\ executionStatus[w] = "running" \/ codex[w] \in Alive
             /\ application # "up"
    <3>1. FinishRecovery
      BY <2>2, ComesUp
    <3>2. executionStatus[w] # "running"
      <4>1. executionStatus[w] = "running" => w \in Running
        BY DEF AttendInv, RunningIsStarted, Running
      <4>2. w \in Running => executionStatus'[w] = "failed" /\ codex'[w] = codex[w]
        BY <3>1 DEF FinishRecovery, FailRuns
      <4>3. executionStatus[w] = "running" => codex[w] \in Alive
        BY <4>1, <4>2
      <4>4. codex[w] \in Alive => FALSE
        BY <3>1 DEF FinishRecovery, LiveInv, LiveGroupIsOnRecord
      <4> QED
        BY <4>3, <4>4
    <3> QED
      BY <2>2, <3>1, <3>2 DEF FinishRecovery, LiveInv, LiveGroupIsOnRecord
  <2>3. CASE /\ executionStatus[w] = "running" \/ codex[w] \in Alive
             /\ application = "up"
    <3>1. PICK k \in Tokens : pc[w][k] \in StartedSteps
      BY <2>3 DEF AttendInv, EveryExecutionIsAttended
    <3>2. w \in queue /\ Started(w) /\ fencingToken[w] = k /\ w \in leased
      BY <3>1 DEF OnlyNewestClaimExecutes, AttendInv, ExecutingIsLeased
    <3>3. ~Crash
      BY DEF Crash
    <3>4. ASSUME Settle(w, k) PROVE FALSE
      <4>1. codex'[w] \notin Alive
        BY <3>4 DEF Settle, LiveInv, FinishingIsGone, Alive
      <4>2. CASE executionStatus[w] = "running"
        BY <3>2, <3>4, <4>1, <4>2 DEF Settle, Authoritative, Holds, FailRuns
      <4>3. CASE executionStatus[w] # "running"
        BY <3>4, <4>1, <4>3 DEF Settle, Authoritative
      <4> QED
        BY <4>2, <4>3
    <3> QED
      BY <3>1, <3>2, <3>3, <3>4, StartedStep
  <2> QED
    BY <2>1, <2>2, <2>3, RunningStep
<1> QED
  BY <1>1, <1>2, <1>3 DEF AttendInv

\* While signals reach their groups and no lease lapses, no run is left
\* running and no group alive without an executor that will end it.  (A
\* stalled process does leave such runs, which is why the hypotheses are
\* needed.)
THEOREM EveryExecutionAttended ==
    ASSUME ~TerminationMayFail, ~StallMayHappen
    PROVE  Spec => []EveryExecutionIsAttended
<1>1. Init => AttendInv
  BY DEF Init, AttendInv, RunningIsStarted, ExecutingIsLeased, EveryExecutionIsAttended,
         StartedSteps
<1>2. Init => LiveInv
  BY DEF Init, LiveInv, FinishingIsGone, LiveGroupIsOnRecord, Alive
<1>3. (TypeOK /\ OnlyNewestClaimExecutes /\ GroupInv) /\ LiveInv /\ [Next]_vars => LiveInv'
  BY LiveNext
<1>4. (TypeOK /\ OnlyNewestClaimExecutes /\ GroupInv /\ LiveInv) /\ AttendInv /\ [Next]_vars
        => AttendInv'
  BY AttendNext
<1>5. Spec => []AttendInv
  BY <1>1, <1>2, <1>3, <1>4, TypeCorrect, FencingCorrect, GroupCorrect, PTL DEF Spec
<1> QED
  BY <1>5, PTL DEF AttendInv

-----------------------------------------------------------------------------
(***************************************************************************)
(* What Without keeps.  The rank of a kept position, the number of kept    *)
(* positions up to it, grows with the position; so it takes every value    *)
(* from 1 to the number of kept positions, and Without's CHOOSE finds one. *)
(***************************************************************************)
\* The positions whose rows stay, and how many of them there are up to i.
Kept(line, S) == {i \in DOMAIN line : line[i] \notin S}
Rank(line, S, i) == Cardinality(Kept(line, S) \cap 1 .. i)

\* Every number up to that of the kept positions is the rank of one.
LEMMA RankIsOnto ==
    ASSUME NEW T, NEW line \in Seq(T), NEW S
    PROVE  /\ IsFiniteSet(Kept(line, S)) /\ Cardinality(Kept(line, S)) \in Nat
           /\ \A i, j \in Kept(line, S) : Rank(line, S, i) = Rank(line, S, j) => i = j
           /\ \A n \in 1 .. Cardinality(Kept(line, S)) :
                 \E i \in Kept(line, S) : Rank(line, S, i) = n
<1> DEFINE K == Kept(line, S)
           rank == [i \in K |-> Rank(line, S, i)]
<1>1. K \subseteq 1 .. Len(line) /\ Len(line) \in Nat
  BY DEF Kept
<1>2. IsFiniteSet(K) /\ Cardinality(K) \in Nat
  <2>1. IsFiniteSet(1 .. Len(line))
    BY <1>1, FS_Interval
  <2>2. IsFiniteSet(K)
    BY <1>1, <2>1, FS_Subset
  <2> QED
    BY <2>2, FS_CardinalityType
<1>3. ASSUME NEW i \in K
      PROVE  /\ IsFiniteSet(K \cap 1 .. i) /\ Rank(line, S, i) \in 1 .. Cardinality(K)
  <2>1. IsFiniteSet(K \cap 1 .. i) /\ Cardinality(K \cap 1 .. i) <= Cardinality(K)
    BY <1>2, FS_Subset
  <2>2. i \in K \cap 1 .. i
    BY <1>1
  <2>3. Cardinality(K \cap 1 .. i) # 0 /\ Cardinality(K \cap 1 .. i) \in Nat
    BY <2>1, <2>2, FS_EmptySet, FS_CardinalityType
  <2> QED
    BY <1>2, <2>1, <2>3 DEF Rank
<1>4. ASSUME NEW i \in K, NEW j \in K, i < j
      PROVE  Rank(line, S, i) # Rank(line, S, j)
  <2>1. (K \cap 1 .. i) \in SUBSET (K \cap 1 .. j)
    BY <1>1, <1>4
  <2>2. j \in K \cap 1 .. j /\ j \notin K \cap 1 .. i
    BY <1>1, <1>4
  <2>3. IsFiniteSet(K \cap 1 .. j)
    BY <1>3
  <2>4. Cardinality(K \cap 1 .. j) = Cardinality(K \cap 1 .. i) => K \cap 1 .. j = K \cap 1 .. i
    BY <2>1, <2>3, FS_Subset
  <2> QED
    BY <2>2, <2>4 DEF Rank
<1>5. \A i, j \in K : Rank(line, S, i) = Rank(line, S, j) => i = j
  <2>1. \A i, j \in K : i < j \/ j < i \/ i = j
    BY <1>1
  <2> QED
    BY <1>4, <2>1
<1>6. rank \in Injection(K, 1 .. Cardinality(K))
  <2>1. rank \in [K -> 1 .. Cardinality(K)]
    BY <1>3
  <2>2. \A i, j \in K : rank[i] = rank[j] => i = j
    BY <1>5
  <2> HIDE DEF rank, K
  <2> QED
    BY <2>1, <2>2, Fun_IsInj
<1>7. /\ IsFiniteSet(1 .. Cardinality(K))
      /\ Cardinality(K) = Cardinality(1 .. Cardinality(K))
  BY <1>2, FS_Interval
<1>8. rank \in Surjection(K, 1 .. Cardinality(K))
  <2> HIDE DEF rank, K
  <2> QED
    BY <1>6, <1>7, FS_Injection
<1>9. \A n \in 1 .. Cardinality(K) : \E i \in K : rank[i] = n
  <2> HIDE DEF rank, K
  <2> QED
    BY <1>8, Fun_SurjectionProperties
<1> QED
  BY <1>2, <1>5, <1>9

\* Without leaves the rows outside S, each of them as often as before.
LEMMA WithoutKeeps ==
    ASSUME NEW T, NEW line \in Seq(T), NEW S
    PROVE  /\ Without(line, S) \in Seq(T \ S)
           /\ (\A i, j \in DOMAIN line : line[i] = line[j] => i = j)
                => \A i, j \in DOMAIN Without(line, S) :
                       Without(line, S)[i] = Without(line, S)[j] => i = j
<1> DEFINE K == Kept(line, S)
           Position(n) == CHOOSE i \in K : Cardinality(K \cap 1 .. i) = n
           kept == [n \in 1 .. Cardinality(K) |-> line[Position(n)]]
<1>1. Without(line, S) = kept
  BY DEF Without, Kept
<1>2. \A n \in 1 .. Cardinality(K) : Position(n) \in K /\ Rank(line, S, Position(n)) = n
  <2>1. ASSUME NEW n \in 1 .. Cardinality(K)
        PROVE  \E i \in K : Cardinality(K \cap 1 .. i) = n
    BY RankIsOnto DEF Rank
  <2> QED
    BY <2>1 DEF Rank
<1>3. Cardinality(K) \in Nat
  BY RankIsOnto
<1>4. \A i \in K : i \in DOMAIN line /\ line[i] \in T \ S
  BY DEF Kept
<1> HIDE DEF Position, K
<1>5. kept \in Seq(T \ S)
  <2>1. kept \in [1 .. Cardinality(K) -> T \ S]
    BY <1>2, <1>4
  <2> QED
    BY <1>3, <2>1
<1>6. ASSUME \A i, j \in DOMAIN line : line[i] = line[j] => i = j,
             NEW m \in DOMAIN kept, NEW n \in DOMAIN kept, kept[m] = kept[n]
      PROVE  m = n
  <2>1. line[Position(m)] = line[Position(n)]
    BY <1>6
  <2>2. Position(m) = Position(n)
    BY <1>2, <1>4, <1>6, <2>1
  <2> QED
    BY <1>2, <2>2
<1> QED
  BY <1>1, <1>5, <1>6

\* The rows that may stand on the line of ready work.
Lineable == Unstarted \ exhausted

\* The three ways the line of ready work changes.
LEMMA LineStays ==
    ASSUME ReadyLineOK, UNCHANGED readyLine, Lineable \subseteq Lineable'
    PROVE  ReadyLineOK'
BY DEF ReadyLineOK, Lineable

\* Rows leave it.
LEMMA LineLoses ==
    ASSUME ReadyLineOK, NEW S, readyLine' = Without(readyLine, S), Lineable \ S \subseteq Lineable'
    PROVE  ReadyLineOK'
<1>1. /\ Without(readyLine, S) \in Seq(Lineable \ S)
      /\ \A i, j \in DOMAIN Without(readyLine, S) :
             Without(readyLine, S)[i] = Without(readyLine, S)[j] => i = j
  BY WithoutKeeps DEF ReadyLineOK, Lineable
<1>2. /\ readyLine' \in Seq(Lineable \ S)
      /\ \A i, j \in DOMAIN readyLine' : readyLine'[i] = readyLine'[j] => i = j
  BY <1>1
<1>3. readyLine' \in Seq(Lineable')
  BY <1>2
<1> QED
  BY <1>2, <1>3 DEF ReadyLineOK, Lineable

\* The rows of an arrangement are on it once.
LEMMA ArrangementIsDistinct ==
    ASSUME NEW S, IsFiniteSet(S), NEW line \in Arrangements(S)
    PROVE  /\ line \in Seq(S)
           /\ \A i, j \in DOMAIN line : line[i] = line[j] => i = j
<1>1. Cardinality(S) \in Nat
  BY FS_CardinalityType
<1>2. line \in Surjection(1 .. Cardinality(S), S)
  <2>1. line \in [1 .. Cardinality(S) -> S] /\ \A w \in S : \E i \in 1 .. Cardinality(S) : line[i] = w
    BY DEF Arrangements
  <2> QED
    BY <2>1, Fun_IsSurj
<1>3. IsFiniteSet(1 .. Cardinality(S)) /\ Cardinality(1 .. Cardinality(S)) = Cardinality(S)
  BY <1>1, FS_Interval
<1>4. line \in Injection(1 .. Cardinality(S), S)
  BY <1>2, <1>3, FS_SurjSameCardinalityImpliesInj
<1>5. \A i, j \in 1 .. Cardinality(S) : line[i] = line[j] => i = j
  BY <1>4, Fun_InjectionProperties
<1> QED
  BY <1>1, <1>5 DEF Arrangements

\* Rows that were not on it join at its end.
LEMMA LineGrows ==
    ASSUME ReadyLineOK, NEW S, NEW line \in Seq(S), readyLine' = readyLine \o line,
           \A i, j \in DOMAIN line : line[i] = line[j] => i = j,
           S \cap Lineable = {}, Lineable \cup S \subseteq Lineable'
    PROVE  ReadyLineOK'
<1>1. readyLine \in Seq(Lineable') /\ line \in Seq(Lineable')
  BY DEF ReadyLineOK, Lineable
<1>2. readyLine' \in Seq(Lineable')
  BY <1>1
<1>3. /\ Len(readyLine) \in Nat /\ Len(line) \in Nat
      /\ \A i \in 1 .. Len(readyLine) : readyLine'[i] = readyLine[i] /\ readyLine[i] \in Lineable
      /\ \A i \in Len(readyLine) + 1 .. Len(readyLine) + Len(line) :
             readyLine'[i] = line[i - Len(readyLine)] /\ readyLine'[i] \in S
      /\ DOMAIN readyLine' = 1 .. Len(readyLine) + Len(line)
  BY <1>1 DEF ReadyLineOK, Lineable
<1>4. ASSUME NEW i \in DOMAIN readyLine', NEW j \in DOMAIN readyLine',
             readyLine'[i] = readyLine'[j]
      PROVE  i = j
  <2>1. CASE i \in 1 .. Len(readyLine) /\ j \in 1 .. Len(readyLine)
    BY <1>3, <1>4, <2>1 DEF ReadyLineOK
  <2>2. CASE i \in 1 .. Len(readyLine) /\ j \notin 1 .. Len(readyLine)
    BY <1>3, <1>4, <2>2
  <2>3. CASE i \notin 1 .. Len(readyLine) /\ j \in 1 .. Len(readyLine)
    BY <1>3, <1>4, <2>3
  <2>4. CASE i \notin 1 .. Len(readyLine) /\ j \notin 1 .. Len(readyLine)
    <3>1. /\ i - Len(readyLine) \in DOMAIN line /\ j - Len(readyLine) \in DOMAIN line
          /\ line[i - Len(readyLine)] = line[j - Len(readyLine)]
      BY <1>3, <1>4, <2>4
    <3> QED
      BY <1>3, <1>4, <3>1
  <2> QED
    BY <2>1, <2>2, <2>3, <2>4
<1> QED
  BY <1>2, <1>4 DEF ReadyLineOK, Lineable

\* What a transaction that records failures does to the line.
LEMMA LineAppendFailures ==
    ASSUME ReadyLineOK, NEW S, NEW error, AppendFailures(S, error), UNCHANGED Unstarted
    PROVE  ReadyLineOK'
<1>1. readyLine' = Without(readyLine, S) /\ exhausted' \subseteq exhausted \cup S
  BY DEF AppendFailures
<1>2. Lineable \ S \subseteq Lineable'
  BY <1>1 DEF Lineable
<1> QED
  BY <1>1, <1>2, LineLoses

\* Which rows are unstarted depends on the rows and their groups only.
LEMMA UnstartedUnchanged ==
    ASSUME UNCHANGED <<queue, processGroup>>
    PROVE  UNCHANGED Unstarted
BY DEF Unstarted, Started

\* Admission and retry append their rows, cancellation removes its own.
LEMMA LineRequest ==
    ASSUME TypeOK, ClaimsInv, ReadyLineOK, Request
    PROVE  ReadyLineOK'
<1> USE DEF groupVars
<1>1. ASSUME NEW e \in Evaluations, Admit(e) PROVE ReadyLineOK'
  <2>1. PICK line \in Arrangements(RunsOf(e)) : readyLine' = readyLine \o line
    BY <1>1 DEF Admit
  <2>2. /\ queue' = queue \cup RunsOf(e) /\ UNCHANGED <<processGroup, exhausted>>
        /\ evaluation[e] = "absent"
    BY <1>1 DEF Admit
  <2>3. \A w \in RunsOf(e) : w \notin queue /\ ~Started(w)
    BY <2>2 DEF ClaimsInv, UnadmittedIsFresh, RunsOf
  <2>4. Lineable \cup RunsOf(e) \subseteq Lineable' /\ RunsOf(e) \cap Lineable = {}
    BY <2>2, <2>3 DEF Lineable, Unstarted, Started, TypeOK
  <2>5. IsFiniteSet(RunsOf(e))
    BY WorkAssumption, FS_Subset DEF RunsOf
  <2> QED
    BY <2>1, <2>4, <2>5, ArrangementIsDistinct, LineGrows
<1>2. ASSUME NEW e \in Evaluations, CancelEvaluation(e) PROVE ReadyLineOK'
  <2> DEFINE removed == {w \in RunsOf(e) : /\ executionStatus[w] \in Nonterminal
                                           /\ executionStatus[w] = "queued" /\ ~Started(w)}
  <2>1. /\ queue' = queue \ removed /\ exhausted' = exhausted \ removed
        /\ readyLine' = Without(readyLine, removed) /\ UNCHANGED processGroup
    <3>1. {w \in {w \in RunsOf(e) : executionStatus[w] \in Nonterminal} :
              executionStatus[w] = "queued" /\ ~Started(w)} = removed
      OBVIOUS
    <3> QED
      BY <1>2, <3>1 DEF CancelEvaluation
  <2> HIDE DEF removed
  <2>2. Lineable \ removed \subseteq Lineable'
    BY <2>1 DEF Lineable, Unstarted, Started
  <2> QED
    BY <2>1, <2>2, LineLoses
<1>3. ASSUME NEW e \in Evaluations, RetryPreStart(e) PROVE ReadyLineOK'
  <2> DEFINE retried == {w \in RunsOf(e) \cap Unstarted :
                            w \in exhausted /\ executionStatus[w] = "queued"}
  <2>1. PICK line \in Arrangements(retried) : readyLine' = readyLine \o line
    BY <1>3 DEF RetryPreStart
  <2>2. exhausted' = exhausted \ retried /\ UNCHANGED <<queue, processGroup>>
    BY <1>3 DEF RetryPreStart
  <2>3. Lineable \cup retried \subseteq Lineable' /\ retried \cap Lineable = {}
    BY <2>2 DEF Lineable, Unstarted, Started
  <2>4. retried \in SUBSET Work
    BY DEF RunsOf
  <2>5. IsFiniteSet(retried)
    BY <2>4, WorkAssumption, FS_Subset
  <2> HIDE DEF retried
  <2> QED
    BY <2>1, <2>3, <2>5, ArrangementIsDistinct, LineGrows
<1>4. ASSUME NEW n, SetConcurrency(n) PROVE ReadyLineOK'
  BY <1>4, LineStays DEF SetConcurrency, claimVars, Lineable, Unstarted, Started
<1> QED
  BY <1>1, <1>2, <1>3, <1>4 DEF Request

\* An executor takes its row off the line by a failure or by the start.
LEMMA LineExecutor ==
    ASSUME TypeOK, ReadyLineOK, NEW w \in Work, NEW k \in Tokens, Executor(w, k)
    PROVE  ReadyLineOK'
<1> USE DEF durableRun, durableEvaluation, claimVars, groupVars, volatile, bounds
<1>1. ASSUME NEW error, CheckoutFails(w, k, error) \/ (RecordRefusal(w, k) /\ error = "definitive")
      PROVE  ReadyLineOK'
  <2>1. RecordPreStartFailure(w, k, error) /\ UNCHANGED <<queue, processGroup>>
    BY <1>1 DEF CheckoutFails, RecordRefusal
  <2>2. CASE HoldsUnstarted(w, k)
    BY <2>1, <2>2, UnstartedUnchanged, LineAppendFailures DEF RecordPreStartFailure
  <2>3. CASE ~HoldsUnstarted(w, k)
    BY <2>1, <2>3, LineStays DEF RecordPreStartFailure, Lineable, Unstarted, Started
  <2> QED
    BY <2>2, <2>3
<1>2. CASE StartTracked(w, k)
  <2>1. /\ processGroup' = [processGroup EXCEPT ![w] = "tracked"]
        /\ readyLine' = Without(readyLine, {w}) /\ UNCHANGED <<queue, exhausted>>
    BY <1>2 DEF StartTracked
  <2>2. Lineable \ {w} \subseteq Lineable'
    BY <2>1 DEF Lineable, Unstarted, Started, TypeOK
  <2> QED
    BY <2>1, <2>2, LineLoses
<1>3. CASE FinishProcessGroup(w, k)
  <2>1. UNCHANGED <<queue, exhausted, readyLine>>
    BY <1>3 DEF FinishProcessGroup
  <2>2. \A v \in Work : processGroup[v] = "none" => processGroup'[v] = "none"
    BY <1>3 DEF FinishProcessGroup, TypeOK
  <2>3. Lineable \subseteq Lineable'
    BY <2>1, <2>2 DEF Lineable, Unstarted, Started, TypeOK
  <2> QED
    BY <2>1, <2>3, LineStays
<1>4. ASSUME UNCHANGED <<queue, processGroup, exhausted, readyLine>> PROVE ReadyLineOK'
  BY <1>4, LineStays DEF Lineable, Unstarted, Started
<1>5. ASSUME \/ BeginPreStartAttempt(w, k) \/ ReleaseClaim(w, k) \/ CheckoutPrepared(w, k)
             \/ StartOverLimit(w, k) \/ StartClaimLost(w, k) \/ PreparationFails(w, k)
             \/ \E cause \in Endings : EndsWith(w, k, cause)
             \/ \E result \in Results : Submit(w, k, result)
             \/ CloseChannel(w, k) \/ Terminate(w, k) \/ TerminationFails(w, k) \/ Settle(w, k)
      PROVE  UNCHANGED <<queue, processGroup, exhausted, readyLine>>
  BY <1>5 DEF BeginPreStartAttempt, ReleaseClaim, CheckoutPrepared, StartOverLimit,
      StartClaimLost, PreparationFails, EndsWith, Submit, CloseChannel, Terminate,
      TerminationFails, Settle
<1> QED
  BY <1>1, <1>2, <1>3, <1>4, <1>5
  DEF Executor, Advance, Disturb, ObserveSubmission, ObserveCancellation, ObserveExit,
      DeadlineFires, ExecutionFails, Endings

\* Every step keeps the line a line of distinct rows that may be claimed.
LEMMA LineNext ==
    ASSUME TypeOK, ClaimsInv, ReadyLineOK, [Next]_vars
    PROVE  ReadyLineOK'
<1> USE DEF durableRun, durableEvaluation, claimVars, groupVars, volatile, bounds,
            durableUnchanged, processUnchanged
<1>1. ASSUME UNCHANGED <<queue, processGroup, exhausted, readyLine>> PROVE ReadyLineOK'
  BY <1>1, LineStays DEF Lineable, Unstarted, Started
<1>2. ASSUME NEW w \in Work, ReadyAtPasses(w) PROVE ReadyLineOK'
  <2>1. /\ w \in Lineable /\ ~InReadyLine(w) /\ readyLine' = Append(readyLine, w)
        /\ Lineable' = Lineable
    BY <1>2 DEF ReadyAtPasses, Lineable, Unstarted, Started
  <2>2. readyLine \in Seq(Lineable)
    BY DEF ReadyLineOK, Lineable
  <2>3. /\ readyLine' \in Seq(Lineable')
        /\ DOMAIN readyLine' = 1 .. Len(readyLine) + 1 /\ Len(readyLine) \in Nat
        /\ \A i \in 1 .. Len(readyLine) : readyLine'[i] = readyLine[i] /\ readyLine[i] # w
        /\ readyLine'[Len(readyLine) + 1] = w
    BY <2>1, <2>2 DEF InReadyLine
  <2>4. \A i, j \in DOMAIN readyLine' : readyLine'[i] = readyLine'[j] => i = j
    BY <2>3 DEF ReadyLineOK
  <2> QED
    BY <2>3, <2>4 DEF ReadyLineOK, Lineable
<1>3. ASSUME Worker PROVE ReadyLineOK'
  <2>1. RecoverInterruptedAttempts /\ UNCHANGED <<queue, processGroup>>
    BY <1>3 DEF Worker, ClaimNothing, ClaimNext
  <2> QED
    BY <2>1, UnstartedUnchanged, LineAppendFailures DEF RecoverInterruptedAttempts
<1>4. CASE FinishRecovery
  <2>1. \E S : AppendFailures(S, "interrupted")
    BY <1>4 DEF FinishRecovery
  <2>2. UNCHANGED <<queue, processGroup>>
    BY <1>4 DEF FinishRecovery
  <2> QED
    BY <2>1, <2>2, UnstartedUnchanged, LineAppendFailures
<1>5. ASSUME NEW w \in Work,
             \/ Process(w) \/ LeaseLapses(w) \/ SignalTrackedGroup(w)
             \/ PersistTerminationOutcome(w) \/ RecoveryAborts(w)
      PROVE  ReadyLineOK'
  BY <1>1, <1>5 DEF Process, Launch, SupervisorExits, CodexCloses, OrphanExits, LeaseLapses,
      SignalTrackedGroup, PersistTerminationOutcome, RecoveryAborts
<1>6. Crash \/ Restart \/ UNCHANGED vars => ReadyLineOK'
  BY <1>1 DEF Crash, Restart, vars
<1> QED
  BY <1>2, <1>3, <1>4, <1>5, <1>6, LineRequest, LineExecutor DEF Next, Recovery

\* Only admission adds an unstarted row.
LEMMA UnstartedStep ==
    ASSUME TypeOK, [Next]_vars
    PROVE  Unstarted' \subseteq Unstarted \/ \E e \in Evaluations : Admit(e)
<1>1. ASSUME queue' \subseteq queue,
             \A w \in Work : processGroup'[w] = "none" => processGroup[w] = "none"
      PROVE  Unstarted' \subseteq Unstarted
  BY <1>1 DEF Unstarted, Started, TypeOK
<1> USE DEF durableRun, durableEvaluation, claimVars, groupVars, volatile, bounds,
            durableUnchanged, processUnchanged
<1>2. ASSUME Request PROVE Unstarted' \subseteq Unstarted \/ \E e \in Evaluations : Admit(e)
  <2>1. ASSUME NEW e \in Evaluations, CancelEvaluation(e) \/ RetryPreStart(e)
        PROVE  Unstarted' \subseteq Unstarted
    BY <1>1, <2>1 DEF CancelEvaluation, RetryPreStart
  <2>2. ASSUME NEW n, SetConcurrency(n) PROVE Unstarted' \subseteq Unstarted
    BY <1>1, <2>2 DEF SetConcurrency
  <2> QED
    BY <1>2, <2>1, <2>2 DEF Request
<1>3. ASSUME Worker PROVE Unstarted' \subseteq Unstarted
  BY <1>1, <1>3 DEF Worker, ClaimNothing, ClaimNext
<1>4. ASSUME Recovery \/ Crash \/ UNCHANGED vars PROVE Unstarted' \subseteq Unstarted
  BY <1>1, <1>4 DEF Recovery, Restart, FinishRecovery, SignalTrackedGroup,
      PersistTerminationOutcome, RecoveryAborts, Crash, vars
<1>5. ASSUME NEW w \in Work, ReadyAtPasses(w) \/ Process(w) \/ LeaseLapses(w)
      PROVE  Unstarted' \subseteq Unstarted
  BY <1>1, <1>5 DEF ReadyAtPasses, LeaseLapses, Process, Launch, SupervisorExits, CodexCloses,
      OrphanExits
<1>6. ASSUME NEW w \in Work, NEW k \in Tokens, Executor(w, k) PROVE Unstarted' \subseteq Unstarted
  <2>1. ASSUME StartTracked(w, k) \/ FinishProcessGroup(w, k) PROVE Unstarted' \subseteq Unstarted
    BY <1>1, <2>1 DEF StartTracked, FinishProcessGroup, TypeOK
  <2>2. ASSUME \/ BeginPreStartAttempt(w, k) \/ ReleaseClaim(w, k) \/ CheckoutPrepared(w, k)
               \/ \E error \in {"checkout", "definitive"} : CheckoutFails(w, k, error)
               \/ StartOverLimit(w, k) \/ StartClaimLost(w, k) \/ RecordRefusal(w, k)
               \/ PreparationFails(w, k)
        PROVE  UNCHANGED <<queue, processGroup>>
    BY <2>2 DEF BeginPreStartAttempt, ReleaseClaim, CheckoutPrepared, CheckoutFails,
                StartOverLimit, StartClaimLost, RecordRefusal, PreparationFails
  <2>3. ASSUME \/ \E cause \in Endings : EndsWith(w, k, cause)
               \/ \E result \in Results : Submit(w, k, result)
               \/ CloseChannel(w, k) \/ Terminate(w, k) \/ TerminationFails(w, k) \/ Settle(w, k)
        PROVE  UNCHANGED <<queue, processGroup>>
    BY <2>3 DEF EndsWith, Submit, CloseChannel, Terminate, TerminationFails, Settle
  <2> QED
    BY <1>1, <1>6, <2>1, <2>2, <2>3
    DEF Executor, Advance, Disturb, ObserveSubmission, ObserveCancellation, ObserveExit,
        DeadlineFires, ExecutionFails, Endings
<1> QED
  BY <1>2, <1>3, <1>4, <1>5, <1>6 DEF Next

\* Admission adds no more rows than fit.
LEMMA CapacityNext ==
    ASSUME TypeOK, ClaimsInv, QueueWithinCapacity, [Next]_vars
    PROVE  QueueWithinCapacity'
<1>1. IsFiniteSet(Unstarted) /\ Cardinality(Unstarted) \in Nat
  <2>1. Unstarted \in SUBSET Work
    BY DEF Unstarted, TypeOK
  <2>2. IsFiniteSet(Unstarted)
    BY <2>1, WorkAssumption, FS_Subset
  <2> QED
    BY <2>2, FS_CardinalityType
<1>2. CASE Unstarted' \subseteq Unstarted
  <2>1. IsFiniteSet(Unstarted') /\ Cardinality(Unstarted') <= Cardinality(Unstarted)
    BY <1>1, <1>2, FS_Subset
  <2>2. Cardinality(Unstarted') \in Nat
    BY <2>1, FS_CardinalityType
  <2> QED
    BY <1>1, <2>1, <2>2, CapacityAssumption DEF QueueWithinCapacity
<1>3. ASSUME NEW e \in Evaluations, Admit(e) PROVE QueueWithinCapacity'
  <2>1. /\ queue' = queue \cup RunsOf(e) /\ UNCHANGED processGroup
        /\ Cardinality(Unstarted) + Cardinality(RunsOf(e)) <= Capacity
        /\ evaluation[e] = "absent"
    BY <1>3 DEF Admit, FitsCapacity, groupVars
  <2>2. \A w \in RunsOf(e) : w \notin queue /\ ~Started(w)
    BY <2>1 DEF ClaimsInv, UnadmittedIsFresh, RunsOf
  <2>3. Unstarted' = Unstarted \cup RunsOf(e) /\ Unstarted \cap RunsOf(e) = {}
    BY <2>1, <2>2 DEF Unstarted, Started
  <2>4. IsFiniteSet(RunsOf(e)) /\ Cardinality(RunsOf(e)) \in Nat
    <3>1. IsFiniteSet(RunsOf(e))
      BY WorkAssumption, FS_Subset DEF RunsOf
    <3> QED
      BY <3>1, FS_CardinalityType
  <2>5. Cardinality(Unstarted \cup RunsOf(e))
          = Cardinality(Unstarted) + Cardinality(RunsOf(e)) - Cardinality(Unstarted \cap RunsOf(e))
    BY <1>1, <2>4, FS_Union
  <2>6. Cardinality(Unstarted \cap RunsOf(e)) = 0
    BY <2>3, FS_EmptySet
  <2> QED
    BY <1>1, <2>1, <2>3, <2>4, <2>5, <2>6, CapacityAssumption DEF QueueWithinCapacity
<1> QED
  BY <1>2, <1>3, UnstartedStep

\* The queue never exceeds its capacity and no row stands in line twice, or
\* exhausted, or started, for every capacity and every order of arrivals.
THEOREM QueueInOrder == Spec => []QueueIsInOrder
<1>1. Init => ReadyLineOK /\ QueueWithinCapacity
  <2> SUFFICES ASSUME Init PROVE ReadyLineOK /\ QueueWithinCapacity
    OBVIOUS
  <2>1. Unstarted = {} /\ readyLine = <<>>
    BY DEF Init, Unstarted
  <2> QED
    BY <2>1, FS_EmptySet, CapacityAssumption DEF ReadyLineOK, QueueWithinCapacity
<1>2. (TypeOK /\ ClaimsInv) /\ (ReadyLineOK /\ QueueWithinCapacity) /\ [Next]_vars
        => (ReadyLineOK /\ QueueWithinCapacity)'
  BY LineNext, CapacityNext
<1>3. Spec => [](ReadyLineOK /\ QueueWithinCapacity)
  BY <1>1, <1>2, TypeCorrect, ClaimsCorrect, PTL DEF Spec
<1> QED
  BY <1>3, PTL DEF QueueIsInOrder

-----------------------------------------------------------------------------
(***************************************************************************)
(* Slots.  The rows that occupy a slot and the runs that are running only  *)
(* gain by claimNext and startTracked, which compare the limit first.      *)
(***************************************************************************)
\* Only claimNext and startTracked take a slot.
LEMMA SlotStep ==
    ASSUME TypeOK, ClaimsInv, [Next]_vars
    PROVE  \/ Occupying' \subseteq Occupying /\ Running' \subseteq Running
           \/ \E w \in Work : ClaimNext(w)
           \/ \E w \in Work, k \in Tokens : StartTracked(w, k)
<1> DEFINE Goal == Occupying' \subseteq Occupying /\ Running' \subseteq Running
<1>1. ASSUME queue' \subseteq queue, leased' \subseteq leased,
             \A w \in Work : /\ processGroup'[w] = "none" <=> processGroup[w] = "none"
                             /\ executionStatus'[w] = executionStatus[w]
                                  \/ executionStatus'[w] \in Terminal
      PROVE  Goal
  BY <1>1 DEF Occupying, Running, Started, Nonterminal, Terminal, TypeOK
<1>2. ASSUME queue' \subseteq queue, leased' \subseteq leased,
             UNCHANGED <<processGroup, executionStatus>>
      PROVE  Goal
  BY <1>1, <1>2
<1> USE DEF durableRun, durableEvaluation, claimVars, groupVars, volatile, bounds,
            durableUnchanged, processUnchanged
<1> HIDE DEF Goal
<1>3. ASSUME NEW e \in Evaluations, Admit(e) PROVE Goal
  <2>1. /\ queue' = queue \cup RunsOf(e) /\ UNCHANGED <<processGroup, leased>>
        /\ executionStatus' = [w \in Work |->
               IF w \in RunsOf(e) THEN "queued" ELSE executionStatus[w]]
        /\ evaluation[e] = "absent"
    BY <1>3 DEF Admit
  <2>2. \A w \in RunsOf(e) : w \notin queue /\ ~Started(w) /\ w \notin leased
    BY <2>1 DEF ClaimsInv, UnadmittedIsFresh, RunsOf, TypeOK
  <2> QED
    BY <2>1, <2>2 DEF Goal, Occupying, Running, Started, TypeOK
<1>4. ASSUME NEW e \in Evaluations, CancelEvaluation(e) PROVE Goal
  <2>1. /\ queue' \subseteq queue /\ leased' \subseteq leased /\ UNCHANGED processGroup
        /\ \A w \in Work : executionStatus'[w] = executionStatus[w]
                             \/ executionStatus'[w] = "cancelled"
    BY <1>4 DEF CancelEvaluation
  <2> QED
    BY <1>1, <2>1 DEF Terminal
<1>5. ASSUME NEW e \in Evaluations, RetryPreStart(e) PROVE Goal
  BY <1>2, <1>5 DEF RetryPreStart
<1>6. ASSUME NEW n, SetConcurrency(n) PROVE Goal
  BY <1>2, <1>6 DEF SetConcurrency
<1>7. ASSUME ClaimNothing PROVE Goal
  BY <1>2, <1>7 DEF ClaimNothing
<1>8. ASSUME FinishRecovery PROVE Goal
  <2>1. /\ queue' = queue /\ leased' \subseteq leased /\ UNCHANGED processGroup
        /\ \A w \in Work : executionStatus'[w] = executionStatus[w]
                             \/ executionStatus'[w] = "failed"
    BY <1>8 DEF FinishRecovery, FailRuns
  <2> QED
    BY <1>1, <2>1 DEF Terminal
<1>9. ASSUME NEW w \in Work,
             \/ SignalTrackedGroup(w) \/ PersistTerminationOutcome(w) \/ RecoveryAborts(w)
             \/ ReadyAtPasses(w) \/ Process(w) \/ LeaseLapses(w)
      PROVE  Goal
  BY <1>2, <1>9 DEF SignalTrackedGroup, PersistTerminationOutcome, RecoveryAborts,
      ReadyAtPasses, Process, Launch, SupervisorExits, CodexCloses, OrphanExits, LeaseLapses
<1>10. ASSUME Crash \/ Restart \/ UNCHANGED vars PROVE Goal
  BY <1>2, <1>10 DEF Crash, Restart, vars
<1>11. ASSUME NEW w \in Work, NEW k \in Tokens, Executor(w, k) PROVE Goal \/ StartTracked(w, k)
  <2>1. ASSUME \/ ReleaseClaim(w, k) \/ StartOverLimit(w, k) \/ RecordRefusal(w, k)
               \/ \E error \in {"checkout", "definitive"} : CheckoutFails(w, k, error)
        PROVE  Goal
    BY <1>2, <2>1 DEF ReleaseClaim, StartOverLimit, RecordRefusal, CheckoutFails,
                      RecordPreStartFailure
  <2>2. ASSUME \/ BeginPreStartAttempt(w, k) \/ CheckoutPrepared(w, k) \/ PreparationFails(w, k)
               \/ StartClaimLost(w, k) \/ \E cause \in Endings : EndsWith(w, k, cause)
               \/ Terminate(w, k) \/ TerminationFails(w, k)
        PROVE  Goal
    BY <1>2, <2>2 DEF BeginPreStartAttempt, CheckoutPrepared, PreparationFails, StartClaimLost,
                      EndsWith, Terminate, TerminationFails
  <2>3. ASSUME \/ \E result \in Results : Submit(w, k, result)
               \/ CloseChannel(w, k) \/ Settle(w, k)
        PROVE  Goal
    <3>1. UNCHANGED <<queue, leased, processGroup>>
      BY <2>3 DEF Submit, CloseChannel, Settle
    <3>2. \A v \in Work : executionStatus'[v] = executionStatus[v]
                            \/ executionStatus'[v] \in {"completed", "failed"}
      BY <2>3 DEF Submit, CloseChannel, Settle, FailRuns, TypeOK
    <3> QED
      BY <1>1, <3>1, <3>2 DEF Terminal
  <2>4. ASSUME FinishProcessGroup(w, k) PROVE Goal
    <3>1. UNCHANGED <<queue, leased, executionStatus>>
      BY <2>4 DEF FinishProcessGroup
    <3>2. \A v \in Work : processGroup'[v] = "none" <=> processGroup[v] = "none"
      BY <2>4 DEF FinishProcessGroup, TypeOK
    <3> QED
      BY <1>1, <3>1, <3>2
  <2> QED
    BY <1>11, <2>1, <2>2, <2>3, <2>4
    DEF Executor, Advance, Disturb, ObserveSubmission, ObserveCancellation, ObserveExit,
        DeadlineFires, ExecutionFails, Endings
<1> QED
  BY <1>3, <1>4, <1>5, <1>6, <1>7, <1>8, <1>9, <1>10, <1>11
  DEF Next, Request, Worker, Recovery, Goal

\* One more row in a set that is below the limit stays within it.
LEMMA OneMoreFits ==
    ASSUME TypeOK, NEW S \in SUBSET Work, NEW T, NEW w \in Work,
           Cardinality(S) < maximumRunning, T \subseteq S \cup {w}
    PROVE  Cardinality(T) <= maximumRunning
<1>1. IsFiniteSet(S)
  BY WorkAssumption, FS_Subset
<1>2. IsFiniteSet(S \cup {w}) /\ Cardinality(S \cup {w}) <= Cardinality(S) + 1
  <2>1. /\ IsFiniteSet(S \cup {w})
        /\ Cardinality(S \cup {w}) = IF w \in S THEN Cardinality(S) ELSE Cardinality(S) + 1
    BY <1>1, FS_AddElement
  <2>2. Cardinality(S) \in Nat
    BY <1>1, FS_CardinalityType
  <2> QED
    BY <2>1, <2>2
<1>3. IsFiniteSet(T) /\ Cardinality(T) <= Cardinality(S \cup {w})
  BY <1>2, FS_Subset
<1>4. Cardinality(S) \in Nat /\ Cardinality(S \cup {w}) \in Nat /\ Cardinality(T) \in Nat
  BY <1>1, <1>2, <1>3, FS_CardinalityType
<1> QED
  BY <1>2, <1>3, <1>4, MaxConcurrencyAssumption DEF TypeOK

\* The limit of the moment holds for every step that takes a slot.
LEMMA SlotsNext ==
    ASSUME TypeOK, ClaimsInv, [Next]_vars
    PROVE  /\ Occupying' \subseteq Occupying \/ Cardinality(Occupying') <= maximumRunning
           /\ Running' \subseteq Running \/ Cardinality(Running') <= maximumRunning
<1>1. Occupying \in SUBSET Work /\ Running \in SUBSET Work
  BY DEF Occupying, Running, TypeOK
<1>2. ASSUME NEW w \in Work, ClaimNext(w)
      PROVE  Cardinality(Occupying') <= maximumRunning /\ Running' \subseteq Running
  <2>1. /\ leased' = leased \cup {w} /\ UNCHANGED <<queue, processGroup, executionStatus>>
        /\ Cardinality(Occupying) < maximumRunning
    BY <1>2 DEF ClaimNext, FirstClaimable, Claimable, groupVars
  <2>2. Occupying' \subseteq Occupying \cup {w} /\ Running' = Running
    BY <2>1 DEF Occupying, Running, Started
  <2> QED
    BY <1>1, <2>1, <2>2, OneMoreFits
<1>3. ASSUME NEW w \in Work, NEW k \in Tokens, StartTracked(w, k)
      PROVE  Occupying' \subseteq Occupying /\ Cardinality(Running') <= maximumRunning
  <2>1. /\ processGroup' = [processGroup EXCEPT ![w] = "tracked"]
        /\ executionStatus' = [executionStatus EXCEPT ![w] = "running"]
        /\ UNCHANGED <<queue, leased>>
        /\ Cardinality(Running) < maximumRunning
        /\ w \in queue /\ w \in leased /\ executionStatus[w] = "queued"
    BY <1>3 DEF StartTracked, HoldsUnstarted, Holds
  <2>2. Occupying' \subseteq Occupying
    BY <2>1 DEF Occupying, Started, Nonterminal, TypeOK
  <2>3. Running' \subseteq Running \cup {w}
    BY <2>1 DEF Running, Started, TypeOK
  <2> QED
    BY <1>1, <2>1, <2>2, <2>3, OneMoreFits
<1> QED
  BY <1>2, <1>3, SlotStep

\* Only claimNext changes a fencing token, and of the first claimable row.
LEMMA TokenStep ==
    ASSUME TypeOK, [Next]_vars
    PROVE  UNCHANGED fencingToken \/ \E w \in Work : ClaimNext(w)
<1> USE DEF durableRun, durableEvaluation, claimVars, groupVars, volatile, bounds,
            durableUnchanged, processUnchanged
<1>1. ASSUME Request \/ ClaimNothing PROVE UNCHANGED fencingToken
  BY <1>1 DEF Request, Admit, CancelEvaluation, RetryPreStart, SetConcurrency, ClaimNothing
<1>2. ASSUME Recovery \/ Crash \/ UNCHANGED vars PROVE UNCHANGED fencingToken
  BY <1>2 DEF Recovery, Restart, FinishRecovery, SignalTrackedGroup, PersistTerminationOutcome,
              RecoveryAborts, Crash, vars
<1>3. ASSUME NEW w \in Work, ReadyAtPasses(w) \/ Process(w) \/ LeaseLapses(w)
      PROVE  UNCHANGED fencingToken
  BY <1>3 DEF ReadyAtPasses, LeaseLapses, Process, Launch, SupervisorExits, CodexCloses,
              OrphanExits
<1>4. ASSUME NEW w \in Work, NEW k \in Tokens, Executor(w, k) PROVE UNCHANGED fencingToken
  <2>1. ASSUME \/ BeginPreStartAttempt(w, k) \/ ReleaseClaim(w, k) \/ CheckoutPrepared(w, k)
               \/ \E error \in {"checkout", "definitive"} : CheckoutFails(w, k, error)
               \/ StartOverLimit(w, k) \/ StartClaimLost(w, k) \/ RecordRefusal(w, k)
               \/ PreparationFails(w, k) \/ StartTracked(w, k)
        PROVE  UNCHANGED fencingToken
    BY <2>1 DEF BeginPreStartAttempt, ReleaseClaim, CheckoutPrepared, CheckoutFails,
                StartOverLimit, StartClaimLost, RecordRefusal, PreparationFails, StartTracked
  <2>2. ASSUME \/ \E cause \in Endings : EndsWith(w, k, cause)
               \/ \E result \in Results : Submit(w, k, result)
               \/ CloseChannel(w, k) \/ Terminate(w, k) \/ TerminationFails(w, k)
               \/ FinishProcessGroup(w, k) \/ Settle(w, k)
        PROVE  UNCHANGED fencingToken
    BY <2>2 DEF EndsWith, Submit, CloseChannel, Terminate, TerminationFails,
                FinishProcessGroup, Settle
  <2> QED
    BY <1>4, <2>1, <2>2
    DEF Executor, Advance, Disturb, ObserveSubmission, ObserveCancellation, ObserveExit,
        DeadlineFires, ExecutionFails, Endings
<1> QED
  BY <1>1, <1>2, <1>3, <1>4 DEF Next, Worker

\* The row claimed is on the line once, so what stands before it was passed
\* because it could not be claimed.
LEMMA ReadyOrderNext ==
    ASSUME TypeOK, ReadyLineOK, [Next]_vars,
           NEW i \in DOMAIN readyLine, NEW j \in DOMAIN readyLine, i < j,
           fencingToken'[readyLine[j]] # fencingToken[readyLine[j]]
    PROVE  ~Claimable(readyLine[i])
<1>1. PICK w \in Work : ClaimNext(w)
  BY TokenStep
<1>2. readyLine[j] \in Work /\ DOMAIN readyLine = 1 .. Len(readyLine) /\ Len(readyLine) \in Nat
  BY DEF ReadyLineOK, Unstarted, TypeOK
<1>3. readyLine[j] = w
  BY <1>1, <1>2 DEF ClaimNext, TypeOK
<1>4. PICK p \in 1 .. Len(readyLine) :
         readyLine[p] = w /\ \A q \in 1 .. p - 1 : ~Claimable(readyLine[q])
  BY <1>1 DEF ClaimNext, FirstClaimable
<1>5. p = j
  BY <1>2, <1>3, <1>4 DEF ReadyLineOK
<1> QED
  BY <1>2, <1>4, <1>5

\* Work is claimed in ready_at order and within maximum_running, and
\* started within it, however the Operator changes the limit.
THEOREM SlotsTakenInTurn == Spec => SlotsAreTakenInTurn
<1>1. TypeOK /\ ClaimsInv /\ [Next]_vars
        => [/\ Occupying' \subseteq Occupying \/ Cardinality(Occupying') <= maximumRunning
            /\ Running' \subseteq Running \/ Cardinality(Running') <= maximumRunning]_vars
  BY SlotsNext
<1>2. TypeOK /\ ReadyLineOK /\ [Next]_vars
        => [\A i, j \in DOMAIN readyLine :
               (i < j /\ fencingToken'[readyLine[j]] # fencingToken[readyLine[j]])
                   => ~Claimable(readyLine[i])]_vars
  BY ReadyOrderNext
<1>3. Spec => SlotsWithinLimit
  BY <1>1, TypeCorrect, ClaimsCorrect, PTL DEF Spec, SlotsWithinLimit
<1>4. Spec => []ReadyLineOK
  BY QueueInOrder, PTL DEF QueueIsInOrder
<1>5. Spec => ClaimedInReadyOrder
  BY <1>2, <1>4, TypeCorrect, PTL DEF Spec, ClaimedInReadyOrder
<1> QED
  BY <1>3, <1>5 DEF SlotsAreTakenInTurn
=============================================================================
