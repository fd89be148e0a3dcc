--------------------------- MODULE CodexExecution ---------------------------
(***************************************************************************)
(* Durable execution of Review Runs: admission of an Evaluation, the Codex *)
(* execution queue with its leases and fencing tokens, the pre-start retry *)
(* budget, the tracked process group, the submission of a Result, Operator *)
(* cancellation and retry, and the recovery that runs at every start of    *)
(* the application.                                                        *)
(*                                                                         *)
(* One synchronous SQLite transaction is one action.  The executor of a    *)
(* claim (executeReviewRun) is split where the code awaits, so whatever    *)
(* else the process does may happen between two of its steps.  Time is     *)
(* abstracted to the facts the code tests: a lease that is active or has   *)
(* lapsed, a ready time that has or has not passed, a deadline that fires. *)
(***************************************************************************)
EXTENDS EvaluationOutcome, Naturals, Sequences, FiniteSets

CONSTANTS
    Work,              \* the Review Runs
    Evaluations,       \* the Evaluations
    EvaluationOf,      \* the Evaluation each Review Run belongs to
    ApplicabilityErrors, \* Evaluations with an erroneous Applicability Result
    Results,           \* the verdicts of the Results that may be submitted
    AttemptLimit,      \* CODEX_PRE_START_ATTEMPT_LIMIT
    Capacity,          \* REVIEW_RUN_QUEUE_CAPACITY
    MaxConcurrency,    \* the largest value of maximum_running
    StallMayHappen,    \* the process may pause for longer than a lease
    TerminationMayFail,\* a signal to a process group may fail
    MaxToken,          \* bound: fencing tokens per Review Run
    MaxCycle,          \* bound: Operator retry cycles per Review Run
    MaxFaults,         \* bound: crashes, stalls and refused acquisitions
    MaxChanges         \* bound: changes of maximum_running

ASSUME WorkAssumption == IsFiniteSet(Work)
ASSUME EvaluationOfAssumption == EvaluationOf \in [Work -> Evaluations]
ASSUME ApplicabilityErrorsAssumption == ApplicabilityErrors \subseteq Evaluations
ASSUME ResultsAssumption == Results \subseteq Verdicts
ASSUME AttemptLimitAssumption == AttemptLimit \in Nat \ {0}
ASSUME CapacityAssumption == Capacity \in Nat
ASSUME MaxConcurrencyAssumption == MaxConcurrency \in Nat \ {0}
ASSUME SwitchAssumption ==
    StallMayHappen \in BOOLEAN /\ TerminationMayFail \in BOOLEAN
ASSUME BoundAssumption ==
    /\ MaxToken \in Nat
    /\ MaxCycle \in Nat \ {0}
    /\ MaxFaults \in Nat
    /\ MaxChanges \in Nat

VARIABLES
    \* Durable: review_runs and evaluations.
    executionStatus,   \* review_runs.execution_status, "absent" before admission
    verdict,           \* the stored criterion results, "none" before acceptance
    retryCycle,        \* review_runs.retry_cycle
    attempts,          \* review_runs.pre_start_cycle_attempt_count
    lastError,         \* review_runs.pre_start_cycle_retry_error_code
    evaluation,        \* evaluations.execution_status, "absent" before admission
    outcome,           \* evaluation_results.outcome, "none" before the result
    \* Durable: codex_execution_queue and codex_execution_settings.
    queue,             \* the work_ids that have a row
    readyLine,         \* rows whose ready_at has passed, in ready_at order
    fencingToken,      \* fencing_token
    leased,            \* rows with lease_expires_at in the future
    exhausted,         \* rows with retry_state = 'exhausted'
    processGroup,      \* "none" until started_at and process_group_id are set,
                       \* "finished" once process_group_finished_at is set
    recovered,         \* rows with recovered_at
    attemptMarker,     \* fencing_token of the row of
                       \* codex_execution_pre_start_attempts for the current
                       \* cycle and the attempt after the last failed one, or 0
    maximumRunning,    \* codex_execution_settings.maximum_running
    \* Volatile: the application process and the processes it supervises.
    application,       \* "up", "recovering" or "down"
    pc,                \* pc[w][k]: where the executor of claim k of w is
    ending,            \* what ended the execution of w
    codex,             \* the process group of the execution of w
    \* The bounds already used.
    faults, changes

durableRun == <<executionStatus, verdict, retryCycle, attempts, lastError>>
durableEvaluation == <<evaluation, outcome>>
claimVars == <<queue, readyLine, fencingToken, leased, exhausted, attemptMarker>>
groupVars == <<processGroup, recovered>>
volatile == <<application, pc, ending, codex>>
bounds == <<faults, changes>>

vars == <<durableRun, durableEvaluation, claimVars, groupVars,
          maximumRunning, volatile, bounds>>

-----------------------------------------------------------------------------
Tokens == 1 .. MaxToken

Statuses == {"absent"} \cup Nonterminal \cup Terminal
Endings == {"none", "cancelled", "deadline", "exited", "failed", "accepted"}
PreStartErrors == {"checkout", "definitive", "interrupted"}

(***************************************************************************)
(* Where the executor of a claim may be, in the order executeReviewRun     *)
(* and runReviewRunCodex go through them.                                  *)
(*   claimed      claimNext returned, acquisition waits in the I/O pool    *)
(*   preparing    the attempt began, the checkout is being prepared        *)
(*   prepared     the checkout is ready, the submission channel opens      *)
(*   refused      the start was refused, the supervisor is being stopped   *)
(*   executing    started and tracked, the terminal race is running        *)
(*   closing      something won the race, the channel is being closed      *)
(*   terminating  the process group is being terminated                    *)
(*   finishing    the process group is to be recorded as finished          *)
(*   settling     the executor is about to record the failure, if any      *)
(***************************************************************************)
StartedSteps == {"executing", "closing", "terminating", "finishing", "settling"}
Steps == {"idle", "claimed", "preparing", "prepared", "refused"} \cup StartedSteps

\* The process group of an execution: a supervisor that has not launched
\* Codex, Codex running, Codex closed but the group still there, a group
\* whose identity anchor is gone, no member left.
GroupStates == {"none", "waiting", "running", "closed", "orphaned", "gone"}
Alive == {"waiting", "running", "closed", "orphaned"}

RunsOf(e) == {w \in Work : EvaluationOf[w] = e}
Started(w) == processGroup[w] # "none"
Unstarted == {w \in queue : ~Started(w)}

-----------------------------------------------------------------------------
(***************************************************************************)
(* Facts the transactions test.                                            *)
(***************************************************************************)

\* The rows that count against maximum_running when work is claimed.
Occupying == {w \in queue : /\ executionStatus[w] \in Nonterminal
                            /\ Started(w) \/ w \in leased}

\* The rows that count against maximum_running when work is started.
Running == {w \in queue : Started(w) /\ executionStatus[w] = "running"}

\* Faulty variant: the token is not compared.
Holds_Tokenless(w, k) == w \in queue /\ w \in leased

\* Claim k of w is current and its lease is active.
Holds(w, k) == w \in queue /\ fencingToken[w] = k /\ w \in leased

\* Faulty variant: an expired lease is good enough.
HoldsUnstarted_Lapsed(w, k) ==
    /\ w \in queue /\ fencingToken[w] = k
    /\ ~Started(w) /\ w \notin exhausted /\ executionStatus[w] = "queued"

\* Faulty variant: any row will do.
HoldsUnstarted_Unfenced(w, k) == w \in queue /\ w \notin exhausted

\* Claim k of w may still begin, fail or start its pre-start attempt.
HoldsUnstarted(w, k) ==
    /\ Holds(w, k) /\ ~Started(w) /\ w \notin exhausted
    /\ executionStatus[w] = "queued"

\* Faulty variant: the status is not read again.
Authoritative_AnyStatus(w, k) == Holds(w, k)

\* Faulty variant: a finished group has no authority.
Authoritative_Tracked(w, k) ==
    Holds(w, k) /\ executionStatus[w] = "running" /\ processGroup[w] = "tracked"

\* Claim k of w may still record a Result or a failure.
Authoritative(w, k) == Holds(w, k) /\ executionStatus[w] = "running"

\* Faulty variant: the requested runs are not counted.
FitsCapacity_Before(requested) == Cardinality(Unstarted) <= Capacity

\* assertReviewRunCapacity: the requested runs fit beside the unstarted rows.
FitsCapacity(requested) == Cardinality(Unstarted) + Cardinality(requested) <= Capacity

\* Faulty variant: zero passes.
IsConcurrency_Zero(n) == n <= MaxConcurrency

\* requireConcurrency.
IsConcurrency(n) == n \in 1 .. MaxConcurrency

InReadyLine(w) == \E i \in 1 .. Len(readyLine) : readyLine[i] = w

\* The line without the rows of S: the n-th row kept is at the position that
\* has n of the kept positions up to it.
Without(line, S) ==
    LET kept == {i \in DOMAIN line : line[i] \notin S}
        Position(n) == CHOOSE i \in kept : Cardinality(kept \cap 1 .. i) = n
    IN  [n \in 1 .. Cardinality(kept) |-> line[Position(n)]]

\* Rows with the same ready_at are ordered by work_id, a random identity.
Arrangements(S) ==
    {s \in [1 .. Cardinality(S) -> S] : \A w \in S : \E i \in DOMAIN s : s[i] = w}

\* Faulty variant: one attempt too many.
Exhausts_Late(w, error) == error = "definitive" \/ attempts[w] + 1 > AttemptLimit

(***************************************************************************)
(* appendFailure for each row of S: the attempt is consumed and its marker *)
(* is no longer that of the next attempt.  The row is exhausted by the     *)
(* last attempt or by an error that is not transient; otherwise ready_at   *)
(* moves to a later time, so the row leaves the line of ready work.        *)
(***************************************************************************)
Exhausts(w, error) == error = "definitive" \/ attempts[w] + 1 >= AttemptLimit

\* Faulty variant: ready_at is not moved.
AppendFailures_KeepReady(S, error) ==
    /\ attempts' = [w \in Work |-> attempts[w] + IF w \in S THEN 1 ELSE 0]
    /\ lastError' = [w \in Work |-> IF w \in S THEN error ELSE lastError[w]]
    /\ attemptMarker' = [w \in Work |-> IF w \in S THEN 0 ELSE attemptMarker[w]]
    /\ exhausted' = exhausted \cup {w \in S : Exhausts(w, error)}
    /\ UNCHANGED readyLine

AppendFailures(S, error) ==
    /\ attempts' = [w \in Work |-> attempts[w] + IF w \in S THEN 1 ELSE 0]
    /\ lastError' = [w \in Work |-> IF w \in S THEN error ELSE lastError[w]]
    /\ attemptMarker' = [w \in Work |-> IF w \in S THEN 0 ELSE attemptMarker[w]]
    /\ exhausted' = exhausted \cup {w \in S : Exhausts(w, error)}
    /\ readyLine' = Without(readyLine, S)

\* The marker names the claim whose attempt failed: appendFailure refuses
\* the whole transaction otherwise.
MarkerIsCurrent(w) ==
    /\ attemptMarker[w] = fencingToken[w] /\ w \notin exhausted
    /\ executionStatus[w] = "queued"

\* Faulty variant: the outcome is that of the facts before.
CompleteEvaluations_Stale(S, status, result) ==
    LET done == {e \in {EvaluationOf[w] : w \in S} : AllTerminal(RunsOf(e), status)}
    IN  /\ evaluation' = [e \in Evaluations |->
               IF e \in done THEN "completed" ELSE evaluation[e]]
        /\ outcome' = [e \in Evaluations |->
               IF e \in done
               THEN AggregateOutcome(e \in ApplicabilityErrors, RunsOf(e), executionStatus, verdict)
               ELSE outcome[e]]

(***************************************************************************)
(* completeEvaluationIfTerminal for the Evaluations of the runs S that     *)
(* have just become terminal: status and result are the executionStatus    *)
(* and verdict of the same transaction.  The Evaluation must be queued,    *)
(* or the transaction fails.                                               *)
(***************************************************************************)
CompleteEvaluations(S, status, result) ==
    LET done == {e \in {EvaluationOf[w] : w \in S} : AllTerminal(RunsOf(e), status)}
    IN  /\ \A e \in done : evaluation[e] = "queued"
        /\ evaluation' = [e \in Evaluations |->
               IF e \in done THEN "completed" ELSE evaluation[e]]
        /\ outcome' = [e \in Evaluations |->
               IF e \in done
               THEN AggregateOutcome(e \in ApplicabilityErrors, RunsOf(e), status, result)
               ELSE outcome[e]]

\* Faulty variant: the Evaluation is not completed.
FailRuns_Alone(S) ==
    /\ executionStatus' = [w \in Work |->
           IF w \in S THEN "failed" ELSE executionStatus[w]]
    /\ UNCHANGED durableEvaluation

\* failReviewRun, and the failure of interrupted runs, for the runs S.
FailRuns(S) ==
    /\ executionStatus' = [w \in Work |->
           IF w \in S THEN "failed" ELSE executionStatus[w]]
    /\ CompleteEvaluations(S, executionStatus', verdict)

GoTo(w, k, step) == pc' = [pc EXCEPT ![w][k] = step]

-----------------------------------------------------------------------------
Init ==
    /\ executionStatus = [w \in Work |-> "absent"]
    /\ verdict = [w \in Work |-> "none"]
    /\ retryCycle = [w \in Work |-> 1]
    /\ attempts = [w \in Work |-> 0]
    /\ lastError = [w \in Work |-> "none"]
    /\ evaluation = [e \in Evaluations |-> "absent"]
    /\ outcome = [e \in Evaluations |-> "none"]
    /\ queue = {} /\ readyLine = <<>> /\ leased = {} /\ exhausted = {}
    /\ fencingToken = [w \in Work |-> 0]
    /\ attemptMarker = [w \in Work |-> 0]
    /\ processGroup = [w \in Work |-> "none"] /\ recovered = {}
    /\ maximumRunning = 1
    /\ application = "down"
    /\ pc = [w \in Work |-> [k \in Tokens |-> "idle"]]
    /\ ending = [w \in Work |-> "none"]
    /\ codex = [w \in Work |-> "none"]
    /\ faults = 0 /\ changes = 0

-----------------------------------------------------------------------------
(***************************************************************************)
(* Requests: admission, Operator cancellation, retry and settings.         *)
(***************************************************************************)

\* admitFrozenEvaluation: the Evaluation and its Review Runs, or nothing.
Admit(e) ==
    /\ application = "up" /\ evaluation[e] = "absent"
    /\ FitsCapacity(RunsOf(e))
    /\ executionStatus' = [w \in Work |->
           IF w \in RunsOf(e) THEN "queued" ELSE executionStatus[w]]
    /\ queue' = queue \cup RunsOf(e)
    /\ \E line \in Arrangements(RunsOf(e)) : readyLine' = readyLine \o line
    /\ IF RunsOf(e) = {}
       THEN /\ evaluation' = [evaluation EXCEPT ![e] = "completed"]
            /\ outcome' = [outcome EXCEPT ![e] =
                   IF e \in ApplicabilityErrors THEN "error" ELSE "clear"]
       ELSE /\ evaluation' = [evaluation EXCEPT ![e] = "queued"]
            /\ UNCHANGED outcome
    /\ UNCHANGED <<verdict, retryCycle, attempts, lastError, fencingToken,
                   leased, exhausted, attemptMarker, groupVars,
                   maximumRunning, volatile, bounds>>

\* cancelEvaluation, by the Operator or by a newer Evaluation.  Executors of
\* running runs are signalled after the commit: see ObserveCancellation.
CancelEvaluation(e) ==
    /\ application = "up" /\ evaluation[e] = "queued"
    /\ LET unfinished == {w \in RunsOf(e) : executionStatus[w] \in Nonterminal}
           removed == {w \in unfinished : executionStatus[w] = "queued" /\ ~Started(w)}
       IN  /\ executionStatus' = [w \in Work |->
                  IF w \in unfinished THEN "cancelled" ELSE executionStatus[w]]
           /\ queue' = queue \ removed
           /\ leased' = leased \ removed
           /\ exhausted' = exhausted \ removed
           /\ readyLine' = Without(readyLine, removed)
    /\ evaluation' = [evaluation EXCEPT ![e] = "cancelled"]
    /\ outcome' = [outcome EXCEPT ![e] = "error"]
    /\ UNCHANGED <<verdict, retryCycle, attempts, lastError, fencingToken,
                   attemptMarker, groupVars, maximumRunning, volatile, bounds>>

\* retry: every exhausted run of the Evaluation gets a fresh cycle.
RetryPreStart(e) ==
    /\ application = "up" /\ evaluation[e] = "queued"
    /\ FitsCapacity({})
    /\ LET retried == {w \in RunsOf(e) \cap Unstarted :
                          w \in exhausted /\ executionStatus[w] = "queued"}
       IN  /\ retried # {} /\ retried \cap leased = {}
           /\ \A w \in retried : retryCycle[w] < MaxCycle
           /\ retryCycle' = [w \in Work |-> retryCycle[w] + IF w \in retried THEN 1 ELSE 0]
           /\ attempts' = [w \in Work |-> IF w \in retried THEN 0 ELSE attempts[w]]
           /\ lastError' = [w \in Work |-> IF w \in retried THEN "none" ELSE lastError[w]]
           /\ exhausted' = exhausted \ retried
           /\ \E line \in Arrangements(retried) : readyLine' = readyLine \o line
    /\ UNCHANGED <<executionStatus, verdict, durableEvaluation, queue,
                   fencingToken, leased, attemptMarker, groupVars,
                   maximumRunning, volatile, bounds>>

\* The Operator's setting of maximum_running.
SetConcurrency(n) ==
    /\ application = "up" /\ IsConcurrency(n) /\ n # maximumRunning
    /\ changes < MaxChanges /\ changes' = changes + 1
    /\ maximumRunning' = n
    /\ UNCHANGED <<durableRun, durableEvaluation, claimVars, groupVars,
                   volatile, faults>>

-----------------------------------------------------------------------------
(***************************************************************************)
(* The worker: claimNext.  The same transaction first records the attempts *)
(* whose lease lapsed as interrupted, then claims the first row in         *)
(* ready_at order that is free, if a slot is.                              *)
(***************************************************************************)

\* A delayed row's ready_at passes.
ReadyAtPasses(w) ==
    /\ w \in Unstarted \ exhausted /\ ~InReadyLine(w)
    /\ readyLine' = Append(readyLine, w)
    /\ UNCHANGED <<durableRun, durableEvaluation, queue, fencingToken, leased,
                   exhausted, attemptMarker, groupVars, maximumRunning,
                   volatile, bounds>>

\* Faulty variant: open attempts are left open.
Interrupted_Ignored == {}

Interrupted == {w \in Unstarted \ (exhausted \cup leased) : attemptMarker[w] # 0}

\* Faulty variant: one slot too many.
Claimable_OverLimit(w) ==
    /\ w \in Unstarted \ (exhausted \cup leased \cup Interrupted)
    /\ Cardinality(Occupying) <= maximumRunning

Claimable(w) ==
    /\ w \in Unstarted \ (exhausted \cup leased \cup Interrupted)
    /\ Cardinality(Occupying) < maximumRunning

\* Faulty variant: any ready row, not the first.
FirstClaimable_Unordered(w) == Claimable(w) /\ InReadyLine(w)

FirstClaimable(w) ==
    /\ Claimable(w)
    /\ \E i \in 1 .. Len(readyLine) :
          /\ readyLine[i] = w
          /\ \A j \in 1 .. i - 1 : ~Claimable(readyLine[j])

RecoverInterruptedAttempts ==
    /\ \A w \in Interrupted : MarkerIsCurrent(w)
    /\ AppendFailures(Interrupted, "interrupted")

ClaimNext(w) ==
    /\ application = "up"
    /\ RecoverInterruptedAttempts
    /\ FirstClaimable(w)
    /\ fencingToken[w] < MaxToken
    /\ fencingToken' = [fencingToken EXCEPT ![w] = @ + 1]
    /\ leased' = leased \cup {w}
    /\ GoTo(w, fencingToken[w] + 1, "claimed")
    /\ UNCHANGED <<executionStatus, verdict, retryCycle, durableEvaluation,
                   queue, groupVars, maximumRunning, application, ending,
                   codex, bounds>>

\* Nothing can be claimed, but interrupted attempts are recorded.
ClaimNothing ==
    /\ application = "up"
    /\ Interrupted # {} /\ RecoverInterruptedAttempts
    /\ \A w \in Work : ~FirstClaimable(w)
    /\ UNCHANGED <<executionStatus, verdict, retryCycle, durableEvaluation,
                   queue, fencingToken, leased, groupVars, maximumRunning,
                   volatile, bounds>>

-----------------------------------------------------------------------------
(***************************************************************************)
(* The executor of claim k of w before the start.                          *)
(***************************************************************************)

\* An acquisition slot is free: beginCodexPreStartAttempt.
BeginPreStartAttempt(w, k) ==
    /\ pc[w][k] = "claimed"
    /\ HoldsUnstarted(w, k) /\ attemptMarker[w] = 0
    /\ attemptMarker' = [attemptMarker EXCEPT ![w] = k]
    /\ GoTo(w, k, "preparing")
    /\ UNCHANGED <<durableRun, durableEvaluation, queue, readyLine,
                   fencingToken, leased, exhausted, groupVars,
                   maximumRunning, application, ending, codex, bounds>>

\* No attempt began: the claim is released.  Either the attempt could not
\* begin, or the I/O pool refused or dropped the acquisition (a fault).
ReleaseClaim(w, k) ==
    /\ pc[w][k] = "claimed"
    /\ \/ ~HoldsUnstarted(w, k) /\ UNCHANGED faults
       \/ faults < MaxFaults /\ faults' = faults + 1
    /\ leased' = IF Holds(w, k) /\ ~Started(w) /\ w \notin exhausted
                 THEN leased \ {w} ELSE leased
    /\ GoTo(w, k, "idle")
    /\ UNCHANGED <<durableRun, durableEvaluation, queue, readyLine,
                   fencingToken, exhausted, attemptMarker, groupVars,
                   maximumRunning, application, ending, codex, changes>>

\* recordCodexPreStartFailure; it throws and changes nothing without the claim.
RecordPreStartFailure(w, k, error) ==
    IF HoldsUnstarted(w, k)
    THEN /\ AppendFailures({w}, error)
         /\ leased' = leased \ {w}
    ELSE UNCHANGED <<attempts, lastError, attemptMarker, exhausted, readyLine, leased>>

CheckoutFails(w, k, error) ==
    /\ pc[w][k] = "preparing"
    /\ RecordPreStartFailure(w, k, error)
    /\ GoTo(w, k, "idle")
    /\ UNCHANGED <<executionStatus, verdict, retryCycle, durableEvaluation,
                   queue, fencingToken, groupVars, maximumRunning,
                   application, ending, codex, bounds>>

CheckoutPrepared(w, k) ==
    /\ pc[w][k] = "preparing"
    /\ GoTo(w, k, "prepared")
    /\ UNCHANGED <<durableRun, durableEvaluation, claimVars, groupVars,
                   maximumRunning, application, ending, codex, bounds>>

\* Reading the file changes, opening the channel, spawning the supervisor or
\* the storage reserve fails: nothing was started.
PreparationFails(w, k) ==
    /\ pc[w][k] = "prepared"
    /\ GoTo(w, k, "refused")
    /\ UNCHANGED <<durableRun, durableEvaluation, claimVars, groupVars,
                   maximumRunning, application, ending, codex, bounds>>

(***************************************************************************)
(* startCodexExecution: the row is started and its process group tracked,  *)
(* the run becomes running, all in one transaction.  The launch message is *)
(* sent to the supervisor in the same tick.                                *)
(***************************************************************************)
StartTracked(w, k) ==
    /\ pc[w][k] = "prepared"
    /\ Cardinality(Running) < maximumRunning
    /\ HoldsUnstarted(w, k)
    /\ processGroup' = [processGroup EXCEPT ![w] = "tracked"]
    /\ executionStatus' = [executionStatus EXCEPT ![w] = "running"]
    /\ readyLine' = Without(readyLine, {w})
    /\ codex' = [codex EXCEPT ![w] = "waiting"]
    /\ GoTo(w, k, "executing")
    /\ UNCHANGED <<verdict, retryCycle, attempts, lastError,
                   durableEvaluation, queue, fencingToken, leased, exhausted,
                   attemptMarker, recovered, maximumRunning, application,
                   ending, bounds>>

\* The limit is reached: the lease ends, the open attempt stays open.
StartOverLimit(w, k) ==
    /\ pc[w][k] = "prepared"
    /\ Cardinality(Running) >= maximumRunning
    /\ Holds(w, k) /\ ~Started(w) /\ w \notin exhausted
    /\ leased' = leased \ {w}
    /\ GoTo(w, k, "refused")
    /\ UNCHANGED <<durableRun, durableEvaluation, queue, readyLine,
                   fencingToken, exhausted, attemptMarker, groupVars,
                   maximumRunning, application, ending, codex, bounds>>

StartClaimLost(w, k) ==
    /\ pc[w][k] = "prepared"
    /\ ~HoldsUnstarted(w, k)
    /\ GoTo(w, k, "refused")
    /\ UNCHANGED <<durableRun, durableEvaluation, claimVars, groupVars,
                   maximumRunning, application, ending, codex, bounds>>

\* The unlaunched supervisor has stopped; the failure is recorded.
RecordRefusal(w, k) ==
    /\ pc[w][k] = "refused"
    /\ RecordPreStartFailure(w, k, "definitive")
    /\ GoTo(w, k, "idle")
    /\ UNCHANGED <<executionStatus, verdict, retryCycle, durableEvaluation,
                   queue, fencingToken, groupVars, maximumRunning,
                   application, ending, codex, bounds>>

-----------------------------------------------------------------------------
(***************************************************************************)
(* The process group of an execution.  Its supervisor is a child of the    *)
(* application and the leader, hence the identity anchor, of the group.    *)
(***************************************************************************)
processUnchanged == <<durableRun, durableEvaluation, claimVars, groupVars,
                      maximumRunning, application, pc, ending, bounds>>

\* The supervisor receives the launch message and spawns Codex.
Launch(w) ==
    /\ codex[w] = "waiting"
    /\ codex' = [codex EXCEPT ![w] = "running"]
    /\ UNCHANGED processUnchanged

\* A supervisor that lost the application before the launch message exits.
SupervisorExits(w) ==
    /\ codex[w] = "waiting" /\ application # "up"
    /\ codex' = [codex EXCEPT ![w] = "gone"]
    /\ UNCHANGED processUnchanged

\* Codex closes.  The supervisor stays until it is told to finish, but exits
\* with Codex once the application is gone: descendants may survive it.
CodexCloses(w) ==
    /\ codex[w] = "running"
    /\ \E state \in IF application = "up" THEN {"closed"} ELSE {"gone", "orphaned"} :
          codex' = [codex EXCEPT ![w] = state]
    /\ UNCHANGED processUnchanged

OrphanExits(w) ==
    /\ codex[w] = "orphaned"
    /\ codex' = [codex EXCEPT ![w] = "gone"]
    /\ UNCHANGED processUnchanged

-----------------------------------------------------------------------------
(***************************************************************************)
(* The executor after the start: runReviewRunCodex and the end of          *)
(* executeReviewRun.                                                       *)
(***************************************************************************)

\* prepare: the Result Codex submits through the open channel is stored, the
\* run and possibly its Evaluation complete, all in one transaction.
Submit(w, k, result) ==
    /\ pc[w][k] \in {"executing", "closing"} /\ codex[w] = "running"
    /\ Authoritative(w, k)
    /\ verdict' = [verdict EXCEPT ![w] = result]
    /\ executionStatus' = [executionStatus EXCEPT ![w] = "completed"]
    /\ CompleteEvaluations({w}, executionStatus', verdict')
    /\ UNCHANGED <<retryCycle, attempts, lastError, claimVars, groupVars,
                   maximumRunning, volatile, bounds>>

EndsWith(w, k, cause) ==
    /\ pc[w][k] = "executing"
    /\ ending' = [ending EXCEPT ![w] = cause]
    /\ GoTo(w, k, "closing")
    /\ UNCHANGED <<durableRun, durableEvaluation, claimVars, groupVars,
                   maximumRunning, application, codex, bounds>>

\* The contestants of the terminal race.
ObserveSubmission(w, k) == verdict[w] # "none" /\ EndsWith(w, k, "accepted")
ObserveCancellation(w, k) ==
    executionStatus[w] = "cancelled" /\ EndsWith(w, k, "cancelled")
ObserveExit(w, k) == codex[w] = "closed" /\ EndsWith(w, k, "exited")

\* Faulty variant: there is no deadline.
DeadlineFires_Never(w, k) == FALSE

\* The Review Run deadline.
DeadlineFires(w, k) == EndsWith(w, k, "deadline")

\* Launch, transcript or submission channel failure.
ExecutionFails(w, k) == EndsWith(w, k, "failed")

\* The submission channel is stopped; then recordDeadline fails the run
\* unless a Result was accepted meanwhile.
CloseChannel(w, k) ==
    /\ pc[w][k] = "closing"
    /\ IF ending[w] = "deadline" /\ Authoritative(w, k)
       THEN FailRuns({w})
       ELSE UNCHANGED <<executionStatus, durableEvaluation>>
    /\ GoTo(w, k, "terminating")
    /\ UNCHANGED <<verdict, retryCycle, attempts, lastError, claimVars,
                   groupVars, maximumRunning, application, ending, codex,
                   bounds>>

\* A transcript failure ends the execution without finishing the tracked
\* group; the other failures of an execution do finish it.
AfterTermination(w) ==
    {"finishing"} \cup (IF ending[w] = "failed" THEN {"settling"} ELSE {})

\* Faulty variant: no signal reaches the group.
Terminate_Unsignalled(w, k) ==
    /\ pc[w][k] = "terminating"
    /\ \E step \in AfterTermination(w) : GoTo(w, k, step)
    /\ UNCHANGED <<durableRun, durableEvaluation, claimVars, groupVars,
                   maximumRunning, application, ending, codex, bounds>>

Terminate(w, k) ==
    /\ pc[w][k] = "terminating"
    /\ codex' = [codex EXCEPT ![w] = "gone"]
    /\ \E step \in AfterTermination(w) : GoTo(w, k, step)
    /\ UNCHANGED <<durableRun, durableEvaluation, claimVars, groupVars,
                   maximumRunning, application, ending, bounds>>

\* A failed termination is only a diagnostic once Codex has closed (unless
\* the deadline fired) or a Result was committed, and after a process error;
\* otherwise it ends the execution without finishing the tracked group.
TerminationFails(w, k) ==
    /\ TerminationMayFail
    /\ pc[w][k] = "terminating" /\ codex[w] \in Alive
    /\ LET diagnostic == verdict[w] # "none"
                           \/ (codex[w] = "closed" /\ ending[w] # "deadline")
       IN  \E step \in IF diagnostic THEN {"finishing"}
                       ELSE {"settling"} \cup (IF ending[w] = "failed"
                                               THEN {"finishing"} ELSE {}) :
              GoTo(w, k, step)
    /\ UNCHANGED <<durableRun, durableEvaluation, claimVars, groupVars,
                   maximumRunning, application, ending, codex, bounds>>

\* Faulty variant: the process result is not awaited.
FinishProcessGroup_Early(w, k) ==
    /\ pc[w][k] = "finishing"
    /\ processGroup' = IF Holds(w, k) /\ processGroup[w] = "tracked" /\ w \notin recovered
                       THEN [processGroup EXCEPT ![w] = "finished"]
                       ELSE processGroup
    /\ GoTo(w, k, "settling")
    /\ UNCHANGED <<durableRun, durableEvaluation, claimVars, recovered,
                   maximumRunning, application, ending, codex, bounds>>

\* finishProcessGroup, after the supervisor has reported the process result.
FinishProcessGroup(w, k) ==
    /\ pc[w][k] = "finishing" /\ codex[w] \in {"closed", "gone"}
    /\ processGroup' = IF Holds(w, k) /\ processGroup[w] = "tracked" /\ w \notin recovered
                       THEN [processGroup EXCEPT ![w] = "finished"]
                       ELSE processGroup
    /\ GoTo(w, k, "settling")
    /\ UNCHANGED <<durableRun, durableEvaluation, claimVars, recovered,
                   maximumRunning, application, ending, codex, bounds>>

\* Unless a Result was accepted or the run was cancelled, the execution has
\* failed: resultService.fail, whose refusal is swallowed.
Settle(w, k) ==
    /\ pc[w][k] = "settling"
    /\ IF Authoritative(w, k)
       THEN FailRuns({w})
       ELSE UNCHANGED <<executionStatus, durableEvaluation>>
    /\ ending' = [ending EXCEPT ![w] = "none"]
    /\ GoTo(w, k, "idle")
    /\ UNCHANGED <<verdict, retryCycle, attempts, lastError, claimVars,
                   groupVars, maximumRunning, application, codex, bounds>>

\* The process is paused or its event loop is blocked for so long that the
\* renewal of a lease comes too late.  renew then refuses for ever.
LeaseLapses(w) ==
    /\ StallMayHappen
    /\ w \in leased /\ \E k \in Tokens : k = fencingToken[w] /\ pc[w][k] # "idle"
    /\ leased' = leased \ {w}
    /\ faults < MaxFaults /\ faults' = faults + 1
    /\ UNCHANGED <<durableRun, durableEvaluation, queue, readyLine,
                   fencingToken, exhausted, attemptMarker, groupVars,
                   maximumRunning, volatile, changes>>

-----------------------------------------------------------------------------
(***************************************************************************)
(* Crash, restart, and recoverCodexExecutions, which runs to its end       *)
(* before the application accepts a request or claims work.                *)
(***************************************************************************)
durableUnchanged == <<durableRun, durableEvaluation, claimVars, groupVars, maximumRunning>>

Crash ==
    /\ application # "down"
    /\ faults < MaxFaults /\ faults' = faults + 1
    /\ application' = "down"
    /\ pc' = [w \in Work |-> [k \in Tokens |-> "idle"]]
    /\ ending' = [w \in Work |-> "none"]
    /\ UNCHANGED <<durableUnchanged, codex, changes>>

Restart ==
    /\ application = "down"
    /\ application' = "recovering"
    /\ UNCHANGED <<durableUnchanged, pc, ending, codex, bounds>>

\* A started row whose tracked group is not known to have ended.
Unresolved(w) ==
    w \in queue /\ Started(w) /\ processGroup[w] = "tracked" /\ w \notin recovered

\* terminateTrackedCodexProcessGroup: SIGTERM, then SIGKILL.
SignalTrackedGroup(w) ==
    /\ application = "recovering" /\ Unresolved(w)
    /\ codex[w] \in Alive \ {"orphaned"}
    /\ codex' = [codex EXCEPT ![w] = "gone"]
    /\ UNCHANGED processUnchanged

\* Faulty variant: recorded before the group is gone.
PersistTerminationOutcome_Early(w) ==
    /\ application = "recovering" /\ Unresolved(w)
    /\ recovered' = recovered \cup {w}
    /\ UNCHANGED <<durableRun, durableEvaluation, claimVars, processGroup,
                   maximumRunning, volatile, bounds>>

PersistTerminationOutcome(w) ==
    /\ application = "recovering" /\ Unresolved(w)
    /\ codex[w] \notin Alive
    /\ recovered' = recovered \cup {w}
    /\ UNCHANGED <<durableRun, durableEvaluation, claimVars, processGroup,
                   maximumRunning, volatile, bounds>>

\* A group without its identity anchor, or one that cannot be signalled,
\* makes recovery throw: the application does not start.
RecoveryAborts(w) ==
    /\ application = "recovering" /\ Unresolved(w)
    /\ codex[w] = "orphaned" \/ (TerminationMayFail /\ codex[w] \in Alive)
    /\ application' = "down"
    /\ UNCHANGED <<durableUnchanged, pc, ending, codex, bounds>>

\* The final transaction: open attempts were interrupted, leases end, runs
\* that were running have failed, every started row is recovered.
FinishRecovery ==
    /\ application = "recovering"
    /\ \A w \in Work : ~Unresolved(w)
    /\ LET opened == {w \in Unstarted : attemptMarker[w] # 0}
       IN  /\ \A w \in opened : MarkerIsCurrent(w)
           /\ AppendFailures(opened, "interrupted")
    /\ leased' = leased \ Unstarted
    /\ FailRuns(Running)
    /\ recovered' = recovered \cup {w \in queue : Started(w)}
    /\ application' = "up"
    /\ UNCHANGED <<verdict, retryCycle, queue, fencingToken, processGroup,
                   maximumRunning, pc, ending, codex, bounds>>

-----------------------------------------------------------------------------
\* What the executor does by itself.
Advance(w, k) ==
    \/ BeginPreStartAttempt(w, k) \/ ReleaseClaim(w, k)
    \/ \E error \in {"checkout", "definitive"} : CheckoutFails(w, k, error)
    \/ CheckoutPrepared(w, k)
    \/ StartTracked(w, k) \/ StartOverLimit(w, k) \/ StartClaimLost(w, k)
    \/ RecordRefusal(w, k)
    \/ ObserveSubmission(w, k) \/ ObserveCancellation(w, k) \/ ObserveExit(w, k)
    \/ DeadlineFires(w, k) \/ CloseChannel(w, k) \/ Terminate(w, k)
    \/ FinishProcessGroup(w, k) \/ Settle(w, k)

\* What may happen to it: Codex submits, or something fails.
Disturb(w, k) ==
    \/ PreparationFails(w, k) \/ ExecutionFails(w, k) \/ TerminationFails(w, k)
    \/ \E result \in Results : Submit(w, k, result)

Executor(w, k) == Advance(w, k) \/ Disturb(w, k)

Worker == ClaimNothing \/ \E w \in Work : ClaimNext(w)

Request ==
    \/ \E e \in Evaluations : Admit(e) \/ CancelEvaluation(e) \/ RetryPreStart(e)
    \/ \E n \in 0 .. MaxConcurrency + 1 : SetConcurrency(n)

Process(w) == Launch(w) \/ SupervisorExits(w) \/ CodexCloses(w) \/ OrphanExits(w)

Recovery ==
    \/ Restart \/ FinishRecovery
    \/ \E w \in Work : \/ SignalTrackedGroup(w)
                       \/ PersistTerminationOutcome(w)
                       \/ RecoveryAborts(w)

Next ==
    \/ Request \/ Worker \/ Recovery \/ Crash
    \/ \E w \in Work : ReadyAtPasses(w) \/ Process(w) \/ LeaseLapses(w)
    \/ \E w \in Work, k \in Tokens : Executor(w, k)

Spec == Init /\ [][Next]_vars

-----------------------------------------------------------------------------
(***************************************************************************)
(* Type invariant.                                                         *)
(***************************************************************************)
TypeOK ==
    /\ executionStatus \in [Work -> Statuses]
    /\ verdict \in [Work -> Verdicts \cup {"none"}]
    /\ retryCycle \in [Work -> Nat \ {0}]
    /\ attempts \in [Work -> Nat]
    /\ lastError \in [Work -> PreStartErrors \cup {"none"}]
    /\ evaluation \in [Evaluations -> {"absent", "queued", "completed", "cancelled"}]
    /\ outcome \in [Evaluations -> Verdicts \cup {"none"}]
    /\ queue \subseteq Work /\ leased \subseteq queue
    /\ exhausted \subseteq queue
    /\ recovered \subseteq {w \in queue : Started(w)}
    /\ fencingToken \in [Work -> Nat]
    /\ attemptMarker \in [Work -> Nat]
    /\ processGroup \in [Work -> {"none", "tracked", "finished"}]
    /\ maximumRunning \in 1 .. MaxConcurrency
    /\ application \in {"up", "recovering", "down"}
    /\ pc \in [Work -> [Tokens -> Steps]]
    /\ ending \in [Work -> Endings]
    /\ codex \in [Work -> GroupStates]
    /\ faults \in Nat /\ changes \in Nat

\* The line of ready work is a sequence of distinct unstarted rows, none of
\* them exhausted.  (A row on it twice would be claimed out of turn.)
ReadyLineOK ==
    /\ readyLine \in Seq(Unstarted \ exhausted)
    /\ \A i, j \in DOMAIN readyLine : readyLine[i] = readyLine[j] => i = j

(***************************************************************************)
(* Fencing.  Executors of superseded claims may still be running, but only *)
(* the executor of the newest claim is ever past the start, so a Review    *)
(* Run never has two executions: codex-execution-start.ts and the worker   *)
(* and token tests of every update.                                        *)
(***************************************************************************)
OnlyNewestClaimExecutes ==
    \A w \in Work, k \in Tokens :
        pc[w][k] \in StartedSteps =>
            w \in queue /\ Started(w) /\ fencingToken[w] = k

(***************************************************************************)
(* Every process group that may have a live member is on record: a crash   *)
(* at any point leaves a row from which recovery finds and signals it.     *)
(* (startTracked commits the group before the launch message is sent, and  *)
(* finishProcessGroup comes after the termination.)                        *)
(***************************************************************************)
LiveGroupIsOnRecord ==
    \A w \in Work : codex[w] \in Alive => Unresolved(w)

\* The same for Codex itself, whatever signals fail: only survivors of a
\* Codex that has closed may be left off the record.
RunningCodexIsOnRecord ==
    \A w \in Work : codex[w] \in {"waiting", "running"} => Unresolved(w)

(***************************************************************************)
(* While the application serves requests, a running Review Run and a live  *)
(* Codex process group have an executor that will end them.                *)
(***************************************************************************)
EveryExecutionIsAttended ==
    application = "up" =>
        \A w \in Work :
            executionStatus[w] = "running" \/ codex[w] \in Alive =>
                \E k \in Tokens : pc[w][k] \in StartedSteps

(***************************************************************************)
(* An Evaluation ends with its Review Runs: it is queued exactly as long   *)
(* as one of them is not terminal, whoever ended the last one - a Result,  *)
(* a failure, a deadline, a cancellation or the recovery of several at     *)
(* once - and its outcome is the aggregate of their final facts.           *)
(***************************************************************************)
EvaluationFollowsItsRuns ==
    \A e \in Evaluations :
        LET final == AllTerminal(RunsOf(e), executionStatus)
        IN  /\ evaluation[e] = "queued" => ~final
            /\ evaluation[e] = "completed" =>
                   /\ final
                   /\ \A w \in RunsOf(e) : executionStatus[w] # "cancelled"
                   /\ outcome[e] = AggregateOutcome(e \in ApplicabilityErrors,
                                        RunsOf(e), executionStatus, verdict)
            /\ evaluation[e] = "cancelled" => final /\ outcome[e] = "error"
            /\ outcome[e] = "none" <=> evaluation[e] \in {"absent", "queued"}

(***************************************************************************)
(* An open attempt belongs to the current claim.  If it did not, the       *)
(* interrupted attempt could not be recorded and both claimNext and the    *)
(* recovery at startup would fail for ever.                                *)
(***************************************************************************)
OpenAttemptIsCurrent ==
    \A w \in Unstarted : attemptMarker[w] # 0 => MarkerIsCurrent(w)

(***************************************************************************)
(* One claim consumes at most one attempt, however it ends: its failure is *)
(* not also recorded as an interruption, and a stale executor records      *)
(* nothing.  Every earlier cycle has consumed a claim as well, and the     *)
(* claim that is still open may consume one more.                          *)
(***************************************************************************)
OneAttemptPerClaim ==
    \A w \in Unstarted :
        attempts[w] + (retryCycle[w] - 1)
            + (IF w \in leased \/ attemptMarker[w] # 0 THEN 1 ELSE 0)
        <= fencingToken[w]

(***************************************************************************)
(* The retry budget: a row that may still be claimed has an attempt left,  *)
(* an exhausted one is parked, without a lease, until the Operator's retry.*)
(***************************************************************************)
RetryBudget ==
    \A w \in Unstarted :
        /\ w \notin exhausted => attempts[w] < AttemptLimit
        /\ w \in exhausted => /\ attempts[w] \in 1 .. AttemptLimit
                               /\ w \notin leased /\ attemptMarker[w] = 0

\* Attempts are accounted for: no open attempt is orphaned, none is charged
\* twice and none exceeds the budget, however the claims of a row overlap.
AttemptsAreAccounted == OpenAttemptIsCurrent /\ OneAttemptPerClaim /\ RetryBudget

\* Admission keeps the unstarted rows within the capacity of the queue.
QueueWithinCapacity == Cardinality(Unstarted) <= Capacity

\* The queue is in order: admissions, retries, cancellations and claims leave
\* it within its capacity and with the rows that wait for a time in line.
QueueIsInOrder == QueueWithinCapacity /\ ReadyLineOK

(***************************************************************************)
(* Action properties.                                                      *)
(***************************************************************************)

\* A step that takes a slot leaves no more slots taken than the limit of
\* that moment, and a step that starts a run no more runs running.
SlotsWithinLimit ==
    [][/\ Occupying' \subseteq Occupying \/ Cardinality(Occupying') <= maximumRunning
       /\ Running' \subseteq Running \/ Cardinality(Running') <= maximumRunning]_vars

\* Terminal facts are final: no later Result, failure, cancellation or
\* recovery changes the status or the stored Result of a terminal run, or
\* the outcome of a terminal Evaluation.
TerminalFactsAreFinal ==
    [][/\ \A w \in Work : executionStatus[w] \in Terminal =>
              executionStatus'[w] = executionStatus[w] /\ verdict'[w] = verdict[w]
       /\ \A e \in Evaluations : outcome[e] # "none" =>
              outcome'[e] = outcome[e] /\ evaluation'[e] = evaluation[e]]_vars

\* Outcomes are settled: every Evaluation ends with its runs, from their
\* final facts, and nothing that ended changes again.
OutcomesAreSettled == []EvaluationFollowsItsRuns /\ TerminalFactsAreFinal

\* Codex is prepared at most once for a Review Run, over all claims, retries
\* and restarts.
NeverExecutedTwice ==
    [][\A w \in Work : codex[w] # "none" /\ codex'[w] = "waiting" =>
           codex[w] = "waiting"]_vars

\* A claim is taken in ready_at order: no free row that was ready earlier is
\* passed over.
ClaimedInReadyOrder ==
    [][\A i, j \in DOMAIN readyLine :
           (i < j /\ fencingToken'[readyLine[j]] # fencingToken[readyLine[j]])
               => ~Claimable(readyLine[i])]_vars

\* Slots are taken in turn: by the first free row that is ready, and never
\* beyond the limit of the moment, at the claim and again at the start.
SlotsAreTakenInTurn == SlotsWithinLimit /\ ClaimedInReadyOrder

\* A Codex is accounted for: it is prepared once, and whatever signals fail,
\* no step takes it off the record before it has closed.
CodexIsAccountedFor == [][RunningCodexIsOnRecord']_vars /\ NeverExecutedTwice

(***************************************************************************)
(* What the code is documented to do and does not.                         *)
(***************************************************************************)

\* "raising or lowering changes only new claims": an executor whose claim is
\* current and leased is not refused its start because of the limit.
LoweringKeepsExistingClaims ==
    [][\A w \in Work, k \in Tokens :
           HoldsUnstarted(w, k) /\ pc[w][k] = "prepared" /\ pc'[w][k] = "refused"
               => w \in leased']_vars

\* "pre-start attempt was interrupted by application restart": an attempt is
\* recorded as interrupted only by the recovery of a restart.
InterruptedOnlyByRestart ==
    [][\A w \in Work :
           attempts'[w] > attempts[w] /\ lastError'[w] = "interrupted"
               => application = "recovering"]_vars

(***************************************************************************)
(* Refinement: the execution implements its lifecycle.                     *)
(***************************************************************************)
Lifecycle == INSTANCE ExecutionLifecycle

ImplementsLifecycle == Lifecycle!Spec

(***************************************************************************)
(* Liveness.  The worker's timer, the steps of an executor (each awaits    *)
(* something bounded by a timeout or a deadline) and the start of the      *)
(* application are fair.  Codex need not ever submit or close by itself.   *)
(* Survivors of a group that lost its anchor are assumed to exit.          *)
(***************************************************************************)
Fairness ==
    /\ WF_vars(Worker) /\ WF_vars(Recovery)
    /\ \A w \in Work : WF_vars(ReadyAtPasses(w)) /\ WF_vars(OrphanExits(w))
    /\ \A w \in Work, k \in Tokens : WF_vars(Advance(w, k))

FairSpec == Spec /\ Fairness

\* Every admitted run ends or waits for the Operator's retry.
EveryRunEndsOrIsParked ==
    \A w \in Work : executionStatus[w] \in Nonterminal ~>
        (executionStatus[w] \in Terminal \/ w \in exhausted)

\* The processes of a run that has ended, by cancellation too, are ended.
EveryGroupIsEnded ==
    \A w \in Work : executionStatus[w] \in Terminal ~> codex[w] \notin Alive
=============================================================================
