----------------------- MODULE CommitStatusPublication -----------------------
(***************************************************************************)
(* Publication of Evaluations as GitHub commit statuses:                   *)
(*   src/src/forge/commit-status/service.ts      the round of publication  *)
(*   src/src/github/github-commit-status-*.ts    rows, triggers, requests  *)
(*   src/src/github/github-delivery-service.ts   one delivery              *)
(*   src/src/github/github-delivery-recovery.ts, github-connection-*.ts    *)
(*   src/src/waiver/waiver-followup-schema.ts    adjudications           *)
(*                                                                         *)
(* Every head has one row: the Evaluation that controls it, the state that *)
(* is desired for it and how far its publication has come.  Triggers keep  *)
(* the row; a round copies the waiting rows and delivers them one by one,  *)
(* while the rows, the Evaluations and the connection go on changing.      *)
(* A provider performs a write only while its request is open.             *)
(***************************************************************************)
EXTENDS GitHubDelivery

CONSTANTS
    Evaluations,         \* numbered in the order of created_at and id
    Heads,               \* the heads of the repositories
    HeadOf,              \* HeadOf[e]: the head that e evaluates
    Results,             \* the states a result may have
    MaxDisturbances      \* bound on failures, crashes, verifications,
                         \* retirements, reactivations and adjudications

ASSUME EvaluationsAssumption == Evaluations \subseteq Nat \ {0}
ASSUME HeadOfAssumption == HeadOf \in [Evaluations -> Heads]
ASSUME ResultsAssumption == Results \subseteq {"success", "failure", "error"}
ASSUME BoundsAssumption == MaxDisturbances \in Nat

VARIABLES
    outcome,        \* outcome[e]: its status by its result and its decisions
    adjudication,   \* adjudication[e]: of its active adjudication
    adjudicated,    \* the Evaluations that have had one
    row,            \* row[h]: the row of github_commit_statuses
    attempt,        \* attempt[s]: the row of github_delivery_attempts
    lifecycle,      \* of the connection
    verified,       \* its verified_at, counted
    gated,          \* the gate of the provider is closed
    written,        \* written[s]: how often the provider has written s
    shown,          \* shown[h]: the last status it has written for h
    publisher,      \* "idle", "round" or "request"
    rows,           \* the rows of the round that are still to be delivered
    tried,          \* attemptedSources of the round
    request,        \* the delivery whose request is open
    runtimeFailed,  \* an error has stopped the product work
    disturbances    \* how many there have been

evaluationVars == <<outcome, adjudication, adjudicated>>
connectionVars == <<lifecycle, verified, gated>>
providerVars == <<written, shown>>
roundVars == <<publisher, rows, tried, request>>
vars == <<evaluationVars, row, attempt, connectionVars, providerVars,
          roundVars, runtimeFailed, disturbances>>

-----------------------------------------------------------------------------
States == {"pending"} \cup Results
Sources == Evaluations \X States

NoSource == <<0, "pending">>
NoRow == [source |-> NoSource, publication |-> "none"]

\* sourceId: the Evaluation and the state that is published.
Publications == {"waiting", "succeeded", "unavailable"}
RowType == [source : Sources, publication : Publications] \cup {NoRow}

Deliveries == [head : Heads, source : Sources]
NoRequest == [operation |-> "none"]
RequestType ==
    [operation : Operations, head : Heads, source : Sources,
     generation : Nat, written : BOOLEAN] \cup {NoRequest}

Active(e) == adjudication[e] \in {"queued", "running"}

\* readEffectiveWaiverOutcome and commitStatusForEvaluation.
Effective(e) == IF Active(e) THEN "pending" ELSE outcome[e]

\* The row of e, if e controls its head, desires state from now on.
Desire(e, state) ==
    row' = [row EXCEPT ![HeadOf[e]] =
        IF @.source[1] # e THEN @
        ELSE [source |-> <<e, state>>,
              publication |-> IF lifecycle = "retired" THEN "unavailable"
                                                       ELSE "waiting"]]

Init ==
    /\ outcome = [e \in Evaluations |-> "absent"]
    /\ adjudication = [e \in Evaluations |-> "none"]
    /\ adjudicated = {}
    /\ row = [h \in Heads |-> NoRow]
    /\ attempt = [s \in Sources |-> FreshAttempt]
    /\ lifecycle = "enabled" /\ verified = 1 /\ gated = FALSE
    /\ written = [s \in Sources |-> 0]
    /\ shown = [h \in Heads |-> NoSource]
    /\ publisher = "idle" /\ rows = {} /\ tried = {} /\ request = NoRequest
    /\ runtimeFailed = FALSE
    /\ disturbances = 0

\* Another callback of the event loop may run: a round goes from one request
\* to the next, from its start to the first and from the last to its end
\* without waiting for anything else.
Elsewhere == publisher # "round"

\* What the bound counts.
Disturb ==
    /\ disturbances < MaxDisturbances
    /\ disturbances' = disturbances + 1

-----------------------------------------------------------------------------
(* Evaluations and adjudications, by their triggers *)

\* Faulty variant: the Evaluation admitted last takes the head.
Controls_LastAdmitted(e) == TRUE

\* The later of two Evaluations of one head controls it.
Controls(e) == e > row[HeadOf[e]].source[1]

\* github_commit_status_admit.  A connection retires only with its
\* repositories, which then admit nothing.
Admit(e) ==
    /\ Elsewhere
    /\ outcome[e] = "absent" /\ lifecycle = "enabled"
    /\ outcome' = [outcome EXCEPT ![e] = "pending"]
    /\ row' = IF ~Controls(e) THEN row ELSE
         [row EXCEPT ![HeadOf[e]] =
             [source |-> <<e, "pending">>, publication |-> "waiting"]]
    /\ UNCHANGED <<adjudication, adjudicated, attempt, connectionVars,
                   providerVars, roundVars, runtimeFailed, disturbances>>

\* github_commit_status_complete.
Complete(e) ==
    /\ Elsewhere
    /\ outcome[e] = "pending"
    /\ \E state \in Results :
         /\ outcome' = [outcome EXCEPT ![e] = state]
         /\ Desire(e, state)
    /\ UNCHANGED <<adjudication, adjudicated, attempt, connectionVars,
                   providerVars, roundVars, runtimeFailed, disturbances>>

\* submit of a waiver batch, recovery of an adjudication.  No trigger looks at
\* a queued adjudication: the row keeps its desired state.
QueueAdjudication(e) ==
    /\ Elsewhere
    /\ outcome[e] \in Results \ {"success"} /\ ~Active(e)
    /\ Disturb
    /\ adjudication' = [adjudication EXCEPT ![e] = "queued"]
    /\ adjudicated' = adjudicated \cup {e}
    /\ UNCHANGED <<outcome, row, attempt, connectionVars, providerVars,
                   roundVars, runtimeFailed>>

\* waiver_followup_status_pending.
StartAdjudication(e) ==
    /\ Elsewhere
    /\ adjudication[e] = "queued"
    /\ adjudication' = [adjudication EXCEPT ![e] = "running"]
    /\ Desire(e, "pending")
    /\ UNCHANGED <<outcome, adjudicated, attempt, connectionVars,
                   providerVars, roundVars, runtimeFailed, disturbances>>

\* waiver_followup_status_finish, with the outcome the decisions leave.
FinishAdjudication(e) ==
    /\ Elsewhere
    /\ adjudication[e] = "running"
    /\ adjudication' = [adjudication EXCEPT ![e] = "none"]
    /\ \E state \in Results :
         /\ outcome' = [outcome EXCEPT ![e] = state]
         /\ Desire(e, state)
    /\ UNCHANGED <<adjudicated, attempt, connectionVars, providerVars,
                   roundVars, runtimeFailed, disturbances>>

-----------------------------------------------------------------------------
(* The connection *)

\* The sources whose delivery a new authority takes up again.
Resumable == {row[h].source : h \in {g \in Heads :
                 /\ row[g] # NoRow
                 /\ attempt[row[g].source].verdict = "recoverable"}}

\* resumeGitHubDeliveries.
Resume ==
    /\ attempt' = [s \in Sources |->
         IF s \in Resumable THEN Resumed(attempt[s]) ELSE attempt[s]]
    /\ row' = [h \in Heads |->
         IF row[h].publication = "unavailable" /\ row[h].source \in Resumable
         THEN [row[h] EXCEPT !.publication = "waiting"] ELSE row[h]]

\* recordGitHubConnectionVerification: a success resumes what had failed for
\* want of authority.  Either one moves verified_at.
Verify ==
    /\ Elsewhere
    /\ lifecycle = "enabled" /\ Disturb
    /\ verified' = verified + 1
    /\ \/ Resume
       \/ UNCHANGED <<row, attempt>>
    /\ UNCHANGED <<evaluationVars, lifecycle, gated, providerVars, roundVars,
                   runtimeFailed>>

\* Faulty variant: the waiting statuses of the connection are forgotten.
RetiredRows_Nothing == row

\* The statuses that wait become unavailable.
RetiredRows ==
    [h \in Heads |-> IF row[h].publication = "waiting"
                     THEN [row[h] EXCEPT !.publication = "unavailable"]
                     ELSE row[h]]

\* retireGitHubConnection.
Retire ==
    /\ Elsewhere
    /\ lifecycle = "enabled" /\ Disturb
    /\ lifecycle' = "retired" /\ gated' = FALSE
    /\ row' = RetiredRows
    /\ attempt' = [s \in Sources |->
         IF \E h \in Heads : RetiredRows[h] = [source |-> s,
                                               publication |-> "unavailable"]
         THEN RetiredAttempt(attempt[s]) ELSE attempt[s]]
    /\ UNCHANGED <<evaluationVars, verified, providerVars, roundVars,
                   runtimeFailed>>

\* completeInstallation of a retired connection.
Reactivate ==
    /\ Elsewhere
    /\ lifecycle = "retired" /\ Disturb
    /\ lifecycle' = "enabled" /\ verified' = verified + 1
    /\ Resume
    /\ UNCHANGED <<evaluationVars, gated, providerVars, roundVars,
                   runtimeFailed>>

\* next_attempt_at passes.
BackoffPasses(s) ==
    /\ ~attempt[s].due
    /\ attempt' = [attempt EXCEPT ![s].due = TRUE]
    /\ UNCHANGED <<evaluationVars, row, connectionVars, providerVars,
                   roundVars, runtimeFailed, disturbances>>

\* gate_until passes.
GatePasses ==
    /\ gated /\ gated' = FALSE
    /\ UNCHANGED <<evaluationVars, row, attempt, lifecycle, verified,
                   providerVars, roundVars, runtimeFailed, disturbances>>

-----------------------------------------------------------------------------
(* A round of publication *)

\* fetchWaitingRows: a retired connection has no credentials to join.
WaitingRows ==
    IF lifecycle = "retired" THEN {} ELSE
        {[head |-> h, source |-> row[h].source] :
            h \in {g \in Heads : row[g].publication = "waiting"}}

\* The loop of publishWaiting, until every waiting source has been tried.
FetchRows ==
    LET untried == {r \in WaitingRows : r.source \notin tried}
    IN  /\ publisher \in {"idle", "round"} /\ rows = {} /\ ~runtimeFailed
        /\ publisher = "round" \/ untried # {}
        /\ rows' = untried
        /\ publisher' = IF untried = {} THEN "idle" ELSE "round"
        /\ tried' = IF untried = {} THEN {} ELSE tried
        /\ UNCHANGED <<evaluationVars, row, attempt, connectionVars,
                       providerVars, request, runtimeFailed, disturbances>>

\* succeedGitHubDelivery with onSuccess: the row follows if it still waits for
\* this source.
Succeed(h, s, generation) ==
    IF ~Held(attempt[s], generation, verified)
    THEN UNCHANGED <<attempt, row>>
    ELSE /\ attempt' = [attempt EXCEPT ![s] = Succeeded(@)]
         /\ row' = [row EXCEPT ![h] =
              IF @ = [source |-> s, publication |-> "waiting"]
              THEN [@ EXCEPT !.publication = "succeeded"] ELSE @]

\* failGitHubDelivery with onDefinitive and recordGitHubDeliveryHealth: an
\* authority that failed puts the connection in error at a new verified_at.
Fail(h, s, generation, failure, operation) ==
    IF ~Held(attempt[s], generation, verified)
    THEN UNCHANGED <<attempt, row, gated, verified>>
    ELSE /\ attempt' = [attempt EXCEPT ![s] = Failed(@, failure, operation)]
         /\ gated' = (gated \/ failure = "limited")
         /\ row' = [row EXCEPT ![h] =
              IF /\ VerdictOf(failure) # "none"
                 /\ @ = [source |-> s, publication |-> "waiting"]
              THEN [@ EXCEPT !.publication = "unavailable"] ELSE @]
         /\ verified' = IF failure = "authority" THEN verified + 1 ELSE verified

\* What an iteration of the round does first.
Take(r) ==
    /\ publisher = "round" /\ r \in rows
    /\ rows' = rows \ {r}
    /\ tried' = tried \cup {r.source}

\* "commit status durable state is invalid": the copied row no longer says what
\* the Evaluation says.  The error leaves the round and, through
\* runInBackground and reportBackgroundFailure, stops the product work.
FindRowInvalid(r) ==
    /\ publisher = "round" /\ r \in rows
    /\ Effective(r.source[1]) # r.source[2]
    /\ runtimeFailed' = TRUE
    /\ publisher' = "idle" /\ rows' = {} /\ tried' = {}
    /\ UNCHANGED <<evaluationVars, row, attempt, connectionVars, providerVars,
                   request, disturbances>>

\* A source that has been published is confirmed with the generation just
\* read; one that may not begin is left for a later round.
PassRow(r) ==
    LET d == attempt[r.source]
    IN  /\ Effective(r.source[1]) = r.source[2]
        /\ d.external \/ ~MayBegin(d, gated)
        /\ Take(r)
        /\ IF d.external THEN Succeed(r.head, r.source, d.generation)
                         ELSE UNCHANGED <<attempt, row>>
        /\ UNCHANGED <<evaluationVars, connectionVars, providerVars, publisher,
                       request, runtimeFailed, disturbances>>

\* The delivery d of r opens its request for operation.
Open(r, d, operation) ==
    /\ attempt' = [attempt EXCEPT ![r.source] = Begun(d, verified, operation)]
    /\ publisher' = "request"
    /\ request' = [operation |-> operation, head |-> r.head,
                   source |-> r.source, generation |-> d.generation,
                   written |-> FALSE]

\* attemptGitHubDelivery, up to its await.
BeginRow(r) ==
    LET d == attempt[r.source]
    IN  /\ Effective(r.source[1]) = r.source[2]
        /\ ~d.external /\ MayBegin(d, gated)
        /\ Take(r)
        /\ Open(r, d, IF d.reconcile THEN "reconcile" ELSE "create")
        /\ UNCHANGED <<evaluationVars, row, connectionVars, providerVars,
                       runtimeFailed, disturbances>>

\* Faulty variant: the delivery is left open.
Close_Open == publisher' = "round" /\ UNCHANGED request

\* The delivery is over; the round goes on.
Close == publisher' = "round" /\ request' = NoRequest

-----------------------------------------------------------------------------
(* The request *)

\* The provider performs the write; its answer may be lost.
Write ==
    /\ request.operation = "create" /\ ~request.written
    /\ request' = [request EXCEPT !.written = TRUE]
    /\ written' = [written EXCEPT ![request.source] = @ + 1]
    /\ shown' = [shown EXCEPT ![request.head] = request.source]
    /\ UNCHANGED <<evaluationVars, row, attempt, connectionVars, publisher,
                   rows, tried, runtimeFailed, disturbances>>

\* publishCommitStatus has returned the identity.
CreateAnswered ==
    /\ request.operation = "create" /\ request.written
    /\ Succeed(request.head, request.source, request.generation)
    /\ Close
    /\ UNCHANGED <<evaluationVars, connectionVars, providerVars, rows, tried,
                   runtimeFailed, disturbances>>

\* reconcileCommitStatus has found the status.
ReconcileFound ==
    /\ request.operation = "reconcile" /\ written[request.source] = 1
    /\ Succeed(request.head, request.source, request.generation)
    /\ Close
    /\ UNCHANGED <<evaluationVars, connectionVars, providerVars, rows, tried,
                   runtimeFailed, disturbances>>

\* reconcileCommitStatus has found nothing: the absence is recorded and, in the
\* same step, the creation begins, unless the row was taken over.
ReconcileAbsent ==
    LET d == ProvenAbsent(attempt[request.source])
    IN  /\ request.operation = "reconcile" /\ written[request.source] = 0
        /\ IF ~Held(attempt[request.source], request.generation, verified)
           THEN Close /\ UNCHANGED attempt
           ELSE IF MayBegin(d, gated)
           THEN Open(request, d, "create")
           ELSE Close /\ attempt' = [attempt EXCEPT ![request.source] = d]
        /\ UNCHANGED <<evaluationVars, row, connectionVars, providerVars, rows,
                       tried, runtimeFailed, disturbances>>

\* The request fails.  A refusal or a limit has written nothing; that a status
\* was found twice is what a reconciliation concludes.
RequestFails ==
    /\ request.operation \in Operations /\ Disturb
    /\ \E failure \in Failures :
         /\ request.written => failure = "unavailable"
         /\ (failure = "conflict") =
              (request.operation = "reconcile" /\ written[request.source] > 1)
         /\ Fail(request.head, request.source, request.generation, failure,
                 request.operation)
    /\ Close
    /\ UNCHANGED <<evaluationVars, lifecycle, providerVars, rows, tried,
                   runtimeFailed>>

-----------------------------------------------------------------------------
\* The process ends and starts again; what it held in memory is lost.
Crash ==
    /\ Disturb
    /\ publisher' = "idle" /\ rows' = {} /\ tried' = {} /\ request' = NoRequest
    /\ runtimeFailed' = FALSE
    /\ UNCHANGED <<evaluationVars, row, attempt, connectionVars, providerVars>>

Deliver == Write \/ CreateAnswered \/ ReconcileFound \/ ReconcileAbsent

Next ==
    \/ \E e \in Evaluations :
         \/ Admit(e) \/ Complete(e) \/ QueueAdjudication(e)
         \/ StartAdjudication(e) \/ FinishAdjudication(e)
    \/ Verify \/ Retire \/ Reactivate
    \/ \E s \in Sources : BackoffPasses(s)
    \/ GatePasses
    \/ FetchRows
    \/ \E r \in Deliveries : FindRowInvalid(r) \/ PassRow(r) \/ BeginRow(r)
    \/ Deliver \/ RequestFails
    \/ Crash

Spec == Init /\ [][Next]_vars

\* The timer of one second starts rounds, the event loop continues them, and
\* an open request ends; disturbances are bounded.
Fairness ==
    /\ WF_vars(FetchRows)
    /\ WF_vars(\E r \in Deliveries : FindRowInvalid(r) \/ PassRow(r) \/ BeginRow(r))
    /\ WF_vars(Deliver)
    /\ \A s \in Sources : WF_vars(BackoffPasses(s))
    /\ WF_vars(GatePasses)

FairSpec == Spec /\ Fairness

-----------------------------------------------------------------------------
(* Properties *)

TypeOK ==
    /\ outcome \in [Evaluations -> {"absent"} \cup States]
    /\ adjudication \in [Evaluations -> {"none", "queued", "running"}]
    /\ adjudicated \subseteq Evaluations
    /\ row \in [Heads -> RowType]
    /\ attempt \in [Sources -> AttemptType]
    /\ lifecycle \in {"enabled", "retired"}
    /\ verified \in Nat /\ gated \in BOOLEAN
    /\ written \in [Sources -> Nat]
    /\ shown \in [Heads -> Sources \cup {NoSource}]
    /\ publisher \in {"idle", "round", "request"}
    /\ rows \subseteq Deliveries /\ tried \subseteq Sources
    /\ request \in RequestType
    /\ (publisher = "request") = (request # NoRequest)
    /\ runtimeFailed \in BOOLEAN
    /\ disturbances \in Nat

\* No status is written twice, however often the requests fail, the process
\* crashes and the connection is verified, retired or reactivated while a
\* request is open: beginGitHubDeliveryAttempt, "every create crash reconciles
\* before another status, aggregate, or inline write".
WrittenOnce == \A s \in Sources : written[s] <= 1

\* A row that says succeeded is true: the provider shows, as the last status of
\* the head, the one of its latest Evaluation.  Deliveries that were under way
\* for another state or an older Evaluation neither take its place nor are
\* taken for it.  An Evaluation that was adjudicated is excepted: see
\* AdjudicatedStatusIsPublished.
SucceededIsShown ==
    \A h \in Heads :
        LET e == row[h].source[1]
        IN  row[h].publication = "succeeded" /\ e \notin adjudicated =>
              /\ shown[h] = <<e, outcome[e]>>
              /\ \A f \in Evaluations :
                   HeadOf[f] = h /\ outcome[f] # "absent" => f <= e

\* A waiting status can be delivered: its delivery is neither definitive nor
\* taken for done, so some round will open a request for it.  The rows and the
\* deliveries are two tables that triggers, failures, the retirement and the
\* recovery of the connection keep in step.
WaitingCanBeDelivered ==
    \A h \in Heads :
        row[h].publication = "waiting" /\ row[h].source[1] \notin adjudicated
        => /\ attempt[row[h].source].verdict = "none"
           /\ ~attempt[row[h].source].external

\* The rows are true, the waiting ones to the deliveries and the succeeded
\* ones to what the provider shows (and all of them to their types).
RowsAreTrue == TypeOK /\ SucceededIsShown /\ WaitingCanBeDelivered

\* "retirement wins successful and failed in-flight delivery completions": while
\* the connection is retired nothing waits, and no status becomes succeeded,
\* although a delivery that began before may still be answered.
RetirementWins ==
    [][lifecycle = "retired" /\ lifecycle' = "retired" =>
         \A h \in Heads :
            /\ row'[h].publication # "waiting"
            /\ row'[h].publication = "succeeded" => row'[h] = row[h]]_vars

\* A new authority fences what began under the old one: "stale reconciliation
\* cannot create after delivery authority changes", and the answer of an older
\* request changes no row.
OldAuthorityIsFenced ==
    [][\A s \in Sources :
         /\ request # NoRequest /\ request.source = s
         /\ verified # attempt[s].authority
         /\ request' # request
         => /\ request.operation = "reconcile" => request'.operation # "create"
            /\ row' = row]_vars

\* A change of the connection wins over the requests it overtakes, be it the
\* retirement or a new authority.
ConnectionChangesWin == RetirementWins /\ OldAuthorityIsFenced

\* As long as the product works, a waiting status is published, refused for
\* good or replaced by a newer one, through failures, closed gates, crashes and
\* changes of authority.
StatusIsPublished ==
    \A s \in Sources :
        (/\ row[HeadOf[s[1]]] = [source |-> s, publication |-> "waiting"]
         /\ s[1] \notin adjudicated)
        ~> (\/ row[HeadOf[s[1]]] # [source |-> s, publication |-> "waiting"]
            \/ s[1] \in adjudicated \/ runtimeFailed)

\* The assertion of service.ts: the state that a delivery is about to publish
\* is the one the Evaluation has.
DurableStateIsValid == ~runtimeFailed

\* What the tests of waiver follow-ups show of a first adjudication: the state
\* a status returns to is published again.
AdjudicatedStatusIsPublished ==
    \A s \in Sources :
        row[HeadOf[s[1]]] = [source |-> s, publication |-> "waiting"]
        ~> (\/ row[HeadOf[s[1]]] # [source |-> s, publication |-> "waiting"]
            \/ runtimeFailed)
=============================================================================
