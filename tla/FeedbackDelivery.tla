--------------------------- MODULE FeedbackDelivery ---------------------------
(***************************************************************************)
(* Feedback on the pull request of one automatic Evaluation and the        *)
(* follow-up of one of its waiver adjudications, at either forge:          *)
(*   src/src/forge/feedback/materializer.ts      a round of feedback       *)
(*   src/src/github/github-feedback-*.ts, github-waiver-followup-service.ts*)
(*   src/src/forgejo/forgejo-feedback-*.ts, forgejo-delivery-*.ts,         *)
(*     forgejo-publication-retirement.ts, forgejo-waiver-followup-service.ts*)
(*                                                                         *)
(* A post is a row that triggers or a round insert and a delivery settles. *)
(* Two services deliver them one by one, each in rounds of its own; both   *)
(* share the connection and the gate of the provider.  The delivery        *)
(* protocol of the two forges is that of GitHubDelivery; where they differ *)
(* is what is admitted, taken up and retired.                              *)
(***************************************************************************)
EXTENDS GitHubDelivery

CONSTANT MaxFaults       \* bound on failures, crashes and changes of the connection

VARIABLES
    provider,       \* the forge
    stage,          \* of the Evaluation and then of its adjudication
    posts,          \* posts[s]: the publication_status of the row of s
    deliveries,     \* deliveries[s]: its row of *_delivery_attempts
    lifecycle,      \* of the connection; its Repository retires before it
    healthy,        \* the connection and the Repository are
    verified,       \* verified_at of the connection, counted
    gated,          \* the gate of the provider is closed
    comments,       \* comments[s]: how often the provider has written s
    workers,        \* workers[v]: where the round of the service v is
    faults          \* how many there have been

linkVars == <<lifecycle, healthy, verified, gated>>
postVars == <<posts, deliveries>>
vars == <<provider, stage, postVars, linkVars, comments, workers, faults>>

-----------------------------------------------------------------------------
Sources == {"aggregate", "inline", "followup"}
Services == {"feedback", "followups"}

\* aggregate_only and a Finding without a place in the diff are no post.
PostStatus == {"none", "waiting", "succeeded", "unavailable"}

Idle == [at |-> "idle", source |-> "aggregate", operation |-> "create",
         generation |-> 0, wrote |-> FALSE]
WorkerType == [at : {"idle", "round", "request"}, source : Sources,
               operation : Operations, generation : Nat, wrote : BOOLEAN]

\* The sources of v in the order of its round.
RoundOf(v) == IF v = "feedback" THEN <<"aggregate", "inline">> ELSE <<"followup">>

Init ==
    /\ provider \in {"github", "forgejo"}
    /\ stage = "running"
    /\ posts = [s \in Sources |-> "none"]
    /\ deliveries = [s \in Sources |-> FreshAttempt]
    /\ lifecycle = "enabled" /\ healthy = TRUE /\ verified = 1 /\ gated = FALSE
    /\ comments = [s \in Sources |-> 0]
    /\ workers = [v \in Services |-> Idle]
    /\ faults = 0

\* Between two deliveries of a round nothing else runs.
Elsewhere == \A v \in Services : workers[v].at # "round"

Fault == faults < MaxFaults /\ faults' = faults + 1

-----------------------------------------------------------------------------
(* Rows and the attempts inserted with them *)

\* forgejo_*_delivery_admit makes what a retired connection admits definitive;
\* the triggers of GitHub do not look.
AdmittedAttempt(retired) ==
    IF provider = "forgejo" /\ retired
    THEN [FreshAttempt EXCEPT !.verdict = "recoverable"] ELSE FreshAttempt

AdmittedPost(retired) == IF retired THEN "unavailable" ELSE "waiting"

\* The result of the Evaluation inserts its bundle.
CompleteEvaluation ==
    /\ Elsewhere /\ stage = "running" /\ stage' = "completed"
    /\ posts' = [posts EXCEPT !["aggregate"] = AdmittedPost(lifecycle = "retired")]
    /\ deliveries' = [deliveries EXCEPT
                         !["aggregate"] = AdmittedAttempt(lifecycle = "retired")]
    /\ UNCHANGED <<provider, linkVars, comments, workers, faults>>

\* waiver_followup_admit; its attempt is inserted by its first delivery.
CompleteAdjudication ==
    /\ Elsewhere /\ stage = "completed" /\ stage' = "adjudicated"
    /\ posts' = [posts EXCEPT !["followup"] = AdmittedPost(lifecycle = "retired")]
    /\ UNCHANGED <<provider, deliveries, linkVars, comments, workers, faults>>

\* materializeFindingFeedback: the first round finds the bundle as it is then.
Materialize ==
    LET retired == posts["aggregate"] = "unavailable" IN
    IF posts["aggregate"] = "none" \/ posts["inline"] # "none"
    THEN UNCHANGED postVars
    ELSE /\ posts' = [posts EXCEPT !["inline"] = AdmittedPost(retired)]
         /\ deliveries' = [deliveries EXCEPT !["inline"] = AdmittedAttempt(retired)]

-----------------------------------------------------------------------------
(* The connection *)

\* resumeGitHubDeliveries, resumeForgejoDeliveries: every correctable refusal
\* and the rows whose attempt it has taken up.
Resume ==
    LET taken == {s \in Sources : deliveries[s].verdict = "recoverable"} IN
    /\ deliveries' = [s \in Sources |-> IF s \in taken THEN Resumed(deliveries[s])
                                                       ELSE deliveries[s]]
    /\ posts' = [s \in Sources |->
           IF s \in taken /\ posts[s] = "unavailable" THEN "waiting" ELSE posts[s]]

\* A verification of the enabled connection succeeds or finds it at fault.
Verify ==
    /\ Elsewhere /\ Fault
    /\ lifecycle = "enabled" /\ verified' = verified + 1
    /\ \/ Resume /\ healthy' = TRUE
       \/ UNCHANGED postVars /\ healthy' = FALSE
    /\ UNCHANGED <<provider, stage, lifecycle, gated, comments, workers>>

\* The posts that a retirement makes unavailable.
RetiredPosts ==
    [s \in Sources |-> IF posts[s] = "waiting" THEN "unavailable" ELSE posts[s]]

\* The attempts it takes over: at GitHub those of every unavailable row, at
\* Forgejo those it makes unavailable, and what followups have ever begun.
TakenByRetirement ==
    {s \in Sources \ {"followup"} :
        /\ RetiredPosts[s] = "unavailable"
        /\ provider = "github" \/ posts[s] = "waiting"}
    \cup {s \in {"followup"} : deliveries[s].generation > 0}

\* commitRetirement, retireForgejoPublicationRows.
Retire ==
    /\ Elsewhere /\ Fault
    /\ lifecycle = "enabled" /\ lifecycle' = "retired" /\ gated' = FALSE
    /\ posts' = RetiredPosts
    /\ deliveries' = [s \in Sources |->
           IF s \in TakenByRetirement THEN RetiredAttempt(deliveries[s])
                                      ELSE deliveries[s]]
    /\ UNCHANGED <<provider, stage, healthy, verified, comments, workers>>

\* Reactivation, once the retired connection is verified.
Reactivate ==
    /\ Elsewhere /\ Fault
    /\ lifecycle = "retired" /\ lifecycle' = "enabled"
    /\ healthy' = TRUE /\ verified' = verified + 1
    /\ Resume
    /\ UNCHANGED <<provider, stage, gated, comments, workers>>

\* next_attempt_at and gate_until pass.
TimePasses ==
    \/ /\ gated /\ gated' = FALSE
       /\ UNCHANGED <<provider, stage, postVars, lifecycle, healthy, verified,
                      comments, workers, faults>>
    \/ /\ \E s \in Sources : ~deliveries[s].due
                             /\ deliveries' = [deliveries EXCEPT ![s].due = TRUE]
       /\ UNCHANGED <<provider, stage, posts, linkVars, comments, workers, faults>>

-----------------------------------------------------------------------------
(* Rounds *)

\* The connection whose rows a round of v looks at: its credential is there
\* and, at Forgejo, what the query of v demands.
Served(v) ==
    /\ lifecycle = "enabled"
    /\ provider = "forgejo" /\ v = "feedback" => healthy

\* publishWaiting, up to the first delivery: missing rows are inserted first,
\* whatever the connection.
StartRound(v) ==
    /\ Elsewhere /\ workers[v].at = "idle"
    /\ IF v = "feedback" THEN Materialize ELSE UNCHANGED postVars
    /\ LET wanted == \E i \in DOMAIN RoundOf(v) : posts'[RoundOf(v)[i]] = "waiting"
       IN  /\ (wanted /\ Served(v)) \/ posts' # posts
           /\ workers' = IF ~(wanted /\ Served(v)) THEN workers ELSE
                  [workers EXCEPT ![v] = [Idle EXCEPT !.at = "round",
                                                      !.source = RoundOf(v)[1]]]
    /\ UNCHANGED <<provider, stage, linkVars, comments, faults>>

\* What v goes on with after its delivery of s.
After(s) ==
    IF s = "aggregate" THEN [Idle EXCEPT !.at = "round", !.source = "inline"]
                       ELSE Idle

\* beginForgejoDeliveryAttempt asks for a healthy connection and Repository.
MayStart(d) == MayBegin(d, gated) /\ (provider = "forgejo" => healthy)

\* succeed*Delivery with onSuccess, if the attempt holds.
Settle(s, generation) ==
    IF ~Held(deliveries[s], generation, verified) THEN UNCHANGED postVars
    ELSE /\ deliveries' = [deliveries EXCEPT ![s] = Succeeded(@)]
         /\ posts' = [posts EXCEPT ![s] = IF @ = "waiting" THEN "succeeded" ELSE @]

\* A post that no longer waits, is known to be there or may not begin.
Pass(v) ==
    LET s == workers[v].source
        d == deliveries[s]
    IN  /\ workers[v].at = "round"
        /\ posts[s] # "waiting" \/ d.external \/ ~MayStart(d)
        /\ IF posts[s] = "waiting" /\ d.external THEN Settle(s, d.generation)
                                                 ELSE UNCHANGED postVars
        /\ workers' = [workers EXCEPT ![v] = After(s)]
        /\ UNCHANGED <<provider, stage, linkVars, comments, faults>>

Open(v, s, d, operation) ==
    /\ deliveries' = [deliveries EXCEPT ![s] = Begun(d, verified, operation)]
    /\ workers' = [workers EXCEPT ![v] =
           [at |-> "request", source |-> s, operation |-> operation,
            generation |-> d.generation, wrote |-> FALSE]]

\* attempt*Delivery, up to its await.
Begin(v) ==
    LET s == workers[v].source
        d == deliveries[s]
    IN  /\ workers[v].at = "round" /\ posts[s] = "waiting"
        /\ ~d.external /\ MayStart(d)
        /\ Open(v, s, d, IF d.reconcile THEN "reconcile" ELSE "create")
        /\ UNCHANGED <<provider, stage, posts, linkVars, comments, faults>>

-----------------------------------------------------------------------------
(* Requests *)

\* The provider performs the write; its answer may be lost.
Write(v) ==
    LET s == workers[v].source IN
    /\ workers[v].at = "request" /\ workers[v].operation = "create"
    /\ ~workers[v].wrote
    /\ workers' = [workers EXCEPT ![v].wrote = TRUE]
    /\ comments' = [comments EXCEPT ![s] = @ + 1]
    /\ UNCHANGED <<provider, stage, postVars, linkVars, faults>>

\* The identity of the comment is returned, or found by its source identity.
Answered(v) ==
    LET w == workers[v] IN
    /\ Elsewhere /\ w.at = "request"
    /\ IF w.operation = "create" THEN w.wrote ELSE comments[w.source] = 1
    /\ Settle(w.source, w.generation)
    /\ workers' = [workers EXCEPT ![v] = After(w.source)]
    /\ UNCHANGED <<provider, stage, linkVars, comments, faults>>

\* Nothing is found: its absence is recorded and the creation begins at once.
Absent(v) ==
    LET w == workers[v]
        d == ProvenAbsent(deliveries[w.source])
    IN  /\ Elsewhere /\ w.at = "request" /\ w.operation = "reconcile"
        /\ comments[w.source] = 0
        /\ IF ~Held(deliveries[w.source], w.generation, verified)
           THEN UNCHANGED deliveries /\ workers' = [workers EXCEPT ![v] = After(w.source)]
           ELSE IF MayStart(d) THEN Open(v, w.source, d, "create")
           ELSE /\ deliveries' = [deliveries EXCEPT ![w.source] = d]
                /\ workers' = [workers EXCEPT ![v] = After(w.source)]
        /\ UNCHANGED <<provider, stage, posts, linkVars, comments, faults>>

\* fail*Delivery with onDefinitive and the health of who owns the failure.
Fail(s, generation, failure, operation) ==
    IF ~Held(deliveries[s], generation, verified)
    THEN UNCHANGED <<postVars, healthy, gated, verified>>
    ELSE /\ deliveries' = [deliveries EXCEPT ![s] = Failed(@, failure, operation)]
         /\ posts' = [posts EXCEPT ![s] =
                IF VerdictOf(failure) # "none" /\ @ = "waiting" THEN "unavailable"
                                                                ELSE @]
         /\ healthy' = (healthy /\ failure \notin {"authority", "repository"})
         /\ gated' = (gated \/ failure = "limited")
         /\ verified' = IF failure = "authority" THEN verified + 1 ELSE verified

Refused(v) ==
    LET w == workers[v] IN
    /\ Elsewhere /\ w.at = "request" /\ Fault
    /\ \E failure \in Failures :
         /\ w.wrote => failure = "unavailable"
         /\ (failure = "conflict") =
                (w.operation = "reconcile" /\ comments[w.source] > 1)
         /\ Fail(w.source, w.generation, failure, w.operation)
    /\ workers' = [workers EXCEPT ![v] = After(w.source)]
    /\ UNCHANGED <<provider, stage, lifecycle, comments>>

\* The process ends and starts again.
Crash ==
    /\ Fault
    /\ workers' = [v \in Services |-> Idle]
    /\ UNCHANGED <<provider, stage, postVars, linkVars, comments>>

-----------------------------------------------------------------------------
Deliver(v) == Pass(v) \/ Begin(v) \/ Write(v) \/ Answered(v) \/ Absent(v)

Next ==
    \/ CompleteEvaluation \/ CompleteAdjudication
    \/ Verify \/ Retire \/ Reactivate \/ TimePasses
    \/ \E v \in Services : StartRound(v) \/ Deliver(v) \/ Refused(v)
    \/ Crash

Spec == Init /\ [][Next]_vars

-----------------------------------------------------------------------------
TypeOK ==
    /\ provider \in {"github", "forgejo"}
    /\ stage \in {"running", "completed", "adjudicated"}
    /\ posts \in [Sources -> PostStatus]
    /\ deliveries \in [Sources -> AttemptType]
    /\ lifecycle \in {"enabled", "retired"} /\ healthy \in BOOLEAN
    /\ verified \in Nat /\ gated \in BOOLEAN
    /\ comments \in [Sources -> Nat]
    /\ workers \in [Services -> WorkerType]
    /\ faults \in 0 .. MaxFaults

\* No comment is written twice, whatever was lost, retired, taken up or crashed.
CommentedOnce == \A s \in Sources : comments[s] <= 1

\* Once a delivery was begun, its row is unavailable only with a verdict: it was
\* refused for good or is taken up by the next verification, however often the
\* connection is retired.  At Forgejo this holds of comments that no round has
\* begun as well.  It does not at GitHub, where what is inserted while the
\* connection is retired has a fresh delivery that a reactivation passes over, nor
\* of a follow-up that was never begun.
RetiredCanResume ==
    \A s \in Sources :
        /\ posts[s] = "unavailable"
        /\ deliveries[s].generation > 0 \/ (provider = "forgejo" /\ s # "followup")
        => deliveries[s].verdict # "none"
=============================================================================
