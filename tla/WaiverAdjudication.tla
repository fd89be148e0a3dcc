-------------------------- MODULE WaiverAdjudication --------------------------
(***************************************************************************)
(* Waivers of the Findings of one automatic Evaluation:                    *)
(*   src/src/waiver/waiver-batch.ts, waiver-error-retry.ts,                *)
(*   waiver-adjudication-recovery.ts      admission of adjudications       *)
(*   waiver-adjudication-execution.ts, -result-service.ts   their execution*)
(*   waiver-effective-outcome.ts, waiver-followup-*.ts      what they mean *)
(*                                                                         *)
(* A batch asks for a waiver of some advisory Findings and queues one      *)
(* adjudication of these Requests.  It completes with a Decision for every *)
(* Request or fails without any; then the errored Requests, or the whole   *)
(* adjudication, may be tried again by another one.  Triggers keep the     *)
(* status of the head and the follow-ups for the pull request.             *)
(*                                                                         *)
(* Every transaction is one step.  A refusal changes nothing and is no     *)
(* step: storage, capability, capacity and repository checks only refuse.  *)
(***************************************************************************)
EXTENDS Naturals, Sequences, FiniteSets

CONSTANTS
    Advisory,            \* the advisory Findings of the Evaluation
    Blocking,            \* its blocking Findings
    Outcomes,            \* the Results the Evaluation may have
    RequestLimit,        \* Requests of one Finding
    AttemptLimit,        \* pre-start attempts of one cycle
    MaxAdjudications     \* bound on the adjudications

VARIABLES
    result,         \* the Result of the Evaluation, "none" until it ends
    requests,       \* requests[r]: the Finding of the r-th Request
    adjudications,  \* in the order of their rowid
    desired,        \* the outcome the commit status of the head shows
    published,      \* the Findings whose inline comment is published
    replies         \* the <<a, r>> whose Decision is replied to such a comment

admissionVars == <<result, requests>>
followupVars == <<published, replies>>
vars == <<admissionVars, adjudications, desired, followupVars>>

-----------------------------------------------------------------------------
Findings == Advisory \cup Blocking
RequestIds == 1 .. RequestLimit * Cardinality(Advisory)
AdjudicationIds == 1 .. MaxAdjudications
Decisions == {"accepted", "denied", "error"}

AdjudicationType ==
    [asks : SUBSET RequestIds,
     status : {"queued", "running", "completed", "failed"},
     retry : {"ready", "exhausted"},
     claim : {"none", "held", "begun"},   \* begun: its attempt is open
     leased : BOOLEAN,
     attempts : 0 .. AttemptLimit,
     decided : UNION {[R -> Decisions] : R \in SUBSET RequestIds}]

NoDecisions == <<>>

Ids == DOMAIN adjudications
Requested == DOMAIN requests
Active == {a \in Ids : adjudications[a].status \in {"queued", "running"}}
AdjudicationsOf(r) == {a \in Ids : r \in adjudications[a].asks}
Newest(S) == CHOOSE n \in S : \A m \in S : m <= n

\* The Decision of r by the newest adjudication that asks for it.
LatestDecision(r) ==
    LET d == adjudications[Newest(AdjudicationsOf(r))].decided IN
    IF r \in DOMAIN d THEN d[r] ELSE "none"

\* The newest Decision of r, by whichever adjudication.
NewestDecision(r) ==
    LET deciding == {a \in AdjudicationsOf(r) :
                       r \in DOMAIN adjudications[a].decided} IN
    IF deciding = {} THEN "none" ELSE adjudications[Newest(deciding)].decided[r]

RequestsOf(f) == {r \in Requested : requests[r] = f}
Waived(f) == \E r \in RequestsOf(f) : NewestDecision(r) = "accepted"

\* Faulty variant: whatever was requested last may be requested again.
NextAction_Impatient(f) ==
    IF Waived(f) THEN "accepted"
    ELSE IF Cardinality(RequestsOf(f)) = RequestLimit THEN "limit_reached"
    ELSE "new_request"

\* waiverRequestNextAction: what may be done for a Finding.
NextAction(f) ==
    LET latest == NewestDecision(Newest(RequestsOf(f))) IN
    IF Waived(f) THEN "accepted"
    ELSE IF RequestsOf(f) = {} THEN "new_request"
    ELSE IF latest = "error" THEN "retry_error"
    ELSE IF Cardinality(RequestsOf(f)) = RequestLimit THEN "limit_reached"
    ELSE IF latest = "none" THEN "decision_required"
    ELSE "new_request"

-----------------------------------------------------------------------------
(* The outcome of the Evaluation with its waivers *)

\* The newest adjudication that asks for r failed or decided "error".
Errored(r) ==
    \/ adjudications[Newest(AdjudicationsOf(r))].status = "failed"
    \/ LatestDecision(r) = "error"

\* effectiveEvaluationOutcome and readEffectiveWaiverOutcome.
EffectiveOutcome ==
    IF adjudications = <<>> THEN IF result = "none" THEN "pending" ELSE result
    ELSE IF Active # {} \/ result = "none" THEN "pending"
    ELSE IF result = "error" \/ \E r \in Requested : Errored(r) THEN "error"
    ELSE IF Blocking # {} THEN "blocking"
    ELSE IF \E f \in Advisory : ~Waived(f) THEN "advisory"
    ELSE "clear"

\* Faulty variant: only the adjudication that ends is looked at for errors.
OutcomeAtEnd_Own(a) ==
    IF adjudications'[a].status = "failed" \/ result = "error" THEN "error"
    ELSE IF \E r \in adjudications[a].asks : LatestDecision(r)' = "error" THEN "error"
    ELSE IF Blocking # {} THEN "blocking"
    ELSE IF \E f \in Advisory : ~Waived(f)' THEN "advisory"
    ELSE "clear"

\* The trigger's own expression, after the step that ends a.
OutcomeAtEnd(a) ==
    IF adjudications'[a].status = "failed" \/ result = "error" THEN "error"
    ELSE IF \E r \in Requested : Errored(r)' THEN "error"
    ELSE IF Blocking # {} THEN "blocking"
    ELSE IF \E f \in Advisory : ~Waived(f)' THEN "advisory"
    ELSE "clear"

-----------------------------------------------------------------------------
Init ==
    /\ result = "none" /\ requests = <<>> /\ adjudications = <<>>
    /\ desired = "pending"
    /\ published = {} /\ replies = {}

\* The Result and the status of the Evaluation.
CompleteEvaluation ==
    /\ result = "none"
    /\ result' \in Outcomes
    /\ desired' = result'
    /\ UNCHANGED <<requests, adjudications, followupVars>>

Queued(R) ==
    [asks |-> R, status |-> "queued", retry |-> "ready", claim |-> "none",
     leased |-> FALSE, attempts |-> 0, decided |-> NoDecisions]

\* queueWaiverAdjudication.
Queue(R) ==
    /\ Len(adjudications) < MaxAdjudications
    /\ adjudications' = Append(adjudications, Queued(R))

\* submit: one new Request for each of the Findings F.
SubmitBatch(F) ==
    /\ result # "none" /\ Active = {} /\ F # {}
    /\ \A f \in F : NextAction(f) = "new_request"
    /\ \E new \in [1 .. Cardinality(F) -> F] :
         /\ \A i, j \in DOMAIN new : i # j => new[i] # new[j]
         /\ requests' = requests \o new
         /\ Queue({Len(requests) + i : i \in DOMAIN new})
    /\ UNCHANGED <<result, desired, followupVars>>

\* Faulty variant: a Request that has no Decision may be retried, too.
MayRetry_Undecided(r) == LatestDecision(r) \in {"error", "none"}

\* Only what the newest adjudication could not decide for an error.
MayRetry(r) == LatestDecision(r) = "error"

\* retryErrors: the Requests R again, by the operator.
RetryErrors(R) ==
    /\ Active = {} /\ R # {}
    /\ \A r \in R : MayRetry(r)
    /\ Queue(R)
    /\ UNCHANGED <<admissionVars, desired, followupVars>>

\* recoverAdjudication of a queued one: the same identity begins a new cycle.
RecoverExhausted(a) ==
    /\ adjudications[a].status = "queued"
    /\ adjudications[a].retry = "exhausted"
    /\ adjudications[a].claim = "none" \/ ~adjudications[a].leased
    /\ adjudications' = [adjudications EXCEPT ![a].retry = "ready",
                                              ![a].attempts = 0]
    /\ UNCHANGED <<admissionVars, desired, followupVars>>

\* recoverAdjudication of a failed one, unless a later one asks for a Request
\* of it: its Requests by a new adjudication.
RecoverFailed(a) ==
    /\ adjudications[a].status = "failed"
    /\ Active = {}
    /\ \A r \in adjudications[a].asks : Newest(AdjudicationsOf(r)) = a
    /\ Queue(adjudications[a].asks)
    /\ UNCHANGED <<admissionVars, desired, followupVars>>

-----------------------------------------------------------------------------
(* Execution: claims and their fencing are those of CodexExecution *)

Unclaimed(d) == [d EXCEPT !.claim = "none", !.leased = FALSE]

\* appendFailure: the attempt is spent; its last or a definitive one parks.
Spent(d, definitive) ==
    LET last == definitive \/ d.attempts + 1 = AttemptLimit IN
    [Unclaimed(d) EXCEPT !.attempts = @ + 1,
                         !.retry = IF last THEN "exhausted" ELSE "ready"]

\* claimNext; an attempt a lapsed claim left open is spent instead.
Claim(a) ==
    LET d == adjudications[a] IN
    /\ d.status = "queued" /\ d.retry = "ready" /\ ~d.leased
    /\ adjudications' = [adjudications EXCEPT ![a] =
           IF d.claim = "begun" THEN Spent(d, FALSE)
           ELSE [d EXCEPT !.claim = "held", !.leased = TRUE]]
    /\ UNCHANGED <<admissionVars, desired, followupVars>>

\* The acquisition begins the attempt, or never begins and is released.
BeginAttempt(a) ==
    LET d == adjudications[a] IN
    /\ d.status = "queued" /\ d.claim = "held" /\ d.leased
    /\ \/ adjudications' = [adjudications EXCEPT ![a].claim = "begun"]
       \/ adjudications' = [adjudications EXCEPT ![a] = Unclaimed(d)]
    /\ UNCHANGED <<admissionVars, desired, followupVars>>

\* recordPreStartFailure: checkout, credential, prompt or start failed.
AttemptFails(a) ==
    LET d == adjudications[a] IN
    /\ d.status = "queued" /\ d.claim = "begun" /\ d.leased
    /\ \E definitive \in BOOLEAN :
         adjudications' = [adjudications EXCEPT ![a] = Spent(d, definitive)]
    /\ UNCHANGED <<admissionVars, desired, followupVars>>

\* startTracked; waiver_followup_status_pending.
Start(a) ==
    LET d == adjudications[a] IN
    /\ d.status = "queued" /\ d.claim = "begun" /\ d.leased
    /\ adjudications' = [adjudications EXCEPT ![a].status = "running"]
    /\ desired' = "pending"
    /\ UNCHANGED <<admissionVars, followupVars>>

\* The lease is not renewed in time.
LeaseLapses(a) ==
    /\ adjudications[a].leased
    /\ adjudications' = [adjudications EXCEPT ![a].leased = FALSE]
    /\ UNCHANGED <<admissionVars, desired, followupVars>>

-----------------------------------------------------------------------------
(* The end of an adjudication and the triggers on it *)

\* Faulty variant: a reply waits for the comment to be published.
Replied_Early(a, r) == adjudications'[a].decided[r] = "accepted"

\* waiver_followup_admit: accepted, and the comment is there to reply to.
Replied(a, r) ==
    /\ adjudications'[a].decided[r] = "accepted"
    /\ requests[r] \in published

\* prepare: a valid submission decides every Request of the adjudication.
Decide(a) ==
    LET d == adjudications[a] IN
    /\ d.status = "running" /\ d.leased
    /\ \E decided \in [d.asks -> Decisions] :
         adjudications' = [adjudications EXCEPT ![a] =
             [Unclaimed(d) EXCEPT !.status = "completed", !.decided = decided]]
    /\ UNCHANGED <<admissionVars, published>>
    /\ desired' = OutcomeAtEnd(a)
    /\ replies' = replies \cup {<<a, r>> : r \in {q \in d.asks : Replied(a, q)}}

\* fail: Codex, its deadline or the submission failed after the start.
Fail(a) ==
    LET d == adjudications[a] IN
    /\ d.status = "running" /\ d.leased
    /\ adjudications' = [adjudications EXCEPT ![a] =
                            [Unclaimed(d) EXCEPT !.status = "failed"]]
    /\ UNCHANGED <<admissionVars, followupVars>>
    /\ desired' = OutcomeAtEnd(a)

\* The application restarts: leases have lapsed, what ran has failed.
Restart ==
    /\ \E a \in Ids : adjudications[a].leased \/ adjudications[a].status = "running"
    /\ adjudications' = [a \in Ids |->
           LET d == adjudications[a] IN
           IF d.status = "running" THEN [Unclaimed(d) EXCEPT !.status = "failed"]
           ELSE [d EXCEPT !.leased = FALSE]]
    /\ UNCHANGED <<admissionVars, followupVars>>
    /\ desired' = IF \E a \in Active : adjudications[a].status = "running"
                  THEN OutcomeAtEnd(Newest(Active)) ELSE desired

-----------------------------------------------------------------------------
(* The publication of the comments, by the delivery of feedback *)

\* Faulty variant: a comment that is published admits no replies.
RepliesAfter_None(f) == {}

\* waiver_local_followup_after_inline: the accepted Decisions for f.
RepliesAfter(f) ==
    {x \in Ids \X RequestsOf(f) :
       /\ adjudications[x[1]].status = "completed"
       /\ x[2] \in adjudications[x[1]].asks
       /\ adjudications[x[1]].decided[x[2]] = "accepted"}

\* The comment on f is published.
PublishInline(f) ==
    /\ result # "none" /\ f \notin published
    /\ published' = published \cup {f}
    /\ replies' = replies \cup RepliesAfter(f)
    /\ UNCHANGED <<admissionVars, adjudications, desired>>

-----------------------------------------------------------------------------
Admission ==
    \/ CompleteEvaluation
    \/ \E F \in SUBSET Advisory : SubmitBatch(F)
    \/ \E R \in SUBSET Requested : RetryErrors(R)
    \/ \E a \in Ids : RecoverExhausted(a) \/ RecoverFailed(a)

Execution ==
    \/ Restart
    \/ \E a \in Ids :
         \/ Claim(a) \/ BeginAttempt(a) \/ AttemptFails(a)
         \/ Start(a) \/ LeaseLapses(a) \/ Decide(a) \/ Fail(a)

Publication == \E f \in Findings : PublishInline(f)

Next == Admission \/ Execution \/ Publication

Spec == Init /\ [][Next]_vars

-----------------------------------------------------------------------------
TypeOK ==
    /\ result \in Outcomes \cup {"none"}
    /\ requests \in Seq(Advisory)
    /\ adjudications \in Seq(AdjudicationType)
    /\ desired \in Outcomes \cup {"pending", "clear", "advisory", "blocking", "error"}
    /\ published \subseteq Findings
    /\ replies \subseteq AdjudicationIds \X RequestIds

\* The status that triggers keep is the outcome that every reader computes,
\* but while an adjudication is only queued.
StatusFollowsOutcome ==
    (\A a \in Active : adjudications[a].status = "running")
        => desired = EffectiveOutcome

\* A Finding has one open Request: every earlier one was denied.
EarlierRequestsWereDenied ==
    \A f \in Advisory : \A r \in RequestsOf(f) :
        r # Newest(RequestsOf(f)) => NewestDecision(r) = "denied"

\* No Request is stranded: it is decided, an active adjudication asks for it,
\* or the one that failed can be recovered with all of its Requests.
NoRequestIsStranded ==
    \A r \in Requested :
        LET a == Newest(AdjudicationsOf(r)) IN
        \/ a \in Active
        \/ LatestDecision(r) # "none"
        \/ /\ adjudications[a].status = "failed"
           /\ \A q \in adjudications[a].asks : Newest(AdjudicationsOf(q)) = a

\* Every accepted Decision of a Finding with a published comment has a reply,
\* whichever came first; nothing else has.
RepliesAreComplete ==
    replies = {x \in Ids \X Requested :
        /\ adjudications[x[1]].status = "completed"
        /\ x[2] \in adjudications[x[1]].asks
        /\ adjudications[x[1]].decided[x[2]] = "accepted"
        /\ requests[x[2]] \in published}

-----------------------------------------------------------------------------
(* The guards of the database: a write they refuse would abort its
   transaction with an error no operation expects *)

\* waiver_request_*_insert: limit, acceptance and sequence of the Requests.
InsertsRequest(f) ==
    /\ f \in Advisory
    /\ Cardinality(RequestsOf(f)) < RequestLimit
    /\ ~Waived(f)
    /\ RequestsOf(f) # {} => NewestDecision(Newest(RequestsOf(f))) = "denied"

\* waiver_adjudication_request_retry_insert: r may be asked once more.
Reasks(r) ==
    AdjudicationsOf(r) # {} =>
        \/ LatestDecision(r) = "error"
        \/ /\ LatestDecision(r) = "none"
           /\ adjudications[Newest(AdjudicationsOf(r))].status = "failed"

\* waiver_adjudication_complete_decisions, _terminal_immutable and
\* _exhausted_start.
Advances(d, e) ==
    /\ d.status \in {"completed", "failed"} => e.status = d.status
    /\ e.status = "completed" => DOMAIN e.decided = e.asks
    /\ e.status = "failed" => e.decided = NoDecisions
    /\ d.status = "queued" /\ e.status = "running" => d.retry = "ready"

\* No operation runs into a guard of the database: what the services check
\* implies what the triggers and the unique index demand.
SchemaAccepts ==
    [][/\ \A r \in (Requested)' \ Requested : InsertsRequest(requests'[r])
       /\ \A a \in (Ids)' \ Ids :
            Active = {} /\ \A r \in adjudications'[a].asks : Reasks(r)
       /\ \A a \in Ids : Advances(adjudications[a], adjudications'[a])]_vars

=============================================================================
