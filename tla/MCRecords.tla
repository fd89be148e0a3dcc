------------------------------ MODULE MCRecords ------------------------------
(***************************************************************************)
(* The records that operators, agents and forges change concurrently, for  *)
(* TLC: the connections to both forges and their Repositories, a Generic   *)
(* HTTPS Repository, the Reviews with the admission of Evaluations, an     *)
(* applicability rule, the waivers of one Evaluation, the delivery of its  *)
(* feedback, and the authority of the Operator.  They share no variable    *)
(* but the connections', so a behaviour is about one of them, its subject, *)
(* and leaves the others where they begin.                                 *)
(***************************************************************************)
EXTENDS ForgeConnection, ApplicabilityGrammar

CONSTANTS MaxId, MaxLifecycle,                             \* of a Repository
          Reviews, Clients, Keys, Bodies,                  \* of the admission
          MaxVersions, MaxEvaluations, Capacity,
          Advisory, Blocking, Outcomes,                    \* of the waivers
          RequestLimit, AttemptLimit, MaxAdjudications,
          MaxFaults,                                       \* of the deliveries
          Passwords, MaxPending, MaxSessions,              \* of the Operator
          IdleLifetime, AbsoluteLifetime,
          MaxLogins, MaxDelay, MaxTime, MaxEpoch

ASSUME RecordsBounds == MaxId \in Nat /\ MaxLifecycle \in Nat

ASSUME AdmissionBounds ==
    /\ MaxVersions \in Nat \ {0} /\ MaxEvaluations \in Nat /\ Capacity \in Nat
    /\ IsFiniteSet(Reviews) /\ Keys # {} /\ Bodies # {}

ASSUME WaiverBounds ==
    /\ IsFiniteSet(Advisory) /\ "none" \notin Outcomes
    /\ RequestLimit \in Nat \ {0} /\ AttemptLimit \in Nat \ {0} /\ MaxAdjudications \in Nat

ASSUME DeliveryBounds == MaxFaults \in Nat

VARIABLES
    subject,
    repositoryRow, operations, remote, evaluated,
    reviews, repository, evaluations, keys, clients, queued,
    rule, changeset, outcome, row,
    result, waiverRequests, adjudications, desired, published, replies,
    provider, stage, posts, deliveries, lifecycle, healthy, verified, gated, comments,
    workers, faults,
    time, password, sessions, throttle, implementer, pending, serving, epoch, rejected

connectionVars == vars
repositoryVars == <<repositoryRow, operations, remote, evaluated>>
admissionVars == <<reviews, repository, evaluations, keys, clients, queued>>
ruleVars == <<rule, changeset, outcome, row>>
waiverVars == <<result, waiverRequests, adjudications, desired, published, replies>>
feedbackVars == <<provider, stage, posts, deliveries, lifecycle, healthy, verified, gated,
    comments, workers, faults>>
authorityVars == <<time, password, sessions, throttle, implementer, pending, serving, epoch,
    rejected>>
all == <<subject, connectionVars, repositoryVars, admissionVars, ruleVars, waiverVars,
    feedbackVars, authorityVars>>

-----------------------------------------------------------------------------
GitHub == INSTANCE GitHubConnection
Forgejo == INSTANCE ForgejoConnection

Generic == INSTANCE RepositoryLifecycle
    WITH row <- repositoryRow, accepted <- remote, evaluations <- evaluated,
         Operations <- Requests, MaxRevision <- MaxLifecycle

Admission == INSTANCE EvaluationAdmission

Rule == INSTANCE ApplicabilityRule WITH result <- outcome

Waivers == INSTANCE WaiverAdjudication WITH requests <- waiverRequests

Feedback == INSTANCE FeedbackDelivery

Operator == INSTANCE OperatorAuthority WITH MaxAttempts <- MaxLogins

ASSUME AuthorityBounds ==
    /\ IdleLifetime \in Nat /\ AbsoluteLifetime \in Nat
    /\ MaxTime \in Nat /\ MaxEpoch \in Nat /\ MaxSessions \in Nat
    /\ MaxLogins \in Nat \ {0} /\ MaxDelay \in Nat
    /\ \A n \in 1 .. MaxLogins : Operator!Delay(n) \in Nat

Subjects == {"GitHub", "Forgejo", "repository", "admission", "rule", "waivers", "feedback",
             "authority"}

Beginning ==
    /\ subject \in Subjects
    /\ Init
    /\ Generic!Init /\ Admission!Init /\ Waivers!Init
    /\ IF subject = "rule" THEN Rule!Init
       ELSE /\ rule = CHOOSE r \in Rules : TRUE
            /\ changeset = <<>> /\ outcome = Rule!None /\ row = "none"
    /\ Feedback!Init /\ Operator!Init
    /\ subject # "feedback" => provider = "github"

\* What moves the subject leaves the others alone.
OfConnection(A) == A
    /\ UNCHANGED <<subject, repositoryVars, admissionVars, ruleVars, waiverVars, feedbackVars,
                   authorityVars>>
OfRepository(A) == subject = "repository" /\ A
    /\ UNCHANGED <<subject, connectionVars, admissionVars, ruleVars, waiverVars, feedbackVars,
                   authorityVars>>
OfAdmission(A) == subject = "admission" /\ A
    /\ UNCHANGED <<subject, connectionVars, repositoryVars, ruleVars, waiverVars, feedbackVars,
                   authorityVars>>
OfRule(A) == subject = "rule" /\ A
    /\ UNCHANGED <<subject, connectionVars, repositoryVars, admissionVars, waiverVars,
                   feedbackVars, authorityVars>>
OfWaivers(A) == subject = "waivers" /\ A
    /\ UNCHANGED <<subject, connectionVars, repositoryVars, admissionVars, ruleVars,
                   feedbackVars, authorityVars>>
OfFeedback(A) == subject = "feedback" /\ A
    /\ UNCHANGED <<subject, connectionVars, repositoryVars, admissionVars, ruleVars,
                   waiverVars, authorityVars>>
OfAuthority(A) == subject = "authority" /\ A
    /\ UNCHANGED <<subject, connectionVars, repositoryVars, admissionVars, ruleVars,
                   waiverVars, feedbackVars>>

Next ==
    \/ subject = "GitHub" /\ OfConnection(GitHub!Next)
    \/ subject = "Forgejo" /\ OfConnection(Forgejo!ForgejoNext)
    \/ OfRepository(Generic!Next) \/ OfAdmission(Admission!Next) \/ OfRule(Rule!Next)
    \/ OfWaivers(Waivers!Next) \/ OfFeedback(Feedback!Next)
    \/ OfAuthority(Operator!Next)

Spec == Beginning /\ [][Next]_all

-----------------------------------------------------------------------------
\* The variables of every subject have their types.
TypesOK ==
    /\ subject \in Subjects
    /\ subject = "GitHub" => GitHub!TypeOK
    /\ subject = "Forgejo" => Forgejo!ForgejoTypeOK
    /\ subject = "repository" => Generic!TypeOK
    /\ subject = "admission" => Admission!TypeOK
    /\ subject = "rule" => Rule!TypeOK
    /\ subject = "waivers" => Waivers!TypeOK
    /\ subject = "feedback" => Feedback!TypeOK
    /\ subject = "authority" => Operator!TypeOK

\* What an operator has decided holds.  A Generic HTTPS Repository: no
\* verification that was in flight undoes a disablement or a retirement or changes
\* what a registration after a removal has brought, as far as there is a row
\* before and after it (a first registration still in flight may bring back a row
\* that was removed), a retired Repository keeps no credential, and every
\* Evaluation is about the Repository that is there.  Authority: no session that
\* has ended is honoured again, none outlives a change of the password, a
\* revocation or a recovery, and between logins that fail there is the delay that
\* grows with them up to its cap.
DecisionsHold ==
    /\ Generic!DecisionsHold /\ Operator!EndedStaysEnded
    /\ [](Generic!RetiredKeepsNoCredential /\ Generic!EvaluationsKeepTheirRepository)
    /\ [](Operator!SessionsAreCurrent /\ Operator!LoginsAreSpaced)

\* Overlapping requests under one key are answered with one Evaluation, which
\* is what each of them has asked for, and a Review that an Evaluation has
\* selected stays in the library.
AdmittedAsAsked == Admission!AnsweredByItsOwn /\ Admission!SelectionsRemain

\* A rule applies exactly if it holds, without content that cannot be looked at.
\* With it, an answer is right whatever that content would say where the rule is
\* sound for it: that it applies, if it negates no test for a file that asks about
\* content.  A file that cannot be looked at counts as no match, so that a rule
\* with such a negation may apply although the content would have been one.
MatchesItsMeaning == Rule!MatchesItsMeaning

\* The commit status shows what the Evaluation comes to with its waivers, no
\* Request is stranded or asked again while it is open, and every accepted
\* Decision has its reply.
WaiversAreDecided ==
    /\ Waivers!StatusFollowsOutcome
    /\ Waivers!EarlierRequestsWereDenied
    /\ Waivers!NoRequestIsStranded
    /\ Waivers!RepliesAreComplete

\* No operation on waivers runs into a trigger of the database.
SchemaAccepts == Waivers!SchemaAccepts

\* No comment is written twice, whatever was lost, retired, taken up or crashed,
\* and a delivery that was begun is unavailable only with a verdict: refused for
\* good, or taken up by the next verification.  A comment that was never begun is
\* covered at Forgejo only; at GitHub one that is inserted while the connection is
\* retired stays unavailable, and at either forge a follow-up never begun.
FeedbackIsDeliveredOnce == Feedback!CommentedOnce /\ Feedback!RetiredCanResume
=============================================================================
