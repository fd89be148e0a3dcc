---------------------------- MODULE ForgejoConnection ----------------------------
(***************************************************************************)
(* The Forgejo connection and its Repositories:                            *)
(*   src/src/forgejo/forgejo-connection.ts              connect            *)
(*   src/src/forgejo/forgejo-connection-lifecycle.ts    reactivation       *)
(*   src/src/forgejo/forgejo-connection-rotation.ts     rotation           *)
(*   src/src/forgejo/forgejo-repository-enablement*.ts  enablement         *)
(*   src/src/forgejo/forgejo-failure*.ts                what a failure     *)
(*                                                      records            *)
(* What GitHubConnection defines as well is named for the forge here, so   *)
(* that one module can hold the theorems about both.                       *)
(***************************************************************************)
EXTENDS ForgeConnection

ForgejoStages == {"idle", "connecting", "rotating", "enabling", "reactivating"}

\* A failure of no definitive scope, besides those of the forge's answers.
Outage == [is |-> "outage", good |-> {}, bad |-> {}]

\* What a failure records: a verification, the health of the connection if it
\* is the connection's, of Repositories if it is theirs.
ForgejoFails(answer) ==
    /\ connection' = [connection EXCEPT !.healthy = @ /\ answer.is # "refused",
                                        !.verification = NewVerification]
    /\ repositories' = Found(repositories, answer.bad, FALSE)
Keeps == UNCHANGED <<connection, repositories>>

-----------------------------------------------------------------------------
(* Onboarding *)

\* connect names its Repositories once and for all.
Connect(o) ==
    /\ requests[o].at = "idle"
    /\ Issue
    /\ \E S \in SUBSET Repositories \ {{}} : Begins(o, "connecting", issued', S)
    /\ UNCHANGED <<connection, repositories, accepted, accessible>>

Connected(o, answer) ==
    LET q == requests[o] IN
    /\ q.at = "connecting"
    /\ IF answer.is = "good" /\ connection.lifecycle = "absent" /\ Known = {}
       THEN /\ connection' = [lifecycle |-> "enabled", healthy |-> TRUE,
                              credential |-> q.credential, verification |-> NewVerification]
            /\ repositories' = [r \in Repositories |->
                   IF r \in q.about
                   THEN [lifecycle |-> "enabled", revision |-> 0, healthy |-> TRUE,
                         verification |-> NewVerification, by |-> q.credential]
                   ELSE NoRepository]
       ELSE Keeps

-----------------------------------------------------------------------------
(* Rotation *)

RotateForgejo(o) ==
    /\ requests[o].at = "idle" /\ connection.credential # 0
    /\ Issue /\ Asks(o, "rotating", issued', On("enabled"))
    /\ UNCHANGED <<connection, repositories, accepted, accessible>>

SameCredential(q) == connection.credential = q.connection.credential

\* Faulty variant: whichever Repositories are enabled now.
Verified_Any(q) == q.about \subseteq Known

\* No Repository is enabled that was not verified; those that were are known.
Verified(q) == On("enabled") \subseteq q.about /\ q.about \subseteq Known

ForgejoRotated(o, answer) ==
    LET q == requests[o] IN
    /\ q.at = "rotating" /\ answer.is = "good" /\ SameCredential(q) /\ Verified(q)
    /\ connection' = [connection EXCEPT !.healthy = TRUE, !.credential = q.credential,
                                        !.verification = NewVerification]
    /\ repositories' = Cover([r \in Repositories |->
           IF r \in q.about THEN [repositories[r] EXCEPT !.verification = NewVerification]
                            ELSE repositories[r]], q.about, q.credential)

\* Its failure, which a conflict over the Repositories is as well, if the
\* credential is still the same.
ForgejoRotationFailed(o, answer) ==
    LET q == requests[o] IN
    /\ q.at = "rotating"
    /\ answer.is = "good" => ~(SameCredential(q) /\ Verified(q))
    /\ IF SameCredential(q) /\ answer.bad \subseteq Known
       THEN ForgejoFails(IF answer.is = "good" THEN Outage ELSE answer)
       ELSE Keeps

-----------------------------------------------------------------------------
(* Enablement *)

\* prepareForgejoRepositoryEnablement: with the Repository, the enabled ones
\* whose polling baseline is not complete are verified again.
Enable(o) ==
    /\ requests[o].at = "idle" /\ connection.lifecycle = "enabled"
    /\ \E r \in Known, pending \in SUBSET On("enabled") :
         Asks(o, "enabling", connection.credential, {r} \cup pending)
    /\ UNCHANGED <<connection, repositories, issued, accepted, accessible>>

\* Faulty variant: the connection only has to be enabled.
Current_Enabled(q) ==
    connection.lifecycle = "enabled" /\ \A r \in q.about : repositories[r] = q.repositories[r]

\* requireCurrentForgejoConnection and requireCurrentForgejoRepositories.
Current(q) ==
    /\ connection.lifecycle = "enabled" /\ connection = q.connection
    /\ \A r \in q.about : repositories[r] = q.repositories[r]

\* What is enabled with commitRepositoryEnablement: the one asked for is the
\* one that is not enabled yet, or any.
Enabling(q) ==
    IF q.about \subseteq On("enabled") THEN q.about ELSE q.about \ On("enabled")

Enabled(o, answer) ==
    LET q == requests[o] IN
    /\ q.at = "enabling" /\ answer.is = "good"
    /\ \E r \in Enabling(q) :
         /\ repositories[r].revision < MaxRevision
         /\ IF Current(q)
            THEN /\ connection' = [connection EXCEPT !.healthy = TRUE,
                                                     !.verification = NewVerification]
                 /\ repositories' =
                        [Cover(Found(repositories, q.about, TRUE), q.about, q.credential)
                            EXCEPT ![r].lifecycle = "enabled", ![r].revision = @ + 1]
            ELSE Keeps

EnablementFailed(o, answer) ==
    LET q == requests[o] IN
    /\ q.at = "enabling" /\ answer.is # "good"
    /\ IF Current(q) THEN ForgejoFails(answer) ELSE Keeps

-----------------------------------------------------------------------------
(* Reactivation *)

\* reactivateForgejoConnection verifies all the retired Repositories.
ReactivateForgejo(o) ==
    /\ requests[o].at = "idle" /\ connection.lifecycle = "retired" /\ On("retired") # {}
    /\ Issue /\ Begins(o, "reactivating", issued', On("retired"))
    /\ UNCHANGED <<connection, repositories, accepted, accessible>>

\* Still retired, still without a credential.
StillRetired == connection.lifecycle = "retired" /\ connection.credential = 0

Reactivated(o, answer) ==
    LET q == requests[o] IN
    /\ q.at = "reactivating" /\ answer.is = "good"
    /\ IF StillRetired /\ Dependents = {}
       THEN /\ connection' = [connection EXCEPT !.lifecycle = "enabled", !.healthy = TRUE,
                                                !.credential = q.credential,
                                                !.verification = NewVerification]
            /\ UNCHANGED repositories
       ELSE Keeps

ReactivationFailed(o, answer) ==
    LET q == requests[o] IN
    /\ q.at = "reactivating" /\ answer.is # "good"
    /\ IF StillRetired /\ answer.bad \subseteq Known THEN ForgejoFails(answer) ELSE Keeps

-----------------------------------------------------------------------------
ForgejoAnswered(o) ==
    /\ Unrefused
    /\ \E answer \in Answers(requests[o]) \cup {Outage} :
         \/ Connected(o, answer)
         \/ ForgejoRotated(o, answer) \/ ForgejoRotationFailed(o, answer)
         \/ Enabled(o, answer) \/ EnablementFailed(o, answer)
         \/ Reactivated(o, answer) \/ ReactivationFailed(o, answer)
    /\ Ends(o)
    /\ UNCHANGED <<issued, accepted, accessible>>

ForgejoNext ==
    \/ \E o \in Requests :
         \/ Connect(o) \/ RotateForgejo(o) \/ Enable(o) \/ ReactivateForgejo(o)
         \/ ForgejoAnswered(o)
    \/ Common

ForgejoSpec == Init /\ [][ForgejoNext]_vars

ForgejoTypeOK == CommonTypeOK /\ requests \in [Requests -> RequestType(ForgejoStages)]
=============================================================================
