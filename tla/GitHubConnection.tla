---------------------------- MODULE GitHubConnection ----------------------------
(***************************************************************************)
(* The GitHub connection and its Repositories:                             *)
(*   src/src/github/github-connection.ts                onboarding flow,   *)
(*                                                      reactivation       *)
(*   src/src/github/github-connection-rotation*.ts      rotation           *)
(*   src/src/github/github-repository-registration.ts,                     *)
(*   github-repository-selection-*.ts                   selection and      *)
(*                                                      enablement         *)
(*   src/src/github/github-connection-verification.ts   what they record   *)
(***************************************************************************)
EXTENDS ForgeConnection

\* The verification stops at the first Repository that is bad.
FirstFailure(request) ==
    {answer \in Answers(request) : answer.bad = {} \/ \E r \in Repositories : answer.bad = {r}}

-----------------------------------------------------------------------------
(* Onboarding and reactivation: a flow's state token is taken once. *)

Flows == {"manifest", "exchanging", "installation", "installing", "reactivating",
          "returning"}
Stages == Flows \cup {"idle", "rotating", "selecting", "enabling"}

\* startGitHubConnection: only while there is no connection.
Start(o) ==
    /\ requests[o].at = "idle" /\ connection.lifecycle = "absent"
    /\ Begins(o, "manifest", 0, {})
    /\ UNCHANGED <<connection, repositories, issued, accepted, accessible>>

\* completeManifest takes the token and asks GitHub for the App's credential.
Exchange(o) ==
    /\ requests[o].at = "manifest"
    /\ requests' = [requests EXCEPT ![o].at = "exchanging"]
    /\ UNCHANGED <<connection, repositories, issued, accepted, accessible>>

\* The token comes back with the credential, for the installation.
Exchanged(o) ==
    /\ requests[o].at = "exchanging" /\ Issue
    /\ requests' = [requests EXCEPT ![o].at = "installation", ![o].credential = issued']
    /\ UNCHANGED <<connection, repositories, accepted, accessible>>

\* completeInstallation takes it again and verifies the installation.
Install(o) ==
    /\ requests[o].at = "installation"
    /\ requests' = [requests EXCEPT ![o].at = "installing", ![o].about = accessible]
    /\ UNCHANGED <<connection, repositories, issued, accepted, accessible>>

\* reactivateGitHubConnection: the same, for the App of the retired connection.
Reactivate(o) ==
    /\ requests[o].at = "idle" /\ connection.lifecycle = "retired"
    /\ Issue /\ Begins(o, "reactivating", issued', accessible)
    /\ UNCHANGED <<connection, repositories, accepted, accessible>>

\* Its INSERT: the connection is a singleton.
Inserts(c) ==
    connection' = [lifecycle |-> "enabled", healthy |-> TRUE, credential |-> c,
                   verification |-> NewVerification]

\* The installation is good.  A retired connection must be of the same App:
\* then a polling baseline is taken; another App's is refused.
Installed(o) ==
    LET q == requests[o] IN
    /\ q.at \in {"installing", "reactivating"}
    /\ q.credential \in accepted /\ accessible # {} /\ Unrefused
    /\ IF connection.lifecycle = "retired" /\ q.at = "reactivating"
       THEN /\ requests' = [requests EXCEPT ![o].at = "returning"]
            /\ UNCHANGED connection
       ELSE /\ Ends(o)
            /\ IF connection.lifecycle = "absent" THEN Inserts(q.credential)
                                                  ELSE UNCHANGED connection
    /\ UNCHANGED <<repositories, issued, accepted, accessible>>

\* The credential's INSERT: its connection is there and has none.
Vacant == connection.lifecycle # "absent" /\ connection.credential = 0

Returned(o) ==
    LET q == requests[o] IN
    /\ q.at = "returning" /\ q.credential \in accepted /\ Unrefused
    /\ IF Vacant THEN Inserts(q.credential) ELSE UNCHANGED connection
    /\ Ends(o)
    /\ UNCHANGED <<repositories, issued, accepted, accessible>>

-----------------------------------------------------------------------------
(* Rotation *)

\* rotateGitHubConnection reads the enabled Repositories and has the new key
\* verified for them.
Rotate(o) ==
    /\ requests[o].at = "idle" /\ connection.credential # 0
    /\ Issue /\ Asks(o, "rotating", issued', On("enabled"))
    /\ UNCHANGED <<connection, repositories, accepted, accessible>>

\* Faulty variant: whichever Repositories are enabled now.
CurrentRotation_Credential(q) == connection.credential = q.connection.credential

\* requireCurrentGitHubConnectionRotation: the same credential is stored and
\* the same Repositories are enabled.
CurrentRotation(q) ==
    connection.credential = q.connection.credential /\ On("enabled") = q.about

Rotated(o, answer) ==
    LET q == requests[o] IN
    /\ q.at = "rotating" /\ answer.is = "good"
    /\ IF CurrentRotation(q)
       THEN /\ connection' = [connection EXCEPT !.healthy = TRUE, !.credential = q.credential,
                                                !.verification = NewVerification]
            /\ repositories' = Cover(Found(repositories, q.about, TRUE), q.about, q.credential)
       ELSE UNCHANGED <<connection, repositories>>

\* recordGitHubConnectionVerification of a failure: the connection's, or that
\* of one Repository.
Fails(answer) ==
    /\ connection' = [connection EXCEPT !.healthy = (answer.is = "bad"),
                                        !.verification = NewVerification]
    /\ repositories' = Found(Found(repositories, answer.bad \cap Known, FALSE),
                             answer.good \cap Known, TRUE)

\* The new key is not stored; what it was found good for is recorded.
RotationFailed(o, answer) ==
    LET q == requests[o] IN
    /\ q.at = "rotating" /\ answer.is # "good"
    /\ IF CurrentRotation(q)
       THEN Fails(answer)
       ELSE UNCHANGED <<connection, repositories>>

-----------------------------------------------------------------------------
(* Selection and enablement *)

\* readGitHubRepositorySelectionSnapshot: of an enabled connection.
Select(o) ==
    /\ requests[o].at = "idle" /\ connection.lifecycle = "enabled"
    /\ \/ \E S \in SUBSET Repositories \ {{}} : Asks(o, "selecting", connection.credential, S)
       \/ \E r \in Known : Asks(o, "enabling", connection.credential, {r})
    /\ UNCHANGED <<connection, repositories, issued, accepted, accessible>>

\* Faulty variant: the connection only has to be enabled.
CurrentConnection_Enabled(q) == connection.lifecycle = "enabled"

\* requireCurrentGitHubRepositoryConnection.
CurrentConnection(q) == connection.lifecycle = "enabled" /\ connection = q.connection

\* requireCurrentGitHubRepositories, for the Repositories that matter.
CurrentRepositories(q, R) == \A r \in R : repositories[r] = q.repositories[r]

\* A selection enables what is new and what was retired; an enablement, with
\* commitRepositoryEnablement, the one it was asked for.
Selecting(q, rows) ==
    [r \in Repositories |->
        IF r \in q.about /\ (q.at = "enabling" \/ rows[r].lifecycle \in {"absent", "retired"})
        THEN [rows[r] EXCEPT !.lifecycle = "enabled",
                             !.revision = IF rows[r].lifecycle = "absent" THEN 0 ELSE @ + 1]
        ELSE rows[r]]

\* Its commit: what was verified is good, what the account no longer gives
\* access to is not.
Selected(o, answer) ==
    LET q == requests[o]
        existing == {r \in Repositories : q.repositories[r].lifecycle # "absent"}
        gone == existing \ accessible
    IN
    /\ q.at \in {"selecting", "enabling"} /\ answer.is = "good"
    /\ \A r \in q.about : repositories[r].revision < MaxRevision
    /\ IF /\ CurrentConnection(q) /\ CurrentRepositories(q, existing \cup q.about)
       THEN /\ connection' = [connection EXCEPT !.healthy = TRUE,
                                                !.verification = NewVerification]
            /\ repositories' = Selecting(q, Cover(
                   Found(Found(repositories, gone, FALSE), q.about, TRUE), q.about, q.credential))
       ELSE UNCHANGED <<connection, repositories>>

SelectionFailed(o, answer) ==
    LET q == requests[o] IN
    /\ q.at \in {"selecting", "enabling"} /\ answer.is # "good"
    /\ IF CurrentConnection(q) /\ CurrentRepositories(q, q.about)
       THEN Fails(answer)
       ELSE UNCHANGED <<connection, repositories>>

-----------------------------------------------------------------------------
Answered(o) ==
    /\ Unrefused
    /\ \E answer \in FirstFailure(requests[o]) :
         \/ Rotated(o, answer) \/ RotationFailed(o, answer)
         \/ Selected(o, answer) \/ SelectionFailed(o, answer)
    /\ Ends(o)
    /\ UNCHANGED <<issued, accepted, accessible>>

Next ==
    \/ \E o \in Requests :
         \/ Start(o) \/ Exchange(o) \/ Exchanged(o) \/ Install(o) \/ Installed(o)
         \/ Reactivate(o) \/ Returned(o)
         \/ Rotate(o) \/ Select(o) \/ Answered(o)
    \/ Common

Spec == Init /\ [][Next]_vars

TypeOK == CommonTypeOK /\ requests \in [Requests -> RequestType(Stages)]
=============================================================================
