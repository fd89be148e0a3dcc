---------------------------- MODULE ForgeConnection ----------------------------
(***************************************************************************)
(* What the connections to GitHub and to Forgejo share: the one row of the *)
(* connection with its credential, the rows of its Repositories, the       *)
(* operations in flight, and the forge's side of it.                       *)
(*   src/src/forge/connection/lifecycle-guards.ts    retirement, removal   *)
(*   src/src/repository/repository.ts                disablement           *)
(*   src/src/repository/repository-removal.ts        retirement, removal   *)
(*                                                                         *)
(* An operation reads the rows, asks the forge with a credential and       *)
(* commits in one transaction; others commit meanwhile.                    *)
(***************************************************************************)
EXTENDS Naturals

CONSTANTS
    Repositories,       \* Repositories of the account
    Requests,           \* requests that can be in flight together
    MaxVerification,    \* bound on the verifications on record
    MaxRevision,        \* bound on a Repository's lifecycle_revision
    MaxCredential       \* bound on the credentials an operator issues

ASSUME BoundsAssumption ==
    MaxVerification \in Nat /\ MaxRevision \in Nat /\ MaxCredential \in Nat

VARIABLES
    connection,     \* the row and its credential
    repositories,   \* repositories[r]: the row of r
    requests,       \* requests[o]: what is in flight
    issued,         \* the newest credential an operator has issued
    accepted,       \* the credentials the forge accepts
    accessible      \* the Repositories the account gives access to

vars == <<connection, repositories, requests, issued, accepted, accessible>>

-----------------------------------------------------------------------------
\* A credential stands for its ciphertext, which is a new one each time.
Credentials == 0 .. MaxCredential
Verifications == 0 .. MaxVerification

\* credential is 0 when none is stored; verification is the newest on record.
ConnectionType ==
    [lifecycle : {"absent", "enabled", "retired"}, healthy : BOOLEAN,
     credential : Credentials, verification : Verifications]

\* by is a history: the credential with which r was last enabled or its
\* connection rotated.
RepositoryType ==
    [lifecycle : {"absent", "enabled", "disabled", "retired"}, revision : 0 .. MaxRevision,
     healthy : BOOLEAN, verification : Verifications, by : Credentials]

NoConnection(verification) ==
    [lifecycle |-> "absent", healthy |-> TRUE, credential |-> 0, verification |-> verification]
NoRepository ==
    [lifecycle |-> "absent", revision |-> 0, healthy |-> TRUE, verification |-> 0, by |-> 0]

\* A request: what it asks the forge with and about, and what it has read.
RequestType(ats) ==
    [at : ats, credential : Credentials, about : SUBSET Repositories,
     connection : ConnectionType, repositories : [Repositories -> RepositoryType]]

Idle ==
    [at |-> "idle", credential |-> 0, about |-> {}, connection |-> NoConnection(0),
     repositories |-> [r \in Repositories |-> NoRepository]]

Init ==
    /\ connection = NoConnection(0)
    /\ repositories = [r \in Repositories |-> NoRepository]
    /\ requests = [o \in Requests |-> Idle]
    /\ issued = 0
    /\ accepted = Credentials \ {0}
    /\ accessible = Repositories

On(lifecycle) == {r \in Repositories : repositories[r].lifecycle = lifecycle}
Known == Repositories \ On("absent")

\* A request that reads the rows before it waits, and one that does not.
Asks(o, at, credential, about) ==
    requests' = [requests EXCEPT ![o] =
        [at |-> at, credential |-> credential, about |-> about,
         connection |-> connection, repositories |-> repositories]]
Begins(o, at, credential, about) ==
    requests' = [requests EXCEPT ![o] =
        [Idle EXCEPT !.at = at, !.credential = credential, !.about = about]]
Ends(o) == requests' = [requests EXCEPT ![o] = Idle]

\* The operator has made a new key or token.
Issue == issued < MaxCredential /\ issued' = issued + 1

Unrefused == connection.verification < MaxVerification
NewVerification == connection.verification + 1

\* The rows after a new verification that found R good, or bad.
Found(rows, R, good) ==
    [r \in Repositories |->
        IF r \in R THEN [rows[r] EXCEPT !.healthy = good, !.verification = NewVerification]
        ELSE rows[r]]
Cover(rows, R, c) ==
    [r \in Repositories |-> IF r \in R THEN [rows[r] EXCEPT !.by = c] ELSE rows[r]]

-----------------------------------------------------------------------------
(* What does not wait *)

\* setLifecycle to disabled.
Disable(r) ==
    /\ r \in On("enabled") /\ repositories[r].revision < MaxRevision
    /\ repositories' = [repositories EXCEPT ![r].lifecycle = "disabled", ![r].revision = @ + 1]
    /\ UNCHANGED <<connection, requests, issued, accepted, accessible>>

\* retireUsedRepository, and removeNeverUsedRepository of one that no
\* Evaluation has used; which of the two applies is left open.
RetireRepository(r) ==
    /\ r \in On("enabled") \cup On("disabled") /\ repositories[r].revision < MaxRevision
    /\ repositories' = [repositories EXCEPT ![r].lifecycle = "retired", ![r].revision = @ + 1]
    /\ UNCHANGED <<connection, requests, issued, accepted, accessible>>

RemoveRepository(r) ==
    /\ r \in On("enabled") \cup On("disabled")
    /\ repositories' = [repositories EXCEPT ![r] = NoRepository]
    /\ UNCHANGED <<connection, requests, issued, accepted, accessible>>

\* Faulty variant: the Repositories that are only disabled do not count.
Dependents_Enabled == On("enabled")

\* Those a retirement of the connection must wait for.
Dependents == Known \ On("retired")

\* runConnectionRetirement: the credential goes with it.
RetireConnection ==
    /\ connection.lifecycle = "enabled" /\ Dependents = {}
    /\ connection' = [connection EXCEPT !.lifecycle = "retired", !.credential = 0]
    /\ UNCHANGED <<repositories, requests, issued, accepted, accessible>>

\* runConnectionRemoval: only of one that no Repository depends on.
RemoveConnection ==
    /\ connection.lifecycle # "absent" /\ Known = {}
    /\ connection' = NoConnection(connection.verification)
    /\ UNCHANGED <<repositories, requests, issued, accepted, accessible>>

-----------------------------------------------------------------------------
(* The forge and the process *)

Revoke(c) ==
    /\ accepted' = accepted \ {c}
    /\ UNCHANGED <<connection, repositories, requests, issued, accessible>>

Withdraw(r) ==
    /\ accessible' = accessible \ {r}
    /\ UNCHANGED <<connection, repositories, requests, issued, accepted>>

\* A commit that lost to a poll round, which moved the polling generation, a flow
\* whose hour is over, and
\* a process that ended: the request is gone and the rows are as they were.
Lost(o) ==
    /\ requests[o].at # "idle"
    /\ Ends(o)
    /\ UNCHANGED <<connection, repositories, issued, accepted, accessible>>

\* How the forge answers: all good, all refused, or some Repositories are bad
\* after the ones in good were checked.
Answers(request) ==
    (IF request.credential \in accepted /\ request.about \subseteq accessible
     THEN {[is |-> "good", good |-> request.about, bad |-> {}]} ELSE {})
    \cup (IF request.credential \notin accepted
          THEN {[is |-> "refused", good |-> {}, bad |-> {}]} ELSE {})
    \cup (IF request.credential \in accepted
          THEN {[is |-> "bad", good |-> G, bad |-> B] :
                  B \in SUBSET (request.about \ accessible) \ {{}},
                  G \in SUBSET (request.about \cap accessible)}
          ELSE {})

Common ==
    \/ \E r \in Repositories : Disable(r) \/ RetireRepository(r) \/ RemoveRepository(r)
    \/ RetireConnection \/ RemoveConnection
    \/ \E c \in accepted : Revoke(c)
    \/ \E r \in accessible : Withdraw(r)
    \/ \E o \in Requests : Lost(o)

-----------------------------------------------------------------------------
CommonTypeOK ==
    /\ connection \in ConnectionType
    /\ repositories \in [Repositories -> RepositoryType]
    /\ issued \in Credentials
    /\ accepted \subseteq Credentials
    /\ accessible \subseteq Repositories

\* Every enabled Repository was found good with the very credential that is
\* stored, when it was enabled or when that credential came, whatever
\* rotations, enablements, retirements and reactivations ran into each other.
CredentialCoversEnabled ==
    \A r \in On("enabled") : repositories[r].by = connection.credential

\* A retired connection keeps no credential and no Repository that could be
\* polled or evaluated: none is enabled behind its retirement.
RetiredStandsAlone ==
    connection.lifecycle = "retired" => connection.credential = 0 /\ Known = On("retired")
=============================================================================
