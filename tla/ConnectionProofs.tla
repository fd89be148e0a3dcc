-------------------------- MODULE ConnectionProofs --------------------------
(***************************************************************************)
(* Theorems about the connections to GitHub and to Forgejo: the credential *)
(* covers whatever is enabled, and a retired connection stands alone.      *)
(*                                                                         *)
(* The credential of a connection changes while its Repositories stay      *)
(* covered only because of what surrounds it: an absent connection has no  *)
(* Repositories, a retired one none that is enabled, and an enabled one    *)
(* has a credential, so that only a rotation can replace it.               *)
(***************************************************************************)
EXTENDS GitHubConnection, ForgejoConnection, TLAPS

(* What the steps both forges share keep *)

\* The rows of the connection and of its Repositories.
RowsOK ==
    /\ CommonTypeOK
    /\ CredentialCoversEnabled
    /\ RetiredStandsAlone
    /\ connection.lifecycle = "absent" => connection.credential = 0 /\ Known = {}
    /\ connection.lifecycle = "enabled" => connection.credential # 0

\* What a request in flight holds: an enablement asks with the credential it
\* has read, and what brings a credential has one.
Holds(q) ==
    /\ q.at \in {"selecting", "enabling"} => q.credential = q.connection.credential
    /\ q.at = "rotating" => q.connection.credential # 0
    /\ q.at \in {"installation", "installing", "reactivating", "returning", "rotating",
                 "connecting"} => q.credential # 0

RequestsOK(ats) ==
    /\ requests \in [Requests -> RequestType(ats)]
    /\ \A o \in Requests : Holds(requests[o])

-----------------------------------------------------------------------------
\* The rows of the initial state.
LEMMA RowTypes ==
    /\ NoRepository \in RepositoryType
    /\ \A v \in Verifications : NoConnection(v) \in ConnectionType
BY BoundsAssumption
   DEF NoRepository, RepositoryType, NoConnection, ConnectionType, Credentials, Verifications

\* No request is one of its possible states, and holds nothing.
LEMMA IdleIsARequest ==
    ASSUME NEW ats, "idle" \in ats
    PROVE  Idle \in RequestType(ats) /\ Holds(Idle)
<1>1. 0 \in Credentials /\ 0 \in Verifications
  BY BoundsAssumption DEF Credentials, Verifications
<1>2. [r \in Repositories |-> NoRepository] \in [Repositories -> RepositoryType]
  BY RowTypes
<1>3. NoConnection(0) \in ConnectionType
  BY <1>1, RowTypes
<1> QED
  BY <1>1, <1>2, <1>3 DEF Idle, RequestType, Holds

\* The initial state.
LEMMA InitRowsOK ==
    ASSUME Init, NEW ats, "idle" \in ats
    PROVE  RowsOK /\ RequestsOK(ats)
<1>1. 0 \in Credentials /\ 0 \in Verifications
  BY BoundsAssumption DEF Credentials, Verifications
<1>2. connection \in ConnectionType /\ repositories \in [Repositories -> RepositoryType]
  BY <1>1, RowTypes DEF Init
<1>3. CommonTypeOK
  BY <1>1, <1>2 DEF Init, CommonTypeOK
<1>4. On("enabled") = {} /\ Known = {}
  BY DEF Init, On, Known, NoRepository
<1>5. connection.lifecycle = "absent" /\ connection.credential = 0
  BY DEF Init, NoConnection
<1>6. RequestsOK(ats)
  BY IdleIsARequest DEF Init, RequestsOK
<1> QED
  BY <1>3, <1>4, <1>5, <1>6
     DEF RowsOK, CredentialCoversEnabled, RetiredStandsAlone

-----------------------------------------------------------------------------
\* A new row of r that is not enabled, where the old one could be left, keeps
\* the rows in order: disablement, retirement and removal of a Repository.
LEMMA OneRowKeeps ==
    ASSUME RowsOK, NEW r \in On("enabled") \cup On("disabled"),
           NEW row \in RepositoryType, row.lifecycle # "enabled",
           repositories' = [repositories EXCEPT ![r] = row],
           UNCHANGED <<connection, issued, accepted, accessible>>
    PROVE  RowsOK'
<1>1. r \in Repositories /\ r \in Known /\ r \notin On("retired")
  BY DEF On, Known
<1>2. CommonTypeOK'
  BY <1>1 DEF RowsOK, CommonTypeOK
<1>3. connection.lifecycle = "enabled"
  BY <1>1 DEF RowsOK, RetiredStandsAlone, CommonTypeOK, ConnectionType
<1>4. CredentialCoversEnabled'
  BY <1>1 DEF RowsOK, CommonTypeOK, CredentialCoversEnabled, On
<1> QED
  BY <1>2, <1>3, <1>4 DEF RowsOK, RetiredStandsAlone

\* The steps common to both forges keep the rows.
LEMMA CommonKeeps ==
    ASSUME RowsOK, Common
    PROVE  RowsOK'
<1>1. ASSUME NEW r \in Repositories, Disable(r) PROVE RowsOK'
  <2> DEFINE row == [repositories[r] EXCEPT !.lifecycle = "disabled", !.revision = @ + 1]
  <2>1. repositories[r] \in RepositoryType /\ repositories[r].revision + 1 \in 0 .. MaxRevision
    BY <1>1, BoundsAssumption DEF RowsOK, CommonTypeOK, Disable, RepositoryType
  <2>2. row \in RepositoryType /\ row.lifecycle # "enabled"
    BY <2>1 DEF RepositoryType
  <2>3. repositories' = [repositories EXCEPT ![r] = row]
    BY <1>1, <2>1 DEF Disable, RowsOK, CommonTypeOK, RepositoryType
  <2>4. r \in On("enabled") \cup On("disabled")
    BY <1>1 DEF Disable
  <2> HIDE DEF row
  <2> QED
    BY <1>1, <2>2, <2>3, <2>4, OneRowKeeps DEF Disable
<1>2. ASSUME NEW r \in Repositories, RetireRepository(r) PROVE RowsOK'
  <2> DEFINE row == [repositories[r] EXCEPT !.lifecycle = "retired", !.revision = @ + 1]
  <2>1. repositories[r] \in RepositoryType /\ repositories[r].revision + 1 \in 0 .. MaxRevision
    BY <1>2, BoundsAssumption DEF RowsOK, CommonTypeOK, RetireRepository, RepositoryType
  <2>2. row \in RepositoryType /\ row.lifecycle # "enabled"
    BY <2>1 DEF RepositoryType
  <2>3. repositories' = [repositories EXCEPT ![r] = row]
    BY <1>2, <2>1 DEF RetireRepository, RowsOK, CommonTypeOK, RepositoryType
  <2>4. r \in On("enabled") \cup On("disabled")
    BY <1>2 DEF RetireRepository
  <2> HIDE DEF row
  <2> QED
    BY <1>2, <2>2, <2>3, <2>4, OneRowKeeps DEF RetireRepository
<1>3. ASSUME NEW r \in Repositories, RemoveRepository(r) PROVE RowsOK'
  <2>1. NoRepository \in RepositoryType /\ NoRepository.lifecycle # "enabled"
    BY RowTypes DEF NoRepository
  <2> QED
    BY <1>3, <2>1, OneRowKeeps DEF RemoveRepository
<1>4. CASE RetireConnection
  <2>1. Known = On("retired")
    BY <1>4 DEF RetireConnection, Dependents, Known, On
  <2>2. On("enabled") = {}
    BY <2>1 DEF Known, On
  <2>3. connection' \in ConnectionType
    <3>1. connection \in ConnectionType /\ 0 \in Credentials
      BY BoundsAssumption DEF RowsOK, CommonTypeOK, Credentials
    <3> QED
      BY <1>4, <3>1 DEF RetireConnection, ConnectionType
  <2>4. CommonTypeOK'
    BY <1>4, <2>3 DEF RetireConnection, RowsOK, CommonTypeOK
  <2>5. connection'.lifecycle = "retired" /\ connection'.credential = 0
    BY <1>4 DEF RetireConnection, RowsOK, CommonTypeOK, ConnectionType
  <2>6. (On("enabled"))' = {} /\ Known' = (On("retired"))'
    BY <1>4, <2>1, <2>2 DEF RetireConnection, Known, On
  <2> QED
    BY <2>4, <2>5, <2>6 DEF RowsOK, RetiredStandsAlone, CredentialCoversEnabled
<1>5. CASE RemoveConnection
  <2>1. connection' \in ConnectionType
    BY <1>5, RowTypes DEF RemoveConnection, RowsOK, CommonTypeOK, ConnectionType
  <2>2. CommonTypeOK'
    BY <1>5, <2>1 DEF RemoveConnection, RowsOK, CommonTypeOK
  <2>3. connection'.lifecycle = "absent" /\ connection'.credential = 0
    BY <1>5 DEF RemoveConnection, NoConnection
  <2>4. Known' = {} /\ (On("enabled"))' = {}
    BY <1>5 DEF RemoveConnection, Known, On
  <2> QED
    BY <2>2, <2>3, <2>4 DEF RowsOK, RetiredStandsAlone, CredentialCoversEnabled
<1>6. ASSUME UNCHANGED <<connection, repositories, issued>>,
             accepted' \subseteq accepted, accessible' \subseteq accessible
      PROVE  RowsOK'
  BY <1>6 DEF RowsOK, CommonTypeOK, CredentialCoversEnabled, RetiredStandsAlone, Known, On
<1> QED
  BY <1>1, <1>2, <1>3, <1>4, <1>5, <1>6 DEF Common, Revoke, Withdraw, Lost

\* ... and the requests, of which one may be gone.
LEMMA CommonKeepsRequests ==
    ASSUME NEW ats, "idle" \in ats, RequestsOK(ats), Common
    PROVE  RequestsOK(ats)'
<1>1. CASE UNCHANGED requests
  BY <1>1 DEF RequestsOK, Holds
<1>2. ASSUME NEW o \in Requests, Lost(o) PROVE RequestsOK(ats)'
  BY <1>2, IdleIsARequest DEF Lost, Ends, RequestsOK, Holds
<1> QED
  BY <1>1, <1>2 DEF Common, Disable, RetireRepository, RemoveRepository, RetireConnection,
     RemoveConnection, Revoke, Withdraw

-----------------------------------------------------------------------------
\* What a request is asked with is a request.
LEMMA AskedIsARequest ==
    ASSUME RowsOK, NEW ats, NEW at \in ats, NEW credential \in Credentials,
           NEW about \in SUBSET Repositories
    PROVE  /\ [at |-> at, credential |-> credential, about |-> about,
               connection |-> connection, repositories |-> repositories] \in RequestType(ats)
           /\ [Idle EXCEPT !.at = at, !.credential = credential, !.about = about]
                 \in RequestType(ats)
<1>1. connection \in ConnectionType /\ repositories \in [Repositories -> RepositoryType]
  BY DEF RowsOK, CommonTypeOK
<1>2. Idle \in RequestType(ats \cup {"idle"})
  BY IdleIsARequest
<1> QED
  BY <1>1, <1>2 DEF RequestType

\* One request becomes another one.
LEMMA OneRequestKeeps ==
    ASSUME NEW ats, RequestsOK(ats), NEW o \in Requests, NEW q \in RequestType(ats), Holds(q),
           requests' = [requests EXCEPT ![o] = q]
    PROVE  RequestsOK(ats)'
BY DEF RequestsOK, Holds

LEMMA EndsKeeps ==
    ASSUME NEW ats, "idle" \in ats, RequestsOK(ats), NEW o \in Requests, Ends(o)
    PROVE  RequestsOK(ats)'
BY IdleIsARequest, OneRequestKeeps DEF Ends

\* Nothing is written; a credential may have been issued.
LEMMA UnwrittenKeeps ==
    ASSUME RowsOK, UNCHANGED <<connection, repositories, accepted, accessible>>,
           UNCHANGED issued \/ Issue
    PROVE  RowsOK'
<1>1. issued' \in Credentials
  BY BoundsAssumption DEF RowsOK, CommonTypeOK, Issue, Credentials
<1> QED
  BY <1>1 DEF RowsOK, CommonTypeOK, CredentialCoversEnabled, RetiredStandsAlone, Known, On

\* The credential that is issued is one, and not none.
LEMMA IssuedIsOne ==
    ASSUME RowsOK, Issue
    PROVE  issued' \in Credentials /\ issued' # 0
BY BoundsAssumption DEF RowsOK, CommonTypeOK, Issue, Credentials

-----------------------------------------------------------------------------
\* A verification is on record, and what it found of some of the rows.
LEMMA FoundRows ==
    ASSUME connection \in ConnectionType, Unrefused,
           NEW rows \in [Repositories -> RepositoryType], NEW R, NEW good \in BOOLEAN
    PROVE  /\ NewVerification \in Verifications
           /\ Found(rows, R, good) \in [Repositories -> RepositoryType]
           /\ \A r \in Repositories :
                /\ Found(rows, R, good)[r].lifecycle = rows[r].lifecycle
                /\ Found(rows, R, good)[r].revision = rows[r].revision
                /\ Found(rows, R, good)[r].by = rows[r].by
<1>1. connection.verification \in Verifications
  BY DEF ConnectionType
<1>2. NewVerification \in Verifications
  BY <1>1, BoundsAssumption DEF Unrefused, NewVerification, Verifications
<1>3. ASSUME NEW r \in Repositories
      PROVE  /\ [rows[r] EXCEPT !.healthy = good, !.verification = NewVerification]
                   \in RepositoryType
             /\ LET new == [rows[r] EXCEPT !.healthy = good, !.verification = NewVerification]
                IN  /\ new.lifecycle = rows[r].lifecycle
                    /\ new.revision = rows[r].revision
                    /\ new.by = rows[r].by
  BY <1>2 DEF RepositoryType
<1> QED
  BY <1>2, <1>3 DEF Found

\* Some of the rows are covered by c.
LEMMA CoverRows ==
    ASSUME NEW rows \in [Repositories -> RepositoryType], NEW R, NEW c \in Credentials
    PROVE  /\ Cover(rows, R, c) \in [Repositories -> RepositoryType]
           /\ \A r \in Repositories :
                /\ Cover(rows, R, c)[r].lifecycle = rows[r].lifecycle
                /\ Cover(rows, R, c)[r].revision = rows[r].revision
                /\ Cover(rows, R, c)[r].by = IF r \in R THEN c ELSE rows[r].by
<1>1. ASSUME NEW r \in Repositories
      PROVE  /\ [rows[r] EXCEPT !.by = c] \in RepositoryType
             /\ [rows[r] EXCEPT !.by = c].lifecycle = rows[r].lifecycle
             /\ [rows[r] EXCEPT !.by = c].revision = rows[r].revision
             /\ [rows[r] EXCEPT !.by = c].by = c
  BY DEF RepositoryType
<1> QED
  BY <1>1 DEF Cover

\* An enabled connection whose credential covers what is enabled.
LEMMA CoveredKeeps ==
    ASSUME RowsOK, connection' \in ConnectionType,
           repositories' \in [Repositories -> RepositoryType],
           UNCHANGED <<issued, accepted, accessible>>,
           connection'.lifecycle = "enabled", connection'.credential # 0,
           \A r \in Repositories : repositories'[r].lifecycle = "enabled" =>
               repositories'[r].by = connection'.credential
    PROVE  RowsOK'
BY DEF RowsOK, CommonTypeOK, CredentialCoversEnabled, RetiredStandsAlone, On

\* Rows whose health or verification changed and nothing else.
LEMMA SameLifecyclesKeep ==
    ASSUME RowsOK, connection' \in ConnectionType,
           repositories' \in [Repositories -> RepositoryType],
           UNCHANGED <<issued, accepted, accessible>>,
           connection'.lifecycle = connection.lifecycle,
           connection'.credential = connection.credential,
           \A r \in Repositories : /\ repositories'[r].lifecycle = repositories[r].lifecycle
                                   /\ repositories'[r].by = repositories[r].by
    PROVE  RowsOK'
<1>1. \A l : (On(l))' = On(l)
  BY DEF On
<1>2. Known' = Known
  BY <1>1 DEF Known
<1>3. CredentialCoversEnabled'
  BY <1>1 DEF RowsOK, CredentialCoversEnabled, On
<1> QED
  BY <1>1, <1>2, <1>3 DEF RowsOK, CommonTypeOK, RetiredStandsAlone

-----------------------------------------------------------------------------
(* GitHub *)

GitHubInv == RowsOK /\ RequestsOK(Stages)

\* Where the flow of o has got to, with the credential it has or one it got.
LEMMA MovesAreRequests ==
    ASSUME RequestsOK(Stages), NEW o \in Requests, NEW at \in Stages,
           NEW c \in Credentials, NEW about \in SUBSET Repositories
    PROVE  /\ requests[o] \in RequestType(Stages)
           /\ [requests[o] EXCEPT !.at = at] \in RequestType(Stages)
           /\ [requests[o] EXCEPT !.at = at, !.credential = c] \in RequestType(Stages)
           /\ [requests[o] EXCEPT !.at = at, !.about = about] \in RequestType(Stages)
<1>1. requests[o] \in RequestType(Stages)
  BY DEF RequestsOK
<1> QED
  BY <1>1 DEF RequestType

\* The stages a step names are stages.
LEMMA StagesAre ==
    /\ "idle" \in Stages /\ "manifest" \in Stages /\ "exchanging" \in Stages
    /\ "installation" \in Stages /\ "installing" \in Stages /\ "reactivating" \in Stages
    /\ "returning" \in Stages /\ "rotating" \in Stages /\ "selecting" \in Stages
    /\ "enabling" \in Stages
BY DEF Stages, Flows

-----------------------------------------------------------------------------
\* The steps of a flow before the credential is stored.
LEMMA FlowKeeps ==
    ASSUME GitHubInv, NEW o \in Requests,
           Start(o) \/ Exchange(o) \/ Exchanged(o) \/ Install(o) \/ Reactivate(o)
    PROVE  GitHubInv'
<1>. USE StagesAre DEF GitHubInv
<1>1. RowsOK'
  BY UnwrittenKeeps DEF Start, Exchange, Exchanged, Install, Reactivate
<1>2. requests \in [Requests -> RequestType(Stages)] /\ Holds(requests[o])
  BY DEF RequestsOK
<1>3. 0 \in Credentials /\ accessible \in SUBSET Repositories
  BY BoundsAssumption DEF RowsOK, CommonTypeOK, Credentials
<1>4. CASE Start(o)
  <2> DEFINE q == [Idle EXCEPT !.at = "manifest", !.credential = 0, !.about = {}]
  <2>1. q \in RequestType(Stages)
    BY <1>3, AskedIsARequest
  <2>2. Holds(q)
    BY DEF Holds, Idle
  <2> HIDE DEF q
  <2> QED
    BY <1>1, <1>4, <2>1, <2>2, OneRequestKeeps DEF Start, Begins, q
<1>5. CASE Exchange(o)
  <2> DEFINE q == [requests[o] EXCEPT !.at = "exchanging"]
  <2>1. q \in RequestType(Stages)
    BY <1>3, MovesAreRequests
  <2>2. Holds(q)
    BY <1>2 DEF Holds, RequestType
  <2>3. requests' = [requests EXCEPT ![o] = q]
    BY <1>2, <1>5 DEF Exchange
  <2> HIDE DEF q
  <2> QED
    BY <1>1, <2>1, <2>2, <2>3, OneRequestKeeps
<1>6. CASE Exchanged(o)
  <2> DEFINE q == [requests[o] EXCEPT !.at = "installation", !.credential = issued']
  <2>0. issued' \in Credentials /\ issued' # 0
    BY <1>6, IssuedIsOne DEF Exchanged
  <2>1. q \in RequestType(Stages)
    BY <1>3, <2>0, MovesAreRequests
  <2>2. Holds(q)
    BY <1>2, <2>0 DEF Holds, RequestType
  <2>3. requests' = [requests EXCEPT ![o] = q]
    BY <1>2, <1>6 DEF Exchanged
  <2> HIDE DEF q
  <2> QED
    BY <1>1, <2>1, <2>2, <2>3, OneRequestKeeps
<1>7. CASE Install(o)
  <2> DEFINE q == [requests[o] EXCEPT !.at = "installing", !.about = accessible]
  <2>1. q \in RequestType(Stages)
    BY <1>3, MovesAreRequests
  <2>2. Holds(q)
    BY <1>2, <1>7 DEF Holds, RequestType, Install
  <2>3. requests' = [requests EXCEPT ![o] = q]
    BY <1>2, <1>7 DEF Install
  <2> HIDE DEF q
  <2> QED
    BY <1>1, <2>1, <2>2, <2>3, OneRequestKeeps
<1>8. CASE Reactivate(o)
  <2> DEFINE q == [Idle EXCEPT !.at = "reactivating", !.credential = issued',
                               !.about = accessible]
  <2>0. issued' \in Credentials /\ issued' # 0
    BY <1>8, IssuedIsOne DEF Reactivate
  <2>1. q \in RequestType(Stages)
    BY <1>3, <2>0, AskedIsARequest
  <2>2. Holds(q)
    BY <2>0 DEF Holds, Idle
  <2> HIDE DEF q
  <2> QED
    BY <1>1, <1>8, <2>1, <2>2, OneRequestKeeps DEF Reactivate, Begins, q
<1> QED
  BY <1>4, <1>5, <1>6, <1>7, <1>8

\* The credential of a flow is stored where no Repository is enabled.
LEMMA InsertKeeps ==
    ASSUME RowsOK, Unrefused, NEW c \in Credentials, c # 0, Inserts(c),
           connection.lifecycle # "enabled",
           UNCHANGED <<repositories, issued, accepted, accessible>>
    PROVE  RowsOK'
<1>1. connection \in ConnectionType
  BY DEF RowsOK, CommonTypeOK
<1>2. On("enabled") = {}
  BY <1>1 DEF RowsOK, RetiredStandsAlone, ConnectionType, Known, On
<1>3. NewVerification \in Verifications
  BY <1>1, BoundsAssumption DEF Unrefused, NewVerification, Verifications, ConnectionType
<1>4. connection' \in ConnectionType
  BY <1>3 DEF Inserts, ConnectionType
<1> QED
  BY <1>2, <1>4, CoveredKeeps DEF Inserts, On, RowsOK, CommonTypeOK

LEMMA InstalledKeeps ==
    ASSUME GitHubInv, NEW o \in Requests, Installed(o)
    PROVE  GitHubInv'
<1>. USE StagesAre DEF GitHubInv
<1>1. /\ requests \in [Requests -> RequestType(Stages)] /\ Holds(requests[o])
      /\ requests[o].credential \in Credentials
  BY DEF RequestsOK, RequestType
<1>2. requests[o].credential # 0
  BY <1>1 DEF Installed, Holds
<1>3. RequestsOK(Stages)'
  <2>1. CASE Ends(o)
    BY <2>1, EndsKeeps
  <2>2. CASE requests' = [requests EXCEPT ![o].at = "returning"]
    <3> DEFINE q == [requests[o] EXCEPT !.at = "returning"]
    <3>1. q \in RequestType(Stages)
      BY <1>1 DEF RequestType
    <3>2. Holds(q)
      BY <1>1, <1>2 DEF Holds, RequestType
    <3>3. requests' = [requests EXCEPT ![o] = q]
      BY <1>1, <2>2
    <3> HIDE DEF q
    <3> QED
      BY <3>1, <3>2, <3>3, OneRequestKeeps
  <2> QED
    BY <2>1, <2>2 DEF Installed
<1>4. RowsOK'
  <2>1. CASE UNCHANGED connection
    BY <2>1, UnwrittenKeeps DEF Installed
  <2>2. CASE Inserts(requests[o].credential) /\ connection.lifecycle = "absent"
    BY <1>1, <1>2, <2>2, InsertKeeps DEF Installed
  <2> QED
    BY <2>1, <2>2 DEF Installed
<1> QED
  BY <1>3, <1>4

LEMMA ReturnedKeeps ==
    ASSUME GitHubInv, NEW o \in Requests, Returned(o)
    PROVE  GitHubInv'
<1>. USE StagesAre DEF GitHubInv
<1>1. /\ requests \in [Requests -> RequestType(Stages)] /\ Holds(requests[o])
      /\ requests[o].credential \in Credentials
  BY DEF RequestsOK, RequestType
<1>2. requests[o].credential # 0
  BY <1>1 DEF Returned, Holds
<1>3. RequestsOK(Stages)'
  BY EndsKeeps DEF Returned
<1>4. CASE UNCHANGED connection
  BY <1>3, <1>4, UnwrittenKeeps DEF Returned
<1>5. CASE Vacant /\ Inserts(requests[o].credential)
  <2>1. connection.lifecycle # "enabled"
    BY <1>5 DEF Vacant, RowsOK
  <2> QED
    BY <1>1, <1>2, <1>3, <1>5, <2>1, InsertKeeps DEF Returned
<1> QED
  BY <1>4, <1>5 DEF Returned

-----------------------------------------------------------------------------
\* A rotation, a selection or an enablement is asked for.
LEMMA AskingKeeps ==
    ASSUME GitHubInv, NEW o \in Requests, Rotate(o) \/ Select(o)
    PROVE  GitHubInv'
<1>. USE StagesAre DEF GitHubInv
<1>1. RowsOK'
  BY UnwrittenKeeps DEF Rotate, Select
<1>2. connection \in ConnectionType /\ connection.credential \in Credentials
  BY DEF RowsOK, CommonTypeOK, ConnectionType
<1>3. ASSUME NEW at \in Stages, NEW c \in Credentials, NEW R \in SUBSET Repositories,
             at \in {"selecting", "enabling"} => c = connection.credential,
             at = "rotating" => connection.credential # 0 /\ c # 0,
             at \in {"rotating", "selecting", "enabling"},
             Asks(o, at, c, R)
      PROVE  RequestsOK(Stages)'
  <2> DEFINE q == [at |-> at, credential |-> c, about |-> R,
                   connection |-> connection, repositories |-> repositories]
  <2>1. q \in RequestType(Stages)
    BY AskedIsARequest
  <2>2. Holds(q)
    BY <1>3 DEF Holds
  <2> HIDE DEF q
  <2> QED
    BY <1>3, <2>1, <2>2, OneRequestKeeps DEF Asks, q
<1>4. CASE Rotate(o)
  <2>1. issued' \in Credentials /\ issued' # 0
    BY <1>4, IssuedIsOne DEF Rotate
  <2>2. On("enabled") \in SUBSET Repositories
    BY DEF On
  <2> QED
    BY <1>1, <1>3, <1>4, <2>1, <2>2 DEF Rotate
<1>5. CASE Select(o)
  <2>1. Known \subseteq Repositories
    BY DEF Known
  <2>2. ASSUME NEW S \in SUBSET Repositories, NEW at \in {"selecting", "enabling"},
               Asks(o, at, connection.credential, S)
        PROVE  RequestsOK(Stages)'
    BY <1>2, <1>3, <2>2
  <2> QED
    BY <1>1, <1>5, <2>1, <2>2 DEF Select
<1> QED
  BY <1>4, <1>5

-----------------------------------------------------------------------------
\* A failure changes nobody's lifecycle or credential.
LEMMA FailsKeeps ==
    ASSUME RowsOK, Unrefused, NEW answer, Fails(answer),
           UNCHANGED <<issued, accepted, accessible>>
    PROVE  RowsOK'
<1>1. connection \in ConnectionType /\ repositories \in [Repositories -> RepositoryType]
  BY DEF RowsOK, CommonTypeOK
<1> DEFINE bad == Found(repositories, answer.bad \cap Known, FALSE)
<1>2. bad \in [Repositories -> RepositoryType] /\ NewVerification \in Verifications
  BY <1>1, FoundRows
<1>3. ASSUME NEW r \in Repositories
      PROVE  bad[r].lifecycle = repositories[r].lifecycle /\ bad[r].by = repositories[r].by
  BY <1>1 DEF Found, RepositoryType
<1>4. repositories' = Found(bad, answer.good \cap Known, TRUE)
  BY DEF Fails
<1> HIDE DEF bad
<1>5. /\ repositories' \in [Repositories -> RepositoryType]
      /\ \A r \in Repositories : /\ repositories'[r].lifecycle = repositories[r].lifecycle
                                 /\ repositories'[r].by = repositories[r].by
  <2> DEFINE R == answer.good \cap Known
             good == Found(bad, R, TRUE)
  <2> HIDE DEF R
  <2>1. good \in [Repositories -> RepositoryType]
    BY <1>1, <1>2, FoundRows
  <2>2. ASSUME NEW r \in Repositories
        PROVE  good[r].lifecycle = bad[r].lifecycle /\ good[r].by = bad[r].by
    BY <1>2 DEF Found, RepositoryType
  <2>3. repositories' = good
    BY <1>4 DEF R
  <2> HIDE DEF good
  <2> QED
    BY <1>3, <2>1, <2>2, <2>3
<1>6. PICK b \in BOOLEAN : b = (answer.is = "bad")
  OBVIOUS
<1>7. /\ connection' \in ConnectionType
      /\ connection'.lifecycle = connection.lifecycle
      /\ connection'.credential = connection.credential
  <2>1. connection' = [connection EXCEPT !.healthy = b, !.verification = NewVerification]
    BY <1>6 DEF Fails
  <2> QED
    BY <1>1, <1>2, <2>1 DEF ConnectionType
<1> QED
  BY <1>5, <1>7, SameLifecyclesKeep

\* A rotation that is current covers all that is enabled.
LEMMA RotatedKeeps ==
    ASSUME GitHubInv, Unrefused, NEW o \in Requests, NEW answer, Rotated(o, answer),
           UNCHANGED <<issued, accepted, accessible>>
    PROVE  RowsOK'
<1> DEFINE q == requests[o]
<1>1. connection \in ConnectionType /\ repositories \in [Repositories -> RepositoryType]
  BY DEF GitHubInv, RowsOK, CommonTypeOK
<1>2. /\ q.credential \in Credentials /\ q.credential # 0 /\ q.connection.credential # 0
  BY DEF GitHubInv, RequestsOK, RequestType, Holds, Rotated
<1>3. CASE CurrentRotation(q)
  <2> DEFINE rows == Found(repositories, q.about, TRUE)
  <2>1. /\ rows \in [Repositories -> RepositoryType] /\ NewVerification \in Verifications
        /\ \A r \in Repositories : rows[r].lifecycle = repositories[r].lifecycle
    BY <1>1, FoundRows
  <2>2. repositories' = Cover(rows, q.about, q.credential)
    BY <1>3 DEF Rotated
  <2> HIDE DEF rows
  <2>3. /\ repositories' \in [Repositories -> RepositoryType]
        /\ \A r \in Repositories :
             /\ repositories'[r].lifecycle = repositories[r].lifecycle
             /\ r \in q.about => repositories'[r].by = q.credential
    BY <1>2, <2>1, <2>2, CoverRows
  <2>4. connection' = [connection EXCEPT !.healthy = TRUE, !.credential = q.credential,
                                         !.verification = NewVerification]
    BY <1>3 DEF Rotated
  <2>5. /\ connection' \in ConnectionType /\ connection'.credential = q.credential
        /\ connection'.lifecycle = connection.lifecycle
    BY <1>1, <1>2, <2>1, <2>4 DEF ConnectionType
  <2>6. connection.lifecycle = "enabled"
    BY <1>1, <1>2, <1>3
       DEF CurrentRotation, GitHubInv, RowsOK, RetiredStandsAlone, ConnectionType
  <2>7. On("enabled") = q.about
    BY <1>3 DEF CurrentRotation
  <2> HIDE DEF q
  <2> QED
    BY <1>2, <2>3, <2>5, <2>6, <2>7, CoveredKeeps DEF GitHubInv, On
<1>4. CASE ~CurrentRotation(q)
  BY <1>4, UnwrittenKeeps DEF Rotated, GitHubInv
<1> QED
  BY <1>3, <1>4

\* What a selection or an enablement enables was verified with the credential
\* that is still stored.
LEMMA SelectedKeeps ==
    ASSUME GitHubInv, Unrefused, NEW o \in Requests, NEW answer, Selected(o, answer),
           UNCHANGED <<issued, accepted, accessible>>
    PROVE  RowsOK'
<1> DEFINE q == requests[o]
           existing == {r \in Repositories : q.repositories[r].lifecycle # "absent"}
           gone == existing \ accessible
           current == CurrentConnection(q) /\ CurrentRepositories(q, existing \cup q.about)
<1>1. connection \in ConnectionType /\ repositories \in [Repositories -> RepositoryType]
  BY DEF GitHubInv, RowsOK, CommonTypeOK
<1>2. /\ q.credential \in Credentials /\ q.about \subseteq Repositories
      /\ q.credential = q.connection.credential
  BY DEF GitHubInv, RequestsOK, RequestType, Holds, Selected
<1>3. CASE current
  <2> DEFINE lost == Found(repositories, gone, FALSE)
             good == Found(lost, q.about, TRUE)
             rows == Cover(good, q.about, q.credential)
  <2>1. /\ lost \in [Repositories -> RepositoryType] /\ NewVerification \in Verifications
        /\ \A r \in Repositories : /\ lost[r].lifecycle = repositories[r].lifecycle
                                   /\ lost[r].revision = repositories[r].revision
                                   /\ lost[r].by = repositories[r].by
    BY <1>1, FoundRows
  <2>2. /\ good \in [Repositories -> RepositoryType]
        /\ \A r \in Repositories : /\ good[r].lifecycle = lost[r].lifecycle
                                   /\ good[r].revision = lost[r].revision
                                   /\ good[r].by = lost[r].by
    <3>1. lost \in [Repositories -> RepositoryType]
      BY <2>1
    <3> HIDE DEF lost
    <3>2. good \in [Repositories -> RepositoryType]
      BY <1>1, <3>1, FoundRows
    <3>3. ASSUME NEW r \in Repositories
          PROVE  /\ good[r].lifecycle = lost[r].lifecycle
                 /\ good[r].revision = lost[r].revision
                 /\ good[r].by = lost[r].by
      BY <3>1 DEF Found, RepositoryType
    <3> QED
      BY <3>2, <3>3
  <2>3. /\ rows \in [Repositories -> RepositoryType]
        /\ \A r \in Repositories :
             /\ rows[r].lifecycle = good[r].lifecycle
             /\ rows[r].revision = good[r].revision
             /\ rows[r].by = IF r \in q.about THEN q.credential ELSE good[r].by
    <3> HIDE DEF good
    <3> QED
      BY <1>2, <2>2, CoverRows
  <2>4. /\ repositories' = Selecting(q, rows)
        /\ connection' = [connection EXCEPT !.healthy = TRUE, !.verification = NewVerification]
        /\ \A r \in q.about : repositories[r].revision < MaxRevision
    BY <1>3 DEF Selected
  <2>5. CurrentConnection(q)
    BY <1>3
  <2> HIDE DEF rows, good, lost, current, gone, existing
  <2>6. ASSUME NEW r \in Repositories
        PROVE  /\ repositories'[r] \in RepositoryType
               /\ \/ r \in q.about /\ repositories'[r].by = q.credential
                  \/ r \notin q.about /\ repositories'[r].by = repositories[r].by
                                      /\ repositories'[r].lifecycle = repositories[r].lifecycle
    <3>1. rows[r] \in RepositoryType /\ repositories[r] \in RepositoryType
      BY <1>1, <2>3
    <3>2. CASE r \in q.about /\ (q.at = "enabling" \/ rows[r].lifecycle \in {"absent", "retired"})
      <4> DEFINE n == IF rows[r].lifecycle = "absent" THEN 0 ELSE rows[r].revision + 1
      <4>1. rows[r].revision < MaxRevision
        BY <2>1, <2>2, <2>3, <2>4, <3>2
      <4>2. n \in 0 .. MaxRevision
        BY <3>1, <4>1, BoundsAssumption DEF RepositoryType
      <4>3. repositories'[r] = [rows[r] EXCEPT !.lifecycle = "enabled", !.revision = n]
        BY <2>4, <3>1, <3>2 DEF Selecting, RepositoryType
      <4> HIDE DEF n
      <4>4. repositories'[r] \in RepositoryType /\ repositories'[r].by = rows[r].by
        BY <3>1, <4>2, <4>3 DEF RepositoryType
      <4>5. r \in q.about /\ rows[r].by = q.credential
        BY <2>3, <3>2
      <4> QED
        BY <4>4, <4>5
    <3>3. CASE ~(r \in q.about
                    /\ (q.at = "enabling" \/ rows[r].lifecycle \in {"absent", "retired"}))
      <4>1. repositories'[r] = rows[r]
        BY <2>4, <3>3 DEF Selecting
      <4> QED
        BY <2>1, <2>2, <2>3, <3>1, <4>1
    <3> QED
      BY <3>2, <3>3
  <2>7. repositories' \in [Repositories -> RepositoryType]
    <3>1. repositories' = [r \in Repositories |-> repositories'[r]]
      BY <2>4 DEF Selecting
    <3> QED
      BY <2>6, <3>1
  <2>8. /\ connection' \in ConnectionType /\ connection'.lifecycle = "enabled"
        /\ connection'.credential = connection.credential
        /\ connection.lifecycle = "enabled"
        /\ connection.credential = q.credential
    BY <1>1, <1>2, <2>1, <2>4, <2>5 DEF ConnectionType, CurrentConnection
  <2>9. connection.credential # 0 /\ CredentialCoversEnabled
    BY <2>8 DEF GitHubInv, RowsOK
  <2>10. \A r \in Repositories : repositories'[r].lifecycle = "enabled" =>
           repositories'[r].by = connection'.credential
    BY <2>6, <2>8, <2>9 DEF CredentialCoversEnabled, On
  <2> QED
    BY <2>7, <2>8, <2>9, <2>10, CoveredKeeps DEF GitHubInv
<1>4. CASE ~current
  <2>1. UNCHANGED <<connection, repositories>>
    BY <1>4 DEF Selected
  <2> QED
    BY <2>1, UnwrittenKeeps DEF GitHubInv
<1> QED
  BY <1>3, <1>4

LEMMA AnsweredKeeps ==
    ASSUME GitHubInv, NEW o \in Requests, Answered(o)
    PROVE  GitHubInv'
<1>1. RequestsOK(Stages)'
  BY StagesAre, EndsKeeps DEF Answered, GitHubInv
<1>2. Unrefused /\ UNCHANGED <<issued, accepted, accessible>>
  BY DEF Answered
<1>3. PICK answer \in FirstFailure(requests[o]) :
        \/ Rotated(o, answer) \/ RotationFailed(o, answer)
        \/ Selected(o, answer) \/ SelectionFailed(o, answer)
  BY DEF Answered
<1>4. CASE RotationFailed(o, answer) \/ SelectionFailed(o, answer)
  BY <1>1, <1>2, <1>4, FailsKeeps, UnwrittenKeeps
     DEF RotationFailed, SelectionFailed, GitHubInv
<1> QED
  BY <1>1, <1>2, <1>3, <1>4, RotatedKeeps, SelectedKeeps DEF GitHubInv

-----------------------------------------------------------------------------
LEMMA GitHubBegins == Init => GitHubInv
BY InitRowsOK, StagesAre DEF GitHubInv

LEMMA GitHubStep == GitHubInv /\ [Next]_vars => GitHubInv'
<1> SUFFICES ASSUME GitHubInv, [Next]_vars PROVE GitHubInv'
  OBVIOUS
<1>1. CASE Common
  BY <1>1, CommonKeeps, CommonKeepsRequests, StagesAre DEF GitHubInv
<1>2. ASSUME NEW o \in Requests,
             \/ Start(o) \/ Exchange(o) \/ Exchanged(o) \/ Install(o) \/ Installed(o)
             \/ Reactivate(o) \/ Returned(o)
             \/ Rotate(o) \/ Select(o) \/ Answered(o)
      PROVE  GitHubInv'
  BY <1>2, FlowKeeps, InstalledKeeps, ReturnedKeeps, AskingKeeps, AnsweredKeeps
<1>3. CASE UNCHANGED vars
  <2>1. RowsOK'
    BY <1>3, UnwrittenKeeps DEF vars, GitHubInv
  <2>2. RequestsOK(Stages)'
    BY <1>3 DEF vars, GitHubInv, RequestsOK, Holds
  <2> QED
    BY <2>1, <2>2 DEF GitHubInv
<1> QED
  BY <1>1, <1>2, <1>3 DEF Next

\* Every reachable state satisfies the invariant.
THEOREM GitHubInvariant == Spec => []GitHubInv
BY GitHubBegins, GitHubStep, PTL DEF Spec

\* What is stored has the shape the tables give it.
THEOREM GitHubTypes == Spec => []TypeOK
<1>1. GitHubInv => TypeOK
  BY DEF GitHubInv, RowsOK, RequestsOK, TypeOK
<1> QED
  BY <1>1, GitHubInvariant, PTL

\* Every enabled Repository was verified with the credential that is stored,
\* however rotations, selections, enablements and reactivations overlap.
THEOREM GitHubCredentialCoversEnabled == Spec => []CredentialCoversEnabled
<1>1. GitHubInv => CredentialCoversEnabled
  BY DEF GitHubInv, RowsOK
<1> QED
  BY <1>1, GitHubInvariant, PTL

\* Nothing is enabled behind the retirement of the connection, and its
\* credential is gone.
THEOREM GitHubRetiredStandsAlone == Spec => []RetiredStandsAlone
<1>1. GitHubInv => RetiredStandsAlone
  BY DEF GitHubInv, RowsOK
<1> QED
  BY <1>1, GitHubInvariant, PTL

-----------------------------------------------------------------------------
(* Forgejo *)

ForgejoInv == RowsOK /\ RequestsOK(ForgejoStages)

\* The stages a step names are stages.
LEMMA ForgejoStagesAre ==
    /\ "idle" \in ForgejoStages /\ "connecting" \in ForgejoStages /\ "rotating" \in ForgejoStages
    /\ "enabling" \in ForgejoStages /\ "reactivating" \in ForgejoStages
BY DEF ForgejoStages

-----------------------------------------------------------------------------
\* An operation is asked for.
LEMMA ForgejoAskingKeeps ==
    ASSUME ForgejoInv, NEW o \in Requests,
           Connect(o) \/ RotateForgejo(o) \/ Enable(o) \/ ReactivateForgejo(o)
    PROVE  ForgejoInv'
<1>. USE ForgejoStagesAre DEF ForgejoInv
<1>1. RowsOK'
  BY UnwrittenKeeps DEF Connect, RotateForgejo, Enable, ReactivateForgejo
<1>2. connection \in ConnectionType /\ connection.credential \in Credentials
  BY DEF RowsOK, CommonTypeOK, ConnectionType
<1>3. \A l : On(l) \in SUBSET Repositories
  BY DEF On
<1>4. ASSUME NEW at \in {"connecting", "reactivating"}, NEW R \in SUBSET Repositories,
             Issue, Begins(o, at, issued', R)
      PROVE  RequestsOK(ForgejoStages)'
  <2> DEFINE q == [Idle EXCEPT !.at = at, !.credential = issued', !.about = R]
  <2>1. issued' \in Credentials /\ issued' # 0
    BY <1>4, IssuedIsOne
  <2>2. q \in RequestType(ForgejoStages)
    BY <2>1, AskedIsARequest
  <2>3. Holds(q)
    BY <2>1 DEF Holds, Idle
  <2> HIDE DEF q
  <2> QED
    BY <1>4, <2>2, <2>3, OneRequestKeeps DEF Begins, q
<1>5. CASE Connect(o)
  BY <1>1, <1>4, <1>5 DEF Connect
<1>6. CASE ReactivateForgejo(o)
  BY <1>1, <1>3, <1>4, <1>6 DEF ReactivateForgejo
<1>7. CASE RotateForgejo(o)
  <2> DEFINE q == [at |-> "rotating", credential |-> issued', about |-> On("enabled"),
                   connection |-> connection, repositories |-> repositories]
  <2>1. issued' \in Credentials /\ issued' # 0 /\ connection.credential # 0
    BY <1>7, IssuedIsOne DEF RotateForgejo
  <2>2. q \in RequestType(ForgejoStages)
    BY <1>3, <2>1, AskedIsARequest
  <2>3. Holds(q)
    BY <2>1 DEF Holds
  <2> HIDE DEF q
  <2> QED
    BY <1>1, <1>7, <2>2, <2>3, OneRequestKeeps DEF RotateForgejo, Asks, q
<1>8. CASE Enable(o)
  <2>1. PICK r \in Known, pending \in SUBSET On("enabled") :
          Asks(o, "enabling", connection.credential, {r} \cup pending)
    BY <1>8 DEF Enable
  <2> DEFINE R == {r} \cup pending
             q == [at |-> "enabling", credential |-> connection.credential, about |-> R,
                   connection |-> connection, repositories |-> repositories]
  <2>2. R \in SUBSET Repositories
    BY DEF Known, On
  <2>3. q \in RequestType(ForgejoStages)
    <3> HIDE DEF R
    <3> QED
      BY <1>2, <2>2, AskedIsARequest
  <2>4. Holds(q)
    BY DEF Holds
  <2>5. requests' = [requests EXCEPT ![o] = q]
    BY <2>1 DEF Asks
  <2> HIDE DEF q
  <2> QED
    BY <1>1, <2>3, <2>4, <2>5, OneRequestKeeps
<1> QED
  BY <1>5, <1>6, <1>7, <1>8

-----------------------------------------------------------------------------
\* A failure changes nobody's lifecycle or credential.
LEMMA ForgejoFailsKeeps ==
    ASSUME RowsOK, Unrefused, NEW answer, ForgejoFails(answer),
           UNCHANGED <<issued, accepted, accessible>>
    PROVE  RowsOK'
<1>1. connection \in ConnectionType /\ repositories \in [Repositories -> RepositoryType]
  BY DEF RowsOK, CommonTypeOK
<1> DEFINE R == answer.bad
           found == Found(repositories, R, FALSE)
<1> HIDE DEF R
<1>2. /\ found \in [Repositories -> RepositoryType]
      /\ NewVerification \in Verifications
      /\ \A r \in Repositories : /\ found[r].lifecycle = repositories[r].lifecycle
                                 /\ found[r].by = repositories[r].by
  BY <1>1, FoundRows
<1>3. repositories' = found
  BY DEF ForgejoFails, R
<1>4. PICK b \in BOOLEAN : b = (connection.healthy /\ answer.is # "refused")
  OBVIOUS
<1>5. /\ connection' \in ConnectionType
      /\ connection'.lifecycle = connection.lifecycle
      /\ connection'.credential = connection.credential
  <2>1. connection' = [connection EXCEPT !.healthy = b, !.verification = NewVerification]
    BY <1>1, <1>4 DEF ForgejoFails, ConnectionType
  <2> QED
    BY <1>1, <1>2, <2>1 DEF ConnectionType
<1> HIDE DEF found
<1> QED
  BY <1>2, <1>3, <1>5, SameLifecyclesKeep

\* Nothing is written.
LEMMA KeepsKeeps ==
    ASSUME RowsOK, Keeps, UNCHANGED <<issued, accepted, accessible>>
    PROVE  RowsOK'
BY UnwrittenKeeps DEF Keeps

\* The first Repositories are enabled with their connection.
LEMMA ConnectedKeeps ==
    ASSUME ForgejoInv, Unrefused, NEW o \in Requests, NEW answer, Connected(o, answer),
           UNCHANGED <<issued, accepted, accessible>>
    PROVE  RowsOK'
<1> DEFINE q == requests[o]
<1>1. connection \in ConnectionType /\ repositories \in [Repositories -> RepositoryType]
  BY DEF ForgejoInv, RowsOK, CommonTypeOK
<1>2. q.credential \in Credentials /\ q.credential # 0
  BY DEF ForgejoInv, RequestsOK, RequestType, Holds, Connected
<1>3. NewVerification \in Verifications
  BY <1>1, FoundRows
<1>4. CASE answer.is = "good" /\ connection.lifecycle = "absent" /\ Known = {}
  <2>1. /\ connection' = [lifecycle |-> "enabled", healthy |-> TRUE,
                          credential |-> q.credential, verification |-> NewVerification]
        /\ repositories' = [r \in Repositories |->
               IF r \in q.about
               THEN [lifecycle |-> "enabled", revision |-> 0, healthy |-> TRUE,
                     verification |-> NewVerification, by |-> q.credential]
               ELSE NoRepository]
    BY <1>4 DEF Connected
  <2>2. connection' \in ConnectionType
    BY <1>2, <1>3, <2>1 DEF ConnectionType
  <2>3. repositories' \in [Repositories -> RepositoryType]
    BY <1>2, <1>3, <2>1, RowTypes, BoundsAssumption DEF RepositoryType
  <2>4. \A r \in Repositories : repositories'[r].lifecycle = "enabled" =>
          repositories'[r].by = connection'.credential
    BY <2>1 DEF NoRepository
  <2> QED
    BY <1>2, <2>1, <2>2, <2>3, <2>4, CoveredKeeps DEF ForgejoInv
<1>5. CASE ~(answer.is = "good" /\ connection.lifecycle = "absent" /\ Known = {})
  BY <1>5, KeepsKeeps DEF Connected, ForgejoInv
<1> QED
  BY <1>4, <1>5

\* A rotation covers all that is enabled when it commits.
LEMMA ForgejoRotatedKeeps ==
    ASSUME ForgejoInv, Unrefused, NEW o \in Requests, NEW answer, ForgejoRotated(o, answer),
           UNCHANGED <<issued, accepted, accessible>>
    PROVE  RowsOK'
<1> DEFINE q == requests[o]
           rows == [r \in Repositories |->
               IF r \in q.about THEN [repositories[r] EXCEPT !.verification = NewVerification]
                                ELSE repositories[r]]
<1>1. connection \in ConnectionType /\ repositories \in [Repositories -> RepositoryType]
  BY DEF ForgejoInv, RowsOK, CommonTypeOK
<1>2. /\ q.credential \in Credentials /\ q.credential # 0 /\ q.connection.credential # 0
  BY DEF ForgejoInv, RequestsOK, RequestType, Holds, ForgejoRotated
<1>3. NewVerification \in Verifications
  BY <1>1, FoundRows
<1>4. /\ rows \in [Repositories -> RepositoryType]
      /\ \A r \in Repositories : rows[r].lifecycle = repositories[r].lifecycle
  BY <1>1, <1>3 DEF RepositoryType
<1>5. /\ repositories' = Cover(rows, q.about, q.credential)
      /\ connection' = [connection EXCEPT !.healthy = TRUE, !.credential = q.credential,
                                          !.verification = NewVerification]
      /\ connection.credential = q.connection.credential
      /\ On("enabled") \subseteq q.about
  BY DEF ForgejoRotated, SameCredential, Verified
<1> HIDE DEF rows
<1>6. /\ repositories' \in [Repositories -> RepositoryType]
      /\ \A r \in Repositories : /\ repositories'[r].lifecycle = repositories[r].lifecycle
                                 /\ r \in q.about => repositories'[r].by = q.credential
  BY <1>2, <1>4, <1>5, CoverRows
<1>7. /\ connection' \in ConnectionType /\ connection'.credential = q.credential
      /\ connection'.lifecycle = connection.lifecycle
  BY <1>1, <1>2, <1>3, <1>5 DEF ConnectionType
<1>8. connection.lifecycle = "enabled"
  BY <1>1, <1>2, <1>5 DEF ForgejoInv, RowsOK, RetiredStandsAlone, ConnectionType
<1> HIDE DEF q
<1> QED
  BY <1>2, <1>5, <1>6, <1>7, <1>8, CoveredKeeps DEF ForgejoInv, On

\* What an enablement enables was verified with the credential that is still
\* stored.
LEMMA EnabledKeeps ==
    ASSUME ForgejoInv, Unrefused, NEW o \in Requests, NEW answer, Enabled(o, answer),
           UNCHANGED <<issued, accepted, accessible>>
    PROVE  RowsOK'
<1> DEFINE q == requests[o]
<1>1. connection \in ConnectionType /\ repositories \in [Repositories -> RepositoryType]
  BY DEF ForgejoInv, RowsOK, CommonTypeOK
<1>2. /\ q.credential \in Credentials /\ q.about \subseteq Repositories
      /\ q.credential = q.connection.credential
  BY DEF ForgejoInv, RequestsOK, RequestType, Holds, Enabled
<1>3. PICK r \in Enabling(q) :
        /\ repositories[r].revision < MaxRevision
        /\ IF Current(q)
           THEN /\ connection' = [connection EXCEPT !.healthy = TRUE,
                                                    !.verification = NewVerification]
                /\ repositories' =
                       [Cover(Found(repositories, q.about, TRUE), q.about, q.credential)
                           EXCEPT ![r].lifecycle = "enabled", ![r].revision = @ + 1]
           ELSE Keeps
  BY DEF Enabled
<1>4. CASE Current(q)
  <2> DEFINE found == Found(repositories, q.about, TRUE)
             rows == Cover(found, q.about, q.credential)
             row == [rows[r] EXCEPT !.lifecycle = "enabled", !.revision = @ + 1]
  <2>1. r \in q.about /\ r \in Repositories
    BY <1>2 DEF Enabling
  <2>2. /\ found \in [Repositories -> RepositoryType] /\ NewVerification \in Verifications
        /\ \A s \in Repositories : /\ found[s].lifecycle = repositories[s].lifecycle
                                   /\ found[s].revision = repositories[s].revision
                                   /\ found[s].by = repositories[s].by
    BY <1>1, FoundRows
  <2>3. /\ rows \in [Repositories -> RepositoryType]
        /\ \A s \in Repositories :
             /\ rows[s].lifecycle = found[s].lifecycle
             /\ rows[s].revision = found[s].revision
             /\ rows[s].by = IF s \in q.about THEN q.credential ELSE found[s].by
    <3> HIDE DEF found
    <3> QED
      BY <1>2, <2>2, CoverRows
  <2> HIDE DEF found
  <2>4. rows[r] \in RepositoryType /\ rows[r].revision + 1 \in 0 .. MaxRevision
    BY <1>3, <2>1, <2>2, <2>3, BoundsAssumption DEF RepositoryType
  <2>5. row \in RepositoryType /\ row.by = q.credential
    <3>1. rows[r].by = q.credential
      BY <2>1, <2>3
    <3> HIDE DEF rows
    <3> QED
      BY <2>4, <3>1 DEF RepositoryType
  <2>6. repositories' = [rows EXCEPT ![r] = row]
    <3>1. repositories' = [rows EXCEPT ![r].lifecycle = "enabled", ![r].revision = @ + 1]
      BY <1>3, <1>4 DEF found
    <3> HIDE DEF rows
    <3> QED
      BY <2>1, <2>3, <2>4, <3>1 DEF RepositoryType
  <2>7. connection' = [connection EXCEPT !.healthy = TRUE, !.verification = NewVerification]
    BY <1>3, <1>4
  <2>8. /\ connection' \in ConnectionType /\ connection'.lifecycle = "enabled"
        /\ connection'.credential = q.credential
        /\ connection.lifecycle = "enabled"
        /\ connection.credential = q.credential
    BY <1>1, <1>2, <1>4, <2>2, <2>7 DEF ConnectionType, Current
  <2>9. q.credential # 0 /\ CredentialCoversEnabled
    BY <2>8 DEF ForgejoInv, RowsOK
  <2> HIDE DEF rows, row, q
  <2>10. repositories' \in [Repositories -> RepositoryType]
    BY <2>1, <2>3, <2>5, <2>6
  <2>11. \A s \in Repositories : repositories'[s].lifecycle = "enabled" =>
           repositories'[s].by = connection'.credential
    BY <2>1, <2>2, <2>3, <2>5, <2>6, <2>8, <2>9 DEF CredentialCoversEnabled, On
  <2> QED
    BY <2>8, <2>9, <2>10, <2>11, CoveredKeeps DEF ForgejoInv
<1>5. CASE ~Current(q)
  BY <1>3, <1>5, KeepsKeeps DEF ForgejoInv
<1> QED
  BY <1>4, <1>5

\* A reactivation brings its credential where nothing is enabled.
LEMMA ReactivatedKeeps ==
    ASSUME ForgejoInv, Unrefused, NEW o \in Requests, NEW answer, Reactivated(o, answer),
           UNCHANGED <<issued, accepted, accessible>>
    PROVE  RowsOK'
<1> DEFINE q == requests[o]
<1>1. connection \in ConnectionType /\ repositories \in [Repositories -> RepositoryType]
  BY DEF ForgejoInv, RowsOK, CommonTypeOK
<1>2. q.credential \in Credentials /\ q.credential # 0
  BY DEF ForgejoInv, RequestsOK, RequestType, Holds, Reactivated
<1>3. NewVerification \in Verifications
  BY <1>1, FoundRows
<1>4. CASE StillRetired /\ Dependents = {}
  <2>1. /\ connection' = [connection EXCEPT !.lifecycle = "enabled", !.healthy = TRUE,
                              !.credential = q.credential, !.verification = NewVerification]
        /\ UNCHANGED repositories
    BY <1>4 DEF Reactivated
  <2>2. On("enabled") = {}
    BY <1>1, <1>4 DEF StillRetired, ForgejoInv, RowsOK, RetiredStandsAlone, Known, On
  <2>3. /\ connection' \in ConnectionType /\ connection'.lifecycle = "enabled"
        /\ connection'.credential = q.credential
    BY <1>1, <1>2, <1>3, <2>1 DEF ConnectionType
  <2> QED
    BY <1>1, <1>2, <2>1, <2>2, <2>3, CoveredKeeps DEF ForgejoInv, On
<1>5. CASE ~(StillRetired /\ Dependents = {})
  BY <1>5, KeepsKeeps DEF Reactivated, ForgejoInv
<1> QED
  BY <1>4, <1>5

LEMMA ForgejoAnsweredKeeps ==
    ASSUME ForgejoInv, NEW o \in Requests, ForgejoAnswered(o)
    PROVE  ForgejoInv'
<1>1. RequestsOK(ForgejoStages)'
  BY ForgejoStagesAre, EndsKeeps DEF ForgejoAnswered, ForgejoInv
<1>2. Unrefused /\ UNCHANGED <<issued, accepted, accessible>>
  BY DEF ForgejoAnswered
<1>3. PICK answer \in Answers(requests[o]) \cup {Outage} :
        \/ Connected(o, answer)
        \/ ForgejoRotated(o, answer) \/ ForgejoRotationFailed(o, answer)
        \/ Enabled(o, answer) \/ EnablementFailed(o, answer)
        \/ Reactivated(o, answer) \/ ReactivationFailed(o, answer)
  BY DEF ForgejoAnswered
<1>4. ASSUME NEW f, ForgejoFails(f) PROVE RowsOK'
  BY <1>2, <1>4, ForgejoFailsKeeps DEF ForgejoInv
<1>5. CASE Keeps
  BY <1>1, <1>2, <1>5, KeepsKeeps DEF ForgejoInv
<1>6. CASE \/ ForgejoRotationFailed(o, answer) \/ EnablementFailed(o, answer)
           \/ ReactivationFailed(o, answer)
  BY <1>1, <1>4, <1>5, <1>6
     DEF ForgejoRotationFailed, EnablementFailed, ReactivationFailed, ForgejoInv
<1> QED
  BY <1>1, <1>2, <1>3, <1>6, ConnectedKeeps, ForgejoRotatedKeeps, EnabledKeeps, ReactivatedKeeps
     DEF ForgejoInv

-----------------------------------------------------------------------------
LEMMA ForgejoBegins == Init => ForgejoInv
BY InitRowsOK, ForgejoStagesAre DEF ForgejoInv

LEMMA ForgejoStep == ForgejoInv /\ [ForgejoNext]_vars => ForgejoInv'
<1> SUFFICES ASSUME ForgejoInv, [ForgejoNext]_vars PROVE ForgejoInv'
  OBVIOUS
<1>1. CASE Common
  BY <1>1, CommonKeeps, CommonKeepsRequests, ForgejoStagesAre DEF ForgejoInv
<1>2. ASSUME NEW o \in Requests,
             \/ Connect(o) \/ RotateForgejo(o) \/ Enable(o) \/ ReactivateForgejo(o)
             \/ ForgejoAnswered(o)
      PROVE  ForgejoInv'
  BY <1>2, ForgejoAskingKeeps, ForgejoAnsweredKeeps
<1>3. CASE UNCHANGED vars
  <2>1. RowsOK'
    BY <1>3, UnwrittenKeeps DEF vars, ForgejoInv
  <2>2. RequestsOK(ForgejoStages)'
    BY <1>3 DEF vars, ForgejoInv, RequestsOK, Holds
  <2> QED
    BY <2>1, <2>2 DEF ForgejoInv
<1> QED
  BY <1>1, <1>2, <1>3 DEF ForgejoNext

\* Every reachable state satisfies the invariant.
THEOREM ForgejoInvariant == ForgejoSpec => []ForgejoInv
BY ForgejoBegins, ForgejoStep, PTL DEF ForgejoSpec

\* What is stored has the shape the tables give it.
THEOREM ForgejoTypes == ForgejoSpec => []ForgejoTypeOK
<1>1. ForgejoInv => ForgejoTypeOK
  BY DEF ForgejoInv, RowsOK, RequestsOK, ForgejoTypeOK
<1> QED
  BY <1>1, ForgejoInvariant, PTL

\* Every enabled Repository was verified with the credential that is stored,
\* however rotations, enablements and reactivations overlap.
THEOREM ForgejoCredentialCoversEnabled == ForgejoSpec => []CredentialCoversEnabled
<1>1. ForgejoInv => CredentialCoversEnabled
  BY DEF ForgejoInv, RowsOK
<1> QED
  BY <1>1, ForgejoInvariant, PTL

\* Nothing is enabled behind the retirement of the connection, and its
\* credential is gone.
THEOREM ForgejoRetiredStandsAlone == ForgejoSpec => []RetiredStandsAlone
<1>1. ForgejoInv => RetiredStandsAlone
  BY DEF ForgejoInv, RowsOK
<1> QED
  BY <1>1, ForgejoInvariant, PTL
=============================================================================
