-------------------------- MODULE RepositoryLifecycle --------------------------
(***************************************************************************)
(* A Generic HTTPS Repository at one normalized URL:                       *)
(*   src/src/repository/repository.ts               setLifecycle, rotate-  *)
(*                                                  Credential, remove     *)
(*   src/src/repository/repository-registration.ts  register               *)
(*   src/src/repository/repository-enablement.ts    what a verification    *)
(*                                                  commits                *)
(*   src/src/repository/repository-removal.ts       deletion, retirement   *)
(*   src/src/repository/repository-selector.ts      acquisition for work   *)
(*                                                                         *)
(* An operation that asks the remote reads the row, waits, and commits in  *)
(* one transaction; others run meanwhile.  A credential is a number, 0 if  *)
(* the Repository has none.                                                *)
(***************************************************************************)
EXTENDS Naturals, FiniteSets

CONSTANTS
    Operations,             \* requests that can be in flight together
    MaxId,                  \* bound on the registrations of the URL anew
    MaxRevision,            \* bound on lifecycle_revision
    MaxCredential           \* bound on the credentials an operator has issued

VARIABLES
    row,            \* of repositories and repository_credentials
    operations,     \* operations[o]: what is in flight
    accepted,       \* the credentials the remote accepts
    evaluations     \* the ids of the Repositories the Evaluations are about

vars == <<row, operations, accepted, evaluations>>

-----------------------------------------------------------------------------
Lifecycles == {"enabled", "disabled", "retired"}
Credentials == 0 .. MaxCredential

\* id grows with every registration of the URL anew; issued is the newest
\* credential that was stored or tried.
RowType ==
    [exists : BOOLEAN, id : 0 .. MaxId, lifecycle : Lifecycles, revision : 0 .. MaxRevision,
     healthy : BOOLEAN, used : BOOLEAN, credential : Credentials, issued : Credentials]

Idle == [at |-> "idle", id |-> 0, lifecycle |-> "enabled", revision |-> 0,
         credential |-> 0, replaces |-> 0, overtaken |-> FALSE]
OperationType ==
    [at : {"idle", "registering", "enabling", "rotating", "acquiring"}, id : 0 .. MaxId,
     lifecycle : Lifecycles, revision : 0 .. MaxRevision, credential : Credentials,
     replaces : Credentials, overtaken : BOOLEAN]

Init ==
    /\ row = [exists |-> FALSE, id |-> 0, lifecycle |-> "enabled", revision |-> 0,
              healthy |-> TRUE, used |-> FALSE, credential |-> 0, issued |-> 0]
    /\ operations = [o \in Operations |-> Idle]
    /\ accepted = Credentials
    /\ evaluations = {}

\* What an operation has read of the row before it waits.
Reading(at, credential) ==
    [at |-> at, id |-> row.id, lifecycle |-> row.lifecycle,
     revision |-> row.revision, credential |-> credential,
     replaces |-> row.credential, overtaken |-> FALSE]

Wait(o, at, credential) ==
    /\ operations[o].at = "idle"
    /\ operations' = [operations EXCEPT ![o] = Reading(at, credential)]

Ends(o) == operations' = [operations EXCEPT ![o] = Idle]

\* overtaken is a history: the lifecycle was changed while the operation waited.
Overtaken(op) == IF op.at = "idle" THEN op ELSE [op EXCEPT !.overtaken = TRUE]
Decides(o) ==
    operations' = [x \in Operations |-> IF x = o THEN Idle ELSE Overtaken(operations[x])]
Decide == operations' = [x \in Operations |-> Overtaken(operations[x])]

\* Faulty variants: the row is only looked up by its id, or by its lifecycle.
Fenced_Found(op) == row.exists /\ row.id = op.id
Fenced_Lifecycle(op) ==
    row.exists /\ row.id = op.id /\ row.lifecycle = op.lifecycle

\* WHERE id = ? AND lifecycle = ? AND lifecycle_revision = ?
Fenced(op) ==
    /\ row.exists /\ row.id = op.id
    /\ row.lifecycle = op.lifecycle /\ row.revision = op.revision

Revised(lifecycle) == [row EXCEPT !.lifecycle = lifecycle, !.revision = @ + 1]

-----------------------------------------------------------------------------
(* Registration *)

\* A new credential, or none.
Offered == {0} \cup (IF row.issued < MaxCredential THEN {row.issued + 1} ELSE {})
Issue(c) == row' = [row EXCEPT !.issued = IF c > @ THEN c ELSE @]

\* registerRepository: a URL that is registered is a conflict unless retired.
Register(o) ==
    /\ ~row.exists \/ row.lifecycle = "retired"
    /\ \E c \in Offered : Wait(o, "registering", c) /\ Issue(c)
    /\ UNCHANGED <<accepted, evaluations>>

\* The row of a retired Repository is enabled again, with the new credential.
Reregistered(op) == [Revised("enabled") EXCEPT !.healthy = TRUE, !.credential = op.credential]

NewRow(op) ==
    [row EXCEPT !.exists = TRUE, !.id = @ + 1, !.lifecycle = "enabled", !.revision = 0,
                !.healthy = TRUE, !.used = FALSE, !.credential = op.credential]

\* Whether the operation has found a row when it began.
Found(op) == op.lifecycle = "retired"

\* Its transaction after the remote has accepted the credential; the URL is
\* UNIQUE.
Registered(o) ==
    LET op == operations[o] IN
    /\ op.at = "registering" /\ op.credential \in accepted
    /\ IF Found(op)
       THEN IF Fenced(op) /\ row.revision < MaxRevision
            THEN row' = Reregistered(op) /\ Decides(o)
            ELSE UNCHANGED row /\ Ends(o)
       ELSE IF ~row.exists /\ row.id < MaxId THEN row' = NewRow(op) /\ Decides(o)
                                            ELSE UNCHANGED row /\ Ends(o)
    /\ UNCHANGED <<accepted, evaluations>>

-----------------------------------------------------------------------------
(* Lifecycle *)

\* setLifecycle to enabled.  A retired Generic HTTPS Repository must be
\* registered again.
Enable(o) ==
    /\ row.exists /\ row.lifecycle # "retired"
    /\ Wait(o, "enabling", row.credential)
    /\ UNCHANGED <<row, accepted, evaluations>>

\* commitRepositoryEnablement.
Enabled(o) ==
    LET op == operations[o] IN
    /\ op.at = "enabling" /\ op.credential \in accepted
    /\ IF Fenced(op) /\ row.revision < MaxRevision
       THEN row' = [Revised("enabled") EXCEPT !.healthy = TRUE] /\ Decides(o)
       ELSE UNCHANGED row /\ Ends(o)
    /\ UNCHANGED <<accepted, evaluations>>

\* A refused verification of a known row is its health:
\* recordRepositoryVerificationFailure, and registerRepository for a retired
\* one.  A rotation and an acquisition that are refused leave the row alone.
Refused(o) ==
    LET op == operations[o] IN
    /\ op.at # "idle" /\ op.credential \notin accepted
    /\ row' = IF Fenced(op) /\ (op.at = "enabling" \/ (op.at = "registering" /\ Found(op)))
              THEN [row EXCEPT !.healthy = FALSE] ELSE row
    /\ Ends(o)
    /\ UNCHANGED <<accepted, evaluations>>

\* setLifecycle to disabled does not wait.
Disable ==
    /\ row.exists /\ row.lifecycle # "retired" /\ row.revision < MaxRevision
    /\ row' = Revised("disabled") /\ Decide
    /\ UNCHANGED <<accepted, evaluations>>

\* retireUsedRepository: the credential goes.
Retire ==
    /\ row.exists /\ row.lifecycle # "retired" /\ row.used
    /\ row.revision < MaxRevision
    /\ row' = [Revised("retired") EXCEPT !.credential = 0] /\ Decide
    /\ UNCHANGED <<accepted, evaluations>>

\* removeNeverUsedRepository.
Remove ==
    /\ row.exists /\ ~row.used /\ row.lifecycle # "retired"
    /\ row' = [row EXCEPT !.exists = FALSE, !.lifecycle = "enabled", !.credential = 0,
                          !.healthy = TRUE, !.revision = 0]
    /\ Decide
    /\ UNCHANGED <<accepted, evaluations>>

-----------------------------------------------------------------------------
(* Credentials *)

\* rotateCredential, of a Repository that has one.
Rotate(o) ==
    /\ row.exists /\ row.credential # 0
    /\ \E c \in Offered \ {0} : Wait(o, "rotating", c) /\ Issue(c)
    /\ UNCHANGED <<accepted, evaluations>>

\* Faulty variant: the new credential is stored whatever there is.
Replaces_Any(op) == row.exists /\ row.id = op.id

\* WHERE repository_id = ? AND encrypted_credential = ?
Replaces(op) ==
    /\ row.exists /\ row.id = op.id
    /\ row.credential # 0 /\ row.credential = op.replaces

Rotated(o) ==
    LET op == operations[o] IN
    /\ op.at = "rotating" /\ op.credential \in accepted
    /\ row' = IF Replaces(op) THEN [row EXCEPT !.credential = op.credential, !.healthy = TRUE]
                              ELSE row
    /\ Ends(o)
    /\ UNCHANGED <<accepted, evaluations>>

\* The remote revokes one.
Revoke ==
    /\ \E c \in accepted \ {0} : accepted' = accepted \ {c}
    /\ UNCHANGED <<row, operations, evaluations>>

-----------------------------------------------------------------------------
(* Work *)

AcceptsNewWork == row.exists /\ row.lifecycle = "enabled" /\ row.healthy

\* resolvePushedSelectors: the credential is copied before the remote is asked.
Acquire(o) ==
    /\ AcceptsNewWork
    /\ Wait(o, "acquiring", row.credential)
    /\ UNCHANGED <<row, accepted, evaluations>>

\* Faulty variant: what was accepted before the acquisition still is.
Admits_Acquired(op) == TRUE

\* The admission looks at the Repository again.
Admits(op) == AcceptsNewWork /\ row.id = op.id

\* An Evaluation of what was acquired; a trigger marks its Repository used.
Admit(o) ==
    LET op == operations[o] IN
    /\ op.at = "acquiring" /\ op.credential \in accepted
    /\ IF Admits(op)
       THEN /\ evaluations' = evaluations \cup {op.id}
            /\ row' = IF row.exists /\ row.id = op.id THEN [row EXCEPT !.used = TRUE] ELSE row
       ELSE UNCHANGED <<evaluations, row>>
    /\ Ends(o)
    /\ UNCHANGED <<accepted>>

\* The process ends; the rows stay.
Crash ==
    /\ \E o \in Operations : operations[o].at # "idle"
    /\ operations' = [o \in Operations |-> Idle]
    /\ UNCHANGED <<row, accepted, evaluations>>

-----------------------------------------------------------------------------
Next ==
    \/ \E o \in Operations :
         \/ Register(o) \/ Registered(o) \/ Enable(o) \/ Enabled(o) \/ Refused(o)
         \/ Rotate(o) \/ Rotated(o) \/ Acquire(o) \/ Admit(o)
    \/ Disable \/ Retire \/ Remove \/ Revoke \/ Crash

Spec == Init /\ [][Next]_vars

-----------------------------------------------------------------------------
TypeOK ==
    /\ row \in RowType
    /\ operations \in [Operations -> OperationType]
    /\ accepted \subseteq Credentials
    /\ evaluations \subseteq Nat

\* A row that is there becomes enabled only by an operation that was asked for
\* after the last change of its lifecycle: no verification in flight undoes a
\* disablement or a retirement, or what a registration after a removal has brought.
\* A first registration still in flight when the row is removed brings it back.
DecisionsHold ==
    [][(row.exists /\ row'.exists /\ row.lifecycle # "enabled" /\ row'.lifecycle = "enabled")
         => \E o \in Operations : operations[o].at # "idle" /\ operations'[o].at = "idle"
                                  /\ ~operations[o].overtaken]_vars

\* A retired Repository keeps no credential, whatever was in flight.
RetiredKeepsNoCredential == row.lifecycle = "retired" => row.credential = 0

\* Every Evaluation is about the Repository that is there: none is admitted to
\* a removed one and none is left behind by a removal.
EvaluationsKeepTheirRepository == \A id \in evaluations : row.exists /\ row.id = id
=============================================================================
