---------------------------- MODULE RecordsProofs ----------------------------
(***************************************************************************)
(* What MCRecords checks on small instances, proved for every value of the *)
(* constants.  A behaviour moves one subject and leaves the variables of   *)
(* the others alone, so each part below has an invariant of its own        *)
(* subject and one lemma for the steps of the others.                      *)
(***************************************************************************)
EXTENDS MCRecords, FiniteSetTheorems, SequenceTheorems, TLAPS

-----------------------------------------------------------------------------
(***************************************************************************)
(* A Generic HTTPS Repository                                              *)
(***************************************************************************)

\* What an operation has read is of this Repository or of an earlier one, and
\* is behind the row if its lifecycle was changed since.
Behind(op) ==
    op.at # "idle" =>
        /\ op.id <= repositoryRow.id
        /\ repositoryRow.exists /\ op.id = repositoryRow.id =>
               /\ op.revision <= repositoryRow.revision
               /\ op.overtaken => op.revision < repositoryRow.revision

GenericRowsOK ==
    /\ repositoryRow \in Generic!RowType
    /\ remote \subseteq Generic!Credentials
    /\ evaluated \subseteq Nat
    /\ Generic!RetiredKeepsNoCredential
    /\ Generic!EvaluationsKeepTheirRepository
    /\ evaluated # {} => repositoryRow.used

GenericInv ==
    /\ GenericRowsOK
    /\ operations \in [Requests -> Generic!OperationType]
    /\ \A o \in Requests : Behind(operations[o])

\* Only the subject moves its variables.
LEMMA GenericMoves == [Next]_all => [Generic!Next]_repositoryVars
BY DEF Next, all, OfConnection, OfRepository, OfAdmission, OfRule, OfWaivers, OfFeedback,
       OfAuthority, repositoryVars

LEMMA GenericInit == Generic!Init => GenericInv
<1> SUFFICES ASSUME Generic!Init PROVE GenericInv
  OBVIOUS
<1> USE RecordsBounds, BoundsAssumption DEF Generic!Credentials
<1>1. Generic!Idle \in Generic!OperationType
  BY DEF Generic!Idle, Generic!OperationType, Generic!Lifecycles
<1>2. repositoryRow \in Generic!RowType
  BY DEF Generic!Init, Generic!RowType, Generic!Lifecycles
<1> QED
  BY <1>1, <1>2
     DEF Generic!Init, GenericInv, GenericRowsOK, Generic!RetiredKeepsNoCredential,
         Generic!EvaluationsKeepTheirRepository, Behind, Generic!Idle

\* A reading of the row is behind nothing.
LEMMA ReadingIsCurrent ==
    ASSUME GenericRowsOK, NEW c \in Generic!Credentials,
           NEW at \in {"registering", "enabling", "rotating", "acquiring"}
    PROVE  /\ Generic!Reading(at, c) \in Generic!OperationType
           /\ Behind(Generic!Reading(at, c))
<1> USE RecordsBounds, BoundsAssumption DEF Generic!Credentials
<1> QED
  BY DEF GenericRowsOK, Generic!Reading, Generic!OperationType, Generic!RowType, Behind,
         Generic!Lifecycles

\* An operation that waits: the row changes nothing an operation is compared with.
LEMMA WaitKeeps ==
    ASSUME GenericInv, NEW o \in Requests, NEW c \in Generic!Credentials,
           NEW at \in {"registering", "enabling", "rotating", "acquiring"},
           Generic!Wait(o, at, c), GenericRowsOK',
           repositoryRow' = [repositoryRow EXCEPT !.issued = repositoryRow'.issued]
    PROVE  GenericInv'
<1>1. operations' = [operations EXCEPT ![o] = Generic!Reading(at, c)]
  BY DEF Generic!Wait
<1>2. Generic!Reading(at, c) \in Generic!OperationType /\ Behind(Generic!Reading(at, c))
  BY ReadingIsCurrent DEF GenericInv
<1>3. /\ repositoryRow'.id = repositoryRow.id /\ repositoryRow'.exists = repositoryRow.exists
      /\ repositoryRow'.revision = repositoryRow.revision
  BY DEF GenericInv, GenericRowsOK, Generic!RowType
<1>4. operations' \in [Requests -> Generic!OperationType]
  BY <1>1, <1>2 DEF GenericInv
<1>5. ASSUME NEW x \in Requests PROVE Behind(operations[x])'
  <2>1. Behind(operations'[x])
    BY <1>1, <1>2 DEF GenericInv
  <2> QED
    BY <2>1, <1>3 DEF Behind
<1> QED
  BY <1>4, <1>5 DEF GenericInv

\* An operation ends and the lifecycle stays.
LEMMA OperationEnds ==
    ASSUME GenericInv, NEW o \in Requests, Generic!Ends(o), GenericRowsOK',
           repositoryRow'.id = repositoryRow.id, repositoryRow'.exists = repositoryRow.exists,
           repositoryRow'.revision = repositoryRow.revision
    PROVE  GenericInv'
<1> USE RecordsBounds, BoundsAssumption DEF Generic!Credentials
<1>1. Generic!Idle \in Generic!OperationType
  BY DEF Generic!Idle, Generic!OperationType, Generic!Lifecycles
<1>2. operations' = [operations EXCEPT ![o] = Generic!Idle]
  BY DEF Generic!Ends
<1>3. operations' \in [Requests -> Generic!OperationType]
  BY <1>1, <1>2 DEF GenericInv
<1>4. ASSUME NEW x \in Requests PROVE Behind(operations[x])'
  <2>1. Behind(operations'[x])
    BY <1>2 DEF GenericInv, Behind, Generic!Idle
  <2> QED
    BY <2>1 DEF Behind
<1> QED
  BY <1>3, <1>4 DEF GenericInv

\* The lifecycle is changed: what waits is overtaken, and is behind.
LEMMA DecisionOvertakes ==
    ASSUME GenericInv, GenericRowsOK',
           NEW S \in SUBSET Requests,
           operations' = [x \in Requests |->
               IF x \in S THEN Generic!Idle ELSE Generic!Overtaken(operations[x])],
           \/ /\ repositoryRow'.id = repositoryRow.id /\ repositoryRow.exists
              /\ repositoryRow'.revision = repositoryRow.revision + 1
           \/ repositoryRow'.id = repositoryRow.id /\ ~repositoryRow'.exists
           \/ repositoryRow'.id = repositoryRow.id + 1
    PROVE  GenericInv'
<1> USE RecordsBounds, BoundsAssumption DEF Generic!Credentials
<1>1. Generic!Idle \in Generic!OperationType
  BY DEF Generic!Idle, Generic!OperationType, Generic!Lifecycles
<1>2. ASSUME NEW x \in Requests
      PROVE  operations'[x] \in Generic!OperationType /\ Behind(operations[x])'
  <2>1. CASE x \in S
    BY <2>1, <1>1 DEF Behind, Generic!Idle
  <2>2. CASE x \notin S /\ operations[x].at = "idle"
    BY <2>2 DEF GenericInv, Behind, Generic!Overtaken
  <2>3. CASE x \notin S /\ operations[x].at # "idle"
    <3> DEFINE op == operations[x]
    <3>1. op \in Generic!OperationType /\ Behind(op)
      BY DEF GenericInv
    <3>2. operations'[x] = [op EXCEPT !.overtaken = TRUE]
      BY <2>3 DEF Generic!Overtaken
    <3>3. /\ op.id \in Nat /\ op.revision \in Nat
          /\ repositoryRow.id \in Nat /\ repositoryRow.revision \in Nat
      BY <3>1 DEF Generic!OperationType, GenericInv, GenericRowsOK, Generic!RowType
    <3>4. operations'[x] \in Generic!OperationType
      BY <3>1, <3>2 DEF Generic!OperationType
    <3>5. operations'[x].id = op.id /\ operations'[x].revision = op.revision
      BY <3>1, <3>2 DEF Generic!OperationType
    <3> QED
      BY <2>3, <3>1, <3>3, <3>4, <3>5 DEF Behind
  <2> QED
    BY <2>1, <2>2, <2>3
<1> QED
  BY <1>2 DEF GenericInv

\* The row when its lifecycle moves on.
LEMMA RevisedRow ==
    ASSUME GenericInv, NEW next \in Generic!Lifecycles,
           repositoryRow.revision < MaxLifecycle
    PROVE  /\ Generic!Revised(next) \in Generic!RowType
           /\ Generic!Revised(next).exists = repositoryRow.exists
           /\ Generic!Revised(next).id = repositoryRow.id
           /\ Generic!Revised(next).lifecycle = next
           /\ Generic!Revised(next).revision = repositoryRow.revision + 1
           /\ Generic!Revised(next).used = repositoryRow.used
           /\ Generic!Revised(next).credential = repositoryRow.credential
<1> DEFINE new == [repositoryRow EXCEPT !.lifecycle = next,
                                        !.revision = repositoryRow.revision + 1]
<1>1. Generic!Revised(next) = new
  BY DEF Generic!Revised
<1>2. repositoryRow \in Generic!RowType
  BY DEF GenericInv, GenericRowsOK
<1>3. repositoryRow.revision + 1 \in 0 .. MaxLifecycle
  BY <1>2, RecordsBounds DEF Generic!RowType
<1> QED
  BY <1>1, <1>2, <1>3 DEF Generic!RowType

\* A new row of the Repository the Evaluations are about, if there are any.
LEMMA RowKeeps ==
    ASSUME GenericInv, repositoryRow' \in Generic!RowType, remote' \subseteq remote,
           evaluated' = evaluated,
           repositoryRow'.lifecycle = "retired" => repositoryRow'.credential = 0,
           \/ evaluated = {}
           \/ /\ repositoryRow'.exists = repositoryRow.exists
              /\ repositoryRow'.id = repositoryRow.id
              /\ repositoryRow'.used = repositoryRow.used
    PROVE  GenericRowsOK'
BY DEF GenericInv, GenericRowsOK, Generic!RetiredKeepsNoCredential,
       Generic!EvaluationsKeepTheirRepository

LEMMA RegisterKeeps ==
    ASSUME GenericInv, NEW o \in Requests, Generic!Register(o) \/ Generic!Rotate(o)
    PROVE  GenericInv'
<1> USE RecordsBounds, BoundsAssumption DEF Generic!Credentials
<1>1. PICK c \in Generic!Offered, at \in {"registering", "rotating"} :
        Generic!Wait(o, at, c) /\ Generic!Issue(c)
  BY DEF Generic!Register, Generic!Rotate
<1>2. UNCHANGED <<remote, evaluated>>
  BY DEF Generic!Register, Generic!Rotate
<1>3. c \in Generic!Credentials
  BY DEF Generic!Offered, GenericInv, GenericRowsOK, Generic!RowType
<1>4. \E i \in Generic!Credentials : repositoryRow' = [repositoryRow EXCEPT !.issued = i]
  BY <1>1, <1>3 DEF Generic!Issue, GenericInv, GenericRowsOK, Generic!RowType
<1>5. GenericRowsOK'
  BY <1>2, <1>4
     DEF GenericInv, GenericRowsOK, Generic!RowType, Generic!RetiredKeepsNoCredential,
         Generic!EvaluationsKeepTheirRepository
<1>6. repositoryRow' = [repositoryRow EXCEPT !.issued = repositoryRow'.issued]
  BY <1>4 DEF GenericInv, GenericRowsOK, Generic!RowType
<1> QED
  BY <1>1, <1>3, <1>5, <1>6, WaitKeeps

\* An operation that reads the row and leaves it alone.
LEMMA AskingOfRowKeeps ==
    ASSUME GenericInv, NEW o \in Requests, Generic!Enable(o) \/ Generic!Acquire(o)
    PROVE  GenericInv'
<1>1. PICK at \in {"enabling", "acquiring"} : Generic!Wait(o, at, repositoryRow.credential)
  BY DEF Generic!Enable, Generic!Acquire
<1>2. UNCHANGED <<repositoryRow, remote, evaluated>>
  BY DEF Generic!Enable, Generic!Acquire
<1>3. repositoryRow.credential \in Generic!Credentials
  BY DEF GenericInv, GenericRowsOK, Generic!RowType
<1>4. GenericRowsOK'
  BY <1>2 DEF GenericInv, GenericRowsOK, Generic!RetiredKeepsNoCredential,
              Generic!EvaluationsKeepTheirRepository
<1>5. repositoryRow' = [repositoryRow EXCEPT !.issued = repositoryRow'.issued]
  BY <1>2 DEF GenericInv, GenericRowsOK, Generic!RowType
<1> QED
  BY <1>1, <1>3, <1>4, <1>5, WaitKeeps

\* The end of a registration: a row anew, the retired one again, or none.
LEMMA RegisteredKeeps ==
    ASSUME GenericInv, NEW o \in Requests, Generic!Registered(o)
    PROVE  GenericInv'
<1> USE RecordsBounds, BoundsAssumption DEF Generic!Credentials
<1> DEFINE op == operations[o]
<1>1. op \in Generic!OperationType
  BY DEF GenericInv
<1>2. UNCHANGED <<remote, evaluated>>
  BY DEF Generic!Registered
<1>3. CASE UNCHANGED repositoryRow /\ Generic!Ends(o)
  <2>1. GenericRowsOK'
    BY <1>2, <1>3 DEF GenericInv, GenericRowsOK, Generic!RetiredKeepsNoCredential,
              Generic!EvaluationsKeepTheirRepository
  <2> QED
    BY <1>3, <2>1, OperationEnds
<1>4. CASE /\ Generic!Fenced(op) /\ repositoryRow.revision < MaxLifecycle
           /\ repositoryRow' = Generic!Reregistered(op) /\ Generic!Decides(o)
  <2> DEFINE new == Generic!Revised("enabled")
  <2>4. /\ new \in Generic!RowType
        /\ new.exists = repositoryRow.exists /\ new.id = repositoryRow.id
        /\ new.revision = repositoryRow.revision + 1 /\ new.used = repositoryRow.used
        /\ new.lifecycle = "enabled"
    BY <1>4, RevisedRow DEF Generic!Lifecycles
  <2>5. repositoryRow' = [new EXCEPT !.healthy = TRUE, !.credential = op.credential]
    BY <1>4 DEF Generic!Reregistered
  <2>6. op.credential \in Generic!Credentials
    BY <1>1 DEF Generic!OperationType
  <2> HIDE DEF new
  <2>7. repositoryRow' \in Generic!RowType
    BY <2>4, <2>5, <2>6 DEF Generic!RowType
  <2>8. /\ repositoryRow'.exists = new.exists /\ repositoryRow'.id = new.id
        /\ repositoryRow'.revision = new.revision /\ repositoryRow'.used = new.used
        /\ repositoryRow'.lifecycle = new.lifecycle
    BY <2>4, <2>5 DEF Generic!RowType
  <2>1. GenericRowsOK'
    BY <1>2, <2>4, <2>7, <2>8, RowKeeps
  <2>2. /\ repositoryRow'.id = repositoryRow.id /\ repositoryRow.exists
        /\ repositoryRow'.revision = repositoryRow.revision + 1
    BY <1>4, <2>4, <2>8 DEF Generic!Fenced
  <2>3. operations' = [x \in Requests |->
            IF x \in {o} THEN Generic!Idle ELSE Generic!Overtaken(operations[x])]
    BY <1>4 DEF Generic!Decides
  <2> QED
    BY <2>1, <2>2, <2>3, DecisionOvertakes
<1>5. CASE /\ ~repositoryRow.exists /\ repositoryRow.id < MaxId
           /\ repositoryRow' = Generic!NewRow(op) /\ Generic!Decides(o)
  <2>4. op.credential \in Generic!Credentials
    BY <1>1 DEF Generic!OperationType
  <2>5. repositoryRow \in Generic!RowType
    BY DEF GenericInv, GenericRowsOK
  <2>6. repositoryRow.id + 1 \in 0 .. MaxId
    BY <1>5, <2>5 DEF Generic!RowType
  <2> DEFINE new == [repositoryRow EXCEPT !.exists = TRUE, !.id = repositoryRow.id + 1,
                                          !.lifecycle = "enabled", !.revision = 0]
  <2>11. 0 \in 0 .. MaxLifecycle /\ "enabled" \in Generic!Lifecycles
    BY DEF Generic!Lifecycles
  <2>9. new \in Generic!RowType /\ new.lifecycle = "enabled"
    BY <2>5, <2>6, <2>11 DEF Generic!RowType
  <2>10. repositoryRow' = [new EXCEPT !.healthy = TRUE, !.used = FALSE,
                                      !.credential = op.credential]
    BY <1>5 DEF Generic!NewRow
  <2> HIDE DEF new
  <2>7. repositoryRow' \in Generic!RowType /\ repositoryRow'.lifecycle = "enabled"
    BY <2>4, <2>9, <2>10 DEF Generic!RowType
  <2>8. evaluated = {}
    BY <1>5 DEF GenericInv, GenericRowsOK, Generic!EvaluationsKeepTheirRepository
  <2>1. GenericRowsOK'
    BY <1>2, <2>7, <2>8, RowKeeps
  <2>2. repositoryRow'.id = repositoryRow.id + 1
    BY <1>5 DEF GenericInv, GenericRowsOK, Generic!RowType, Generic!NewRow
  <2>3. operations' = [x \in Requests |->
            IF x \in {o} THEN Generic!Idle ELSE Generic!Overtaken(operations[x])]
    BY <1>5 DEF Generic!Decides
  <2> QED
    BY <2>1, <2>2, <2>3, DecisionOvertakes
<1> QED
  BY <1>3, <1>4, <1>5 DEF Generic!Registered

LEMMA EnabledOfRowKeeps ==
    ASSUME GenericInv, NEW o \in Requests, Generic!Enabled(o)
    PROVE  GenericInv'
<1> USE RecordsBounds, BoundsAssumption DEF Generic!Credentials
<1> DEFINE op == operations[o]
<1>1. UNCHANGED <<remote, evaluated>>
  BY DEF Generic!Enabled
<1>2. CASE UNCHANGED repositoryRow /\ Generic!Ends(o)
  <2>1. GenericRowsOK'
    BY <1>1, <1>2 DEF GenericInv, GenericRowsOK, Generic!RetiredKeepsNoCredential,
              Generic!EvaluationsKeepTheirRepository
  <2> QED
    BY <1>2, <2>1, OperationEnds
<1>3. CASE /\ Generic!Fenced(op) /\ repositoryRow.revision < MaxLifecycle
           /\ repositoryRow' = [Generic!Revised("enabled") EXCEPT !.healthy = TRUE]
           /\ Generic!Decides(o)
  <2> DEFINE new == Generic!Revised("enabled")
  <2>4. /\ new \in Generic!RowType
        /\ new.exists = repositoryRow.exists /\ new.id = repositoryRow.id
        /\ new.revision = repositoryRow.revision + 1 /\ new.used = repositoryRow.used
        /\ new.lifecycle = "enabled"
    BY <1>3, RevisedRow DEF Generic!Lifecycles
  <2>5. repositoryRow' = [new EXCEPT !.healthy = TRUE]
    BY <1>3
  <2> HIDE DEF new
  <2>6. repositoryRow' \in Generic!RowType
    BY <2>4, <2>5 DEF Generic!RowType
  <2>7. /\ repositoryRow'.exists = new.exists /\ repositoryRow'.id = new.id
        /\ repositoryRow'.revision = new.revision /\ repositoryRow'.used = new.used
        /\ repositoryRow'.lifecycle = new.lifecycle
    BY <2>4, <2>5 DEF Generic!RowType
  <2>1. GenericRowsOK'
    BY <1>1, <2>4, <2>6, <2>7, RowKeeps
  <2>2. /\ repositoryRow'.id = repositoryRow.id /\ repositoryRow.exists
        /\ repositoryRow'.revision = repositoryRow.revision + 1
    BY <1>3, <2>4, <2>7 DEF Generic!Fenced
  <2>3. operations' = [x \in Requests |->
            IF x \in {o} THEN Generic!Idle ELSE Generic!Overtaken(operations[x])]
    BY <1>3 DEF Generic!Decides
  <2> QED
    BY <2>1, <2>2, <2>3, DecisionOvertakes
<1> QED
  BY <1>2, <1>3 DEF Generic!Enabled

\* The end of an operation that leaves the lifecycle alone.
LEMMA AnswerKeeps ==
    ASSUME GenericInv, NEW o \in Requests,
           Generic!Refused(o) \/ Generic!Rotated(o) \/ Generic!Admit(o)
    PROVE  GenericInv'
<1> USE RecordsBounds, BoundsAssumption DEF Generic!Credentials
<1> DEFINE op == operations[o]
<1>1. op \in Generic!OperationType
  BY DEF GenericInv
<1>2. Generic!Ends(o) /\ UNCHANGED remote
  BY DEF Generic!Refused, Generic!Rotated, Generic!Admit
<1>3. GenericRowsOK' /\ UNCHANGED <<repositoryRow.id, repositoryRow.exists, repositoryRow.revision>>
  <2>1. CASE Generic!Refused(o)
    BY <2>1 DEF Generic!Refused, GenericInv, GenericRowsOK, Generic!RowType,
         Generic!RetiredKeepsNoCredential, Generic!EvaluationsKeepTheirRepository
  <2>2. CASE Generic!Rotated(o)
    BY <1>1, <2>2 DEF Generic!Rotated, Generic!Replaces, GenericInv, GenericRowsOK,
         Generic!RowType, Generic!OperationType,
         Generic!RetiredKeepsNoCredential, Generic!EvaluationsKeepTheirRepository
  <2>3. CASE Generic!Admit(o)
    <3>1. CASE ~Generic!Admits(op)
      BY <2>3, <3>1 DEF Generic!Admit, GenericInv, GenericRowsOK,
           Generic!RetiredKeepsNoCredential, Generic!EvaluationsKeepTheirRepository
    <3>2. CASE Generic!Admits(op)
      <4>1. /\ repositoryRow.exists /\ repositoryRow.id = op.id
            /\ repositoryRow.lifecycle = "enabled"
        BY <3>2 DEF Generic!Admits, Generic!AcceptsNewWork
      <4>2. /\ evaluated' = evaluated \cup {op.id}
            /\ repositoryRow' = [repositoryRow EXCEPT !.used = TRUE]
        BY <2>3, <3>2, <4>1 DEF Generic!Admit
      <4>3. repositoryRow' \in Generic!RowType /\ repositoryRow'.used
        BY <4>2 DEF GenericInv, GenericRowsOK, Generic!RowType
      <4>4. /\ repositoryRow'.exists = repositoryRow.exists
            /\ repositoryRow'.id = repositoryRow.id
            /\ repositoryRow'.revision = repositoryRow.revision
            /\ repositoryRow'.lifecycle = repositoryRow.lifecycle
        BY <4>2 DEF GenericInv, GenericRowsOK, Generic!RowType
      <4>5. op.id \in Nat
        BY <1>1 DEF Generic!OperationType
      <4> QED
        BY <1>2, <4>1, <4>2, <4>3, <4>4, <4>5
           DEF GenericInv, GenericRowsOK, Generic!RetiredKeepsNoCredential,
               Generic!EvaluationsKeepTheirRepository
    <3> QED
      BY <3>1, <3>2
  <2> QED
    BY <2>1, <2>2, <2>3
<1> QED
  BY <1>2, <1>3, OperationEnds

\* Disablement, retirement and removal.
LEMMA DecideKeeps ==
    ASSUME GenericInv, Generic!Disable \/ Generic!Retire \/ Generic!Remove
    PROVE  GenericInv'
<1> USE RecordsBounds, BoundsAssumption DEF Generic!Credentials
<1>1. /\ GenericRowsOK'
      /\ \/ /\ repositoryRow'.id = repositoryRow.id /\ repositoryRow.exists
            /\ repositoryRow'.revision = repositoryRow.revision + 1
         \/ repositoryRow'.id = repositoryRow.id /\ ~repositoryRow'.exists
  <2>1. CASE Generic!Disable
    <3>1. /\ repositoryRow' = Generic!Revised("disabled") /\ UNCHANGED <<remote, evaluated>>
          /\ repositoryRow.exists /\ repositoryRow.revision < MaxLifecycle
      BY <2>1 DEF Generic!Disable
    <3> QED
      BY <3>1, RevisedRow, RowKeeps DEF Generic!Lifecycles
  <2>2. CASE Generic!Retire
    <3> DEFINE new == Generic!Revised("retired")
    <3>1. /\ repositoryRow' = [new EXCEPT !.credential = 0] /\ UNCHANGED <<remote, evaluated>>
          /\ repositoryRow.exists /\ repositoryRow.revision < MaxLifecycle
      BY <2>2 DEF Generic!Retire
    <3>2. /\ new \in Generic!RowType
          /\ new.exists = repositoryRow.exists /\ new.id = repositoryRow.id
          /\ new.revision = repositoryRow.revision + 1 /\ new.used = repositoryRow.used
      BY <3>1, RevisedRow DEF Generic!Lifecycles
    <3> HIDE DEF new
    <3>3. repositoryRow' \in Generic!RowType
      BY <3>1, <3>2 DEF Generic!RowType
    <3>4. /\ repositoryRow'.exists = new.exists /\ repositoryRow'.id = new.id
          /\ repositoryRow'.revision = new.revision /\ repositoryRow'.used = new.used
          /\ repositoryRow'.credential = 0
      BY <3>1, <3>2 DEF Generic!RowType
    <3> QED
      BY <3>1, <3>2, <3>3, <3>4, RowKeeps
  <2>3. CASE Generic!Remove
    <3> DEFINE new == [repositoryRow EXCEPT !.exists = FALSE, !.lifecycle = "enabled"]
    <3>4. new \in Generic!RowType
      BY DEF GenericInv, GenericRowsOK, Generic!RowType, Generic!Lifecycles
    <3>5. repositoryRow' = [new EXCEPT !.credential = 0, !.healthy = TRUE, !.revision = 0]
      BY <2>3 DEF Generic!Remove
    <3> HIDE DEF new
    <3>6. 0 \in 0 .. MaxLifecycle /\ 0 \in 0 .. MaxCredential
      OBVIOUS
    <3>1. repositoryRow' \in Generic!RowType
      BY <3>4, <3>5, <3>6 DEF Generic!RowType
    <3>2. /\ repositoryRow'.id = repositoryRow.id /\ ~repositoryRow'.exists
          /\ repositoryRow'.lifecycle = "enabled"
      BY <2>3 DEF Generic!Remove, GenericInv, GenericRowsOK, Generic!RowType
    <3>3. evaluated = {} /\ UNCHANGED <<remote, evaluated>>
      BY <2>3 DEF Generic!Remove, GenericInv, GenericRowsOK
    <3> QED
      BY <3>1, <3>2, <3>3, RowKeeps
  <2> QED
    BY <2>1, <2>2, <2>3
<1> DEFINE none == {}
<1>2. operations' = [x \in Requests |->
          IF x \in none THEN Generic!Idle ELSE Generic!Overtaken(operations[x])]
  BY DEF Generic!Disable, Generic!Retire, Generic!Remove, Generic!Decide
<1>3. none \in SUBSET Requests
  OBVIOUS
<1> HIDE DEF none
<1> QED
  BY <1>1, <1>2, <1>3, DecisionOvertakes

\* The remote and the process.
LEMMA OutsideKeeps ==
    ASSUME GenericInv, Generic!Revoke \/ Generic!Crash \/ UNCHANGED repositoryVars
    PROVE  GenericInv'
<1> USE RecordsBounds, BoundsAssumption DEF Generic!Credentials
<1>1. Generic!Idle \in Generic!OperationType
  BY DEF Generic!Idle, Generic!OperationType, Generic!Lifecycles
<1>2. UNCHANGED <<repositoryRow, evaluated>> /\ remote' \subseteq remote
  BY DEF Generic!Revoke, Generic!Crash, repositoryVars
<1>3. GenericRowsOK'
  BY <1>2 DEF GenericInv, GenericRowsOK, Generic!RetiredKeepsNoCredential,
              Generic!EvaluationsKeepTheirRepository
<1>4. operations' = operations \/ operations' = [o \in Requests |-> Generic!Idle]
  BY DEF Generic!Revoke, Generic!Crash, repositoryVars
<1>5. CASE operations' = operations
  BY <1>2, <1>3, <1>5 DEF GenericInv, Behind
<1>6. CASE operations' = [o \in Requests |-> Generic!Idle]
  <2>1. \A o \in Requests : operations'[o].at = "idle"
    BY <1>6 DEF Generic!Idle
  <2> QED
    BY <1>1, <1>3, <1>6, <2>1 DEF GenericInv, Behind
<1> QED
  BY <1>4, <1>5, <1>6

LEMMA GenericStep == GenericInv /\ [Next]_all => GenericInv'
<1> SUFFICES ASSUME GenericInv, [Next]_all PROVE GenericInv'
  OBVIOUS
<1>1. CASE UNCHANGED repositoryVars
  BY <1>1, OutsideKeeps
<1>2. CASE Generic!Next
  BY <1>2, RegisterKeeps, AskingOfRowKeeps, RegisteredKeeps, EnabledOfRowKeeps, AnswerKeeps,
     DecideKeeps, OutsideKeeps DEF Generic!Next
<1> QED
  BY <1>1, <1>2, GenericMoves

\* Only an operation that nothing has overtaken enables the Repository.
LEMMA GenericDecides ==
    ASSUME GenericInv, [Next]_all,
           repositoryRow.exists, repositoryRow'.exists,
           repositoryRow.lifecycle # "enabled", repositoryRow'.lifecycle = "enabled"
    PROVE  \E o \in Requests : operations[o].at # "idle" /\ operations'[o].at = "idle"
                               /\ ~operations[o].overtaken
<1>1. PICK o \in Requests :
        /\ Generic!Registered(o) \/ Generic!Enabled(o)
        /\ Generic!Decides(o) /\ Generic!Fenced(operations[o])
  <2>1. Generic!Next
    BY GenericMoves DEF repositoryVars
  <2>2. ASSUME NEW o \in Requests, Generic!Register(o) \/ Generic!Rotate(o)
                 \/ Generic!Enable(o) \/ Generic!Acquire(o) \/ Generic!Refused(o)
                 \/ Generic!Rotated(o) \/ Generic!Admit(o)
        PROVE  repositoryRow'.lifecycle = repositoryRow.lifecycle
    BY <2>2 DEF Generic!Register, Generic!Rotate, Generic!Enable, Generic!Acquire,
         Generic!Refused, Generic!Rotated, Generic!Admit, Generic!Issue, GenericInv,
         GenericRowsOK, Generic!RowType
  <2>3. ASSUME Generic!Disable \/ Generic!Retire \/ Generic!Remove \/ Generic!Revoke
                 \/ Generic!Crash
        PROVE  repositoryRow'.lifecycle # "enabled" \/ ~repositoryRow'.exists
                 \/ repositoryRow'.lifecycle = repositoryRow.lifecycle
    <3>1. CASE Generic!Disable
      BY <3>1, RevisedRow DEF Generic!Disable, Generic!Lifecycles
    <3>2. CASE Generic!Retire
      <4>1. /\ repositoryRow' = [Generic!Revised("retired") EXCEPT !.credential = 0]
            /\ repositoryRow.revision < MaxLifecycle
        BY <3>2 DEF Generic!Retire
      <4>2. /\ Generic!Revised("retired") \in Generic!RowType
            /\ Generic!Revised("retired").lifecycle = "retired"
        BY <4>1, RevisedRow DEF Generic!Lifecycles
      <4> QED
        BY <4>1, <4>2 DEF Generic!RowType
    <3>3. CASE Generic!Remove
      BY <3>3 DEF Generic!Remove, GenericInv, GenericRowsOK, Generic!RowType
    <3>4. CASE Generic!Revoke \/ Generic!Crash
      BY <3>4 DEF Generic!Revoke, Generic!Crash
    <3> QED
      BY <2>3, <3>1, <3>2, <3>3, <3>4
  <2>4. PICK o \in Requests : Generic!Registered(o) \/ Generic!Enabled(o)
    BY <2>1, <2>2, <2>3 DEF Generic!Next
  <2> QED
    BY <2>4 DEF Generic!Registered, Generic!Enabled
<1>2. operations[o].at # "idle"
  BY <1>1 DEF Generic!Registered, Generic!Enabled
<1>3. ~operations[o].overtaken
  BY <1>1, <1>2, RecordsBounds
     DEF GenericInv, Behind, Generic!Fenced, GenericRowsOK, Generic!RowType
<1>4. operations'[o].at = "idle"
  BY <1>1 DEF Generic!Decides, Generic!Idle
<1> QED
  BY <1>2, <1>3, <1>4

-----------------------------------------------------------------------------
(***************************************************************************)
(* The Reviews and the admission of Evaluations                            *)
(***************************************************************************)
Selections ==
    UNION {[R -> [version : Nat, outcome : Admission!ApplicabilityOutcomes]] :
              R \in SUBSET Reviews}
EvaluationRows ==
    [body : Bodies, selection : Selections, result : {"queued", "error", "clear"}]

\* A key that is taken is of an Evaluation that asked for the same.
KeyHolds(key) ==
    key.evaluation # 0 =>
        /\ key.evaluation <= Len(evaluations)
        /\ evaluations[key.evaluation].body = key.body

\* An answer is the one that is stored under its key.
AnswerHolds(client) ==
    client.at = "answered" =>
        /\ client.answer # 0
        /\ keys[client.key].evaluation = client.answer
        /\ keys[client.key].body = client.body

\* An Evaluation has selected sealed Versions of Reviews in the library.
SelectionHolds(e) ==
    \A r \in DOMAIN e.selection :
        /\ r \in Reviews
        /\ reviews[r].exists /\ e.selection[r].version <= reviews[r].versions

AdmissionInv ==
    /\ Admission!TypeOK
    /\ evaluations \in Seq(EvaluationRows)
    /\ \A r \in Reviews : reviews[r].active <= reviews[r].versions
    /\ \A i \in DOMAIN evaluations : SelectionHolds(evaluations[i])
    /\ \A k \in Keys : KeyHolds(keys[k])
    /\ \A c \in Clients : AnswerHolds(clients[c])

\* Only the subject moves its variables.
LEMMA AdmissionMoves == [Next]_all => [Admission!Next]_admissionVars
BY DEF Next, all, OfConnection, OfRepository, OfAdmission, OfRule, OfWaivers, OfFeedback,
       OfAuthority, admissionVars

LEMMA AdmissionIdle ==
    /\ Admission!NoKey \in Admission!KeyType
    /\ Admission!Idle \in Admission!ClientType
    /\ Admission!Absent \in Admission!ReviewType
BY AdmissionBounds
   DEF Admission!NoKey, Admission!KeyType, Admission!Idle, Admission!ClientType,
       Admission!Absent, Admission!ReviewType, Admission!Scopes

LEMMA AdmissionInit == Admission!Init => AdmissionInv
<1> SUFFICES ASSUME Admission!Init PROVE AdmissionInv
  OBVIOUS
<1>1. Admission!TypeOK
  BY AdmissionIdle, AdmissionBounds DEF Admission!Init, Admission!TypeOK
<1>2. evaluations \in Seq(EvaluationRows) /\ DOMAIN evaluations = {}
  BY DEF Admission!Init
<1>3. \A k \in Keys : KeyHolds(keys[k])
  BY DEF Admission!Init, KeyHolds, Admission!NoKey
<1>4. \A c \in Clients : AnswerHolds(clients[c])
  BY DEF Admission!Init, AnswerHolds, Admission!Idle
<1>5. \A r \in Reviews : reviews[r].active <= reviews[r].versions
  BY DEF Admission!Init, Admission!Absent
<1> QED
  BY <1>1, <1>2, <1>3, <1>4, <1>5 DEF AdmissionInv

\* A change of the library: what is selected stays, and so do its Versions.
LEMMA LibraryKeeps ==
    ASSUME AdmissionInv, UNCHANGED <<evaluations, keys, clients, queued, repository>>,
           reviews' \in [Reviews -> Admission!ReviewType],
           \A r \in Reviews : reviews'[r].active <= reviews'[r].versions,
           \A r \in Reviews :
               \/ Admission!Selecting(r) = {}
               \/ reviews[r].exists =>
                      reviews'[r].exists /\ reviews[r].versions <= reviews'[r].versions
    PROVE  AdmissionInv'
<1>1. ASSUME NEW i \in DOMAIN evaluations PROVE SelectionHolds(evaluations[i])'
  <2> DEFINE e == evaluations[i]
  <2>1. SelectionHolds(e) /\ e \in EvaluationRows
    BY DEF AdmissionInv
  <2>2. ASSUME NEW r \in DOMAIN e.selection
        PROVE  /\ r \in Reviews /\ reviews'[r].exists
               /\ e.selection[r].version <= reviews'[r].versions
    <3>1. r \in Reviews /\ reviews[r].exists /\ e.selection[r].version <= reviews[r].versions
      BY <2>1 DEF SelectionHolds
    <3>2. i \in Admission!Selecting(r)
      BY DEF Admission!Selecting
    <3>3. reviews'[r].exists /\ reviews[r].versions <= reviews'[r].versions
      BY <3>1, <3>2
    <3>4. e.selection[r].version \in Nat
      BY <2>1 DEF EvaluationRows, Selections
    <3>5. reviews[r].versions \in Nat /\ reviews'[r].versions \in Nat
      BY <3>1, AdmissionBounds DEF AdmissionInv, Admission!TypeOK, Admission!ReviewType
    <3> QED
      BY <3>1, <3>3, <3>4, <3>5
  <2> QED
    BY <2>2 DEF SelectionHolds
<1>2. Admission!TypeOK'
  BY DEF AdmissionInv, Admission!TypeOK
<1>3. /\ \A k \in Keys : KeyHolds(keys[k])'
      /\ \A c \in Clients : AnswerHolds(clients[c])'
  BY DEF AdmissionInv, KeyHolds, AnswerHolds
<1> QED
  BY <1>1, <1>2, <1>3 DEF AdmissionInv

\* A change of one Review.
LEMMA ReviewKeeps ==
    ASSUME AdmissionInv, UNCHANGED <<evaluations, keys, clients, queued, repository>>,
           NEW r \in Reviews, NEW new \in Admission!ReviewType,
           reviews' = [reviews EXCEPT ![r] = new],
           new.active <= new.versions,
           \/ Admission!Selecting(r) = {} \/ ~reviews[r].exists
           \/ new.exists /\ reviews[r].versions <= new.versions
    PROVE  AdmissionInv'
<1>1. /\ reviews \in [Reviews -> Admission!ReviewType]
      /\ \A x \in Reviews : reviews[x].active <= reviews[x].versions
  BY DEF AdmissionInv, Admission!TypeOK
<1>2. \A x \in Reviews : reviews'[x] = IF x = r THEN new ELSE reviews[x]
  BY <1>1
<1>3. \A x \in Reviews : reviews[x].versions <= reviews[x].versions
  BY <1>1, AdmissionBounds DEF Admission!ReviewType
<1> QED
  BY <1>1, <1>2, <1>3, LibraryKeeps

LEMMA LibraryStep ==
    ASSUME AdmissionInv, NEW r \in Reviews,
           \/ Admission!Create(r) \/ Admission!SaveVersion(r) \/ Admission!Reactivate(r)
           \/ Admission!Archive(r) \/ Admission!ChangeAssignment(r) \/ Admission!Remove(r)
    PROVE  AdmissionInv'
<1> DEFINE old == reviews[r]
<1> USE AdmissionBounds
<1>1. /\ reviews \in [Reviews -> Admission!ReviewType]
      /\ old \in Admission!ReviewType /\ old.active <= old.versions
      /\ old.active \in Nat /\ old.versions \in Nat /\ old = reviews[r]
  BY DEF AdmissionInv, Admission!TypeOK, Admission!ReviewType
<1>2. UNCHANGED <<evaluations, keys, clients, queued, repository>>
  BY DEF Admission!Create, Admission!SaveVersion, Admission!Reactivate, Admission!Archive,
         Admission!ChangeAssignment, Admission!Remove, Admission!admissionVars
<1> HIDE DEF old
<1>3. CASE Admission!Create(r)
  <2>1. PICK scope \in Admission!Scopes, member \in BOOLEAN :
          reviews' = [reviews EXCEPT ![r] =
              [exists |-> TRUE, versions |-> 1, active |-> 1, archived |-> FALSE,
               scope |-> scope, member |-> member]]
    BY <1>3 DEF Admission!Create
  <2> DEFINE new == [exists |-> TRUE, versions |-> 1, active |-> 1, archived |-> FALSE,
                     scope |-> scope, member |-> member]
  <2>2. new \in Admission!ReviewType /\ new.active <= new.versions
    BY DEF Admission!ReviewType
  <2>3. ~old.exists
    BY <1>1, <1>3 DEF Admission!Create
  <2> HIDE DEF new
  <2> QED
    BY <1>2, <2>1, <2>2, <2>3, <1>1, ReviewKeeps DEF new
<1>4. CASE Admission!SaveVersion(r)
  <2> DEFINE new == [old EXCEPT !.versions = old.versions + 1, !.active = old.versions + 1]
  <2>1. reviews' = [reviews EXCEPT ![r] = new] /\ old.versions < MaxVersions
    BY <1>1, <1>4 DEF Admission!SaveVersion
  <2>3. old.versions + 1 \in 0 .. MaxVersions
    BY <1>1, <2>1
  <2>4. new \in Admission!ReviewType
    BY <1>1, <2>3 DEF Admission!ReviewType
  <2>5. /\ new.versions = old.versions + 1 /\ new.active = old.versions + 1
        /\ new.exists = old.exists
    BY <1>1 DEF Admission!ReviewType
  <2>2. /\ new \in Admission!ReviewType /\ new.active <= new.versions
        /\ new.exists = old.exists /\ old.versions <= new.versions
    BY <1>1, <2>4, <2>5
  <2> HIDE DEF new
  <2> QED
    BY <1>2, <2>1, <2>2, <1>1, ReviewKeeps
<1>5. CASE Admission!Reactivate(r)
  <2>1. PICK v \in 1 .. old.versions : reviews' = [reviews EXCEPT ![r].active = v]
    BY <1>1, <1>5 DEF Admission!Reactivate
  <2> DEFINE new == [old EXCEPT !.active = v]
  <2>2. reviews' = [reviews EXCEPT ![r] = new]
    BY <1>1, <2>1
  <2>3. /\ new \in Admission!ReviewType /\ new.active <= new.versions
        /\ new.exists = old.exists /\ old.versions <= new.versions
    BY <1>1 DEF Admission!ReviewType
  <2> HIDE DEF new
  <2> QED
    BY <1>2, <2>2, <2>3, <1>1, ReviewKeeps
<1>6. CASE Admission!Archive(r)
  <2> DEFINE new == [old EXCEPT !.archived = ~old.archived]
  <2>1. reviews' = [reviews EXCEPT ![r] = new]
    BY <1>1, <1>6 DEF Admission!Archive
  <2>3. new \in Admission!ReviewType
    BY <1>1 DEF Admission!ReviewType
  <2>4. /\ new.versions = old.versions /\ new.active = old.active
        /\ new.exists = old.exists
    BY <1>1 DEF Admission!ReviewType
  <2>2. /\ new \in Admission!ReviewType /\ new.active <= new.versions
        /\ new.exists = old.exists /\ old.versions <= new.versions
    BY <1>1, <2>3, <2>4
  <2> HIDE DEF new
  <2> QED
    BY <1>2, <2>1, <2>2, <1>1, ReviewKeeps
<1>7. CASE Admission!ChangeAssignment(r)
  <2>1. PICK scope \in Admission!Scopes, member \in BOOLEAN :
          reviews' = [reviews EXCEPT ![r].scope = scope, ![r].member = member]
    BY <1>7 DEF Admission!ChangeAssignment
  <2> DEFINE new == [old EXCEPT !.scope = scope, !.member = member]
  <2>2. reviews' = [reviews EXCEPT ![r] = new]
    BY <1>1, <2>1
  <2>4. new \in Admission!ReviewType
    BY <1>1 DEF Admission!ReviewType
  <2>5. /\ new.versions = old.versions /\ new.active = old.active
        /\ new.exists = old.exists
    BY <1>1 DEF Admission!ReviewType
  <2>3. /\ new \in Admission!ReviewType /\ new.active <= new.versions
        /\ new.exists = old.exists /\ old.versions <= new.versions
    BY <1>1, <2>4, <2>5
  <2> HIDE DEF new
  <2> QED
    BY <1>2, <2>2, <2>3, <1>1, ReviewKeeps
<1>8. CASE Admission!Remove(r)
  <2>1. reviews' = [reviews EXCEPT ![r] = Admission!Absent] /\ Admission!Selecting(r) = {}
    BY <1>8 DEF Admission!Remove, Admission!Deletable
  <2>2. Admission!Absent \in Admission!ReviewType
    BY AdmissionIdle
  <2>3. Admission!Absent.active <= Admission!Absent.versions
    BY DEF Admission!Absent
  <2> QED
    BY <1>2, <2>1, <2>2, <2>3, <1>1, ReviewKeeps
<1> QED
  BY <1>3, <1>4, <1>5, <1>6, <1>7, <1>8

LEMMA SetForRepositoryKeeps == ASSUME AdmissionInv, Admission!SetForRepository PROVE AdmissionInv'
<1> USE AdmissionBounds
<1>1. PICK selected : reviews' = [r \in Reviews |->
          IF Admission!Active(r) /\ reviews[r].scope = "repository_set"
          THEN [reviews[r] EXCEPT !.member = r \in selected] ELSE reviews[r]]
  BY DEF Admission!SetForRepository
<1>2. UNCHANGED <<evaluations, keys, clients, queued, repository>>
  BY DEF Admission!SetForRepository, Admission!admissionVars
<1>3. ASSUME NEW r \in Reviews
      PROVE  /\ reviews'[r] \in Admission!ReviewType
             /\ reviews'[r].exists = reviews[r].exists
             /\ reviews'[r].versions = reviews[r].versions
             /\ reviews'[r].active = reviews[r].active
             /\ reviews[r].versions \in Nat
  <2>1. reviews[r] \in Admission!ReviewType
    BY DEF AdmissionInv, Admission!TypeOK
  <2> DEFINE b == r \in selected
  <2>2. reviews'[r] = reviews[r] \/ reviews'[r] = [reviews[r] EXCEPT !.member = b]
    BY <1>1
  <2>3. b \in BOOLEAN
    OBVIOUS
  <2> HIDE DEF b
  <2> QED
    BY <2>1, <2>2, <2>3 DEF Admission!ReviewType
<1>4. reviews' \in [Reviews -> Admission!ReviewType]
  BY <1>1, <1>3
<1>5. \A r \in Reviews : reviews'[r].active <= reviews'[r].versions
  BY <1>3 DEF AdmissionInv
<1>6. \A r \in Reviews :
          reviews[r].exists =>
                 reviews'[r].exists /\ reviews[r].versions <= reviews'[r].versions
  BY <1>3
<1> QED
  BY <1>2, <1>4, <1>5, <1>6, LibraryKeeps

LEMMA RepositoryChanges == ASSUME AdmissionInv, Admission!ChangeRepository PROVE AdmissionInv'
<1>1. /\ repository' \in {"healthy", "error", "disabled"}
      /\ UNCHANGED <<reviews, evaluations, keys, clients, queued>>
  BY DEF Admission!ChangeRepository, Admission!admissionVars
<1> QED
  BY <1>1 DEF AdmissionInv, Admission!TypeOK, SelectionHolds, KeyHolds, AnswerHolds

\* A run starts.
LEMMA StartKeeps == ASSUME AdmissionInv, Admission!Start PROVE AdmissionInv'
<1>1. queued' \in 0 .. Capacity /\ UNCHANGED <<reviews, repository, evaluations, keys, clients>>
  BY AdmissionBounds DEF Admission!Start, AdmissionInv, Admission!TypeOK
<1> QED
  BY <1>1 DEF AdmissionInv, Admission!TypeOK, SelectionHolds, KeyHolds, AnswerHolds

\* A request of c is at another place.
LEMMA ClientKeeps ==
    ASSUME AdmissionInv, UNCHANGED <<reviews, repository, evaluations, keys, queued>>,
           NEW c \in Clients, NEW new \in Admission!ClientType,
           clients' = [clients EXCEPT ![c] = new], AnswerHolds(new)
    PROVE  AdmissionInv'
<1>1. clients' \in [Clients -> Admission!ClientType]
  BY DEF AdmissionInv, Admission!TypeOK
<1>2. \A x \in Clients : AnswerHolds(clients[x])'
  BY DEF AdmissionInv, Admission!TypeOK, AnswerHolds
<1> QED
  BY <1>1, <1>2 DEF AdmissionInv, Admission!TypeOK, SelectionHolds, KeyHolds

LEMMA KnownKeeps ==
    ASSUME AdmissionInv, UNCHANGED <<reviews, repository, evaluations, keys, queued>>,
           NEW c \in Clients, NEW k \in Keys, NEW body \in Bodies,
           keys[k].evaluation # 0, Admission!Known(c, k, body)
    PROVE  AdmissionInv'
<1> DEFINE new == [at |-> "answered", key |-> k, body |-> body, answer |-> keys[k].evaluation]
<1>1. keys[k] \in Admission!KeyType
  BY DEF AdmissionInv, Admission!TypeOK
<1>2. CASE Admission!Replays(k, body)
  <2>1. clients' = [clients EXCEPT ![c] = new]
    BY <1>2 DEF Admission!Known
  <2>2. new \in Admission!ClientType
    BY <1>1 DEF Admission!ClientType, Admission!KeyType
  <2>3. AnswerHolds(new)
    BY <1>2 DEF AnswerHolds, Admission!Replays
  <2> HIDE DEF new
  <2> QED
    BY <2>1, <2>2, <2>3, ClientKeeps
<1>3. CASE ~Admission!Replays(k, body)
  <2>1. clients' = [clients EXCEPT ![c] = Admission!Idle]
    BY <1>3 DEF Admission!Known
  <2>2. AnswerHolds(Admission!Idle)
    BY DEF AnswerHolds, Admission!Idle
  <2> QED
    BY <2>1, <2>2, AdmissionIdle, ClientKeeps
<1> QED
  BY <1>2, <1>3

LEMMA RequestKeeps ==
    ASSUME AdmissionInv, NEW c \in Clients, Admission!Request(c) \/ Admission!Refuse(c)
    PROVE  AdmissionInv'
<1>1. UNCHANGED <<reviews, repository, evaluations, keys, queued>>
  BY DEF Admission!Request, Admission!Refuse
<1>2. CASE Admission!Request(c)
  <2>1. PICK k \in Keys, body \in Bodies :
          IF keys[k].evaluation # 0 THEN Admission!Known(c, k, body)
          ELSE clients' = [clients EXCEPT ![c] =
                  [at |-> "acquiring", key |-> k, body |-> body, answer |-> 0]]
    BY <1>2 DEF Admission!Request
  <2>2. CASE keys[k].evaluation # 0
    BY <1>1, <2>1, <2>2, KnownKeeps
  <2>3. CASE keys[k].evaluation = 0
    <3> DEFINE new == [at |-> "acquiring", key |-> k, body |-> body, answer |-> 0]
    <3>1. new \in Admission!ClientType /\ AnswerHolds(new)
      BY AdmissionBounds DEF Admission!ClientType, AnswerHolds
    <3>2. clients' = [clients EXCEPT ![c] = new]
      BY <2>1, <2>3
    <3> HIDE DEF new
    <3> QED
      BY <1>1, <3>1, <3>2, ClientKeeps
  <2> QED
    BY <2>2, <2>3
<1>3. CASE Admission!Refuse(c)
  <2>1. clients' = [clients EXCEPT ![c] = Admission!Idle]
    BY <1>3 DEF Admission!Refuse
  <2>2. AnswerHolds(Admission!Idle)
    BY DEF AnswerHolds, Admission!Idle
  <2> QED
    BY <1>1, <2>1, <2>2, AdmissionIdle, ClientKeeps
<1> QED
  BY <1>2, <1>3

\* What an admission appends.
LEMMA AdmittedRow ==
    ASSUME AdmissionInv, UNCHANGED reviews, NEW body \in Bodies,
           NEW outcomes \in [Reviews -> Admission!ApplicabilityOutcomes],
           Admission!Admit(body, outcomes)
    PROVE  \E e \in EvaluationRows :
               /\ evaluations' = Append(evaluations, e) /\ e.body = body
               /\ SelectionHolds(e)
               /\ Len(evaluations) < MaxEvaluations
               /\ queued' \in 0 .. Capacity
<1> USE AdmissionBounds
<1> DEFINE assigned == Admission!Assigned
           selection == [r \in assigned |-> [version |-> reviews[r].active,
                                             outcome |-> outcomes[r]]]
           runs == {r \in assigned : outcomes[r] = "applicable"}
           ended == CASE runs # {} -> "queued"
                      [] runs = {} /\ \E r \in assigned : outcomes[r] = "error" -> "error"
                      [] OTHER -> "clear"
           e == [body |-> body, selection |-> selection, result |-> ended]
<1>1. /\ evaluations' = Append(evaluations, e)
      /\ Admission!HasCapacity(Admission!Cardinality(runs))
      /\ Len(evaluations) < MaxEvaluations
      /\ queued' = queued + Admission!Cardinality(runs)
  BY DEF Admission!Admit
<1>2. ASSUME NEW r \in assigned
      PROVE  /\ r \in Reviews /\ reviews[r].exists
             /\ reviews[r].active \in Nat /\ reviews[r].active <= reviews[r].versions
  BY DEF Admission!Assigned, Admission!Active, AdmissionInv, Admission!TypeOK,
         Admission!ReviewType
<1>3. selection \in Selections
  <2>1. \A r \in assigned : [version |-> reviews[r].active, outcome |-> outcomes[r]] \in
            [version : Nat, outcome : Admission!ApplicabilityOutcomes]
    BY <1>2
  <2>2. assigned \in SUBSET Reviews
    BY <1>2
  <2> QED
    BY <2>1, <2>2 DEF Selections
<1>4. ended \in {"queued", "error", "clear"}
  OBVIOUS
<1>5. e \in EvaluationRows /\ e.body = body
  BY <1>3, <1>4 DEF EvaluationRows
<1>6. SelectionHolds(e)
  BY <1>2 DEF SelectionHolds
<1>7. queued' \in 0 .. Capacity
  <2>1. IsFiniteSet(runs)
    <3>1. runs \subseteq Reviews
      BY <1>2
    <3> QED
      BY <3>1, FS_Subset
  <2>2. Cardinality(runs) \in Nat
    BY <2>1, FS_CardinalityType
  <2>3. Admission!Cardinality(runs) = Cardinality(runs)
    BY DEF Admission!Cardinality, Cardinality
  <2>4. queued \in Nat
    BY DEF AdmissionInv, Admission!TypeOK
  <2> QED
    BY <1>1, <2>2, <2>3, <2>4 DEF Admission!HasCapacity
<1> QED
  BY <1>1, <1>5, <1>6, <1>7

\* An Evaluation more: the others, and what is stored about them, remain.
LEMMA AppendKeeps ==
    ASSUME AdmissionInv, NEW e \in EvaluationRows, SelectionHolds(e),
           evaluations' = Append(evaluations, e), UNCHANGED reviews
    PROVE  /\ evaluations' \in Seq(EvaluationRows)
           /\ Len(evaluations') = Len(evaluations) + 1 /\ Len(evaluations) \in Nat
           /\ evaluations'[Len(evaluations')] = e
           /\ \A i \in DOMAIN evaluations' : SelectionHolds(evaluations[i])'
           /\ \A k \in Keys : KeyHolds(keys[k]) =>
                  /\ keys[k].evaluation # 0 =>
                        /\ keys[k].evaluation <= Len(evaluations')
                        /\ evaluations'[keys[k].evaluation].body = keys[k].body
<1> USE AdmissionBounds
<1>1. evaluations \in Seq(EvaluationRows)
  BY DEF AdmissionInv
<1>2. /\ evaluations' \in Seq(EvaluationRows)
      /\ Len(evaluations') = Len(evaluations) + 1 /\ Len(evaluations) \in Nat
      /\ evaluations'[Len(evaluations')] = e
      /\ \A i \in 1 .. Len(evaluations) : evaluations'[i] = evaluations[i]
  BY <1>1
<1>3. ASSUME NEW i \in DOMAIN evaluations' PROVE SelectionHolds(evaluations[i])'
  <2>1. SelectionHolds(evaluations'[i])
    <3>1. CASE i = Len(evaluations')
      BY <1>2, <3>1
    <3>2. CASE i # Len(evaluations')
      <4>1. i \in 1 .. Len(evaluations) /\ i \in DOMAIN evaluations
        BY <1>1, <1>2, <3>2
      <4>2. evaluations'[i] = evaluations[i]
        BY <1>2, <4>1
      <4> QED
        BY <4>1, <4>2 DEF AdmissionInv
    <3> QED
      BY <3>1, <3>2
  <2> QED
    BY <2>1 DEF SelectionHolds
<1>4. ASSUME NEW k \in Keys, KeyHolds(keys[k]), keys[k].evaluation # 0
      PROVE  /\ keys[k].evaluation <= Len(evaluations')
             /\ evaluations'[keys[k].evaluation].body = keys[k].body
  <2>1. keys[k].evaluation \in Nat
    BY DEF AdmissionInv, Admission!TypeOK, Admission!KeyType
  <2>2. keys[k].evaluation \in 1 .. Len(evaluations)
    BY <1>2, <1>4, <2>1 DEF KeyHolds
  <2> QED
    BY <1>2, <1>4, <2>1, <2>2 DEF KeyHolds
<1> QED
  BY <1>2, <1>3, <1>4

LEMMA AdmitAutomaticKeeps ==
    ASSUME AdmissionInv, Admission!AdmitAutomatic PROVE AdmissionInv'
<1>1. PICK outcomes \in [Reviews -> Admission!ApplicabilityOutcomes], body \in Bodies :
        Admission!Admit(body, outcomes)
  BY DEF Admission!AdmitAutomatic
<1>2. UNCHANGED <<reviews, repository, keys, clients>>
  BY DEF Admission!AdmitAutomatic
<1>3. PICK e \in EvaluationRows :
        /\ evaluations' = Append(evaluations, e) /\ SelectionHolds(e)
        /\ queued' \in 0 .. Capacity
  BY <1>1, <1>2, AdmittedRow
<1>4. Admission!TypeOK'
  BY <1>2, <1>3 DEF AdmissionInv, Admission!TypeOK
<1>5. \A k \in Keys : KeyHolds(keys[k])'
  BY <1>2, <1>3, AppendKeeps DEF AdmissionInv, KeyHolds
<1>6. \A c \in Clients : AnswerHolds(clients[c])'
  BY <1>2 DEF AdmissionInv, AnswerHolds
<1>7. \A r \in Reviews : (reviews[r].active <= reviews[r].versions)'
  BY <1>2 DEF AdmissionInv
<1> QED
  BY <1>2, <1>3, <1>4, <1>5, <1>6, <1>7, AppendKeeps DEF AdmissionInv

\* The transaction of a request: a replay after all, or its Evaluation.
LEMMA InsertKeeps ==
    ASSUME AdmissionInv, NEW c \in Clients, Admission!Insert(c)
    PROVE  AdmissionInv'
<1> USE AdmissionBounds
<1> DEFINE k == clients[c].key
           body == clients[c].body
<1>1. /\ clients[c] \in Admission!ClientType /\ k \in Keys /\ body \in Bodies
      /\ clients \in [Clients -> Admission!ClientType]
      /\ keys \in [Keys -> Admission!KeyType]
  BY DEF AdmissionInv, Admission!TypeOK, Admission!ClientType
<1>2. UNCHANGED <<reviews, repository>>
  BY DEF Admission!Insert
<1>3. CASE Admission!Raced(k)
  <2>1. /\ Admission!Known(c, k, body) /\ UNCHANGED <<evaluations, keys, queued>>
        /\ keys[k].evaluation # 0
    BY <1>3 DEF Admission!Insert, Admission!Raced
  <2> HIDE DEF k, body
  <2> QED
    BY <1>1, <1>2, <2>1, KnownKeeps
<1>4. CASE ~Admission!Raced(k)
  <2>1. PICK outcomes \in [Reviews -> Admission!ApplicabilityOutcomes] :
          Admission!Admit(body, outcomes)
    BY <1>4 DEF Admission!Insert
  <2>2. /\ keys' = [keys EXCEPT ![k] = [evaluation |-> Len(evaluations'), body |-> body]]
        /\ clients' = [clients EXCEPT ![c].at = "answered",
                                      ![c].answer = Len(evaluations')]
        /\ keys[k].evaluation = 0
    BY <1>4 DEF Admission!Insert, Admission!Raced
  <2>3. PICK e \in EvaluationRows :
          /\ evaluations' = Append(evaluations, e) /\ e.body = body /\ SelectionHolds(e)
          /\ Len(evaluations) < MaxEvaluations
          /\ queued' \in 0 .. Capacity
    BY <1>1, <1>2, <2>1, AdmittedRow
  <2>4. /\ Len(evaluations') = Len(evaluations) + 1 /\ Len(evaluations) \in Nat
        /\ evaluations'[Len(evaluations')] = e
    BY <1>2, <2>3, AppendKeeps
  <2> DEFINE n == Len(evaluations')
             asked == [clients[c] EXCEPT !.at = "answered", !.answer = n]
  <2>5. n \in 0 .. MaxEvaluations /\ n # 0
    BY <2>3, <2>4
  <2>6. clients' = [clients EXCEPT ![c] = asked]
    BY <1>1, <2>2
  <2>7. /\ asked \in Admission!ClientType /\ asked.key = k /\ asked.body = body
        /\ asked.answer = n /\ asked.at = "answered"
    BY <1>1, <2>5 DEF Admission!ClientType
  <2> HIDE DEF n, asked, k, body
  <2>8. keys' = [keys EXCEPT ![k] = [evaluation |-> n, body |-> body]]
    BY <2>2 DEF n
  <2>9. keys' \in [Keys -> Admission!KeyType]
    BY <1>1, <2>5, <2>8 DEF Admission!KeyType
  <2>10. Admission!TypeOK'
    BY <1>1, <1>2, <2>3, <2>6, <2>7, <2>9 DEF AdmissionInv, Admission!TypeOK
  <2>11. ASSUME NEW x \in Keys PROVE KeyHolds(keys[x])'
    <3>1. CASE x = k
      BY <1>1, <2>3, <2>4, <2>8, <3>1 DEF KeyHolds, n
    <3>2. CASE x # k
      <4>1. keys'[x] = keys[x] /\ KeyHolds(keys[x])
        BY <1>1, <2>8, <3>2 DEF AdmissionInv
      <4> QED
        BY <1>2, <2>3, <4>1, AppendKeeps DEF KeyHolds
    <3> QED
      BY <3>1, <3>2
  <2>12. ASSUME NEW x \in Clients PROVE AnswerHolds(clients[x])'
    <3>1. CASE x = c
      BY <1>1, <2>5, <2>6, <2>7, <2>8, <3>1 DEF AnswerHolds
    <3>2. CASE x # c
      <4>1. clients'[x] = clients[x] /\ AnswerHolds(clients[x])
        BY <1>1, <2>6, <3>2 DEF AdmissionInv
      <4>2. clients[x].at = "answered" => clients[x].key # k
        BY <2>2, <4>1 DEF AnswerHolds
      <4> QED
        BY <1>1, <2>8, <4>1, <4>2 DEF AnswerHolds
    <3> QED
      BY <3>1, <3>2
  <2>13. \A r \in Reviews : (reviews[r].active <= reviews[r].versions)'
    BY <1>2 DEF AdmissionInv
  <2> QED
    BY <1>2, <2>3, <2>10, <2>11, <2>12, <2>13, AppendKeeps DEF AdmissionInv
<1> QED
  BY <1>3, <1>4

LEMMA AdmissionStep == AdmissionInv /\ [Next]_all => AdmissionInv'
<1> SUFFICES ASSUME AdmissionInv, [Next]_all PROVE AdmissionInv'
  OBVIOUS
<1>1. CASE UNCHANGED admissionVars
  BY <1>1 DEF admissionVars, AdmissionInv, Admission!TypeOK, SelectionHolds, KeyHolds,
              AnswerHolds
<1>2. CASE Admission!Next
  BY <1>2, LibraryStep, SetForRepositoryKeeps, RepositoryChanges, RequestKeeps, InsertKeeps,
     AdmitAutomaticKeeps, StartKeeps DEF Admission!Next
<1> QED
  BY <1>1, <1>2, AdmissionMoves

LEMMA AdmissionHolds == AdmissionInv => AdmittedAsAsked
<1> SUFFICES ASSUME AdmissionInv PROVE AdmittedAsAsked
  OBVIOUS
<1>1. ASSUME NEW c \in Clients, clients[c].at = "answered"
      PROVE  /\ evaluations[clients[c].answer].body = clients[c].body
             /\ \A d \in Clients :
                  (clients[d].at = "answered" /\ clients[d].key = clients[c].key) =>
                      clients[d].answer = clients[c].answer
  <2>1. clients[c].key \in Keys
    BY DEF AdmissionInv, Admission!TypeOK, Admission!ClientType
  <2> QED
    BY <1>1, <2>1 DEF AdmissionInv, AnswerHolds, KeyHolds
<1>2. Admission!AnsweredByItsOwn
  BY <1>1 DEF Admission!AnsweredByItsOwn
<1>3. Admission!SelectionsRemain
  BY DEF AdmissionInv, SelectionHolds, Admission!SelectionsRemain
<1> QED
  BY <1>2, <1>3 DEF AdmittedAsAsked

-----------------------------------------------------------------------------
(***************************************************************************)
(* The delivery of feedback                                                *)
(***************************************************************************)
SourcesOf(v) == IF v = "feedback" THEN {"aggregate", "inline"} ELSE {"followup"}

\* What is unavailable has a verdict, unless its delivery was never begun and is
\* one that can be inserted without; a source without a row has no delivery yet.
CanResume(s) ==
    /\ posts[s] = "none" => deliveries[s].generation = 0 /\ deliveries[s].verdict = "none"
    /\ posts[s] = "unavailable" =>
           \/ deliveries[s].verdict # "none"
           \/ deliveries[s].generation = 0 /\ (provider = "github" \/ s = "followup")

\* What has not ended has no row.
StageHolds ==
    /\ stage = "running" => posts["aggregate"] = "none"
    /\ stage # "adjudicated" => posts["followup"] = "none"

\* A comment that was written is known or will be looked for.
PostHolds(s) ==
    /\ comments[s] \in {0, 1}
    /\ comments[s] = 1 => /\ deliveries[s].reconcile \/ deliveries[s].external
                          /\ posts[s] # "none"
    /\ CanResume(s)

\* A creation is open only for what is to be reconciled after a crash and was
\* not written but by this very request.
Creating(w) == w.at = "request" /\ w.operation = "create"
WorkerHolds(v) ==
    LET w == workers[v] IN
    /\ w.at # "idle" => w.source \in SourcesOf(v)
    /\ w.at = "request" => posts[w.source] # "none"
    /\ Creating(w) => /\ deliveries[w.source].reconcile
                      /\ comments[w.source] = IF w.wrote THEN 1 ELSE 0

FeedbackInv ==
    /\ Feedback!TypeOK
    /\ StageHolds
    /\ \A s \in Feedback!Sources : PostHolds(s)
    /\ \A v \in Feedback!Services : WorkerHolds(v)

\* Only the subject moves its variables.
LEMMA FeedbackMoves == [Next]_all => [Feedback!Next]_feedbackVars
BY DEF Next, all, OfConnection, OfRepository, OfAdmission, OfRule, OfWaivers, OfFeedback,
       OfAuthority, feedbackVars

\* A failure keeps what is known of the comment and gives its verdict.
LEMMA FailedStep ==
    ASSUME NEW d \in Feedback!AttemptType,
           NEW failure \in Feedback!Failures, NEW operation \in Feedback!Operations
    PROVE  /\ Feedback!Failed(d, failure, operation) \in Feedback!AttemptType
           /\ d.reconcile => Feedback!Failed(d, failure, operation).reconcile
           /\ Feedback!Failed(d, failure, operation).external = d.external
           /\ Feedback!Failed(d, failure, operation).verdict = Feedback!VerdictOf(failure)
<1>1. Feedback!VerdictOf(failure) \in Feedback!Verdicts
  BY DEF Feedback!VerdictOf, Feedback!Verdicts, Feedback!Failures
<1>2. PICK b \in BOOLEAN : b = (d.reconcile \/ Feedback!Uncertain(failure, operation))
  OBVIOUS
<1>3. PICK c \in BOOLEAN : c = (Feedback!VerdictOf(failure) # "none")
  OBVIOUS
<1>4. Feedback!Failed(d, failure, operation) =
        [d EXCEPT !.due = c, !.reconcile = b, !.verdict = Feedback!VerdictOf(failure)]
  BY <1>2, <1>3 DEF Feedback!Failed
<1>5. Feedback!Failed(d, failure, operation) \in Feedback!AttemptType
  BY <1>1, <1>4 DEF Feedback!AttemptType
<1>6. /\ Feedback!Failed(d, failure, operation).reconcile = b
      /\ Feedback!Failed(d, failure, operation).external = d.external
      /\ Feedback!Failed(d, failure, operation).verdict = Feedback!VerdictOf(failure)
  BY <1>4 DEF Feedback!AttemptType
<1> QED
  BY <1>2, <1>5, <1>6

\* An attempt that begins: a creation is to be reconciled from then on.
LEMMA BegunStep ==
    ASSUME NEW d \in Feedback!AttemptType, NEW v \in Nat,
           NEW operation \in Feedback!Operations
    PROVE  /\ Feedback!Begun(d, v, operation) \in Feedback!AttemptType
           /\ Feedback!Begun(d, v, operation).reconcile
                   = (d.reconcile \/ operation = "create")
           /\ Feedback!Begun(d, v, operation).external = d.external
<1>0. d.generation + 1 \in Nat
  BY DEF Feedback!AttemptType
<1>1. PICK b \in BOOLEAN : b = (d.reconcile \/ operation = "create")
  OBVIOUS
<1>2. Feedback!Begun(d, v, operation) =
        [d EXCEPT !.generation = d.generation + 1, !.authority = v, !.reconcile = b]
  BY <1>1 DEF Feedback!Begun
<1>3. Feedback!Begun(d, v, operation) \in Feedback!AttemptType
  BY <1>0, <1>2 DEF Feedback!AttemptType
<1>4. /\ Feedback!Begun(d, v, operation).reconcile = b
      /\ Feedback!Begun(d, v, operation).external = d.external
  BY <1>2 DEF Feedback!AttemptType
<1> QED
  BY <1>1, <1>3, <1>4

\* The other steps of the delivery protocol.
LEMMA DeliverySteps ==
    ASSUME NEW d \in Feedback!AttemptType
    PROVE  /\ Feedback!Succeeded(d) \in Feedback!AttemptType
           /\ Feedback!Succeeded(d).external /\ Feedback!Succeeded(d).verdict = d.verdict
           /\ Feedback!Succeeded(d).generation = d.generation
           /\ Feedback!ProvenAbsent(d).generation = d.generation
           /\ Feedback!ProvenAbsent(d) \in Feedback!AttemptType
           /\ Feedback!ProvenAbsent(d).external = d.external
           /\ Feedback!ProvenAbsent(d).verdict = d.verdict
           /\ Feedback!Resumed(d) \in Feedback!AttemptType
           /\ Feedback!Resumed(d).reconcile = d.reconcile
           /\ Feedback!Resumed(d).external = d.external
           /\ Feedback!RetiredAttempt(d) \in Feedback!AttemptType
           /\ Feedback!RetiredAttempt(d).reconcile = d.reconcile
           /\ Feedback!RetiredAttempt(d).external = d.external
           /\ Feedback!RetiredAttempt(d).verdict = "recoverable"
<1>0. d.generation + 1 \in Nat
  BY DEF Feedback!AttemptType
<1>2. /\ Feedback!Succeeded(d) \in Feedback!AttemptType
      /\ Feedback!Succeeded(d).external /\ Feedback!Succeeded(d).verdict = d.verdict
      /\ Feedback!Succeeded(d).generation = d.generation
  BY DEF Feedback!Succeeded, Feedback!AttemptType
<1>4. /\ Feedback!ProvenAbsent(d) \in Feedback!AttemptType
      /\ Feedback!ProvenAbsent(d).external = d.external
      /\ Feedback!ProvenAbsent(d).verdict = d.verdict
      /\ Feedback!ProvenAbsent(d).generation = d.generation
  BY DEF Feedback!ProvenAbsent, Feedback!AttemptType
<1>5. /\ Feedback!Resumed(d) \in Feedback!AttemptType
      /\ Feedback!Resumed(d).reconcile = d.reconcile
      /\ Feedback!Resumed(d).external = d.external
  BY <1>0 DEF Feedback!Resumed, Feedback!AttemptType, Feedback!Verdicts
<1>6. /\ Feedback!RetiredAttempt(d) \in Feedback!AttemptType
      /\ Feedback!RetiredAttempt(d).reconcile = d.reconcile
      /\ Feedback!RetiredAttempt(d).external = d.external
      /\ Feedback!RetiredAttempt(d).verdict = "recoverable"
  BY <1>0 DEF Feedback!RetiredAttempt, Feedback!AttemptType, Feedback!Verdicts
<1> QED
  BY <1>2, <1>4, <1>5, <1>6

LEMMA FeedbackInit == Feedback!Init => FeedbackInv
<1> SUFFICES ASSUME Feedback!Init PROVE FeedbackInv
  OBVIOUS
<1>1. Feedback!Idle \in Feedback!WorkerType /\ Feedback!Idle.at = "idle"
  BY DEF Feedback!Idle, Feedback!WorkerType, Feedback!Sources, Feedback!Operations
<1>2. Feedback!FreshAttempt \in Feedback!AttemptType
  BY DEF Feedback!FreshAttempt, Feedback!AttemptType, Feedback!Verdicts
<1>3. Feedback!TypeOK
  <2>1. /\ posts \in [Feedback!Sources -> Feedback!PostStatus]
        /\ deliveries \in [Feedback!Sources -> Feedback!AttemptType]
        /\ comments \in [Feedback!Sources -> Nat]
        /\ workers \in [Feedback!Services -> Feedback!WorkerType]
    BY <1>1, <1>2 DEF Feedback!Init, Feedback!PostStatus
  <2>2. /\ provider \in {"github", "forgejo"}
        /\ stage \in {"running", "completed", "adjudicated"}
        /\ lifecycle \in {"enabled", "retired"}
    BY DEF Feedback!Init
  <2>3. healthy \in BOOLEAN /\ gated \in BOOLEAN
    BY DEF Feedback!Init
  <2>4. verified \in Nat /\ faults \in 0 .. MaxFaults
    BY DeliveryBounds DEF Feedback!Init
  <2> QED
    BY <2>1, <2>2, <2>3, <2>4 DEF Feedback!TypeOK
<1>4. \A s \in Feedback!Sources : PostHolds(s)
  BY DEF Feedback!Init, Feedback!FreshAttempt, PostHolds, CanResume
<1>5. \A v \in Feedback!Services : WorkerHolds(v)
  BY <1>1 DEF Feedback!Init, WorkerHolds, Creating
<1>6. StageHolds
  BY DEF Feedback!Init, Feedback!Sources, StageHolds
<1> QED
  BY <1>3, <1>4, <1>5, <1>6 DEF FeedbackInv

\* Two services deliver different sources.
LEMMA SourcesApart ==
    ASSUME FeedbackInv, NEW v \in Feedback!Services, NEW w \in Feedback!Services, v # w,
           workers[v].at # "idle", workers[w].at # "idle"
    PROVE  workers[v].source # workers[w].source
BY DEF FeedbackInv, WorkerHolds, SourcesOf, Feedback!Services

\* A step that opens no request and writes no comment: what was written stays
\* known or to be looked for, and what is being created to be reconciled.
LEMMA NothingOpens ==
    ASSUME FeedbackInv, Feedback!TypeOK', UNCHANGED <<comments, provider>>,
           StageHolds',
           \A s \in Feedback!Sources :
               /\ posts[s] # "none" => posts'[s] # "none"
               /\ comments[s] = 1 => deliveries'[s].reconcile \/ deliveries'[s].external
               /\ CanResume(s)',
           \A v \in Feedback!Services :
               \/ /\ workers'[v] = workers[v]
                  /\ Creating(workers[v]) => deliveries'[workers[v].source].reconcile
               \/ /\ workers'[v].at # "request"
                  /\ workers'[v].at # "idle" => workers'[v].source \in SourcesOf(v)
    PROVE  FeedbackInv'
<1>1. ASSUME NEW s \in Feedback!Sources PROVE PostHolds(s)'
  <2>1. PostHolds(s)
    BY DEF FeedbackInv
  <2> QED
    BY <2>1 DEF PostHolds
<1>2. ASSUME NEW v \in Feedback!Services PROVE WorkerHolds(v)'
  <2>1. WorkerHolds(v) /\ workers[v] \in Feedback!WorkerType
    BY DEF FeedbackInv, Feedback!TypeOK
  <2>2. workers[v].source \in Feedback!Sources
    BY <2>1 DEF Feedback!WorkerType
  <2>3. CASE /\ workers'[v] = workers[v]
             /\ Creating(workers[v]) => deliveries'[workers[v].source].reconcile
    BY <2>1, <2>2, <2>3 DEF WorkerHolds
  <2>4. CASE /\ workers'[v].at # "request"
             /\ workers'[v].at # "idle" => workers'[v].source \in SourcesOf(v)
    BY <2>4 DEF WorkerHolds, Creating
  <2> QED
    BY <2>3, <2>4
<1> QED
  BY <1>1, <1>2 DEF FeedbackInv

\* A step that leaves the services alone.
LEMMA PostsMove ==
    ASSUME FeedbackInv, Feedback!TypeOK', UNCHANGED <<comments, provider, workers>>,
           StageHolds',
           \A s \in Feedback!Sources :
               /\ posts[s] # "none" =>
                      /\ posts'[s] # "none"
                      /\ deliveries[s].reconcile => deliveries'[s].reconcile
                      /\ deliveries[s].external => deliveries'[s].external
               /\ CanResume(s)'
    PROVE  FeedbackInv'
<1>1. ASSUME NEW s \in Feedback!Sources
      PROVE  /\ posts[s] # "none" => posts'[s] # "none"
             /\ comments[s] = 1 => deliveries'[s].reconcile \/ deliveries'[s].external
             /\ CanResume(s)'
  BY DEF FeedbackInv, PostHolds
<1>2. ASSUME NEW v \in Feedback!Services, Creating(workers[v])
      PROVE  deliveries'[workers[v].source].reconcile
  <2>1. workers[v].source \in Feedback!Sources
    BY DEF FeedbackInv, Feedback!TypeOK, Feedback!WorkerType
  <2> QED
    BY <1>2, <2>1 DEF FeedbackInv, WorkerHolds, Creating
<1> QED
  BY <1>1, <1>2, NothingOpens

LEMMA FeedbackFields ==
    ASSUME FeedbackInv
    PROVE  /\ provider \in {"github", "forgejo"}
           /\ stage \in {"running", "completed", "adjudicated"}
           /\ posts \in [Feedback!Sources -> Feedback!PostStatus]
           /\ deliveries \in [Feedback!Sources -> Feedback!AttemptType]
           /\ lifecycle \in {"enabled", "retired"} /\ healthy \in BOOLEAN
           /\ verified \in Nat /\ gated \in BOOLEAN
           /\ comments \in [Feedback!Sources -> Nat]
           /\ workers \in [Feedback!Services -> Feedback!WorkerType]
           /\ faults \in 0 .. MaxFaults
           /\ \A s \in Feedback!Sources : PostHolds(s) /\ CanResume(s)
BY DEF FeedbackInv, Feedback!TypeOK, PostHolds

\* What is admitted has not been tried; at Forgejo it has a verdict if the
\* connection is retired.
LEMMA Admitted ==
    ASSUME NEW retired \in BOOLEAN
    PROVE  /\ Feedback!AdmittedPost(retired) \in Feedback!PostStatus \ {"none"}
           /\ Feedback!AdmittedAttempt(retired) \in Feedback!AttemptType
           /\ Feedback!AdmittedAttempt(retired).generation = 0
           /\ (provider = "forgejo" /\ Feedback!AdmittedPost(retired) = "unavailable") =>
                  Feedback!AdmittedAttempt(retired).verdict # "none"
<1>1. Feedback!FreshAttempt \in Feedback!AttemptType /\ Feedback!FreshAttempt.generation = 0
  BY DEF Feedback!FreshAttempt, Feedback!AttemptType, Feedback!Verdicts
<1>2. /\ [Feedback!FreshAttempt EXCEPT !.verdict = "recoverable"] \in Feedback!AttemptType
      /\ [Feedback!FreshAttempt EXCEPT !.verdict = "recoverable"].generation = 0
      /\ [Feedback!FreshAttempt EXCEPT !.verdict = "recoverable"].verdict = "recoverable"
  BY <1>1 DEF Feedback!AttemptType, Feedback!Verdicts
<1> QED
  BY <1>1, <1>2 DEF Feedback!AdmittedPost, Feedback!AdmittedAttempt, Feedback!PostStatus

LEMMA CompletionsKeep ==
    ASSUME FeedbackInv, Feedback!CompleteEvaluation \/ Feedback!CompleteAdjudication
    PROVE  FeedbackInv'
<1> DEFINE retired == lifecycle = "retired"
<1>1. retired \in BOOLEAN
  OBVIOUS
<1> HIDE DEF retired
<1>2. CASE Feedback!CompleteEvaluation
  <2>1. /\ stage = "running" /\ stage' = "completed"
        /\ posts' = [posts EXCEPT !["aggregate"] = Feedback!AdmittedPost(retired)]
        /\ deliveries' = [deliveries EXCEPT
                             !["aggregate"] = Feedback!AdmittedAttempt(retired)]
        /\ UNCHANGED <<provider, lifecycle, healthy, verified, gated, comments, workers, faults>>
    BY <1>2 DEF Feedback!CompleteEvaluation, Feedback!linkVars, retired
  <2>2. Feedback!TypeOK'
    BY <1>1, <2>1, Admitted, FeedbackFields DEF Feedback!TypeOK
  <2>3. posts["aggregate"] = "none"
    BY <2>1 DEF FeedbackInv, StageHolds
  <2>4. ASSUME NEW s \in Feedback!Sources
        PROVE  /\ posts[s] # "none" =>
                      /\ posts'[s] # "none"
                      /\ deliveries[s].reconcile => deliveries'[s].reconcile
                      /\ deliveries[s].external => deliveries'[s].external
               /\ CanResume(s)'
    <3>1. CASE s = "aggregate"
      BY <1>1, <2>1, <2>3, <3>1, Admitted, FeedbackFields DEF CanResume
    <3>2. CASE s # "aggregate"
      BY <2>1, <3>2, FeedbackFields DEF CanResume
    <3> QED
      BY <3>1, <3>2
  <2>5. StageHolds'
    BY <2>1, FeedbackFields DEF FeedbackInv, StageHolds, Feedback!Sources
  <2> QED
    BY <2>1, <2>2, <2>4, <2>5, PostsMove
<1>3. CASE Feedback!CompleteAdjudication
  <2>1. /\ stage = "completed" /\ stage' = "adjudicated"
        /\ posts' = [posts EXCEPT !["followup"] = Feedback!AdmittedPost(retired)]
        /\ UNCHANGED <<provider, deliveries, lifecycle, healthy, verified, gated, comments,
                       workers, faults>>
    BY <1>3 DEF Feedback!CompleteAdjudication, Feedback!linkVars, retired
  <2>2. Feedback!TypeOK'
    BY <1>1, <2>1, Admitted, FeedbackFields DEF Feedback!TypeOK
  <2>3. posts["followup"] = "none"
    BY <2>1 DEF FeedbackInv, StageHolds
  <2>4. ASSUME NEW s \in Feedback!Sources
        PROVE  /\ posts[s] # "none" =>
                      /\ posts'[s] # "none"
                      /\ deliveries[s].reconcile => deliveries'[s].reconcile
                      /\ deliveries[s].external => deliveries'[s].external
               /\ CanResume(s)'
    <3>1. CASE s = "followup"
      BY <1>1, <2>1, <2>3, <3>1, Admitted, FeedbackFields DEF CanResume
    <3>2. CASE s # "followup"
      BY <2>1, <3>2, FeedbackFields DEF CanResume
    <3> QED
      BY <3>1, <3>2
  <2>5. StageHolds'
    BY <2>1 DEF StageHolds
  <2> QED
    BY <2>1, <2>2, <2>4, <2>5, PostsMove
<1> QED
  BY <1>2, <1>3

\* What a new authority takes up again.
LEMMA ResumeMoves ==
    ASSUME FeedbackInv, Feedback!Resume
    PROVE  /\ posts' \in [Feedback!Sources -> Feedback!PostStatus]
           /\ deliveries' \in [Feedback!Sources -> Feedback!AttemptType]
           /\ \A s \in Feedback!Sources :
                /\ posts'[s] = "none" <=> posts[s] = "none"
                /\ deliveries[s].reconcile => deliveries'[s].reconcile
                /\ deliveries[s].external => deliveries'[s].external
                /\ UNCHANGED provider => CanResume(s)'
<1> DEFINE taken == {s \in Feedback!Sources : deliveries[s].verdict = "recoverable"}
<1>1. /\ deliveries' = [s \in Feedback!Sources |->
              IF s \in taken THEN Feedback!Resumed(deliveries[s]) ELSE deliveries[s]]
      /\ posts' = [s \in Feedback!Sources |->
              IF s \in taken /\ posts[s] = "unavailable" THEN "waiting" ELSE posts[s]]
  BY DEF Feedback!Resume
<1>2. ASSUME NEW s \in Feedback!Sources
      PROVE  /\ deliveries'[s] \in Feedback!AttemptType
             /\ posts'[s] \in Feedback!PostStatus
             /\ posts'[s] = "none" <=> posts[s] = "none"
             /\ deliveries[s].reconcile => deliveries'[s].reconcile
             /\ deliveries[s].external => deliveries'[s].external
             /\ UNCHANGED provider => CanResume(s)'
  <2>1. /\ deliveries[s] \in Feedback!AttemptType /\ posts[s] \in Feedback!PostStatus
        /\ CanResume(s)
    BY FeedbackFields
  <2>2. CASE s \in taken
    <3>1. deliveries'[s] = Feedback!Resumed(deliveries[s])
      BY <1>1, <2>2
    <3>2. posts'[s] = IF posts[s] = "unavailable" THEN "waiting" ELSE posts[s]
      BY <1>1, <2>2
    <3>3. posts'[s] \notin {"none", "unavailable"} /\ posts[s] # "none"
      BY <2>1, <2>2, <3>2 DEF CanResume
    <3> QED
      BY <2>1, <3>1, <3>2, <3>3, DeliverySteps DEF CanResume, Feedback!PostStatus
  <2>3. CASE s \notin taken
    BY <1>1, <2>1, <2>3 DEF CanResume
  <2> QED
    BY <2>2, <2>3
<1> QED
  BY <1>1, <1>2

LEMMA FaultCounts ==
    ASSUME FeedbackInv, Feedback!Fault PROVE faults' \in 0 .. MaxFaults
BY DeliveryBounds, FeedbackFields DEF Feedback!Fault

LEMMA VerificationsKeep ==
    ASSUME FeedbackInv, Feedback!Verify \/ Feedback!Reactivate
    PROVE  FeedbackInv'
<1>1. /\ Feedback!Fault /\ verified' = verified + 1
      /\ UNCHANGED <<provider, stage, gated, comments, workers>>
      /\ lifecycle' \in {"enabled", "retired"} /\ healthy' \in BOOLEAN
      /\ Feedback!Resume \/ UNCHANGED <<posts, deliveries>>
  BY FeedbackFields DEF Feedback!Verify, Feedback!Reactivate, Feedback!postVars
<1>2. /\ posts' \in [Feedback!Sources -> Feedback!PostStatus]
      /\ deliveries' \in [Feedback!Sources -> Feedback!AttemptType]
      /\ \A s \in Feedback!Sources :
           /\ posts'[s] = "none" <=> posts[s] = "none"
           /\ deliveries[s].reconcile => deliveries'[s].reconcile
           /\ deliveries[s].external => deliveries'[s].external
           /\ CanResume(s)'
  <2>1. CASE Feedback!Resume
    BY <1>1, <2>1, ResumeMoves
  <2>2. CASE UNCHANGED <<posts, deliveries>>
    BY <1>1, <2>2, FeedbackFields DEF CanResume
  <2> QED
    BY <1>1, <2>1, <2>2
<1>3. Feedback!TypeOK'
  <2>1. verified' \in Nat
    BY <1>1, FeedbackFields
  <2> QED
    BY <1>1, <1>2, <2>1, FaultCounts, FeedbackFields DEF Feedback!TypeOK
<1>4. StageHolds'
  BY <1>1, <1>2 DEF FeedbackInv, Feedback!Sources, StageHolds
<1> QED
  BY <1>1, <1>2, <1>3, <1>4, PostsMove

LEMMA RetirementKeeps == ASSUME FeedbackInv, Feedback!Retire PROVE FeedbackInv'
<1>1. /\ Feedback!Fault /\ lifecycle' = "retired" /\ gated' = FALSE
      /\ posts' = Feedback!RetiredPosts
      /\ deliveries' = [s \in Feedback!Sources |->
             IF s \in Feedback!TakenByRetirement
             THEN Feedback!RetiredAttempt(deliveries[s]) ELSE deliveries[s]]
      /\ UNCHANGED <<provider, stage, healthy, verified, comments, workers>>
  BY DEF Feedback!Retire
<1>2. ASSUME NEW s \in Feedback!Sources
      PROVE  /\ posts'[s] \in Feedback!PostStatus
             /\ posts'[s] = "none" <=> posts[s] = "none"
             /\ deliveries'[s] \in Feedback!AttemptType
             /\ deliveries[s].reconcile => deliveries'[s].reconcile
             /\ deliveries[s].external => deliveries'[s].external
             /\ CanResume(s)'
  <2>1. /\ deliveries[s] \in Feedback!AttemptType /\ posts[s] \in Feedback!PostStatus
        /\ CanResume(s)
    BY FeedbackFields
  <2>2. posts'[s] = IF posts[s] = "waiting" THEN "unavailable" ELSE posts[s]
    BY <1>1 DEF Feedback!RetiredPosts
  <2>3. CASE s \in Feedback!TakenByRetirement
    <3>1. deliveries'[s] = Feedback!RetiredAttempt(deliveries[s])
      BY <1>1, <2>3
    <3>2. posts[s] # "none"
      BY <2>1, <2>3 DEF CanResume, Feedback!TakenByRetirement, Feedback!RetiredPosts
    <3> QED
      BY <2>1, <2>2, <3>1, <3>2, DeliverySteps DEF CanResume, Feedback!PostStatus
  <2>4. CASE s \notin Feedback!TakenByRetirement
    <3>1. deliveries'[s] = deliveries[s]
      BY <1>1, <2>4
    <3>2. /\ s # "followup" => posts[s] # "waiting"
          /\ s = "followup" => deliveries[s].generation = 0
      BY <2>1, <2>4 DEF Feedback!TakenByRetirement, Feedback!RetiredPosts, Feedback!AttemptType
    <3> QED
      BY <1>1, <2>1, <2>2, <3>1, <3>2 DEF CanResume, Feedback!PostStatus
  <2> QED
    BY <2>3, <2>4
<1>3. /\ posts' \in [Feedback!Sources -> Feedback!PostStatus]
      /\ deliveries' \in [Feedback!Sources -> Feedback!AttemptType]
  BY <1>1, <1>2 DEF Feedback!RetiredPosts
<1>4. Feedback!TypeOK'
  BY <1>1, <1>3, FaultCounts, FeedbackFields DEF Feedback!TypeOK
<1>5. StageHolds'
  BY <1>1, <1>2 DEF FeedbackInv, Feedback!Sources, StageHolds
<1> QED
  BY <1>1, <1>2, <1>4, <1>5, PostsMove

LEMMA TimeKeeps == ASSUME FeedbackInv, Feedback!TimePasses PROVE FeedbackInv'
<1>1. CASE gated' = FALSE /\ UNCHANGED <<provider, stage, posts, deliveries, lifecycle,
               healthy, verified, comments, workers, faults>>
  <2>1. Feedback!TypeOK'
    BY <1>1, FeedbackFields DEF Feedback!TypeOK
  <2> QED
    BY <1>1, <2>1, PostsMove, FeedbackFields DEF CanResume, FeedbackInv, StageHolds
<1>2. ASSUME NEW s \in Feedback!Sources,
             deliveries' = [deliveries EXCEPT ![s].due = TRUE],
             UNCHANGED <<provider, stage, posts, lifecycle, healthy, verified, gated,
                         comments, workers, faults>>
      PROVE  FeedbackInv'
  <2>1. ASSUME NEW q \in Feedback!Sources
        PROVE  /\ deliveries'[q] \in Feedback!AttemptType
               /\ deliveries'[q].reconcile = deliveries[q].reconcile
               /\ deliveries'[q].external = deliveries[q].external
               /\ deliveries'[q].verdict = deliveries[q].verdict
               /\ deliveries'[q].generation = deliveries[q].generation
    <3>1. deliveries[q] \in Feedback!AttemptType
      BY FeedbackFields
    <3>2. deliveries'[q] = deliveries[q] \/ deliveries'[q] = [deliveries[q] EXCEPT !.due = TRUE]
      BY <1>2, FeedbackFields
    <3> QED
      BY <3>1, <3>2 DEF Feedback!AttemptType
  <2>2. deliveries' \in [Feedback!Sources -> Feedback!AttemptType]
    BY <1>2, <2>1, FeedbackFields
  <2>3. Feedback!TypeOK'
    BY <1>2, <2>2, FeedbackFields DEF Feedback!TypeOK
  <2>4. \A q \in Feedback!Sources : CanResume(q)'
    BY <1>2, <2>1, FeedbackFields DEF CanResume
  <2> QED
    BY <1>2, <2>1, <2>3, <2>4, PostsMove DEF FeedbackInv, StageHolds
<1> QED
  BY <1>1, <1>2 DEF Feedback!TimePasses, Feedback!postVars, Feedback!linkVars

\* The rows that a round inserts before its deliveries.
LEMMA MaterializeMoves ==
    ASSUME FeedbackInv, Feedback!Materialize
    PROVE  /\ posts' \in [Feedback!Sources -> Feedback!PostStatus]
           /\ deliveries' \in [Feedback!Sources -> Feedback!AttemptType]
           /\ \A s \in Feedback!Sources :
                /\ posts[s] # "none" => posts'[s] = posts[s] /\ deliveries'[s] = deliveries[s]
                /\ UNCHANGED provider => CanResume(s)'
           /\ posts'["aggregate"] = posts["aggregate"]
           /\ posts'["followup"] = posts["followup"]
<1> DEFINE retired == posts["aggregate"] = "unavailable"
<1>1. retired \in BOOLEAN
  OBVIOUS
<1>2. \/ UNCHANGED <<posts, deliveries>>
      \/ /\ posts["inline"] = "none"
         /\ posts' = [posts EXCEPT !["inline"] = Feedback!AdmittedPost(retired)]
         /\ deliveries' = [deliveries EXCEPT !["inline"] = Feedback!AdmittedAttempt(retired)]
  BY DEF Feedback!Materialize, Feedback!postVars
<1> HIDE DEF retired
<1>3. CASE UNCHANGED <<posts, deliveries>>
  BY <1>3, FeedbackFields DEF CanResume
<1>4. CASE /\ posts["inline"] = "none"
           /\ posts' = [posts EXCEPT !["inline"] = Feedback!AdmittedPost(retired)]
           /\ deliveries' = [deliveries EXCEPT !["inline"] = Feedback!AdmittedAttempt(retired)]
  <2>1. /\ posts' \in [Feedback!Sources -> Feedback!PostStatus]
        /\ deliveries' \in [Feedback!Sources -> Feedback!AttemptType]
    BY <1>1, <1>4, Admitted, FeedbackFields
  <2>2. ASSUME NEW s \in Feedback!Sources
        PROVE  /\ posts[s] # "none" => posts'[s] = posts[s] /\ deliveries'[s] = deliveries[s]
               /\ UNCHANGED provider => CanResume(s)'
    <3>1. CASE s = "inline"
      BY <1>1, <1>4, <3>1, Admitted, FeedbackFields DEF CanResume
    <3>2. CASE s # "inline"
      BY <1>4, <3>2, FeedbackFields DEF CanResume
    <3> QED
      BY <3>1, <3>2
  <2>3. /\ posts'["aggregate"] = posts["aggregate"]
        /\ posts'["followup"] = posts["followup"]
    BY <1>4, FeedbackFields DEF Feedback!Sources
  <2> QED
    BY <2>1, <2>2, <2>3
<1> QED
  BY <1>2, <1>3, <1>4

\* What a service goes on with is no request and one of its sources.
LEMMA AfterIsNoRequest ==
    ASSUME NEW v \in Feedback!Services, NEW s \in SourcesOf(v)
    PROVE  /\ Feedback!After(s) \in Feedback!WorkerType
           /\ Feedback!After(s).at # "request"
           /\ Feedback!After(s).at # "idle" => Feedback!After(s).source \in SourcesOf(v)
BY DEF Feedback!After, Feedback!Idle, Feedback!WorkerType, Feedback!Sources,
       Feedback!Operations, SourcesOf, Feedback!Services

\* A round begins with the first source of its service.
LEMMA RoundIsNoRequest ==
    ASSUME NEW v \in Feedback!Services
    PROVE  LET w == [Feedback!Idle EXCEPT !.at = "round", !.source = Feedback!RoundOf(v)[1]]
           IN  /\ w \in Feedback!WorkerType /\ w.at = "round"
               /\ w.source \in SourcesOf(v)
<1>1. Feedback!RoundOf(v)[1] \in SourcesOf(v) /\ SourcesOf(v) \subseteq Feedback!Sources
  BY DEF Feedback!RoundOf, SourcesOf, Feedback!Sources
<1>2. /\ Feedback!Idle \in Feedback!WorkerType
      /\ "round" \in {"idle", "round", "request"}
  BY DEF Feedback!Idle, Feedback!WorkerType, Feedback!Sources, Feedback!Operations
<1> QED
  BY <1>1, <1>2 DEF Feedback!WorkerType

LEMMA StartRoundKeeps ==
    ASSUME FeedbackInv, NEW v \in Feedback!Services, Feedback!StartRound(v)
    PROVE  FeedbackInv'
<1> DEFINE first == [Feedback!Idle EXCEPT !.at = "round", !.source = Feedback!RoundOf(v)[1]]
<1>1. /\ workers[v].at = "idle"
      /\ Feedback!Materialize \/ UNCHANGED <<posts, deliveries>>
      /\ workers' = workers \/ workers' = [workers EXCEPT ![v] = first]
      /\ UNCHANGED <<provider, stage, lifecycle, healthy, verified, gated, comments, faults>>
  BY DEF Feedback!StartRound, Feedback!postVars, Feedback!linkVars
<1>2. first \in Feedback!WorkerType /\ first.at = "round" /\ first.source \in SourcesOf(v)
  BY RoundIsNoRequest
<1> HIDE DEF first
<1>3. /\ posts' \in [Feedback!Sources -> Feedback!PostStatus]
      /\ deliveries' \in [Feedback!Sources -> Feedback!AttemptType]
      /\ \A s \in Feedback!Sources :
           /\ posts[s] # "none" => posts'[s] = posts[s] /\ deliveries'[s] = deliveries[s]
           /\ CanResume(s)'
      /\ posts'["aggregate"] = posts["aggregate"]
      /\ posts'["followup"] = posts["followup"]
  <2>1. CASE Feedback!Materialize
    BY <1>1, <2>1, MaterializeMoves
  <2>2. CASE UNCHANGED <<posts, deliveries>>
    BY <1>1, <2>2, FeedbackFields DEF CanResume
  <2> QED
    BY <1>1, <2>1, <2>2
<1>4. Feedback!TypeOK'
  <2>1. workers' \in [Feedback!Services -> Feedback!WorkerType]
    BY <1>1, <1>2, FeedbackFields
  <2> QED
    BY <1>1, <1>3, <2>1, FeedbackFields DEF Feedback!TypeOK
<1>5. StageHolds'
  BY <1>1, <1>3 DEF FeedbackInv, StageHolds
<1>6. ASSUME NEW s \in Feedback!Sources
      PROVE  /\ posts[s] # "none" => posts'[s] # "none"
             /\ comments[s] = 1 => deliveries'[s].reconcile \/ deliveries'[s].external
             /\ CanResume(s)'
  BY <1>3, FeedbackFields DEF PostHolds
<1>7. ASSUME NEW w \in Feedback!Services
      PROVE  \/ /\ workers'[w] = workers[w]
                /\ Creating(workers[w]) => deliveries'[workers[w].source].reconcile
             \/ /\ workers'[w].at # "request"
                /\ workers'[w].at # "idle" => workers'[w].source \in SourcesOf(w)
  <2>1. CASE workers'[w] = workers[w]
    <3>1. workers[w].source \in Feedback!Sources
      BY FeedbackFields DEF Feedback!WorkerType
    <3>2. WorkerHolds(w)
      BY DEF FeedbackInv
    <3> QED
      BY <1>3, <2>1, <3>1, <3>2 DEF WorkerHolds, Creating
  <2>2. CASE workers'[w] # workers[w]
    <3>1. w = v /\ workers'[w] = first
      BY <1>1, <2>2, FeedbackFields
    <3> QED
      BY <1>2, <3>1
  <2> QED
    BY <2>1, <2>2
<1> QED
  BY <1>1, <1>4, <1>5, <1>6, <1>7, NothingOpens

-----------------------------------------------------------------------------
\* A success that comes too late changes nothing; any other one makes the
\* comment known.
LEMMA SettleMoves ==
    ASSUME FeedbackInv, NEW s \in Feedback!Sources, NEW generation \in Nat,
           Feedback!Settle(s, generation)
    PROVE  /\ posts' \in [Feedback!Sources -> Feedback!PostStatus]
           /\ deliveries' \in [Feedback!Sources -> Feedback!AttemptType]
           /\ \A q \in Feedback!Sources :
                /\ posts'[q] = "none" <=> posts[q] = "none"
                /\ q # s => deliveries'[q] = deliveries[q]
                /\ deliveries[q].reconcile \/ deliveries[q].external =>
                       deliveries'[q].reconcile \/ deliveries'[q].external
                /\ UNCHANGED provider => CanResume(q)'
<1>1. CASE UNCHANGED <<posts, deliveries>>
  BY <1>1, FeedbackFields DEF CanResume
<1>2. CASE /\ deliveries' = [deliveries EXCEPT ![s] = Feedback!Succeeded(deliveries[s])]
           /\ posts' = [posts EXCEPT ![s] = IF posts[s] = "waiting" THEN "succeeded"
                                                                   ELSE posts[s]]
  <2>1. ASSUME NEW q \in Feedback!Sources
        PROVE  /\ deliveries'[q] \in Feedback!AttemptType
               /\ posts'[q] \in Feedback!PostStatus
               /\ posts'[q] = "none" <=> posts[q] = "none"
               /\ q # s => deliveries'[q] = deliveries[q]
               /\ deliveries[q].reconcile \/ deliveries[q].external =>
                      deliveries'[q].reconcile \/ deliveries'[q].external
               /\ UNCHANGED provider => CanResume(q)'
    <3>1. /\ deliveries[q] \in Feedback!AttemptType /\ posts[q] \in Feedback!PostStatus
          /\ CanResume(q)
      BY FeedbackFields
    <3>2. CASE q = s
      <4>1. /\ deliveries'[q] = Feedback!Succeeded(deliveries[q])
            /\ posts'[q] = IF posts[q] = "waiting" THEN "succeeded" ELSE posts[q]
        BY <1>2, <3>2, FeedbackFields
      <4> QED
        BY <3>1, <3>2, <4>1, DeliverySteps DEF CanResume, Feedback!PostStatus
    <3>3. CASE q # s
      BY <1>2, <3>1, <3>3, FeedbackFields DEF CanResume
    <3> QED
      BY <3>2, <3>3
  <2>2. /\ posts' \in [Feedback!Sources -> Feedback!PostStatus]
        /\ deliveries' \in [Feedback!Sources -> Feedback!AttemptType]
    BY <1>2, <2>1, FeedbackFields
  <2> QED
    BY <2>1, <2>2
<1> QED
  BY <1>1, <1>2 DEF Feedback!Settle, Feedback!postVars

\* A delivery that ends, well or not at all.
LEMMA SettledKeeps ==
    ASSUME FeedbackInv, NEW v \in Feedback!Services, workers[v].at # "idle",
           NEW generation \in Nat,
           Feedback!Settle(workers[v].source, generation) \/ UNCHANGED <<posts, deliveries>>,
           workers' = [workers EXCEPT ![v] = Feedback!After(workers[v].source)],
           UNCHANGED <<provider, stage, lifecycle, healthy, verified, gated, comments, faults>>
    PROVE  FeedbackInv'
<1> DEFINE s == workers[v].source
<1>1. s \in Feedback!Sources /\ s \in SourcesOf(v)
  BY FeedbackFields DEF Feedback!WorkerType, FeedbackInv, WorkerHolds
<1>2. /\ Feedback!After(s) \in Feedback!WorkerType
      /\ Feedback!After(s).at # "request"
      /\ Feedback!After(s).at # "idle" => Feedback!After(s).source \in SourcesOf(v)
  BY <1>1, AfterIsNoRequest
<1>3. workers' = [workers EXCEPT ![v] = Feedback!After(s)]
  OBVIOUS
<1>4. Feedback!Settle(s, generation) \/ UNCHANGED <<posts, deliveries>>
  OBVIOUS
<1>5. ASSUME NEW w \in Feedback!Services, w # v, workers[w].at # "idle"
      PROVE  workers[w].source # s
  BY <1>5, SourcesApart
<1> HIDE DEF s
<1>6. /\ posts' \in [Feedback!Sources -> Feedback!PostStatus]
      /\ deliveries' \in [Feedback!Sources -> Feedback!AttemptType]
      /\ \A q \in Feedback!Sources :
           /\ posts'[q] = "none" <=> posts[q] = "none"
           /\ q # s => deliveries'[q] = deliveries[q]
           /\ deliveries[q].reconcile \/ deliveries[q].external =>
                  deliveries'[q].reconcile \/ deliveries'[q].external
           /\ CanResume(q)'
  <2>1. CASE Feedback!Settle(s, generation)
    BY <1>1, <2>1, SettleMoves
  <2>2. CASE UNCHANGED <<posts, deliveries>>
    BY <2>2, FeedbackFields DEF CanResume
  <2> QED
    BY <1>4, <2>1, <2>2
<1>7. Feedback!TypeOK'
  <2>1. workers' \in [Feedback!Services -> Feedback!WorkerType]
    BY <1>2, <1>3, FeedbackFields
  <2> QED
    BY <1>6, <2>1, FeedbackFields DEF Feedback!TypeOK
<1>8. StageHolds'
  BY <1>6 DEF FeedbackInv, Feedback!Sources, StageHolds
<1>9. ASSUME NEW q \in Feedback!Sources
      PROVE  /\ posts[q] # "none" => posts'[q] # "none"
             /\ comments[q] = 1 => deliveries'[q].reconcile \/ deliveries'[q].external
             /\ CanResume(q)'
  BY <1>6, FeedbackFields DEF PostHolds
<1>10. ASSUME NEW w \in Feedback!Services
       PROVE  \/ /\ workers'[w] = workers[w]
                 /\ Creating(workers[w]) => deliveries'[workers[w].source].reconcile
              \/ /\ workers'[w].at # "request"
                 /\ workers'[w].at # "idle" => workers'[w].source \in SourcesOf(w)
  <2>1. CASE w = v
    BY <1>2, <1>3, <2>1, FeedbackFields
  <2>2. CASE w # v
    <3>1. workers'[w] = workers[w] /\ workers[w].source \in Feedback!Sources
      BY <1>3, <2>2, FeedbackFields DEF Feedback!WorkerType
    <3>2. WorkerHolds(w)
      BY DEF FeedbackInv
    <3> QED
      BY <1>5, <1>6, <2>2, <3>1, <3>2 DEF WorkerHolds, Creating
  <2> QED
    BY <2>1, <2>2
<1> QED
  BY <1>7, <1>8, <1>9, <1>10, NothingOpens

LEMMA PassKeeps ==
    ASSUME FeedbackInv, NEW v \in Feedback!Services, Feedback!Pass(v) PROVE FeedbackInv'
<1> DEFINE generation == deliveries[workers[v].source].generation
<1>1. generation \in Nat
  BY FeedbackFields DEF Feedback!WorkerType, Feedback!AttemptType
<1>2. /\ workers[v].at # "idle"
      /\ Feedback!Settle(workers[v].source, generation) \/ UNCHANGED <<posts, deliveries>>
      /\ workers' = [workers EXCEPT ![v] = Feedback!After(workers[v].source)]
      /\ UNCHANGED <<provider, stage, lifecycle, healthy, verified, gated, comments, faults>>
  BY DEF Feedback!Pass, Feedback!postVars, Feedback!linkVars
<1> HIDE DEF generation
<1> QED
  BY <1>1, <1>2, SettledKeeps

LEMMA AnsweredKeeps ==
    ASSUME FeedbackInv, NEW v \in Feedback!Services, Feedback!Answered(v) PROVE FeedbackInv'
<1> DEFINE generation == workers[v].generation
<1>1. generation \in Nat
  BY FeedbackFields DEF Feedback!WorkerType
<1>2. /\ workers[v].at # "idle"
      /\ Feedback!Settle(workers[v].source, generation)
      /\ workers' = [workers EXCEPT ![v] = Feedback!After(workers[v].source)]
      /\ UNCHANGED <<provider, stage, lifecycle, healthy, verified, gated, comments, faults>>
  BY DEF Feedback!Answered, Feedback!linkVars
<1> HIDE DEF generation
<1> QED
  BY <1>1, <1>2, SettledKeeps

-----------------------------------------------------------------------------
\* A request is opened: to create only what was not written.
LEMMA OpenKeeps ==
    ASSUME FeedbackInv, NEW v \in Feedback!Services, workers[v].at # "idle",
           posts[workers[v].source] \notin {"none", "unavailable"},
           NEW d \in Feedback!AttemptType, NEW operation \in Feedback!Operations,
           comments[workers[v].source] = 1 => d.reconcile \/ d.external,
           operation = "create" => comments[workers[v].source] = 0,
           Feedback!Open(v, workers[v].source, d, operation),
           UNCHANGED <<provider, stage, posts, lifecycle, healthy, verified, gated, comments,
                       faults>>
    PROVE  FeedbackInv'
<1> DEFINE s == workers[v].source
           e == Feedback!Begun(d, verified, operation)
           opened == [at |-> "request", source |-> s, operation |-> operation,
                      generation |-> d.generation, wrote |-> FALSE]
<1>1. s \in Feedback!Sources /\ s \in SourcesOf(v)
  BY FeedbackFields DEF Feedback!WorkerType, FeedbackInv, WorkerHolds
<1>2. /\ opened \in Feedback!WorkerType
      /\ opened.at = "request" /\ opened.source = s /\ opened.operation = operation
      /\ opened.wrote = FALSE
  BY <1>1 DEF Feedback!WorkerType, Feedback!AttemptType
<1>3. /\ e \in Feedback!AttemptType
      /\ e.reconcile = (d.reconcile \/ operation = "create")
      /\ e.external = d.external
  <2>1. verified \in Nat
    BY FeedbackFields
  <2> QED
    BY <2>1, BegunStep
<1>4. /\ deliveries' = [deliveries EXCEPT ![s] = e]
      /\ workers' = [workers EXCEPT ![v] = opened]
  BY DEF Feedback!Open
<1>5. ASSUME NEW w \in Feedback!Services, w # v, workers[w].at # "idle"
      PROVE  workers[w].source # s
  BY <1>5, SourcesApart
<1>6. /\ posts[s] \notin {"none", "unavailable"}
      /\ comments[s] = 1 => d.reconcile \/ d.external
      /\ operation = "create" => comments[s] = 0
  OBVIOUS
<1> HIDE DEF s, e, opened
<1>7. Feedback!TypeOK'
  <2>1. /\ deliveries' \in [Feedback!Sources -> Feedback!AttemptType]
        /\ workers' \in [Feedback!Services -> Feedback!WorkerType]
    BY <1>1, <1>2, <1>3, <1>4, FeedbackFields
  <2> QED
    BY <2>1, FeedbackFields DEF Feedback!TypeOK
<1>8. ASSUME NEW q \in Feedback!Sources PROVE PostHolds(q)'
  <2>1. PostHolds(q) /\ CanResume(q)
    BY FeedbackFields
  <2>2. CASE q = s
    <3>1. deliveries'[q] = e
      BY <1>4, <2>2, FeedbackFields
    <3> QED
      BY <1>3, <1>6, <2>1, <2>2, <3>1 DEF PostHolds, CanResume
  <2>3. CASE q # s
    BY <1>4, <2>1, <2>3, FeedbackFields DEF PostHolds, CanResume
  <2> QED
    BY <2>2, <2>3
<1>9. ASSUME NEW w \in Feedback!Services PROVE WorkerHolds(w)'
  <2>1. CASE w = v
    <3>1. workers'[w] = opened /\ deliveries'[s] = e
      BY <1>1, <1>4, <2>1, FeedbackFields
    <3> QED
      BY <1>1, <1>2, <1>3, <1>6, <2>1, <3>1 DEF WorkerHolds, Creating
  <2>2. CASE w # v
    <3>1. workers'[w] = workers[w] /\ workers[w].source \in Feedback!Sources
      BY <1>4, <2>2, FeedbackFields DEF Feedback!WorkerType
    <3>2. WorkerHolds(w)
      BY DEF FeedbackInv
    <3>3. workers[w].at # "idle" =>
              deliveries'[workers[w].source] = deliveries[workers[w].source]
      BY <1>4, <1>5, <2>2, <3>1, FeedbackFields
    <3> QED
      BY <3>1, <3>2, <3>3 DEF WorkerHolds, Creating
  <2> QED
    BY <2>1, <2>2
<1> QED
  BY <1>7, <1>8, <1>9 DEF FeedbackInv, StageHolds

LEMMA BeginKeeps ==
    ASSUME FeedbackInv, NEW v \in Feedback!Services, Feedback!Begin(v) PROVE FeedbackInv'
<1> DEFINE s == workers[v].source
           operation == IF deliveries[s].reconcile THEN "reconcile" ELSE "create"
<1>1. /\ s \in Feedback!Sources /\ deliveries[s] \in Feedback!AttemptType /\ PostHolds(s)
      /\ comments[s] \in {0, 1}
  BY FeedbackFields DEF Feedback!WorkerType, PostHolds
<1>2. /\ workers[v].at # "idle" /\ posts[s] = "waiting" /\ ~deliveries[s].external
      /\ Feedback!Open(v, s, deliveries[s], operation)
      /\ UNCHANGED <<provider, stage, posts, lifecycle, healthy, verified, gated, comments,
                     faults>>
  BY DEF Feedback!Begin, Feedback!linkVars
<1>3. operation \in Feedback!Operations
  BY DEF Feedback!Operations
<1>4. operation = "create" => comments[s] = 0
  BY <1>1, <1>2 DEF PostHolds
<1>5. comments[s] = 1 => deliveries[s].reconcile \/ deliveries[s].external
  BY <1>1 DEF PostHolds
<1> HIDE DEF operation
<1> QED
  BY <1>1, <1>2, <1>3, <1>4, <1>5, OpenKeeps

\* The write of a creation is the first of its source.
LEMMA WriteKeeps ==
    ASSUME FeedbackInv, NEW v \in Feedback!Services, Feedback!Write(v) PROVE FeedbackInv'
<1> DEFINE s == workers[v].source
           w == [workers[v] EXCEPT !.wrote = TRUE]
<1>1. /\ Creating(workers[v]) /\ workers[v].at # "idle" /\ ~workers[v].wrote
      /\ workers' = [workers EXCEPT ![v].wrote = TRUE]
      /\ comments' = [comments EXCEPT ![s] = comments[s] + 1]
      /\ UNCHANGED <<provider, stage, posts, deliveries, lifecycle, healthy, verified, gated,
                     faults>>
  BY DEF Feedback!Write, Creating, Feedback!postVars, Feedback!linkVars
<1>2. workers' = [workers EXCEPT ![v] = w]
  BY <1>1
<1>3. /\ s \in Feedback!Sources /\ s \in SourcesOf(v) /\ posts[s] # "none"
      /\ deliveries[s].reconcile /\ comments[s] = 0
  BY <1>1, FeedbackFields DEF Feedback!WorkerType, FeedbackInv, WorkerHolds, Creating
<1>4. /\ w \in Feedback!WorkerType /\ w.at = workers[v].at /\ w.source = s
      /\ w.operation = workers[v].operation /\ w.wrote = TRUE
  BY FeedbackFields DEF Feedback!WorkerType
<1>5. ASSUME NEW u \in Feedback!Services, u # v, workers[u].at # "idle"
      PROVE  workers[u].source # s
  BY <1>1, <1>5, SourcesApart
<1>6. comments' = [comments EXCEPT ![s] = 1]
  BY <1>1, <1>3
<1> HIDE DEF s, w
<1>7. Feedback!TypeOK'
  <2>1. /\ workers' \in [Feedback!Services -> Feedback!WorkerType]
        /\ comments' \in [Feedback!Sources -> Nat]
    BY <1>2, <1>4, <1>6, FeedbackFields
  <2> QED
    BY <1>1, <2>1, FeedbackFields DEF Feedback!TypeOK
<1>8. ASSUME NEW q \in Feedback!Sources PROVE PostHolds(q)'
  <2>1. PostHolds(q) /\ CanResume(q)
    BY FeedbackFields
  <2>2. comments'[q] = IF q = s THEN 1 ELSE comments[q]
    BY <1>6, FeedbackFields
  <2> QED
    BY <1>1, <1>3, <2>1, <2>2 DEF PostHolds, CanResume
<1>9. ASSUME NEW u \in Feedback!Services PROVE WorkerHolds(u)'
  <2>1. CASE u = v
    <3>1. workers'[u] = w /\ comments'[s] = 1
      BY <1>2, <1>3, <1>6, <2>1, FeedbackFields
    <3> QED
      BY <1>1, <1>3, <1>4, <2>1, <3>1 DEF WorkerHolds, Creating
  <2>2. CASE u # v
    <3>1. workers'[u] = workers[u] /\ workers[u].source \in Feedback!Sources
      BY <1>2, <2>2, FeedbackFields DEF Feedback!WorkerType
    <3>2. WorkerHolds(u)
      BY DEF FeedbackInv
    <3>3. workers[u].at # "idle" => comments'[workers[u].source] = comments[workers[u].source]
      BY <1>5, <1>6, <2>2, <3>1, FeedbackFields
    <3> QED
      BY <1>1, <3>1, <3>2, <3>3 DEF WorkerHolds, Creating
  <2> QED
    BY <2>1, <2>2
<1> QED
  BY <1>1, <1>7, <1>8, <1>9 DEF FeedbackInv, StageHolds

\* The absence that a reconciliation has found lets the creation begin.
LEMMA AbsentKeeps ==
    ASSUME FeedbackInv, NEW v \in Feedback!Services, Feedback!Absent(v) PROVE FeedbackInv'
<1> DEFINE s == workers[v].source
           d == Feedback!ProvenAbsent(deliveries[s])
<1>1. /\ workers[v].at = "request" /\ comments[s] = 0
      /\ UNCHANGED <<provider, stage, posts, lifecycle, healthy, verified, gated, comments,
                     faults>>
      /\ \/ /\ UNCHANGED deliveries
            /\ workers' = [workers EXCEPT ![v] = Feedback!After(s)]
         \/ /\ Feedback!Held(deliveries[s], workers[v].generation, verified)
            /\ Feedback!Open(v, s, d, "create")
         \/ /\ deliveries' = [deliveries EXCEPT ![s] = d]
            /\ workers' = [workers EXCEPT ![v] = Feedback!After(s)]
  BY DEF Feedback!Absent, Feedback!linkVars
<1>2. /\ s \in Feedback!Sources /\ s \in SourcesOf(v) /\ posts[s] # "none"
      /\ deliveries[s] \in Feedback!AttemptType
  BY <1>1, FeedbackFields DEF Feedback!WorkerType, FeedbackInv, WorkerHolds
<1>3. /\ d \in Feedback!AttemptType /\ d.external = deliveries[s].external
      /\ d.verdict = deliveries[s].verdict /\ d.generation = deliveries[s].generation
  BY <1>2, DeliverySteps
<1>4. ASSUME NEW w \in Feedback!Services, w # v, workers[w].at # "idle"
      PROVE  workers[w].source # s
  BY <1>1, <1>4, SourcesApart
<1> HIDE DEF d
<1>5. CASE /\ Feedback!Held(deliveries[s], workers[v].generation, verified)
           /\ Feedback!Open(v, s, d, "create")
  <2>1. "create" \in Feedback!Operations /\ workers[v].generation \in Nat
    BY FeedbackFields DEF Feedback!Operations, Feedback!WorkerType
  <2>2. deliveries[s].verdict = "none" /\ deliveries[s].generation # 0
    BY <1>5, <2>1 DEF Feedback!Held
  <2>3. posts[s] \notin {"none", "unavailable"}
    BY <1>2, <2>2, FeedbackFields DEF CanResume
  <2> QED
    BY <1>1, <1>2, <1>3, <1>5, <2>1, <2>3, OpenKeeps
<1>6. CASE UNCHANGED deliveries /\ workers' = [workers EXCEPT ![v] = Feedback!After(s)]
  <2>1. UNCHANGED <<posts, deliveries>> /\ workers[v].at # "idle" /\ 0 \in Nat
    BY <1>1, <1>6
  <2> QED
    BY <1>1, <1>6, <2>1, SettledKeeps
<1>7. CASE /\ deliveries' = [deliveries EXCEPT ![s] = d]
           /\ workers' = [workers EXCEPT ![v] = Feedback!After(s)]
  <2>1. /\ Feedback!After(s) \in Feedback!WorkerType
        /\ Feedback!After(s).at # "request"
        /\ Feedback!After(s).at # "idle" => Feedback!After(s).source \in SourcesOf(v)
    BY <1>2, AfterIsNoRequest
  <2> HIDE DEF s
  <2>2. Feedback!TypeOK'
    <3>1. /\ workers' \in [Feedback!Services -> Feedback!WorkerType]
          /\ deliveries' \in [Feedback!Sources -> Feedback!AttemptType]
      BY <1>2, <1>3, <1>7, <2>1, FeedbackFields
    <3> QED
      BY <1>1, <3>1, FeedbackFields DEF Feedback!TypeOK
  <2>3. StageHolds'
    BY <1>1 DEF FeedbackInv, StageHolds
  <2>4. ASSUME NEW q \in Feedback!Sources
        PROVE  /\ posts[q] # "none" => posts'[q] # "none"
               /\ comments[q] = 1 => deliveries'[q].reconcile \/ deliveries'[q].external
               /\ CanResume(q)'
    <3>1. PostHolds(q) /\ CanResume(q)
      BY FeedbackFields
    <3>2. deliveries'[q] = IF q = s THEN d ELSE deliveries[q]
      BY <1>7, FeedbackFields
    <3> QED
      BY <1>1, <1>3, <3>1, <3>2 DEF PostHolds, CanResume
  <2>5. ASSUME NEW w \in Feedback!Services
        PROVE  \/ /\ workers'[w] = workers[w]
                  /\ Creating(workers[w]) => deliveries'[workers[w].source].reconcile
               \/ /\ workers'[w].at # "request"
                  /\ workers'[w].at # "idle" => workers'[w].source \in SourcesOf(w)
    <3>1. CASE w = v
      BY <1>7, <2>1, <3>1, FeedbackFields
    <3>2. CASE w # v
      <4>1. workers'[w] = workers[w] /\ workers[w].source \in Feedback!Sources
        BY <1>7, <3>2, FeedbackFields DEF Feedback!WorkerType
      <4>2. WorkerHolds(w)
        BY DEF FeedbackInv
      <4>3. workers[w].at # "idle" =>
                deliveries'[workers[w].source] = deliveries[workers[w].source]
        BY <1>4, <1>7, <3>2, <4>1, FeedbackFields
      <4> QED
        BY <4>1, <4>2, <4>3 DEF WorkerHolds, Creating
    <3> QED
      BY <3>1, <3>2
  <2> QED
    BY <1>1, <2>2, <2>3, <2>4, <2>5, NothingOpens
<1> QED
  BY <1>1, <1>5, <1>6, <1>7

\* A failure that still holds its attempt; only a definitive one gives up.
LEMMA FailMoves ==
    ASSUME FeedbackInv, NEW s \in Feedback!Sources, NEW generation \in Nat,
           NEW failure \in Feedback!Failures, NEW operation \in Feedback!Operations,
           Feedback!Fail(s, generation, failure, operation)
    PROVE  /\ posts' \in [Feedback!Sources -> Feedback!PostStatus]
           /\ deliveries' \in [Feedback!Sources -> Feedback!AttemptType]
           /\ healthy' \in BOOLEAN /\ gated' \in BOOLEAN /\ verified' \in Nat
           /\ \A q \in Feedback!Sources :
                /\ posts'[q] = "none" <=> posts[q] = "none"
                /\ q # s => deliveries'[q] = deliveries[q]
                /\ deliveries[q].reconcile => deliveries'[q].reconcile
                /\ deliveries[q].external => deliveries'[q].external
                /\ UNCHANGED provider => CanResume(q)'
<1>1. CASE ~Feedback!Held(deliveries[s], generation, verified)
  <2>1. UNCHANGED <<posts, deliveries, healthy, gated, verified>>
    BY <1>1 DEF Feedback!Fail, Feedback!postVars
  <2> QED
    BY <2>1, FeedbackFields DEF CanResume
<1>2. CASE Feedback!Held(deliveries[s], generation, verified)
  <2>1. /\ deliveries' = [deliveries EXCEPT
                             ![s] = Feedback!Failed(deliveries[s], failure, operation)]
        /\ posts' = [posts EXCEPT ![s] =
               IF Feedback!VerdictOf(failure) # "none" /\ posts[s] = "waiting"
               THEN "unavailable" ELSE posts[s]]
        /\ healthy' = (healthy /\ failure \notin {"authority", "repository"})
        /\ gated' = (gated \/ failure = "limited")
        /\ verified' = IF failure = "authority" THEN verified + 1 ELSE verified
    BY <1>2 DEF Feedback!Fail
  <2>2. deliveries[s].verdict = "none" /\ posts[s] \notin {"none", "unavailable"}
    <3>1. deliveries[s].verdict = "none" /\ deliveries[s].generation # 0
      BY <1>2 DEF Feedback!Held
    <3> QED
      BY <3>1, FeedbackFields DEF CanResume
  <2>3. healthy' \in BOOLEAN /\ gated' \in BOOLEAN
    BY <2>1
  <2>4. verified' \in Nat
    BY <2>1, FeedbackFields
  <2>5. ASSUME NEW q \in Feedback!Sources
        PROVE  /\ deliveries'[q] \in Feedback!AttemptType
               /\ posts'[q] \in Feedback!PostStatus
               /\ posts'[q] = "none" <=> posts[q] = "none"
               /\ q # s => deliveries'[q] = deliveries[q]
               /\ deliveries[q].reconcile => deliveries'[q].reconcile
               /\ deliveries[q].external => deliveries'[q].external
               /\ UNCHANGED provider => CanResume(q)'
    <3>1. /\ deliveries[q] \in Feedback!AttemptType /\ posts[q] \in Feedback!PostStatus
          /\ CanResume(q)
      BY FeedbackFields
    <3>2. CASE q = s
      <4>1. /\ deliveries'[q] = Feedback!Failed(deliveries[q], failure, operation)
            /\ posts'[q] = IF Feedback!VerdictOf(failure) # "none" /\ posts[q] = "waiting"
                           THEN "unavailable" ELSE posts[q]
        BY <2>1, <3>2, FeedbackFields
      <4>2. /\ deliveries'[q] \in Feedback!AttemptType
            /\ deliveries[q].reconcile => deliveries'[q].reconcile
            /\ deliveries'[q].external = deliveries[q].external
            /\ deliveries'[q].verdict = Feedback!VerdictOf(failure)
        <5> DEFINE d == deliveries[q]
        <5>1. d \in Feedback!AttemptType
          BY <3>1
        <5> HIDE DEF d
        <5>2. /\ Feedback!Failed(d, failure, operation) \in Feedback!AttemptType
              /\ d.reconcile => Feedback!Failed(d, failure, operation).reconcile
              /\ Feedback!Failed(d, failure, operation).external = d.external
              /\ Feedback!Failed(d, failure, operation).verdict = Feedback!VerdictOf(failure)
          BY <5>1, FailedStep
        <5> QED
          BY <4>1, <5>2 DEF d
      <4> QED
        BY <2>2, <3>1, <3>2, <4>1, <4>2 DEF CanResume, Feedback!PostStatus
    <3>3. CASE q # s
      BY <2>1, <3>1, <3>3, FeedbackFields DEF CanResume
    <3> QED
      BY <3>2, <3>3
  <2>6. /\ posts' \in [Feedback!Sources -> Feedback!PostStatus]
        /\ deliveries' \in [Feedback!Sources -> Feedback!AttemptType]
    BY <2>1, <2>5, FeedbackFields
  <2> QED
    BY <2>3, <2>4, <2>5, <2>6
<1> QED
  BY <1>1, <1>2

LEMMA RefusedKeeps ==
    ASSUME FeedbackInv, NEW v \in Feedback!Services, Feedback!Refused(v) PROVE FeedbackInv'
<1> DEFINE s == workers[v].source
           generation == workers[v].generation
           operation == workers[v].operation
<1>1. /\ workers[v].at = "request" /\ Feedback!Fault
      /\ workers' = [workers EXCEPT ![v] = Feedback!After(s)]
      /\ UNCHANGED <<provider, stage, lifecycle, comments>>
  BY DEF Feedback!Refused
<1>2. PICK failure \in Feedback!Failures : Feedback!Fail(s, generation, failure, operation)
  BY DEF Feedback!Refused
<1>3. /\ s \in Feedback!Sources /\ s \in SourcesOf(v)
      /\ generation \in Nat /\ operation \in Feedback!Operations
  BY <1>1, FeedbackFields DEF Feedback!WorkerType, FeedbackInv, WorkerHolds
<1>4. /\ Feedback!After(s) \in Feedback!WorkerType
      /\ Feedback!After(s).at # "request"
      /\ Feedback!After(s).at # "idle" => Feedback!After(s).source \in SourcesOf(v)
  BY <1>3, AfterIsNoRequest
<1> HIDE DEF s, generation, operation
<1>5. /\ posts' \in [Feedback!Sources -> Feedback!PostStatus]
      /\ deliveries' \in [Feedback!Sources -> Feedback!AttemptType]
      /\ healthy' \in BOOLEAN /\ gated' \in BOOLEAN /\ verified' \in Nat
      /\ \A q \in Feedback!Sources :
           /\ posts'[q] = "none" <=> posts[q] = "none"
           /\ q # s => deliveries'[q] = deliveries[q]
           /\ deliveries[q].reconcile => deliveries'[q].reconcile
           /\ deliveries[q].external => deliveries'[q].external
           /\ CanResume(q)'
  BY <1>1, <1>2, <1>3, FailMoves
<1>6. Feedback!TypeOK'
  <2>1. /\ workers' \in [Feedback!Services -> Feedback!WorkerType]
        /\ faults' \in 0 .. MaxFaults
    BY <1>1, <1>4, FaultCounts, FeedbackFields
  <2> QED
    BY <1>1, <1>5, <2>1, FeedbackFields DEF Feedback!TypeOK
<1>7. StageHolds'
  BY <1>1, <1>5 DEF FeedbackInv, Feedback!Sources, StageHolds
<1>8. ASSUME NEW q \in Feedback!Sources
      PROVE  /\ posts[q] # "none" => posts'[q] # "none"
             /\ comments[q] = 1 => deliveries'[q].reconcile \/ deliveries'[q].external
             /\ CanResume(q)'
  BY <1>5, FeedbackFields DEF PostHolds
<1>9. ASSUME NEW w \in Feedback!Services
      PROVE  \/ /\ workers'[w] = workers[w]
                /\ Creating(workers[w]) => deliveries'[workers[w].source].reconcile
             \/ /\ workers'[w].at # "request"
                /\ workers'[w].at # "idle" => workers'[w].source \in SourcesOf(w)
  <2>1. CASE w = v
    BY <1>1, <1>4, <2>1, FeedbackFields
  <2>2. CASE w # v
    <3>1. workers'[w] = workers[w] /\ workers[w].source \in Feedback!Sources
      BY <1>1, <2>2, FeedbackFields DEF Feedback!WorkerType
    <3>2. WorkerHolds(w)
      BY DEF FeedbackInv
    <3> QED
      BY <1>5, <3>1, <3>2 DEF WorkerHolds, Creating
  <2> QED
    BY <2>1, <2>2
<1> QED
  BY <1>1, <1>6, <1>7, <1>8, <1>9, NothingOpens

LEMMA DeliveryCrashKeeps == ASSUME FeedbackInv, Feedback!Crash PROVE FeedbackInv'
<1>1. /\ Feedback!Fault /\ workers' = [v \in Feedback!Services |-> Feedback!Idle]
      /\ UNCHANGED <<provider, stage, posts, deliveries, lifecycle, healthy, verified, gated,
                     comments>>
  BY DEF Feedback!Crash, Feedback!postVars, Feedback!linkVars
<1>2. Feedback!Idle \in Feedback!WorkerType /\ Feedback!Idle.at = "idle"
  BY DEF Feedback!Idle, Feedback!WorkerType, Feedback!Sources, Feedback!Operations
<1>3. Feedback!TypeOK'
  BY <1>1, <1>2, FaultCounts, FeedbackFields DEF Feedback!TypeOK
<1>4. \A s \in Feedback!Sources : PostHolds(s)'
  BY <1>1, FeedbackFields DEF PostHolds, CanResume
<1>5. \A v \in Feedback!Services : WorkerHolds(v)'
  BY <1>1, <1>2 DEF WorkerHolds, Creating
<1> QED
  BY <1>1, <1>3, <1>4, <1>5 DEF FeedbackInv, StageHolds

LEMMA FeedbackIdle ==
    ASSUME FeedbackInv, UNCHANGED Feedback!vars PROVE FeedbackInv'
<1>1. UNCHANGED <<provider, stage, posts, deliveries, lifecycle, healthy, verified, gated,
                  comments, workers, faults>>
  BY DEF Feedback!vars, Feedback!postVars, Feedback!linkVars
<1>2. Feedback!TypeOK'
  BY <1>1 DEF FeedbackInv, Feedback!TypeOK
<1>3. \A s \in Feedback!Sources : PostHolds(s)'
  BY <1>1 DEF FeedbackInv, PostHolds, CanResume
<1>4. \A v \in Feedback!Services : WorkerHolds(v)'
  BY <1>1 DEF FeedbackInv, WorkerHolds, Creating
<1> QED
  BY <1>1, <1>2, <1>3, <1>4 DEF FeedbackInv, StageHolds

LEMMA FeedbackStep == FeedbackInv /\ [Next]_all => FeedbackInv'
<1> SUFFICES ASSUME FeedbackInv, [Next]_all PROVE FeedbackInv'
  OBVIOUS
<1>1. [Feedback!Next]_feedbackVars
  BY FeedbackMoves
<1>2. CASE UNCHANGED feedbackVars
  BY <1>2, FeedbackIdle DEF feedbackVars, Feedback!vars, Feedback!postVars, Feedback!linkVars
<1>3. CASE Feedback!CompleteEvaluation \/ Feedback!CompleteAdjudication
  BY <1>3, CompletionsKeep
<1>4. CASE Feedback!Verify \/ Feedback!Reactivate
  BY <1>4, VerificationsKeep
<1>5. CASE Feedback!Retire
  BY <1>5, RetirementKeeps
<1>6. CASE Feedback!TimePasses
  BY <1>6, TimeKeeps
<1>7. ASSUME NEW v \in Feedback!Services,
             Feedback!StartRound(v) \/ Feedback!Deliver(v) \/ Feedback!Refused(v)
      PROVE  FeedbackInv'
  BY <1>7, StartRoundKeeps, PassKeeps, BeginKeeps, WriteKeeps, AnsweredKeeps, AbsentKeeps,
     RefusedKeeps DEF Feedback!Deliver
<1>8. CASE Feedback!Crash
  BY <1>8, DeliveryCrashKeeps
<1> QED
  BY <1>1, <1>2, <1>3, <1>4, <1>5, <1>6, <1>7, <1>8 DEF Feedback!Next

LEMMA FeedbackHolds == FeedbackInv => FeedbackIsDeliveredOnce
<1> SUFFICES ASSUME FeedbackInv PROVE FeedbackIsDeliveredOnce
  OBVIOUS
<1>1. Feedback!CommentedOnce
  BY FeedbackFields DEF Feedback!CommentedOnce, PostHolds
<1>2. Feedback!RetiredCanResume
  BY FeedbackFields DEF Feedback!RetiredCanResume, CanResume, Feedback!Sources
<1> QED
  BY <1>1, <1>2 DEF FeedbackIsDeliveredOnce

-----------------------------------------------------------------------------
(***************************************************************************)
(* The waivers of one Evaluation                                           *)
(***************************************************************************)
DecisionsMade == {Waivers!NoDecisions} \cup
                     UNION {[R -> Waivers!Decisions] : R \in SUBSET Nat}

WaiverRow ==
    [asks : SUBSET Nat,
     status : {"queued", "running", "completed", "failed"},
     retry : {"ready", "exhausted"},
     claim : {"none", "held", "begun"},
     leased : BOOLEAN,
     attempts : Nat,
     decided : DecisionsMade]

\* Only a completed adjudication has Decisions, one for each of its Requests;
\* a claim is of what may still be tried, a lease of what is active.
RowHolds(d) ==
    /\ d.asks # {}
    /\ d.status = "completed" => d.decided \in [d.asks -> Waivers!Decisions]
    /\ d.status # "completed" => d.decided = Waivers!NoDecisions
    /\ d.claim # "none" => d.retry = "ready"
    /\ d.leased => d.status \in {"queued", "running"}

\* Only the last adjudication may be active, and every Request is asked for.
WaiverRowsOK ==
    /\ result \in Outcomes \cup {"none"}
    /\ waiverRequests \in Seq(Advisory)
    /\ adjudications \in Seq(WaiverRow)
    /\ \A a \in Waivers!Ids :
         /\ RowHolds(adjudications[a])
         /\ adjudications[a].asks \subseteq Waivers!Requested
         /\ a \in Waivers!Active => a = Len(adjudications)
    /\ \A r \in Waivers!Requested : \E a \in Waivers!Ids : r \in adjudications[a].asks
    /\ result = "none" => adjudications = <<>>

\* a has decided r, and not for an error.
Settles(a, r) ==
    /\ r \in adjudications[a].asks
    /\ adjudications[a].status = "completed" /\ adjudications[a].decided[r] # "error"

\* What is settled is not asked again, only a denied Request is followed by
\* another one for its Finding, and what failed is asked again as a whole.
SettledIsLast ==
    \A a \in Waivers!Ids, b \in Waivers!Ids : \A r \in adjudications[b].asks :
        Settles(a, r) => b <= a

DeniedIsFollowed ==
    \A q \in Waivers!Requested, r \in Waivers!Requested :
        r < q /\ waiverRequests[r] = waiverRequests[q] =>
            \E a \in Waivers!Ids :
                Settles(a, r) /\ adjudications[a].decided[r] = "denied"

FailedTogether ==
    \A a \in Waivers!Ids, b \in Waivers!Ids : \A q \in adjudications[a].asks :
        adjudications[a].status = "failed" /\ a < b /\ q \in adjudications[b].asks =>
            \A r \in adjudications[a].asks :
                \E c \in Waivers!Ids : a < c /\ r \in adjudications[c].asks

WithinLimit ==
    \A f \in Advisory : Waivers!Cardinality(Waivers!RequestsOf(f)) <= RequestLimit

WaiverHistory == SettledIsLast /\ DeniedIsFollowed /\ FailedTogether /\ WithinLimit

WaiverInv ==
    WaiverRowsOK /\ WaiverHistory /\ Waivers!StatusFollowsOutcome /\ Waivers!RepliesAreComplete

\* Only the subject moves its variables.
LEMMA WaiversMove == [Next]_all => [Waivers!Next]_waiverVars
BY DEF Next, all, OfConnection, OfRepository, OfAdmission, OfRule, OfWaivers, OfFeedback,
       OfAuthority, waiverVars

\* Of some numbers up to n one is the last.
Beyond(S, e) == {k \in S : k > e}

LEMMA LastOf ==
    ASSUME NEW n \in Nat, NEW S \in SUBSET (1 .. n), S # {}
    PROVE  \E m \in S : \A k \in S : k <= m
<1> DEFINE R == StrictSubsetOrdering(1 .. n)
           T == FiniteSubsetsOf(1 .. n)
           beyond == {Beyond(S, e) : e \in S}
<1>1. beyond \subseteq T
  <2>1. ASSUME NEW e \in S PROVE Beyond(S, e) \in T
    <3>1. Beyond(S, e) \in SUBSET (1 .. n)
      BY DEF Beyond
    <3>2. IsFiniteSet(1 .. n)
      BY FS_Interval
    <3>3. IsFiniteSet(Beyond(S, e))
      BY <3>1, <3>2, FS_Subset
    <3> QED
      BY <3>1, <3>3 DEF FiniteSubsetsOf
  <2> QED
    BY <2>1
<1>2. IsWellFoundedOn(R, T)
  BY FS_StrictSubsetOrderingWellFounded
<1>3. beyond # {}
  OBVIOUS
<1> HIDE DEF R, T, beyond
<1>4. PICK x \in beyond : \A y \in beyond : ~ (<<y, x>> \in R)
  BY <1>1, <1>2, <1>3, WFMin
<1>5. PICK m \in S : x = Beyond(S, m)
  BY <1>4 DEF beyond
<1>6. ASSUME NEW e \in S, e > m PROVE FALSE
  <2>1. Beyond(S, e) \subseteq Beyond(S, m) /\ Beyond(S, e) # Beyond(S, m)
    <3>1. e \in Beyond(S, m) /\ e \notin Beyond(S, e)
      BY <1>6 DEF Beyond
    <3>2. ASSUME NEW k \in Beyond(S, e) PROVE k \in Beyond(S, m)
      BY <1>6, <3>2 DEF Beyond
    <3> QED
      BY <3>1, <3>2
  <2>2. Beyond(S, e) \in beyond /\ Beyond(S, e) \in SUBSET (1 .. n) /\ x \in SUBSET (1 .. n)
    BY <1>5 DEF beyond, Beyond
  <2>3. <<Beyond(S, e), x>> \in R
    BY <1>5, <2>1, <2>2 DEF R, StrictSubsetOrdering
  <2> QED
    BY <1>4, <2>2, <2>3
<1>7. \A k \in S : k <= m
  BY <1>6
<1> QED
  BY <1>7

LEMMA NewestIsLast ==
    ASSUME NEW n \in Nat, NEW S \in SUBSET (1 .. n), S # {}
    PROVE  /\ Waivers!Newest(S) \in S
           /\ \A k \in S : k <= Waivers!Newest(S)
BY LastOf DEF Waivers!Newest

\* The newest adjudication that asks for r.
Last(r) == Waivers!Newest(Waivers!AdjudicationsOf(r))

LEMMA WaiverFields ==
    ASSUME WaiverRowsOK
    PROVE  /\ Len(adjudications) \in Nat /\ Waivers!Ids = 1 .. Len(adjudications)
           /\ Len(waiverRequests) \in Nat /\ Waivers!Requested = 1 .. Len(waiverRequests)
           /\ \A a \in Waivers!Ids :
                /\ adjudications[a] \in WaiverRow /\ RowHolds(adjudications[a])
                /\ adjudications[a].asks \subseteq Waivers!Requested
           /\ \A r \in Waivers!Requested : waiverRequests[r] \in Advisory
BY DEF WaiverRowsOK, Waivers!Ids, Waivers!Requested

LEMMA LastAsks ==
    ASSUME WaiverRowsOK, NEW r \in Waivers!Requested
    PROVE  /\ Last(r) \in Waivers!Ids /\ r \in adjudications[Last(r)].asks
           /\ \A b \in Waivers!Ids : r \in adjudications[b].asks => b <= Last(r)
<1> DEFINE S == Waivers!AdjudicationsOf(r)
<1>1. S \in SUBSET (1 .. Len(adjudications)) /\ S # {}
  BY WaiverFields DEF WaiverRowsOK, Waivers!AdjudicationsOf
<1>2. Waivers!Newest(S) \in S /\ \A k \in S : k <= Waivers!Newest(S)
  <2> HIDE DEF S
  <2> QED
    BY <1>1, WaiverFields, NewestIsLast
<1> QED
  BY <1>2 DEF Last, Waivers!AdjudicationsOf

LEMMA NewestRequest ==
    ASSUME WaiverRowsOK, NEW f, Waivers!RequestsOf(f) # {}
    PROVE  /\ Waivers!Newest(Waivers!RequestsOf(f)) \in Waivers!RequestsOf(f)
           /\ \A r \in Waivers!RequestsOf(f) : r <= Waivers!Newest(Waivers!RequestsOf(f))
<1> DEFINE S == Waivers!RequestsOf(f)
<1>1. S \in SUBSET (1 .. Len(waiverRequests)) /\ S # {}
  BY WaiverFields DEF Waivers!RequestsOf
<1> HIDE DEF S
<1>2. Waivers!Newest(S) \in S /\ \A k \in S : k <= Waivers!Newest(S)
  BY <1>1, WaiverFields, NewestIsLast
<1> QED
  BY <1>2 DEF S

LastIsNewest ==
    \A r \in Waivers!Requested :
        /\ Last(r) \in Waivers!Ids
        /\ \A b \in Waivers!Ids : r \in adjudications[b].asks => b <= Last(r)

LEMMA LastsAreNewest == WaiverRowsOK => LastIsNewest
BY LastAsks DEF LastIsNewest

\* A completed adjudication decides each of its Requests, another one none.
LEMMA DecidesItsOwn ==
    ASSUME WaiverRowsOK, NEW a \in Waivers!Ids
    PROVE  /\ adjudications[a].status = "completed" =>
                  /\ DOMAIN adjudications[a].decided = adjudications[a].asks
                  /\ \A r \in adjudications[a].asks :
                        adjudications[a].decided[r] \in Waivers!Decisions
           /\ adjudications[a].status # "completed" => DOMAIN adjudications[a].decided = {}
<1>1. RowHolds(adjudications[a])
  BY WaiverFields
<1>2. CASE adjudications[a].status = "completed"
  BY <1>1, <1>2 DEF RowHolds
<1>3. CASE adjudications[a].status # "completed"
  <2>1. adjudications[a].decided = <<>>
    BY <1>1, <1>3 DEF RowHolds, Waivers!NoDecisions
  <2> QED
    BY <1>3, <2>1
<1> QED
  BY <1>2, <1>3

LEMMA LatestIs ==
    ASSUME WaiverRowsOK, NEW r \in Waivers!Requested
    PROVE  Waivers!LatestDecision(r) =
               IF adjudications[Last(r)].status = "completed"
               THEN adjudications[Last(r)].decided[r] ELSE "none"
BY LastAsks, DecidesItsOwn DEF Waivers!LatestDecision, Last

\* The Decision that readers see is one that was made.
LEMMA DecisionWasMade ==
    ASSUME WaiverRowsOK, NEW r \in Waivers!Requested
    PROVE  \/ Waivers!NewestDecision(r) = "none"
           \/ \E a \in Waivers!Ids :
                /\ r \in adjudications[a].asks /\ adjudications[a].status = "completed"
                /\ Waivers!NewestDecision(r) = adjudications[a].decided[r]
                /\ adjudications[a].decided[r] \in Waivers!Decisions
<1> DEFINE S == {a \in Waivers!AdjudicationsOf(r) : r \in DOMAIN adjudications[a].decided}
<1>1. Waivers!NewestDecision(r) =
          IF S = {} THEN "none" ELSE adjudications[Waivers!Newest(S)].decided[r]
  BY DEF Waivers!NewestDecision
<1>2. S \in SUBSET (1 .. Len(adjudications))
  BY WaiverFields DEF Waivers!AdjudicationsOf
<1>3. ASSUME NEW a \in S
      PROVE  /\ a \in Waivers!Ids /\ r \in adjudications[a].asks
             /\ adjudications[a].status = "completed"
             /\ adjudications[a].decided[r] \in Waivers!Decisions
  <2>1. a \in Waivers!Ids /\ r \in adjudications[a].asks /\ r \in DOMAIN adjudications[a].decided
    BY DEF Waivers!AdjudicationsOf
  <2> QED
    BY <2>1, DecidesItsOwn
<1> HIDE DEF S
<1>4. CASE S # {}
  <2>1. Waivers!Newest(S) \in S
    BY <1>2, <1>4, WaiverFields, NewestIsLast
  <2> QED
    BY <1>1, <1>3, <1>4, <2>1
<1> QED
  BY <1>1, <1>4

\* What is settled stays what readers see.
LEMMA SettledIsSeen ==
    ASSUME WaiverRowsOK, SettledIsLast, NEW a \in Waivers!Ids, NEW r \in Waivers!Requested,
           Settles(a, r)
    PROVE  /\ Last(r) = a
           /\ Waivers!LatestDecision(r) = adjudications[a].decided[r]
           /\ Waivers!NewestDecision(r) = adjudications[a].decided[r]
<1>1. Last(r) = a
  <2>1. Last(r) \in Waivers!Ids /\ r \in adjudications[Last(r)].asks /\ a <= Last(r)
    BY LastAsks DEF Settles
  <2>2. Last(r) <= a
    BY <2>1 DEF SettledIsLast
  <2> QED
    BY <2>1, <2>2, WaiverFields
<1>2. Waivers!LatestDecision(r) = adjudications[a].decided[r]
  BY <1>1, LatestIs DEF Settles
<1>3. Waivers!NewestDecision(r) = adjudications[a].decided[r]
  <2> DEFINE S == {b \in Waivers!AdjudicationsOf(r) : r \in DOMAIN adjudications[b].decided}
  <2>1. a \in S
    BY DecidesItsOwn DEF Settles, Waivers!AdjudicationsOf
  <2>2. S \in SUBSET (1 .. Len(adjudications))
    BY WaiverFields DEF Waivers!AdjudicationsOf
  <2>3. \A b \in S : b <= a
    BY DEF SettledIsLast, Waivers!AdjudicationsOf
  <2>4. Waivers!NewestDecision(r) = adjudications[Waivers!Newest(S)].decided[r]
    BY <2>1 DEF Waivers!NewestDecision
  <2> HIDE DEF S
  <2>5. Waivers!Newest(S) \in S /\ a <= Waivers!Newest(S)
    BY <2>1, <2>2, WaiverFields, NewestIsLast
  <2>6. Waivers!Newest(S) = a
    BY <2>2, <2>3, <2>5, WaiverFields
  <2> QED
    BY <2>4, <2>6
<1> QED
  BY <1>1, <1>2, <1>3

-----------------------------------------------------------------------------
LEMMA WaiversHold == WaiverInv => WaiversAreDecided
<1> SUFFICES ASSUME WaiverInv PROVE WaiversAreDecided
  OBVIOUS
<1>0. /\ WaiverRowsOK /\ SettledIsLast /\ DeniedIsFollowed /\ FailedTogether
      /\ Waivers!StatusFollowsOutcome /\ Waivers!RepliesAreComplete
  BY DEF WaiverInv, WaiverHistory
<1>1. Waivers!EarlierRequestsWereDenied
  <2> SUFFICES ASSUME NEW f \in Advisory, NEW r \in Waivers!RequestsOf(f),
                      r # Waivers!Newest(Waivers!RequestsOf(f))
               PROVE  Waivers!NewestDecision(r) = "denied"
    BY DEF Waivers!EarlierRequestsWereDenied
  <2> DEFINE q == Waivers!Newest(Waivers!RequestsOf(f))
  <2>1. q \in Waivers!RequestsOf(f) /\ r <= q
    BY <1>0, NewestRequest
  <2> HIDE DEF q
  <2>2. /\ q \in Waivers!Requested /\ r \in Waivers!Requested
        /\ waiverRequests[r] = waiverRequests[q]
    BY <2>1 DEF Waivers!RequestsOf
  <2>3. r < q
    BY <1>0, <2>1, <2>2, WaiverFields DEF q
  <2>4. PICK a \in Waivers!Ids : Settles(a, r) /\ adjudications[a].decided[r] = "denied"
    BY <1>0, <2>2, <2>3 DEF DeniedIsFollowed
  <2> QED
    BY <1>0, <2>2, <2>4, SettledIsSeen
<1>2. Waivers!NoRequestIsStranded
  <2> SUFFICES ASSUME NEW r \in Waivers!Requested
               PROVE  \/ Last(r) \in Waivers!Active
                      \/ Waivers!LatestDecision(r) # "none"
                      \/ /\ adjudications[Last(r)].status = "failed"
                         /\ \A q \in adjudications[Last(r)].asks : Last(q) = Last(r)
    BY DEF Waivers!NoRequestIsStranded, Last
  <2> DEFINE a == Last(r)
  <2>1. /\ a \in Waivers!Ids /\ r \in adjudications[a].asks
        /\ \A b \in Waivers!Ids : r \in adjudications[b].asks => b <= a
    BY <1>0, LastAsks
  <2>2. CASE adjudications[a].status \in {"queued", "running"}
    BY <2>1, <2>2 DEF Waivers!Active
  <2>3. CASE adjudications[a].status = "completed"
    <3>1. adjudications[a].decided[r] \in Waivers!Decisions
      BY <1>0, <2>1, <2>3, DecidesItsOwn
    <3> QED
      BY <1>0, <2>3, <3>1, LatestIs DEF Waivers!Decisions
  <2>4. CASE adjudications[a].status = "failed"
    <3>1. ASSUME NEW q \in adjudications[a].asks PROVE Last(q) = a
      <4>1. q \in Waivers!Requested
        BY <1>0, <2>1, WaiverFields
      <4>2. /\ Last(q) \in Waivers!Ids /\ q \in adjudications[Last(q)].asks /\ a <= Last(q)
        BY <1>0, <2>1, <4>1, LastAsks
      <4>3. CASE a < Last(q)
        <5>1. PICK c \in Waivers!Ids : a < c /\ r \in adjudications[c].asks
          BY <1>0, <2>1, <2>4, <4>2, <4>3 DEF FailedTogether
        <5> QED
          BY <1>0, <2>1, <5>1, WaiverFields
      <4> QED
        BY <1>0, <2>1, <4>2, <4>3, WaiverFields
    <3> QED
      BY <2>4, <3>1
  <2>5. adjudications[a].status \in {"queued", "running", "completed", "failed"}
    BY <1>0, <2>1, WaiverFields DEF WaiverRow
  <2> QED
    BY <2>2, <2>3, <2>4, <2>5
<1> QED
  BY <1>0, <1>1, <1>2 DEF WaiversAreDecided

-----------------------------------------------------------------------------
LEMMA WaiverInit == Waivers!Init => WaiverInv
<1> SUFFICES ASSUME Waivers!Init PROVE WaiverInv
  OBVIOUS
<1>1. /\ result = "none" /\ waiverRequests = <<>> /\ adjudications = <<>>
      /\ desired = "pending" /\ published = {} /\ replies = {}
  BY DEF Waivers!Init
<1>2. /\ Waivers!Ids = {} /\ Waivers!Requested = {} /\ Waivers!Active = {}
  BY <1>1 DEF Waivers!Ids, Waivers!Requested, Waivers!Active
<1>3. WaiverRowsOK
  BY <1>1, <1>2 DEF WaiverRowsOK
<1>4. WithinLimit
  <2> SUFFICES ASSUME NEW f \in Advisory
               PROVE  Waivers!Cardinality(Waivers!RequestsOf(f)) <= RequestLimit
    BY DEF WithinLimit
  <2>1. Waivers!RequestsOf(f) = {}
    BY <1>2 DEF Waivers!RequestsOf
  <2>2. Waivers!Cardinality({}) = 0
    BY FS_EmptySet DEF Waivers!Cardinality, Cardinality
  <2> QED
    BY <2>1, <2>2, WaiverBounds
<1>5. WaiverHistory
  BY <1>2, <1>4 DEF WaiverHistory, SettledIsLast, DeniedIsFollowed, FailedTogether
<1>6. Waivers!StatusFollowsOutcome
  BY <1>1 DEF Waivers!StatusFollowsOutcome, Waivers!EffectiveOutcome
<1>7. Waivers!RepliesAreComplete
  BY <1>1, <1>2 DEF Waivers!RepliesAreComplete
<1> QED
  BY <1>3, <1>5, <1>6, <1>7 DEF WaiverInv

\* What is said of Requests and adjudications, in terms of the rows only.
LEMMA OutcomeStays ==
    ASSUME UNCHANGED <<result, waiverRequests, adjudications>>
    PROVE  Waivers!EffectiveOutcome' = Waivers!EffectiveOutcome
BY DEF Waivers!EffectiveOutcome, Waivers!Active, Waivers!Ids, Waivers!Requested,
       Waivers!Errored, Waivers!AdjudicationsOf, Waivers!LatestDecision, Waivers!Waived,
       Waivers!RequestsOf, Waivers!NewestDecision

LEMMA HistoryStays ==
    ASSUME WaiverRowsOK, WaiverHistory, UNCHANGED <<waiverRequests, adjudications>>
    PROVE  WaiverHistory'
<1>1. WithinLimit'
  BY DEF WaiverHistory, WithinLimit, Waivers!RequestsOf, Waivers!Requested
<1>2. SettledIsLast'
  BY DEF WaiverHistory, SettledIsLast, Settles, Waivers!Ids
<1>3. DeniedIsFollowed'
  BY DEF WaiverHistory, DeniedIsFollowed, Settles, Waivers!Ids, Waivers!Requested
<1>4. FailedTogether'
  BY DEF WaiverHistory, FailedTogether, Waivers!Ids
<1> QED
  BY <1>1, <1>2, <1>3, <1>4 DEF WaiverHistory

LEMMA RowsStay ==
    ASSUME WaiverRowsOK, UNCHANGED <<waiverRequests, adjudications>>,
           result' \in Outcomes \cup {"none"}, result' = "none" => adjudications = <<>>
    PROVE  WaiverRowsOK'
BY DEF WaiverRowsOK, Waivers!Ids, Waivers!Requested, Waivers!Active

LEMMA EvaluationKeeps == ASSUME WaiverInv, Waivers!CompleteEvaluation PROVE WaiverInv'
<1>1. /\ result = "none" /\ result' \in Outcomes /\ desired' = result'
      /\ UNCHANGED <<waiverRequests, adjudications, published, replies>>
  BY DEF Waivers!CompleteEvaluation, Waivers!followupVars
<1>2. adjudications = <<>>
  BY <1>1 DEF WaiverInv, WaiverRowsOK
<1>3. WaiverRowsOK' /\ WaiverHistory'
  BY <1>1, <1>2, RowsStay, HistoryStays DEF WaiverInv
<1>4. Waivers!StatusFollowsOutcome'
  <2>1. result' # "none"
    BY <1>1, WaiverBounds
  <2> QED
    BY <1>1, <1>2, <2>1 DEF Waivers!StatusFollowsOutcome, Waivers!EffectiveOutcome
<1>5. Waivers!RepliesAreComplete'
  BY <1>1 DEF WaiverInv, Waivers!RepliesAreComplete, Waivers!Ids, Waivers!Requested
<1> QED
  BY <1>3, <1>4, <1>5 DEF WaiverInv

-----------------------------------------------------------------------------
\* The row of the active adjudication is updated.
LEMMA ActiveIsLast ==
    ASSUME WaiverRowsOK, NEW a \in Waivers!Ids,
           adjudications[a].status \in {"queued", "running"}
    PROVE  a = Len(adjudications) /\ Waivers!Active = {a}
BY WaiverFields DEF WaiverRowsOK, Waivers!Active

LEMMA UpdateKeeps ==
    ASSUME WaiverRowsOK, WaiverHistory, NEW a \in Waivers!Ids,
           adjudications[a].status \in {"queued", "running"},
           NEW e \in WaiverRow, RowHolds(e), e.asks = adjudications[a].asks,
           adjudications' = [adjudications EXCEPT ![a] = e],
           UNCHANGED <<result, waiverRequests>>
    PROVE  /\ WaiverRowsOK' /\ WaiverHistory'
           /\ Waivers!Ids' = Waivers!Ids /\ Waivers!Requested' = Waivers!Requested
           /\ \A x \in Waivers!Ids :
                adjudications'[x] = IF x = a THEN e ELSE adjudications[x]
           /\ Waivers!Active' = IF e.status \in {"queued", "running"} THEN {a} ELSE {}
           /\ result # "none" /\ adjudications' # <<>>
           /\ a = Len(adjudications)
<1>1. a = Len(adjudications) /\ Waivers!Active = {a}
  BY ActiveIsLast
<1>2. /\ adjudications' \in Seq(WaiverRow) /\ Len(adjudications') = Len(adjudications)
      /\ Waivers!Ids' = Waivers!Ids /\ Waivers!Requested' = Waivers!Requested
      /\ \A x \in Waivers!Ids : adjudications'[x] = IF x = a THEN e ELSE adjudications[x]
  BY WaiverFields DEF WaiverRowsOK, Waivers!Ids, Waivers!Requested
<1>3. Waivers!Active' = IF e.status \in {"queued", "running"} THEN {a} ELSE {}
  BY <1>1, <1>2 DEF Waivers!Active
<1>4. result # "none" /\ adjudications' # <<>>
  <2>1. adjudications # <<>>
    BY DEF Waivers!Ids
  <2>2. adjudications' # <<>>
    BY <1>2 DEF Waivers!Ids
  <2> QED
    BY <2>1, <2>2 DEF WaiverRowsOK
<1>5. \A x \in Waivers!Ids : adjudications'[x].asks = adjudications[x].asks
  BY <1>2
<1>6. WaiverRowsOK'
  <2>1. ASSUME NEW x \in Waivers!Ids'
        PROVE  /\ RowHolds(adjudications[x])'
               /\ adjudications'[x].asks \subseteq Waivers!Requested'
               /\ x \in Waivers!Active' => x = Len(adjudications')
    BY <1>1, <1>2, <1>3, <1>5, WaiverFields DEF RowHolds
  <2>2. \A r \in Waivers!Requested' : \E x \in Waivers!Ids' : r \in adjudications'[x].asks
    BY <1>2, <1>5 DEF WaiverRowsOK
  <2> QED
    BY <1>2, <1>4, <2>1, <2>2 DEF WaiverRowsOK
<1>7. ASSUME NEW x \in Waivers!Ids, x # a, NEW r
      PROVE  Settles(x, r)' <=> Settles(x, r)
  BY <1>2, <1>7 DEF Settles
<1>8. ASSUME NEW x \in Waivers!Ids, NEW r, Settles(x, r) PROVE x # a /\ Settles(x, r)'
  BY <1>7, <1>8 DEF Settles
<1>9. SettledIsLast'
  <2> SUFFICES ASSUME NEW x \in Waivers!Ids, NEW b \in Waivers!Ids,
                      NEW r \in adjudications[b].asks, Settles(x, r)'
               PROVE  b <= x
    BY <1>2, <1>5 DEF SettledIsLast
  <2>1. CASE x = a
    BY <1>1, <2>1, WaiverFields
  <2>2. CASE x # a
    BY <1>7, <2>2 DEF WaiverHistory, SettledIsLast
  <2> QED
    BY <2>1, <2>2
<1>10. DeniedIsFollowed'
  <2> SUFFICES ASSUME NEW q \in Waivers!Requested, NEW r \in Waivers!Requested,
                      r < q, waiverRequests[r] = waiverRequests[q]
               PROVE  \E x \in Waivers!Ids :
                          Settles(x, r)' /\ adjudications'[x].decided[r] = "denied"
    BY <1>2 DEF DeniedIsFollowed
  <2>1. PICK x \in Waivers!Ids : Settles(x, r) /\ adjudications[x].decided[r] = "denied"
    BY DEF WaiverHistory, DeniedIsFollowed
  <2>2. x # a /\ Settles(x, r)'
    BY <1>8, <2>1
  <2> QED
    BY <1>2, <2>1, <2>2
<1>11. FailedTogether'
  <2> SUFFICES ASSUME NEW x \in Waivers!Ids, NEW b \in Waivers!Ids,
                      NEW q \in adjudications[x].asks, adjudications'[x].status = "failed",
                      x < b, q \in adjudications[b].asks,
                      NEW r \in adjudications[x].asks
               PROVE  \E c \in Waivers!Ids : x < c /\ r \in adjudications[c].asks
    BY <1>2, <1>5 DEF FailedTogether
  <2>1. x # a
    BY <1>1, WaiverFields
  <2>2. adjudications[x].status = "failed"
    BY <1>2, <2>1
  <2> QED
    BY <2>2 DEF WaiverHistory, FailedTogether
<1>12. WithinLimit'
  BY DEF WaiverHistory, WithinLimit, Waivers!RequestsOf, Waivers!Requested
<1> QED
  BY <1>1, <1>2, <1>3, <1>4, <1>6, <1>9, <1>10, <1>11, <1>12 DEF WaiverHistory

\* The execution of an adjudication up to its end.
LEMMA ProgressKeeps ==
    ASSUME WaiverInv, NEW a \in Waivers!Ids,
           adjudications[a].status \in {"queued", "running"},
           NEW e \in WaiverRow, RowHolds(e), e.asks = adjudications[a].asks,
           e.status \in {"queued", "running"}, e.status = "running" => desired' = "pending",
           adjudications' = [adjudications EXCEPT ![a] = e],
           UNCHANGED <<result, waiverRequests, published, replies>>
    PROVE  WaiverInv'
<1>1. /\ WaiverRowsOK' /\ WaiverHistory'
      /\ Waivers!Ids' = Waivers!Ids /\ Waivers!Requested' = Waivers!Requested
      /\ \A x \in Waivers!Ids : adjudications'[x] = IF x = a THEN e ELSE adjudications[x]
      /\ Waivers!Active' = {a} /\ adjudications' # <<>>
  BY UpdateKeeps DEF WaiverInv
<1>2. Waivers!StatusFollowsOutcome'
  BY <1>1 DEF Waivers!StatusFollowsOutcome, Waivers!EffectiveOutcome
<1>3. Waivers!RepliesAreComplete'
  <2>1. replies = {x \in Waivers!Ids \X Waivers!Requested :
          /\ adjudications[x[1]].status = "completed"
          /\ x[2] \in adjudications[x[1]].asks
          /\ adjudications[x[1]].decided[x[2]] = "accepted"
          /\ waiverRequests[x[2]] \in published}
    BY DEF WaiverInv, Waivers!RepliesAreComplete
  <2>2. ASSUME NEW x \in Waivers!Ids \X Waivers!Requested
        PROVE  (adjudications[x[1]].status = "completed" /\
                  x[2] \in adjudications[x[1]].asks /\
                  adjudications[x[1]].decided[x[2]] = "accepted") <=>
               (adjudications'[x[1]].status = "completed" /\
                  x[2] \in adjudications'[x[1]].asks /\
                  adjudications'[x[1]].decided[x[2]] = "accepted")
    BY <1>1
  <2>3. replies' = {x \in Waivers!Ids \X Waivers!Requested :
          /\ adjudications'[x[1]].status = "completed"
          /\ x[2] \in adjudications'[x[1]].asks
          /\ adjudications'[x[1]].decided[x[2]] = "accepted"
          /\ waiverRequests'[x[2]] \in published'}
    BY <2>1, <2>2
  <2> QED
    BY <1>1, <2>3 DEF Waivers!RepliesAreComplete
<1> QED
  BY <1>1, <1>2, <1>3 DEF WaiverInv

\* The attempt of an adjudication ends: what may still be tried stays ready.
LEMMA SpentRow ==
    ASSUME NEW d \in WaiverRow, RowHolds(d), NEW definitive \in BOOLEAN
    PROVE  LET e == Waivers!Spent(d, definitive) IN
           e \in WaiverRow /\ e.asks = d.asks /\ e.status = d.status /\ RowHolds(e)
<1> DEFINE e == Waivers!Spent(d, definitive)
           retry == IF definitive \/ d.attempts + 1 = AttemptLimit
                    THEN "exhausted" ELSE "ready"
           u == Waivers!Unclaimed(d)
<1>1. /\ u \in WaiverRow /\ u.asks = d.asks /\ u.status = d.status /\ u.decided = d.decided
      /\ u.claim = "none" /\ u.leased = FALSE /\ u.attempts = d.attempts
  BY DEF Waivers!Unclaimed, WaiverRow
<1>2. retry \in {"ready", "exhausted"} /\ u.attempts + 1 \in Nat
  BY <1>1 DEF WaiverRow
<1>3. e = [u EXCEPT !.attempts = u.attempts + 1, !.retry = retry]
  BY <1>1 DEF Waivers!Spent
<1> HIDE DEF e, retry, u
<1>4. /\ e \in WaiverRow /\ e.asks = d.asks /\ e.status = d.status /\ e.decided = d.decided
      /\ e.claim = "none" /\ e.leased = FALSE
  BY <1>1, <1>2, <1>3 DEF WaiverRow
<1>5. RowHolds(e)
  BY <1>4 DEF RowHolds
<1> QED
  BY <1>4, <1>5 DEF e

LEMMA UnclaimedRow ==
    ASSUME NEW d \in WaiverRow, RowHolds(d)
    PROVE  LET e == Waivers!Unclaimed(d) IN
           /\ e \in WaiverRow /\ e.asks = d.asks /\ e.status = d.status
           /\ e.decided = d.decided /\ e.claim = "none" /\ e.leased = FALSE /\ RowHolds(e)
<1> DEFINE e == Waivers!Unclaimed(d)
<1>1. /\ e \in WaiverRow /\ e.asks = d.asks /\ e.status = d.status /\ e.decided = d.decided
      /\ e.claim = "none" /\ e.leased = FALSE
  BY DEF Waivers!Unclaimed, WaiverRow
<1> HIDE DEF e
<1>2. RowHolds(e)
  BY <1>1 DEF RowHolds
<1> QED
  BY <1>1, <1>2 DEF e

LEMMA QueuedIsActive ==
    ASSUME WaiverInv, NEW a \in Waivers!Ids
    PROVE  /\ adjudications[a] \in WaiverRow /\ RowHolds(adjudications[a])
           /\ adjudications[a].leased => adjudications[a].status \in {"queued", "running"}
BY WaiverFields DEF WaiverInv, RowHolds

LEMMA RecoverExhaustedKeeps ==
    ASSUME WaiverInv, NEW a \in Waivers!Ids, Waivers!RecoverExhausted(a) PROVE WaiverInv'
<1> DEFINE d == adjudications[a]
           e == [d EXCEPT !.retry = "ready", !.attempts = 0]
<1>1. /\ d.status = "queued" /\ adjudications' = [adjudications EXCEPT ![a] = e]
      /\ UNCHANGED <<result, waiverRequests, desired, published, replies>>
  BY DEF Waivers!RecoverExhausted, Waivers!admissionVars, Waivers!followupVars
<1>2. d \in WaiverRow /\ RowHolds(d)
  BY QueuedIsActive
<1>3. /\ e \in WaiverRow /\ e.asks = d.asks /\ e.status = d.status /\ e.decided = d.decided
      /\ e.claim = d.claim /\ e.leased = d.leased /\ e.retry = "ready"
  BY <1>2 DEF WaiverRow
<1> HIDE DEF e
<1>4. RowHolds(e)
  BY <1>2, <1>3 DEF RowHolds
<1> QED
  BY <1>1, <1>3, <1>4, ProgressKeeps

LEMMA ClaimKeeps ==
    ASSUME WaiverInv, NEW a \in Waivers!Ids, Waivers!Claim(a) PROVE WaiverInv'
<1> DEFINE d == adjudications[a]
           e == IF d.claim = "begun" THEN Waivers!Spent(d, FALSE)
                ELSE [d EXCEPT !.claim = "held", !.leased = TRUE]
<1>1. /\ d.status = "queued" /\ d.retry = "ready"
      /\ adjudications' = [adjudications EXCEPT ![a] = e]
      /\ UNCHANGED <<result, waiverRequests, desired, published, replies>>
  BY DEF Waivers!Claim, Waivers!admissionVars, Waivers!followupVars
<1>2. d \in WaiverRow /\ RowHolds(d)
  BY QueuedIsActive
<1>3. e \in WaiverRow /\ e.asks = d.asks /\ e.status = d.status /\ RowHolds(e)
  <2>1. CASE d.claim = "begun"
    BY <1>2, <2>1, SpentRow
  <2>2. CASE d.claim # "begun"
    <3> DEFINE g == [d EXCEPT !.claim = "held", !.leased = TRUE]
    <3>1. /\ g \in WaiverRow /\ g.asks = d.asks /\ g.status = d.status
          /\ g.decided = d.decided /\ g.retry = d.retry
      BY <1>2 DEF WaiverRow
    <3>2. e = g
      BY <2>2
    <3> HIDE DEF e, g
    <3> QED
      BY <1>1, <1>2, <3>1, <3>2 DEF RowHolds
  <2> QED
    BY <2>1, <2>2
<1> HIDE DEF e
<1> QED
  BY <1>1, <1>3, ProgressKeeps

LEMMA BeginAttemptKeeps ==
    ASSUME WaiverInv, NEW a \in Waivers!Ids, Waivers!BeginAttempt(a) PROVE WaiverInv'
<1> DEFINE d == adjudications[a]
<1>1. /\ d.status = "queued" /\ d.claim = "held"
      /\ \/ adjudications' = [adjudications EXCEPT ![a].claim = "begun"]
         \/ adjudications' = [adjudications EXCEPT ![a] = Waivers!Unclaimed(d)]
      /\ UNCHANGED <<result, waiverRequests, desired, published, replies>>
  BY DEF Waivers!BeginAttempt, Waivers!admissionVars, Waivers!followupVars
<1>2. d \in WaiverRow /\ RowHolds(d)
  BY QueuedIsActive
<1>3. CASE adjudications' = [adjudications EXCEPT ![a].claim = "begun"]
  <2> DEFINE e == [d EXCEPT !.claim = "begun"]
  <2>1. adjudications' = [adjudications EXCEPT ![a] = e]
    BY <1>3
  <2>2. /\ e \in WaiverRow /\ e.asks = d.asks /\ e.status = d.status
        /\ e.decided = d.decided /\ e.retry = d.retry /\ e.leased = d.leased
    BY <1>2 DEF WaiverRow
  <2> HIDE DEF e
  <2>3. RowHolds(e)
    BY <1>1, <1>2, <2>2 DEF RowHolds
  <2> QED
    BY <1>1, <2>1, <2>2, <2>3, ProgressKeeps
<1>4. CASE adjudications' = [adjudications EXCEPT ![a] = Waivers!Unclaimed(d)]
  BY <1>1, <1>2, <1>4, UnclaimedRow, ProgressKeeps
<1> QED
  BY <1>1, <1>3, <1>4

LEMMA AttemptFailsKeeps ==
    ASSUME WaiverInv, NEW a \in Waivers!Ids, Waivers!AttemptFails(a) PROVE WaiverInv'
<1> DEFINE d == adjudications[a]
<1>1. d.status = "queued" /\ UNCHANGED <<result, waiverRequests, desired, published, replies>>
  BY DEF Waivers!AttemptFails, Waivers!admissionVars, Waivers!followupVars
<1>2. PICK definitive \in BOOLEAN :
          adjudications' = [adjudications EXCEPT ![a] = Waivers!Spent(d, definitive)]
  BY DEF Waivers!AttemptFails
<1>3. d \in WaiverRow /\ RowHolds(d)
  BY QueuedIsActive
<1> QED
  BY <1>1, <1>2, <1>3, SpentRow, ProgressKeeps

LEMMA StartAdjudicationKeeps ==
    ASSUME WaiverInv, NEW a \in Waivers!Ids, Waivers!Start(a) PROVE WaiverInv'
<1> DEFINE d == adjudications[a]
           e == [d EXCEPT !.status = "running"]
<1>1. /\ d.status = "queued" /\ adjudications' = [adjudications EXCEPT ![a] = e]
      /\ desired' = "pending" /\ UNCHANGED <<result, waiverRequests, published, replies>>
  BY DEF Waivers!Start, Waivers!admissionVars, Waivers!followupVars
<1>2. d \in WaiverRow /\ RowHolds(d)
  BY QueuedIsActive
<1>3. /\ e \in WaiverRow /\ e.asks = d.asks /\ e.status = "running" /\ e.decided = d.decided
      /\ e.claim = d.claim /\ e.leased = d.leased /\ e.retry = d.retry
  BY <1>2 DEF WaiverRow
<1> HIDE DEF e
<1>4. RowHolds(e)
  BY <1>1, <1>2, <1>3 DEF RowHolds
<1> QED
  BY <1>1, <1>3, <1>4, ProgressKeeps

\* A running adjudication shows as pending.
LEMMA RunningIsPending ==
    ASSUME WaiverInv, NEW a \in Waivers!Ids, adjudications[a].status = "running"
    PROVE  desired = "pending"
<1>1. a = Len(adjudications) /\ Waivers!Active = {a}
  BY ActiveIsLast DEF WaiverInv
<1>2. adjudications # <<>>
  BY DEF Waivers!Ids
<1> QED
  BY <1>1, <1>2 DEF WaiverInv, Waivers!StatusFollowsOutcome, Waivers!EffectiveOutcome

LEMMA LapseKeeps ==
    ASSUME WaiverInv, NEW a \in Waivers!Ids, adjudications[a].leased,
           adjudications' = [adjudications EXCEPT ![a].leased = FALSE],
           UNCHANGED <<result, waiverRequests, desired, published, replies>>
    PROVE  WaiverInv'
<1> DEFINE d == adjudications[a]
           e == [d EXCEPT !.leased = FALSE]
<1>1. d \in WaiverRow /\ RowHolds(d) /\ d.status \in {"queued", "running"}
  BY QueuedIsActive
<1>2. adjudications' = [adjudications EXCEPT ![a] = e]
  OBVIOUS
<1>3. /\ e \in WaiverRow /\ e.asks = d.asks /\ e.status = d.status /\ e.decided = d.decided
      /\ e.claim = d.claim /\ e.leased = FALSE /\ e.retry = d.retry
  BY <1>1 DEF WaiverRow
<1> HIDE DEF e
<1>4. RowHolds(e)
  BY <1>1, <1>3 DEF RowHolds
<1>5. e.status = "running" => desired' = "pending"
  BY <1>3, RunningIsPending
<1> QED
  BY <1>1, <1>2, <1>3, <1>4, <1>5, ProgressKeeps

-----------------------------------------------------------------------------
\* The triggers leave the outcome that every reader computes.
LEMMA EndKeeps ==
    ASSUME WaiverInv, NEW a \in Waivers!Ids,
           adjudications[a].status \in {"queued", "running"},
           NEW e \in WaiverRow, RowHolds(e), e.asks = adjudications[a].asks,
           e.status \in {"completed", "failed"},
           adjudications' = [adjudications EXCEPT ![a] = e],
           desired' = Waivers!OutcomeAtEnd(a),
           UNCHANGED <<result, waiverRequests>>
    PROVE  WaiverRowsOK' /\ WaiverHistory' /\ Waivers!StatusFollowsOutcome'
<1>1. /\ WaiverRowsOK' /\ WaiverHistory'
      /\ Waivers!Ids' = Waivers!Ids /\ Waivers!Requested' = Waivers!Requested
      /\ adjudications'[a] = e
      /\ Waivers!Active' = {} /\ result # "none" /\ adjudications' # <<>>
      /\ a = Len(adjudications) /\ \A x \in Waivers!Ids : x <= a
  <2>1. WaiverRowsOK /\ WaiverHistory
    BY DEF WaiverInv
  <2>2. /\ WaiverRowsOK' /\ WaiverHistory'
        /\ Waivers!Ids' = Waivers!Ids /\ Waivers!Requested' = Waivers!Requested
        /\ \A x \in Waivers!Ids : adjudications'[x] = IF x = a THEN e ELSE adjudications[x]
        /\ Waivers!Active' = IF e.status \in {"queued", "running"} THEN {a} ELSE {}
        /\ result # "none" /\ adjudications' # <<>> /\ a = Len(adjudications)
    BY <2>1, UpdateKeeps
  <2>3. \A x \in Waivers!Ids : x <= a
    BY <2>1, <2>2, WaiverFields
  <2> QED
    BY <2>2, <2>3
<1>2. Waivers!EffectiveOutcome' =
          IF result = "error" \/ \E r \in Waivers!Requested : Waivers!Errored(r)' THEN "error"
          ELSE IF Blocking # {} THEN "blocking"
          ELSE IF \E f \in Advisory : ~Waivers!Waived(f)' THEN "advisory"
          ELSE "clear"
  BY <1>1 DEF Waivers!EffectiveOutcome
<1>3. adjudications'[a].status = "failed" =>
          \E r \in Waivers!Requested : Waivers!Errored(r)'
  <2> SUFFICES ASSUME adjudications'[a].status = "failed"
               PROVE  \E r \in Waivers!Requested : Waivers!Errored(r)'
    OBVIOUS
  <2>1. PICK r \in e.asks : TRUE
    BY DEF RowHolds
  <2>2. r \in Waivers!Requested'
    BY <1>1, <2>1, WaiverFields DEF WaiverInv
  <2>3. Last(r)' = a
    <3>0. LastIsNewest'
      BY <1>1, LastsAreNewest, PTL
    <3>1. /\ Last(r)' \in Waivers!Ids'
          /\ \A b \in Waivers!Ids' : r \in adjudications'[b].asks => b <= Last(r)'
      BY <2>2, <3>0 DEF LastIsNewest
    <3>2. a <= Last(r)' /\ Last(r)' <= a
      BY <1>1, <2>1, <3>1
    <3> QED
      BY <1>1, <3>1, <3>2, WaiverFields DEF WaiverInv
  <2>4. Waivers!Errored(r)'
    BY <2>3 DEF Waivers!Errored, Last
  <2> QED
    BY <1>1, <2>2, <2>4
<1>4. desired' = Waivers!EffectiveOutcome'
  BY <1>2, <1>3 DEF Waivers!OutcomeAtEnd
<1> QED
  BY <1>1, <1>4 DEF Waivers!StatusFollowsOutcome

LEMMA DecideKeepsWaivers ==
    ASSUME WaiverInv, NEW a \in Waivers!Ids, Waivers!Decide(a) PROVE WaiverInv'
<1> DEFINE d == adjudications[a]
<1>1. PICK decided \in [d.asks -> Waivers!Decisions] :
          adjudications' = [adjudications EXCEPT ![a] =
              [Waivers!Unclaimed(d) EXCEPT !.status = "completed", !.decided = decided]]
  BY DEF Waivers!Decide
<1> DEFINE u == Waivers!Unclaimed(d)
           e == [u EXCEPT !.status = "completed", !.decided = decided]
<1>2. /\ d.status = "running" /\ adjudications' = [adjudications EXCEPT ![a] = e]
      /\ UNCHANGED <<result, waiverRequests, published>>
      /\ desired' = Waivers!OutcomeAtEnd(a)
      /\ replies' = replies \cup {<<a, r>> : r \in {q \in d.asks : Waivers!Replied(a, q)}}
  BY <1>1 DEF Waivers!Decide, Waivers!admissionVars
<1>3. d \in WaiverRow /\ RowHolds(d) /\ d.asks \subseteq Waivers!Requested
  BY QueuedIsActive, WaiverFields DEF WaiverInv
<1>4. /\ u \in WaiverRow /\ u.asks = d.asks /\ u.claim = "none" /\ u.leased = FALSE
  BY <1>3, UnclaimedRow
<1>5. decided \in DecisionsMade
  BY <1>3 DEF DecisionsMade, WaiverRow
<1> HIDE DEF u
<1>6. /\ e \in WaiverRow /\ e.asks = d.asks /\ e.status = "completed"
      /\ e.decided = decided /\ e.claim = "none" /\ e.leased = FALSE
  BY <1>4, <1>5 DEF WaiverRow
<1> HIDE DEF e
<1>7. RowHolds(e)
  BY <1>3, <1>6 DEF RowHolds
<1>8. WaiverRowsOK' /\ WaiverHistory' /\ Waivers!StatusFollowsOutcome'
  BY <1>2, <1>6, <1>7, EndKeeps
<1>9. /\ Waivers!Ids' = Waivers!Ids /\ Waivers!Requested' = Waivers!Requested
      /\ \A x \in Waivers!Ids : adjudications'[x] = IF x = a THEN e ELSE adjudications[x]
  BY <1>2, <1>6, <1>7, UpdateKeeps DEF WaiverInv
<1>10. Waivers!RepliesAreComplete'
  <2> DEFINE Owed(x) == /\ adjudications[x[1]].status = "completed"
                        /\ x[2] \in adjudications[x[1]].asks
                        /\ adjudications[x[1]].decided[x[2]] = "accepted"
                        /\ waiverRequests[x[2]] \in published
             OwedNext(x) == /\ adjudications'[x[1]].status = "completed"
                            /\ x[2] \in adjudications'[x[1]].asks
                            /\ adjudications'[x[1]].decided[x[2]] = "accepted"
                            /\ waiverRequests[x[2]] \in published
             pairs == Waivers!Ids \X Waivers!Requested
             new == {<<a, r>> : r \in {q \in d.asks : Waivers!Replied(a, q)}}
  <2>1. replies = {x \in pairs : Owed(x)}
    BY DEF WaiverInv, Waivers!RepliesAreComplete
  <2>2. ASSUME NEW x \in pairs, x[1] # a PROVE OwedNext(x) <=> Owed(x)
    BY <1>9, <2>2
  <2>3. ASSUME NEW x \in pairs, x[1] = a PROVE ~Owed(x)
    BY <1>2, <2>3
  <2>4. new \subseteq pairs
    BY <1>3
  <2>5. ASSUME NEW x \in pairs PROVE x \in new <=> x[1] = a /\ OwedNext(x)
    <3>1. \A q \in d.asks : Waivers!Replied(a, q) <=>
              e.decided[q] = "accepted" /\ waiverRequests[q] \in published
      BY <1>9 DEF Waivers!Replied
    <3>2. x = <<x[1], x[2]>>
      OBVIOUS
    <3>3. x \in new <=> x[1] = a /\ x[2] \in d.asks /\ Waivers!Replied(a, x[2])
      BY <3>2
    <3>4. adjudications'[a] = e
      BY <1>9
    <3> QED
      BY <1>6, <3>1, <3>3, <3>4
  <2> HIDE DEF Owed, OwedNext, new, pairs
  <2>6. replies' = {x \in pairs : OwedNext(x)}
    BY <1>2, <2>1, <2>2, <2>3, <2>4, <2>5 DEF new
  <2> QED
    BY <1>2, <1>9, <2>6 DEF Waivers!RepliesAreComplete, OwedNext, pairs
<1> QED
  BY <1>8, <1>10 DEF WaiverInv

\* What fails has no Decisions and owes no reply.
LEMMA FailedKeeps ==
    ASSUME WaiverInv, NEW a \in Waivers!Ids, adjudications[a].status = "running",
           adjudications' = [adjudications EXCEPT ![a] =
               [Waivers!Unclaimed(adjudications[a]) EXCEPT !.status = "failed"]],
           desired' = Waivers!OutcomeAtEnd(a),
           UNCHANGED <<result, waiverRequests, published, replies>>
    PROVE  WaiverInv'
<1> DEFINE d == adjudications[a]
           u == Waivers!Unclaimed(d)
           e == [u EXCEPT !.status = "failed"]
<1>1. adjudications' = [adjudications EXCEPT ![a] = e]
  OBVIOUS
<1>2. d \in WaiverRow /\ RowHolds(d)
  BY QueuedIsActive
<1>3. /\ u \in WaiverRow /\ u.asks = d.asks /\ u.claim = "none" /\ u.leased = FALSE
      /\ u.decided = d.decided
  BY <1>2, UnclaimedRow
<1> HIDE DEF u
<1>4. /\ e \in WaiverRow /\ e.asks = d.asks /\ e.status = "failed"
      /\ e.decided = d.decided /\ e.claim = "none" /\ e.leased = FALSE
  BY <1>3 DEF WaiverRow
<1> HIDE DEF e
<1>5. RowHolds(e)
  BY <1>2, <1>4 DEF RowHolds
<1>6. WaiverRowsOK' /\ WaiverHistory' /\ Waivers!StatusFollowsOutcome'
  BY <1>1, <1>4, <1>5, EndKeeps
<1>7. /\ Waivers!Ids' = Waivers!Ids /\ Waivers!Requested' = Waivers!Requested
      /\ \A x \in Waivers!Ids : adjudications'[x] = IF x = a THEN e ELSE adjudications[x]
  BY <1>1, <1>4, <1>5, UpdateKeeps DEF WaiverInv
<1>8. Waivers!RepliesAreComplete'
  <2> DEFINE pairs == Waivers!Ids \X Waivers!Requested
  <2>1. replies = {x \in pairs : /\ adjudications[x[1]].status = "completed"
                                 /\ x[2] \in adjudications[x[1]].asks
                                 /\ adjudications[x[1]].decided[x[2]] = "accepted"
                                 /\ waiverRequests[x[2]] \in published}
    BY DEF WaiverInv, Waivers!RepliesAreComplete
  <2>2. ASSUME NEW x \in pairs
        PROVE  (/\ adjudications[x[1]].status = "completed"
                /\ x[2] \in adjudications[x[1]].asks
                /\ adjudications[x[1]].decided[x[2]] = "accepted") <=>
               (/\ adjudications'[x[1]].status = "completed"
                /\ x[2] \in adjudications'[x[1]].asks
                /\ adjudications'[x[1]].decided[x[2]] = "accepted")
    BY <1>4, <1>7
  <2>3. replies' = {x \in pairs : /\ adjudications'[x[1]].status = "completed"
                                  /\ x[2] \in adjudications'[x[1]].asks
                                  /\ adjudications'[x[1]].decided[x[2]] = "accepted"
                                  /\ waiverRequests'[x[2]] \in published'}
    BY <2>1, <2>2
  <2> QED
    BY <1>7, <2>3 DEF Waivers!RepliesAreComplete
<1> QED
  BY <1>6, <1>8 DEF WaiverInv

LEMMA FailKeeps ==
    ASSUME WaiverInv, NEW a \in Waivers!Ids, Waivers!Fail(a) PROVE WaiverInv'
BY FailedKeeps DEF Waivers!Fail, Waivers!admissionVars, Waivers!followupVars

\* A restart is a failure of what ran or the lapse of a lease.
LEMMA RestartKeeps == ASSUME WaiverInv, Waivers!Restart PROVE WaiverInv'
<1>1. PICK a \in Waivers!Ids : adjudications[a].leased \/ adjudications[a].status = "running"
  BY DEF Waivers!Restart
<1>2. adjudications[a].status \in {"queued", "running"}
  BY <1>1, QueuedIsActive
<1>3. Waivers!Active = {a} /\ WaiverRowsOK
  BY <1>2, ActiveIsLast DEF WaiverInv
<1>4. ASSUME NEW x \in Waivers!Ids, x # a
      PROVE  adjudications[x].status # "running"
             /\ [adjudications[x] EXCEPT !.leased = FALSE] = adjudications[x]
  <2>1. adjudications[x].status \notin {"queued", "running"}
    BY <1>3, <1>4 DEF Waivers!Active
  <2>2. adjudications[x] \in WaiverRow /\ ~adjudications[x].leased
    BY <2>1, QueuedIsActive
  <2>3. adjudications[x].leased = FALSE
    BY <2>2 DEF WaiverRow
  <2> QED
    BY <2>1, <2>2, <2>3 DEF WaiverRow
<1>5. /\ UNCHANGED <<result, waiverRequests, published, replies>>
      /\ adjudications' = [x \in Waivers!Ids |->
             IF adjudications[x].status = "running"
             THEN [Waivers!Unclaimed(adjudications[x]) EXCEPT !.status = "failed"]
             ELSE [adjudications[x] EXCEPT !.leased = FALSE]]
      /\ desired' = IF \E x \in Waivers!Active : adjudications[x].status = "running"
                    THEN Waivers!OutcomeAtEnd(Waivers!Newest(Waivers!Active)) ELSE desired
  BY DEF Waivers!Restart, Waivers!admissionVars, Waivers!followupVars
<1>6. adjudications = [x \in Waivers!Ids |-> adjudications[x]]
  BY <1>3 DEF WaiverRowsOK, Waivers!Ids
<1>7. CASE adjudications[a].status = "running"
  <2>1. adjudications' = [adjudications EXCEPT ![a] =
            [Waivers!Unclaimed(adjudications[a]) EXCEPT !.status = "failed"]]
    BY <1>4, <1>5, <1>6, <1>7
  <2>2. Waivers!Newest(Waivers!Active) = a
    <3>1. Waivers!Active \in SUBSET (1 .. Len(adjudications)) /\ Waivers!Active # {}
      BY <1>3, WaiverFields
    <3> QED
      BY <1>3, <3>1, NewestIsLast, WaiverFields
  <2>3. desired' = Waivers!OutcomeAtEnd(a)
    BY <1>3, <1>5, <1>7, <2>2
  <2> QED
    BY <1>5, <1>7, <2>1, <2>3, FailedKeeps
<1>8. CASE adjudications[a].status # "running"
  <2>1. adjudications' = [adjudications EXCEPT ![a].leased = FALSE]
    BY <1>4, <1>5, <1>6, <1>8
  <2>2. desired' = desired
    BY <1>3, <1>5, <1>8
  <2> QED
    BY <1>1, <1>5, <1>8, <2>1, <2>2, LapseKeeps
<1> QED
  BY <1>7, <1>8

LEMMA PublishInlineKeeps ==
    ASSUME WaiverInv, NEW f \in Waivers!Findings, Waivers!PublishInline(f) PROVE WaiverInv'
<1>1. /\ published' = published \cup {f} /\ replies' = replies \cup Waivers!RepliesAfter(f)
      /\ UNCHANGED <<result, waiverRequests, adjudications, desired>>
  BY DEF Waivers!PublishInline, Waivers!admissionVars
<1>2. WaiverRowsOK' /\ WaiverHistory'
  BY <1>1, RowsStay, HistoryStays DEF WaiverInv, WaiverRowsOK
<1>3. Waivers!StatusFollowsOutcome'
  <2>1. Waivers!EffectiveOutcome' = Waivers!EffectiveOutcome
    BY <1>1, OutcomeStays
  <2> QED
    BY <1>1, <2>1
    DEF WaiverInv, Waivers!StatusFollowsOutcome, Waivers!Active, Waivers!Ids
<1>4. Waivers!RepliesAreComplete'
  <2> DEFINE Owed(x) == /\ adjudications[x[1]].status = "completed"
                        /\ x[2] \in adjudications[x[1]].asks
                        /\ adjudications[x[1]].decided[x[2]] = "accepted"
             pairs == Waivers!Ids \X Waivers!Requested
  <2>1. replies = {x \in pairs : Owed(x) /\ waiverRequests[x[2]] \in published}
    BY DEF WaiverInv, Waivers!RepliesAreComplete
  <2>2. Waivers!RepliesAfter(f) = {x \in pairs : Owed(x) /\ waiverRequests[x[2]] = f}
    BY DEF Waivers!RepliesAfter, Waivers!RequestsOf
  <2> HIDE DEF Owed, pairs
  <2>3. replies' = {x \in pairs : Owed(x) /\ waiverRequests[x[2]] \in published'}
    BY <1>1, <2>1, <2>2
  <2>4. Waivers!Ids' = Waivers!Ids /\ Waivers!Requested' = Waivers!Requested
    BY <1>1 DEF Waivers!Ids, Waivers!Requested
  <2> QED
    BY <1>1, <2>3, <2>4 DEF Waivers!RepliesAreComplete, Owed, pairs
<1> QED
  BY <1>2, <1>3, <1>4 DEF WaiverInv

-----------------------------------------------------------------------------
\* What may be asked: nothing that is settled, all or nothing of what failed.
MayAsk(R) ==
    /\ \A a \in Waivers!Ids : \A r \in R : ~Settles(a, r)
    /\ \A a \in Waivers!Ids : \A q \in adjudications[a].asks :
          adjudications[a].status = "failed" /\ q \in R =>
              \A r \in adjudications[a].asks :
                  r \in R \/ \E c \in Waivers!Ids : a < c /\ r \in adjudications[c].asks

\* The Requests there are stay, new ones are asked for and follow a denial.
RequestsGrow(R) ==
    /\ waiverRequests' \in Seq(Advisory) /\ Waivers!Requested \subseteq Waivers!Requested'
    /\ \A r \in Waivers!Requested : waiverRequests'[r] = waiverRequests[r]
    /\ Waivers!Requested' \subseteq Waivers!Requested \cup R /\ R \subseteq Waivers!Requested'
    /\ \A q \in Waivers!Requested', r \in Waivers!Requested' :
          r < q /\ waiverRequests'[r] = waiverRequests'[q] =>
              \E a \in Waivers!Ids : Settles(a, r) /\ adjudications[a].decided[r] = "denied"
    /\ WithinLimit'

LEMMA QueuedRow ==
    ASSUME NEW R \in SUBSET Nat, R # {}
    PROVE  /\ Waivers!Queued(R) \in WaiverRow /\ RowHolds(Waivers!Queued(R))
           /\ Waivers!Queued(R).asks = R /\ Waivers!Queued(R).status = "queued"
BY DEF Waivers!Queued, WaiverRow, RowHolds, DecisionsMade

LEMMA QueueKeeps ==
    ASSUME WaiverInv, result # "none", Waivers!Active = {}, NEW R \in SUBSET Nat, R # {},
           adjudications' = Append(adjudications, Waivers!Queued(R)),
           MayAsk(R), RequestsGrow(R), UNCHANGED <<result, desired, published, replies>>
    PROVE  WaiverInv'
<1>0. PICK n \in Nat : n = Len(adjudications) + 1
  BY WaiverFields DEF WaiverInv
<1> DEFINE e == Waivers!Queued(R)
<1>1. e \in WaiverRow /\ RowHolds(e) /\ e.asks = R /\ e.status = "queued"
  BY QueuedRow
<1>2. /\ WaiverRowsOK /\ WaiverHistory /\ n \in Nat /\ Waivers!Ids = 1 .. Len(adjudications)
      /\ Len(adjudications) \in Nat
      /\ \A x \in Waivers!Ids : adjudications[x].asks \subseteq Waivers!Requested
                              /\ RowHolds(adjudications[x])
      /\ adjudications \in Seq(WaiverRow)
      /\ Waivers!Requested \subseteq Nat
  BY WaiverFields DEF WaiverInv, WaiverRowsOK
<1> HIDE DEF e
<1>3. /\ adjudications' \in Seq(WaiverRow) /\ Len(adjudications') = n
      /\ Waivers!Ids' = Waivers!Ids \cup {n} /\ n \notin Waivers!Ids
      /\ \A x \in Waivers!Ids : adjudications'[x] = adjudications[x] /\ x < n
      /\ adjudications'[n] = e
  <2>1. adjudications' = Append(adjudications, e)
    BY DEF e
  <2> QED
    BY <1>0, <1>1, <1>2, <2>1 DEF Waivers!Ids
<1>4. /\ Waivers!Active' = {n} /\ adjudications' # <<>>
  <2>1. Waivers!Active' = {n}
    BY <1>1, <1>3 DEF Waivers!Active
  <2>2. adjudications' # <<>>
    BY <1>2, <1>3
  <2> QED
    BY <2>1, <2>2
<1>5. WaiverRowsOK'
  <2>1. ASSUME NEW x \in Waivers!Ids'
        PROVE  /\ RowHolds(adjudications'[x])
               /\ adjudications'[x].asks \subseteq Waivers!Requested'
               /\ x \in Waivers!Active' => x = Len(adjudications')
    <3>1. CASE x \in Waivers!Ids
      BY <1>2, <1>3, <1>4, <3>1 DEF RequestsGrow
    <3>2. CASE x = n
      BY <1>1, <1>3, <1>4, <3>2 DEF RequestsGrow
    <3> QED
      BY <1>3, <3>1, <3>2
  <2>2. \A r \in Waivers!Requested' : \E x \in Waivers!Ids' : r \in adjudications'[x].asks
    <3> TAKE r \in Waivers!Requested'
    <3>1. CASE r \in Waivers!Requested
      <4>1. PICK x \in Waivers!Ids : r \in adjudications[x].asks
        BY <1>2, <3>1 DEF WaiverRowsOK
      <4> QED
        BY <1>3, <4>1
    <3>2. CASE r \in R
      BY <1>1, <1>3, <3>2
    <3> QED
      BY <3>1, <3>2 DEF RequestsGrow
  <2>3. waiverRequests' \in Seq(Advisory) /\ result' \in Outcomes \cup {"none"}
        /\ result' # "none"
    BY <1>2 DEF RequestsGrow, WaiverRowsOK
  <2> QED
    BY <1>3, <2>1, <2>2, <2>3 DEF WaiverRowsOK
<1>6. ASSUME NEW x \in Waivers!Ids, NEW r
      PROVE  Settles(x, r)' <=> Settles(x, r)
  BY <1>3 DEF Settles
<1>7. ASSUME NEW r PROVE ~Settles(n, r)'
  BY <1>1, <1>3 DEF Settles
<1>8. SettledIsLast'
  <2> SUFFICES ASSUME NEW x \in Waivers!Ids', NEW b \in Waivers!Ids',
                      NEW r \in adjudications'[b].asks, Settles(x, r)'
               PROVE  b <= x
    BY DEF SettledIsLast
  <2>1. x \in Waivers!Ids /\ Settles(x, r)
    BY <1>3, <1>6, <1>7
  <2>2. CASE b = n
    BY <1>1, <1>3, <2>1, <2>2 DEF MayAsk
  <2>3. CASE b \in Waivers!Ids
    BY <1>2, <1>3, <2>1, <2>3 DEF WaiverHistory, SettledIsLast
  <2> QED
    BY <1>3, <2>2, <2>3
<1>9. DeniedIsFollowed'
  <2> SUFFICES ASSUME NEW q \in Waivers!Requested', NEW r \in Waivers!Requested',
                      r < q, waiverRequests'[r] = waiverRequests'[q]
               PROVE  \E x \in Waivers!Ids' :
                          Settles(x, r)' /\ adjudications'[x].decided[r] = "denied"
    BY DEF DeniedIsFollowed
  <2>1. PICK x \in Waivers!Ids : Settles(x, r) /\ adjudications[x].decided[r] = "denied"
    BY DEF RequestsGrow
  <2> QED
    BY <1>3, <1>6, <2>1
<1>10. FailedTogether'
  <2> SUFFICES ASSUME NEW x \in Waivers!Ids', NEW b \in Waivers!Ids',
                      NEW q \in adjudications'[x].asks, adjudications'[x].status = "failed",
                      x < b, q \in adjudications'[b].asks,
                      NEW r \in adjudications'[x].asks
               PROVE  \E c \in Waivers!Ids' : x < c /\ r \in adjudications'[c].asks
    BY DEF FailedTogether
  <2>1. /\ x \in Waivers!Ids /\ adjudications[x].status = "failed"
        /\ q \in adjudications[x].asks /\ r \in adjudications[x].asks
    BY <1>1, <1>3
  <2>2. CASE b = n
    <3>1. r \in R \/ \E c \in Waivers!Ids : x < c /\ r \in adjudications[c].asks
      BY <1>1, <1>3, <2>1, <2>2 DEF MayAsk
    <3> QED
      BY <1>1, <1>3, <2>1, <3>1
  <2>3. CASE b \in Waivers!Ids
    <3>1. \E c \in Waivers!Ids : x < c /\ r \in adjudications[c].asks
      BY <1>2, <1>3, <2>1, <2>3 DEF WaiverHistory, FailedTogether
    <3> QED
      BY <1>3, <3>1
  <2> QED
    BY <1>3, <2>2, <2>3
<1>11. Waivers!StatusFollowsOutcome'
  BY <1>1, <1>3, <1>4 DEF Waivers!StatusFollowsOutcome
<1>12. Waivers!RepliesAreComplete'
  <2> DEFINE Owed(x) == /\ adjudications[x[1]].status = "completed"
                        /\ x[2] \in adjudications[x[1]].asks
                        /\ adjudications[x[1]].decided[x[2]] = "accepted"
                        /\ waiverRequests[x[2]] \in published
             OwedNext(x) == /\ adjudications'[x[1]].status = "completed"
                            /\ x[2] \in adjudications'[x[1]].asks
                            /\ adjudications'[x[1]].decided[x[2]] = "accepted"
                            /\ waiverRequests'[x[2]] \in published
             pairs == Waivers!Ids \X Waivers!Requested
             pairsNext == Waivers!Ids' \X Waivers!Requested'
  <2>1. replies = {x \in pairs : Owed(x)}
    BY DEF WaiverInv, Waivers!RepliesAreComplete
  <2>2. ASSUME NEW x \in pairsNext, OwedNext(x) PROVE x \in pairs /\ Owed(x)
    <3>1. x[1] \in Waivers!Ids
      BY <1>1, <1>3, <2>2
    <3>2. x[2] \in Waivers!Requested
      BY <1>2, <1>3, <2>2, <3>1
    <3>3. x = <<x[1], x[2]>>
      BY <2>2
    <3>4. x \in pairs
      BY <3>1, <3>2, <3>3
    <3>5. Owed(x)
      BY <1>3, <2>2, <3>1, <3>2 DEF RequestsGrow
    <3> QED
      BY <3>4, <3>5
  <2>3. ASSUME NEW x \in pairs, Owed(x) PROVE x \in pairsNext /\ OwedNext(x)
    <3>1. x \in pairsNext
      BY <1>3 DEF RequestsGrow
    <3>2. OwedNext(x)
      BY <1>3, <2>3 DEF RequestsGrow
    <3> QED
      BY <3>1, <3>2
  <2> HIDE DEF Owed, OwedNext, pairs, pairsNext
  <2>4. replies' = {x \in pairsNext : OwedNext(x)}
    BY <2>1, <2>2, <2>3
  <2> QED
    BY <2>4 DEF Waivers!RepliesAreComplete, OwedNext, pairsNext
<1> QED
  BY <1>5, <1>8, <1>9, <1>10, <1>11, <1>12 DEF WaiverInv, WaiverHistory, RequestsGrow

\* The same Requests again.
LEMMA RequestsStay ==
    ASSUME WaiverInv, UNCHANGED waiverRequests, NEW R \in SUBSET Waivers!Requested
    PROVE  RequestsGrow(R)
<1>1. Waivers!Requested' = Waivers!Requested
  BY DEF Waivers!Requested
<1>2. WithinLimit'
  BY DEF WaiverInv, WaiverHistory, WithinLimit, Waivers!RequestsOf, Waivers!Requested
<1> QED
  BY <1>1, <1>2 DEF WaiverInv, WaiverHistory, WaiverRowsOK, DeniedIsFollowed, RequestsGrow

\* What was not decided for an error is not settled, and its failures are past.
LEMMA RetryMayAsk ==
    ASSUME WaiverInv, NEW R \in SUBSET Waivers!Requested,
           \A r \in R : Waivers!LatestDecision(r) = "error"
    PROVE  MayAsk(R)
<1>0. WaiverRowsOK /\ SettledIsLast /\ FailedTogether
  BY DEF WaiverInv, WaiverHistory
<1>1. ASSUME NEW a \in Waivers!Ids, NEW r \in R, Settles(a, r) PROVE FALSE
  <2>1. Waivers!LatestDecision(r) = adjudications[a].decided[r]
    BY <1>0, <1>1, SettledIsSeen
  <2> QED
    BY <1>1, <2>1 DEF Settles
<1>2. ASSUME NEW a \in Waivers!Ids, NEW q \in adjudications[a].asks,
             adjudications[a].status = "failed", q \in R,
             NEW r \in adjudications[a].asks
      PROVE  \E c \in Waivers!Ids : a < c /\ r \in adjudications[c].asks
  <2>1. adjudications[Last(q)].status = "completed"
    BY <1>0, <1>2, LatestIs
  <2>2. Last(q) \in Waivers!Ids /\ q \in adjudications[Last(q)].asks /\ a <= Last(q)
    BY <1>0, <1>2, LastAsks
  <2>3. a < Last(q)
    BY <1>0, <1>2, <2>1, <2>2, WaiverFields
  <2> QED
    BY <1>0, <1>2, <2>2, <2>3 DEF FailedTogether
<1> QED
  BY <1>1, <1>2 DEF MayAsk

LEMMA RecoveryMayAsk ==
    ASSUME WaiverInv, NEW f \in Waivers!Ids, adjudications[f].status = "failed",
           \A r \in adjudications[f].asks : Last(r) = f
    PROVE  MayAsk(adjudications[f].asks)
<1>0. WaiverRowsOK /\ SettledIsLast /\ FailedTogether
      /\ adjudications[f].asks \subseteq Waivers!Requested
  BY WaiverFields DEF WaiverInv, WaiverHistory
<1>1. ASSUME NEW a \in Waivers!Ids, NEW r \in adjudications[f].asks, Settles(a, r) PROVE FALSE
  <2>1. Last(r) = a
    BY <1>0, <1>1, SettledIsSeen
  <2> QED
    BY <1>1, <2>1 DEF Settles
<1>2. ASSUME NEW a \in Waivers!Ids, NEW q \in adjudications[a].asks,
             adjudications[a].status = "failed", q \in adjudications[f].asks,
             NEW r \in adjudications[a].asks
      PROVE  r \in adjudications[f].asks
             \/ \E c \in Waivers!Ids : a < c /\ r \in adjudications[c].asks
  <2>1. a <= f
    BY <1>0, <1>2, LastAsks
  <2>2. CASE a = f
    BY <2>2
  <2>3. CASE a < f
    BY <1>0, <1>2, <2>3 DEF FailedTogether
  <2> QED
    BY <1>0, <2>1, <2>2, <2>3, WaiverFields
<1> QED
  BY <1>1, <1>2 DEF MayAsk

\* Where there is a Request there is a Result.
LEMMA RequestedHasResult ==
    ASSUME WaiverInv, NEW r \in Waivers!Requested PROVE result # "none"
<1>1. PICK a \in Waivers!Ids : TRUE
  BY DEF WaiverInv, WaiverRowsOK
<1>2. adjudications # <<>>
  BY DEF Waivers!Ids
<1> QED
  BY <1>2 DEF WaiverInv, WaiverRowsOK

LEMMA RetryErrorsKeeps ==
    ASSUME WaiverInv, NEW R \in SUBSET Waivers!Requested, Waivers!RetryErrors(R)
    PROVE  WaiverInv'
<1>1. /\ Waivers!Active = {} /\ R # {}
      /\ \A r \in R : Waivers!LatestDecision(r) = "error"
      /\ adjudications' = Append(adjudications, Waivers!Queued(R))
      /\ UNCHANGED <<result, waiverRequests, desired, published, replies>>
  BY DEF Waivers!RetryErrors, Waivers!MayRetry, Waivers!Queue, Waivers!admissionVars,
         Waivers!followupVars
<1>2. R \in SUBSET Nat
  BY WaiverFields DEF WaiverInv
<1>3. result # "none"
  BY <1>1, RequestedHasResult
<1>4. MayAsk(R) /\ RequestsGrow(R)
  BY <1>1, RetryMayAsk, RequestsStay
<1> QED
  BY <1>1, <1>2, <1>3, <1>4, QueueKeeps

LEMMA RecoverFailedKeeps ==
    ASSUME WaiverInv, NEW a \in Waivers!Ids, Waivers!RecoverFailed(a)
    PROVE  WaiverInv'
<1> DEFINE R == adjudications[a].asks
<1>1. /\ Waivers!Active = {} /\ adjudications[a].status = "failed"
      /\ \A r \in R : Last(r) = a
      /\ adjudications' = Append(adjudications, Waivers!Queued(R))
      /\ UNCHANGED <<result, waiverRequests, desired, published, replies>>
  BY DEF Waivers!RecoverFailed, Waivers!Queue, Waivers!admissionVars, Waivers!followupVars, Last
<1>2. R \in SUBSET Nat /\ R \in SUBSET Waivers!Requested /\ R # {}
  BY WaiverFields DEF WaiverInv, RowHolds
<1>3. result # "none"
  BY <1>2, RequestedHasResult
<1>4. MayAsk(R) /\ RequestsGrow(R)
  BY <1>1, <1>2, RecoveryMayAsk, RequestsStay
<1> HIDE DEF R
<1> QED
  BY <1>1, <1>2, <1>3, <1>4, QueueKeeps

\* What may be requested: nothing is open and the limit is not reached.
LEMMA NewRequestsFollow ==
    ASSUME WaiverInv, NEW f \in Advisory, Waivers!NextAction(f) = "new_request"
    PROVE  /\ Waivers!Cardinality(Waivers!RequestsOf(f)) < RequestLimit
           /\ ~Waivers!Waived(f)
           /\ Waivers!RequestsOf(f) # {} =>
                  Waivers!NewestDecision(Waivers!Newest(Waivers!RequestsOf(f))) = "denied"
           /\ \A r \in Waivers!RequestsOf(f) :
                \E a \in Waivers!Ids : Settles(a, r) /\ adjudications[a].decided[r] = "denied"
<1>0. WaiverRowsOK /\ SettledIsLast /\ DeniedIsFollowed /\ WithinLimit
  BY DEF WaiverInv, WaiverHistory
<1> DEFINE S == Waivers!RequestsOf(f)
           q == Waivers!Newest(S)
           latest == Waivers!NewestDecision(q)
<1>1. /\ ~Waivers!Waived(f)
      /\ S # {} => latest # "error" /\ latest # "none"
                    /\ Waivers!Cardinality(S) # RequestLimit
  BY DEF Waivers!NextAction
<1>2. S \in SUBSET (1 .. Len(waiverRequests)) /\ Len(waiverRequests) \in Nat
  BY <1>0, WaiverFields DEF Waivers!RequestsOf
<1>3. Waivers!Cardinality(S) \in Nat
  <2> HIDE DEF S
  <2>0. IsFiniteSet(1 .. Len(waiverRequests))
    BY <1>2, FS_Interval
  <2>1. IsFiniteSet(S)
    BY <1>2, <2>0, FS_Subset
  <2>2. Cardinality(S) \in Nat
    BY <2>1, FS_CardinalityType
  <2> QED
    BY <2>2 DEF Waivers!Cardinality, Cardinality
<1>4. Waivers!Cardinality(S) < RequestLimit
  <2>1. CASE S = {}
    <3>1. Waivers!Cardinality({}) = 0
      BY FS_EmptySet DEF Waivers!Cardinality, Cardinality
    <3> HIDE DEF S
    <3>2. Waivers!Cardinality(S) = 0
      BY <2>1, <3>1
    <3> QED
      BY <3>2, WaiverBounds
  <2>2. CASE S # {}
    <3>1. Waivers!Cardinality(S) <= RequestLimit
      BY <1>0 DEF WithinLimit
    <3> HIDE DEF S
    <3> QED
      BY <1>1, <1>3, <2>2, <3>1, WaiverBounds
  <2> QED
    BY <2>1, <2>2
<1>5. S # {} => /\ q \in S /\ q \in Waivers!Requested /\ latest = "denied"
                /\ \E a \in Waivers!Ids : Settles(a, q) /\ adjudications[a].decided[q] = "denied"
  <2> SUFFICES ASSUME S # {}
               PROVE  /\ q \in S /\ q \in Waivers!Requested /\ latest = "denied"
                      /\ \E a \in Waivers!Ids :
                            Settles(a, q) /\ adjudications[a].decided[q] = "denied"
    OBVIOUS
  <2>1. q \in S
    BY <1>0, NewestRequest
  <2>2. q \in Waivers!Requested
    BY <2>1 DEF Waivers!RequestsOf
  <2>3. latest # "accepted"
    BY <1>1, <2>1 DEF Waivers!Waived
  <2> HIDE DEF q
  <2>4. PICK a \in Waivers!Ids :
          /\ q \in adjudications[a].asks /\ adjudications[a].status = "completed"
          /\ latest = adjudications[a].decided[q]
          /\ adjudications[a].decided[q] \in Waivers!Decisions
    BY <1>0, <1>1, <2>2, DecisionWasMade
  <2>5. latest = "denied"
    BY <1>1, <2>3, <2>4 DEF Waivers!Decisions
  <2> QED
    BY <2>1, <2>2, <2>4, <2>5 DEF Settles
<1>6. ASSUME NEW r \in S
      PROVE  \E a \in Waivers!Ids : Settles(a, r) /\ adjudications[a].decided[r] = "denied"
  <2>1. q \in S /\ q \in Waivers!Requested /\ r <= q
    BY <1>0, <1>5, NewestRequest
  <2>2. /\ r \in Waivers!Requested /\ r \in Nat /\ q \in Nat
        /\ waiverRequests[r] = waiverRequests[q]
    BY <1>2, <2>1 DEF Waivers!RequestsOf
  <2>3. CASE r = q
    BY <1>5, <2>3
  <2>4. CASE r < q
    BY <1>0, <2>1, <2>2, <2>4 DEF DeniedIsFollowed
  <2> HIDE DEF q
  <2> QED
    BY <2>1, <2>2, <2>3, <2>4
<1> QED
  BY <1>1, <1>4, <1>5, <1>6

\* A batch adds one Request for each of its Findings.
LEMMA BatchGrows ==
    ASSUME WaiverInv, NEW F \in SUBSET Advisory,
           \A f \in F : Waivers!NextAction(f) = "new_request",
           NEW k \in Nat, NEW new \in [1 .. k -> F],
           \A i \in 1 .. k, j \in 1 .. k : i # j => new[i] # new[j],
           waiverRequests' = waiverRequests \o new
    PROVE  LET R == {Len(waiverRequests) + i : i \in 1 .. k} IN
           /\ RequestsGrow(R) /\ MayAsk(R)
           /\ \A r \in R : r \notin Waivers!Requested
           /\ \A r \in Waivers!Requested' \ Waivers!Requested : waiverRequests'[r] \in F
<1>0. PICK n \in Nat : n = Len(waiverRequests)
  BY WaiverFields DEF WaiverInv
<1> DEFINE R == {n + i : i \in 1 .. k}
<1>1. /\ WaiverRowsOK /\ waiverRequests \in Seq(Advisory) /\ Waivers!Requested = 1 .. n
      /\ \A a \in Waivers!Ids : adjudications[a].asks \subseteq Waivers!Requested
  BY <1>0, WaiverFields DEF WaiverInv, WaiverRowsOK
<1>2. /\ waiverRequests' \in Seq(Advisory) /\ Len(waiverRequests') = n + k
      /\ \A r \in 1 .. n : waiverRequests'[r] = waiverRequests[r]
      /\ \A i \in 1 .. k : waiverRequests'[n + i] = new[i]
  <2>1. new \in Seq(Advisory) /\ Len(new) = k
    OBVIOUS
  <2>2. waiverRequests' \in Seq(Advisory)
    BY <1>1, <2>1
  <2>3. Len(waiverRequests') = n + k
    <3>1. Len(waiverRequests \o new) = Len(waiverRequests) + Len(new)
      BY <1>1, <2>1, ConcatProperties
    <3> QED
      BY <1>0, <2>1, <3>1
  <2>4. ASSUME NEW r \in 1 .. n PROVE waiverRequests'[r] = waiverRequests[r]
    BY <1>0, <1>1, <2>1
  <2>5. ASSUME NEW i \in 1 .. k PROVE waiverRequests'[n + i] = new[i]
    <3>1. PICK m \in Nat : m = n + i
      OBVIOUS
    <3>2. m \in 1 .. (Len(waiverRequests) + Len(new)) /\ m > Len(waiverRequests)
      BY <1>0, <2>1, <3>1
    <3>3. waiverRequests'[m] = new[m - Len(waiverRequests)]
      BY <1>1, <2>1, <3>2
    <3>4. m - Len(waiverRequests) = i
      BY <1>0, <3>1
    <3> QED
      BY <3>1, <3>3, <3>4
  <2> QED
    BY <2>2, <2>3, <2>4, <2>5
<1>3. Waivers!Requested' = 1 .. (n + k)
  BY <1>2 DEF Waivers!Requested
<1>4. ASSUME NEW r \in 1 .. (n + k), r > n
      PROVE  r \in R /\ r - n \in 1 .. k /\ waiverRequests'[r] = new[r - n]
             /\ waiverRequests'[r] \in F
  <2>1. r - n \in 1 .. k /\ r = n + (r - n)
    BY <1>4
  <2> QED
    BY <1>2, <2>1
<1>5. ASSUME NEW q \in 1 .. (n + k), NEW r \in 1 .. (n + k), r < q,
             waiverRequests'[r] = waiverRequests'[q]
      PROVE  \E a \in Waivers!Ids : Settles(a, r) /\ adjudications[a].decided[r] = "denied"
  <2>1. CASE q <= n
    <3>1. q \in Waivers!Requested /\ r \in Waivers!Requested
          /\ waiverRequests[r] = waiverRequests[q]
      BY <1>1, <1>2, <1>5, <2>1
    <3> QED
      BY <1>5, <3>1 DEF WaiverInv, WaiverHistory, DeniedIsFollowed
  <2>2. CASE q > n /\ r <= n
    <3>1. waiverRequests'[q] \in F
      BY <1>4, <2>2
    <3>2. r \in Waivers!Requested /\ waiverRequests[r] = waiverRequests'[q]
      BY <1>1, <1>2, <1>5, <2>2
    <3>3. r \in Waivers!RequestsOf(waiverRequests'[q])
      BY <3>2 DEF Waivers!RequestsOf
    <3> QED
      BY <3>1, <3>3, NewRequestsFollow
  <2>3. CASE q > n /\ r > n
    <3>1. PICK i \in 1 .. k : i = q - n /\ waiverRequests'[q] = new[i]
      BY <1>4, <2>3
    <3>2. PICK j \in 1 .. k : j = r - n /\ waiverRequests'[r] = new[j]
      BY <1>4, <2>3
    <3>3. i # j
      BY <1>5, <3>1, <3>2
    <3>4. new[i] # new[j]
      BY <3>3
    <3> QED
      BY <1>5, <3>1, <3>2, <3>4
  <2> QED
    BY <2>1, <2>2, <2>3
<1>6. WithinLimit'
  <2> SUFFICES ASSUME NEW f \in Advisory
               PROVE  Waivers!Cardinality(Waivers!RequestsOf(f)') <= RequestLimit
    BY DEF WithinLimit
  <2> DEFINE S == Waivers!RequestsOf(f)
             T == {r \in 1 .. (n + k) : waiverRequests'[r] = f}
  <2>1. Waivers!RequestsOf(f)' = T
    BY <1>3 DEF Waivers!RequestsOf
  <2>2. \A r : r \in S <=> r \in 1 .. n /\ waiverRequests'[r] = f
    BY <1>1, <1>2 DEF Waivers!RequestsOf
  <2>3. S \in SUBSET (1 .. n)
    BY <2>2
  <2> HIDE DEF S
  <2>4. IsFiniteSet(S) /\ Cardinality(S) \in Nat
    <3>1. IsFiniteSet(1 .. n)
      BY FS_Interval
    <3>2. IsFiniteSet(S)
      BY <2>3, <3>1, FS_Subset
    <3> QED
      BY <3>2, FS_CardinalityType
  <2>8. \A r : r \in T <=> r \in 1 .. (n + k) /\ waiverRequests'[r] = f
    OBVIOUS
  <2>9. S \subseteq T
    BY <1>0, <2>2, <2>8
  <2> HIDE DEF T
  <2>5. \A X : Waivers!Cardinality(X) = Cardinality(X)
    BY DEF Waivers!Cardinality, Cardinality
  <2>6. CASE \E i \in 1 .. k : new[i] = f
    <3>1. PICK i \in 1 .. k : new[i] = f
      BY <2>6
    <3>2. T = S \cup {n + i}
      <4>1. ASSUME NEW r \in T PROVE r \in S \cup {n + i}
        <5>0. r \in 1 .. (n + k) /\ waiverRequests'[r] = f
          BY <2>8
        <5>1. CASE r <= n
          BY <1>0, <2>2, <5>0, <5>1
        <5>2. CASE r > n
          <6>1. PICK j \in 1 .. k : j = r - n /\ new[j] = f
            BY <1>4, <5>0, <5>2
          <6>2. j = i
            BY <3>1, <6>1
          <6> QED
            BY <5>0, <6>1, <6>2
        <5> QED
          BY <5>0, <5>1, <5>2
      <4>2. n + i \in T
        BY <1>0, <1>2, <2>8, <3>1
      <4> QED
        BY <2>9, <4>1, <4>2
    <3>3. Cardinality(T) = IF n + i \in S THEN Cardinality(S) ELSE Cardinality(S) + 1
      BY <2>4, <3>2, FS_AddElement
    <3>4. Cardinality(S) < RequestLimit
      BY <2>5, <3>1, NewRequestsFollow DEF S
    <3> QED
      BY <2>1, <2>4, <2>5, <3>3, <3>4, WaiverBounds
  <2>7. CASE ~\E i \in 1 .. k : new[i] = f
    <3>1. T = S
      <4>1. ASSUME NEW r \in T PROVE r \in S
        <5>1. r \in 1 .. (n + k) /\ waiverRequests'[r] = f
          BY <2>8
        <5>2. r <= n
          BY <1>0, <1>4, <2>7, <5>1
        <5> QED
          BY <1>0, <2>2, <5>1, <5>2
      <4> QED
        BY <2>9, <4>1
    <3>2. Waivers!Cardinality(S) <= RequestLimit
      BY DEF WaiverInv, WaiverHistory, WithinLimit, S
    <3> QED
      BY <2>1, <3>1, <3>2
  <2> QED
    BY <2>6, <2>7
<1>7. \A r \in R : r \notin Waivers!Requested /\ r \in Waivers!Requested'
  BY <1>1, <1>3
<1>8. RequestsGrow(R)
  <2>1. Waivers!Requested \subseteq Waivers!Requested'
    BY <1>1, <1>3
  <2>2. \A r \in Waivers!Requested : waiverRequests'[r] = waiverRequests[r]
    BY <1>1, <1>2
  <2>3. Waivers!Requested' \subseteq Waivers!Requested \cup R
    BY <1>1, <1>3, <1>4
  <2> HIDE DEF R
  <2> QED
    BY <1>2, <1>3, <1>5, <1>6, <1>7, <2>1, <2>2, <2>3 DEF RequestsGrow
<1>9. MayAsk(R)
  BY <1>1, <1>7 DEF MayAsk, Settles
<1>10. ASSUME NEW r \in Waivers!Requested', r \notin Waivers!Requested
       PROVE  waiverRequests'[r] \in F
  <2>1. r \in 1 .. (n + k) /\ r > n
    BY <1>1, <1>3, <1>10
  <2> QED
    BY <1>4, <2>1
<1> QED
  BY <1>0, <1>7, <1>8, <1>9, <1>10

LEMMA SubmitBatchMoves ==
    ASSUME WaiverInv, NEW F \in SUBSET Advisory, Waivers!SubmitBatch(F)
    PROVE  /\ result # "none" /\ Waivers!Active = {}
           /\ UNCHANGED <<result, desired, published, replies>>
           /\ \E R \in SUBSET Nat :
                /\ R # {} /\ adjudications' = Append(adjudications, Waivers!Queued(R))
                /\ MayAsk(R) /\ RequestsGrow(R)
                /\ \A r \in R : r \notin Waivers!Requested
                /\ \A r \in Waivers!Requested' \ Waivers!Requested : waiverRequests'[r] \in F
<1> DEFINE k == Waivers!Cardinality(F)
<1>1. /\ result # "none" /\ Waivers!Active = {} /\ F # {}
      /\ \A f \in F : Waivers!NextAction(f) = "new_request"
      /\ UNCHANGED <<result, desired, published, replies>>
  BY DEF Waivers!SubmitBatch, Waivers!followupVars
<1>2. PICK new \in [1 .. k -> F] :
        /\ \A i \in DOMAIN new, j \in DOMAIN new : i # j => new[i] # new[j]
        /\ waiverRequests' = waiverRequests \o new
        /\ Waivers!Queue({Len(waiverRequests) + i : i \in DOMAIN new})
  BY DEF Waivers!SubmitBatch
<1>3. k \in Nat /\ k # 0
  <2>1. IsFiniteSet(F)
    BY FS_Subset, WaiverBounds
  <2>2. Cardinality(F) \in Nat /\ Cardinality(F) # 0
    BY <1>1, <2>1, FS_CardinalityType, FS_EmptySet
  <2> QED
    BY <2>2 DEF Waivers!Cardinality, Cardinality
<1> HIDE DEF k
<1> DEFINE R == {Len(waiverRequests) + i : i \in 1 .. k}
<1>4. DOMAIN new = 1 .. k
  OBVIOUS
<1>5. adjudications' = Append(adjudications, Waivers!Queued(R))
  BY <1>2, <1>4 DEF Waivers!Queue
<1>6. /\ RequestsGrow(R) /\ MayAsk(R)
      /\ \A r \in R : r \notin Waivers!Requested
      /\ \A r \in Waivers!Requested' \ Waivers!Requested : waiverRequests'[r] \in F
  BY <1>1, <1>2, <1>3, <1>4, BatchGrows
<1>7. R \in SUBSET Nat /\ R # {}
  <2>1. Len(waiverRequests) \in Nat
    BY WaiverFields DEF WaiverInv
  <2>2. 1 \in 1 .. k
    BY <1>3
  <2> QED
    BY <2>1, <2>2
<1> HIDE DEF R
<1> QED
  BY <1>1, <1>5, <1>6, <1>7

LEMMA SubmitBatchKeeps ==
    ASSUME WaiverInv, NEW F \in SUBSET Advisory, Waivers!SubmitBatch(F)
    PROVE  WaiverInv'
<1>1. /\ result # "none" /\ Waivers!Active = {}
      /\ UNCHANGED <<result, desired, published, replies>>
  BY SubmitBatchMoves
<1>2. PICK R \in SUBSET Nat :
        /\ R # {} /\ adjudications' = Append(adjudications, Waivers!Queued(R))
        /\ MayAsk(R) /\ RequestsGrow(R)
  BY SubmitBatchMoves
<1> QED
  BY <1>1, <1>2, QueueKeeps

LEMMA WaiversIdle == ASSUME WaiverInv, UNCHANGED Waivers!vars PROVE WaiverInv'
<1>1. UNCHANGED <<result, waiverRequests, adjudications, desired, published, replies>>
  BY DEF Waivers!vars, Waivers!admissionVars, Waivers!followupVars
<1>2. WaiverRowsOK' /\ WaiverHistory'
  BY <1>1, RowsStay, HistoryStays DEF WaiverInv, WaiverRowsOK
<1>3. Waivers!StatusFollowsOutcome'
  <2>1. Waivers!EffectiveOutcome' = Waivers!EffectiveOutcome
    BY <1>1, OutcomeStays
  <2> QED
    BY <1>1, <2>1
    DEF WaiverInv, Waivers!StatusFollowsOutcome, Waivers!Active, Waivers!Ids
<1>4. Waivers!RepliesAreComplete'
  BY <1>1 DEF WaiverInv, Waivers!RepliesAreComplete, Waivers!Ids, Waivers!Requested
<1> QED
  BY <1>2, <1>3, <1>4 DEF WaiverInv

LEMMA WaiverStep == WaiverInv /\ [Next]_all => WaiverInv'
<1> SUFFICES ASSUME WaiverInv, [Next]_all PROVE WaiverInv'
  OBVIOUS
<1>1. [Waivers!Next]_waiverVars
  BY WaiversMove
<1>2. CASE UNCHANGED waiverVars
  BY <1>2, WaiversIdle DEF waiverVars, Waivers!vars, Waivers!admissionVars, Waivers!followupVars
<1>3. CASE Waivers!CompleteEvaluation
  BY <1>3, EvaluationKeeps
<1>4. ASSUME NEW F \in SUBSET Advisory, Waivers!SubmitBatch(F) PROVE WaiverInv'
  BY <1>4, SubmitBatchKeeps
<1>5. ASSUME NEW R \in SUBSET Waivers!Requested, Waivers!RetryErrors(R) PROVE WaiverInv'
  BY <1>5, RetryErrorsKeeps
<1>6. CASE Waivers!Restart
  BY <1>6, RestartKeeps
<1>7. ASSUME NEW a \in Waivers!Ids,
             \/ Waivers!RecoverExhausted(a) \/ Waivers!RecoverFailed(a)
             \/ Waivers!Claim(a) \/ Waivers!BeginAttempt(a) \/ Waivers!AttemptFails(a)
             \/ Waivers!Start(a)
      PROVE  WaiverInv'
  BY <1>7, RecoverExhaustedKeeps, RecoverFailedKeeps, ClaimKeeps, BeginAttemptKeeps,
     AttemptFailsKeeps, StartAdjudicationKeeps
<1>8. ASSUME NEW a \in Waivers!Ids, Waivers!LeaseLapses(a) PROVE WaiverInv'
  BY <1>8, LapseKeeps DEF Waivers!LeaseLapses, Waivers!admissionVars, Waivers!followupVars
<1>9. ASSUME NEW a \in Waivers!Ids, Waivers!Decide(a) \/ Waivers!Fail(a) PROVE WaiverInv'
  BY <1>9, DecideKeepsWaivers, FailKeeps
<1>10. ASSUME NEW f \in Waivers!Findings, Waivers!PublishInline(f) PROVE WaiverInv'
  BY <1>10, PublishInlineKeeps
<1> QED
  BY <1>1, <1>2, <1>3, <1>4, <1>5, <1>6, <1>7, <1>8, <1>9, <1>10
  DEF Waivers!Next, Waivers!Admission, Waivers!Execution, Waivers!Publication

-----------------------------------------------------------------------------
\* What the triggers demand of a write, but for the rows that are new.
Accepts ==
    /\ \A r \in (Waivers!Requested)' \ Waivers!Requested :
          Waivers!InsertsRequest(waiverRequests'[r])
    /\ \A a \in (Waivers!Ids)' \ Waivers!Ids :
          Waivers!Active = {} /\ \A r \in adjudications'[a].asks : Waivers!Reasks(r)
    /\ \A a \in Waivers!Ids : Waivers!Advances(adjudications[a], adjudications'[a])

\* A row that stays is accepted.
LEMMA StayingAdvances ==
    ASSUME WaiverRowsOK, NEW a \in Waivers!Ids
    PROVE  Waivers!Advances(adjudications[a], adjudications[a])
<1>1. RowHolds(adjudications[a])
  BY WaiverFields
<1> QED
  BY <1>1 DEF RowHolds, Waivers!Advances

\* The one row that an execution touches.
LEMMA UpdateAccepted ==
    ASSUME WaiverRowsOK, UNCHANGED waiverRequests, NEW a \in Waivers!Ids, NEW e,
           adjudications' = [adjudications EXCEPT ![a] = e],
           Waivers!Advances(adjudications[a], e)
    PROVE  Accepts
<1>1. /\ Waivers!Ids' = Waivers!Ids /\ Waivers!Requested' = Waivers!Requested
      /\ \A x \in Waivers!Ids : adjudications'[x] = IF x = a THEN e ELSE adjudications[x]
  BY DEF WaiverRowsOK, Waivers!Ids, Waivers!Requested
<1>2. \A x \in Waivers!Ids : Waivers!Advances(adjudications[x], adjudications'[x])
  BY <1>1, StayingAdvances
<1> QED
  BY <1>1, <1>2 DEF Accepts

\* A new adjudication asks only what may be asked once more.
LEMMA QueueAccepted ==
    ASSUME WaiverInv, Waivers!Active = {}, NEW R \in SUBSET Nat,
           adjudications' = Append(adjudications, Waivers!Queued(R)),
           \A r \in R : Waivers!Reasks(r),
           \A r \in Waivers!Requested' \ Waivers!Requested :
               Waivers!InsertsRequest(waiverRequests'[r])
    PROVE  Accepts
<1>1. Waivers!Queued(R).asks = R
  BY DEF Waivers!Queued
<1>2. /\ \A x \in Waivers!Ids : adjudications'[x] = adjudications[x]
      /\ \A x \in Waivers!Ids' \ Waivers!Ids : adjudications'[x] = Waivers!Queued(R)
  BY DEF WaiverInv, WaiverRowsOK, Waivers!Ids
<1>3. WaiverRowsOK
  BY DEF WaiverInv
<1> QED
  BY <1>1, <1>2, <1>3, StayingAdvances DEF Accepts

LEMMA SubmitAccepted ==
    ASSUME WaiverInv, NEW F \in SUBSET Advisory, Waivers!SubmitBatch(F) PROVE Accepts
<1>1. Waivers!Active = {} /\ \A f \in F : Waivers!NextAction(f) = "new_request"
  BY DEF Waivers!SubmitBatch
<1>2. PICK R \in SUBSET Nat :
        /\ adjudications' = Append(adjudications, Waivers!Queued(R))
        /\ \A r \in R : r \notin Waivers!Requested
        /\ \A r \in Waivers!Requested' \ Waivers!Requested : waiverRequests'[r] \in F
  BY SubmitBatchMoves
<1>3. ASSUME NEW r \in R PROVE Waivers!Reasks(r)
  <2>1. Waivers!AdjudicationsOf(r) = {}
    BY <1>2, WaiverFields DEF WaiverInv, Waivers!AdjudicationsOf
  <2> QED
    BY <2>1 DEF Waivers!Reasks
<1>4. ASSUME NEW f \in F PROVE Waivers!InsertsRequest(f)
  BY <1>1, NewRequestsFollow DEF Waivers!InsertsRequest
<1> QED
  BY <1>1, <1>2, <1>3, <1>4, QueueAccepted

LEMMA RetryAccepted ==
    ASSUME WaiverInv, NEW R \in SUBSET Waivers!Requested, Waivers!RetryErrors(R) PROVE Accepts
<1>1. /\ Waivers!Active = {} /\ \A r \in R : Waivers!LatestDecision(r) = "error"
      /\ adjudications' = Append(adjudications, Waivers!Queued(R)) /\ UNCHANGED waiverRequests
  BY DEF Waivers!RetryErrors, Waivers!MayRetry, Waivers!Queue, Waivers!admissionVars
<1>2. R \in SUBSET Nat
  BY WaiverFields DEF WaiverInv
<1>3. \A r \in R : Waivers!Reasks(r)
  BY <1>1 DEF Waivers!Reasks
<1>4. Waivers!Requested' = Waivers!Requested
  BY <1>1 DEF Waivers!Requested
<1> QED
  BY <1>1, <1>2, <1>3, <1>4, QueueAccepted

LEMMA RecoveryAccepted ==
    ASSUME WaiverInv, NEW a \in Waivers!Ids, Waivers!RecoverFailed(a) PROVE Accepts
<1> DEFINE R == adjudications[a].asks
<1>1. /\ Waivers!Active = {} /\ adjudications[a].status = "failed"
      /\ \A r \in R : Last(r) = a
      /\ adjudications' = Append(adjudications, Waivers!Queued(R)) /\ UNCHANGED waiverRequests
  BY DEF Waivers!RecoverFailed, Waivers!Queue, Waivers!admissionVars, Last
<1>2. R \in SUBSET Nat /\ R \subseteq Waivers!Requested
  BY WaiverFields DEF WaiverInv
<1>3. ASSUME NEW r \in R PROVE Waivers!Reasks(r)
  <2>1. Waivers!LatestDecision(r) = "none"
    BY <1>1, <1>2, LatestIs DEF WaiverInv
  <2> QED
    BY <1>1, <2>1 DEF Waivers!Reasks, Last
<1>4. Waivers!Requested' = Waivers!Requested
  BY <1>1 DEF Waivers!Requested
<1> HIDE DEF R
<1> QED
  BY <1>1, <1>2, <1>3, <1>4, QueueAccepted

LEMMA ExecutionAccepted ==
    ASSUME WaiverInv, NEW a \in Waivers!Ids,
           \/ Waivers!RecoverExhausted(a) \/ Waivers!Claim(a) \/ Waivers!BeginAttempt(a)
           \/ Waivers!AttemptFails(a) \/ Waivers!Start(a) \/ Waivers!LeaseLapses(a)
    PROVE  Accepts
<1> DEFINE d == adjudications[a]
<1>0. /\ WaiverRowsOK /\ d \in WaiverRow /\ RowHolds(d)
      /\ d.leased => d.status \in {"queued", "running"}
  BY QueuedIsActive DEF WaiverInv
<1>1. CASE Waivers!RecoverExhausted(a)
  <2> DEFINE e == [d EXCEPT !.retry = "ready", !.attempts = 0]
  <2>1. /\ d.status = "queued" /\ UNCHANGED waiverRequests
        /\ adjudications' = [adjudications EXCEPT ![a] = e]
    BY <1>1 DEF Waivers!RecoverExhausted, Waivers!admissionVars
  <2>2. e.status = "queued"
    BY <1>0, <2>1 DEF WaiverRow
  <2> HIDE DEF e
  <2>3. Waivers!Advances(d, e)
    BY <2>1, <2>2 DEF Waivers!Advances
  <2> QED
    BY <1>0, <2>1, <2>3, UpdateAccepted
<1>2. CASE Waivers!Claim(a)
  <2> DEFINE e == IF d.claim = "begun" THEN Waivers!Spent(d, FALSE)
                  ELSE [d EXCEPT !.claim = "held", !.leased = TRUE]
  <2>1. /\ d.status = "queued" /\ UNCHANGED waiverRequests
        /\ adjudications' = [adjudications EXCEPT ![a] = e]
    BY <1>2 DEF Waivers!Claim, Waivers!admissionVars
  <2>2. e.status = "queued"
    <3>1. Waivers!Spent(d, FALSE).status = "queued"
      BY <1>0, <2>1, SpentRow
    <3>2. [d EXCEPT !.claim = "held", !.leased = TRUE].status = "queued"
      BY <1>0, <2>1 DEF WaiverRow
    <3> QED
      BY <3>1, <3>2
  <2> HIDE DEF e
  <2>3. Waivers!Advances(d, e)
    BY <2>1, <2>2 DEF Waivers!Advances
  <2> QED
    BY <1>0, <2>1, <2>3, UpdateAccepted
<1>3. CASE Waivers!BeginAttempt(a)
  <2>1. /\ d.status = "queued" /\ UNCHANGED waiverRequests
        /\ \/ adjudications' = [adjudications EXCEPT ![a] = [d EXCEPT !.claim = "begun"]]
           \/ adjudications' = [adjudications EXCEPT ![a] = Waivers!Unclaimed(d)]
    BY <1>3 DEF Waivers!BeginAttempt, Waivers!admissionVars
  <2>2. PICK e : e.status = "queued" /\ adjudications' = [adjudications EXCEPT ![a] = e]
    <3>1. [d EXCEPT !.claim = "begun"].status = "queued"
      BY <1>0, <2>1 DEF WaiverRow
    <3>2. Waivers!Unclaimed(d).status = "queued"
      BY <1>0, <2>1, UnclaimedRow
    <3> QED
      BY <2>1, <3>1, <3>2
  <2>3. Waivers!Advances(d, e)
    BY <2>1, <2>2 DEF Waivers!Advances
  <2> QED
    BY <1>0, <2>1, <2>2, <2>3, UpdateAccepted
<1>4. CASE Waivers!AttemptFails(a)
  <2>1. d.status = "queued" /\ UNCHANGED waiverRequests
    BY <1>4 DEF Waivers!AttemptFails, Waivers!admissionVars
  <2>2. PICK definitive \in BOOLEAN :
          adjudications' = [adjudications EXCEPT ![a] = Waivers!Spent(d, definitive)]
    BY <1>4 DEF Waivers!AttemptFails
  <2>3. Waivers!Spent(d, definitive).status = "queued"
    BY <1>0, <2>1, SpentRow
  <2>4. Waivers!Advances(d, Waivers!Spent(d, definitive))
    BY <2>1, <2>3 DEF Waivers!Advances
  <2> QED
    BY <1>0, <2>1, <2>2, <2>4, UpdateAccepted
<1>5. CASE Waivers!Start(a)
  <2> DEFINE e == [d EXCEPT !.status = "running"]
  <2>1. /\ d.status = "queued" /\ d.claim = "begun" /\ UNCHANGED waiverRequests
        /\ adjudications' = [adjudications EXCEPT ![a] = e]
    BY <1>5 DEF Waivers!Start, Waivers!admissionVars
  <2>2. e.status = "running" /\ d.retry = "ready"
    BY <1>0, <2>1 DEF WaiverRow, RowHolds
  <2> HIDE DEF e
  <2>3. Waivers!Advances(d, e)
    BY <2>1, <2>2 DEF Waivers!Advances
  <2> QED
    BY <1>0, <2>1, <2>3, UpdateAccepted
<1>6. CASE Waivers!LeaseLapses(a)
  <2> DEFINE e == [d EXCEPT !.leased = FALSE]
  <2>1. /\ d.leased /\ UNCHANGED waiverRequests
        /\ adjudications' = [adjudications EXCEPT ![a] = e]
    BY <1>6 DEF Waivers!LeaseLapses, Waivers!admissionVars
  <2>2. e.status = d.status /\ d.status \in {"queued", "running"}
    BY <1>0, <2>1 DEF WaiverRow
  <2> HIDE DEF e
  <2>3. Waivers!Advances(d, e)
    BY <2>2 DEF Waivers!Advances
  <2> QED
    BY <1>0, <2>1, <2>3, UpdateAccepted
<1> QED
  BY <1>1, <1>2, <1>3, <1>4, <1>5, <1>6

LEMMA DecisionAccepted ==
    ASSUME WaiverInv, NEW a \in Waivers!Ids, Waivers!Decide(a) PROVE Accepts
<1> DEFINE d == adjudications[a]
           u == Waivers!Unclaimed(d)
<1>1. /\ WaiverRowsOK /\ d \in WaiverRow /\ RowHolds(d) /\ d.status = "running"
      /\ UNCHANGED waiverRequests
  BY QueuedIsActive DEF WaiverInv, Waivers!Decide, Waivers!admissionVars
<1>2. PICK decided \in [d.asks -> Waivers!Decisions] :
          adjudications' = [adjudications EXCEPT ![a] =
              [u EXCEPT !.status = "completed", !.decided = decided]]
  BY DEF Waivers!Decide
<1> DEFINE e == [u EXCEPT !.status = "completed", !.decided = decided]
<1>3. u \in WaiverRow /\ u.asks = d.asks
  BY <1>1, UnclaimedRow
<1> HIDE DEF u
<1>4. e.status = "completed" /\ DOMAIN e.decided = e.asks
  BY <1>3 DEF WaiverRow
<1> HIDE DEF e
<1>5. Waivers!Advances(d, e)
  BY <1>1, <1>4 DEF Waivers!Advances
<1> QED
  BY <1>1, <1>2, <1>5, UpdateAccepted DEF e

LEMMA FailedAdvances ==
    ASSUME WaiverInv, NEW a \in Waivers!Ids, adjudications[a].status = "running"
    PROVE  Waivers!Advances(adjudications[a],
               [Waivers!Unclaimed(adjudications[a]) EXCEPT !.status = "failed"])
<1> DEFINE d == adjudications[a]
           u == Waivers!Unclaimed(d)
           e == [u EXCEPT !.status = "failed"]
<1>1. d \in WaiverRow /\ RowHolds(d)
  BY QueuedIsActive
<1>2. u \in WaiverRow /\ u.decided = d.decided
  BY <1>1, UnclaimedRow
<1> HIDE DEF u
<1>3. e.status = "failed" /\ e.decided = d.decided
  BY <1>2 DEF WaiverRow
<1> HIDE DEF e
<1>4. Waivers!Advances(d, e)
  BY <1>1, <1>3 DEF Waivers!Advances, RowHolds
<1> QED
  BY <1>4 DEF e, u

LEMMA FailAccepted ==
    ASSUME WaiverInv, NEW a \in Waivers!Ids, Waivers!Fail(a) PROVE Accepts
BY FailedAdvances, UpdateAccepted DEF WaiverInv, Waivers!Fail, Waivers!admissionVars

LEMMA RestartAccepted == ASSUME WaiverInv, Waivers!Restart PROVE Accepts
<1>1. /\ UNCHANGED waiverRequests /\ WaiverRowsOK
      /\ adjudications' = [x \in Waivers!Ids |->
             IF adjudications[x].status = "running"
             THEN [Waivers!Unclaimed(adjudications[x]) EXCEPT !.status = "failed"]
             ELSE [adjudications[x] EXCEPT !.leased = FALSE]]
  BY DEF WaiverInv, Waivers!Restart, Waivers!admissionVars
<1>2. Waivers!Ids' = Waivers!Ids /\ Waivers!Requested' = Waivers!Requested
  BY <1>1 DEF Waivers!Ids, Waivers!Requested
<1>3. ASSUME NEW a \in Waivers!Ids
      PROVE  Waivers!Advances(adjudications[a], adjudications'[a])
  <2>1. CASE adjudications[a].status = "running"
    BY <1>1, <2>1, FailedAdvances
  <2>2. CASE adjudications[a].status # "running"
    <3> DEFINE d == adjudications[a]
               e == [d EXCEPT !.leased = FALSE]
    <3>1. d \in WaiverRow /\ RowHolds(d)
      BY QueuedIsActive
    <3>2. e.status = d.status /\ e.decided = d.decided /\ e.asks = d.asks
      BY <3>1 DEF WaiverRow
    <3>3. adjudications'[a] = e
      BY <1>1, <2>2
    <3> HIDE DEF e
    <3> QED
      BY <2>2, <3>1, <3>2, <3>3 DEF Waivers!Advances, RowHolds
  <2> QED
    BY <2>1, <2>2
<1> QED
  BY <1>2, <1>3 DEF Accepts

LEMMA RestAccepted ==
    ASSUME WaiverInv, UNCHANGED <<waiverRequests, adjudications>> PROVE Accepts
<1>1. Waivers!Ids' = Waivers!Ids /\ Waivers!Requested' = Waivers!Requested
  BY DEF Waivers!Ids, Waivers!Requested
<1> QED
  BY <1>1, StayingAdvances DEF WaiverInv, Accepts

LEMMA WritesAccepted == WaiverInv /\ [Next]_all => Accepts
<1> SUFFICES ASSUME WaiverInv, [Next]_all PROVE Accepts
  OBVIOUS
<1>1. [Waivers!Next]_waiverVars
  BY WaiversMove
<1>2. CASE UNCHANGED waiverVars
  BY <1>2, RestAccepted DEF waiverVars
<1>3. CASE Waivers!CompleteEvaluation
  BY <1>3, RestAccepted DEF Waivers!CompleteEvaluation
<1>4. ASSUME NEW F \in SUBSET Advisory, Waivers!SubmitBatch(F) PROVE Accepts
  BY <1>4, SubmitAccepted
<1>5. ASSUME NEW R \in SUBSET Waivers!Requested, Waivers!RetryErrors(R) PROVE Accepts
  BY <1>5, RetryAccepted
<1>6. CASE Waivers!Restart
  BY <1>6, RestartAccepted
<1>7. ASSUME NEW a \in Waivers!Ids, Waivers!RecoverFailed(a) PROVE Accepts
  BY <1>7, RecoveryAccepted
<1>8. ASSUME NEW a \in Waivers!Ids,
             \/ Waivers!RecoverExhausted(a) \/ Waivers!Claim(a) \/ Waivers!BeginAttempt(a)
             \/ Waivers!AttemptFails(a) \/ Waivers!Start(a) \/ Waivers!LeaseLapses(a)
      PROVE  Accepts
  BY <1>8, ExecutionAccepted
<1>9. ASSUME NEW a \in Waivers!Ids, Waivers!Decide(a) \/ Waivers!Fail(a) PROVE Accepts
  BY <1>9, DecisionAccepted, FailAccepted
<1>10. ASSUME NEW f \in Waivers!Findings, Waivers!PublishInline(f) PROVE Accepts
  BY <1>10, RestAccepted DEF Waivers!PublishInline, Waivers!admissionVars
<1> QED
  BY <1>1, <1>2, <1>3, <1>4, <1>5, <1>6, <1>7, <1>8, <1>9, <1>10
  DEF Waivers!Next, Waivers!Admission, Waivers!Execution, Waivers!Publication

-----------------------------------------------------------------------------
(***************************************************************************)
(* The connections to both forges                                          *)
(***************************************************************************)

Connections == INSTANCE ConnectionProofs

\* Both instances of the connections say the same: their steps are one
\* another's.
LEMMA GitHubAsks ==
    ASSUME NEW o \in Requests
    PROVE  /\ GitHub!Start(o) => Connections!Start(o)
           /\ GitHub!Exchange(o) => Connections!Exchange(o)
           /\ GitHub!Exchanged(o) => Connections!Exchanged(o)
           /\ GitHub!Install(o) => Connections!Install(o)
           /\ GitHub!Installed(o) => Connections!Installed(o)
           /\ GitHub!Reactivate(o) => Connections!Reactivate(o)
           /\ GitHub!Returned(o) => Connections!Returned(o)
           /\ GitHub!Rotate(o) => Connections!Rotate(o)
           /\ GitHub!Select(o) => Connections!Select(o)
<1>1. GitHub!Start(o) => Connections!Start(o)
  BY DEF GitHub!Start, Connections!Start, GitHub!Begins, Connections!Begins, GitHub!Idle,
     Connections!Idle, GitHub!NoConnection, Connections!NoConnection, GitHub!NoRepository,
     Connections!NoRepository, GitHub!NewVerification, Connections!NewVerification,
     GitHub!Inserts, Connections!Inserts
<1>2. GitHub!Exchange(o) => Connections!Exchange(o)
  BY DEF GitHub!Exchange, Connections!Exchange
<1>3. GitHub!Exchanged(o) => Connections!Exchanged(o)
  BY DEF GitHub!Exchanged, Connections!Exchanged, GitHub!Issue, Connections!Issue
<1>4. GitHub!Install(o) => Connections!Install(o)
  BY DEF GitHub!Install, Connections!Install
<1>5. GitHub!Installed(o) => Connections!Installed(o)
  BY DEF GitHub!Installed, Connections!Installed, GitHub!Unrefused, Connections!Unrefused,
     GitHub!Ends, Connections!Ends, GitHub!Idle, Connections!Idle, GitHub!NoConnection,
     Connections!NoConnection, GitHub!NoRepository, Connections!NoRepository,
     GitHub!NewVerification, Connections!NewVerification, GitHub!Inserts, Connections!Inserts
<1>6. GitHub!Reactivate(o) => Connections!Reactivate(o)
  BY DEF GitHub!Reactivate, Connections!Reactivate, GitHub!Issue, Connections!Issue,
     GitHub!Begins, Connections!Begins, GitHub!Idle, Connections!Idle, GitHub!NoConnection,
     Connections!NoConnection, GitHub!NoRepository, Connections!NoRepository,
     GitHub!NewVerification, Connections!NewVerification, GitHub!Inserts, Connections!Inserts
<1>7. GitHub!Returned(o) => Connections!Returned(o)
  BY DEF GitHub!Returned, Connections!Returned, GitHub!Unrefused, Connections!Unrefused,
     GitHub!Vacant, Connections!Vacant, GitHub!Ends, Connections!Ends, GitHub!Idle,
     Connections!Idle, GitHub!NoConnection, Connections!NoConnection, GitHub!NoRepository,
     Connections!NoRepository, GitHub!NewVerification, Connections!NewVerification,
     GitHub!Inserts, Connections!Inserts
<1>8. GitHub!Rotate(o) => Connections!Rotate(o)
  BY DEF GitHub!Rotate, Connections!Rotate, GitHub!Issue, Connections!Issue, GitHub!Asks,
     Connections!Asks, GitHub!On, Connections!On
<1>9. GitHub!Select(o) => Connections!Select(o)
  BY DEF GitHub!Select, Connections!Select, GitHub!Asks, Connections!Asks, GitHub!On,
     Connections!On, GitHub!Known, Connections!Known
<1> QED
  BY <1>1, <1>2, <1>3, <1>4, <1>5, <1>6, <1>7, <1>8, <1>9

LEMMA GitHubHears ==
    ASSUME NEW o \in Requests
    PROVE  GitHub!Answered(o) => Connections!Answered(o)
<1>1. ASSUME NEW answer PROVE GitHub!Rotated(o, answer) => Connections!Rotated(o, answer)
  BY DEF GitHub!Rotated, Connections!Rotated, GitHub!CurrentRotation,
     Connections!CurrentRotation, GitHub!Found, Connections!Found, GitHub!Cover,
     Connections!Cover, GitHub!On, Connections!On, GitHub!NewVerification,
     Connections!NewVerification
<1>2. ASSUME NEW answer
      PROVE  GitHub!RotationFailed(o, answer)
               => Connections!RotationFailed(o, answer)
  BY DEF GitHub!RotationFailed, Connections!RotationFailed, GitHub!CurrentRotation,
     Connections!CurrentRotation, GitHub!Fails, Connections!Fails, GitHub!Found,
     Connections!Found, GitHub!Known, Connections!Known, GitHub!On, Connections!On,
     GitHub!NewVerification, Connections!NewVerification
<1>3. ASSUME NEW answer PROVE GitHub!Selected(o, answer) => Connections!Selected(o, answer)
  BY DEF GitHub!Selected, Connections!Selected, GitHub!CurrentConnection,
     Connections!CurrentConnection, GitHub!CurrentRepositories,
     Connections!CurrentRepositories, GitHub!Selecting, Connections!Selecting, GitHub!Found,
     Connections!Found, GitHub!Cover, Connections!Cover, GitHub!NewVerification,
     Connections!NewVerification
<1>4. ASSUME NEW answer
      PROVE  GitHub!SelectionFailed(o, answer)
               => Connections!SelectionFailed(o, answer)
  BY DEF GitHub!SelectionFailed, Connections!SelectionFailed, GitHub!CurrentConnection,
     Connections!CurrentConnection, GitHub!CurrentRepositories,
     Connections!CurrentRepositories, GitHub!Fails, Connections!Fails, GitHub!Found,
     Connections!Found, GitHub!Known, Connections!Known, GitHub!On, Connections!On,
     GitHub!NewVerification, Connections!NewVerification
<1>5. GitHub!FirstFailure(requests[o]) = Connections!FirstFailure(requests[o])
  BY DEF GitHub!FirstFailure, Connections!FirstFailure, GitHub!Answers, Connections!Answers
<1> QED
  BY <1>1, <1>2, <1>3, <1>4, <1>5 DEF GitHub!Answered, Connections!Answered, GitHub!Unrefused,
     Connections!Unrefused, GitHub!Ends, Connections!Ends, GitHub!Idle, Connections!Idle,
     GitHub!NoConnection, Connections!NoConnection, GitHub!NoRepository,
     Connections!NoRepository

LEMMA GitHubShares == GitHub!Common => Connections!Common
BY DEF GitHub!Common, Connections!Common, GitHub!Disable, Connections!Disable,
   GitHub!RetireRepository, Connections!RetireRepository, GitHub!RemoveRepository,
   Connections!RemoveRepository, GitHub!Dependents, Connections!Dependents,
   GitHub!RetireConnection, Connections!RetireConnection, GitHub!RemoveConnection,
   Connections!RemoveConnection, GitHub!Revoke, Connections!Revoke, GitHub!Withdraw,
   Connections!Withdraw, GitHub!Lost, Connections!Lost, GitHub!On, Connections!On,
   GitHub!Known, Connections!Known, GitHub!Ends, Connections!Ends, GitHub!Idle,
   Connections!Idle, GitHub!NoConnection, Connections!NoConnection, GitHub!NoRepository,
   Connections!NoRepository

LEMMA GitHubMoves == GitHub!Next => Connections!Next
BY GitHubAsks, GitHubHears, GitHubShares DEF GitHub!Next, Connections!Next

LEMMA ForgejoAsks ==
    ASSUME NEW o \in Requests
    PROVE  /\ Forgejo!Connect(o) => Connections!Connect(o)
           /\ Forgejo!RotateForgejo(o) => Connections!RotateForgejo(o)
           /\ Forgejo!Enable(o) => Connections!Enable(o)
           /\ Forgejo!ReactivateForgejo(o) => Connections!ReactivateForgejo(o)
<1>1. Forgejo!Connect(o) => Connections!Connect(o)
  BY DEF Forgejo!Connect, Connections!Connect, Forgejo!Issue, Connections!Issue,
     Forgejo!Begins, Connections!Begins, Forgejo!Idle, Connections!Idle, Forgejo!NoConnection,
     Connections!NoConnection, Forgejo!NoRepository, Connections!NoRepository
<1>2. Forgejo!RotateForgejo(o) => Connections!RotateForgejo(o)
  BY DEF Forgejo!RotateForgejo, Connections!RotateForgejo, Forgejo!Issue, Connections!Issue,
     Forgejo!Asks, Connections!Asks, Forgejo!On, Connections!On
<1>3. Forgejo!Enable(o) => Connections!Enable(o)
  BY DEF Forgejo!Enable, Connections!Enable, Forgejo!Asks, Connections!Asks, Forgejo!On,
     Connections!On, Forgejo!Known, Connections!Known
<1>4. Forgejo!ReactivateForgejo(o) => Connections!ReactivateForgejo(o)
  BY DEF Forgejo!ReactivateForgejo, Connections!ReactivateForgejo, Forgejo!Issue,
     Connections!Issue, Forgejo!Begins, Connections!Begins, Forgejo!On, Connections!On,
     Forgejo!Idle, Connections!Idle, Forgejo!NoConnection, Connections!NoConnection,
     Forgejo!NoRepository, Connections!NoRepository
<1> QED
  BY <1>1, <1>2, <1>3, <1>4

LEMMA ForgejoHears ==
    ASSUME NEW o \in Requests
    PROVE  Forgejo!ForgejoAnswered(o) => Connections!ForgejoAnswered(o)
<1>1. ASSUME NEW answer PROVE Forgejo!Connected(o, answer) => Connections!Connected(o, answer)
  BY DEF Forgejo!Connected, Connections!Connected, Forgejo!Known, Connections!Known,
     Forgejo!On, Connections!On, Forgejo!Keeps, Connections!Keeps, Forgejo!NoRepository,
     Connections!NoRepository, Forgejo!NewVerification, Connections!NewVerification
<1>2. ASSUME NEW answer
      PROVE  Forgejo!ForgejoRotated(o, answer)
               => Connections!ForgejoRotated(o, answer)
  BY DEF Forgejo!ForgejoRotated, Connections!ForgejoRotated, Forgejo!SameCredential,
     Connections!SameCredential, Forgejo!Verified, Connections!Verified, Forgejo!Known,
     Connections!Known, Forgejo!On, Connections!On, Forgejo!Cover, Connections!Cover,
     Forgejo!NewVerification, Connections!NewVerification
<1>3. ASSUME NEW answer
      PROVE  Forgejo!ForgejoRotationFailed(o, answer)
               => Connections!ForgejoRotationFailed(o, answer)
  BY DEF Forgejo!ForgejoRotationFailed, Connections!ForgejoRotationFailed,
     Forgejo!SameCredential, Connections!SameCredential, Forgejo!Verified,
     Connections!Verified, Forgejo!Known, Connections!Known, Forgejo!On, Connections!On,
     Forgejo!Keeps, Connections!Keeps, Forgejo!ForgejoFails, Connections!ForgejoFails,
     Forgejo!Found, Connections!Found, Forgejo!Outage, Connections!Outage,
     Forgejo!NewVerification, Connections!NewVerification
<1>4. ASSUME NEW answer PROVE Forgejo!Enabled(o, answer) => Connections!Enabled(o, answer)
  BY DEF Forgejo!Enabled, Connections!Enabled, Forgejo!Enabling, Connections!Enabling,
     Forgejo!On, Connections!On, Forgejo!Current, Connections!Current, Forgejo!Keeps,
     Connections!Keeps, Forgejo!Found, Connections!Found, Forgejo!Cover, Connections!Cover,
     Forgejo!NewVerification, Connections!NewVerification
<1>5. ASSUME NEW answer
      PROVE  Forgejo!EnablementFailed(o, answer)
               => Connections!EnablementFailed(o, answer)
  BY DEF Forgejo!EnablementFailed, Connections!EnablementFailed, Forgejo!Current,
     Connections!Current, Forgejo!Keeps, Connections!Keeps, Forgejo!ForgejoFails,
     Connections!ForgejoFails, Forgejo!Found, Connections!Found, Forgejo!NewVerification,
     Connections!NewVerification
<1>6. ASSUME NEW answer
      PROVE  Forgejo!Reactivated(o, answer)
               => Connections!Reactivated(o, answer)
  BY DEF Forgejo!Reactivated, Connections!Reactivated, Forgejo!StillRetired,
     Connections!StillRetired, Forgejo!Dependents, Connections!Dependents, Forgejo!Known,
     Connections!Known, Forgejo!On, Connections!On, Forgejo!Keeps, Connections!Keeps,
     Forgejo!NewVerification, Connections!NewVerification
<1>7. ASSUME NEW answer
      PROVE  Forgejo!ReactivationFailed(o, answer)
               => Connections!ReactivationFailed(o, answer)
  BY DEF Forgejo!ReactivationFailed, Connections!ReactivationFailed, Forgejo!StillRetired,
     Connections!StillRetired, Forgejo!Known, Connections!Known, Forgejo!On, Connections!On,
     Forgejo!Keeps, Connections!Keeps, Forgejo!ForgejoFails, Connections!ForgejoFails,
     Forgejo!Found, Connections!Found, Forgejo!NewVerification, Connections!NewVerification
<1>8. Forgejo!Answers(requests[o]) \cup {Forgejo!Outage}
        = Connections!Answers(requests[o]) \cup {Connections!Outage}
  BY DEF Forgejo!Answers, Connections!Answers, Forgejo!Outage, Connections!Outage
<1> QED
  BY <1>1, <1>2, <1>3, <1>4, <1>5, <1>6, <1>7, <1>8 DEF Forgejo!ForgejoAnswered,
     Connections!ForgejoAnswered, Forgejo!Unrefused, Connections!Unrefused, Forgejo!Ends,
     Connections!Ends, Forgejo!Idle, Connections!Idle, Forgejo!NoConnection,
     Connections!NoConnection, Forgejo!NoRepository, Connections!NoRepository

LEMMA ForgejoShares == Forgejo!Common => Connections!Common
BY DEF Forgejo!Common, Connections!Common, Forgejo!Disable, Connections!Disable,
   Forgejo!RetireRepository, Connections!RetireRepository, Forgejo!RemoveRepository,
   Connections!RemoveRepository, Forgejo!Dependents, Connections!Dependents,
   Forgejo!RetireConnection, Connections!RetireConnection, Forgejo!RemoveConnection,
   Connections!RemoveConnection, Forgejo!Revoke, Connections!Revoke, Forgejo!Withdraw,
   Connections!Withdraw, Forgejo!Lost, Connections!Lost, Forgejo!On, Connections!On,
   Forgejo!Known, Connections!Known, Forgejo!Ends, Connections!Ends, Forgejo!Idle,
   Connections!Idle, Forgejo!NoConnection, Connections!NoConnection, Forgejo!NoRepository,
   Connections!NoRepository

LEMMA ForgejoMoves == Forgejo!ForgejoNext => Connections!ForgejoNext
BY ForgejoAsks, ForgejoHears, ForgejoShares DEF Forgejo!ForgejoNext, Connections!ForgejoNext

\* Of the forge whose connection is the subject its whole invariant holds, of
\* the rows always.
ConnectionInv ==
    /\ subject = "GitHub" => Connections!GitHubInv
    /\ subject = "Forgejo" => Connections!ForgejoInv
    /\ Connections!RowsOK

LEMMA ConnectionBounds == Connections!BoundsAssumption
BY BoundsAssumption DEF Connections!BoundsAssumption

LEMMA ConnectionBegins == Beginning => ConnectionInv
<1> SUFFICES ASSUME Beginning PROVE ConnectionInv
  OBVIOUS
<1>1. Connections!Init
  BY DEF Beginning, Init, Connections!Init, Idle, Connections!Idle, NoConnection,
     Connections!NoConnection, NoRepository, Connections!NoRepository, Credentials,
     Connections!Credentials
<1>2. Connections!GitHubInv /\ Connections!ForgejoInv
  BY <1>1, ConnectionBounds, Connections!GitHubBegins, Connections!ForgejoBegins
<1> QED
  BY <1>2 DEF ConnectionInv, Connections!GitHubInv

LEMMA ConnectionStep == ConnectionInv /\ [Next]_all => ConnectionInv'
<1> SUFFICES ASSUME ConnectionInv, [Next]_all PROVE ConnectionInv'
  OBVIOUS
<1>1. CASE UNCHANGED <<subject, vars>>
  <2>1. UNCHANGED Connections!vars
    BY <1>1 DEF vars, Connections!vars
  <2>2. subject = "GitHub" => Connections!GitHubInv'
    BY <1>1, <2>1, ConnectionBounds, Connections!GitHubStep DEF ConnectionInv
  <2>3. subject = "Forgejo" => Connections!ForgejoInv'
    BY <1>1, <2>1, ConnectionBounds, Connections!ForgejoStep DEF ConnectionInv
  <2>4. Connections!RowsOK'
    BY <1>1, ConnectionBounds, Connections!UnwrittenKeeps DEF ConnectionInv, vars
  <2> QED
    BY <1>1, <2>2, <2>3, <2>4 DEF ConnectionInv
<1>2. CASE subject = "GitHub" /\ GitHub!Next /\ subject' = subject
  <2>1. Connections!GitHubInv'
    BY <1>2, GitHubMoves, ConnectionBounds, Connections!GitHubStep DEF ConnectionInv
  <2> QED
    BY <1>2, <2>1 DEF ConnectionInv, Connections!GitHubInv
<1>3. CASE subject = "Forgejo" /\ Forgejo!ForgejoNext /\ subject' = subject
  <2>1. Connections!ForgejoInv'
    BY <1>3, ForgejoMoves, ConnectionBounds, Connections!ForgejoStep DEF ConnectionInv
  <2> QED
    BY <1>3, <2>1 DEF ConnectionInv, Connections!ForgejoInv
<1> QED
  BY <1>1, <1>2, <1>3 DEF Next, all, connectionVars, OfConnection, OfRepository, OfAdmission,
     OfRule, OfWaivers, OfFeedback, OfAuthority

-----------------------------------------------------------------------------
(***************************************************************************)
(* The authority of the Operator                                           *)
(***************************************************************************)

Authority == INSTANCE OperatorAuthorityProofs WITH MaxAttempts <- MaxLogins

LEMMA AuthorityIsBounded == Authority!BoundsAreNatural /\ Authority!DelaysAreNatural
BY AuthorityBounds
   DEF Authority!BoundsAreNatural, Authority!DelaysAreNatural, Authority!Delay, Operator!Delay

\* Both instances of the module say the same.
LEMMA AuthoritySessions ==
    /\ Operator!Sessions = Authority!Sessions /\ Operator!Mutations = Authority!Mutations
    /\ \A s : Operator!Authenticates(s) = Authority!Authenticates(s)
BY DEF Operator!Sessions, Authority!Sessions, Operator!Mutations, Authority!Mutations,
       Operator!Operations, Authority!Operations, Operator!Authenticates,
       Authority!Authenticates, Operator!HasExpired, Authority!HasExpired

LEMMA AuthorityBegins == Operator!Init => Authority!Init
BY DEF Operator!Init, Authority!Init, Operator!Sessions, Authority!Sessions,
       Operator!Unopened, Authority!Unopened, Operator!NoFailures, Authority!NoFailures,
       Operator!NoPassword, Authority!NoPassword

LEMMA AuthorityEnds == Operator!EndSessions => Authority!EndSessions
BY DEF Operator!EndSessions, Authority!EndSessions, Operator!Sessions, Authority!Sessions,
       Operator!Gone, Authority!Gone, Operator!Unopened, Authority!Unopened

LEMMA AuthorityOfSession ==
    ASSUME NEW s \in Operator!Sessions
    PROVE  /\ Operator!Login(s) => Authority!Login(s)
           /\ Operator!Logout(s) => Authority!Logout(s)
           /\ Operator!Touch(s) => Authority!Touch(s)
<1>1. Operator!Authenticates(s) = Authority!Authenticates(s)
  BY AuthoritySessions
<1>2. Operator!Login(s) => Authority!Login(s)
  BY DEF Operator!Login, Authority!Login, Operator!Throttled, Authority!Throttled,
     Operator!NoPassword, Authority!NoPassword, Operator!ClearFailures,
     Authority!ClearFailures, Operator!NoFailures, Authority!NoFailures
<1>3. Operator!Logout(s) => Authority!Logout(s)
  BY <1>1 DEF Operator!Logout, Authority!Logout, Operator!Gone, Authority!Gone,
     Operator!Unopened, Authority!Unopened, Operator!failures, Authority!failures
<1>4. Operator!Touch(s) => Authority!Touch(s)
  BY <1>1 DEF Operator!Touch, Authority!Touch, Operator!failures, Authority!failures
<1> QED
  BY <1>2, <1>3, <1>4

LEMMA AuthorityOfMutation ==
    ASSUME NEW q \in Operator!Mutations
    PROVE  /\ Operator!Pass(q) => Authority!Pass(q)
           /\ Operator!ChangePassword(q) => Authority!ChangePassword(q)
           /\ Operator!RevokeAll(q) => Authority!RevokeAll(q)
           /\ Operator!ReplaceToken(q) => Authority!ReplaceToken(q)
           /\ Operator!RevokeToken(q) => Authority!RevokeToken(q)
           /\ Operator!Refuse(q) => Authority!Refuse(q)
<1> USE DEF Operator!failures, Authority!failures, Operator!Handles, Authority!Handles,
        Operator!Confirmed, Authority!Confirmed
<1>1. Operator!Pass(q) => Authority!Pass(q)
  BY AuthoritySessions DEF Operator!Pass, Authority!Pass, Operator!Cardinality,
     Authority!Cardinality, Operator!IsFiniteSet, Authority!IsFiniteSet
<1>2. Operator!ChangePassword(q) => Authority!ChangePassword(q)
  BY AuthorityEnds DEF Operator!ChangePassword, Authority!ChangePassword
<1>3. Operator!RevokeAll(q) => Authority!RevokeAll(q)
  BY AuthorityEnds DEF Operator!RevokeAll, Authority!RevokeAll
<1>4. Operator!ReplaceToken(q) => Authority!ReplaceToken(q)
  BY DEF Operator!ReplaceToken, Authority!ReplaceToken
<1>5. Operator!RevokeToken(q) => Authority!RevokeToken(q)
  BY DEF Operator!RevokeToken, Authority!RevokeToken
<1>6. Operator!Refuse(q) => Authority!Refuse(q)
  BY DEF Operator!Refuse, Authority!Refuse, Operator!Refuses, Authority!Refuses
<1> QED
  BY <1>1, <1>2, <1>3, <1>4, <1>5, <1>6

LEMMA AuthorityOfHost ==
    /\ Operator!RejectLogin => Authority!RejectLogin
    /\ Operator!RemoveExpired => Authority!RemoveExpired
    /\ Operator!Start => Authority!Start
    /\ Operator!Stop => Authority!Stop
    /\ Operator!Bootstrap => Authority!Bootstrap
    /\ Operator!Recover => Authority!Recover
    /\ Operator!Tick => Authority!Tick
<1> USE DEF Operator!failures, Authority!failures, Operator!NoPassword, Authority!NoPassword,
        Operator!ClearFailures, Authority!ClearFailures, Operator!NoFailures,
        Authority!NoFailures
<1>1. Operator!RejectLogin => Authority!RejectLogin
  BY DEF Operator!RejectLogin, Authority!RejectLogin, Operator!Throttled,
     Authority!Throttled, Operator!Counted, Authority!Counted, Operator!Delay, Authority!Delay
<1>2. Operator!RemoveExpired => Authority!RemoveExpired
  BY AuthoritySessions DEF Operator!RemoveExpired, Authority!RemoveExpired,
     Operator!HasExpired, Authority!HasExpired, Operator!Gone, Authority!Gone,
     Operator!Unopened, Authority!Unopened
<1>3. Operator!Start => Authority!Start
  BY DEF Operator!Start, Authority!Start
<1>4. Operator!Stop => Authority!Stop
  BY DEF Operator!Stop, Authority!Stop
<1>5. Operator!Bootstrap => Authority!Bootstrap
  BY DEF Operator!Bootstrap, Authority!Bootstrap
<1>6. Operator!Recover => Authority!Recover
  BY AuthorityEnds DEF Operator!Recover, Authority!Recover
<1>7. Operator!Tick => Authority!Tick
  BY DEF Operator!Tick, Authority!Tick
<1> QED
  BY <1>1, <1>2, <1>3, <1>4, <1>5, <1>6, <1>7

\* Every step of a behaviour is one of the authority or leaves it alone.
LEMMA AuthorityMoves == [Next]_all => [Authority!Next]_(Authority!vars)
<1> SUFFICES ASSUME [Next]_all PROVE [Authority!Next]_(Authority!vars)
  OBVIOUS
<1>1. Operator!Next \/ UNCHANGED authorityVars
  BY DEF Next, all, OfConnection, OfRepository, OfAdmission, OfRule, OfWaivers, OfFeedback,
     OfAuthority
<1>2. CASE UNCHANGED authorityVars
  BY <1>2 DEF authorityVars, Authority!vars
<1>3. CASE \E s \in Operator!Sessions :
              Operator!Login(s) \/ Operator!Logout(s) \/ Operator!Touch(s)
  BY <1>3, AuthoritySessions, AuthorityOfSession DEF Authority!Next
<1>4. CASE \E q \in Operator!Mutations :
              \/ Operator!Pass(q) \/ Operator!ChangePassword(q) \/ Operator!RevokeAll(q)
              \/ Operator!ReplaceToken(q) \/ Operator!RevokeToken(q) \/ Operator!Refuse(q)
  BY <1>4, AuthoritySessions, AuthorityOfMutation DEF Authority!Next
<1>5. CASE \/ Operator!RejectLogin \/ Operator!RemoveExpired \/ Operator!Start
           \/ Operator!Stop \/ Operator!Bootstrap \/ Operator!Recover \/ Operator!Tick
  BY <1>5, AuthorityOfHost DEF Authority!Next
<1> QED
  BY <1>1, <1>2, <1>3, <1>4, <1>5 DEF Operator!Next

-----------------------------------------------------------------------------
(***************************************************************************)
(* The types of every subject                                              *)
(***************************************************************************)
\* The Requests for the Findings F.
RequestsFor(F) == {r \in Waivers!Requested : waiverRequests[r] \in F}

\* With so many Requests of each Finding there are no more than so many times
\* the Findings.
LEMMA RequestsAreBounded ==
    ASSUME WaiverRowsOK, WithinLimit
    PROVE  Len(waiverRequests) <= RequestLimit * Cardinality(Advisory)
<1> DEFINE R == StrictSubsetOrdering(Advisory)
           T == FiniteSubsetsOf(Advisory)
           n == Len(waiverRequests)
           Holds(F) == Cardinality(RequestsFor(F)) <= RequestLimit * Cardinality(F)
           excess == {F \in T : ~Holds(F)}
<1>1. /\ n \in Nat /\ Waivers!Requested = 1 .. n
      /\ \A r \in 1 .. n : waiverRequests[r] \in Advisory
  BY WaiverFields
<1>2. IsFiniteSet(1 .. n) /\ Cardinality(1 .. n) = n
  <2>1. 1 \in Int /\ n \in Int
    BY <1>1
  <2> HIDE DEF n
  <2>2. IsFiniteSet(1 .. n) /\ Cardinality(1 .. n) = IF 1 > n THEN 0 ELSE n - 1 + 1
    BY <2>1, FS_Interval
  <2> QED
    BY <1>1, <2>2
<1>3. ASSUME NEW F
      PROVE  IsFiniteSet(RequestsFor(F)) /\ Cardinality(RequestsFor(F)) \in Nat
  <2>1. RequestsFor(F) \subseteq 1 .. n
    BY <1>1 DEF RequestsFor
  <2>2. IsFiniteSet(RequestsFor(F))
    BY <1>2, <2>1, FS_Subset
  <2> QED
    BY <2>2, FS_CardinalityType
<1>4. ASSUME excess # {} PROVE FALSE
  <2>1. IsWellFoundedOn(R, T)
    BY FS_StrictSubsetOrderingWellFounded
  <2>2. excess \subseteq T
    OBVIOUS
  <2>3. PICK F \in excess : \A G \in excess : ~ (<<G, F>> \in R)
    <3> HIDE DEF R, T, excess
    <3> QED
      BY <1>4, <2>1, <2>2, WFMin
  <2>4. F \subseteq Advisory /\ IsFiniteSet(F)
    BY DEF FiniteSubsetsOf
  <2>5. F # {}
    <3> SUFFICES ASSUME F = {} PROVE FALSE
      OBVIOUS
    <3>1. RequestsFor(F) = {}
      BY DEF RequestsFor
    <3>2. Cardinality({}) = 0
      BY FS_EmptySet
    <3> QED
      BY <2>3, <3>1, <3>2, WaiverBounds
  <2>6. PICK f \in F : TRUE
    BY <2>5
  <2> DEFINE G == F \ {f}
  <2>7. /\ IsFiniteSet(G) /\ Cardinality(G) \in Nat /\ Cardinality(F) \in Nat
        /\ Cardinality(F) = Cardinality(G) + 1
    BY <2>4, FS_RemoveElement, FS_CardinalityType, FS_Subset
  <2>8. Holds(G)
    <3>1. G \in T
      BY <2>4, <2>7 DEF FiniteSubsetsOf
    <3>2. <<G, F>> \in R
      BY <2>4, <2>6 DEF StrictSubsetOrdering
    <3> QED
      BY <2>3, <3>1, <3>2
  <2>9. Cardinality(RequestsFor(F)) <=
            Cardinality(RequestsFor(G)) + Cardinality(Waivers!RequestsOf(f))
    <3> DEFINE A == RequestsFor(G)
               B == Waivers!RequestsOf(f)
    <3>1. RequestsFor(F) = A \cup B
      BY <2>6 DEF RequestsFor, Waivers!RequestsOf
    <3>2. IsFiniteSet(B)
      <4>1. B \subseteq 1 .. n
        BY <1>1 DEF Waivers!RequestsOf
      <4> QED
        BY <1>2, <4>1, FS_Subset
    <3>3. Cardinality(A \cup B) = Cardinality(A) + Cardinality(B) - Cardinality(A \cap B)
      <4> HIDE DEF A, B
      <4> QED
        BY <1>3, <3>2, FS_Union DEF A
    <3>4. Cardinality(A \cap B) \in Nat /\ Cardinality(A) \in Nat /\ Cardinality(B) \in Nat
      <4>1. IsFiniteSet(A \cap B)
        BY <3>2, FS_Subset
      <4> QED
        BY <1>3, <3>2, <4>1, FS_CardinalityType
    <3> QED
      BY <3>1, <3>3, <3>4
  <2>10. Cardinality(Waivers!RequestsOf(f)) \in Nat
         /\ Cardinality(Waivers!RequestsOf(f)) <= RequestLimit
    <3>1. Waivers!RequestsOf(f) \subseteq 1 .. n
      BY <1>1 DEF Waivers!RequestsOf
    <3>2. Cardinality(Waivers!RequestsOf(f)) \in Nat
      BY <1>2, <3>1, FS_Subset, FS_CardinalityType
    <3>3. Waivers!Cardinality(Waivers!RequestsOf(f)) <= RequestLimit
      BY <2>4, <2>6 DEF WithinLimit
    <3> QED
      BY <3>2, <3>3 DEF Waivers!Cardinality, Cardinality
  <2>11. RequestLimit * (Cardinality(G) + 1) = RequestLimit * Cardinality(G) + RequestLimit
    BY <2>7, WaiverBounds
  <2>12. RequestLimit * Cardinality(G) \in Nat
    BY <2>7, WaiverBounds
  <2>13. Holds(F)
    <3> HIDE DEF G
    <3> QED
      BY <1>3, <2>7, <2>8, <2>9, <2>10, <2>11, <2>12, WaiverBounds
  <2> QED
    BY <2>3, <2>13
<1>5. Advisory \in T
  BY WaiverBounds DEF FiniteSubsetsOf
<1>6. RequestsFor(Advisory) = 1 .. n
  BY <1>1 DEF RequestsFor
<1> QED
  BY <1>2, <1>4, <1>5, <1>6

\* Counters and what is published stay within their bounds: what may be tried
\* again has an attempt left.
WaiverCounts ==
    /\ \A a \in Waivers!Ids :
         /\ adjudications[a].attempts <= AttemptLimit
         /\ adjudications[a].retry = "ready" => adjudications[a].attempts < AttemptLimit
    /\ Len(adjudications) <= MaxAdjudications
    /\ desired \in Outcomes \cup {"pending", "clear", "advisory", "blocking", "error"}
    /\ published \subseteq Waivers!Findings

\* A row that keeps its attempts, or has the next one spent.
CountHolds(d) ==
    d.attempts <= AttemptLimit /\ (d.retry = "ready" => d.attempts < AttemptLimit)

LEMMA CountsOfUpdate ==
    ASSUME WaiverRowsOK, WaiverCounts, NEW a \in Waivers!Ids, NEW e, CountHolds(e),
           adjudications' = [adjudications EXCEPT ![a] = e],
           desired' \in Outcomes \cup {"pending", "clear", "advisory", "blocking", "error"},
           UNCHANGED published
    PROVE  WaiverCounts'
<1>1. /\ Waivers!Ids' = Waivers!Ids /\ Len(adjudications') = Len(adjudications)
      /\ \A x \in Waivers!Ids : adjudications'[x] = IF x = a THEN e ELSE adjudications[x]
  BY WaiverFields DEF WaiverRowsOK, Waivers!Ids
<1> QED
  BY <1>1 DEF WaiverCounts, CountHolds

LEMMA CountsOfQueue ==
    ASSUME WaiverRowsOK, WaiverCounts, NEW R, Waivers!Queue(R), UNCHANGED <<desired, published>>
    PROVE  WaiverCounts'
<1> DEFINE e == Waivers!Queued(R)
           n == Len(adjudications)
<1>1. n < MaxAdjudications /\ adjudications' = Append(adjudications, e)
  BY DEF Waivers!Queue
<1>2. e.attempts = 0 /\ e.retry = "ready"
  BY DEF Waivers!Queued
<1> HIDE DEF e
<1>3. /\ n \in Nat /\ Waivers!Ids = 1 .. n /\ Waivers!Ids' = 1 .. n + 1
      /\ Len(adjudications') = n + 1 /\ adjudications'[n + 1] = e
      /\ \A x \in 1 .. n : adjudications'[x] = adjudications[x]
  BY <1>1, WaiverFields DEF WaiverRowsOK, Waivers!Ids
<1> HIDE DEF n
<1>4. \A x \in Waivers!Ids' : CountHolds(adjudications'[x])
  BY <1>2, <1>3, WaiverBounds DEF WaiverCounts, CountHolds
<1>5. Len(adjudications') <= MaxAdjudications
  BY <1>1, <1>3, WaiverBounds
<1> QED
  BY <1>4, <1>5 DEF WaiverCounts, CountHolds

LEMMA EndIsAnOutcome ==
    ASSUME NEW a
    PROVE  Waivers!OutcomeAtEnd(a) \in {"clear", "advisory", "blocking", "error"}
BY DEF Waivers!OutcomeAtEnd

LEMMA CountsOfSpent ==
    ASSUME WaiverRowsOK, WaiverCounts, NEW a \in Waivers!Ids, NEW definitive \in BOOLEAN,
           adjudications[a].claim = "begun"
    PROVE  CountHolds(Waivers!Spent(adjudications[a], definitive))
<1> DEFINE d == adjudications[a]
           u == Waivers!Unclaimed(d)
           retry == IF definitive \/ d.attempts + 1 = AttemptLimit
                    THEN "exhausted" ELSE "ready"
<1>1. d \in WaiverRow /\ d.retry = "ready" /\ d.attempts < AttemptLimit /\ d.attempts \in Nat
  BY WaiverFields DEF RowHolds, WaiverRow, WaiverCounts
<1>2. u.attempts = d.attempts /\ u \in WaiverRow
  BY <1>1 DEF Waivers!Unclaimed, WaiverRow
<1>3. Waivers!Spent(d, definitive) = [u EXCEPT !.attempts = u.attempts + 1, !.retry = retry]
  BY <1>2 DEF Waivers!Spent
<1> HIDE DEF d, u
<1>4. /\ Waivers!Spent(d, definitive).attempts = d.attempts + 1
      /\ Waivers!Spent(d, definitive).retry = retry
  BY <1>2, <1>3 DEF WaiverRow
<1> QED
  BY <1>1, <1>4, WaiverBounds DEF CountHolds, d

\* An adjudication that goes on or ends.
LEMMA CountsOfExecution ==
    ASSUME WaiverInv, WaiverCounts, NEW a \in Waivers!Ids,
           \/ Waivers!RecoverExhausted(a) \/ Waivers!Claim(a) \/ Waivers!BeginAttempt(a)
           \/ Waivers!AttemptFails(a) \/ Waivers!Start(a) \/ Waivers!LeaseLapses(a)
           \/ Waivers!Decide(a) \/ Waivers!Fail(a)
    PROVE  WaiverCounts'
<1> DEFINE d == adjudications[a]
           Outcome == Outcomes \cup {"pending", "clear", "advisory", "blocking", "error"}
<1>1. /\ d \in WaiverRow /\ CountHolds(d) /\ WaiverRowsOK /\ desired \in Outcome
      /\ d.attempts \in Nat
  BY WaiverFields DEF WaiverInv, WaiverCounts, CountHolds, WaiverRow
<1> USE DEF Waivers!admissionVars, Waivers!followupVars
<1>2. CASE Waivers!RecoverExhausted(a)
  <2> DEFINE e == [d EXCEPT !.retry = "ready", !.attempts = 0]
  <2>1. adjudications' = [adjudications EXCEPT ![a] = e] /\ UNCHANGED <<desired, published>>
    BY <1>2 DEF Waivers!RecoverExhausted
  <2>2. CountHolds(e)
    BY <1>1, WaiverBounds DEF CountHolds, WaiverRow
  <2> QED
    BY <1>1, <2>1, <2>2, CountsOfUpdate
<1>3. CASE Waivers!Claim(a)
  <2> DEFINE held == [d EXCEPT !.claim = "held", !.leased = TRUE]
  <2>1. /\ adjudications' = [adjudications EXCEPT ![a] =
               IF d.claim = "begun" THEN Waivers!Spent(d, FALSE) ELSE held]
        /\ UNCHANGED <<desired, published>>
    BY <1>3 DEF Waivers!Claim
  <2>2. CountHolds(held)
    BY <1>1 DEF CountHolds, WaiverRow
  <2>3. d.claim = "begun" => CountHolds(Waivers!Spent(d, FALSE))
    BY <1>1, CountsOfSpent
  <2> HIDE DEF d, held
  <2> QED
    BY <1>1, <2>1, <2>2, <2>3, CountsOfUpdate
<1>4. CASE Waivers!BeginAttempt(a)
  <2> DEFINE e == [d EXCEPT !.claim = "begun"]
             u == Waivers!Unclaimed(d)
  <2>1. /\ \/ adjudications' = [adjudications EXCEPT ![a] = e]
           \/ adjudications' = [adjudications EXCEPT ![a] = u]
        /\ UNCHANGED <<desired, published>>
    BY <1>4 DEF Waivers!BeginAttempt
  <2>2. CountHolds(e) /\ CountHolds(u)
    BY <1>1 DEF CountHolds, Waivers!Unclaimed, WaiverRow
  <2> HIDE DEF e, u
  <2> QED
    BY <1>1, <2>1, <2>2, CountsOfUpdate
<1>5. CASE Waivers!AttemptFails(a)
  <2>1. /\ d.claim = "begun" /\ UNCHANGED <<desired, published>>
        /\ \E definitive \in BOOLEAN :
             adjudications' = [adjudications EXCEPT ![a] = Waivers!Spent(d, definitive)]
    BY <1>5 DEF Waivers!AttemptFails
  <2> QED
    BY <1>1, <2>1, CountsOfSpent, CountsOfUpdate
<1>6. CASE Waivers!Start(a)
  <2> DEFINE e == [d EXCEPT !.status = "running"]
  <2>1. /\ adjudications' = [adjudications EXCEPT ![a] = e] /\ desired' = "pending"
        /\ UNCHANGED published
    BY <1>6 DEF Waivers!Start
  <2>2. CountHolds(e)
    BY <1>1 DEF CountHolds, WaiverRow
  <2> QED
    BY <1>1, <2>1, <2>2, CountsOfUpdate
<1>7. CASE Waivers!LeaseLapses(a)
  <2> DEFINE e == [d EXCEPT !.leased = FALSE]
  <2>1. adjudications' = [adjudications EXCEPT ![a] = e] /\ UNCHANGED <<desired, published>>
    BY <1>7 DEF Waivers!LeaseLapses
  <2>2. CountHolds(e)
    BY <1>1 DEF CountHolds, WaiverRow
  <2> QED
    BY <1>1, <2>1, <2>2, CountsOfUpdate
<1>8. CASE Waivers!Decide(a)
  <2> DEFINE u == Waivers!Unclaimed(d)
  <2>1. PICK decided \in [d.asks -> Waivers!Decisions] :
            adjudications' = [adjudications EXCEPT ![a] =
                [u EXCEPT !.status = "completed", !.decided = decided]]
    BY <1>8 DEF Waivers!Decide
  <2>2. desired' = Waivers!OutcomeAtEnd(a) /\ UNCHANGED published
    BY <1>8 DEF Waivers!Decide
  <2>3. CountHolds(u) /\ u \in WaiverRow
    BY <1>1 DEF CountHolds, Waivers!Unclaimed, WaiverRow
  <2> DEFINE e == [u EXCEPT !.status = "completed", !.decided = decided]
  <2>4. CountHolds(e)
    BY <2>3 DEF CountHolds, WaiverRow
  <2> HIDE DEF u, e
  <2> QED
    BY <1>1, <2>1, <2>2, <2>4, EndIsAnOutcome, CountsOfUpdate DEF e
<1>9. CASE Waivers!Fail(a)
  <2> DEFINE u == Waivers!Unclaimed(d)
             e == [u EXCEPT !.status = "failed"]
  <2>1. /\ adjudications' = [adjudications EXCEPT ![a] = e]
        /\ desired' = Waivers!OutcomeAtEnd(a) /\ UNCHANGED published
    BY <1>9 DEF Waivers!Fail
  <2>2. CountHolds(u) /\ u \in WaiverRow
    BY <1>1 DEF CountHolds, Waivers!Unclaimed, WaiverRow
  <2>3. CountHolds(e)
    BY <2>2 DEF CountHolds, WaiverRow
  <2> HIDE DEF e
  <2> QED
    BY <1>1, <2>1, <2>3, EndIsAnOutcome, CountsOfUpdate
<1> QED
  BY <1>2, <1>3, <1>4, <1>5, <1>6, <1>7, <1>8, <1>9

LEMMA CountsOfRestart ==
    ASSUME WaiverInv, WaiverCounts, Waivers!Restart
    PROVE  WaiverCounts'
<1>1. /\ adjudications' = [a \in Waivers!Ids |->
             IF adjudications[a].status = "running"
             THEN [Waivers!Unclaimed(adjudications[a]) EXCEPT !.status = "failed"]
             ELSE [adjudications[a] EXCEPT !.leased = FALSE]]
      /\ UNCHANGED published
      /\ \/ desired' = Waivers!OutcomeAtEnd(Waivers!Newest(Waivers!Active))
         \/ desired' = desired
  BY DEF Waivers!Restart, Waivers!followupVars
<1>2. Waivers!Ids' = Waivers!Ids /\ Len(adjudications') = Len(adjudications)
  BY <1>1, WaiverFields DEF WaiverInv, Waivers!Ids
<1>3. ASSUME NEW a \in Waivers!Ids PROVE CountHolds(adjudications'[a])
  <2> DEFINE d == adjudications[a]
             u == Waivers!Unclaimed(d)
  <2>1. d \in WaiverRow /\ CountHolds(d)
    BY WaiverFields DEF WaiverInv, WaiverCounts, CountHolds
  <2>2. CountHolds(u) /\ u \in WaiverRow
    BY <2>1 DEF CountHolds, Waivers!Unclaimed, WaiverRow
  <2>3. CountHolds([u EXCEPT !.status = "failed"]) /\ CountHolds([d EXCEPT !.leased = FALSE])
    <3> HIDE DEF d, u
    <3> QED
      BY <2>1, <2>2 DEF CountHolds, WaiverRow
  <2>4. \/ adjudications'[a] = [u EXCEPT !.status = "failed"]
        \/ adjudications'[a] = [d EXCEPT !.leased = FALSE]
    BY <1>1
  <2> QED
    BY <2>3, <2>4
<1>4. desired' \in Outcomes \cup {"pending", "clear", "advisory", "blocking", "error"}
  BY <1>1, EndIsAnOutcome DEF WaiverCounts
<1> QED
  BY <1>1, <1>2, <1>3, <1>4 DEF WaiverCounts, CountHolds

LEMMA CountsStep == WaiverInv /\ WaiverCounts /\ [Next]_all => WaiverCounts'
<1> SUFFICES ASSUME WaiverInv, WaiverCounts, [Next]_all PROVE WaiverCounts'
  OBVIOUS
<1>0. WaiverRowsOK
  BY DEF WaiverInv
<1> USE DEF Waivers!admissionVars, Waivers!followupVars
<1>1. [Waivers!Next]_waiverVars
  BY WaiversMove
<1>2. CASE UNCHANGED waiverVars
  BY <1>2 DEF waiverVars, WaiverCounts, Waivers!Ids
<1>3. CASE Waivers!CompleteEvaluation
  BY <1>3 DEF Waivers!CompleteEvaluation, WaiverCounts, Waivers!Ids
<1>4. ASSUME NEW F \in SUBSET Advisory, Waivers!SubmitBatch(F) PROVE WaiverCounts'
  BY <1>0, <1>4, CountsOfQueue DEF Waivers!SubmitBatch
<1>5. ASSUME NEW R \in SUBSET Waivers!Requested, Waivers!RetryErrors(R) PROVE WaiverCounts'
  BY <1>0, <1>5, CountsOfQueue DEF Waivers!RetryErrors
<1>6. ASSUME NEW a \in Waivers!Ids, Waivers!RecoverFailed(a) PROVE WaiverCounts'
  BY <1>0, <1>6, CountsOfQueue DEF Waivers!RecoverFailed
<1>7. CASE Waivers!Restart
  BY <1>7, CountsOfRestart
<1>8. ASSUME NEW f \in Waivers!Findings, Waivers!PublishInline(f) PROVE WaiverCounts'
  BY <1>8 DEF Waivers!PublishInline, WaiverCounts, Waivers!Ids
<1> QED
  BY <1>1, <1>2, <1>3, <1>4, <1>5, <1>6, <1>7, <1>8, CountsOfExecution
  DEF Waivers!Next, Waivers!Admission, Waivers!Execution, Waivers!Publication

LEMMA WaiverTypes == WaiverInv /\ WaiverCounts => Waivers!TypeOK
<1> SUFFICES ASSUME WaiverInv, WaiverCounts PROVE Waivers!TypeOK
  OBVIOUS
<1>1. WaiverRowsOK /\ WithinLimit
  BY DEF WaiverInv, WaiverHistory
<1>2. Waivers!Requested \subseteq Waivers!RequestIds
  <2>1. Len(waiverRequests) <= RequestLimit * Cardinality(Advisory)
    BY <1>1, RequestsAreBounded
  <2>2. RequestLimit * Cardinality(Advisory) \in Nat
    BY WaiverBounds, FS_CardinalityType
  <2>3. Waivers!Cardinality(Advisory) = Cardinality(Advisory)
    BY DEF Waivers!Cardinality, Cardinality
  <2> QED
    BY <1>1, <2>1, <2>2, <2>3, WaiverFields DEF Waivers!RequestIds
<1>3. Waivers!Ids \subseteq Waivers!AdjudicationIds
  BY <1>1, WaiverFields, WaiverBounds DEF WaiverCounts, Waivers!AdjudicationIds
<1>4. ASSUME NEW a \in Waivers!Ids PROVE adjudications[a] \in Waivers!AdjudicationType
  <2> DEFINE d == adjudications[a]
  <2>1. d \in WaiverRow /\ RowHolds(d) /\ d.asks \subseteq Waivers!Requested
    BY <1>1, WaiverFields
  <2>2. d.decided \in UNION {[R -> Waivers!Decisions] : R \in SUBSET Waivers!RequestIds}
    <3>1. CASE d.status = "completed"
      BY <1>2, <2>1, <3>1 DEF RowHolds
    <3>2. CASE d.status # "completed"
      <4>1. d.decided = <<>>
        BY <2>1, <3>2 DEF RowHolds, Waivers!NoDecisions
      <4>2. <<>> \in [{} -> Waivers!Decisions]
        OBVIOUS
      <4> QED
        BY <4>1, <4>2
    <3> QED
      BY <3>1, <3>2
  <2>3. d.attempts \in 0 .. AttemptLimit
    BY <2>1, WaiverBounds DEF WaiverRow, WaiverCounts
  <2> QED
    BY <1>2, <2>1, <2>2, <2>3 DEF WaiverRow, Waivers!AdjudicationType
<1>5. adjudications \in Seq(Waivers!AdjudicationType)
  BY <1>1, <1>4 DEF WaiverRowsOK, Waivers!Ids
<1>6. replies \subseteq Waivers!AdjudicationIds \X Waivers!RequestIds
  <2>1. replies \subseteq Waivers!Ids \X Waivers!Requested
    BY DEF WaiverInv, Waivers!RepliesAreComplete
  <2> QED
    BY <1>2, <1>3, <2>1
<1> QED
  BY <1>1, <1>5, <1>6 DEF WaiverRowsOK, WaiverCounts, Waivers!TypeOK

-----------------------------------------------------------------------------
\* A rule and its evaluation, while they are the subject.
LEMMA RuleTypesStep ==
    ASSUME Rule!TypeOK, Rule!Next
    PROVE  Rule!TypeOK'
<1>1. CASE Rule!Acquire
  <2>1. changeset \in Rule!Changesets /\ Len(changeset) = 1
    BY <1>1 DEF Rule!Acquire, Rule!TypeOK
  <2>2. changeset[1] \in Rule!FileChanges
    BY <2>1 DEF Rule!Changesets
  <2>3. PICK f \in Rule!FileChanges : changeset' = <<changeset[1], f>>
    BY <1>1 DEF Rule!Acquire
  <2>4. changeset' \in Rule!Changesets
    BY <2>2, <2>3 DEF Rule!Changesets
  <2> QED
    BY <1>1, <2>4 DEF Rule!Acquire, Rule!TypeOK
<1>2. CASE Rule!Record
  <2>1. outcome' = Rule!Outcome
    BY <1>2 DEF Rule!Record
  <2>2. Rule!Outcome.outcome \in {"error", "applicable", "not_applicable"}
    BY DEF Rule!Outcome, Rule!None
  <2>3. row' \in {"inserted", "refused"} /\ UNCHANGED <<rule, changeset>>
    BY <1>2 DEF Rule!Record
  <2> QED
    BY <2>1, <2>2, <2>3 DEF Rule!TypeOK
<1> QED
  BY <1>1, <1>2 DEF Rule!Next

RuleInv == subject = "rule" => Rule!TypeOK

LEMMA RuleBegins == Beginning => RuleInv
BY DEF Beginning, RuleInv, Rule!Init, Rule!TypeOK, Rule!Changesets, Rule!None

LEMMA RuleStep == RuleInv /\ [Next]_all => RuleInv'
<1> SUFFICES ASSUME RuleInv, [Next]_all, subject' = "rule" PROVE Rule!TypeOK'
  BY DEF RuleInv
<1>1. subject = "rule"
  BY DEF Next, all, OfConnection, OfRepository, OfAdmission, OfRule, OfWaivers, OfFeedback,
     OfAuthority
<1>2. Rule!Next \/ UNCHANGED ruleVars
  BY DEF Next, all, OfConnection, OfRepository, OfAdmission, OfRule, OfWaivers, OfFeedback,
     OfAuthority
<1>3. CASE UNCHANGED ruleVars
  BY <1>1, <1>3 DEF RuleInv, ruleVars, Rule!TypeOK
<1> QED
  BY <1>1, <1>2, <1>3, RuleTypesStep DEF RuleInv

-----------------------------------------------------------------------------
\* The rows of the Operator's authority.
LEMMA OperatorBegins == Operator!Init => Operator!TypeOK
<1> SUFFICES ASSUME Operator!Init PROVE Operator!TypeOK
  OBVIOUS
<1>1. Operator!Unopened \in Operator!SessionType
  BY AuthorityBounds DEF Operator!Unopened, Operator!SessionType, Operator!Times
<1>2. Operator!NoFailures \in [attempts : 0 .. MaxLogins, until : 0 .. MaxTime + MaxDelay]
  BY AuthorityBounds DEF Operator!NoFailures
<1>3. time = 0 /\ epoch = 0 /\ 0 \in Operator!Times /\ 0 \in 0 .. MaxEpoch
  BY AuthorityBounds DEF Operator!Init, Operator!Times
<1>4. /\ password = Operator!NoPassword /\ implementer = FALSE /\ serving = FALSE
      /\ pending = {} /\ rejected = <<>> /\ throttle = Operator!NoFailures
      /\ sessions = [s \in Operator!Sessions |-> Operator!Unopened]
  BY DEF Operator!Init
<1>5. sessions \in [Operator!Sessions -> Operator!SessionType]
  BY <1>1, <1>4
<1>6. /\ implementer \in BOOLEAN /\ serving \in BOOLEAN
      /\ password \in Passwords \cup {Operator!NoPassword}
  BY <1>4
<1>7. rejected \in Seq(Operator!Times) /\ pending \subseteq Operator!Mutations
  BY <1>4
<1>8. /\ time \in Operator!Times /\ epoch \in 0 .. MaxEpoch
      /\ throttle \in [attempts : 0 .. MaxLogins, until : 0 .. MaxTime + MaxDelay]
  BY <1>2, <1>3, <1>4
<1> QED
  BY <1>5, <1>6, <1>7, <1>8 DEF Operator!TypeOK

LEMMA OperatorRows ==
    Operator!Unopened \in Operator!SessionType /\ Operator!Gone \in Operator!SessionType
<1> DEFINE unopened == [opened |-> FALSE, stored |-> FALSE, created |-> 0, last |-> 0,
                        under |-> 0]
<1>1. unopened \in Operator!SessionType
  BY AuthorityBounds DEF Operator!SessionType, Operator!Times
<1>2. Operator!Unopened = unopened /\ Operator!Gone = [unopened EXCEPT !.opened = TRUE]
  BY DEF Operator!Unopened, Operator!Gone
<1> HIDE DEF unopened
<1> QED
  BY <1>1, <1>2 DEF Operator!SessionType

\* What ends every session, in an epoch of its own.
LEMMA OperatorEnds ==
    ASSUME Operator!TypeOK, Operator!EndSessions
    PROVE  sessions' \in [Operator!Sessions -> Operator!SessionType] /\ epoch' \in 0 .. MaxEpoch
BY OperatorRows, AuthorityBounds DEF Operator!TypeOK, Operator!EndSessions

LEMMA OperatorOfSession ==
    ASSUME Operator!TypeOK, NEW s \in Operator!Sessions,
           Operator!Login(s) \/ Operator!Logout(s) \/ Operator!Touch(s)
    PROVE  Operator!TypeOK'
<1> USE DEF Operator!failures
<1>1. CASE Operator!Login(s)
  <2> DEFINE new == [opened |-> TRUE, stored |-> TRUE, created |-> time, last |-> time,
                     under |-> epoch]
  <2>1. new \in Operator!SessionType
    BY DEF Operator!TypeOK, Operator!SessionType
  <2>2. sessions' = [sessions EXCEPT ![s] = new] /\ throttle' = Operator!NoFailures
        /\ rejected' = <<>>
        /\ UNCHANGED <<time, password, implementer, pending, serving, epoch>>
    BY <1>1 DEF Operator!Login, Operator!ClearFailures
  <2>3. Operator!NoFailures \in [attempts : 0 .. MaxLogins, until : 0 .. MaxTime + MaxDelay]
    BY AuthorityBounds DEF Operator!NoFailures
  <2> HIDE DEF new
  <2> QED
    BY <2>1, <2>2, <2>3 DEF Operator!TypeOK
<1>2. CASE Operator!Logout(s)
  BY <1>2, OperatorRows DEF Operator!Logout, Operator!TypeOK
<1>3. CASE Operator!Touch(s)
  <2> DEFINE new == [sessions[s] EXCEPT !.last = time]
  <2>1. new \in Operator!SessionType
    BY DEF Operator!TypeOK, Operator!SessionType
  <2>2. sessions' = [sessions EXCEPT ![s] = new]
        /\ UNCHANGED <<time, password, throttle, rejected, implementer, pending, serving, epoch>>
    BY <1>3 DEF Operator!Touch
  <2> HIDE DEF new
  <2> QED
    BY <2>1, <2>2 DEF Operator!TypeOK
<1> QED
  BY <1>1, <1>2, <1>3

LEMMA OperatorOfMutation ==
    ASSUME Operator!TypeOK, NEW q \in Operator!Mutations,
           \/ Operator!Pass(q) \/ Operator!ChangePassword(q) \/ Operator!RevokeAll(q)
           \/ Operator!ReplaceToken(q) \/ Operator!RevokeToken(q) \/ Operator!Refuse(q)
    PROVE  Operator!TypeOK'
<1> USE DEF Operator!failures, Operator!Handles
<1>1. CASE Operator!Pass(q)
  BY <1>1 DEF Operator!Pass, Operator!TypeOK
<1>2. CASE Operator!ChangePassword(q)
  <2>1. sessions' \in [Operator!Sessions -> Operator!SessionType] /\ epoch' \in 0 .. MaxEpoch
    BY <1>2, OperatorEnds DEF Operator!ChangePassword
  <2> QED
    BY <1>2, <2>1 DEF Operator!ChangePassword, Operator!TypeOK
<1>3. CASE Operator!RevokeAll(q)
  <2>1. sessions' \in [Operator!Sessions -> Operator!SessionType] /\ epoch' \in 0 .. MaxEpoch
    BY <1>3, OperatorEnds DEF Operator!RevokeAll
  <2> QED
    BY <1>3, <2>1 DEF Operator!RevokeAll, Operator!TypeOK
<1>4. CASE Operator!ReplaceToken(q)
  BY <1>4 DEF Operator!ReplaceToken, Operator!TypeOK
<1>5. CASE Operator!RevokeToken(q)
  BY <1>5 DEF Operator!RevokeToken, Operator!TypeOK
<1>6. CASE Operator!Refuse(q)
  BY <1>6 DEF Operator!Refuse, Operator!TypeOK
<1> QED
  BY <1>1, <1>2, <1>3, <1>4, <1>5, <1>6

LEMMA OperatorOfHost ==
    ASSUME Operator!TypeOK,
           \/ Operator!RejectLogin \/ Operator!RemoveExpired
           \/ Operator!Start \/ Operator!Stop \/ Operator!Bootstrap \/ Operator!Recover
           \/ Operator!Tick
    PROVE  Operator!TypeOK'
<1> USE DEF Operator!failures
<1>0. Operator!NoFailures \in [attempts : 0 .. MaxLogins, until : 0 .. MaxTime + MaxDelay]
  BY AuthorityBounds DEF Operator!NoFailures
<1>1. CASE Operator!RejectLogin
  <2> DEFINE attempts == Operator!Counted(throttle.attempts + 1)
             delay == Operator!Delay(attempts)
  <2>1. attempts \in 1 .. MaxLogins
    BY AuthorityBounds DEF Operator!Counted, Operator!TypeOK
  <2>2. delay \in Nat
    BY <2>1, AuthorityBounds
  <2>3. delay <= MaxDelay
    BY <2>2, AuthorityBounds DEF Operator!Delay
  <2> HIDE DEF attempts, delay
  <2>4. time + delay \in 0 .. MaxTime + MaxDelay /\ time \in Operator!Times
    BY <2>2, <2>3, AuthorityBounds DEF Operator!TypeOK, Operator!Times
  <2>5. /\ throttle' = [attempts |-> attempts, until |-> time + delay]
        /\ rejected' = Append(rejected, time)
        /\ UNCHANGED <<time, password, sessions, implementer, pending, serving, epoch>>
    BY <1>1 DEF Operator!RejectLogin, attempts, delay
  <2>6. rejected' \in Seq(Operator!Times)
    BY <2>4, <2>5 DEF Operator!TypeOK
  <2>7. throttle' \in [attempts : 0 .. MaxLogins, until : 0 .. MaxTime + MaxDelay]
    BY <2>1, <2>4, <2>5
  <2> QED
    BY <2>5, <2>6, <2>7 DEF Operator!TypeOK
<1>2. CASE Operator!RemoveExpired
  BY <1>2, OperatorRows DEF Operator!RemoveExpired, Operator!TypeOK
<1>3. CASE Operator!Start \/ Operator!Stop
  BY <1>3 DEF Operator!Start, Operator!Stop, Operator!TypeOK
<1>4. CASE Operator!Bootstrap
  BY <1>0, <1>4 DEF Operator!Bootstrap, Operator!ClearFailures, Operator!TypeOK
<1>5. CASE Operator!Recover
  <2>1. sessions' \in [Operator!Sessions -> Operator!SessionType] /\ epoch' \in 0 .. MaxEpoch
    BY <1>5, OperatorEnds DEF Operator!Recover
  <2>2. /\ password' \in Passwords /\ implementer' = FALSE /\ rejected' = <<>>
        /\ throttle' = Operator!NoFailures /\ UNCHANGED <<time, pending, serving>>
    BY <1>5 DEF Operator!Recover, Operator!ClearFailures
  <2>3. /\ time' \in Operator!Times /\ pending' \subseteq Operator!Mutations
        /\ serving' \in BOOLEAN
    BY <2>2 DEF Operator!TypeOK
  <2>4. implementer' \in BOOLEAN /\ password' \in Passwords \cup {Operator!NoPassword}
    BY <2>2
  <2>5. /\ rejected' \in Seq(Operator!Times)
        /\ throttle' \in [attempts : 0 .. MaxLogins, until : 0 .. MaxTime + MaxDelay]
    BY <1>0, <2>2
  <2> QED
    BY <2>1, <2>3, <2>4, <2>5 DEF Operator!TypeOK
<1>6. CASE Operator!Tick
  <2>1. time' \in Operator!Times
    BY <1>6, AuthorityBounds DEF Operator!Tick, Operator!TypeOK, Operator!Times
  <2> QED
    BY <1>6, <2>1 DEF Operator!Tick, Operator!TypeOK
<1> QED
  BY <1>1, <1>2, <1>3, <1>4, <1>5, <1>6

LEMMA OperatorStep == Operator!TypeOK /\ [Next]_all => Operator!TypeOK'
<1> SUFFICES ASSUME Operator!TypeOK, [Next]_all PROVE Operator!TypeOK'
  OBVIOUS
<1>1. Operator!Next \/ UNCHANGED authorityVars
  BY DEF Next, all, OfConnection, OfRepository, OfAdmission, OfRule, OfWaivers, OfFeedback,
     OfAuthority
<1>2. CASE UNCHANGED authorityVars
  BY <1>2 DEF authorityVars, Operator!TypeOK
<1>3. CASE Operator!Next
  BY <1>3, OperatorOfSession, OperatorOfMutation, OperatorOfHost DEF Operator!Next
<1> QED
  BY <1>1, <1>2, <1>3

-----------------------------------------------------------------------------
\* Both instances of the connections have the types of the one the proofs are
\* about.
LEMMA ConnectionTypes ==
    ConnectionInv => /\ subject = "GitHub" => GitHub!TypeOK
                     /\ subject = "Forgejo" => Forgejo!ForgejoTypeOK
<1> USE DEF Connections!RowsOK, Connections!CommonTypeOK, Connections!RequestsOK,
        Connections!Credentials, Connections!Verifications, Connections!ConnectionType,
        Connections!RepositoryType, Connections!RequestType
<1>1. ASSUME Connections!GitHubInv PROVE GitHub!TypeOK
  BY <1>1 DEF Connections!GitHubInv, Connections!Stages, Connections!Flows, GitHub!TypeOK,
     GitHub!CommonTypeOK, GitHub!Credentials, GitHub!Verifications, GitHub!ConnectionType,
     GitHub!RepositoryType, GitHub!RequestType, GitHub!Stages, GitHub!Flows
<1>2. ASSUME Connections!ForgejoInv PROVE Forgejo!ForgejoTypeOK
  BY <1>2 DEF Connections!ForgejoInv, Connections!ForgejoStages, Forgejo!ForgejoTypeOK,
     Forgejo!CommonTypeOK, Forgejo!Credentials, Forgejo!Verifications, Forgejo!ConnectionType,
     Forgejo!RepositoryType, Forgejo!RequestType, Forgejo!ForgejoStages
<1> QED
  BY <1>1, <1>2 DEF ConnectionInv

\* No adjudication has begun when the Evaluation is admitted.
LEMMA CountsBegin == Waivers!Init => WaiverCounts
BY WaiverBounds DEF Waivers!Init, WaiverCounts, Waivers!Ids

\* A behaviour keeps its subject.
LEMMA SubjectStays == subject \in Subjects /\ [Next]_all => subject' \in Subjects
BY DEF Next, all, OfConnection, OfRepository, OfAdmission, OfRule, OfWaivers, OfFeedback,
       OfAuthority

-----------------------------------------------------------------------------
(***************************************************************************)
(* The theorems                                                            *)
(***************************************************************************)

\* Whatever operations on a Generic HTTPS Repository overlap, a retired one
\* keeps no credential and every Evaluation is about the Repository there is.
THEOREM GenericRepositoryCorrect ==
    Spec => [](Generic!RetiredKeepsNoCredential /\ Generic!EvaluationsKeepTheirRepository)
<1>1. Beginning => GenericInv
  BY GenericInit DEF Beginning
<1>2. GenericInv /\ [Next]_all => GenericInv'
  BY GenericStep
<1>3. GenericInv => Generic!RetiredKeepsNoCredential /\ Generic!EvaluationsKeepTheirRepository
  BY DEF GenericInv, GenericRowsOK
<1> QED
  BY <1>1, <1>2, <1>3, PTL DEF Spec

\* Of either forge: every enabled Repository was verified with the credential
\* that is stored, however the operations on the connection overlap.
THEOREM CredentialCoversEnabledCorrect == Spec => []CredentialCoversEnabled
<1>1. ConnectionInv => CredentialCoversEnabled
  BY DEF ConnectionInv, Connections!RowsOK, Connections!CredentialCoversEnabled,
     CredentialCoversEnabled, Connections!On, On
<1> QED
  BY <1>1, ConnectionBegins, ConnectionStep, PTL DEF Spec

\* Of either forge: nothing is enabled behind the retirement of the
\* connection, and its credential is gone.
THEOREM RetiredStandsAloneCorrect == Spec => []RetiredStandsAlone
<1>1. ConnectionInv => RetiredStandsAlone
  BY DEF ConnectionInv, Connections!RowsOK, Connections!RetiredStandsAlone,
     RetiredStandsAlone, Connections!Known, Known, Connections!On, On
<1> QED
  BY <1>1, ConnectionBegins, ConnectionStep, PTL DEF Spec

\* Operations and logins overlap with whatever the Operator decides: no
\* verification undoes it on a row that is there, no session that has ended is
\* honoured again, none outlives what ends them all, and failing logins are apart
\* by the delay that their number imposes.
THEOREM DecisionsHoldCorrect == Spec => DecisionsHold
<1>1. Beginning => GenericInv /\ Authority!SessionsInv /\ Authority!ThrottleInv
  <2>1. Beginning => Operator!Init
    BY DEF Beginning
  <2>2. Authority!Init => Authority!SessionsInv
    BY Authority!Rows DEF Authority!Init, Authority!SessionsInv, Authority!Unopened
  <2> QED
    BY <2>1, <2>2, GenericInit, AuthorityBegins, AuthorityIsBounded, Authority!ThrottleBegins
    DEF Beginning
<1>2. GenericInv /\ [Next]_all => GenericInv'
  BY GenericStep
<1>3. Authority!SessionsInv /\ [Next]_all => Authority!SessionsInv'
  BY AuthorityMoves, AuthorityIsBounded, Authority!StepKeeps
<1>4. Authority!ThrottleInv /\ [Next]_all => Authority!ThrottleInv'
  BY AuthorityMoves, AuthorityIsBounded, Authority!ThrottleKeeps
<1>5. Spec => [](GenericInv /\ Authority!SessionsInv /\ Authority!ThrottleInv)
  BY <1>1, <1>2, <1>3, <1>4, PTL DEF Spec
<1>6. Spec => Generic!DecisionsHold
  <2>1. GenericInv /\ [Next]_all =>
          [repositoryRow.exists /\ repositoryRow'.exists
             /\ repositoryRow.lifecycle # "enabled" /\ repositoryRow'.lifecycle = "enabled"
             => \E o \in Requests : operations[o].at # "idle" /\ operations'[o].at = "idle"
                                    /\ ~operations[o].overtaken]_(Generic!vars)
    BY GenericDecides
  <2> QED
    BY <1>5, <2>1, PTL DEF Spec, Generic!DecisionsHold
<1>7. Spec => [](Generic!RetiredKeepsNoCredential /\ Generic!EvaluationsKeepTheirRepository)
  <2>1. GenericInv => Generic!RetiredKeepsNoCredential /\ Generic!EvaluationsKeepTheirRepository
    BY DEF GenericInv, GenericRowsOK
  <2> QED
    BY <1>5, <2>1, PTL
<1>8. Spec => Operator!EndedStaysEnded
  <2>1. Authority!SessionsInv /\ Authority!SessionsInv' /\ [Next]_all =>
          [\A s \in Operator!Sessions :
              sessions[s].opened /\ ~Operator!Authenticates(s)
                  => ~Operator!Authenticates(s)']_(Operator!vars)
    <3> SUFFICES ASSUME Authority!SessionsInv, Authority!SessionsInv', [Next]_all,
                        NEW s \in Operator!Sessions, sessions[s].opened,
                        ~Operator!Authenticates(s)
                 PROVE  ~Operator!Authenticates(s)'
      OBVIOUS
    <3>1. s \in Authority!Sessions /\ ~Authority!Authenticates(s)
      BY AuthoritySessions
    <3>2. time' >= time /\ Authority!Kept(s)
      BY <3>1, AuthorityMoves, AuthorityIsBounded, Authority!StepKeeps
    <3>3. ~Authority!Authenticates(s)'
      BY <3>1, <3>2, AuthorityIsBounded, Authority!ExpiredStays
    <3> QED
      BY <3>3 DEF Operator!Authenticates, Authority!Authenticates, Operator!HasExpired,
         Authority!HasExpired
  <2> QED
    BY <1>5, <2>1, PTL DEF Spec, Operator!EndedStaysEnded
<1>9. Spec => [](Operator!SessionsAreCurrent /\ Operator!LoginsAreSpaced)
  <2>1. Authority!SessionsInv => Operator!SessionsAreCurrent
    BY AuthoritySessions DEF Authority!SessionsInv, Operator!SessionsAreCurrent,
       Operator!Authenticates
  <2>2. Authority!ThrottleInv => Operator!LoginsAreSpaced
    BY DEF Authority!ThrottleInv, Authority!LoginsAreSpaced, Operator!LoginsAreSpaced,
       Operator!Delay, Authority!Delay, Operator!Counted, Authority!Counted
  <2> QED
    BY <1>5, <2>1, <2>2, PTL
<1> QED
  BY <1>6, <1>7, <1>8, <1>9, PTL DEF DecisionsHold

\* Whatever requests overlap under one key, change the Reviews or time out,
\* every answer is the Evaluation its request asked for.
THEOREM AdmittedAsAskedCorrect == Spec => []AdmittedAsAsked
<1>1. Beginning => AdmissionInv
  BY AdmissionInit DEF Beginning
<1>2. AdmissionInv /\ [Next]_all => AdmissionInv'
  BY AdmissionStep
<1>3. AdmissionInv => AdmittedAsAsked
  BY AdmissionHolds
<1> QED
  BY <1>1, <1>2, <1>3, PTL DEF Spec

\* Whatever answers are lost, connections retired and processes crash, no comment
\* is written twice, and a post is unavailable only with a verdict if its delivery
\* was ever begun; at Forgejo a comment also if it was not.
THEOREM FeedbackIsDeliveredOnceCorrect == Spec => []FeedbackIsDeliveredOnce
<1>1. Beginning => FeedbackInv
  BY FeedbackInit DEF Beginning
<1>2. FeedbackInv /\ [Next]_all => FeedbackInv'
  BY FeedbackStep
<1>3. FeedbackInv => FeedbackIsDeliveredOnce
  BY FeedbackHolds
<1> QED
  BY <1>1, <1>2, <1>3, PTL DEF Spec

\* However batches of Requests are submitted, retried, recovered, exhausted and
\* interrupted, the commit status follows the Decisions, a Finding is asked
\* about again only after a denial, no Request is stranded and every accepted
\* Decision has its one reply, whichever of Decision and comment came first.
THEOREM WaiversAreDecidedCorrect == Spec => []WaiversAreDecided
<1>1. Beginning => WaiverInv
  BY WaiverInit DEF Beginning
<1>2. WaiverInv /\ [Next]_all => WaiverInv'
  BY WaiverStep
<1>3. WaiverInv => WaiversAreDecided
  BY WaiversHold
<1> QED
  BY <1>1, <1>2, <1>3, PTL DEF Spec

\* No operation on waivers runs into a trigger or the unique index of the
\* database: what the services look at first implies what the schema demands
\* of a Request, of an adjudication and of its every change.
THEOREM SchemaAcceptsCorrect == Spec => SchemaAccepts
<1>1. Beginning => WaiverInv
  BY WaiverInit DEF Beginning
<1>2. WaiverInv /\ [Next]_all => WaiverInv'
  BY WaiverStep
<1>3. WaiverInv /\ [Next]_all => [Accepts]_(Waivers!vars)
  BY WritesAccepted
<1>4. Spec => [][Accepts]_(Waivers!vars)
  BY <1>1, <1>2, <1>3, PTL DEF Spec
<1> QED
  BY <1>4 DEF SchemaAccepts, Waivers!SchemaAccepts, Accepts

\* The variables of every subject have their types, whatever overlaps: every
\* row holds what the schema lets it hold and every count stays within its
\* bound, the attempts of an adjudication and its Requests among them.
THEOREM RecordsTypesCorrect == Spec => []TypesOK
<1> DEFINE TypesInv ==
             /\ subject \in Subjects
             /\ ConnectionInv /\ GenericInv /\ AdmissionInv /\ RuleInv
             /\ WaiverInv /\ WaiverCounts /\ FeedbackInv /\ Operator!TypeOK
<1>1. Beginning => TypesInv
  BY ConnectionBegins, GenericInit, AdmissionInit, RuleBegins, WaiverInit, CountsBegin,
     FeedbackInit, OperatorBegins DEF Beginning
<1>2. TypesInv /\ [Next]_all => TypesInv'
  BY SubjectStays, ConnectionStep, GenericStep, AdmissionStep, RuleStep, WaiverStep,
     CountsStep, FeedbackStep, OperatorStep
<1>3. TypesInv => TypesOK
  <2>1. GenericInv => Generic!TypeOK
    BY DEF GenericInv, GenericRowsOK, Generic!TypeOK
  <2>2. AdmissionInv => Admission!TypeOK
    BY DEF AdmissionInv
  <2>3. FeedbackInv => Feedback!TypeOK
    BY DEF FeedbackInv
  <2>4. RuleInv => (subject = "rule" => Rule!TypeOK)
    BY DEF RuleInv
  <2> QED
    BY <2>1, <2>2, <2>3, <2>4, ConnectionTypes, WaiverTypes DEF TypesOK
<1> HIDE DEF TypesInv
<1> QED
  BY <1>1, <1>2, <1>3, PTL DEF Spec

-----------------------------------------------------------------------------
(***************************************************************************)
(* An applicability rule.  What a recursive function computes cannot be    *)
(* shown by induction here, but no rule of the grammar has a depth of more *)
(* than 6: a function that satisfies the recursion exists, since applying  *)
(* it six times settles every node, and so Evaluate, Meaning and Reliance  *)
(* do.  Then the three are compared at a node from what they are at its    *)
(* kids, level by level up to the rule.                                    *)
(***************************************************************************)

Files == Rule!FileChanges \cup {Rule!NoFile}
Sides == {"before", "after"}
Ids == Seq({1, 2})

\* The right-hand sides of Evaluate, Meaning and Reliance, with the changeset and
\* the function they call as arguments.
EvaluateOnce(cs, f, e) ==
    LET node == e.node
        Of(i, file, side) == f[Rule!At(node.kids[i], Append(e.id, i), file, side)]
        Part(i) == Of(i, e.file, e.side)
    IN
    CASE node.type \in {"true", "false"} -> Rule!Trace(node.type, {}, {e.id}, {})
      [] node.type = "group" -> Rule!Group(Part(1), e.id)
      [] node.type = "not" -> Rule!Not(Part(1), e.id)
      [] node.type = "and" -> Rule!And(Part(1), Part(2), e.id)
      [] node.type = "or" -> Rule!Or(Part(1), Part(2), e.id)
      [] node.type = "file_exists" ->
             Rule!FileExists([i \in DOMAIN cs |-> Of(1, cs[i], e.side)], e.id)
      [] node.type = "path_exists" ->
             Rule!PathExists([s \in Rule!Paths(e.file) |-> Of(1, e.file, s)], e.id)
      [] node.type = "added" ->
             Rule!Trace(Rule!Truth(e.file.added), {}, {e.id},
                   IF e.file.added THEN {Rule!Seen("change")} ELSE {})
      [] node.type = "path" -> Rule!Match(e.file.path, e.side, e.id)
      [] node.type = "before" ->
             Rule!Match(IF e.file.added THEN "none" ELSE e.file.path, "before", e.id)
      [] node.type = "content" -> Rule!Match(e.file.content, "after", e.id)

Conjunction(a, b) == {Rule!Truth(v = "true" /\ w = "true") : v \in a, w \in b}
Disjunction(a, b) == {Rule!Truth(v = "true" \/ w = "true") : v \in a, w \in b}
Only(b) == {Rule!Truth(b)}
AnyOf(cs, f, n) ==
    {v \in Rule!Truths :
        \/ v = "true" /\ \E i \in DOMAIN cs : "true" \in f[<<n, cs[i]>>]
        \/ v = "false" /\ \A i \in DOMAIN cs : "false" \in f[<<n, cs[i]>>]}

MeanOnce(cs, f, x) ==
    LET node == x[1]
        file == x[2]
        Of(i) == f[<<node.kids[i], file>>] IN
    CASE node.type \in Rule!Truths -> {node.type}
      [] node.type = "group" -> Of(1)
      [] node.type = "not" -> Rule!Negated(Of(1))
      [] node.type = "and" -> Conjunction(Of(1), Of(2))
      [] node.type = "or" -> Disjunction(Of(1), Of(2))
      [] node.type = "file_exists" -> AnyOf(cs, f, node.kids[1])
      [] node.type = "path_exists" -> Of(1)
      [] node.type = "added" -> Only(file.added)
      [] node.type = "path" -> Only(file.path = "hit")
      [] node.type = "before" -> Only(~file.added /\ file.path = "hit")
      [] node.type = "content" ->
             IF file.content \in Rule!Unavailable THEN Rule!Truths
             ELSE Only(file.content = "hit")

RelyNot(left) ==
    [asks |-> left.asks, sound |-> Rule!Negated(left.sound),
     complete |-> Rule!Negated(left.complete)]
RelyBoth(type, left, right) ==
    [asks |-> left.asks \cup right.asks,
     sound |-> left.sound \cap right.sound,
     complete |-> (left.complete \cap right.complete)
                      \ (IF type = "and" /\ left.asks # {} THEN {"false"} ELSE {})]
RelyExists(left) ==
    IF left.asks = {} THEN left
    ELSE [asks |-> left.asks,
          sound |-> left.sound \cap {"true"},
          complete |-> (left.complete \cap {"true"})
                           \cup (IF "true" \in left.sound THEN {"false"} ELSE {})]

RelyOnce(f, node) ==
    LET left == f[node.kids[1]]
        right == f[node.kids[2]]
    IN
    CASE node.kids = <<>> ->
             [asks |-> {"content"} \cap {node.type}, sound |-> Rule!Truths,
              complete |-> Rule!Truths]
      [] node.type = "group" -> left
      [] node.type = "not" -> RelyNot(left)
      [] node.type \in {"and", "or"} -> RelyBoth(node.type, left, right)
      [] node.type \in {"file_exists", "path_exists"} -> RelyExists(left)

EvaluateAll(cs, f) == [e \in Rule!Evaluations |-> EvaluateOnce(cs, f, e)]
MeanAll(cs, f) == [x \in Nodes \X Files |-> MeanOnce(cs, f, x)]
RelyAll(f) == [n \in Nodes |-> RelyOnce(f, n)]

EvaluationOf(cs) == CHOOSE f : f = EvaluateAll(cs, f)
MeaningOf(cs) == CHOOSE f : f = MeanAll(cs, f)

LEMMA EvaluationIsRecursive == Rule!Evaluate = EvaluationOf(changeset)
BY DEF Rule!Evaluate, EvaluationOf, EvaluateAll, EvaluateOnce

LEMMA MeaningIsRecursive == Rule!Meaning = MeaningOf(changeset)
BY DEF Rule!Meaning, MeaningOf, MeanAll, MeanOnce, Files, Only, Conjunction, Disjunction,
       AnyOf

-----------------------------------------------------------------------------
Singles == {"true", "false", "added", "path", "before", "content"}
Shape(n) ==
    /\ n.type \in Singles \cup {"group", "not", "and", "or", "file_exists", "path_exists"}
    /\ n.type \notin Singles => 1 \in DOMAIN n.kids
    /\ n.type \in {"and", "or"} => 2 \in DOMAIN n.kids
    /\ DOMAIN n.kids \subseteq {1, 2}
    /\ n.kids = <<>> <=> n.type \in Singles

\* The nodes of a depth of at most 1 .. 6.
Depth1(n) == Shape(n) /\ DOMAIN n.kids = {}
Depth2(n) == Shape(n) /\ \A i \in DOMAIN n.kids : Depth1(n.kids[i])
Depth3(n) == Shape(n) /\ \A i \in DOMAIN n.kids : Depth2(n.kids[i])
Depth4(n) == Shape(n) /\ \A i \in DOMAIN n.kids : Depth3(n.kids[i])
Depth5(n) == Shape(n) /\ \A i \in DOMAIN n.kids : Depth4(n.kids[i])
Depth6(n) == Shape(n) /\ \A i \in DOMAIN n.kids : Depth5(n.kids[i])

LEMMA Deeper ==
    ASSUME NEW n
    PROVE  /\ Depth1(n) => Depth2(n)
           /\ Depth2(n) => Depth3(n)
           /\ Depth3(n) => Depth4(n)
           /\ Depth4(n) => Depth5(n)
           /\ Depth5(n) => Depth6(n)
<1>1. ASSUME NEW m PROVE Depth1(m) => Depth2(m)
  BY DEF Depth1, Depth2
<1>2. ASSUME NEW m PROVE Depth2(m) => Depth3(m)
  BY <1>1 DEF Depth2, Depth3
<1>3. ASSUME NEW m PROVE Depth3(m) => Depth4(m)
  BY <1>2 DEF Depth3, Depth4
<1>4. ASSUME NEW m PROVE Depth4(m) => Depth5(m)
  BY <1>3 DEF Depth4, Depth5
<1>5. ASSUME NEW m PROVE Depth5(m) => Depth6(m)
  BY <1>4 DEF Depth5, Depth6
<1> QED
  BY <1>1, <1>2, <1>3, <1>4, <1>5

LEMMA SingleShape ==
    ASSUME NEW t \in Singles
    PROVE  Depth1(Node(t, <<>>))
BY DEF Depth1, Shape, Node, Singles

LEMMA UnaryShape ==
    ASSUME NEW t \in {"group", "not", "file_exists", "path_exists"}, NEW n
    PROVE  LET u == Node(t, <<n>>) IN
           /\ Depth1(n) => Depth2(u)
           /\ Depth2(n) => Depth3(u)
           /\ Depth3(n) => Depth4(u)
           /\ Depth4(n) => Depth5(u)
           /\ Depth5(n) => Depth6(u)
<1> DEFINE u == Node(t, <<n>>)
<1>1. u.type = t /\ u.kids = <<n>> /\ DOMAIN u.kids = {1} /\ u.kids[1] = n
  BY DEF Node
<1>2. Shape(u)
  BY <1>1 DEF Shape, Singles
<1>3. \A i \in DOMAIN u.kids : u.kids[i] = n
  BY <1>1
<1> HIDE DEF u
<1>4. /\ Depth1(n) => Depth2(u)
      /\ Depth2(n) => Depth3(u)
  BY <1>2, <1>3 DEF Depth2, Depth3
<1>5. /\ Depth3(n) => Depth4(u)
      /\ Depth4(n) => Depth5(u)
      /\ Depth5(n) => Depth6(u)
  BY <1>2, <1>3 DEF Depth4, Depth5, Depth6
<1> QED
  BY <1>4, <1>5 DEF u

LEMMA BinaryShape ==
    ASSUME NEW t \in {"and", "or"}, NEW l, NEW r
    PROVE  LET b == Node(t, <<l, r>>) IN
           /\ Depth1(l) /\ Depth1(r) => Depth2(b)
           /\ Depth3(l) /\ Depth3(r) => Depth4(b)
<1> DEFINE b == Node(t, <<l, r>>)
<1>1. /\ b.type = t /\ b.kids = <<l, r>> /\ DOMAIN b.kids = {1, 2}
      /\ b.kids[1] = l /\ b.kids[2] = r
  BY DEF Node
<1>2. Shape(b)
  BY <1>1 DEF Shape, Singles
<1> QED
  BY <1>1, <1>2 DEF Depth2, Depth3, Depth4

-----------------------------------------------------------------------------
\* The parts of Rules.
Simple == Leaf \cup OfPaths \cup {Node("true", << >>)}
LeafPairs == Binary("and", Leaf) \cup Binary("or", Leaf)
Mixed == Unary("file_exists", Leaf) \cup Literals \cup Unary("not", Unary("file_exists", Leaf))
Pairs == Binary("and", Mixed) \cup Binary("or", Mixed)
Tops == Literals \cup Unary("file_exists", FilePredicates)

LEMMA RulesAre ==
    Rules = Tops \cup Unary("not", Tops) \cup Unary("group", Tops)
                 \cup Pairs \cup Unary("not", Unary("group", Pairs))
BY DEF Rules, Tops, Pairs, Mixed

LEMMA FilePredicatesAre ==
    FilePredicates \subseteq
        Simple \cup Unary("not", Simple)
               \cup LeafPairs \cup Unary("not", Unary("group", LeafPairs))
<1> DEFINE pairs == {n \in LeafPairs : n.kids[1] # n.kids[2]}
<1>1. Unary("not", Unary("group", pairs)) \subseteq Unary("not", Unary("group", LeafPairs))
  BY DEF Unary
<1>2. FilePredicates = IF Richness = 0 THEN Simple
                       ELSE Simple \cup Unary("not", Simple)
                                   \cup pairs \cup Unary("not", Unary("group", pairs))
  BY DEF FilePredicates, Simple, LeafPairs
<1> QED
  BY <1>1, <1>2

LEMMA DepthsOfPredicates ==
    /\ \A n \in Leaf \cup Literals : Depth1(n)
    /\ \A n \in FilePredicates : Depth4(n)
<1>1. \A n \in Leaf \cup Literals \cup {Node(type, << >>) : type \in {"path", "content"}} :
          Depth1(n)
  BY SingleShape DEF Leaf, Literals, Singles
<1>2. ASSUME NEW n \in Simple PROVE Depth2(n)
  <2>1. CASE n \in OfPaths
    BY <1>1, <2>1, UnaryShape DEF OfPaths, Unary
  <2>2. CASE n \in Leaf \cup {Node("true", << >>)}
    BY <1>1, <2>2, Deeper DEF Literals
  <2> QED
    BY <2>1, <2>2 DEF Simple
<1>3. ASSUME NEW n \in LeafPairs PROVE Depth2(n)
  <2>1. PICK t \in {"and", "or"}, l \in Leaf, r \in Leaf : n = Node(t, <<l, r>>)
    BY DEF LeafPairs, Binary
  <2> QED
    BY <1>1, <2>1, BinaryShape
<1>4. \A n \in Unary("not", Simple) : Depth3(n)
  BY <1>2, UnaryShape DEF Unary
<1>5. \A n \in Unary("group", LeafPairs) : Depth3(n)
  BY <1>3, UnaryShape DEF Unary
<1>6. \A n \in Unary("not", Unary("group", LeafPairs)) : Depth4(n)
  BY <1>5, UnaryShape DEF Unary
<1>7. \A n \in Simple \cup Unary("not", Simple) \cup LeafPairs : Depth4(n)
  BY <1>2, <1>3, <1>4, Deeper
<1> QED
  BY <1>1, <1>6, <1>7, FilePredicatesAre

LEMMA DepthsOfRules == \A n \in Rules : Depth6(n)
<1>1. \A n \in Tops : Depth5(n)
  BY DepthsOfPredicates, UnaryShape, Deeper DEF Tops, Unary
<1>2. \A n \in Unary("file_exists", Leaf) : Depth2(n)
  BY DepthsOfPredicates, UnaryShape DEF Unary
<1>3. \A n \in Unary("not", Unary("file_exists", Leaf)) : Depth3(n)
  BY <1>2, UnaryShape DEF Unary
<1>4. \A n \in Mixed : Depth3(n)
  BY <1>2, <1>3, DepthsOfPredicates, Deeper DEF Mixed
<1>5. ASSUME NEW n \in Pairs PROVE Depth4(n)
  <2>1. PICK t \in {"and", "or"}, l \in Mixed, r \in Mixed : n = Node(t, <<l, r>>)
    BY DEF Pairs, Binary
  <2> QED
    BY <1>4, <2>1, BinaryShape
<1>6. \A n \in Unary("group", Pairs) : Depth5(n)
  BY <1>5, UnaryShape DEF Unary
<1>7. \A n \in Tops \cup Pairs : Depth6(n)
  BY <1>1, <1>5, Deeper
<1>8. \A n \in Unary("not", Tops) \cup Unary("group", Tops)
                   \cup Unary("not", Unary("group", Pairs)) : Depth6(n)
  BY <1>1, <1>6, UnaryShape DEF Unary
<1> QED
  BY <1>7, <1>8, RulesAre

\* Nodes is closed: what is below a node of a rule is a node of it.
LEMMA NodesAreClosed ==
    /\ \A n \in Nodes : Depth6(n)
    /\ \A n \in Nodes : \A i \in DOMAIN n.kids : n.kids[i] \in Nodes
    /\ Rules \subseteq Nodes
<1> DEFINE second == Kids(Rules)
           third == Kids(second)
           fourth == Kids(third)
           fifth == Kids(fourth)
           sixth == Kids(fifth)
<1>0. ASSUME NEW S, NEW n \in S, NEW i \in DOMAIN n.kids
      PROVE  n.kids[i] \in Kids(S)
  BY DEF Kids
<1>1. ASSUME NEW S, NEW k \in Kids(S)
      PROVE  \E n \in S : \E i \in DOMAIN n.kids : k = n.kids[i]
  BY DEF Kids
<1>2. \A n \in Rules : Depth6(n)
  BY DepthsOfRules
<1>3. \A n \in second : Depth5(n)
  BY <1>1, <1>2 DEF Depth6
<1>4. \A n \in third : Depth4(n)
  BY <1>1, <1>3 DEF Depth5
<1>5. \A n \in fourth : Depth3(n)
  BY <1>1, <1>4 DEF Depth4
<1>6. \A n \in fifth : Depth2(n)
  BY <1>1, <1>5 DEF Depth3
<1>7. \A n \in sixth : Depth1(n)
  BY <1>1, <1>6 DEF Depth2
<1>8. Nodes = Rules \cup second \cup third \cup fourth \cup fifth \cup sixth
  BY DEF Nodes
<1> HIDE DEF second, third, fourth, fifth, sixth
<1>9. \A n \in Nodes : Depth6(n)
  BY <1>2, <1>3, <1>4, <1>5, <1>6, <1>7, <1>8, Deeper
<1>10. ASSUME NEW n \in Nodes, NEW i \in DOMAIN n.kids PROVE n.kids[i] \in Nodes
  BY <1>0, <1>7, <1>8 DEF second, third, fourth, fifth, sixth, Depth1
<1> QED
  BY <1>8, <1>9, <1>10

LEMMA NodesHaveShape ==
    ASSUME NEW n \in Nodes
    PROVE  /\ Shape(n)
           /\ \A i \in DOMAIN n.kids : n.kids[i] \in Nodes /\ i \in {1, 2}
BY NodesAreClosed DEF Depth6, Shape

-----------------------------------------------------------------------------
(***************************************************************************)
(* Evaluate, Meaning and Reliance satisfy the equations that define them:  *)
(* a rule has a depth of at most 6, so that applying the equation six      *)
(* times to any function gives the one that no longer changes.             *)
(***************************************************************************)
LEMMA FilesOfChangesets ==
    ASSUME NEW cs \in Rule!Changesets, NEW i \in DOMAIN cs
    PROVE  cs[i] \in Rule!FileChanges /\ cs[i] \in Files
BY DEF Rule!Changesets, Files

\* What a node comes to depends on what its kids come to.
LEMMA EvaluateOnceDepends ==
    ASSUME NEW cs \in Rule!Changesets, NEW f, NEW g, NEW e \in Rule!Evaluations,
           \A i \in DOMAIN e.node.kids, file \in Files, side \in Sides :
               LET k == Rule!At(e.node.kids[i], Append(e.id, i), file, side) IN f[k] = g[k]
    PROVE  EvaluateOnce(cs, f, e) = EvaluateOnce(cs, g, e)
<1> DEFINE node == e.node
           F(h, i, file, side) == h[Rule!At(node.kids[i], Append(e.id, i), file, side)]
<1>1. node \in Nodes /\ e.file \in Files /\ e.side \in Sides
  BY DEF Rule!Evaluations, Files, Sides
<1>2. Shape(node)
  BY <1>1, NodesHaveShape
<1>3. \A i \in DOMAIN node.kids, file \in Files, side \in Sides :
          F(f, i, file, side) = F(g, i, file, side)
  OBVIOUS
<1>4. node.type \notin Singles => F(f, 1, e.file, e.side) = F(g, 1, e.file, e.side)
  BY <1>1, <1>2, <1>3 DEF Shape
<1>5. node.type \in {"and", "or"} => F(f, 2, e.file, e.side) = F(g, 2, e.file, e.side)
  BY <1>1, <1>2, <1>3 DEF Shape
<1>6. node.type \notin Singles =>
          [i \in DOMAIN cs |-> F(f, 1, cs[i], e.side)] = [i \in DOMAIN cs |-> F(g, 1, cs[i], e.side)]
  BY <1>1, <1>2, <1>3, FilesOfChangesets DEF Shape
<1>7. node.type \notin Singles =>
          [s \in Rule!Paths(e.file) |-> F(f, 1, e.file, s)]
              = [s \in Rule!Paths(e.file) |-> F(g, 1, e.file, s)]
  BY <1>1, <1>2, <1>3 DEF Shape, Rule!Paths, Sides
<1>8. CASE node.type \in Singles
  BY <1>8 DEF EvaluateOnce, Singles
<1>9. CASE node.type \in {"group", "not", "and", "or"}
  <2> HIDE DEF F
  <2>1. ASSUME NEW h
        PROVE  /\ node.type = "group" => EvaluateOnce(cs, h, e) = Rule!Group(F(h, 1, e.file, e.side), e.id)
               /\ node.type = "not" => EvaluateOnce(cs, h, e) = Rule!Not(F(h, 1, e.file, e.side), e.id)
               /\ node.type = "and" => EvaluateOnce(cs, h, e) =
                      Rule!And(F(h, 1, e.file, e.side), F(h, 2, e.file, e.side), e.id)
               /\ node.type = "or" => EvaluateOnce(cs, h, e) =
                      Rule!Or(F(h, 1, e.file, e.side), F(h, 2, e.file, e.side), e.id)
    BY DEF EvaluateOnce, F
  <2> QED
    BY <1>4, <1>5, <1>9, <2>1 DEF Singles
<1>10. CASE node.type \in {"file_exists", "path_exists"}
  <2>1. ASSUME NEW h
        PROVE  /\ node.type = "file_exists" => EvaluateOnce(cs, h, e) =
                      Rule!FileExists([i \in DOMAIN cs |-> F(h, 1, cs[i], e.side)], e.id)
               /\ node.type = "path_exists" => EvaluateOnce(cs, h, e) =
                      Rule!PathExists([s \in Rule!Paths(e.file) |-> F(h, 1, e.file, s)], e.id)
    BY DEF EvaluateOnce
  <2> QED
    BY <1>6, <1>7, <1>10, <2>1 DEF Singles
<1> QED
  BY <1>2, <1>8, <1>9, <1>10 DEF Shape

LEMMA MeanOnceDepends ==
    ASSUME NEW cs \in Rule!Changesets, NEW f, NEW g, NEW n \in Nodes, NEW file \in Files,
           \A i \in DOMAIN n.kids, x \in Files : f[<<n.kids[i], x>>] = g[<<n.kids[i], x>>]
    PROVE  MeanOnce(cs, f, <<n, file>>) = MeanOnce(cs, g, <<n, file>>)
<1>1. Shape(n)
  BY NodesHaveShape
<1>2. CASE n.type \in Singles
  BY <1>2 DEF MeanOnce, Singles, Rule!Truths
<1>3. CASE n.type \in {"group", "not", "path_exists"}
  BY <1>1, <1>3 DEF MeanOnce, Shape, Singles, Rule!Truths
<1>4. CASE n.type \in {"and", "or"}
  BY <1>1, <1>4 DEF MeanOnce, Shape, Singles, Rule!Truths
<1>5. CASE n.type = "file_exists"
  <2>1. \A i \in DOMAIN cs : f[<<n.kids[1], cs[i]>>] = g[<<n.kids[1], cs[i]>>]
    BY <1>1, <1>5, FilesOfChangesets DEF Shape, Singles
  <2>2. AnyOf(cs, f, n.kids[1]) = AnyOf(cs, g, n.kids[1])
    BY <2>1 DEF AnyOf
  <2> QED
    BY <1>5, <2>2 DEF MeanOnce, Rule!Truths
<1> QED
  BY <1>1, <1>2, <1>3, <1>4, <1>5 DEF Shape

LEMMA RelyOnceDepends ==
    ASSUME NEW f, NEW g, NEW n \in Nodes, \A i \in DOMAIN n.kids : f[n.kids[i]] = g[n.kids[i]]
    PROVE  RelyOnce(f, n) = RelyOnce(g, n)
<1>1. Shape(n)
  BY NodesHaveShape
<1>2. CASE n.type \in Singles
  BY <1>1, <1>2 DEF RelyOnce, Shape
<1>3. CASE n.type \in {"group", "not", "file_exists", "path_exists"}
  BY <1>1, <1>3 DEF RelyOnce, Shape, Singles
<1>4. CASE n.type \in {"and", "or"}
  BY <1>1, <1>4 DEF RelyOnce, Shape, Singles
<1> QED
  BY <1>1, <1>2, <1>3, <1>4 DEF Shape

\* The nodes of those whose kids are in S.
Above(S) == {n \in Nodes : \A i \in DOMAIN n.kids : n.kids[i] \in S}

LEMMA EvaluateAllAgrees ==
    ASSUME NEW cs \in Rule!Changesets, NEW f, NEW g, NEW S,
           \A e \in Rule!Evaluations : e.node \in S => f[e] = g[e]
    PROVE  \A e \in Rule!Evaluations :
               e.node \in Above(S) => EvaluateAll(cs, f)[e] = EvaluateAll(cs, g)[e]
<1> SUFFICES ASSUME NEW e \in Rule!Evaluations, e.node \in Above(S)
             PROVE  EvaluateOnce(cs, f, e) = EvaluateOnce(cs, g, e)
  BY DEF EvaluateAll
<1>1. ASSUME NEW i \in DOMAIN e.node.kids, NEW file \in Files, NEW side \in Sides
      PROVE  LET k == Rule!At(e.node.kids[i], Append(e.id, i), file, side) IN f[k] = g[k]
  <2> DEFINE k == Rule!At(e.node.kids[i], Append(e.id, i), file, side)
  <2>1. /\ e.node \in Nodes /\ e.id \in Seq({1, 2})
        /\ e.node.kids[i] \in Nodes /\ i \in {1, 2}
    BY NodesHaveShape DEF Rule!Evaluations
  <2>2. Append(e.id, i) \in Seq({1, 2})
    BY <2>1
  <2>3. k \in Rule!Evaluations /\ k.node = e.node.kids[i]
    BY <2>1, <2>2 DEF Rule!At, Rule!Evaluations, Files, Sides
  <2> QED
    BY <2>3 DEF Above
<1> QED
  BY <1>1, EvaluateOnceDepends

LEMMA MeanAllAgrees ==
    ASSUME NEW cs \in Rule!Changesets, NEW f, NEW g, NEW S,
           \A n \in Nodes, file \in Files : n \in S => f[<<n, file>>] = g[<<n, file>>]
    PROVE  \A n \in Nodes, file \in Files :
               n \in Above(S) => MeanAll(cs, f)[<<n, file>>] = MeanAll(cs, g)[<<n, file>>]
<1> SUFFICES ASSUME NEW n \in Nodes, NEW file \in Files, n \in Above(S)
             PROVE  MeanOnce(cs, f, <<n, file>>) = MeanOnce(cs, g, <<n, file>>)
  BY DEF MeanAll
<1>1. \A i \in DOMAIN n.kids, x \in Files : f[<<n.kids[i], x>>] = g[<<n.kids[i], x>>]
  BY NodesHaveShape DEF Above
<1> QED
  BY <1>1, MeanOnceDepends

LEMMA RelyAllAgrees ==
    ASSUME NEW f, NEW g, NEW S, \A n \in Nodes : n \in S => f[n] = g[n]
    PROVE  \A n \in Nodes : n \in Above(S) => RelyAll(f)[n] = RelyAll(g)[n]
<1> SUFFICES ASSUME NEW n \in Nodes, n \in Above(S)
             PROVE  RelyOnce(f, n) = RelyOnce(g, n)
  BY DEF RelyAll
<1>1. \A i \in DOMAIN n.kids : f[n.kids[i]] = g[n.kids[i]]
  BY NodesHaveShape DEF Above
<1> QED
  BY <1>1, RelyOnceDepends

\* Six steps up from nothing is every node.
LEMMA SixLevels == Nodes \subseteq Above(Above(Above(Above(Above(Above({}))))))
<1>0. ASSUME NEW S, NEW n \in Nodes, \A i \in DOMAIN n.kids : n.kids[i] \in S
      PROVE  n \in Above(S)
  BY <1>0 DEF Above
<1>1. \A n \in Nodes : Depth1(n) => n \in Above({})
  BY <1>0 DEF Depth1
<1>2. \A n \in Nodes : Depth2(n) => n \in Above(Above({}))
  BY <1>0, <1>1, NodesHaveShape DEF Depth2
<1>3. \A n \in Nodes : Depth3(n) => n \in Above(Above(Above({})))
  BY <1>0, <1>2, NodesHaveShape DEF Depth3
<1>4. \A n \in Nodes : Depth4(n) => n \in Above(Above(Above(Above({}))))
  BY <1>0, <1>3, NodesHaveShape DEF Depth4
<1>5. \A n \in Nodes : Depth5(n) => n \in Above(Above(Above(Above(Above({})))))
  BY <1>0, <1>4, NodesHaveShape DEF Depth5
<1>6. \A n \in Nodes : Depth6(n) => n \in Above(Above(Above(Above(Above(Above({}))))))
  BY <1>0, <1>5, NodesHaveShape DEF Depth6
<1> QED
  BY <1>6, NodesAreClosed

LEMMA EvaluationSolves ==
    ASSUME NEW cs \in Rule!Changesets
    PROVE  EvaluationOf(cs) = EvaluateAll(cs, EvaluationOf(cs))
<1> DEFINE f0 == <<>>
           f1 == EvaluateAll(cs, f0)
           f2 == EvaluateAll(cs, f1)
           f3 == EvaluateAll(cs, f2)
           f4 == EvaluateAll(cs, f3)
           f5 == EvaluateAll(cs, f4)
           f6 == EvaluateAll(cs, f5)
           f7 == EvaluateAll(cs, f6)
           Agree(f, g, S) == \A e \in Rule!Evaluations : e.node \in S => f[e] = g[e]
           s1 == Above({})
           s2 == Above(s1)
           s3 == Above(s2)
           s4 == Above(s3)
           s5 == Above(s4)
           s6 == Above(s5)
<1>0. ASSUME NEW f, NEW g, NEW S, Agree(f, g, S)
      PROVE  Agree(EvaluateAll(cs, f), EvaluateAll(cs, g), Above(S))
  BY <1>0, EvaluateAllAgrees
<1>1. Agree(f1, f2, s1)
  <2>1. Agree(f0, f1, {})
    OBVIOUS
  <2> HIDE DEF Agree, f0
  <2> QED
    BY <1>0, <2>1
<1> HIDE DEF Agree, f1
<1>2. Agree(f2, f3, s2)
  BY <1>0, <1>1
<1> HIDE DEF f2
<1>3. Agree(f3, f4, s3)
  BY <1>0, <1>2
<1> HIDE DEF f3
<1>4. Agree(f4, f5, s4)
  BY <1>0, <1>3
<1> HIDE DEF f4
<1>5. Agree(f5, f6, s5)
  BY <1>0, <1>4
<1> HIDE DEF f5
<1>6. Agree(f6, f7, s6)
  BY <1>0, <1>5
<1>7. \A e \in Rule!Evaluations : e.node \in s6
  BY SixLevels DEF Rule!Evaluations
<1> HIDE DEF s1, s2, s3, s4, s5, s6
<1>8. f6 = f7
  <2>1. \A e \in Rule!Evaluations : f6[e] = f7[e]
    BY <1>6, <1>7 DEF Agree
  <2>2. /\ f6 = [e \in Rule!Evaluations |-> f6[e]]
        /\ f7 = [e \in Rule!Evaluations |-> f7[e]]
    BY DEF EvaluateAll
  <2> HIDE DEF f6, f7
  <2> QED
    BY <2>1, <2>2
<1> HIDE DEF f6
<1>9. \E f : f = EvaluateAll(cs, f)
  BY <1>8
<1> QED
  BY <1>9 DEF EvaluationOf

LEMMA MeaningSolves ==
    ASSUME NEW cs \in Rule!Changesets
    PROVE  MeaningOf(cs) = MeanAll(cs, MeaningOf(cs))
<1> DEFINE f0 == <<>>
           f1 == MeanAll(cs, f0)
           f2 == MeanAll(cs, f1)
           f3 == MeanAll(cs, f2)
           f4 == MeanAll(cs, f3)
           f5 == MeanAll(cs, f4)
           f6 == MeanAll(cs, f5)
           f7 == MeanAll(cs, f6)
           Agree(f, g, S) ==
               \A n \in Nodes, file \in Files : n \in S => f[<<n, file>>] = g[<<n, file>>]
           s1 == Above({})
           s2 == Above(s1)
           s3 == Above(s2)
           s4 == Above(s3)
           s5 == Above(s4)
           s6 == Above(s5)
<1>0. ASSUME NEW f, NEW g, NEW S, Agree(f, g, S)
      PROVE  Agree(MeanAll(cs, f), MeanAll(cs, g), Above(S))
  BY <1>0, MeanAllAgrees
<1>1. Agree(f1, f2, s1)
  <2>1. Agree(f0, f1, {})
    OBVIOUS
  <2> HIDE DEF Agree, f0
  <2> QED
    BY <1>0, <2>1
<1> HIDE DEF Agree, f1
<1>2. Agree(f2, f3, s2)
  BY <1>0, <1>1
<1> HIDE DEF f2
<1>3. Agree(f3, f4, s3)
  BY <1>0, <1>2
<1> HIDE DEF f3
<1>4. Agree(f4, f5, s4)
  BY <1>0, <1>3
<1> HIDE DEF f4
<1>5. Agree(f5, f6, s5)
  BY <1>0, <1>4
<1> HIDE DEF f5
<1>6. Agree(f6, f7, s6)
  BY <1>0, <1>5
<1>7. Nodes \subseteq s6
  BY SixLevels
<1> HIDE DEF s1, s2, s3, s4, s5, s6
<1>8. f6 = f7
  <2>1. \A n \in Nodes, file \in Files : f6[<<n, file>>] = f7[<<n, file>>]
    BY <1>6, <1>7 DEF Agree
  <2>2. \A x \in Nodes \X Files : x = <<x[1], x[2]>> /\ x[1] \in Nodes /\ x[2] \in Files
    OBVIOUS
  <2>3. \A x \in Nodes \X Files : f6[x] = f7[x]
    BY <2>1, <2>2
  <2>4. /\ f6 = [x \in Nodes \X Files |-> f6[x]]
        /\ f7 = [x \in Nodes \X Files |-> f7[x]]
    BY DEF MeanAll
  <2> HIDE DEF f6, f7
  <2> QED
    BY <2>3, <2>4
<1> HIDE DEF f6
<1>9. \E f : f = MeanAll(cs, f)
  BY <1>8
<1> QED
  BY <1>9 DEF MeaningOf

LEMMA RelianceSolves ==
    Rule!Reliance = RelyAll(Rule!Reliance)
<1> DEFINE f0 == <<>>
           f1 == RelyAll(f0)
           f2 == RelyAll(f1)
           f3 == RelyAll(f2)
           f4 == RelyAll(f3)
           f5 == RelyAll(f4)
           f6 == RelyAll(f5)
           f7 == RelyAll(f6)
           Agree(f, g, S) == \A n \in Nodes : n \in S => f[n] = g[n]
           s1 == Above({})
           s2 == Above(s1)
           s3 == Above(s2)
           s4 == Above(s3)
           s5 == Above(s4)
           s6 == Above(s5)
<1>0. ASSUME NEW f, NEW g, NEW S, Agree(f, g, S)
      PROVE  Agree(RelyAll(f), RelyAll(g), Above(S))
  BY <1>0, RelyAllAgrees
<1>1. Agree(f1, f2, s1)
  <2>1. Agree(f0, f1, {})
    OBVIOUS
  <2> HIDE DEF Agree, f0
  <2> QED
    BY <1>0, <2>1
<1> HIDE DEF Agree, f1
<1>2. Agree(f2, f3, s2)
  BY <1>0, <1>1
<1> HIDE DEF f2
<1>3. Agree(f3, f4, s3)
  BY <1>0, <1>2
<1> HIDE DEF f3
<1>4. Agree(f4, f5, s4)
  BY <1>0, <1>3
<1> HIDE DEF f4
<1>5. Agree(f5, f6, s5)
  BY <1>0, <1>4
<1> HIDE DEF f5
<1>6. Agree(f6, f7, s6)
  BY <1>0, <1>5
<1>7. Nodes \subseteq s6
  BY SixLevels
<1> HIDE DEF s1, s2, s3, s4, s5, s6
<1>8. f6 = f7
  <2>1. \A n \in Nodes : f6[n] = f7[n]
    BY <1>6, <1>7 DEF Agree
  <2>2. f6 = [n \in Nodes |-> f6[n]] /\ f7 = [n \in Nodes |-> f7[n]]
    BY DEF RelyAll
  <2> HIDE DEF f6, f7
  <2> QED
    BY <2>1, <2>2
<1> HIDE DEF f6
<1>9. \E f : f = RelyAll(f)
  BY <1>8
<1>10. Rule!Reliance = CHOOSE f : f = RelyAll(f)
  BY DEF Rule!Reliance, RelyAll, RelyOnce, RelyNot, RelyBoth, RelyExists
<1> QED
  BY <1>9, <1>10

-----------------------------------------------------------------------------
(***************************************************************************)
(* What an evaluation comes to is what the rule means.                     *)
(***************************************************************************)
States == {"true", "false", "outside", "error"}
IsTrace(t) ==
    t = Rule!Trace(t.state, t.branches, t.predicates, t.matches) /\ t.state \in States

\* The results of the operators are traces, in the state that they say.
LEMMA TraceOf ==
    ASSUME NEW s \in States, NEW b, NEW p, NEW m
    PROVE  IsTrace(Rule!Trace(s, b, p, m)) /\ Rule!Trace(s, b, p, m).state = s
BY DEF IsTrace, Rule!Trace

LEMMA GroupState ==
    ASSUME NEW t, IsTrace(t), NEW id
    PROVE  IsTrace(Rule!Group(t, id)) /\ Rule!Group(t, id).state = t.state
<1>1. CASE t.state # "true"
  BY <1>1 DEF Rule!Group
<1>2. CASE t.state = "true"
  <2>1. Rule!Group(t, id) = Rule!Trace(t.state, t.branches \cup {id}, t.predicates,
                                       Rule!AppendBranch(t.matches, id))
    BY <1>2 DEF Rule!Group, IsTrace, Rule!Trace
  <2> QED
    BY <1>2, <2>1, TraceOf DEF States
<1> QED
  BY <1>1, <1>2

LEMMA NotState ==
    ASSUME NEW t, IsTrace(t), NEW id
    PROVE  /\ IsTrace(Rule!Not(t, id))
           /\ t.state = "true" => Rule!Not(t, id).state = "false"
           /\ t.state = "false" => Rule!Not(t, id).state = "true"
           /\ t.state \in {"outside", "error"} => Rule!Not(t, id).state = t.state
BY TraceOf DEF Rule!Not, IsTrace, States

LEMMA CombinedState ==
    ASSUME NEW s \in States, NEW l, NEW r, NEW id
    PROVE  IsTrace(Rule!Combined(s, l, r, id)) /\ Rule!Combined(s, l, r, id).state = s
BY TraceOf DEF Rule!Combined

LEMMA AndState ==
    ASSUME NEW l, NEW r, IsTrace(l), IsTrace(r), NEW id
    PROVE  /\ IsTrace(Rule!And(l, r, id))
           /\ Rule!And(l, r, id).state = IF l.state = "true" THEN r.state ELSE l.state
<1>1. CASE l.state # "true" \/ r.state = "error"
  BY <1>1 DEF Rule!And
<1>2. CASE l.state = "true" /\ r.state # "error"
  BY <1>2, CombinedState DEF Rule!And, IsTrace
<1> QED
  BY <1>1, <1>2

LEMMA OrState ==
    ASSUME NEW l, NEW r, IsTrace(l), IsTrace(r), NEW id
    PROVE  /\ IsTrace(Rule!Or(l, r, id))
           /\ Rule!Or(l, r, id).state =
                  IF l.state \in {"error", "true"} THEN l.state
                  ELSE IF r.state \in {"error", "true"} THEN r.state
                  ELSE IF "outside" \in {l.state, r.state} THEN "outside" ELSE "false"
<1>1. CASE l.state \in {"error", "true"} \/ r.state = "error"
  BY <1>1 DEF Rule!Or
<1>2. CASE l.state \notin {"error", "true"} /\ r.state = "true"
  BY <1>2, CombinedState DEF Rule!Or, States
<1>3. CASE l.state \notin {"error", "true"} /\ r.state \notin {"error", "true"}
  BY <1>3, CombinedState DEF Rule!Or, States
<1> QED
  BY <1>1, <1>2, <1>3

LEMMA MatchState ==
    ASSUME NEW value \in {"hit", "miss", "absent", "unreadable", "none"}, NEW side, NEW id
    PROVE  /\ IsTrace(Rule!Match(value, side, id))
           /\ value = "hit" => Rule!Match(value, side, id).state = "true"
           /\ value \in {"miss", "none"} => Rule!Match(value, side, id).state = "false"
           /\ value = "absent" => Rule!Match(value, side, id).state = "outside"
           /\ value = "unreadable" => Rule!Match(value, side, id).state = "error"
BY TraceOf DEF Rule!Match, Rule!Truth, States

LEMMA FileExistsState ==
    ASSUME NEW cs \in Rule!Changesets, NEW results, DOMAIN results = DOMAIN cs,
           \A i \in DOMAIN cs : IsTrace(results[i]), NEW id
    PROVE  LET t == Rule!FileExists(results, id) IN
           /\ IsTrace(t)
           /\ t.state \in {"true", "false", "error"}
           /\ t.state # "error" =>
                  /\ \A i \in DOMAIN cs : results[i].state # "error"
                  /\ t.state = "true" <=> \E i \in DOMAIN cs : results[i].state = "true"
<1> DEFINE failed == {i \in DOMAIN results : results[i].state = "error"}
           first == CHOOSE i \in failed : \A j \in failed : i <= j
           holds == {j \in DOMAIN results : results[j].state = "true"}
<1>1. DOMAIN cs \subseteq {1, 2}
  BY DEF Rule!Changesets
<1>2. CASE failed # {}
  <2>1. \E i \in failed : \A j \in failed : i <= j
    BY <1>1, <1>2
  <2>2. first \in failed
    BY <2>1
  <2>3. Rule!FileExists(results, id) = results[first]
    BY <1>2 DEF Rule!FileExists
  <2> QED
    BY <2>2, <2>3
<1>3. CASE failed = {}
  <2> DEFINE sides(r) == UNION {m.sides : m \in r.matches}
             found(i) == [file |-> i,
                          branches |-> {id} \cup results[i].branches,
                          predicates |-> {id} \cup results[i].predicates,
                          sides |-> IF sides(results[i]) = {} THEN {"change"}
                                    ELSE sides(results[i])]
             matches == {found(i) : i \in holds}
             ids == IF matches = {} THEN {} ELSE {id}
  <2>0. Rule!FileExists(results, id) =
            Rule!Trace(Rule!Truth(matches # {}), ids, ids, matches)
    BY <1>3 DEF Rule!FileExists
  <2> HIDE DEF found, ids
  <2>1. matches # {} <=> holds # {}
    OBVIOUS
  <2>2. Rule!Truth(matches # {}) = IF holds # {} THEN "true" ELSE "false"
    BY <2>1 DEF Rule!Truth
  <2>3. IsTrace(Rule!FileExists(results, id))
        /\ Rule!FileExists(results, id).state = IF holds # {} THEN "true" ELSE "false"
    BY <2>0, <2>1, <2>2, TraceOf DEF States
  <2> QED
    BY <1>3, <2>3
<1> QED
  BY <1>2, <1>3

LEMMA PathExistsState ==
    ASSUME NEW results, DOMAIN results \subseteq Sides,
           \A s \in DOMAIN results : IsTrace(results[s]), NEW id
    PROVE  LET t == Rule!PathExists(results, id) IN
           /\ IsTrace(t)
           /\ t.state \in {"true", "false", "error"}
           /\ t.state # "error" =>
                  /\ \A s \in DOMAIN results : results[s].state # "error"
                  /\ t.state = "true" <=> \E s \in DOMAIN results : results[s].state = "true"
<1> DEFINE failed == {side \in DOMAIN results : results[side].state = "error"}
           holds == {side \in DOMAIN results : results[side].state = "true"}
           first == IF "before" \in failed THEN "before" ELSE "after"
           t == Rule!PathExists(results, id)
<1>1. CASE failed # {}
  <2>1. first \in failed
    BY <1>1 DEF Sides
  <2>2. t = results[first]
    BY <1>1 DEF Rule!PathExists
  <2> QED
    BY <2>1, <2>2
<1>2. CASE failed = {} /\ holds = {}
  <2>1. t = Rule!Trace("false", {}, {}, {})
    BY <1>2 DEF Rule!PathExists
  <2> QED
    BY <1>2, <2>1, TraceOf DEF States
<1>3. CASE failed = {} /\ holds # {}
  <2> DEFINE b == {id} \cup UNION {results[s].branches : s \in holds}
             p == {id} \cup UNION {results[s].predicates : s \in holds}
             m == UNION {results[s].matches : s \in holds}
  <2>1. t = Rule!Trace("true", b, p, m)
    BY <1>3 DEF Rule!PathExists
  <2> HIDE DEF b, p, m, t
  <2>2. IsTrace(t) /\ t.state = "true"
    BY <2>1, TraceOf DEF States
  <2> QED
    BY <1>3, <2>2 DEF t
<1> QED
  BY <1>1, <1>2, <1>3

-----------------------------------------------------------------------------
(***************************************************************************)
(* Sets of truth values, told apart by what is in them.                    *)
(***************************************************************************)
Values == {a \in SUBSET Rule!Truths : a # {}}

LEMMA TruthIs == \A b \in BOOLEAN : Rule!Truth(b) = IF b THEN "true" ELSE "false"
BY DEF Rule!Truth

LEMMA OnlyIs ==
    ASSUME NEW b \in BOOLEAN
    PROVE  Only(b) = {IF b THEN "true" ELSE "false"} /\ Only(b) \in Values
BY TruthIs DEF Only, Values, Rule!Truths

LEMMA NegatedIs ==
    ASSUME NEW a \in SUBSET Rule!Truths
    PROVE  /\ Rule!Negated(a) \subseteq Rule!Truths
           /\ "true" \in Rule!Negated(a) <=> "false" \in a
           /\ "false" \in Rule!Negated(a) <=> "true" \in a
BY DEF Rule!Negated, Rule!Truths

LEMMA ConjunctionIs ==
    ASSUME NEW a \in Values, NEW b \in Values
    PROVE  /\ Conjunction(a, b) \in Values
           /\ "true" \in Conjunction(a, b) <=> "true" \in a /\ "true" \in b
           /\ "false" \in Conjunction(a, b) <=> "false" \in a \/ "false" \in b
<1> DEFINE Both(v, w) == IF v = "true" /\ w = "true" THEN "true" ELSE "false"
<1>0. \A v, w : Rule!Truth(v = "true" /\ w = "true") = Both(v, w)
  BY DEF Rule!Truth
<1>1. Conjunction(a, b) = {Both(v, w) : v \in a, w \in b}
  BY <1>0 DEF Conjunction
<1>2. a \subseteq {"true", "false"} /\ b \subseteq {"true", "false"}
      /\ (\E v \in a : TRUE) /\ (\E w \in b : TRUE)
  BY DEF Values, Rule!Truths
<1>3. \A x : x \in Conjunction(a, b) <=> \E v \in a, w \in b : x = Both(v, w)
  BY <1>1
<1>4. "true" \in Conjunction(a, b) <=> "true" \in a /\ "true" \in b
  BY <1>2, <1>3
<1>5. "false" \in Conjunction(a, b) <=> "false" \in a \/ "false" \in b
  BY <1>2, <1>3
<1>6. Conjunction(a, b) \in Values
  BY <1>2, <1>3 DEF Values, Rule!Truths
<1> QED
  BY <1>4, <1>5, <1>6

LEMMA DisjunctionIs ==
    ASSUME NEW a \in Values, NEW b \in Values
    PROVE  /\ Disjunction(a, b) \in Values
           /\ "true" \in Disjunction(a, b) <=> "true" \in a \/ "true" \in b
           /\ "false" \in Disjunction(a, b) <=> "false" \in a /\ "false" \in b
<1> DEFINE Either(v, w) == IF v = "true" \/ w = "true" THEN "true" ELSE "false"
<1>0. \A v, w : Rule!Truth(v = "true" \/ w = "true") = Either(v, w)
  BY DEF Rule!Truth
<1>1. Disjunction(a, b) = {Either(v, w) : v \in a, w \in b}
  BY <1>0 DEF Disjunction
<1>2. a \subseteq {"true", "false"} /\ b \subseteq {"true", "false"}
      /\ (\E v \in a : TRUE) /\ (\E w \in b : TRUE)
  BY DEF Values, Rule!Truths
<1>3. \A x : x \in Disjunction(a, b) <=> \E v \in a, w \in b : x = Either(v, w)
  BY <1>1
<1>4. "true" \in Disjunction(a, b) <=> "true" \in a \/ "true" \in b
  BY <1>2, <1>3
<1>5. "false" \in Disjunction(a, b) <=> "false" \in a /\ "false" \in b
  BY <1>2, <1>3
<1>6. Disjunction(a, b) \in Values
  BY <1>2, <1>3 DEF Values, Rule!Truths
<1> QED
  BY <1>4, <1>5, <1>6

LEMMA ValuesAre ==
    ASSUME NEW a \in Values
    PROVE  /\ "true" \in a \/ "false" \in a
           /\ a = {"true"} <=> "false" \notin a
           /\ a = {"false"} <=> "true" \notin a
BY DEF Values, Rule!Truths

-----------------------------------------------------------------------------
Comes(cs, n, id, file, side) == EvaluationOf(cs)[Rule!At(n, id, file, side)]
Means(cs, n, file) == MeaningOf(cs)[<<n, file>>]
Rely(n) == Rule!Reliance[n]

LEMMA EvaluationUnfolds ==
    ASSUME NEW cs \in Rule!Changesets, NEW n \in Nodes, NEW id \in Ids,
           NEW file \in Files, NEW side \in Sides
    PROVE  LET e == Rule!At(n, id, file, side) IN
           /\ Comes(cs, n, id, file, side) = EvaluateOnce(cs, EvaluationOf(cs), e)
           /\ e.node = n /\ e.id = id /\ e.file = file /\ e.side = side
<1> DEFINE e == Rule!At(n, id, file, side)
           E == EvaluationOf(cs)
<1>1. e \in Rule!Evaluations
  BY DEF Rule!At, Rule!Evaluations, Files, Sides, Ids
<1>2. e.node = n /\ e.id = id /\ e.file = file /\ e.side = side
  BY DEF Rule!At
<1>3. E[e] = EvaluateOnce(cs, E, e)
  <2>1. E = EvaluateAll(cs, E)
    BY EvaluationSolves
  <2> HIDE DEF E, e
  <2>2. EvaluateAll(cs, E)[e] = EvaluateOnce(cs, E, e)
    BY <1>1 DEF EvaluateAll
  <2> QED
    BY <2>1, <2>2
<1> QED
  BY <1>2, <1>3 DEF Comes

LEMMA EvaluationOfSingle ==
    ASSUME NEW cs \in Rule!Changesets, NEW n \in Nodes, NEW id \in Ids,
           NEW file \in Files, NEW side \in Sides
    PROVE  LET t == Comes(cs, n, id, file, side) IN
           /\ n.type \in {"true", "false"} => t = Rule!Trace(n.type, {}, {id}, {})
           /\ n.type = "added" => t =
                  Rule!Trace(Rule!Truth(file.added), {}, {id},
                             IF file.added THEN {Rule!Seen("change")} ELSE {})
           /\ n.type = "path" => t = Rule!Match(file.path, side, id)
           /\ n.type = "before" =>
                  t = Rule!Match(IF file.added THEN "none" ELSE file.path, "before", id)
           /\ n.type = "content" => t = Rule!Match(file.content, "after", id)
<1> DEFINE e == Rule!At(n, id, file, side)
           E == EvaluationOf(cs)
<1>1. /\ Comes(cs, n, id, file, side) = EvaluateOnce(cs, E, e)
      /\ e.node = n /\ e.id = id /\ e.file = file /\ e.side = side
  BY EvaluationUnfolds
<1> HIDE DEF e
<1> QED
  BY <1>1 DEF EvaluateOnce, Comes

LEMMA EvaluationOfCompound ==
    ASSUME NEW cs \in Rule!Changesets, NEW n \in Nodes, NEW id \in Ids,
           NEW file \in Files, NEW side \in Sides
    PROVE  LET t == Comes(cs, n, id, file, side)
               l == Comes(cs, n.kids[1], Append(id, 1), file, side)
               r == Comes(cs, n.kids[2], Append(id, 2), file, side) IN
           /\ n.type = "group" => t = Rule!Group(l, id)
           /\ n.type = "not" => t = Rule!Not(l, id)
           /\ n.type = "and" => t = Rule!And(l, r, id)
           /\ n.type = "or" => t = Rule!Or(l, r, id)
<1> DEFINE e == Rule!At(n, id, file, side)
           E == EvaluationOf(cs)
<1>1. /\ Comes(cs, n, id, file, side) = EvaluateOnce(cs, E, e)
      /\ e.node = n /\ e.id = id /\ e.file = file /\ e.side = side
  BY EvaluationUnfolds
<1> HIDE DEF e
<1> QED
  BY <1>1 DEF EvaluateOnce, Comes

LEMMA EvaluationOfExists ==
    ASSUME NEW cs \in Rule!Changesets, NEW n \in Nodes, NEW id \in Ids,
           NEW file \in Files, NEW side \in Sides
    PROVE  LET t == Comes(cs, n, id, file, side) IN
           /\ n.type = "file_exists" => t =
                  Rule!FileExists([i \in DOMAIN cs |->
                      Comes(cs, n.kids[1], Append(id, 1), cs[i], side)], id)
           /\ n.type = "path_exists" => t =
                  Rule!PathExists([s \in Rule!Paths(file) |->
                      Comes(cs, n.kids[1], Append(id, 1), file, s)], id)
<1> DEFINE e == Rule!At(n, id, file, side)
           E == EvaluationOf(cs)
<1>1. /\ Comes(cs, n, id, file, side) = EvaluateOnce(cs, E, e)
      /\ e.node = n /\ e.id = id /\ e.file = file /\ e.side = side
  BY EvaluationUnfolds
<1> HIDE DEF e
<1> QED
  BY <1>1 DEF EvaluateOnce, Comes

LEMMA MeaningByType ==
    ASSUME NEW cs \in Rule!Changesets, NEW n \in Nodes, NEW file \in Files
    PROVE  LET m == Means(cs, n, file)
               Of(i) == Means(cs, n.kids[i], file) IN
           /\ n.type \in {"true", "false"} => m = {n.type}
           /\ n.type \in {"group", "path_exists"} => m = Of(1)
           /\ n.type = "not" => m = Rule!Negated(Of(1))
           /\ n.type = "and" => m = Conjunction(Of(1), Of(2))
           /\ n.type = "or" => m = Disjunction(Of(1), Of(2))
           /\ n.type = "file_exists" => m = AnyOf(cs, MeaningOf(cs), n.kids[1])
           /\ n.type = "added" => m = Only(file.added)
           /\ n.type = "path" => m = Only(file.path = "hit")
           /\ n.type = "before" => m = Only(~file.added /\ file.path = "hit")
           /\ n.type = "content" =>
                  m = IF file.content \in Rule!Unavailable THEN Rule!Truths
                      ELSE Only(file.content = "hit")
<1> DEFINE M == MeaningOf(cs)
<1>1. M[<<n, file>>] = MeanOnce(cs, M, <<n, file>>)
  <2>1. M = MeanAll(cs, M)
    BY MeaningSolves
  <2> HIDE DEF M
  <2>2. MeanAll(cs, M)[<<n, file>>] = MeanOnce(cs, M, <<n, file>>)
    BY DEF MeanAll
  <2> QED
    BY <2>1, <2>2
<1> QED
  BY <1>1 DEF MeanOnce, Means, Rule!Truths

LEMMA RelianceByType ==
    ASSUME NEW n \in Nodes
    PROVE  /\ n.type \in Singles => Rely(n) =
                  [asks |-> {"content"} \cap {n.type}, sound |-> Rule!Truths,
                   complete |-> Rule!Truths]
           /\ n.type = "group" => Rely(n) = Rely(n.kids[1])
           /\ n.type = "not" => Rely(n) = RelyNot(Rely(n.kids[1]))
           /\ n.type \in {"and", "or"} =>
                  Rely(n) = RelyBoth(n.type, Rely(n.kids[1]), Rely(n.kids[2]))
           /\ n.type \in {"file_exists", "path_exists"} =>
                  Rely(n) = RelyExists(Rely(n.kids[1]))
<1> DEFINE R == Rule!Reliance
<1>1. R[n] = RelyOnce(R, n)
  <2>1. R = RelyAll(R)
    BY RelianceSolves
  <2> HIDE DEF R
  <2>2. RelyAll(R)[n] = RelyOnce(R, n)
    BY DEF RelyAll
  <2> QED
    BY <2>1, <2>2
<1>2. Shape(n)
  BY NodesHaveShape
<1> HIDE DEF R
<1>3. n.type \in Singles <=> n.kids = <<>>
  BY <1>2 DEF Shape
<1>4. Rely(n) = RelyOnce(R, n) /\ Rely(n.kids[1]) = R[n.kids[1]] /\ Rely(n.kids[2]) = R[n.kids[2]]
  BY <1>1 DEF Rely, R
<1> QED
  BY <1>3, <1>4 DEF RelyOnce, Singles

-----------------------------------------------------------------------------
\* A state fits what a part means, and what can be relied on of it.
Missing(cs) == \E i \in DOMAIN cs : cs[i].content \in Rule!Unavailable
Relied == [asks : SUBSET {"content"}, sound : SUBSET Rule!Truths, complete : SUBSET Rule!Truths]

Fit(cs, s, m, r) ==
    /\ s \in States /\ m \in Values /\ r \in Relied
    /\ s # "error" =>
           /\ s = "true" /\ "true" \in r.sound => "false" \notin m
           /\ s = "false" /\ "false" \in r.sound => "true" \notin m
           /\ "true" \in r.complete /\ "false" \notin m => s = "true"
           /\ "false" \in r.complete /\ "true" \notin m => s = "false"
           /\ ~Missing(cs) \/ r.asks = {} =>
                  \/ s = "true" /\ "false" \notin m
                  \/ s = "false" /\ "true" \notin m

LEMMA NotFits ==
    ASSUME NEW cs, NEW s, NEW m, NEW r, Fit(cs, s, m, r), NEW z \in States,
           s = "true" => z = "false", s = "false" => z = "true",
           s \in {"outside", "error"} => z = s
    PROVE  Fit(cs, z, Rule!Negated(m), RelyNot(r))
<1>1. RelyNot(r) \in Relied
  BY NegatedIs DEF Fit, Relied, RelyNot
<1>2. /\ RelyNot(r).asks = r.asks
      /\ RelyNot(r).sound = Rule!Negated(r.sound)
      /\ RelyNot(r).complete = Rule!Negated(r.complete)
  BY DEF RelyNot
<1>3. r.sound \in SUBSET Rule!Truths /\ r.complete \in SUBSET Rule!Truths
      /\ m \in SUBSET Rule!Truths /\ ("true" \in m \/ "false" \in m)
  BY ValuesAre DEF Fit, Relied, Values
<1>4. Rule!Negated(m) \in Values
  BY <1>3, NegatedIs DEF Values
<1> QED
  BY <1>1, <1>2, <1>3, <1>4, NegatedIs DEF Fit, States

LEMMA AndFits ==
    ASSUME NEW cs, NEW s, NEW a, NEW p, Fit(cs, s, a, p),
           NEW t, NEW b, NEW q, Fit(cs, t, b, q),
           NEW z, z = IF s = "true" THEN t ELSE s
    PROVE  Fit(cs, z, Conjunction(a, b), RelyBoth("and", p, q))
<1> DEFINE r == RelyBoth("and", p, q)
<1>1. r \in Relied
  BY DEF Fit, Relied, RelyBoth
<1>2. /\ r.asks = {} <=> p.asks = {} /\ q.asks = {}
      /\ \A v : v \in r.sound <=> v \in p.sound /\ v \in q.sound
      /\ \A v : v \in r.complete <=> /\ v \in p.complete /\ v \in q.complete
                                     /\ p.asks # {} => v # "false"
  BY DEF RelyBoth
<1> HIDE DEF r
<1>3. a \in Values /\ b \in Values /\ s \in States /\ t \in States /\ z \in States
  BY DEF Fit
<1>4. /\ Conjunction(a, b) \in Values
      /\ "true" \in Conjunction(a, b) <=> "true" \in a /\ "true" \in b
      /\ "false" \in Conjunction(a, b) <=> "false" \in a \/ "false" \in b
  BY <1>3, ConjunctionIs
<1>5. ("true" \in a \/ "false" \in a) /\ ("true" \in b \/ "false" \in b)
  BY <1>3, ValuesAre
<1> QED
  BY <1>1, <1>2, <1>3, <1>4, <1>5 DEF Fit, States, r

LEMMA OrFits ==
    ASSUME NEW cs, NEW s, NEW a, NEW p, Fit(cs, s, a, p),
           NEW t, NEW b, NEW q, Fit(cs, t, b, q),
           NEW z, z = IF s \in {"error", "true"} THEN s
                      ELSE IF t \in {"error", "true"} THEN t
                      ELSE IF "outside" \in {s, t} THEN "outside" ELSE "false"
    PROVE  Fit(cs, z, Disjunction(a, b), RelyBoth("or", p, q))
<1> DEFINE r == RelyBoth("or", p, q)
<1>1. r \in Relied
  BY DEF Fit, Relied, RelyBoth
<1>2. /\ r.asks = {} <=> p.asks = {} /\ q.asks = {}
      /\ \A v : v \in r.sound <=> v \in p.sound /\ v \in q.sound
      /\ \A v : v \in r.complete <=> v \in p.complete /\ v \in q.complete
  BY DEF RelyBoth
<1> HIDE DEF r
<1>3. a \in Values /\ b \in Values /\ s \in States /\ t \in States /\ z \in States
  BY DEF Fit, States
<1>4. /\ Disjunction(a, b) \in Values
      /\ "true" \in Disjunction(a, b) <=> "true" \in a \/ "true" \in b
      /\ "false" \in Disjunction(a, b) <=> "false" \in a /\ "false" \in b
  BY <1>3, DisjunctionIs
<1>5. ("true" \in a \/ "false" \in a) /\ ("true" \in b \/ "false" \in b)
  BY <1>3, ValuesAre
<1> QED
  BY <1>1, <1>2, <1>3, <1>4, <1>5 DEF Fit, States, r

\* z and m are what s and a come to over I.
Gathers(I, s, a, z, m) ==
    /\ z \in {"true", "false", "error"} /\ m \in Values
    /\ z # "error" => /\ \A i \in I : s[i] # "error"
                      /\ z = "true" <=> \E i \in I : s[i] = "true"
    /\ "true" \in m <=> \E i \in I : "true" \in a[i]
    /\ "false" \in m <=> \A i \in I : "false" \in a[i]

LEMMA ExistsFits ==
    ASSUME NEW cs, NEW I, NEW s, NEW a, NEW p \in Relied, \A i \in I : Fit(cs, s[i], a[i], p),
           NEW z, NEW m, Gathers(I, s, a, z, m)
    PROVE  Fit(cs, z, m, RelyExists(p))
<1> DEFINE r == RelyExists(p)
<1>1. r \in Relied
  BY DEF Relied, RelyExists, Rule!Truths
<1>2. /\ r.asks = p.asks
      /\ "true" \in r.sound <=> "true" \in p.sound
      /\ "true" \in r.complete <=> "true" \in p.complete
      /\ p.asks # {} => /\ "false" \notin r.sound
                        /\ "false" \in r.complete <=> "true" \in p.sound
  BY DEF RelyExists
<1> HIDE DEF r
<1>3. ASSUME NEW i \in I
      PROVE  /\ s[i] \in States /\ ("true" \in a[i] \/ "false" \in a[i])
             /\ z # "error" => s[i] # "error"
             /\ z # "error" /\ s[i] = "true" /\ "true" \in p.sound => "false" \notin a[i]
             /\ z # "error" /\ "true" \in p.complete /\ "false" \notin a[i] => s[i] = "true"
             /\ z # "error" /\ (~Missing(cs) \/ p.asks = {}) =>
                    \/ s[i] = "true" /\ "false" \notin a[i]
                    \/ s[i] = "false" /\ "true" \notin a[i]
  BY ValuesAre DEF Fit, Gathers
<1>4. z \in States /\ ("true" \in m \/ "false" \in m)
  BY ValuesAre DEF States, Gathers
<1>5. z # "error" /\ (~Missing(cs) \/ p.asks = {}) =>
          \/ z = "true" /\ "false" \notin m
          \/ z = "false" /\ "true" \notin m
  BY <1>3 DEF Gathers
<1>6. z = "true" /\ "true" \in p.sound => "false" \notin m
  BY <1>3 DEF Gathers
<1>7. z # "error" /\ "true" \in p.complete /\ "false" \notin m => z = "true"
  BY <1>3 DEF Gathers
<1>8. z # "error" /\ "true" \in p.sound /\ "true" \notin m => z = "false"
  BY <1>3 DEF Gathers
<1> QED
  BY <1>1, <1>2, <1>4, <1>5, <1>6, <1>7, <1>8 DEF Fit, Gathers, r

-----------------------------------------------------------------------------
\* A node fits for every file that it is asked about; of the whole changeset
\* nothing is outside.
FilesOf(cs) == {cs[i] : i \in DOMAIN cs} \cup {Rule!NoFile}

NodeFits(cs, n) ==
    \A id \in Ids, side \in Sides, file \in FilesOf(cs) :
        LET t == Comes(cs, n, id, file, side) IN
        /\ IsTrace(t)
        /\ Fit(cs, t.state, Means(cs, n, file), Rely(n))
        /\ file = Rule!NoFile => t.state # "outside"

LEMMA FileOfChangeset ==
    ASSUME NEW cs \in Rule!Changesets, NEW file \in FilesOf(cs)
    PROVE  /\ file \in Files /\ file.added \in BOOLEAN
           /\ file.path \in {"hit", "miss", "none"}
           /\ file.content \in {"hit", "miss", "absent", "unreadable", "none"}
           /\ file.content \in Rule!Unavailable => Missing(cs)
           /\ file = Rule!NoFile => file.content = "none"
<1>1. CASE file = Rule!NoFile
  BY <1>1 DEF Rule!NoFile, Files, Rule!Unavailable
<1>2. CASE file # Rule!NoFile
  <2>1. PICK i \in DOMAIN cs : file = cs[i]
    BY <1>2 DEF FilesOf
  <2>2. file \in Rule!FileChanges
    BY <2>1, FilesOfChangesets
  <2> QED
    BY <1>2, <2>1, <2>2 DEF Rule!FileChanges, Files, Missing
<1> QED
  BY <1>1, <1>2

\* What is below a node, and where.
LEMMA KidsOf ==
    ASSUME NEW n \in Nodes, NEW id \in Ids, n.type \notin Singles
    PROVE  /\ n.kids[1] \in Nodes /\ Append(id, 1) \in Ids /\ 1 \in DOMAIN n.kids
           /\ n.type \in {"and", "or"} =>
                  n.kids[2] \in Nodes /\ Append(id, 2) \in Ids /\ 2 \in DOMAIN n.kids
BY NodesHaveShape DEF Shape, Ids

\* A state that is what the part means fits whatever is relied on.
LEMMA SettledFits ==
    ASSUME NEW cs, NEW v \in Rule!Truths, NEW r \in Relied
    PROVE  Fit(cs, v, {v}, r)
BY DEF Fit, States, Values, Rule!Truths

LEMMA SingleFits ==
    ASSUME NEW cs \in Rule!Changesets, NEW n \in Nodes, n.type \in Singles
    PROVE  NodeFits(cs, n)
<1> SUFFICES ASSUME NEW id \in Ids, NEW side \in Sides, NEW file \in FilesOf(cs)
             PROVE  LET t == Comes(cs, n, id, file, side) IN
                    /\ IsTrace(t)
                    /\ Fit(cs, t.state, Means(cs, n, file), Rely(n))
                    /\ file = Rule!NoFile => t.state # "outside"
  BY DEF NodeFits
<1> DEFINE t == Comes(cs, n, id, file, side)
           m == Means(cs, n, file)
           r == Rely(n)
<1>1. /\ file \in Files /\ file.added \in BOOLEAN
      /\ file.path \in {"hit", "miss", "none"}
      /\ file.content \in {"hit", "miss", "absent", "unreadable", "none"}
      /\ file.content \in Rule!Unavailable => Missing(cs)
      /\ file = Rule!NoFile => file.content = "none"
  BY FileOfChangeset
<1>2. r = [asks |-> {"content"} \cap {n.type}, sound |-> Rule!Truths, complete |-> Rule!Truths]
  BY RelianceByType
<1>3. r \in Relied
  BY <1>2 DEF Relied
<1> HIDE DEF r
\* With a state that is what the part means, it fits.
<1>4. ASSUME NEW v \in Rule!Truths, IsTrace(t), t.state = v, m = {v}
      PROVE  IsTrace(t) /\ Fit(cs, t.state, m, r) /\ t.state # "outside"
  BY <1>3, <1>4, SettledFits DEF Rule!Truths
<1>5. CASE n.type \in {"true", "false"}
  <2>1. t = Rule!Trace(n.type, {}, {id}, {})
    BY <1>1, <1>5, EvaluationOfSingle
  <2>2. m = {n.type}
    BY <1>1, <1>5, MeaningByType
  <2>3. IsTrace(t) /\ t.state = n.type /\ n.type \in Rule!Truths
    BY <1>5, <2>1, TraceOf DEF States, Rule!Truths
  <2> QED
    BY <1>4, <2>2, <2>3 DEF r
<1>6. CASE n.type = "added"
  <2> DEFINE v == IF file.added THEN "true" ELSE "false"
  <2>1. t = Rule!Trace(v, {}, {id}, IF file.added THEN {Rule!Seen("change")} ELSE {})
    <3>1. t = Rule!Trace(Rule!Truth(file.added), {}, {id},
                         IF file.added THEN {Rule!Seen("change")} ELSE {})
      BY <1>1, <1>6, EvaluationOfSingle
    <3>2. Rule!Truth(file.added) = v
      BY DEF Rule!Truth
    <3> QED
      BY <3>1, <3>2
  <2>2. m = {v}
    BY <1>1, <1>6, OnlyIs, MeaningByType
  <2>3. IsTrace(t) /\ t.state = v /\ v \in Rule!Truths
    <3>1. v \in States /\ v \in Rule!Truths
      BY DEF States, Rule!Truths
    <3> HIDE DEF v
    <3> QED
      BY <2>1, <3>1, TraceOf
  <2> QED
    BY <1>4, <2>2, <2>3 DEF r
<1>7. CASE n.type = "path"
  <2> DEFINE v == IF file.path = "hit" THEN "true" ELSE "false"
  <2>1. t = Rule!Match(file.path, side, id)
    BY <1>1, <1>7, EvaluationOfSingle
  <2>2. m = {v}
    <3>1. m = Only(file.path = "hit")
      BY <1>1, <1>7, MeaningByType
    <3> QED
      BY <3>1, OnlyIs
  <2>3. IsTrace(t) /\ t.state = v /\ v \in Rule!Truths
    BY <1>1, <2>1, MatchState DEF Rule!Truths
  <2> QED
    BY <1>4, <2>2, <2>3 DEF r
<1>8. CASE n.type = "before"
  <2> DEFINE value == IF file.added THEN "none" ELSE file.path
             v == IF ~file.added /\ file.path = "hit" THEN "true" ELSE "false"
  <2>1. t = Rule!Match(value, "before", id)
    BY <1>1, <1>8, EvaluationOfSingle
  <2>2. m = {v}
    <3>1. m = Only(~file.added /\ file.path = "hit")
      BY <1>1, <1>8, MeaningByType
    <3> QED
      BY <3>1, OnlyIs
  <2>3. value \in {"hit", "miss", "none"} /\ v = (IF value = "hit" THEN "true" ELSE "false")
    BY <1>1
  <2> HIDE DEF value, v, t, m
  <2>4. IsTrace(t) /\ t.state = v /\ v \in Rule!Truths
    BY <2>1, <2>3, MatchState DEF Rule!Truths
  <2> QED
    BY <1>4, <2>2, <2>4 DEF r, t, m
<1>9. CASE n.type = "content"
  <2>1. t = Rule!Match(file.content, "after", id)
    BY <1>1, <1>9, EvaluationOfSingle
  <2>2. m = IF file.content \in Rule!Unavailable THEN Rule!Truths
            ELSE Only(file.content = "hit")
    BY <1>1, <1>9, MeaningByType
  <2>3. CASE file.content \notin Rule!Unavailable
    <3> DEFINE v == IF file.content = "hit" THEN "true" ELSE "false"
    <3>1. m = {v}
      BY <2>2, <2>3, OnlyIs
    <3>2. file.content \in {"hit", "miss", "none"}
      BY <1>1, <2>3 DEF Rule!Unavailable
    <3>3. IsTrace(t) /\ t.state = v /\ v \in Rule!Truths
      BY <2>1, <3>2, MatchState DEF Rule!Truths
    <3> QED
      BY <1>4, <3>1, <3>3 DEF r
  <2>4. CASE file.content \in Rule!Unavailable
    <3>1. IsTrace(t) /\ t.state \in {"outside", "error"}
      BY <2>1, <2>4, MatchState DEF Rule!Unavailable
    <3>2. m = Rule!Truths /\ Missing(cs) /\ r.asks # {} /\ file # Rule!NoFile
      BY <1>1, <1>2, <1>9, <2>2, <2>4 DEF Rule!Unavailable
    <3> HIDE DEF t, m
    <3>3. Fit(cs, t.state, m, r)
      BY <1>3, <3>1, <3>2 DEF Fit, States, Values, Rule!Truths
    <3> QED
      BY <3>1, <3>2, <3>3 DEF t, m, r
  <2> QED
    BY <2>3, <2>4
<1> QED
  BY <1>5, <1>6, <1>7, <1>8, <1>9 DEF Singles

LEMMA UnaryFits ==
    ASSUME NEW cs \in Rule!Changesets, NEW n \in Nodes, n.type \in {"group", "not"},
           NodeFits(cs, n.kids[1])
    PROVE  NodeFits(cs, n)
<1> SUFFICES ASSUME NEW id \in Ids, NEW side \in Sides, NEW file \in FilesOf(cs)
             PROVE  LET t == Comes(cs, n, id, file, side) IN
                    /\ IsTrace(t)
                    /\ Fit(cs, t.state, Means(cs, n, file), Rely(n))
                    /\ file = Rule!NoFile => t.state # "outside"
  BY DEF NodeFits
<1> DEFINE inner == Comes(cs, n.kids[1], Append(id, 1), file, side)
           meant == Means(cs, n.kids[1], file)
           left == Rely(n.kids[1])
           t == Comes(cs, n, id, file, side)
           m == Means(cs, n, file)
           r == Rely(n)
<1>1. n.kids[1] \in Nodes /\ Append(id, 1) \in Ids /\ file \in Files
  BY KidsOf, FileOfChangeset DEF Singles
<1>2. /\ IsTrace(inner) /\ Fit(cs, inner.state, meant, left)
      /\ file = Rule!NoFile => inner.state # "outside"
  BY <1>1 DEF NodeFits
<1>3. /\ n.type = "not" => t = Rule!Not(inner, id)
      /\ n.type = "group" => t = Rule!Group(inner, id)
  BY <1>1, EvaluationOfCompound
<1>4. /\ n.type = "not" => m = Rule!Negated(meant)
      /\ n.type = "group" => m = meant
  BY <1>1, MeaningByType
<1>5. /\ n.type = "not" => r = RelyNot(left)
      /\ n.type = "group" => r = left
  BY RelianceByType
<1> HIDE DEF inner, meant, left, t, m, r
<1>6. CASE n.type = "not"
  <2>1. /\ IsTrace(t) /\ t.state \in States
        /\ inner.state = "true" => t.state = "false"
        /\ inner.state = "false" => t.state = "true"
        /\ inner.state \in {"outside", "error"} => t.state = inner.state
    BY <1>2, <1>3, <1>6, NotState DEF IsTrace
  <2>2. Fit(cs, t.state, m, r)
    BY <1>2, <1>4, <1>5, <1>6, <2>1, NotFits
  <2>3. t.state = "outside" => inner.state = "outside"
    BY <1>2, <2>1 DEF IsTrace, States
  <2> QED
    BY <1>2, <2>1, <2>2, <2>3 DEF t, m, r
<1>7. CASE n.type = "group"
  <2>1. IsTrace(t) /\ t.state = inner.state
    BY <1>2, <1>3, <1>7, GroupState
  <2> QED
    BY <1>2, <1>4, <1>5, <1>7, <2>1 DEF t, m, r
<1> QED
  BY <1>6, <1>7

LEMMA BinaryFits ==
    ASSUME NEW cs \in Rule!Changesets, NEW n \in Nodes, n.type \in {"and", "or"},
           NodeFits(cs, n.kids[1]), NodeFits(cs, n.kids[2])
    PROVE  NodeFits(cs, n)
<1> SUFFICES ASSUME NEW id \in Ids, NEW side \in Sides, NEW file \in FilesOf(cs)
             PROVE  LET t == Comes(cs, n, id, file, side) IN
                    /\ IsTrace(t)
                    /\ Fit(cs, t.state, Means(cs, n, file), Rely(n))
                    /\ file = Rule!NoFile => t.state # "outside"
  BY DEF NodeFits
<1> DEFINE l == Comes(cs, n.kids[1], Append(id, 1), file, side)
           r == Comes(cs, n.kids[2], Append(id, 2), file, side)
           a == Means(cs, n.kids[1], file)
           b == Means(cs, n.kids[2], file)
           p == Rely(n.kids[1])
           q == Rely(n.kids[2])
           t == Comes(cs, n, id, file, side)
           m == Means(cs, n, file)
<1>1. /\ n.kids[1] \in Nodes /\ Append(id, 1) \in Ids
      /\ n.kids[2] \in Nodes /\ Append(id, 2) \in Ids /\ file \in Files
  BY KidsOf, FileOfChangeset DEF Singles
<1>2. /\ IsTrace(l) /\ Fit(cs, l.state, a, p)
      /\ file = Rule!NoFile => l.state # "outside"
  BY <1>1 DEF NodeFits
<1>3. /\ IsTrace(r) /\ Fit(cs, r.state, b, q)
      /\ file = Rule!NoFile => r.state # "outside"
  BY <1>1 DEF NodeFits
<1>4. /\ n.type = "and" => t = Rule!And(l, r, id)
      /\ n.type = "or" => t = Rule!Or(l, r, id)
  BY <1>1, EvaluationOfCompound
<1>5. /\ n.type = "and" => m = Conjunction(a, b)
      /\ n.type = "or" => m = Disjunction(a, b)
  BY <1>1, MeaningByType
<1>6. Rely(n) = RelyBoth(n.type, p, q)
  BY RelianceByType
<1> HIDE DEF l, r, a, b, p, q, t, m
<1>7. CASE n.type = "and"
  <2>1. IsTrace(t) /\ t.state = IF l.state = "true" THEN r.state ELSE l.state
    BY <1>2, <1>3, <1>4, <1>7, AndState
  <2>2. Fit(cs, t.state, m, Rely(n))
    BY <1>2, <1>3, <1>5, <1>6, <1>7, <2>1, AndFits
  <2> QED
    BY <1>2, <1>3, <2>1, <2>2 DEF t, m
<1>8. CASE n.type = "or"
  <2>1. IsTrace(t) /\ t.state = IF l.state \in {"error", "true"} THEN l.state
                                ELSE IF r.state \in {"error", "true"} THEN r.state
                                ELSE IF "outside" \in {l.state, r.state} THEN "outside"
                                ELSE "false"
    BY <1>2, <1>3, <1>4, <1>8, OrState
  <2>2. Fit(cs, t.state, Disjunction(a, b), RelyBoth("or", p, q))
    BY <1>2, <1>3, <2>1, OrFits
  <2>3. file = Rule!NoFile => t.state # "outside"
    BY <1>2, <1>3, <2>1
  <2> QED
    BY <1>5, <1>6, <1>8, <2>1, <2>2, <2>3 DEF t, m
<1> QED
  BY <1>7, <1>8

LEMMA FileExistsFits ==
    ASSUME NEW cs \in Rule!Changesets, NEW n \in Nodes, n.type = "file_exists",
           NodeFits(cs, n.kids[1])
    PROVE  NodeFits(cs, n)
<1> SUFFICES ASSUME NEW id \in Ids, NEW side \in Sides, NEW file \in FilesOf(cs)
             PROVE  LET t == Comes(cs, n, id, file, side) IN
                    /\ IsTrace(t)
                    /\ Fit(cs, t.state, Means(cs, n, file), Rely(n))
                    /\ file = Rule!NoFile => t.state # "outside"
  BY DEF NodeFits
<1> DEFINE results == [i \in DOMAIN cs |->
                          Comes(cs, n.kids[1], Append(id, 1), cs[i], side)]
           s == [i \in DOMAIN cs |-> results[i].state]
           a == [i \in DOMAIN cs |-> Means(cs, n.kids[1], cs[i])]
           p == Rely(n.kids[1])
           t == Comes(cs, n, id, file, side)
           m == Means(cs, n, file)
<1>1. /\ n.kids[1] \in Nodes /\ Append(id, 1) \in Ids /\ file \in Files
      /\ Rule!NoFile \in FilesOf(cs)
  BY KidsOf, FileOfChangeset DEF Singles, FilesOf
<1>2. ASSUME NEW i \in DOMAIN cs
      PROVE  /\ IsTrace(results[i]) /\ Fit(cs, s[i], a[i], p)
             /\ cs[i] \in FilesOf(cs) /\ s[i] = results[i].state
  BY <1>1 DEF NodeFits, FilesOf
<1>3. p \in Relied
  BY <1>1 DEF NodeFits, Fit
<1>4. t = Rule!FileExists(results, id)
  BY <1>1, EvaluationOfExists
<1>5. m = AnyOf(cs, MeaningOf(cs), n.kids[1])
  BY <1>1, MeaningByType
<1>6. Rely(n) = RelyExists(p)
  BY RelianceByType
<1>7. \A i \in DOMAIN cs : MeaningOf(cs)[<<n.kids[1], cs[i]>>] = a[i]
  BY DEF Means
<1>8. DOMAIN results = DOMAIN cs
  OBVIOUS
<1>9. \A i \in DOMAIN cs : a[i] \in Values /\ ("true" \in a[i] \/ "false" \in a[i])
  BY <1>2, ValuesAre DEF Fit
<1> HIDE DEF results, s, a, p, t, m
<1>10. /\ m \in Values
       /\ "true" \in m <=> \E i \in DOMAIN cs : "true" \in a[i]
       /\ "false" \in m <=> \A i \in DOMAIN cs : "false" \in a[i]
  BY <1>5, <1>7, <1>9 DEF AnyOf, Values, Rule!Truths
<1>11. /\ IsTrace(t) /\ t.state \in {"true", "false", "error"}
       /\ t.state # "error" =>
              /\ \A i \in DOMAIN cs : s[i] # "error"
              /\ t.state = "true" <=> \E i \in DOMAIN cs : s[i] = "true"
  BY <1>2, <1>4, <1>8, FileExistsState
<1>12. \A i \in DOMAIN cs : Fit(cs, s[i], a[i], p)
  BY <1>2
<1>13. Fit(cs, t.state, m, RelyExists(p))
  <2>1. Gathers(DOMAIN cs, s, a, t.state, m)
    BY <1>10, <1>11 DEF Gathers
  <2> QED
    BY <1>3, <1>12, <2>1, ExistsFits
<1> QED
  BY <1>6, <1>11, <1>13 DEF t, m

LEMMA PathExistsFits ==
    ASSUME NEW cs \in Rule!Changesets, NEW n \in Nodes, n.type = "path_exists",
           NodeFits(cs, n.kids[1])
    PROVE  NodeFits(cs, n)
<1> SUFFICES ASSUME NEW id \in Ids, NEW side \in Sides, NEW file \in FilesOf(cs)
             PROVE  LET t == Comes(cs, n, id, file, side) IN
                    /\ IsTrace(t)
                    /\ Fit(cs, t.state, Means(cs, n, file), Rely(n))
                    /\ file = Rule!NoFile => t.state # "outside"
  BY DEF NodeFits
<1> DEFINE sides == Rule!Paths(file)
           results == [i \in sides |-> Comes(cs, n.kids[1], Append(id, 1), file, i)]
           s == [i \in sides |-> results[i].state]
           m == Means(cs, n, file)
           a == [i \in sides |-> m]
           p == Rely(n.kids[1])
           t == Comes(cs, n, id, file, side)
<1>1. n.kids[1] \in Nodes /\ Append(id, 1) \in Ids /\ file \in Files
  BY KidsOf, FileOfChangeset DEF Singles
<1>2. m = Means(cs, n.kids[1], file)
  BY <1>1, MeaningByType
<1>3. sides \subseteq Sides /\ "after" \in sides
  BY DEF Rule!Paths, Sides
<1>4. ASSUME NEW i \in sides
      PROVE  /\ IsTrace(results[i]) /\ Fit(cs, s[i], a[i], p)
             /\ s[i] = results[i].state /\ a[i] = m
  <2>1. i \in Sides
    BY <1>3
  <2>2. IsTrace(results[i]) /\ Fit(cs, results[i].state, m, p)
    BY <1>1, <1>2, <2>1 DEF NodeFits
  <2> QED
    BY <2>2
<1>5. t = Rule!PathExists(results, id)
  BY <1>1, EvaluationOfExists
<1>6. Rely(n) = RelyExists(p)
  BY RelianceByType
<1>7. DOMAIN results = sides
  OBVIOUS
<1> HIDE DEF sides, results, s, a, p, t, m
<1>8. p \in Relied /\ m \in Values
  BY <1>3, <1>4 DEF Fit
<1>9. /\ "true" \in m <=> \E i \in sides : "true" \in a[i]
      /\ "false" \in m <=> \A i \in sides : "false" \in a[i]
  BY <1>3, <1>4
<1>10. /\ IsTrace(t) /\ t.state \in {"true", "false", "error"}
       /\ t.state # "error" =>
              /\ \A i \in sides : s[i] # "error"
              /\ t.state = "true" <=> \E i \in sides : s[i] = "true"
  BY <1>3, <1>4, <1>5, <1>7, PathExistsState
<1>11. \A i \in sides : Fit(cs, s[i], a[i], p)
  BY <1>4
<1>12. Fit(cs, t.state, m, RelyExists(p))
  <2>1. Gathers(sides, s, a, t.state, m)
    BY <1>8, <1>9, <1>10 DEF Gathers
  <2> QED
    BY <1>8, <1>11, <2>1, ExistsFits
<1> QED
  BY <1>6, <1>10, <1>12 DEF t, m

\* A node of which the kids fit does.
LEMMA KidsFit ==
    ASSUME NEW cs \in Rule!Changesets, NEW n \in Nodes,
           \A i \in DOMAIN n.kids : NodeFits(cs, n.kids[i])
    PROVE  NodeFits(cs, n)
<1>1. Shape(n)
  BY NodesHaveShape
<1>2. n.type \notin Singles => NodeFits(cs, n.kids[1])
  BY <1>1 DEF Shape
<1>3. n.type \in {"and", "or"} => NodeFits(cs, n.kids[2])
  BY <1>1 DEF Shape
<1>4. CASE n.type \in Singles
  BY <1>4, SingleFits
<1>5. CASE n.type \in {"group", "not"}
  BY <1>2, <1>5, UnaryFits DEF Singles
<1>6. CASE n.type \in {"and", "or"}
  BY <1>2, <1>3, <1>6, BinaryFits DEF Singles
<1>7. CASE n.type \in {"file_exists", "path_exists"}
  BY <1>2, <1>7, FileExistsFits, PathExistsFits DEF Singles
<1> QED
  BY <1>1, <1>4, <1>5, <1>6, <1>7 DEF Shape

LEMMA NodesFit ==
    ASSUME NEW cs \in Rule!Changesets
    PROVE  \A n \in Nodes : NodeFits(cs, n)
<1> DEFINE All(S) == \A n \in S : NodeFits(cs, n)
           s1 == Above({})
           s2 == Above(s1)
           s3 == Above(s2)
           s4 == Above(s3)
           s5 == Above(s4)
           s6 == Above(s5)
<1>1. ASSUME NEW S, All(S) PROVE All(Above(S))
  BY <1>1, KidsFit DEF Above
<1>2. All({})
  OBVIOUS
<1> HIDE DEF All
<1>3. All(s1)
  BY <1>1, <1>2
<1> HIDE DEF s1
<1>4. All(s2)
  BY <1>1, <1>3
<1> HIDE DEF s2
<1>5. All(s3)
  BY <1>1, <1>4
<1> HIDE DEF s3
<1>6. All(s4)
  BY <1>1, <1>5
<1> HIDE DEF s4
<1>7. All(s5)
  BY <1>1, <1>6
<1> HIDE DEF s5
<1>8. All(s6)
  BY <1>1, <1>7
<1>9. Nodes \subseteq s6
  BY SixLevels DEF s1, s2, s3, s4, s5
<1> QED
  BY <1>8, <1>9 DEF All

-----------------------------------------------------------------------------
\* A result that says whether the rule applies says what the rule means, as far
\* as the rule can be relied on.
SaysItsMeaning(o, r, cs) ==
    o.outcome \in {"applicable", "not_applicable"} =>
        LET answer == Rule!Truth(o.outcome = "applicable")
            meaning == Means(cs, r, Rule!NoFile)
        IN  /\ ~Missing(cs) => meaning = {answer}
            /\ answer \in Rely(r).sound => meaning = {answer}
            /\ \A v \in Rely(r).complete : meaning = {v} => answer = v

MeaningInv ==
    /\ row = "none" => outcome = Rule!None
    /\ SaysItsMeaning(outcome, rule, changeset)

LEMMA OutcomeSaysItsMeaning ==
    ASSUME rule \in Rules, changeset \in Rule!Changesets
    PROVE  SaysItsMeaning(Rule!Outcome, rule, changeset)
<1> DEFINE t == Comes(changeset, rule, <<>>, Rule!NoFile, "after")
           m == Means(changeset, rule, Rule!NoFile)
           r == Rely(rule)
           answer == Rule!Truth(Rule!Outcome.outcome = "applicable")
<1>1. t = Rule!Evaluate[Rule!At(rule, <<>>, Rule!NoFile, "after")]
  BY EvaluationIsRecursive DEF Comes
<1>2. /\ <<>> \in Ids /\ "after" \in Sides /\ Rule!NoFile \in FilesOf(changeset)
      /\ rule \in Nodes
  BY NodesAreClosed DEF Ids, Sides, FilesOf
<1>3. t.state \in States /\ t.state # "outside" /\ Fit(changeset, t.state, m, r)
  BY <1>2, NodesFit DEF NodeFits, IsTrace
<1> HIDE DEF t, m, r
<1>4. /\ t.state = "error" => Rule!Outcome.outcome = "error"
      /\ t.state = "true" => Rule!Outcome.outcome = "applicable"
      /\ t.state = "false" => Rule!Outcome.outcome = "not_applicable"
  BY <1>1 DEF Rule!Outcome, Rule!None
<1>5. Rule!Outcome.outcome \in {"applicable", "not_applicable"} =>
          answer = t.state /\ t.state \in {"true", "false"}
  BY <1>3, <1>4 DEF Rule!Truth, States
<1> HIDE DEF answer
<1>6. /\ m \in Values /\ r.complete \subseteq Rule!Truths
      /\ m = {"true"} <=> "false" \notin m
      /\ m = {"false"} <=> "true" \notin m
  BY <1>3, ValuesAre DEF Fit, Relied
<1>7. ASSUME Rule!Outcome.outcome \in {"applicable", "not_applicable"}
      PROVE  /\ ~Missing(changeset) => m = {answer}
             /\ answer \in r.sound => m = {answer}
             /\ \A v \in r.complete : m = {v} => answer = v
  <2>1. ~Missing(changeset) => m = {answer}
    BY <1>3, <1>5, <1>6, <1>7 DEF Fit
  <2>2. answer \in r.sound => m = {answer}
    BY <1>3, <1>5, <1>6, <1>7 DEF Fit
  <2>3. ASSUME NEW v \in r.complete, m = {v} PROVE answer = v
    <3>1. v \in {"true", "false"}
      BY <1>6 DEF Rule!Truths
    <3> QED
      BY <1>3, <1>5, <1>6, <1>7, <2>3, <3>1 DEF Fit
  <2> QED
    BY <2>1, <2>2, <2>3
<1> QED
  BY <1>7 DEF SaysItsMeaning, answer, m, r

LEMMA MeaningStep ==
    ASSUME Rule!TypeOK, MeaningInv, Rule!Next
    PROVE  MeaningInv'
<1>1. CASE Rule!Acquire
  <2>1. outcome' = Rule!None /\ row' = row
    BY <1>1 DEF Rule!Acquire, MeaningInv
  <2> QED
    BY <2>1 DEF MeaningInv, SaysItsMeaning, Rule!None
<1>2. CASE Rule!Record
  <2>1. outcome' = Rule!Outcome /\ row' # "none" /\ rule' = rule /\ changeset' = changeset
    BY <1>2 DEF Rule!Record
  <2>2. SaysItsMeaning(Rule!Outcome, rule, changeset)
    BY OutcomeSaysItsMeaning DEF Rule!TypeOK
  <2> HIDE DEF SaysItsMeaning
  <2> QED
    BY <2>1, <2>2 DEF MeaningInv
<1> QED
  BY <1>1, <1>2 DEF Rule!Next

LEMMA MeaningIsMatched == MeaningInv => Rule!MatchesItsMeaning
<1> SUFFICES ASSUME MeaningInv, outcome.outcome \in {"applicable", "not_applicable"}
             PROVE  LET answer == Rule!Truth(outcome.outcome = "applicable")
                        meaning == Rule!Meaning[<<rule, Rule!NoFile>>]
                    IN  /\ ~Missing(changeset) => meaning = {answer}
                        /\ answer \in Rule!Reliance[rule].sound => meaning = {answer}
                        /\ \A v \in Rule!Reliance[rule].complete :
                               meaning = {v} => answer = v
  BY DEF Rule!MatchesItsMeaning, Missing
<1>1. Rule!Meaning[<<rule, Rule!NoFile>>] = Means(changeset, rule, Rule!NoFile)
  BY MeaningIsRecursive DEF Means
<1> QED
  BY <1>1 DEF MeaningInv, SaysItsMeaning, Rely

LEMMA MeaningBegins == Beginning => MeaningInv
<1> SUFFICES ASSUME Beginning PROVE outcome = Rule!None
  BY DEF MeaningInv, SaysItsMeaning, Rule!None
<1> QED
  BY DEF Beginning, Rule!Init

LEMMA MeaningKept == RuleInv /\ MeaningInv /\ [Next]_all => MeaningInv'
<1> SUFFICES ASSUME RuleInv, MeaningInv, [Next]_all PROVE MeaningInv'
  OBVIOUS
<1>1. (subject = "rule" /\ Rule!Next) \/ UNCHANGED ruleVars
  BY DEF Next, all, OfConnection, OfRepository, OfAdmission, OfRule, OfWaivers, OfFeedback,
     OfAuthority
<1>2. CASE UNCHANGED ruleVars
  BY <1>2 DEF ruleVars, MeaningInv, SaysItsMeaning
<1>3. CASE subject = "rule" /\ Rule!Next
  BY <1>3, MeaningStep DEF RuleInv
<1> QED
  BY <1>1, <1>2, <1>3

\* Of every rule of the grammar and every changeset, whatever is found first and
\* whatever is negated, grouped or joined: without content that cannot be looked
\* at, the rule applies exactly if it holds.  With it, an answer the rule is sound
\* for is right whatever that content would say, and an answer it is complete for
\* is given whenever it is.  For the other answers, such as that a rule applies
\* which negates a test for a file by its content, nothing is claimed: there the
\* code lets a file it cannot look at count as no match.
THEOREM MatchesItsMeaningCorrect == Spec => []MatchesItsMeaning
<1>1. Beginning => RuleInv /\ MeaningInv
  BY RuleBegins, MeaningBegins
<1>2. RuleInv /\ MeaningInv /\ [Next]_all => (RuleInv /\ MeaningInv)'
  BY RuleStep, MeaningKept
<1>3. MeaningInv => MatchesItsMeaning
  BY MeaningIsMatched DEF MatchesItsMeaning
<1> QED
  BY <1>1, <1>2, <1>3, PTL DEF Spec
=============================================================================
