-------------------- MODULE CommitStatusPublicationProofs --------------------
(***************************************************************************)
(* Theorems about CommitStatusPublication: a status is written at most     *)
(* once, the retirement of the connection wins over what is under way, a   *)
(* new authority fences the requests of the old one, and the rows are true *)
(* to what the provider shows.                                             *)
(*                                                                         *)
(* The argument of the first is the column reconciliation_required: a      *)
(* status that was written is either known (external) or its next delivery *)
(* reconciles, and a creation is open only for a status that was not.      *)
(***************************************************************************)
EXTENDS CommitStatusPublication, TLAPS

\* The open request is a creation of s.
Creates(s) == request.operation = "create" /\ request.source = s

\* What the record of s says of the provider.
Recorded(s) ==
    /\ written[s] \in {0, 1}
    /\ Creates(s) => /\ attempt[s].reconcile
                     /\ written[s] = IF request.written THEN 1 ELSE 0
    /\ written[s] = 1 => attempt[s].reconcile \/ attempt[s].external

WrittenInv == TypeOK /\ \A s \in Sources : Recorded(s)

\* A retired connection has nothing that waits.
RetiredIsQuiet ==
    lifecycle = "retired" => \A h \in Heads : row[h].publication # "waiting"

-----------------------------------------------------------------------------
\* The steps of the delivery protocol keep a record a record.
LEMMA AttemptSteps ==
    ASSUME NEW d \in AttemptType, NEW v \in Nat,
           NEW operation \in Operations, NEW failure \in Failures
    PROVE  /\ Begun(d, v, operation) \in AttemptType
           /\ Succeeded(d) \in AttemptType
           /\ Failed(d, failure, operation) \in AttemptType
           /\ ProvenAbsent(d) \in AttemptType
           /\ Resumed(d) \in AttemptType
           /\ RetiredAttempt(d) \in AttemptType
<1>1. VerdictOf(failure) \in Verdicts
  BY DEF VerdictOf, Verdicts, Failures
<1>2. Uncertain(failure, operation) \in BOOLEAN
  BY DEF Uncertain
<1>3. d.generation + 1 \in Nat
  BY DEF AttemptType
<1>4. Begun(d, v, operation) \in AttemptType
  <2>1. PICK b \in BOOLEAN : b = (d.reconcile \/ operation = "create")
    OBVIOUS
  <2>2. Begun(d, v, operation) =
          [d EXCEPT !.generation = d.generation + 1, !.authority = v,
                    !.reconcile = b]
    BY <2>1 DEF Begun
  <2> QED
    BY <1>3, <2>2 DEF AttemptType
<1>5. Succeeded(d) \in AttemptType
  BY DEF Succeeded, AttemptType
<1>6. Failed(d, failure, operation) \in AttemptType
  BY <1>1, <1>2 DEF Failed, AttemptType
<1>7. ProvenAbsent(d) \in AttemptType
  BY DEF ProvenAbsent, AttemptType
<1>8. Resumed(d) \in AttemptType /\ RetiredAttempt(d) \in AttemptType
  BY <1>3 DEF Resumed, RetiredAttempt, AttemptType, Verdicts
<1> QED
  BY <1>4, <1>5, <1>6, <1>7, <1>8

\* What an Evaluation desires is a row of its head.
LEMMA DesireType ==
    ASSUME TypeOK, NEW e \in Evaluations, NEW state \in States,
           Desire(e, state)
    PROVE  row' \in [Heads -> RowType]
<1>1. <<e, state>> \in Sources
  BY DEF Sources
<1> QED
  BY <1>1, HeadOfAssumption DEF TypeOK, Desire, RowType, Publications

\* A success, a failure and a recovery leave the two tables well typed.
LEMMA SucceedType ==
    ASSUME TypeOK, NEW h \in Heads, NEW s \in Sources, NEW generation \in Nat,
           Succeed(h, s, generation)
    PROVE  row' \in [Heads -> RowType] /\ attempt' \in [Sources -> AttemptType]
<1>1. Succeeded(attempt[s]) \in AttemptType
  <2>1. attempt[s] \in AttemptType
    BY DEF TypeOK
  <2> QED
    BY <2>1 DEF Succeeded, AttemptType
<1> QED
  BY <1>1 DEF TypeOK, Succeed, RowType, Publications

LEMMA FailType ==
    ASSUME TypeOK, NEW h \in Heads, NEW s \in Sources, NEW generation \in Nat,
           NEW failure \in Failures, NEW operation \in Operations,
           Fail(h, s, generation, failure, operation)
    PROVE  /\ row' \in [Heads -> RowType]
           /\ attempt' \in [Sources -> AttemptType]
           /\ gated' \in BOOLEAN /\ verified' \in Nat
<1>1. Failed(attempt[s], failure, operation) \in AttemptType
  BY AttemptSteps DEF TypeOK
<1>2. row' \in [Heads -> RowType]
  BY DEF TypeOK, Fail, RowType, Publications
<1>3. attempt' \in [Sources -> AttemptType]
  BY <1>1 DEF TypeOK, Fail
<1>4. verified' \in Nat
  BY DEF TypeOK, Fail
<1>5. gated' \in BOOLEAN
  <2>1. CASE Held(attempt[s], generation, verified)
    <3>1. PICK b \in BOOLEAN : b = (gated \/ failure = "limited")
      OBVIOUS
    <3> QED
      BY <2>1, <3>1 DEF Fail
  <2>2. CASE ~Held(attempt[s], generation, verified)
    BY <2>2 DEF TypeOK, Fail
  <2> QED
    BY <2>1, <2>2
<1> QED
  BY <1>2, <1>3, <1>4, <1>5

LEMMA ResumeType ==
    ASSUME TypeOK, Resume
    PROVE  row' \in [Heads -> RowType] /\ attempt' \in [Sources -> AttemptType]
<1>1. \A s \in Sources : Resumed(attempt[s]) \in AttemptType
  <2>1. SUFFICES ASSUME NEW s \in Sources
                 PROVE  Resumed(attempt[s]) \in AttemptType
    OBVIOUS
  <2>2. attempt[s] \in AttemptType
    BY DEF TypeOK
  <2>3. attempt[s].generation + 1 \in Nat
    BY <2>2 DEF AttemptType
  <2> QED
    BY <2>2, <2>3 DEF Resumed, AttemptType, Verdicts
<1>2. attempt' \in [Sources -> AttemptType]
  BY <1>1 DEF TypeOK, Resume
<1>3. row' \in [Heads -> RowType]
  BY DEF TypeOK, Resume, RowType, Publications, NoRow
<1> QED
  BY <1>2, <1>3

LEMMA RetiredRowsType ==
    ASSUME TypeOK
    PROVE  RetiredRows \in [Heads -> RowType]
BY DEF TypeOK, RetiredRows, RowType, Publications, NoRow

-----------------------------------------------------------------------------
\* The initial state is well typed.
LEMMA InitType == Init => TypeOK
<1> SUFFICES ASSUME Init PROVE TypeOK
  OBVIOUS
<1>1. FreshAttempt \in AttemptType
  BY DEF FreshAttempt, AttemptType, Verdicts
<1>2. row \in [Heads -> RowType]
  BY DEF Init, RowType
<1> QED
  BY <1>1, <1>2 DEF Init, TypeOK, RequestType

\* Evaluations and adjudications keep the types.
LEMMA EvaluationTypes ==
    ASSUME TypeOK, NEW e \in Evaluations,
           \/ Admit(e) \/ Complete(e) \/ QueueAdjudication(e)
           \/ StartAdjudication(e) \/ FinishAdjudication(e)
    PROVE  TypeOK'
<1> USE DEF evaluationVars, connectionVars, providerVars, roundVars
<1>1. CASE Admit(e)
  <2>1. <<e, "pending">> \in Sources
    BY DEF Sources, States
  <2>2. row' \in [Heads -> RowType]
    BY <1>1, <2>1, HeadOfAssumption DEF TypeOK, Admit, RowType, Publications
  <2>3. outcome' \in [Evaluations -> {"absent"} \cup States]
    BY <1>1 DEF TypeOK, Admit, States
  <2> QED
    BY <1>1, <2>2, <2>3 DEF TypeOK, Admit
<1>2. CASE Complete(e)
  <2>1. PICK state \in Results : /\ outcome' = [outcome EXCEPT ![e] = state]
                                 /\ Desire(e, state)
    BY <1>2 DEF Complete
  <2>2. state \in States
    BY DEF States
  <2>3. row' \in [Heads -> RowType]
    BY <2>1, <2>2, DesireType
  <2>4. outcome' \in [Evaluations -> {"absent"} \cup States]
    BY <2>1, <2>2 DEF TypeOK
  <2> QED
    BY <1>2, <2>3, <2>4 DEF TypeOK, Complete
<1>3. CASE QueueAdjudication(e)
  BY <1>3, BoundsAssumption DEF TypeOK, QueueAdjudication, Disturb
<1>4. CASE StartAdjudication(e)
  <2>1. "pending" \in States
    BY DEF States
  <2>2. row' \in [Heads -> RowType]
    BY <1>4, <2>1, DesireType DEF StartAdjudication
  <2> QED
    BY <1>4, <2>2 DEF TypeOK, StartAdjudication
<1>5. CASE FinishAdjudication(e)
  <2>1. PICK state \in Results : /\ outcome' = [outcome EXCEPT ![e] = state]
                                 /\ Desire(e, state)
    BY <1>5 DEF FinishAdjudication
  <2>2. state \in States
    BY DEF States
  <2>3. row' \in [Heads -> RowType]
    BY <2>1, <2>2, DesireType
  <2>4. outcome' \in [Evaluations -> {"absent"} \cup States]
    BY <2>1, <2>2 DEF TypeOK
  <2> QED
    BY <1>5, <2>3, <2>4 DEF TypeOK, FinishAdjudication
<1> QED
  BY <1>1, <1>2, <1>3, <1>4, <1>5

\* The connection and the passing of time keep the types.
LEMMA ConnectionTypes ==
    ASSUME TypeOK,
           \/ Verify \/ Retire \/ Reactivate \/ GatePasses
           \/ \E s \in Sources : BackoffPasses(s)
    PROVE  TypeOK'
<1> USE DEF evaluationVars, connectionVars, providerVars, roundVars
<1>1. CASE Verify
  <2>1. /\ row' \in [Heads -> RowType]
        /\ attempt' \in [Sources -> AttemptType]
    <3>1. CASE Resume
      BY <3>1, ResumeType
    <3>2. CASE UNCHANGED <<row, attempt>>
      BY <3>2 DEF TypeOK
    <3> QED
      BY <1>1, <3>1, <3>2 DEF Verify
  <2> QED
    BY <1>1, <2>1 DEF TypeOK, Verify, Disturb
<1>2. CASE Retire
  <2>1. row' \in [Heads -> RowType]
    BY <1>2, RetiredRowsType DEF Retire
  <2>2. \A s \in Sources : RetiredAttempt(attempt[s]) \in AttemptType
    <3>1. SUFFICES ASSUME NEW s \in Sources
                   PROVE  RetiredAttempt(attempt[s]) \in AttemptType
      OBVIOUS
    <3>2. attempt[s] \in AttemptType
      BY DEF TypeOK
    <3>3. attempt[s].generation + 1 \in Nat
      BY <3>2 DEF AttemptType
    <3> QED
      BY <3>2, <3>3 DEF RetiredAttempt, AttemptType, Verdicts
  <2>3. attempt' \in [Sources -> AttemptType]
    BY <1>2, <2>2 DEF TypeOK, Retire
  <2>4. /\ lifecycle' = "retired" /\ gated' = FALSE
        /\ disturbances' = disturbances + 1
        /\ UNCHANGED <<evaluationVars, verified, providerVars, roundVars,
                       runtimeFailed>>
    BY <1>2 DEF Retire, Disturb
  <2>5. disturbances' \in Nat
    BY <2>4 DEF TypeOK
  <2> QED
    BY <2>1, <2>3, <2>4, <2>5 DEF TypeOK
<1>3. CASE Reactivate
  <2>1. /\ row' \in [Heads -> RowType]
        /\ attempt' \in [Sources -> AttemptType]
    BY <1>3, ResumeType DEF Reactivate
  <2> QED
    BY <1>3, <2>1 DEF TypeOK, Reactivate, Disturb
<1>4. CASE GatePasses
  BY <1>4 DEF TypeOK, GatePasses
<1>5. ASSUME NEW s \in Sources, BackoffPasses(s) PROVE TypeOK'
  <2>1. [attempt[s] EXCEPT !.due = TRUE] \in AttemptType
    <3>1. attempt[s] \in AttemptType
      BY DEF TypeOK
    <3> QED
      BY <3>1 DEF AttemptType
  <2>2. attempt' \in [Sources -> AttemptType]
    BY <1>5, <2>1 DEF TypeOK, BackoffPasses
  <2> QED
    BY <1>5, <2>2 DEF TypeOK, BackoffPasses
<1> QED
  BY <1>1, <1>2, <1>3, <1>4, <1>5

\* A request of the round is a delivery.
LEMMA RequestFields ==
    ASSUME TypeOK, request.operation \in Operations
    PROVE  /\ request.head \in Heads /\ request.source \in Sources
           /\ request.generation \in Nat /\ request.written \in BOOLEAN
           /\ request # NoRequest /\ publisher = "request"
<1>1. request # NoRequest
  BY DEF NoRequest, Operations
<1> QED
  BY <1>1 DEF TypeOK, RequestType

\* To open a request keeps the types.
LEMMA OpenType ==
    ASSUME TypeOK, NEW r, r.head \in Heads, r.source \in Sources,
           NEW d \in AttemptType, NEW operation \in Operations,
           Open(r, d, operation)
    PROVE  /\ attempt' \in [Sources -> AttemptType]
           /\ publisher' = "request"
           /\ request' \in RequestType /\ request' # NoRequest
<1>1. Begun(d, verified, operation) \in AttemptType
  <2>1. verified \in Nat
    BY DEF TypeOK
  <2>2. "rejected" \in Failures
    BY DEF Failures
  <2> QED
    BY <2>1, <2>2, AttemptSteps
<1>2. attempt' \in [Sources -> AttemptType]
  BY <1>1 DEF TypeOK, Open
<1>3. d.generation \in Nat
  BY DEF AttemptType
<1>4. request' \in RequestType
  BY <1>3 DEF Open, RequestType
<1>5. request' # NoRequest
  <2>1. request'.operation = operation
    BY DEF Open
  <2> QED
    BY <2>1 DEF NoRequest, Operations
<1> QED
  BY <1>2, <1>4, <1>5 DEF Open

\* A round keeps the types.
LEMMA RoundTypes ==
    ASSUME TypeOK,
           FetchRows \/ \E r \in Deliveries : \/ FindRowInvalid(r)
                                              \/ PassRow(r) \/ BeginRow(r)
    PROVE  TypeOK'
<1> USE DEF evaluationVars, connectionVars, providerVars, roundVars
<1>1. CASE FetchRows
  <2>1. WaitingRows \subseteq Deliveries
    BY DEF TypeOK, WaitingRows, Deliveries, RowType, NoRow
  <2>2. publisher # "request" /\ publisher' \in {"idle", "round"}
    BY <1>1 DEF FetchRows
  <2> QED
    BY <1>1, <2>1, <2>2 DEF TypeOK, FetchRows
<1>2. ASSUME NEW r \in Deliveries, FindRowInvalid(r) PROVE TypeOK'
  BY <1>2 DEF TypeOK, FindRowInvalid
<1>3. ASSUME NEW r \in Deliveries, PassRow(r) PROVE TypeOK'
  <2>1. r.head \in Heads /\ r.source \in Sources
    BY DEF Deliveries
  <2>2. attempt[r.source].generation \in Nat
    BY <2>1 DEF TypeOK, AttemptType
  <2>3. /\ row' \in [Heads -> RowType]
        /\ attempt' \in [Sources -> AttemptType]
    <3>1. CASE attempt[r.source].external
      <4>1. Succeed(r.head, r.source, attempt[r.source].generation)
        BY <1>3, <3>1 DEF PassRow
      <4> QED
        BY <2>1, <2>2, <4>1, SucceedType
    <3>2. CASE ~attempt[r.source].external
      BY <1>3, <3>2 DEF TypeOK, PassRow
    <3> QED
      BY <3>1, <3>2
  <2>4. /\ rows' \subseteq Deliveries /\ tried' \subseteq Sources
        /\ UNCHANGED <<evaluationVars, connectionVars, providerVars,
                       publisher, request, runtimeFailed, disturbances>>
    BY <1>3, <2>1 DEF TypeOK, PassRow, Take
  <2> QED
    BY <2>3, <2>4 DEF TypeOK
<1>4. ASSUME NEW r \in Deliveries, BeginRow(r) PROVE TypeOK'
  <2>1. r.head \in Heads /\ r.source \in Sources
    BY DEF Deliveries
  <2>2. attempt[r.source] \in AttemptType
    BY <2>1 DEF TypeOK
  <2>3. PICK operation \in Operations : Open(r, attempt[r.source], operation)
    BY <1>4 DEF BeginRow, Operations
  <2>4. /\ attempt' \in [Sources -> AttemptType]
        /\ publisher' = "request"
        /\ request' \in RequestType /\ request' # NoRequest
    BY <2>1, <2>2, <2>3, OpenType
  <2>5. /\ rows' \subseteq Deliveries /\ tried' \subseteq Sources
        /\ UNCHANGED <<evaluationVars, row, connectionVars, providerVars,
                       runtimeFailed, disturbances>>
    BY <1>4, <2>1 DEF TypeOK, BeginRow, Take
  <2> QED
    BY <2>4, <2>5 DEF TypeOK, NoRequest
<1> QED
  BY <1>1, <1>2, <1>3, <1>4

\* The request and its end keep the types.
LEMMA RequestTypes ==
    ASSUME TypeOK, Deliver \/ RequestFails \/ Crash
    PROVE  TypeOK'
<1> USE DEF evaluationVars, connectionVars, providerVars, roundVars
<1>1. CASE Write
  <2>1. request.operation \in Operations
    BY <1>1 DEF Write, Operations
  <2>2. request' \in RequestType /\ request' # NoRequest
    BY <1>1, <2>1, RequestFields DEF Write, TypeOK, RequestType, NoRequest
  <2>3. /\ written' \in [Sources -> Nat]
        /\ shown' \in [Heads -> Sources \cup {NoSource}]
    BY <1>1, <2>1, RequestFields DEF Write, TypeOK
  <2> QED
    BY <1>1, <2>1, <2>2, <2>3, RequestFields DEF TypeOK, Write
<1>2. CASE CreateAnswered \/ ReconcileFound
  <2>1. request.operation \in Operations
    BY <1>2 DEF CreateAnswered, ReconcileFound, Operations
  <2>2. /\ row' \in [Heads -> RowType]
        /\ attempt' \in [Sources -> AttemptType]
    BY <1>2, <2>1, RequestFields, SucceedType DEF CreateAnswered, ReconcileFound
  <2>3. /\ publisher' = "round" /\ request' = NoRequest
        /\ UNCHANGED <<evaluationVars, connectionVars, providerVars, rows,
                       tried, runtimeFailed, disturbances>>
    BY <1>2 DEF CreateAnswered, ReconcileFound, Close
  <2> QED
    BY <2>2, <2>3 DEF TypeOK, RequestType
<1>3. CASE ReconcileAbsent
  <2> DEFINE d == ProvenAbsent(attempt[request.source])
  <2>1. /\ request.operation \in Operations
        /\ UNCHANGED <<evaluationVars, row, connectionVars, providerVars,
                       rows, tried, runtimeFailed, disturbances>>
    BY <1>3 DEF ReconcileAbsent, Operations
  <2>2. d \in AttemptType
    <3>1. attempt[request.source] \in AttemptType
      BY <2>1, RequestFields DEF TypeOK
    <3> QED
      BY <3>1 DEF ProvenAbsent, AttemptType
  <2> HIDE DEF d
  <2>3. CASE Open(request, d, "create")
    <3>1. /\ attempt' \in [Sources -> AttemptType]
          /\ publisher' = "request"
          /\ request' \in RequestType /\ request' # NoRequest
      BY <2>1, <2>2, <2>3, RequestFields, OpenType DEF Operations
    <3> QED
      BY <2>1, <3>1 DEF TypeOK, NoRequest
  <2>4. CASE Close /\ (UNCHANGED attempt
                       \/ attempt' = [attempt EXCEPT ![request.source] = d])
    BY <2>1, <2>2, <2>4 DEF TypeOK, Close, RequestType
  <2> QED
    BY <1>3, <2>3, <2>4 DEF ReconcileAbsent, d
<1>4. CASE RequestFails
  <2>1. request.operation \in Operations
    BY <1>4 DEF RequestFails
  <2>2. PICK failure \in Failures :
          Fail(request.head, request.source, request.generation, failure,
               request.operation)
    BY <1>4 DEF RequestFails
  <2>3. /\ row' \in [Heads -> RowType]
        /\ attempt' \in [Sources -> AttemptType]
        /\ gated' \in BOOLEAN /\ verified' \in Nat
    BY <2>1, <2>2, RequestFields, FailType
  <2>4. /\ publisher' = "round" /\ request' = NoRequest
        /\ disturbances' = disturbances + 1
        /\ UNCHANGED <<evaluationVars, lifecycle, providerVars, rows, tried,
                       runtimeFailed>>
    BY <1>4 DEF RequestFails, Close, Disturb
  <2> QED
    BY <2>3, <2>4 DEF TypeOK, RequestType
<1>5. CASE Crash
  <2>1. disturbances' \in Nat
    BY <1>5 DEF TypeOK, Crash, Disturb
  <2>2. /\ publisher' = "idle" /\ rows' = {} /\ tried' = {}
        /\ request' = NoRequest /\ runtimeFailed' = FALSE
        /\ UNCHANGED <<evaluationVars, row, attempt, connectionVars,
                       providerVars>>
    BY <1>5 DEF Crash
  <2> QED
    BY <2>1, <2>2 DEF TypeOK, RequestType
<1> QED
  BY <1>1, <1>2, <1>3, <1>4, <1>5 DEF Deliver

LEMMA TypeStep == TypeOK /\ [Next]_vars => TypeOK'
<1> SUFFICES ASSUME TypeOK, [Next]_vars PROVE TypeOK'
  OBVIOUS
<1>1. CASE UNCHANGED vars
  BY <1>1 DEF TypeOK, vars, evaluationVars, connectionVars, providerVars,
              roundVars
<1>2. ASSUME NEW e \in Evaluations,
             \/ Admit(e) \/ Complete(e) \/ QueueAdjudication(e)
             \/ StartAdjudication(e) \/ FinishAdjudication(e)
      PROVE  TypeOK'
  BY <1>2, EvaluationTypes
<1>3. CASE \/ Verify \/ Retire \/ Reactivate \/ GatePasses
           \/ \E s \in Sources : BackoffPasses(s)
  BY <1>3, ConnectionTypes
<1>4. CASE FetchRows \/ \E r \in Deliveries : \/ FindRowInvalid(r)
                                              \/ PassRow(r) \/ BeginRow(r)
  BY <1>4, RoundTypes
<1>5. CASE Deliver \/ RequestFails \/ Crash
  BY <1>5, RequestTypes
<1> QED
  BY <1>1, <1>2, <1>3, <1>4, <1>5 DEF Next

\* The rows, the deliveries and the round keep their types, and a request is
\* open exactly while the round waits for one.
THEOREM TypeCorrect == Spec => []TypeOK
  BY InitType, TypeStep, PTL DEF Spec

-----------------------------------------------------------------------------
\* A step that leaves the request and the provider alone, and takes nothing
\* back from a record, keeps what the records say.
LEMMA RecordKept ==
    ASSUME WrittenInv, UNCHANGED <<request, written>>,
           \A s \in Sources : /\ attempt[s].reconcile => attempt'[s].reconcile
                              /\ attempt[s].external => attempt'[s].external
    PROVE  \A s \in Sources : Recorded(s)'
<1> SUFFICES ASSUME NEW s \in Sources PROVE Recorded(s)'
  OBVIOUS
<1>1. /\ Recorded(s) /\ Creates(s)' = Creates(s)
      /\ written'[s] = written[s] /\ request'.written = request.written
  BY DEF WrittenInv, Creates
<1>2. /\ attempt[s].reconcile => attempt'[s].reconcile
      /\ attempt[s].external => attempt'[s].external
  OBVIOUS
<1> QED
  BY <1>1, <1>2 DEF Recorded

\* A success keeps what the records say, for it makes the identity known.
LEMMA SucceedRecorded ==
    ASSUME WrittenInv, NEW h \in Heads, NEW s \in Sources, NEW generation,
           Succeed(h, s, generation), request' = NoRequest, UNCHANGED written
    PROVE  \A q \in Sources : Recorded(q)'
<1>1. \A q : ~Creates(q)'
  <2>1. request'.operation # "create"
    BY DEF NoRequest
  <2> QED
    BY <2>1 DEF Creates
<1>2. ASSUME NEW q \in Sources
      PROVE  attempt'[q] = attempt[q] \/ attempt'[q].external
  <2>1. attempt[s] \in AttemptType
    BY DEF WrittenInv, TypeOK
  <2>2. Succeeded(attempt[s]).external
    BY <2>1 DEF Succeeded, AttemptType
  <2> QED
    BY <2>2 DEF WrittenInv, TypeOK, Succeed
<1>3. ASSUME NEW q \in Sources PROVE Recorded(q)'
  <2>1. Recorded(q) /\ ~Creates(q)' /\ written'[q] = written[q]
    BY <1>1 DEF WrittenInv
  <2>2. CASE attempt'[q] = attempt[q]
    BY <2>1, <2>2 DEF Recorded
  <2>3. CASE attempt'[q].external
    BY <2>1, <2>3 DEF Recorded
  <2> QED
    BY <1>2, <2>2, <2>3
<1> QED
  BY <1>3

LEMMA InitWritten == Init => WrittenInv
<1> SUFFICES ASSUME Init PROVE WrittenInv
  OBVIOUS
<1>1. \A s \in Sources : Recorded(s)
  BY DEF Init, Recorded, Creates, NoRequest
<1> QED
  BY <1>1, InitType DEF WrittenInv

\* Evaluations, time and the connection take nothing back from a record.
LEMMA ElsewhereRecorded ==
    ASSUME WrittenInv,
           \/ \E e \in Evaluations :
                \/ Admit(e) \/ Complete(e) \/ QueueAdjudication(e)
                \/ StartAdjudication(e) \/ FinishAdjudication(e)
           \/ Verify \/ Retire \/ Reactivate \/ GatePasses
           \/ \E s \in Sources : BackoffPasses(s)
           \/ FetchRows \/ UNCHANGED vars
    PROVE  \A s \in Sources : Recorded(s)'
<1>1. UNCHANGED <<request, written>>
  <2> USE DEF vars, evaluationVars, connectionVars, providerVars, roundVars
  <2>1. CASE \E e \in Evaluations :
                \/ Admit(e) \/ Complete(e) \/ QueueAdjudication(e)
                \/ StartAdjudication(e) \/ FinishAdjudication(e)
    BY <2>1 DEF Admit, Complete, QueueAdjudication, StartAdjudication,
                FinishAdjudication
  <2>2. CASE Verify \/ Retire \/ Reactivate
    BY <2>2 DEF Verify, Retire, Reactivate
  <2>3. CASE \/ GatePasses \/ FetchRows \/ UNCHANGED vars
             \/ \E s \in Sources : BackoffPasses(s)
    BY <2>3 DEF GatePasses, FetchRows, BackoffPasses
  <2> QED
    BY <2>1, <2>2, <2>3
<1>2. ASSUME NEW s \in Sources
      PROVE  /\ attempt[s].reconcile => attempt'[s].reconcile
             /\ attempt[s].external => attempt'[s].external
  <2>1. attempt[s] \in AttemptType
    BY DEF WrittenInv, TypeOK
  <2>2. \/ attempt'[s] = attempt[s]
        \/ attempt'[s] = Resumed(attempt[s])
        \/ attempt'[s] = RetiredAttempt(attempt[s])
        \/ attempt'[s] = [attempt[s] EXCEPT !.due = TRUE]
    <3>1. CASE \/ \E e \in Evaluations :
                   \/ Admit(e) \/ Complete(e) \/ QueueAdjudication(e)
                   \/ StartAdjudication(e) \/ FinishAdjudication(e)
               \/ GatePasses \/ FetchRows \/ UNCHANGED vars
      BY <3>1 DEF vars, Admit, Complete, QueueAdjudication, StartAdjudication,
                  FinishAdjudication, GatePasses, FetchRows
    <3>2. CASE Verify \/ Reactivate
      BY <3>2 DEF Verify, Reactivate, Resume
    <3>3. CASE Retire
      BY <3>3 DEF Retire
    <3>4. CASE \E q \in Sources : BackoffPasses(q)
      <4>1. PICK q \in Sources : attempt' = [attempt EXCEPT ![q].due = TRUE]
        BY <3>4 DEF BackoffPasses
      <4>2. attempt \in [Sources -> AttemptType]
        BY DEF WrittenInv, TypeOK
      <4> QED
        BY <4>1, <4>2
    <3> QED
      BY <3>1, <3>2, <3>3, <3>4
  <2> QED
    BY <2>1, <2>2 DEF Resumed, RetiredAttempt, AttemptType
<1> QED
  BY <1>1, <1>2, RecordKept

\* A round opens a creation only for what has not been written.
LEMMA RoundRecorded ==
    ASSUME WrittenInv,
           \E r \in Deliveries : FindRowInvalid(r) \/ PassRow(r) \/ BeginRow(r)
    PROVE  \A s \in Sources : Recorded(s)'
<1> USE DEF evaluationVars, connectionVars, providerVars, roundVars
<1>1. PICK r \in Deliveries : FindRowInvalid(r) \/ PassRow(r) \/ BeginRow(r)
  OBVIOUS
<1>2. /\ r.head \in Heads /\ r.source \in Sources
      /\ attempt[r.source] \in AttemptType
  BY DEF Deliveries, WrittenInv, TypeOK
<1>3. CASE FindRowInvalid(r)
  BY <1>3, RecordKept DEF FindRowInvalid
<1>4. CASE PassRow(r)
  <2>1. request = NoRequest /\ UNCHANGED <<request, written>>
    BY <1>4 DEF PassRow, Take, WrittenInv, TypeOK
  <2>2. CASE attempt[r.source].external
    BY <1>2, <1>4, <2>1, <2>2, SucceedRecorded DEF PassRow
  <2>3. CASE ~attempt[r.source].external
    BY <1>4, <2>1, <2>3, RecordKept DEF PassRow
  <2> QED
    BY <2>2, <2>3
<1>5. CASE BeginRow(r)
  <2> DEFINE d == attempt[r.source]
             operation == IF d.reconcile THEN "reconcile" ELSE "create"
  <2>1. /\ ~d.external /\ UNCHANGED written
        /\ attempt' = [attempt EXCEPT ![r.source] =
                         Begun(d, verified, operation)]
        /\ request'.source = r.source /\ request'.operation = operation
        /\ request'.written = FALSE
    BY <1>5 DEF BeginRow, Open
  <2>2. Begun(d, verified, operation).reconcile
    BY <1>2 DEF Begun, AttemptType
  <2>3. ASSUME NEW s \in Sources PROVE Recorded(s)'
    <3>1. CASE s = r.source
      BY <1>2, <2>1, <2>2, <3>1 DEF WrittenInv, TypeOK, Recorded, Creates
    <3>2. CASE s # r.source
      BY <2>1, <3>2 DEF WrittenInv, TypeOK, Recorded, Creates
    <3> QED
      BY <3>1, <3>2
  <2> QED
    BY <2>3
<1> QED
  BY <1>1, <1>3, <1>4, <1>5

\* A request writes what has not been written, and what it leaves behind is
\* known or will be reconciled.
LEMMA RequestRecorded ==
    ASSUME WrittenInv, Deliver \/ RequestFails \/ Crash
    PROVE  \A s \in Sources : Recorded(s)'
<1> USE DEF evaluationVars, connectionVars, providerVars, roundVars
<1>1. CASE Write
  <2>1. request.source \in Sources /\ request # NoRequest
    BY <1>1, RequestFields DEF Write, Operations, WrittenInv
  <2>2. /\ request'.operation = "create" /\ request'.source = request.source
        /\ request'.written = TRUE /\ UNCHANGED attempt
    BY <1>1, <2>1 DEF Write, WrittenInv, TypeOK, RequestType
  <2>3. ASSUME NEW s \in Sources PROVE Recorded(s)'
    <3>1. CASE s = request.source
      <4>1. written[s] = 0 /\ attempt[s].reconcile
        BY <1>1, <3>1 DEF Write, WrittenInv, Recorded, Creates
      <4>2. written'[s] = 1
        BY <1>1, <3>1, <4>1 DEF Write, WrittenInv, TypeOK
      <4> QED
        BY <2>2, <3>1, <4>1, <4>2 DEF Recorded, Creates
    <3>2. CASE s # request.source
      <4>1. written'[s] = written[s]
        BY <1>1, <3>2 DEF Write, WrittenInv, TypeOK
      <4> QED
        BY <2>2, <3>2, <4>1 DEF WrittenInv, Recorded, Creates
    <3> QED
      BY <3>1, <3>2
  <2> QED
    BY <2>3
<1>2. CASE CreateAnswered \/ ReconcileFound
  <2>1. request.operation \in Operations
    BY <1>2 DEF CreateAnswered, ReconcileFound, Operations
  <2>2. request.head \in Heads /\ request.source \in Sources
    BY <2>1, RequestFields DEF WrittenInv
  <2> QED
    BY <1>2, <2>2, SucceedRecorded DEF CreateAnswered, ReconcileFound, Close
<1>3. CASE ReconcileAbsent
  <2> DEFINE q == request.source
             d == ProvenAbsent(attempt[q])
  <2>1. /\ q \in Sources /\ attempt[q] \in AttemptType
        /\ written[q] = 0 /\ UNCHANGED written
    BY <1>3, RequestFields DEF ReconcileAbsent, Operations, WrittenInv, TypeOK
  <2>2. d \in AttemptType
    BY <2>1 DEF ProvenAbsent, AttemptType
  <2>3. CASE Open(request, d, "create")
    <3>1. Begun(d, verified, "create").reconcile
      BY <2>2 DEF Begun, AttemptType
    <3>2. /\ attempt' = [attempt EXCEPT ![q] = Begun(d, verified, "create")]
          /\ request'.operation = "create" /\ request'.source = q
          /\ request'.written = FALSE
      BY <2>3 DEF Open
    <3> HIDE DEF d
    <3>3. ASSUME NEW s \in Sources PROVE Recorded(s)'
      <4>1. CASE s = q
        BY <2>1, <3>1, <3>2, <4>1 DEF WrittenInv, TypeOK, Recorded, Creates
      <4>2. CASE s # q
        BY <2>1, <3>2, <4>2 DEF WrittenInv, TypeOK, Recorded, Creates
      <4> QED
        BY <4>1, <4>2
    <3> QED
      BY <3>3
  <2>4. CASE Close /\ (UNCHANGED attempt
                       \/ attempt' = [attempt EXCEPT ![q] = d])
    <3>1. \A s : ~Creates(s)'
      BY <2>4 DEF Close, Creates, NoRequest
    <3> QED
      BY <2>1, <2>4, <3>1 DEF WrittenInv, TypeOK, Recorded
  <2> QED
    BY <1>3, <2>3, <2>4 DEF ReconcileAbsent
<1>4. CASE RequestFails
  <2>1. PICK failure \in Failures :
          Fail(request.head, request.source, request.generation, failure,
               request.operation)
    BY <1>4 DEF RequestFails
  <2>2. /\ request.source \in Sources
        /\ attempt[request.source] \in AttemptType
    BY <1>4, RequestFields DEF RequestFails, WrittenInv, TypeOK
  <2>3. request' = NoRequest /\ UNCHANGED written
    BY <1>4 DEF RequestFails, Close
  <2>4. \A s : ~Creates(s)'
    BY <2>3 DEF Creates, NoRequest
  <2>5. LET f == Failed(attempt[request.source], failure, request.operation)
        IN  /\ attempt[request.source].reconcile => f.reconcile
            /\ attempt[request.source].external => f.external
    BY <2>2 DEF Failed, AttemptType
  <2>6. ASSUME NEW s \in Sources
        PROVE  /\ attempt[s].reconcile => attempt'[s].reconcile
               /\ attempt[s].external => attempt'[s].external
    BY <2>1, <2>2, <2>5 DEF Fail, WrittenInv, TypeOK
  <2> QED
    BY <2>3, <2>4, <2>6 DEF WrittenInv, Recorded
<1>5. CASE Crash
  <2>1. \A s : ~Creates(s)'
    BY <1>5 DEF Crash, Creates, NoRequest
  <2> QED
    BY <1>5, <2>1 DEF Crash, WrittenInv, Recorded
<1> QED
  BY <1>1, <1>2, <1>3, <1>4, <1>5 DEF Deliver

LEMMA WrittenStep == WrittenInv /\ [Next]_vars => WrittenInv'
<1> SUFFICES ASSUME WrittenInv, [Next]_vars PROVE WrittenInv'
  OBVIOUS
<1>1. TypeOK'
  BY TypeStep DEF WrittenInv
<1>2. \A s \in Sources : Recorded(s)'
  <2>1. CASE \E r \in Deliveries : \/ FindRowInvalid(r)
                                   \/ PassRow(r) \/ BeginRow(r)
    BY <2>1, RoundRecorded
  <2>2. CASE Deliver \/ RequestFails \/ Crash
    BY <2>2, RequestRecorded
  <2>3. CASE \/ \E e \in Evaluations :
                  \/ Admit(e) \/ Complete(e) \/ QueueAdjudication(e)
                  \/ StartAdjudication(e) \/ FinishAdjudication(e)
             \/ Verify \/ Retire \/ Reactivate \/ GatePasses
             \/ \E s \in Sources : BackoffPasses(s)
             \/ FetchRows \/ UNCHANGED vars
    BY <2>3, ElsewhereRecorded
  <2> QED
    BY <2>1, <2>2, <2>3 DEF Next
<1> QED
  BY <1>1, <1>2 DEF WrittenInv

\* No status is written twice: a creation begins only for a source whose
\* absence from the provider was proved or of which nothing was ever begun.
THEOREM WrittenOnceCorrect == Spec => []WrittenOnce
<1>1. WrittenInv => WrittenOnce
  BY DEF WrittenInv, WrittenOnce, Recorded
<1> QED
  BY <1>1, InitWritten, WrittenStep, PTL DEF Spec

-----------------------------------------------------------------------------
\* The rows that a step leaves alone, puts where a retired connection has
\* them, or completes: what each action can do to the row of a head.
RowStep(h) ==
    \/ row'[h] = row[h]
    \/ lifecycle = "retired" /\ row'[h].publication = "unavailable"
    \/ lifecycle = "enabled" /\ lifecycle' = "enabled"
    \/ lifecycle' = "retired" /\ row'[h] = RetiredRows[h]
    \/ lifecycle = "retired" /\ lifecycle' = "enabled"
    \/ row[h].publication = "waiting"

\* A row that an Evaluation desires anew is unavailable while the connection is
\* retired.
LEMMA DesireRow ==
    ASSUME TypeOK, NEW e \in Evaluations, NEW state, Desire(e, state),
           UNCHANGED lifecycle, NEW h \in Heads
    PROVE  RowStep(h)
<1>1. CASE lifecycle = "enabled"
  BY <1>1 DEF RowStep
<1>2. CASE lifecycle = "retired"
  BY <1>2 DEF Desire, RowStep, TypeOK
<1> QED
  BY <1>1, <1>2 DEF TypeOK

\* A completion touches only a row that waits.
LEMMA CompletionRow ==
    ASSUME TypeOK, NEW q \in Heads, NEW s, NEW generation, NEW failure,
           NEW operation,
           \/ Succeed(q, s, generation)
           \/ Fail(q, s, generation, failure, operation),
           NEW h \in Heads
    PROVE  RowStep(h)
<1>1. row'[h] = row[h] \/ row[h] = [source |-> s, publication |-> "waiting"]
  BY DEF TypeOK, Succeed, Fail
<1> QED
  BY <1>1 DEF RowStep

LEMMA RowSteps ==
    ASSUME TypeOK, [Next]_vars, NEW h \in Heads
    PROVE  RowStep(h)
<1> USE DEF evaluationVars, connectionVars, providerVars, roundVars
<1>1. ASSUME NEW e \in Evaluations,
             \/ Admit(e) \/ Complete(e) \/ QueueAdjudication(e)
             \/ StartAdjudication(e) \/ FinishAdjudication(e)
      PROVE  RowStep(h)
  <2>1. CASE Admit(e)
    BY <2>1 DEF Admit, RowStep
  <2>2. CASE QueueAdjudication(e)
    BY <2>2 DEF QueueAdjudication, RowStep
  <2>3. CASE Complete(e) \/ StartAdjudication(e) \/ FinishAdjudication(e)
    <3>1. UNCHANGED lifecycle /\ \E state : Desire(e, state)
      BY <2>3 DEF Complete, StartAdjudication, FinishAdjudication
    <3> QED
      BY <3>1, DesireRow
  <2> QED
    BY <1>1, <2>1, <2>2, <2>3
<1>2. CASE Verify
  BY <1>2 DEF Verify, RowStep
<1>3. CASE Retire
  BY <1>3 DEF Retire, RowStep
<1>4. CASE Reactivate
  BY <1>4 DEF Reactivate, RowStep
<1>5. CASE \/ GatePasses \/ FetchRows \/ Write \/ ReconcileAbsent \/ Crash
           \/ UNCHANGED vars
           \/ \E s \in Sources : BackoffPasses(s)
           \/ \E r \in Deliveries : FindRowInvalid(r) \/ BeginRow(r)
  BY <1>5 DEF GatePasses, FetchRows, Write, ReconcileAbsent, Crash, vars,
              BackoffPasses, FindRowInvalid, BeginRow, RowStep
<1>6. ASSUME NEW r \in Deliveries, PassRow(r) PROVE RowStep(h)
  <2>1. CASE UNCHANGED row
    BY <2>1 DEF RowStep
  <2>2. CASE Succeed(r.head, r.source, attempt[r.source].generation)
    BY <2>2, CompletionRow DEF Deliveries
  <2> QED
    BY <1>6, <2>1, <2>2 DEF PassRow
<1>7. CASE CreateAnswered \/ ReconcileFound \/ RequestFails
  <2>1. request.head \in Heads
    BY <1>7, RequestFields
       DEF CreateAnswered, ReconcileFound, RequestFails, Operations
  <2>2. CASE CreateAnswered \/ ReconcileFound
    BY <2>1, <2>2, CompletionRow DEF CreateAnswered, ReconcileFound
  <2>3. CASE RequestFails
    BY <2>1, <2>3, CompletionRow DEF RequestFails
  <2> QED
    BY <1>7, <2>2, <2>3
<1> QED
  BY <1>1, <1>2, <1>3, <1>4, <1>5, <1>6, <1>7 DEF Next, Deliver

\* The retirement leaves nothing waiting.
LEMMA NothingWaits ==
    ASSUME TypeOK, NEW h \in Heads
    PROVE  RetiredRows[h].publication # "waiting"
<1>1. CASE row[h].publication = "waiting"
  <2>1. RetiredRows[h] = [row[h] EXCEPT !.publication = "unavailable"]
    BY <1>1 DEF RetiredRows
  <2>2. row[h] \in RowType
    BY DEF TypeOK
  <2> QED
    BY <2>1, <2>2 DEF RowType, NoRow
<1>2. CASE row[h].publication # "waiting"
  BY <1>2 DEF RetiredRows
<1> QED
  BY <1>1, <1>2

LEMMA QuietStep == TypeOK /\ RetiredIsQuiet /\ [Next]_vars => RetiredIsQuiet'
<1> SUFFICES ASSUME TypeOK, RetiredIsQuiet, [Next]_vars,
                    lifecycle' = "retired", NEW h \in Heads
             PROVE  row'[h].publication # "waiting"
  BY DEF RetiredIsQuiet
<1>1. CASE lifecycle = "retired"
  <2>1. row[h].publication # "waiting"
    BY <1>1 DEF RetiredIsQuiet
  <2> QED
    BY <1>1, <2>1, RowSteps, NothingWaits DEF RowStep
<1>2. CASE lifecycle = "enabled"
  <2>1. Retire
    BY <1>2 DEF Next, vars, evaluationVars, connectionVars, providerVars,
                roundVars, Admit, Complete, QueueAdjudication,
                StartAdjudication, FinishAdjudication, Verify, Reactivate,
                GatePasses, BackoffPasses, FetchRows, FindRowInvalid, PassRow,
                BeginRow, Deliver, Write, CreateAnswered, ReconcileFound,
                ReconcileAbsent, RequestFails, Crash
  <2> QED
    BY <2>1, NothingWaits DEF Retire
<1> QED
  BY <1>1, <1>2 DEF TypeOK

\* The retirement of the connection wins over deliveries that are under way:
\* afterwards nothing waits, and a completion finds no row that it may change.
THEOREM RetirementWinsCorrect == Spec => RetirementWins
<1>1. Init => RetiredIsQuiet
  BY DEF Init, RetiredIsQuiet
<1>2. TypeOK /\ RetiredIsQuiet /\ [Next]_vars =>
        [lifecycle = "retired" /\ lifecycle' = "retired" =>
           \A h \in Heads :
              /\ row'[h].publication # "waiting"
              /\ row'[h].publication = "succeeded" => row'[h] = row[h]]_vars
  <2> SUFFICES ASSUME TypeOK, RetiredIsQuiet, [Next]_vars,
                      lifecycle = "retired", lifecycle' = "retired",
                      NEW h \in Heads
               PROVE  /\ row'[h].publication # "waiting"
                      /\ row'[h].publication = "succeeded" => row'[h] = row[h]
    OBVIOUS
  <2>1. row[h].publication # "waiting" /\ row'[h].publication # "waiting"
    BY QuietStep DEF RetiredIsQuiet
  <2>2. RetiredRows[h] = row[h]
    BY <2>1 DEF RetiredRows
  <2> QED
    BY <2>1, <2>2, RowSteps DEF RowStep
<1> QED
  BY <1>1, <1>2, QuietStep, InitType, TypeStep, PTL DEF Spec, RetirementWins

-----------------------------------------------------------------------------
\* What began under an older authority neither creates after a reconciliation
\* nor changes a row: both need the row of the delivery to be held, and an
\* older authority does not hold it.
THEOREM OldAuthorityIsFencedCorrect == Spec => OldAuthorityIsFenced
<1> DEFINE Fenced ==
      \A s \in Sources :
         /\ request # NoRequest /\ request.source = s
         /\ verified # attempt[s].authority
         /\ request' # request
         => /\ request.operation = "reconcile" => request'.operation # "create"
            /\ row' = row
<1>1. TypeOK /\ [Next]_vars => Fenced
  <2> SUFFICES ASSUME TypeOK, [Next]_vars, NEW s \in Sources,
                      request # NoRequest, request.source = s,
                      verified # attempt[s].authority, request' # request
               PROVE  /\ request.operation = "reconcile" =>
                           request'.operation # "create"
                      /\ row' = row
    OBVIOUS
  <2>1. \A generation : ~Held(attempt[s], generation, verified)
    BY DEF Held
  <2>2. publisher = "request"
    BY DEF TypeOK
  <2>3. Deliver \/ RequestFails \/ Crash
    BY <2>2 DEF Next, vars, evaluationVars, connectionVars, providerVars,
                roundVars, Admit, Complete, QueueAdjudication,
                StartAdjudication, FinishAdjudication, Verify, Retire,
                Reactivate, GatePasses, BackoffPasses, FetchRows,
                FindRowInvalid, PassRow, BeginRow, Take
  <2>4. CASE Write
    BY <2>4 DEF Write
  <2>5. CASE CreateAnswered \/ ReconcileFound
    BY <2>1, <2>5
       DEF CreateAnswered, ReconcileFound, Succeed, Close, NoRequest
  <2>6. CASE ReconcileAbsent
    BY <2>1, <2>6 DEF ReconcileAbsent, Close, NoRequest
  <2>7. CASE RequestFails
    BY <2>1, <2>7 DEF RequestFails, Fail, Close, NoRequest
  <2>8. CASE Crash
    BY <2>8 DEF Crash, NoRequest
  <2> QED
    BY <2>3, <2>4, <2>5, <2>6, <2>7, <2>8 DEF Deliver
<1> QED
  BY <1>1, InitType, TypeStep, PTL DEF Spec, OldAuthorityIsFenced

\* Together: no request, however late, undoes a change of the connection.
THEOREM ConnectionChangesWinCorrect == Spec => ConnectionChangesWin
  BY RetirementWinsCorrect, OldAuthorityIsFencedCorrect DEF ConnectionChangesWin

-----------------------------------------------------------------------------
\* What a round has copied and not yet delivered, and the delivery whose
\* request is open.
UnderWay ==
    rows \cup IF request = NoRequest THEN {}
              ELSE {[head |-> request.head, source |-> request.source]}

\* An active adjudication is one the Evaluation has had, of a result.
AdjudicationsAreKnown ==
    /\ \A e \in Evaluations : adjudication[e] # "none" => e \in adjudicated
    /\ \A e \in adjudicated : outcome[e] # "absent"

\* The row of a head is that of its latest Evaluation and, unless this was
\* adjudicated, of the state it has.
RowsFollow ==
    \A h \in Heads :
        LET e == row[h].source[1]
        IN  /\ row[h] # NoRow => /\ HeadOf[e] = h /\ outcome[e] # "absent"
                                 /\ e \notin adjudicated => row[h].source[2] = outcome[e]
            /\ \A f \in Evaluations : HeadOf[f] = h /\ outcome[f] # "absent" =>
                    row[h] # NoRow /\ f <= e

\* What is under way was desired once, one delivery for a head.
UnderWayWasDesired ==
    /\ \A r \in UnderWay :
          LET e == r.source[1]
          IN  /\ HeadOf[e] = r.head /\ outcome[e] # "absent"
              /\ e \notin adjudicated => r.source[2] \in {"pending", outcome[e]}
    /\ \A r, q \in UnderWay : r.head = q.head => r = q

\* The state that an Evaluation has yet to reach was never tried.
Unreached(e, state) ==
    \/ outcome[e] = "absent"
    \/ e \notin adjudicated /\ outcome[e] = "pending" /\ state # "pending"
UnreachedIsUntried ==
    \A e \in Evaluations, state \in States : Unreached(e, state) =>
        LET s == <<e, state>>
        IN  attempt[s].verdict = "none" /\ ~attempt[s].external /\ written[s] = 0

\* The row of h, if its Evaluation was not adjudicated, agrees with the record
\* of its delivery: what waits is neither refused nor known, what is unavailable
\* was refused or never begun, what succeeded is written.
Agrees(h) ==
    LET s == row[h].source
    IN  /\ row[h].publication = "waiting" =>
              attempt[s].verdict = "none" /\ ~attempt[s].external
        /\ row[h].publication = "unavailable" =>
              /\ ~attempt[s].external
              /\ attempt[s].verdict = "none" => \A r \in UnderWay : r.source # s
        /\ row[h].publication = "succeeded" => written[s] = 1

\* Once it is written the head shows it, and what is still under way for the
\* head is nothing else.
Shows(h) ==
    LET s == row[h].source
    IN  written[s] # 0 => /\ shown[h] = s
                          /\ \A r \in UnderWay : r.head = h => r.source = s

Current(h) == row[h] # NoRow /\ row[h].source[1] \notin adjudicated

TruthInv ==
    /\ AdjudicationsAreKnown /\ RowsFollow /\ UnderWayWasDesired /\ UnreachedIsUntried
    /\ \A h \in Heads : Current(h) => Agrees(h) /\ Shows(h)

-----------------------------------------------------------------------------
\* A source is an Evaluation and a state.
LEMMA SourcePair ==
    ASSUME NEW s \in Sources
    PROVE  /\ s[1] \in Evaluations /\ s[2] \in States /\ s = <<s[1], s[2]>>
           /\ s[1] \in Nat /\ s[1] # 0 /\ s # NoSource
<1>1. s[1] \in Evaluations /\ s[2] \in States /\ s = <<s[1], s[2]>>
  BY DEF Sources
<1> QED
  BY <1>1, EvaluationsAssumption DEF NoSource

\* A row that exists has a source and says how far its publication has come.
LEMMA RowFields ==
    ASSUME TypeOK, NEW h \in Heads
    PROVE  /\ row[h] # NoRow => /\ row[h].source \in Sources
                                /\ row[h].publication \in Publications
                                /\ row[h] = [source |-> row[h].source,
                                             publication |-> row[h].publication]
           /\ row[h].publication \in Publications => row[h] # NoRow
           /\ row[h].source # NoSource => row[h] # NoRow
           /\ row[h] = NoRow => row[h].source[1] = 0
<1>1. row[h] \in RowType
  BY DEF TypeOK
<1> QED
  BY <1>1 DEF RowType, NoRow, Publications, NoSource

\* What is under way is a delivery.
LEMMA UnderWayType ==
    ASSUME TypeOK, NEW r \in UnderWay
    PROVE  /\ r.head \in Heads /\ r.source \in Sources
           /\ r = [head |-> r.head, source |-> r.source]
<1>1. CASE r \in rows
  BY <1>1 DEF TypeOK, Deliveries
<1>2. CASE request # NoRequest /\ r = [head |-> request.head,
                                       source |-> request.source]
  BY <1>2 DEF TypeOK, RequestType
<1> QED
  BY <1>1, <1>2 DEF UnderWay

\* The open request is under way.
LEMMA RequestUnderWay ==
    ASSUME TypeOK, request.operation \in Operations
    PROVE  [head |-> request.head, source |-> request.source] \in UnderWay
BY RequestFields DEF UnderWay

\* What a row desires, and what is under way, its Evaluation has reached.
LEMMA RowReached ==
    ASSUME TypeOK, TruthInv, NEW h \in Heads, row[h] # NoRow
    PROVE  ~Unreached(row[h].source[1], row[h].source[2])
BY DEF TruthInv, RowsFollow, Unreached

LEMMA UnderWayReached ==
    ASSUME TypeOK, TruthInv, NEW r \in UnderWay
    PROVE  ~Unreached(r.source[1], r.source[2])
BY DEF TruthInv, UnderWayWasDesired, Unreached

\* The rows keep their sources.
SameSources ==
    \A h \in Heads : /\ row'[h].source = row[h].source
                     /\ row'[h] = NoRow <=> row[h] = NoRow

\* A step that leaves the Evaluations alone and puts nothing new under way has
\* only the deliveries of the current rows to answer for, and to spare those
\* that no Evaluation has reached.
LEMMA TruthKept ==
    ASSUME TypeOK, TruthInv,
           UNCHANGED <<outcome, adjudication, adjudicated>>,
           SameSources, UnderWay' \subseteq UnderWay,
           \A e \in Evaluations, state \in States : Unreached(e, state) =>
               LET s == <<e, state>>
               IN  /\ attempt'[s].verdict = attempt[s].verdict
                   /\ attempt'[s].external = attempt[s].external
                   /\ written'[s] = written[s],
           \A h \in Heads : Current(h) => Agrees(h)' /\ Shows(h)'
    PROVE  TruthInv'
<1>1. AdjudicationsAreKnown'
  BY DEF TruthInv, AdjudicationsAreKnown
<1>2. RowsFollow'
  BY DEF TruthInv, RowsFollow, SameSources
<1>3. UnderWayWasDesired'
  BY DEF TruthInv, UnderWayWasDesired
<1>4. UnreachedIsUntried'
  BY DEF TruthInv, UnreachedIsUntried, Unreached
<1>5. \A h \in Heads : Current(h)' => Current(h)
  BY DEF Current, SameSources
<1> QED
  BY <1>1, <1>2, <1>3, <1>4, <1>5 DEF TruthInv

\* The agreement of a row rests on its source, its publication and the records
\* of the delivery.
LEMMA AgreementKept ==
    ASSUME TypeOK, NEW h \in Heads, Agrees(h), Shows(h),
           row'[h] = row[h], UnderWay' \subseteq UnderWay,
           LET s == row[h].source
           IN  /\ attempt'[s].verdict = attempt[s].verdict
               /\ attempt'[s].external = attempt[s].external
               /\ written'[s] = written[s],
           shown'[h] = shown[h]
    PROVE  Agrees(h)' /\ Shows(h)'
<1>1. Agrees(h)'
  BY DEF Agrees
<1>2. Shows(h)'
  BY DEF Shows
<1> QED
  BY <1>1, <1>2

\* A step that leaves the rows and what was written alone, and of the
\* deliveries both what they were refused and what they know.
LEMMA TruthUndisturbed ==
    ASSUME TypeOK, TruthInv,
           UNCHANGED <<outcome, adjudication, adjudicated, row, written, shown>>,
           UnderWay' \subseteq UnderWay,
           \A s \in Sources : /\ attempt'[s].verdict = attempt[s].verdict
                              /\ attempt'[s].external = attempt[s].external
    PROVE  TruthInv'
<1>1. SameSources
  BY DEF SameSources
<1>2. \A e \in Evaluations, state \in States : <<e, state>> \in Sources
  BY DEF Sources
<1>3. ASSUME NEW h \in Heads, Current(h) PROVE Agrees(h)' /\ Shows(h)'
  <2>1. row[h].source \in Sources
    BY <1>3, RowFields DEF Current
  <2>2. Agrees(h) /\ Shows(h)
    BY <1>3 DEF TruthInv
  <2> QED
    BY <2>1, <2>2, AgreementKept
<1> QED
  BY <1>1, <1>2, <1>3, TruthKept

-----------------------------------------------------------------------------
LEMMA InitTruth == Init => TruthInv
<1> SUFFICES ASSUME Init PROVE TruthInv
  OBVIOUS
<1>1. AdjudicationsAreKnown /\ RowsFollow
  BY DEF Init, AdjudicationsAreKnown, RowsFollow
<1>2. UnderWay = {}
  BY DEF Init, UnderWay
<1>3. UnderWayWasDesired
  BY <1>2 DEF UnderWayWasDesired
<1>4. UnreachedIsUntried
  BY DEF Init, UnreachedIsUntried, Sources, FreshAttempt
<1>5. \A h \in Heads : ~Current(h)
  BY DEF Init, Current
<1> QED
  BY <1>1, <1>3, <1>4, <1>5 DEF TruthInv

-----------------------------------------------------------------------------
(* Evaluations and adjudications *)

\* An Evaluation is admitted to a state that was never tried.
LEMMA AdmitTruth ==
    ASSUME TypeOK, TruthInv, NEW e \in Evaluations, Admit(e)
    PROVE  TruthInv'
<1> DEFINE g == HeadOf[e]
<1>1. /\ outcome[e] = "absent" /\ outcome' = [outcome EXCEPT ![e] = "pending"]
      /\ row' = IF e > row[g].source[1]
                THEN [row EXCEPT ![g] = [source |-> <<e, "pending">>,
                                         publication |-> "waiting"]]
                ELSE row
      /\ UNCHANGED <<adjudication, adjudicated, attempt, written, shown, rows,
                     request>>
  BY DEF Admit, Controls, providerVars, roundVars
<1>2. UnderWay' = UnderWay
  BY <1>1 DEF UnderWay
<1>3. /\ g \in Heads /\ outcome'[e] = "pending"
      /\ \A f \in Evaluations : f # e => outcome'[f] = outcome[f]
      /\ <<e, "pending">> \in Sources
  BY <1>1, HeadOfAssumption DEF TypeOK, Sources, States
<1>4. \A h \in Heads : row[h] # NoRow => row[h].source[1] \in Evaluations \ {e}
  BY <1>1, RowFields, SourcePair DEF TruthInv, RowsFollow
<1>5. AdjudicationsAreKnown'
  BY <1>1, <1>3 DEF TruthInv, AdjudicationsAreKnown, TypeOK
<1>6. RowsFollow'
  <2>1. SUFFICES ASSUME NEW h \in Heads
                 PROVE  LET f == row'[h].source[1]
                        IN  /\ row'[h] # NoRow =>
                                 /\ HeadOf[f] = h /\ outcome'[f] # "absent"
                                 /\ f \notin adjudicated' =>
                                        row'[h].source[2] = outcome'[f]
                            /\ \A q \in Evaluations :
                                 HeadOf[q] = h /\ outcome'[q] # "absent" =>
                                    row'[h] # NoRow /\ q <= f
    BY DEF RowsFollow
  <2>2. /\ row[h] # NoRow => /\ HeadOf[row[h].source[1]] = h
                             /\ outcome[row[h].source[1]] # "absent"
                             /\ row[h].source[1] \notin adjudicated =>
                                  row[h].source[2] = outcome[row[h].source[1]]
        /\ \A q \in Evaluations : HeadOf[q] = h /\ outcome[q] # "absent" =>
              row[h] # NoRow /\ q <= row[h].source[1]
    BY DEF TruthInv, RowsFollow
  <2>3. e \in Nat /\ e # 0 /\ Evaluations \subseteq Nat
    BY EvaluationsAssumption
  <2>4. CASE h = g /\ e > row[g].source[1]
    <3>1. row'[h] = [source |-> <<e, "pending">>, publication |-> "waiting"]
      BY <1>1, <1>3, <2>4 DEF TypeOK
    <3>2. row'[h].source[1] = e /\ row'[h].source[2] = "pending"
          /\ row'[h] # NoRow
      BY <3>1 DEF NoRow
    <3>3. ASSUME NEW q \in Evaluations, HeadOf[q] = h, outcome'[q] # "absent"
          PROVE  q <= e
      <4>1. CASE q = e
        BY <4>1, <2>3
      <4>2. CASE q # e
        <5>1. row[h] # NoRow /\ q <= row[h].source[1]
          BY <1>3, <2>2, <3>3, <4>2
        <5>2. row[h].source[1] \in Nat /\ q \in Nat
          BY <1>4, <2>3, <5>1
        <5> QED
          BY <2>3, <2>4, <5>1, <5>2
      <4> QED
        BY <4>1, <4>2
    <3>4. HeadOf[e] = h /\ outcome'[e] = "pending"
      BY <1>3, <2>4
    <3> QED
      BY <3>2, <3>3, <3>4
  <2>5. CASE ~(h = g /\ e > row[g].source[1])
    <3>1. row'[h] = row[h]
      BY <1>1, <2>5 DEF TypeOK
    <3>2. ASSUME NEW q \in Evaluations, HeadOf[q] = h, outcome'[q] # "absent"
          PROVE  row[h] # NoRow /\ q <= row[h].source[1]
      <4>1. CASE q = e
        <5>1. ~(e > row[h].source[1]) /\ h = g
          BY <2>5, <3>2, <4>1
        <5>2. row[h] = NoRow => row[h].source[1] = 0
          BY RowFields
        <5>3. e > 0
          BY <2>3
        <5>4. row[h] # NoRow
          BY <5>1, <5>2, <5>3
        <5>5. row[h].source[1] \in Nat
          BY <1>4, <2>3, <5>4
        <5> HIDE DEF g
        <5> QED
          BY <2>3, <4>1, <5>1, <5>4, <5>5
      <4>2. CASE q # e
        BY <1>3, <2>2, <3>2, <4>2
      <4> QED
        BY <4>1, <4>2
    <3> QED
      BY <1>1, <1>3, <1>4, <2>2, <3>1, <3>2
  <2> QED
    BY <2>4, <2>5
<1>7. UnderWayWasDesired'
  <2>1. \A r \in UnderWay : r.source[1] # e /\ r.source[1] \in Evaluations
    BY <1>1, UnderWayType, SourcePair DEF TruthInv, UnderWayWasDesired
  <2> QED
    BY <1>1, <1>2, <1>3, <2>1 DEF TruthInv, UnderWayWasDesired
<1>8. UnreachedIsUntried'
  BY <1>1, <1>3 DEF TruthInv, UnreachedIsUntried, Unreached
<1>9. ASSUME NEW h \in Heads, Current(h)' PROVE Agrees(h)' /\ Shows(h)'
  <2>1. CASE row'[h] = row[h]
    <3>1. Agrees(h) /\ Shows(h)
      BY <1>1, <1>9, <2>1 DEF TruthInv, Current
    <3> QED
      BY <1>1, <1>2, <2>1, <3>1, AgreementKept
  <2>2. CASE row'[h] = [source |-> <<e, "pending">>, publication |-> "waiting"]
    <3>1. /\ attempt[<<e, "pending">>].verdict = "none"
          /\ ~attempt[<<e, "pending">>].external
          /\ written[<<e, "pending">>] = 0
      BY <1>1 DEF TruthInv, UnreachedIsUntried, Unreached, States
    <3> QED
      BY <1>1, <2>2, <3>1 DEF Agrees, Shows
  <2> QED
    BY <1>1, <2>1, <2>2 DEF TypeOK
<1> QED
  BY <1>5, <1>6, <1>7, <1>8, <1>9 DEF TruthInv

\* What an Evaluation desires replaces the row that is its own.
LEMMA DesiredRow ==
    ASSUME TypeOK, NEW e \in Evaluations, NEW state \in States,
           Desire(e, state), NEW h \in Heads
    PROVE  \/ row'[h] = row[h] /\ (h = HeadOf[e] => row[h].source[1] # e)
           \/ /\ h = HeadOf[e] /\ row[h].source[1] = e /\ row[h] # NoRow
              /\ row'[h].source = <<e, state>> /\ row'[h] # NoRow
              /\ row'[h].publication \in {"waiting", "unavailable"}
<1>1. CASE h = HeadOf[e] /\ row[h].source[1] = e
  <2>1. row[h] # NoRow
    BY <1>1, EvaluationsAssumption DEF NoRow, NoSource
  <2>2. row'[h] = [source |-> <<e, state>>,
                   publication |-> IF lifecycle = "retired" THEN "unavailable"
                                                            ELSE "waiting"]
    BY <1>1 DEF Desire, TypeOK
  <2> QED
    BY <1>1, <2>1, <2>2 DEF NoRow
<1>2. CASE ~(h = HeadOf[e] /\ row[h].source[1] = e)
  BY <1>2 DEF Desire, TypeOK
<1> QED
  BY <1>1, <1>2

\* A result takes the row of its Evaluation to a state that was never tried.
LEMMA CompleteTruth ==
    ASSUME TypeOK, TruthInv, NEW e \in Evaluations, Complete(e)
    PROVE  TruthInv'
<1>1. PICK state \in Results : /\ outcome' = [outcome EXCEPT ![e] = state]
                               /\ Desire(e, state)
  BY DEF Complete
<1>2. /\ outcome[e] = "pending"
      /\ UNCHANGED <<adjudication, adjudicated, attempt, written, shown, rows,
                     request>>
  BY DEF Complete, providerVars, roundVars
<1>3. UnderWay' = UnderWay
  BY <1>2 DEF UnderWay
<1>4. /\ outcome'[e] = state
      /\ \A f \in Evaluations : f # e => outcome'[f] = outcome[f]
      /\ state \in States /\ state # "pending" /\ state # "absent"
      /\ <<e, state>> \in Sources
  BY <1>1, ResultsAssumption DEF TypeOK, Sources, States
<1>5. AdjudicationsAreKnown'
  BY <1>2, <1>4 DEF TruthInv, AdjudicationsAreKnown, TypeOK
<1>6. \A h \in Heads : row[h] # NoRow => row[h].source[1] \in Evaluations
  BY RowFields, SourcePair
<1>7. RowsFollow'
  <2>1. SUFFICES ASSUME NEW h \in Heads
                 PROVE  LET f == row'[h].source[1]
                        IN  /\ row'[h] # NoRow =>
                                 /\ HeadOf[f] = h /\ outcome'[f] # "absent"
                                 /\ f \notin adjudicated' =>
                                        row'[h].source[2] = outcome'[f]
                            /\ \A q \in Evaluations :
                                 HeadOf[q] = h /\ outcome'[q] # "absent" =>
                                    row'[h] # NoRow /\ q <= f
    BY DEF RowsFollow
  <2>2. /\ row[h] # NoRow => /\ HeadOf[row[h].source[1]] = h
                             /\ outcome[row[h].source[1]] # "absent"
                             /\ row[h].source[1] \notin adjudicated =>
                                  row[h].source[2] = outcome[row[h].source[1]]
        /\ \A q \in Evaluations : HeadOf[q] = h /\ outcome[q] # "absent" =>
              row[h] # NoRow /\ q <= row[h].source[1]
    BY DEF TruthInv, RowsFollow
  <2>3. \A q \in Evaluations : outcome'[q] # "absent" => outcome[q] # "absent"
    BY <1>2, <1>4
  <2>4. CASE row'[h] = row[h] /\ (h = HeadOf[e] => row[h].source[1] # e)
    BY <1>2, <1>4, <1>6, <2>2, <2>3, <2>4
  <2>5. CASE /\ h = HeadOf[e] /\ row[h].source[1] = e /\ row[h] # NoRow
             /\ row'[h].source = <<e, state>> /\ row'[h] # NoRow
    BY <1>4, <2>2, <2>3, <2>5
  <2> QED
    BY <1>1, <1>4, <2>4, <2>5, DesiredRow
<1>8. UnderWayWasDesired'
  <2>1. \A r \in UnderWay : r.source[1] \in Evaluations
    BY UnderWayType, SourcePair
  <2> QED
    BY <1>2, <1>3, <1>4, <2>1 DEF TruthInv, UnderWayWasDesired
<1>9. UnreachedIsUntried'
  BY <1>2, <1>4 DEF TruthInv, UnreachedIsUntried, Unreached
<1>10. ASSUME NEW h \in Heads, Current(h)' PROVE Agrees(h)' /\ Shows(h)'
  <2>1. CASE row'[h] = row[h]
    <3>1. Agrees(h) /\ Shows(h)
      BY <1>2, <1>10, <2>1 DEF TruthInv, Current
    <3> QED
      BY <1>2, <1>3, <2>1, <3>1, AgreementKept
  <2>2. CASE /\ row'[h].source = <<e, state>>
             /\ row'[h].publication \in {"waiting", "unavailable"}
    <3>1. e \notin adjudicated
      BY <1>2, <1>10, <2>2 DEF Current
    <3>2. /\ attempt[<<e, state>>].verdict = "none"
          /\ ~attempt[<<e, state>>].external
          /\ written[<<e, state>>] = 0
      BY <1>2, <1>4, <3>1 DEF TruthInv, UnreachedIsUntried, Unreached
    <3>3. \A r \in UnderWay : r.source # <<e, state>>
      BY <1>2, <1>4, <3>1 DEF TruthInv, UnderWayWasDesired
    <3> QED
      BY <1>2, <1>3, <2>2, <3>2, <3>3 DEF Agrees, Shows
  <2> QED
    BY <1>1, <1>4, <2>1, <2>2, DesiredRow
<1> QED
  BY <1>5, <1>7, <1>8, <1>9, <1>10 DEF TruthInv

\* An adjudicated Evaluation answers for nothing from then on.
LEMMA QueueAdjudicationTruth ==
    ASSUME TypeOK, TruthInv, NEW e \in Evaluations, QueueAdjudication(e)
    PROVE  TruthInv'
<1>1. /\ outcome[e] \in Results
      /\ adjudication' = [adjudication EXCEPT ![e] = "queued"]
      /\ adjudicated' = adjudicated \cup {e}
      /\ UNCHANGED <<outcome, row, attempt, written, shown, rows, request>>
  BY DEF QueueAdjudication, providerVars, roundVars
<1>2. UnderWay' = UnderWay
  BY <1>1 DEF UnderWay
<1>3. AdjudicationsAreKnown'
  BY <1>1, ResultsAssumption DEF TruthInv, AdjudicationsAreKnown, TypeOK
<1>4. RowsFollow'
  BY <1>1 DEF TruthInv, RowsFollow
<1>5. UnderWayWasDesired'
  BY <1>1, <1>2 DEF TruthInv, UnderWayWasDesired
<1>6. UnreachedIsUntried'
  BY <1>1 DEF TruthInv, UnreachedIsUntried, Unreached
<1>7. ASSUME NEW h \in Heads, Current(h)' PROVE Agrees(h)' /\ Shows(h)'
  <2>1. Agrees(h) /\ Shows(h)
    BY <1>1, <1>7 DEF TruthInv, Current
  <2> QED
    BY <1>1, <1>2, <2>1, AgreementKept
<1> QED
  BY <1>3, <1>4, <1>5, <1>6, <1>7 DEF TruthInv

\* A running adjudication changes the row and the outcome of what was
\* adjudicated, and of nothing else.
LEMMA AdjudicationTruth ==
    ASSUME TypeOK, TruthInv, NEW e \in Evaluations,
           StartAdjudication(e) \/ FinishAdjudication(e)
    PROVE  TruthInv'
<1>1. /\ adjudication[e] # "none"
      /\ adjudication' \in {[adjudication EXCEPT ![e] = "running"],
                            [adjudication EXCEPT ![e] = "none"]}
      /\ UNCHANGED <<adjudicated, attempt, written, shown, rows, request>>
  BY DEF StartAdjudication, FinishAdjudication, providerVars, roundVars
<1>2. e \in adjudicated /\ outcome[e] # "absent"
  BY <1>1 DEF TruthInv, AdjudicationsAreKnown
<1>3. PICK state \in States :
         /\ Desire(e, state)
         /\ outcome' = outcome \/ outcome' = [outcome EXCEPT ![e] = state]
  BY DEF StartAdjudication, FinishAdjudication, States
<1>4. /\ outcome'[e] # "absent"
      /\ \A f \in Evaluations : f # e => outcome'[f] = outcome[f]
  BY <1>2, <1>3, ResultsAssumption DEF TypeOK, States
<1>5. UnderWay' = UnderWay
  BY <1>1 DEF UnderWay
<1>6. AdjudicationsAreKnown'
  BY <1>1, <1>2, <1>4 DEF TruthInv, AdjudicationsAreKnown, TypeOK
<1>7. \A h \in Heads : row[h] # NoRow => row[h].source[1] \in Evaluations
  BY RowFields, SourcePair
<1>8. RowsFollow'
  <2>1. SUFFICES ASSUME NEW h \in Heads
                 PROVE  LET f == row'[h].source[1]
                        IN  /\ row'[h] # NoRow =>
                                 /\ HeadOf[f] = h /\ outcome'[f] # "absent"
                                 /\ f \notin adjudicated' =>
                                        row'[h].source[2] = outcome'[f]
                            /\ \A q \in Evaluations :
                                 HeadOf[q] = h /\ outcome'[q] # "absent" =>
                                    row'[h] # NoRow /\ q <= f
    BY DEF RowsFollow
  <2>2. /\ row[h] # NoRow => /\ HeadOf[row[h].source[1]] = h
                             /\ outcome[row[h].source[1]] # "absent"
                             /\ row[h].source[1] \notin adjudicated =>
                                  row[h].source[2] = outcome[row[h].source[1]]
        /\ \A q \in Evaluations : HeadOf[q] = h /\ outcome[q] # "absent" =>
              row[h] # NoRow /\ q <= row[h].source[1]
    BY DEF TruthInv, RowsFollow
  <2>3. \A q \in Evaluations : outcome'[q] # "absent" => outcome[q] # "absent"
    BY <1>2, <1>4
  <2>4. CASE row'[h] = row[h]
    BY <1>1, <1>2, <1>4, <1>7, <2>2, <2>3, <2>4
  <2>5. CASE /\ h = HeadOf[e] /\ row[h].source[1] = e /\ row[h] # NoRow
             /\ row'[h].source = <<e, state>> /\ row'[h] # NoRow
    BY <1>1, <1>2, <1>4, <2>2, <2>3, <2>5
  <2> QED
    BY <1>3, <2>4, <2>5, DesiredRow
<1>9. UnderWayWasDesired'
  <2>1. \A r \in UnderWay : r.source[1] \in Evaluations
    BY UnderWayType, SourcePair
  <2> QED
    BY <1>1, <1>2, <1>4, <1>5, <2>1 DEF TruthInv, UnderWayWasDesired
<1>10. UnreachedIsUntried'
  BY <1>1, <1>2, <1>4 DEF TruthInv, UnreachedIsUntried, Unreached
<1>11. ASSUME NEW h \in Heads, Current(h)' PROVE Agrees(h)' /\ Shows(h)'
  <2>1. row'[h] = row[h]
    BY <1>1, <1>2, <1>3, <1>11, DesiredRow DEF Current
  <2>2. Agrees(h) /\ Shows(h)
    BY <1>1, <1>11, <2>1 DEF TruthInv, Current
  <2> QED
    BY <1>1, <1>5, <2>1, <2>2, AgreementKept
<1> QED
  BY <1>6, <1>8, <1>9, <1>10, <1>11 DEF TruthInv

-----------------------------------------------------------------------------
(* The connection *)

\* A recovery takes up what was refused: its row waits again.
LEMMA ResumeTruth ==
    ASSUME TypeOK, TruthInv, Resume,
           UNCHANGED <<outcome, adjudication, adjudicated, written, shown,
                       rows, request>>
    PROVE  TruthInv'
<1>1. \A s \in Sources :
         /\ attempt'[s].external = attempt[s].external
         /\ s \notin Resumable => attempt'[s] = attempt[s]
         /\ s \in Resumable => attempt'[s].verdict = "none"
  <2>1. SUFFICES ASSUME NEW s \in Sources
                 PROVE  /\ attempt'[s].external = attempt[s].external
                        /\ s \notin Resumable => attempt'[s] = attempt[s]
                        /\ s \in Resumable => attempt'[s].verdict = "none"
    OBVIOUS
  <2>2. attempt[s] \in AttemptType
    BY DEF TypeOK
  <2> QED
    BY <2>2 DEF Resume, Resumed, AttemptType
<1>2. \A s \in Resumable : attempt[s].verdict = "recoverable"
  BY DEF Resumable
<1>3. ASSUME NEW h \in Heads
      PROVE  \/ row'[h] = row[h] /\ ~(/\ row[h].publication = "unavailable"
                                      /\ row[h].source \in Resumable)
             \/ /\ row[h].publication = "unavailable" /\ row[h] # NoRow
                /\ row[h].source \in Resumable /\ row'[h] # NoRow
                /\ row'[h].source = row[h].source
                /\ row'[h].publication = "waiting"
  <2>1. CASE row[h].publication = "unavailable" /\ row[h].source \in Resumable
    <3>1. row[h] # NoRow /\ row[h] \in RowType
      BY <2>1 DEF NoRow, TypeOK
    <3>2. row'[h] = [row[h] EXCEPT !.publication = "waiting"]
      BY <2>1 DEF Resume
    <3> QED
      BY <2>1, <3>1, <3>2 DEF RowType, NoRow
  <2>2. CASE ~(/\ row[h].publication = "unavailable"
               /\ row[h].source \in Resumable)
    BY <2>2 DEF Resume
  <2> QED
    BY <2>1, <2>2
<1>4. SameSources
  BY <1>3 DEF SameSources
<1>5. UnderWay' = UnderWay
  BY DEF UnderWay
<1>6. \A e \in Evaluations, state \in States : Unreached(e, state) =>
         LET s == <<e, state>>
         IN  /\ attempt'[s].verdict = attempt[s].verdict
             /\ attempt'[s].external = attempt[s].external
             /\ written'[s] = written[s]
  BY <1>1, <1>2 DEF TruthInv, UnreachedIsUntried, Sources
<1>7. ASSUME NEW h \in Heads, Current(h) PROVE Agrees(h)' /\ Shows(h)'
  <2>1. /\ Agrees(h) /\ Shows(h) /\ row[h].source \in Sources
        /\ row[h].publication \in Publications
    BY <1>7, RowFields DEF TruthInv, Current
  <2>2. Shows(h)'
    BY <1>4, <1>5, <2>1 DEF Shows, SameSources
  <2> DEFINE s == row[h].source
  <2>5. /\ attempt'[s].external = attempt[s].external
        /\ s \notin Resumable => attempt'[s] = attempt[s]
        /\ s \in Resumable => /\ attempt'[s].verdict = "none"
                             /\ attempt[s].verdict = "recoverable"
    BY <1>1, <1>2, <2>1
  <2>3. CASE row'[h] = row[h] /\ ~(/\ row[h].publication = "unavailable"
                                   /\ row[h].source \in Resumable)
    <3>1. row[h].publication # "succeeded" => attempt'[s] = attempt[s]
      BY <2>1, <2>3, <2>5 DEF Agrees, Publications
    <3> QED
      BY <1>5, <2>1, <2>2, <2>3, <3>1 DEF Agrees
  <2>4. CASE /\ row[h].publication = "unavailable"
             /\ row[h].source \in Resumable
             /\ row'[h].source = row[h].source
             /\ row'[h].publication = "waiting"
    <3>1. attempt'[s].verdict = "none" /\ ~attempt'[s].external
      BY <2>1, <2>4, <2>5 DEF Agrees
    <3> QED
      BY <2>2, <2>4, <3>1 DEF Agrees
  <2> QED
    BY <1>3, <2>3, <2>4
<1> QED
  BY <1>4, <1>5, <1>6, <1>7, TruthKept

\* The retirement refuses what waits.
LEMMA RetireTruth ==
    ASSUME TypeOK, TruthInv, Retire
    PROVE  TruthInv'
<1> DEFINE Refused(s) == \E h \in Heads :
             RetiredRows[h] = [source |-> s, publication |-> "unavailable"]
<1>1. /\ row' = RetiredRows
      /\ attempt' = [s \in Sources |-> IF Refused(s)
                                       THEN RetiredAttempt(attempt[s])
                                       ELSE attempt[s]]
      /\ UNCHANGED <<outcome, adjudication, adjudicated, written, shown, rows,
                     request>>
  BY DEF Retire, evaluationVars, providerVars, roundVars
<1>2. \A s \in Sources :
         /\ attempt'[s].external = attempt[s].external
         /\ ~Refused(s) => attempt'[s] = attempt[s]
         /\ Refused(s) => attempt'[s].verdict = "recoverable"
  <2>1. SUFFICES ASSUME NEW s \in Sources
                 PROVE  /\ attempt'[s].external = attempt[s].external
                        /\ ~Refused(s) => attempt'[s] = attempt[s]
                        /\ Refused(s) => attempt'[s].verdict = "recoverable"
    OBVIOUS
  <2>2. attempt[s] \in AttemptType
    BY DEF TypeOK
  <2> HIDE DEF Refused
  <2> QED
    BY <1>1, <2>2 DEF RetiredAttempt, AttemptType
<1>3. ASSUME NEW h \in Heads
      PROVE  /\ row'[h].source = row[h].source
             /\ row'[h] = NoRow <=> row[h] = NoRow
             /\ row'[h].publication # "waiting"
             /\ row'[h].publication = "succeeded" =>
                  row[h].publication = "succeeded"
             /\ row'[h].publication = "unavailable" =>
                  /\ row[h].publication \in {"waiting", "unavailable"}
                  /\ Refused(row[h].source)
  <2>1. row[h] \in RowType
    BY DEF TypeOK
  <2>2. CASE row[h].publication = "waiting"
    <3>1. row'[h] = [row[h] EXCEPT !.publication = "unavailable"]
      BY <1>1, <2>2 DEF RetiredRows
    <3>2. row'[h] = [source |-> row[h].source, publication |-> "unavailable"]
      BY <2>1, <2>2, <3>1 DEF RowType, NoRow
    <3> QED
      BY <1>1, <2>2, <3>2 DEF NoRow
  <2>3. CASE row[h].publication # "waiting"
    <3>1. row'[h] = row[h]
      BY <1>1, <2>3 DEF RetiredRows
    <3>2. row[h].publication = "unavailable" =>
             row[h] = [source |-> row[h].source, publication |-> "unavailable"]
      BY <2>1 DEF RowType, NoRow
    <3> QED
      BY <1>1, <2>3, <3>1, <3>2
  <2> QED
    BY <2>2, <2>3
<1>4. SameSources
  BY <1>3 DEF SameSources
<1>5. UnderWay' = UnderWay
  BY <1>1 DEF UnderWay
<1>6. \A s \in Sources : Refused(s) => ~Unreached(s[1], s[2])
  <2>1. SUFFICES ASSUME NEW s \in Sources, NEW h \in Heads,
                        RetiredRows[h] = [source |-> s,
                                          publication |-> "unavailable"]
                 PROVE  ~Unreached(s[1], s[2])
    OBVIOUS
  <2>2. row[h].source = s
    <3>1. row'[h].source = s
      BY <1>1, <2>1
    <3>2. row'[h].source = row[h].source
      BY <1>3
    <3> QED
      BY <3>1, <3>2
  <2>3. row[h] # NoRow
    BY <2>2, RowFields, SourcePair
  <2> QED
    BY <2>2, <2>3, RowReached
<1> HIDE DEF Refused
<1>7. \A e \in Evaluations, state \in States : Unreached(e, state) =>
         LET s == <<e, state>>
         IN  /\ attempt'[s].verdict = attempt[s].verdict
             /\ attempt'[s].external = attempt[s].external
             /\ written'[s] = written[s]
  <2>1. SUFFICES ASSUME NEW e \in Evaluations, NEW state \in States,
                        Unreached(e, state)
                 PROVE  attempt'[<<e, state>>] = attempt[<<e, state>>]
    BY <1>1
  <2>2. <<e, state>> \in Sources /\ ~Refused(<<e, state>>)
    BY <1>6, <2>1 DEF Sources
  <2> QED
    BY <1>2, <2>2
<1>8. ASSUME NEW h \in Heads, Current(h) PROVE Agrees(h)' /\ Shows(h)'
  <2>1. Agrees(h) /\ Shows(h) /\ row[h].source \in Sources
    BY <1>8, RowFields DEF TruthInv, Current
  <2>2. Shows(h)'
    BY <1>1, <1>3, <1>5, <2>1 DEF Shows
  <2>3. Agrees(h)'
    BY <1>1, <1>2, <1>3, <2>1 DEF Agrees
  <2> QED
    BY <2>2, <2>3
<1> QED
  BY <1>1, <1>4, <1>5, <1>7, <1>8, TruthKept

\* The connection and the passing of time keep the rows true.
LEMMA ConnectionTruth ==
    ASSUME TypeOK, TruthInv,
           \/ Verify \/ Retire \/ Reactivate \/ GatePasses
           \/ \E s \in Sources : BackoffPasses(s)
    PROVE  TruthInv'
<1> USE DEF evaluationVars, connectionVars, providerVars, roundVars
<1>1. CASE Verify \/ Reactivate
  <2>1. /\ Resume \/ UNCHANGED <<row, attempt>>
        /\ UNCHANGED <<outcome, adjudication, adjudicated, written, shown,
                       rows, request>>
    BY <1>1 DEF Verify, Reactivate
  <2>2. UnderWay' = UnderWay
    BY <2>1 DEF UnderWay
  <2> QED
    BY <2>1, <2>2, ResumeTruth, TruthUndisturbed
<1>2. CASE Retire
  BY <1>2, RetireTruth
<1>3. CASE GatePasses
  <2>1. UnderWay' = UnderWay
    BY <1>3 DEF GatePasses, UnderWay
  <2> QED
    BY <1>3, <2>1, TruthUndisturbed DEF GatePasses
<1>4. ASSUME NEW q \in Sources, BackoffPasses(q) PROVE TruthInv'
  <2>1. UnderWay' = UnderWay
    BY <1>4 DEF BackoffPasses, UnderWay
  <2>2. ASSUME NEW s \in Sources
        PROVE  /\ attempt'[s].verdict = attempt[s].verdict
               /\ attempt'[s].external = attempt[s].external
    <3>1. attempt[s] \in AttemptType
      BY DEF TypeOK
    <3>2. \/ attempt'[s] = attempt[s]
          \/ attempt'[s] = [attempt[s] EXCEPT !.due = TRUE]
      BY <1>4 DEF BackoffPasses, TypeOK
    <3> QED
      BY <3>1, <3>2 DEF AttemptType
  <2> QED
    BY <1>4, <2>1, <2>2, TruthUndisturbed DEF BackoffPasses
<1> QED
  BY <1>1, <1>2, <1>3, <1>4

-----------------------------------------------------------------------------
(* A round *)

\* What a round copies is what the rows desire.
LEMMA FetchTruth ==
    ASSUME TypeOK, TruthInv, FetchRows
    PROVE  TruthInv'
<1>1. /\ request = NoRequest /\ rows' \subseteq WaitingRows
      /\ UNCHANGED <<outcome, adjudication, adjudicated, row, attempt, written,
                     shown, request>>
  BY DEF FetchRows, TypeOK, evaluationVars, providerVars
<1>2. UnderWay' = rows'
  BY <1>1 DEF UnderWay
<1>3. ASSUME NEW r \in UnderWay'
      PROVE  /\ r.head \in Heads /\ row[r.head] # NoRow
             /\ row[r.head].publication = "waiting"
             /\ r = [head |-> r.head, source |-> row[r.head].source]
             /\ HeadOf[r.source[1]] = r.head
  <2>1. PICK h \in Heads : /\ row[h].publication = "waiting"
                           /\ r = [head |-> h, source |-> row[h].source]
    BY <1>1, <1>2 DEF WaitingRows
  <2>2. row[h] # NoRow
    BY <2>1, RowFields DEF Publications
  <2> QED
    BY <2>1, <2>2 DEF TruthInv, RowsFollow
<1>4. AdjudicationsAreKnown'
  BY <1>1 DEF TruthInv, AdjudicationsAreKnown
<1>5. RowsFollow'
  BY <1>1 DEF TruthInv, RowsFollow
<1>6. UnderWayWasDesired'
  <2>1. ASSUME NEW r \in UnderWay'
        PROVE  LET e == r.source[1]
               IN  /\ HeadOf[e] = r.head /\ outcome'[e] # "absent"
                   /\ e \notin adjudicated' =>
                         r.source[2] \in {"pending", outcome'[e]}
    <3>1. row[r.head].source = r.source
      BY <1>3
    <3> QED
      BY <1>1, <1>3, <3>1 DEF TruthInv, RowsFollow
  <2>2. ASSUME NEW r \in UnderWay', NEW q \in UnderWay', r.head = q.head
        PROVE  r = q
    <3>1. /\ r = [head |-> r.head, source |-> row[r.head].source]
          /\ q = [head |-> q.head, source |-> row[q.head].source]
      BY <1>3
    <3> QED
      BY <2>2, <3>1
  <2> QED
    BY <2>1, <2>2 DEF UnderWayWasDesired
<1>7. UnreachedIsUntried'
  BY <1>1 DEF TruthInv, UnreachedIsUntried, Unreached
<1>8. ASSUME NEW h \in Heads, Current(h)' PROVE Agrees(h)' /\ Shows(h)'
  <2>1. Agrees(h) /\ Shows(h) /\ row[h] # NoRow
    BY <1>1, <1>8 DEF TruthInv, Current
  <2>2. \A r \in UnderWay' : r.source = row[h].source =>
            row[h].publication = "waiting"
    <3>1. SUFFICES ASSUME NEW r \in UnderWay', r.source = row[h].source
                   PROVE  row[h].publication = "waiting"
      OBVIOUS
    <3>2. HeadOf[r.source[1]] = h
      BY <2>1, <3>1 DEF TruthInv, RowsFollow
    <3>3. r.head = h /\ row[r.head].publication = "waiting"
      BY <1>3, <3>2
    <3> QED
      BY <3>3
  <2>3. \A r \in UnderWay' : r.head = h => r.source = row[h].source
    <3>1. SUFFICES ASSUME NEW r \in UnderWay', r.head = h
                   PROVE  r.source = row[h].source
      OBVIOUS
    <3>2. r = [head |-> r.head, source |-> row[r.head].source]
      BY <1>3
    <3>3. r.source = row[r.head].source
      BY <3>2
    <3> QED
      BY <3>1, <3>3
  <2>4. Agrees(h)'
    BY <1>1, <2>1, <2>2 DEF Agrees
  <2>5. Shows(h)'
    BY <1>1, <2>1, <2>3 DEF Shows
  <2> QED
    BY <2>4, <2>5
<1> QED
  BY <1>4, <1>5, <1>6, <1>7, <1>8 DEF TruthInv

\* A delivery that begins has not been refused and knows nothing yet.
LEMMA BegunFields ==
    ASSUME NEW d \in AttemptType, NEW v, NEW operation
    PROVE  /\ Begun(d, v, operation).verdict = d.verdict
           /\ Begun(d, v, operation).external = d.external
           /\ ProvenAbsent(d) \in AttemptType
           /\ ProvenAbsent(d).verdict = d.verdict
           /\ ProvenAbsent(d).external = d.external
BY DEF Begun, ProvenAbsent, AttemptType

\* A round passes a row without a word, or takes it to its request: a source
\* that is known is held by no generation just read.
LEMMA RoundTruth ==
    ASSUME TypeOK, TruthInv, NEW r \in Deliveries,
           FindRowInvalid(r) \/ PassRow(r) \/ BeginRow(r)
    PROVE  TruthInv'
<1> USE DEF evaluationVars, connectionVars, providerVars, roundVars
<1>1. request = NoRequest /\ r \in rows
  BY DEF FindRowInvalid, PassRow, BeginRow, Take, TypeOK
<1>2. UnderWay = rows
  BY <1>1 DEF UnderWay
<1>3. r.source \in Sources /\ attempt[r.source] \in AttemptType
      /\ r = [head |-> r.head, source |-> r.source]
  BY DEF Deliveries, TypeOK
<1>4. CASE FindRowInvalid(r)
  <2>1. UnderWay' \subseteq UnderWay
    BY <1>1, <1>4 DEF FindRowInvalid, UnderWay
  <2> QED
    BY <1>4, <2>1, TruthUndisturbed DEF FindRowInvalid
<1>5. CASE PassRow(r)
  <2>1. UnderWay' \subseteq UnderWay
    BY <1>1, <1>2, <1>5 DEF PassRow, Take, UnderWay
  <2>2. ~Held(attempt[r.source], attempt[r.source].generation, verified)
    BY <1>3 DEF Held, AttemptType
  <2>3. UNCHANGED <<attempt, row>>
    BY <1>5, <2>2 DEF PassRow, Succeed
  <2> QED
    BY <1>5, <2>1, <2>3, TruthUndisturbed DEF PassRow
<1>6. CASE BeginRow(r)
  <2>1. PICK operation \in Operations : Open(r, attempt[r.source], operation)
    BY <1>6 DEF BeginRow, Operations
  <2>2. /\ rows' = rows \ {r} /\ request'.head = r.head
        /\ request'.source = r.source
    BY <1>6, <2>1 DEF BeginRow, Take, Open
  <2>3. UnderWay' \subseteq UnderWay
    BY <1>1, <1>2, <1>3, <2>2 DEF UnderWay
  <2>4. \A s \in Sources : /\ attempt'[s].verdict = attempt[s].verdict
                           /\ attempt'[s].external = attempt[s].external
    <3>1. attempt' = [attempt EXCEPT ![r.source] =
                        Begun(attempt[r.source], verified, operation)]
      BY <2>1 DEF Open
    <3> QED
      BY <1>3, <3>1, BegunFields DEF TypeOK
  <2> QED
    BY <1>6, <2>3, <2>4, TruthUndisturbed DEF BeginRow
<1> QED
  BY <1>4, <1>5, <1>6

-----------------------------------------------------------------------------
(* The request *)

\* A write is the one delivery of its head that is under way, and no row
\* claims that it had been made.
LEMMA WriteTruth ==
    ASSUME WrittenInv, TruthInv, Write
    PROVE  TruthInv'
<1> DEFINE q == request.source
           p == [head |-> request.head, source |-> q]
<1>1. /\ TypeOK /\ q \in Sources /\ request.head \in Heads
      /\ request # NoRequest /\ p \in UnderWay
  BY RequestFields, RequestUnderWay DEF Write, Operations, WrittenInv
<1>2. written[q] = 0
  BY <1>1 DEF Write, WrittenInv, Recorded, Creates
<1>3. /\ request'.head = request.head /\ request'.source = q
      /\ request' # NoRequest
      /\ UNCHANGED <<outcome, adjudication, adjudicated, row, attempt, rows>>
      /\ written' = [written EXCEPT ![q] = written[q] + 1]
      /\ shown' = [shown EXCEPT ![request.head] = q]
  <2>1. request' = [request EXCEPT !.written = TRUE]
    BY DEF Write
  <2>2. request \in RequestType
    BY <1>1 DEF TypeOK
  <2>3. request'.head = request.head /\ request'.source = q
        /\ request'.operation = request.operation
    BY <1>1, <2>1, <2>2 DEF RequestType
  <2>4. request' # NoRequest
    BY <2>3 DEF Write, NoRequest
  <2> QED
    BY <2>3, <2>4 DEF Write, evaluationVars
<1>4. UnderWay' = UnderWay
  BY <1>1, <1>3 DEF UnderWay
<1>5. /\ written'[q] = 1
      /\ \A s \in Sources : s # q => written'[s] = written[s]
      /\ shown'[request.head] = q
      /\ \A h \in Heads : h # request.head => shown'[h] = shown[h]
  BY <1>1, <1>2, <1>3 DEF TypeOK
<1>6. SameSources
  BY <1>3 DEF SameSources
<1>7. /\ HeadOf[q[1]] = request.head
      /\ \A r \in UnderWay : r.head = request.head => r = p
  <2>1. p.head = request.head /\ p.source = q
    OBVIOUS
  <2> HIDE DEF p
  <2> QED
    BY <1>1, <2>1 DEF TruthInv, UnderWayWasDesired
<1>8. \A e \in Evaluations, state \in States : Unreached(e, state) =>
         <<e, state>> # q
  <2>1. ~Unreached(q[1], q[2])
    <3>1. p.source = q
      OBVIOUS
    <3> HIDE DEF p
    <3> QED
      BY <1>1, <3>1, UnderWayReached
  <2> QED
    BY <2>1
<1>9. \A e \in Evaluations, state \in States : Unreached(e, state) =>
         LET s == <<e, state>>
         IN  /\ attempt'[s].verdict = attempt[s].verdict
             /\ attempt'[s].external = attempt[s].external
             /\ written'[s] = written[s]
  BY <1>3, <1>5, <1>8 DEF Sources
<1>10. ASSUME NEW h \in Heads, Current(h) PROVE Agrees(h)' /\ Shows(h)'
  <2> DEFINE s == row[h].source
  <2>1. /\ Agrees(h) /\ Shows(h) /\ s \in Sources
        /\ HeadOf[s[1]] = h
    BY <1>1, <1>10, RowFields DEF TruthInv, Current, RowsFollow
  <2>2. CASE s = q
    <3>1. h = request.head /\ written'[s] = 1 /\ shown'[h] = s
      BY <1>5, <1>7, <2>1, <2>2
    <3>2. \A r \in UnderWay : r.head = h => r.source = s
      BY <1>7, <2>2, <3>1
    <3>3. Agrees(h)'
      BY <1>3, <1>4, <2>1, <3>1 DEF Agrees
    <3>4. Shows(h)'
      BY <1>3, <1>4, <3>1, <3>2 DEF Shows
    <3> QED
      BY <3>3, <3>4
  <2>3. CASE s # q
    <3>1. written'[s] = written[s]
      BY <1>5, <2>1, <2>3
    <3>2. Agrees(h)'
      BY <1>3, <1>4, <2>1, <3>1 DEF Agrees
    <3>3. written[s] # 0 => h # request.head
      <4>1. SUFFICES ASSUME written[s] # 0, h = request.head PROVE FALSE
        OBVIOUS
      <4>2. p.head = h /\ p.source = q
        BY <4>1
      <4> HIDE DEF p
      <4> QED
        BY <1>1, <2>1, <2>3, <4>1, <4>2 DEF Shows
    <3>4. Shows(h)'
      BY <1>3, <1>4, <1>5, <2>1, <3>1, <3>3 DEF Shows
    <3> QED
      BY <3>2, <3>4
  <2> QED
    BY <2>2, <2>3
<1> QED
  BY <1>1, <1>3, <1>4, <1>6, <1>9, <1>10, TruthKept

\* The end of a request leaves the round's other rows under way.
LEMMA CloseUnderWay ==
    ASSUME Close, UNCHANGED rows
    PROVE  UnderWay' \subseteq UnderWay
BY DEF Close, UnderWay

\* A completion that holds the row of its delivery is of a source that is
\* under way; what is not written as its row says cannot hold it.
LEMMA SuccessTruth ==
    ASSUME TypeOK, TruthInv, request.operation \in Operations,
           written[request.source] = 1,
           Succeed(request.head, request.source, request.generation),
           UNCHANGED <<outcome, adjudication, adjudicated, written, shown>>,
           UnderWay' \subseteq UnderWay
    PROVE  TruthInv'
<1> DEFINE q == request.source
           g == request.head
           p == [head |-> g, source |-> q]
<1>1. q \in Sources /\ g \in Heads /\ p \in UnderWay
  BY RequestFields, RequestUnderWay
<1>2. p.head = g /\ p.source = q
  OBVIOUS
<1> HIDE DEF p
<1>3. CASE ~Held(attempt[q], request.generation, verified)
  <2>1. UNCHANGED <<attempt, row>>
    BY <1>3 DEF Succeed
  <2> QED
    BY <2>1, TruthUndisturbed
<1>4. CASE Held(attempt[q], request.generation, verified)
  <2>1. /\ attempt' = [attempt EXCEPT ![q] = Succeeded(attempt[q])]
        /\ row' = [row EXCEPT ![g] =
             IF row[g] = [source |-> q, publication |-> "waiting"]
             THEN [row[g] EXCEPT !.publication = "succeeded"] ELSE row[g]]
        /\ attempt[q].verdict = "none"
    BY <1>4 DEF Succeed, Held
  <2>2. Succeeded(attempt[q]).verdict = "none"
    <3>1. attempt[q] \in AttemptType
      BY <1>1 DEF TypeOK
    <3> QED
      BY <2>1, <3>1 DEF Succeeded, AttemptType
  <2>3. \A s \in Sources : /\ attempt'[s].verdict = attempt[s].verdict
                           /\ s # q => attempt'[s] = attempt[s]
    BY <1>1, <2>1, <2>2 DEF TypeOK
  <2>4. ASSUME NEW h \in Heads
        PROVE  /\ row'[h].source = row[h].source
               /\ row'[h] = NoRow <=> row[h] = NoRow
               /\ \/ /\ row'[h] = row[h]
                     /\ row[h] # [source |-> q, publication |-> "waiting"]
                        \/ h # g
                  \/ row'[h].publication = "succeeded" /\ row[h].source = q
    <3>1. CASE h = g /\ row[h] = [source |-> q, publication |-> "waiting"]
      <4>1. row'[h] = [source |-> q, publication |-> "succeeded"]
        BY <1>1, <2>1, <3>1 DEF TypeOK
      <4> QED
        BY <3>1, <4>1 DEF NoRow
    <3>2. CASE ~(h = g /\ row[h] = [source |-> q, publication |-> "waiting"])
      BY <1>1, <2>1, <3>2 DEF TypeOK
    <3> QED
      BY <3>1, <3>2
  <2>5. SameSources
    BY <2>4 DEF SameSources
  <2>6. ~Unreached(q[1], q[2]) /\ HeadOf[q[1]] = g
    BY <1>1, <1>2, UnderWayReached DEF TruthInv, UnderWayWasDesired
  <2>7. \A e \in Evaluations, state \in States : Unreached(e, state) =>
           LET s == <<e, state>>
           IN  /\ attempt'[s].verdict = attempt[s].verdict
               /\ attempt'[s].external = attempt[s].external
               /\ written'[s] = written[s]
    <3>1. SUFFICES ASSUME NEW e \in Evaluations, NEW state \in States,
                          Unreached(e, state)
                   PROVE  attempt'[<<e, state>>] = attempt[<<e, state>>]
      OBVIOUS
    <3>2. <<e, state>> \in Sources /\ <<e, state>> # q
      BY <2>6, <3>1 DEF Sources
    <3> QED
      BY <2>3, <3>2
  <2>8. ASSUME NEW h \in Heads, Current(h) PROVE Agrees(h)' /\ Shows(h)'
    <3> DEFINE s == row[h].source
    <3>1. /\ Agrees(h) /\ Shows(h) /\ s \in Sources /\ HeadOf[s[1]] = h
          /\ row[h].publication \in Publications
          /\ row[h] = [source |-> s, publication |-> row[h].publication]
      BY <2>8, RowFields DEF TruthInv, Current, RowsFollow
    <3>2. Shows(h)'
      BY <2>4, <3>1 DEF Shows
    <3>3. CASE row'[h] = row[h] /\ s # q
      BY <2>3, <3>1, <3>2, <3>3 DEF Agrees
    <3>4. CASE row'[h] = row[h] /\ s = q
      <4>1. h = g
        BY <2>6, <3>1, <3>4
      <4>2. row[h].publication # "unavailable"
        BY <1>1, <1>2, <2>1, <3>1, <3>4 DEF Agrees
      <4>3. row[h].publication = "waiting" =>
               row'[h].publication = "succeeded"
        BY <2>4, <3>1, <3>4, <4>1
      <4>4. row'[h].publication = "succeeded"
        BY <3>1, <3>4, <4>2, <4>3 DEF Publications
      <4> QED
        BY <3>2, <3>4, <4>4 DEF Agrees
    <3>5. CASE row'[h].publication = "succeeded" /\ s = q
      BY <2>4, <3>2, <3>5 DEF Agrees
    <3> QED
      BY <2>4, <3>3, <3>4, <3>5
  <2> QED
    BY <2>5, <2>7, <2>8, TruthKept
<1> QED
  BY <1>3, <1>4

\* A failure that holds its delivery finds no row of it refused; if it is
\* definitive the row that waits for it is refused with it.
LEMMA FailureTruth ==
    ASSUME TypeOK, TruthInv, RequestFails
    PROVE  TruthInv'
<1> USE DEF evaluationVars, connectionVars, providerVars, roundVars
<1> DEFINE q == request.source
           g == request.head
           p == [head |-> g, source |-> q]
<1>1. q \in Sources /\ g \in Heads /\ p \in UnderWay
  BY RequestFields, RequestUnderWay DEF RequestFails
<1>2. p.head = g /\ p.source = q
  OBVIOUS
<1> HIDE DEF p
<1>3. PICK failure \in Failures :
         Fail(g, q, request.generation, failure, request.operation)
  BY DEF RequestFails
<1>4. /\ Close
      /\ UNCHANGED <<outcome, adjudication, adjudicated, written, shown, rows>>
  BY DEF RequestFails
<1>5. UnderWay' \subseteq UnderWay
  BY <1>4, CloseUnderWay
<1>6. CASE ~Held(attempt[q], request.generation, verified)
  <2>1. UNCHANGED <<attempt, row>>
    BY <1>3, <1>6 DEF Fail
  <2> QED
    BY <1>4, <1>5, <2>1, TruthUndisturbed
<1>7. CASE Held(attempt[q], request.generation, verified)
  <2> DEFINE verdict == VerdictOf(failure)
  <2>1. /\ attempt' = [attempt EXCEPT ![q] =
                         Failed(attempt[q], failure, request.operation)]
        /\ row' = [row EXCEPT ![g] =
             IF /\ verdict # "none"
                /\ row[g] = [source |-> q, publication |-> "waiting"]
             THEN [row[g] EXCEPT !.publication = "unavailable"] ELSE row[g]]
        /\ attempt[q].verdict = "none"
    BY <1>3, <1>7 DEF Fail, Held
  <2>2. /\ Failed(attempt[q], failure, request.operation).verdict = verdict
        /\ Failed(attempt[q], failure, request.operation).external =
             attempt[q].external
    <3>1. attempt[q] \in AttemptType
      BY <1>1 DEF TypeOK
    <3> QED
      BY <3>1 DEF Failed, AttemptType
  <2> HIDE DEF verdict
  <2>3. /\ attempt'[q].verdict = verdict
        /\ \A s \in Sources : /\ attempt'[s].external = attempt[s].external
                              /\ s # q => attempt'[s] = attempt[s]
    BY <1>1, <2>1, <2>2 DEF TypeOK
  <2>4. ASSUME NEW h \in Heads
        PROVE  /\ row'[h].source = row[h].source
               /\ row'[h] = NoRow <=> row[h] = NoRow
               /\ \/ /\ row'[h] = row[h]
                     /\ \/ verdict = "none" \/ h # g
                        \/ row[h] # [source |-> q, publication |-> "waiting"]
                  \/ /\ verdict # "none" /\ row[h].source = q
                     /\ row[h].publication = "waiting"
                     /\ row'[h].publication = "unavailable"
    <3>1. CASE /\ verdict # "none" /\ h = g
               /\ row[h] = [source |-> q, publication |-> "waiting"]
      <4>1. row'[h] = [source |-> q, publication |-> "unavailable"]
        BY <1>1, <2>1, <3>1 DEF TypeOK
      <4> QED
        BY <3>1, <4>1 DEF NoRow
    <3>2. CASE ~(/\ verdict # "none" /\ h = g
                 /\ row[h] = [source |-> q, publication |-> "waiting"])
      BY <1>1, <2>1, <3>2 DEF TypeOK
    <3> QED
      BY <3>1, <3>2
  <2>5. SameSources
    BY <2>4 DEF SameSources
  <2>6. ~Unreached(q[1], q[2]) /\ HeadOf[q[1]] = g
    BY <1>1, <1>2, UnderWayReached DEF TruthInv, UnderWayWasDesired
  <2>7. \A e \in Evaluations, state \in States : Unreached(e, state) =>
           LET s == <<e, state>>
           IN  /\ attempt'[s].verdict = attempt[s].verdict
               /\ attempt'[s].external = attempt[s].external
               /\ written'[s] = written[s]
    <3>1. SUFFICES ASSUME NEW e \in Evaluations, NEW state \in States,
                          Unreached(e, state)
                   PROVE  attempt'[<<e, state>>] = attempt[<<e, state>>]
      BY <1>4
    <3>2. <<e, state>> \in Sources /\ <<e, state>> # q
      BY <2>6, <3>1 DEF Sources
    <3> QED
      BY <2>3, <3>2
  <2>8. ASSUME NEW h \in Heads, Current(h) PROVE Agrees(h)' /\ Shows(h)'
    <3> DEFINE s == row[h].source
    <3>1. /\ Agrees(h) /\ Shows(h) /\ s \in Sources /\ HeadOf[s[1]] = h
          /\ row[h].publication \in Publications
          /\ row[h] = [source |-> s, publication |-> row[h].publication]
      BY <2>8, RowFields DEF TruthInv, Current, RowsFollow
    <3>2. Shows(h)'
      BY <1>4, <1>5, <2>4, <3>1 DEF Shows
    <3>3. CASE row'[h] = row[h] /\ s # q
      BY <1>4, <1>5, <2>3, <3>1, <3>2, <3>3 DEF Agrees
    <3>4. CASE row'[h] = row[h] /\ s = q
      <4>1. h = g
        BY <2>6, <3>1, <3>4
      <4>2. row[h].publication # "unavailable"
        BY <1>1, <1>2, <2>1, <3>1, <3>4 DEF Agrees
      <4>3. row[h].publication = "waiting" => verdict = "none"
        BY <2>4, <3>1, <3>4, <4>1
      <4>4. /\ row[h].publication = "waiting" =>
                  attempt'[s].verdict = "none" /\ ~attempt'[s].external
            /\ row[h].publication = "succeeded" => written'[s] = 1
        BY <1>4, <2>3, <3>1, <3>4, <4>3 DEF Agrees
      <4> QED
        BY <3>2, <3>4, <4>2, <4>4 DEF Agrees
    <3>5. CASE /\ verdict # "none" /\ row[h].source = q
               /\ row[h].publication = "waiting"
               /\ row'[h].publication = "unavailable"
      <4>1. attempt'[s].verdict # "none" /\ ~attempt'[s].external
        BY <2>3, <3>1, <3>5 DEF Agrees
      <4>2. row'[h].source = s
        BY <2>4
      <4> QED
        BY <3>2, <3>5, <4>1, <4>2 DEF Agrees
    <3> QED
      BY <2>4, <3>3, <3>4, <3>5
  <2> QED
    BY <1>4, <1>5, <2>5, <2>7, <2>8, TruthKept
<1> QED
  BY <1>6, <1>7

\* A request and its end keep the rows true.
LEMMA RequestTruth ==
    ASSUME WrittenInv, TruthInv, Deliver \/ RequestFails \/ Crash
    PROVE  TruthInv'
<1> USE DEF evaluationVars, connectionVars, providerVars, roundVars
<1>1. CASE Write
  BY <1>1, WriteTruth
<1>2. CASE CreateAnswered \/ ReconcileFound
  <2>1. TypeOK /\ request.operation \in Operations
    BY <1>2 DEF CreateAnswered, ReconcileFound, Operations, WrittenInv
  <2>2. written[request.source] = 1
    <3>1. CASE ReconcileFound
      BY <3>1 DEF ReconcileFound
    <3>2. CASE CreateAnswered
      <4>1. /\ Recorded(request.source) /\ Creates(request.source)
            /\ request.written
        BY <2>1, <3>2, RequestFields DEF CreateAnswered, WrittenInv, Creates
      <4> QED
        BY <4>1 DEF Recorded
    <3> QED
      BY <1>2, <3>1, <3>2
  <2>3. UnderWay' \subseteq UnderWay
    BY <1>2, CloseUnderWay DEF CreateAnswered, ReconcileFound
  <2> QED
    BY <1>2, <2>1, <2>2, <2>3, SuccessTruth DEF CreateAnswered, ReconcileFound
<1>3. CASE ReconcileAbsent
  <2> DEFINE q == request.source
             d == ProvenAbsent(attempt[q])
  <2>1. /\ TypeOK /\ q \in Sources /\ attempt[q] \in AttemptType
        /\ request # NoRequest
        /\ UNCHANGED <<outcome, adjudication, adjudicated, row, written, shown,
                       rows>>
    BY <1>3, RequestFields DEF ReconcileAbsent, Operations, WrittenInv, TypeOK
  <2>2. /\ d.verdict = attempt[q].verdict /\ d.external = attempt[q].external
        /\ d \in AttemptType
    BY <2>1, BegunFields
  <2> HIDE DEF d
  <2>3. CASE Open(request, d, "create")
    <3>1. /\ attempt' = [attempt EXCEPT ![q] = Begun(d, verified, "create")]
          /\ request'.head = request.head /\ request'.source = q
      BY <2>3 DEF Open
    <3>2. UnderWay' \subseteq UnderWay
      BY <2>1, <3>1 DEF UnderWay
    <3>3. \A s \in Sources : /\ attempt'[s].verdict = attempt[s].verdict
                             /\ attempt'[s].external = attempt[s].external
      BY <2>1, <2>2, <3>1, BegunFields DEF TypeOK
    <3> QED
      BY <2>1, <3>2, <3>3, TruthUndisturbed
  <2>4. CASE Close /\ (UNCHANGED attempt
                       \/ attempt' = [attempt EXCEPT ![q] = d])
    <3>1. UnderWay' \subseteq UnderWay
      BY <2>1, <2>4, CloseUnderWay
    <3>2. \A s \in Sources : /\ attempt'[s].verdict = attempt[s].verdict
                             /\ attempt'[s].external = attempt[s].external
      BY <2>1, <2>2, <2>4 DEF TypeOK
    <3> QED
      BY <2>1, <3>1, <3>2, TruthUndisturbed
  <2> QED
    BY <1>3, <2>3, <2>4 DEF ReconcileAbsent, d
<1>4. CASE RequestFails
  BY <1>4, FailureTruth DEF WrittenInv
<1>5. CASE Crash
  <2>1. UnderWay' \subseteq UnderWay
    BY <1>5 DEF Crash, UnderWay
  <2> QED
    BY <1>5, <2>1, TruthUndisturbed DEF Crash, WrittenInv
<1> QED
  BY <1>1, <1>2, <1>3, <1>4, <1>5 DEF Deliver

-----------------------------------------------------------------------------
LEMMA TruthStep == WrittenInv /\ TruthInv /\ [Next]_vars => TruthInv'
<1> SUFFICES ASSUME WrittenInv, TruthInv, [Next]_vars PROVE TruthInv'
  OBVIOUS
<1> USE DEF WrittenInv
<1>1. CASE UNCHANGED vars
  <2>1. UnderWay' = UnderWay
    BY <1>1 DEF vars, roundVars, UnderWay
  <2> QED
    BY <1>1, <2>1, TruthUndisturbed DEF vars, evaluationVars, providerVars
<1>2. ASSUME NEW e \in Evaluations,
             \/ Admit(e) \/ Complete(e) \/ QueueAdjudication(e)
             \/ StartAdjudication(e) \/ FinishAdjudication(e)
      PROVE  TruthInv'
  BY <1>2, AdmitTruth, CompleteTruth, QueueAdjudicationTruth, AdjudicationTruth
<1>3. CASE \/ Verify \/ Retire \/ Reactivate \/ GatePasses
           \/ \E s \in Sources : BackoffPasses(s)
  BY <1>3, ConnectionTruth
<1>4. CASE FetchRows
  BY <1>4, FetchTruth
<1>5. ASSUME NEW r \in Deliveries,
             FindRowInvalid(r) \/ PassRow(r) \/ BeginRow(r)
      PROVE  TruthInv'
  BY <1>5, RoundTruth
<1>6. CASE Deliver \/ RequestFails \/ Crash
  BY <1>6, RequestTruth
<1> QED
  BY <1>1, <1>2, <1>3, <1>4, <1>5, <1>6 DEF Next

\* The rows are true: one that succeeded is what the provider shows for the
\* latest Evaluation of its head, one that waits can still be delivered.
THEOREM RowsAreTrueCorrect == Spec => []RowsAreTrue
<1>1. TypeOK /\ TruthInv => RowsAreTrue
  <2> SUFFICES ASSUME TypeOK, TruthInv PROVE SucceededIsShown
                                             /\ WaitingCanBeDelivered
    BY DEF RowsAreTrue
  <2>1. ASSUME NEW h \in Heads, row[h].source[1] \notin adjudicated,
               row[h].publication \in Publications
        PROVE  /\ Agrees(h) /\ Shows(h) /\ row[h].source \in Sources
               /\ row[h].source[2] = outcome[row[h].source[1]]
               /\ \A f \in Evaluations : HeadOf[f] = h /\ outcome[f] # "absent"
                     => f <= row[h].source[1]
    BY <2>1, RowFields DEF TruthInv, Current, RowsFollow
  <2>2. SucceededIsShown
    <3>1. SUFFICES ASSUME NEW h \in Heads, row[h].publication = "succeeded",
                          row[h].source[1] \notin adjudicated
                   PROVE  LET e == row[h].source[1]
                          IN  /\ shown[h] = <<e, outcome[e]>>
                              /\ \A f \in Evaluations :
                                   HeadOf[f] = h /\ outcome[f] # "absent"
                                   => f <= e
      BY DEF SucceededIsShown
    <3>2. row[h].publication \in Publications
      BY <3>1 DEF Publications
    <3>3. shown[h] = row[h].source
      BY <2>1, <3>1, <3>2 DEF Agrees, Shows
    <3>4. row[h].source = <<row[h].source[1], row[h].source[2]>>
      BY <2>1, <3>1, <3>2, SourcePair
    <3> QED
      BY <2>1, <3>1, <3>2, <3>3, <3>4
  <2>3. WaitingCanBeDelivered
    BY <2>1 DEF WaitingCanBeDelivered, Agrees, Publications
  <2> QED
    BY <2>2, <2>3
<1>2. Init => WrittenInv /\ TruthInv
  BY InitWritten, InitTruth
<1>3. WrittenInv /\ TruthInv /\ [Next]_vars => WrittenInv' /\ TruthInv'
  BY WrittenStep, TruthStep
<1>4. WrittenInv => TypeOK
  BY DEF WrittenInv
<1> QED
  BY <1>1, <1>2, <1>3, <1>4, PTL DEF Spec
=============================================================================
