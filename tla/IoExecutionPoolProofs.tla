----------------------- MODULE IoExecutionPoolProofs -----------------------
(***************************************************************************)
(* Theorems about IoExecutionPool: the count of busy workers is exact, no  *)
(* task waits beside a free worker, and a close that was answered is final.*)
(*                                                                         *)
(* drain takes at most one task in every reachable state, since a queue    *)
(* that is not empty means that all ordinary workers are busy.  That is    *)
(* why counting and work conservation have to be proved together.          *)
(***************************************************************************)
EXTENDS IoExecutionPool, FiniteSetTheorems, TLAPS

\* Once close has been called, nothing is accepted any more.
ClosingRefuses ==
    \A k \in Closers : closing[k] # "none" => ~accepting /\ ~cleanupOnly

\* A close is answered only by an idle pool.
AnsweredIsIdle ==
    \A k \in Closers : closing[k] = "resolved" => waiting = <<>> /\ active = 0

PoolInv ==
    /\ TypeOK /\ WorkersAreCounted /\ WorkConserving
    /\ ClosingRefuses /\ AnsweredIsIdle

\* The tasks that occupy a worker in the stages at.
BusyAt(at) == {t \in Tasks : at[t] \in {"taken", "running", "settled"}}

\* The line holds exactly the waiting tasks of at, each of them once.
Holds(line, at) ==
    /\ line \in Seq(Tasks)
    /\ {t \in Tasks : at[t] = "waiting"} = {line[i] : i \in DOMAIN line}
    /\ \A i, j \in DOMAIN line : line[i] = line[j] => i = j

-----------------------------------------------------------------------------
\* The tasks that occupy a worker are finitely many, so they can be counted.
LEMMA BusyFinite ==
    ASSUME NEW at PROVE IsFiniteSet(BusyAt(at))
BY TasksAssumption, FS_Subset DEF BusyAt

\* One more, one less: how the count follows the stage of a task.
LEMMA OneMoreBusy ==
    ASSUME NEW at, NEW t \in Tasks, at[t] \notin {"taken", "running", "settled"},
           NEW at2, BusyAt(at2) = BusyAt(at) \cup {t}
    PROVE  Cardinality(BusyAt(at2)) = Cardinality(BusyAt(at)) + 1
<1>1. t \notin BusyAt(at)
  BY DEF BusyAt
<1> QED
  BY <1>1, BusyFinite, FS_AddElement

LEMMA OneLessBusy ==
    ASSUME NEW at, NEW t \in BusyAt(at), NEW at2, BusyAt(at2) = BusyAt(at) \ {t}
    PROVE  Cardinality(BusyAt(at2)) = Cardinality(BusyAt(at)) - 1
BY BusyFinite, FS_RemoveElement

(***************************************************************************)
(* What drain establishes from a queue and a count that agree with the     *)
(* stages, when at most one task can be taken.                             *)
(***************************************************************************)
LEMMA DrainCorrect ==
    ASSUME NEW line, NEW busy \in Nat, NEW at \in [Tasks -> Stages],
           Holds(line, at), busy = Cardinality(BusyAt(at)),
           busy <= OrdinaryConcurrency,
           Len(line) <= 1 \/ busy >= OrdinaryConcurrency - 1,
           Drain(line, busy, at)
    PROVE  /\ waiting' \in Seq(Tasks) /\ active' \in Nat
           /\ stage' \in [Tasks -> Stages]
           /\ WorkersAreCounted' /\ WorkConserving'
           /\ line = <<>> => waiting' = <<>> /\ active' = busy
<1> DEFINE n == Taken(line, busy)
<1>0. /\ Concurrency \in Nat /\ OrdinaryConcurrency \in Nat
      /\ OrdinaryConcurrency = Concurrency - 1 /\ OrdinaryConcurrency > 0
  BY ConcurrencyAssumption DEF OrdinaryConcurrency
<1>1. line \in Seq(Tasks) /\ Len(line) \in Nat /\ DOMAIN line = 1 .. Len(line)
  BY DEF Holds
<1>2. n \in 0 .. 1 /\ n <= Len(line)
  BY <1>0, <1>1 DEF Taken
<1>3. /\ waiting' = SubSeq(line, n + 1, Len(line))
      /\ active' = busy + n
      /\ stage' = [t \in Tasks |->
             IF \E i \in 1 .. n : line[i] = t THEN "taken" ELSE at[t]]
  BY DEF Drain
<1>4. Busy' = BusyAt(stage')
  BY DEF Busy, BusyAt
<1>5. CASE n = 0
  <2>1. waiting' = line
    BY <1>1, <1>3, <1>5
  <2>2. stage' = at /\ active' = busy
    BY <1>3, <1>5
  <2>3. line # <<>> => busy >= OrdinaryConcurrency
    BY <1>0, <1>1, <1>5 DEF Taken
  <2>4. WorkersAreCounted'
    BY <1>4, <2>1, <2>2 DEF WorkersAreCounted, Queued, Holds
  <2>5. WorkConserving'
    BY <1>0, <2>1, <2>2, <2>3 DEF WorkConserving
  <2> QED
    BY <1>1, <2>1, <2>2, <2>4, <2>5
<1>6. CASE n = 1
  <2> DEFINE first == line[1]
  <2>1. /\ Len(line) >= 1 /\ first \in Tasks /\ 1 \in DOMAIN line
        /\ at[first] = "waiting"
    BY <1>1, <1>2, <1>6 DEF Holds
  <2>2. stage' = [at EXCEPT ![first] = "taken"]
    <3>1. 1 .. n = {1}
      BY <1>6
    <3>2. \A t : (\E i \in 1 .. n : line[i] = t) <=> t = first
      BY <3>1
    <3>3. stage' = [t \in Tasks |-> IF t = first THEN "taken" ELSE at[t]]
      BY <1>3, <3>2
    <3> QED
      BY <3>3, <2>1
  <2>3. BusyAt(stage') = BusyAt(at) \cup {first}
    BY <2>1, <2>2 DEF BusyAt
  <2>4. Cardinality(BusyAt(stage')) = busy + 1
    BY <2>1, <2>3, OneMoreBusy
  <2>5. waiting' = SubSeq(line, 2, Len(line))
    BY <1>3, <1>6
  <2>6. /\ waiting' \in Seq(Tasks) /\ Len(waiting') = Len(line) - 1
        /\ DOMAIN waiting' = 1 .. Len(line) - 1
        /\ \A i \in 1 .. Len(line) - 1 : waiting'[i] = line[i + 1]
    BY <1>1, <2>1, <2>5
  <2>7. {t \in Tasks : stage'[t] = "waiting"} = {waiting'[i] : i \in DOMAIN waiting'}
    <3>1. ASSUME NEW t \in Tasks, stage'[t] = "waiting"
          PROVE  \E i \in DOMAIN waiting' : waiting'[i] = t
      <4>1. at[t] = "waiting" /\ t # first
        BY <3>1, <2>1, <2>2 DEF Stages
      <4>2. PICK j \in DOMAIN line : line[j] = t
        BY <4>1 DEF Holds
      <4>3. j # 1 /\ j - 1 \in 1 .. Len(line) - 1
        BY <4>1, <4>2, <1>1, <2>1
      <4> QED
        BY <4>2, <4>3, <2>6, <1>1
    <3>2. ASSUME NEW i \in DOMAIN waiting'
          PROVE  waiting'[i] \in Tasks /\ stage'[waiting'[i]] = "waiting"
      <4>1. /\ waiting'[i] = line[i + 1] /\ i + 1 \in DOMAIN line /\ i + 1 # 1
        BY <2>6, <1>1
      <4>2. line[i + 1] \in Tasks /\ at[line[i + 1]] = "waiting"
        BY <4>1, <1>1 DEF Holds
      <4>3. line[i + 1] # first
        BY <4>1, <2>1 DEF Holds
      <4> QED
        BY <4>1, <4>2, <4>3, <2>2
    <3> QED
      BY <3>1, <3>2
  <2>8. \A i, j \in DOMAIN waiting' : waiting'[i] = waiting'[j] => i = j
    <3> SUFFICES ASSUME NEW i \in DOMAIN waiting', NEW j \in DOMAIN waiting',
                        waiting'[i] = waiting'[j]
                 PROVE  i = j
      OBVIOUS
    <3>1. i + 1 \in DOMAIN line /\ j + 1 \in DOMAIN line /\ line[i + 1] = line[j + 1]
      BY <2>6, <1>1
    <3>2. i + 1 = j + 1
      BY <3>1 DEF Holds
    <3> QED
      BY <3>2, <2>6, <1>1
  <2>9. WorkersAreCounted'
    BY <1>3, <1>4, <1>6, <2>4, <2>7, <2>8 DEF WorkersAreCounted, Queued
  <2>10. WorkConserving'
    <3>1. busy < OrdinaryConcurrency
      BY <1>0, <1>1, <1>6 DEF Taken
    <3>2. waiting' # <<>> => Len(line) >= 2
      BY <1>1, <2>1, <2>6
    <3> QED
      BY <1>0, <1>3, <1>6, <3>1, <3>2, <1>1 DEF WorkConserving
  <2> QED
    BY <1>1, <1>3, <1>6, <2>1, <2>2, <2>6, <2>9, <2>10 DEF Stages
<1> QED
  BY <1>2, <1>5, <1>6

-----------------------------------------------------------------------------
LEMMA PoolInit == Init => PoolInv
<1> SUFFICES ASSUME Init PROVE PoolInv
  OBVIOUS
<1>1. TypeOK
  <2>1. accepting \in BOOLEAN /\ cleanupOnly \in BOOLEAN
    BY Zenon DEF Init
  <2>2. waiting \in Seq(Tasks) /\ active \in Nat /\ aborted \subseteq Duties
    BY DEF Init
  <2>3. /\ stage \in [Tasks -> Stages] /\ result \in [Tasks -> Outcomes]
        /\ immediate \in [Immediates -> Outcomes]
        /\ closing \in [Closers -> {"none", "pending", "resolved"}]
    BY DEF Init, Stages, Outcomes
  <2> QED
    BY <2>1, <2>2, <2>3 DEF TypeOK
<1>2. Busy = {} /\ Queued = {} /\ DOMAIN waiting = {}
  BY DEF Init, Busy, Queued
<1>3. WorkersAreCounted
  BY <1>2, FS_EmptySet DEF Init, WorkersAreCounted
<1>4. WorkConserving
  BY ConcurrencyAssumption DEF Init, WorkConserving
<1> QED
  BY <1>1, <1>3, <1>4 DEF PoolInv, ClosingRefuses, AnsweredIsIdle, Init

\* In a state of the invariant the queue and the count agree with the stages,
\* and the count leaves one worker free.
LEMMA InvHolds ==
    ASSUME PoolInv
    PROVE  /\ Holds(waiting, stage) /\ active = Cardinality(BusyAt(stage))
           /\ active \in Nat /\ active <= OrdinaryConcurrency
           /\ Len(waiting) \in Nat
           /\ waiting # <<>> => active = OrdinaryConcurrency
BY ConcurrencyAssumption
DEF PoolInv, TypeOK, WorkersAreCounted, WorkConserving, Holds, Busy, BusyAt, Queued,
    OrdinaryConcurrency

\* A step that moves no task into or out of the queue or a worker.
LEMMA Undisturbed ==
    ASSUME PoolInv, UNCHANGED <<waiting, active>>,
           BusyAt(stage') = BusyAt(stage),
           \A t \in Tasks : stage'[t] = "waiting" <=> stage[t] = "waiting"
    PROVE  WorkersAreCounted' /\ WorkConserving'
<1>1. Busy' = Busy
  BY DEF Busy, BusyAt
<1>2. Queued' = Queued
  BY DEF Queued
<1> QED
  BY <1>1, <1>2 DEF PoolInv, WorkersAreCounted, WorkConserving

\* finishDrain answers a close only when nothing is left.
LEMMA FinishDrainCorrect ==
    ASSUME TypeOK, FinishDrain,
           \A k \in Closers : closing[k] = "resolved" => waiting' = <<>> /\ active' = 0
    PROVE  /\ closing' \in [Closers -> {"none", "pending", "resolved"}]
           /\ AnsweredIsIdle'
           /\ \A k \in Closers : closing'[k] # "none" => closing[k] # "none"
BY DEF TypeOK, FinishDrain, AnsweredIsIdle

\* The task of an accepted call stands at the end of the line.
LEMMA JoinsTheLine ==
    ASSUME PoolInv, NEW t \in Tasks, stage[t] = "new"
    PROVE  Holds(Append(waiting, t), [stage EXCEPT ![t] = "waiting"])
<1> DEFINE line == Append(waiting, t)
           at == [stage EXCEPT ![t] = "waiting"]
<1>1. /\ line \in Seq(Tasks) /\ Len(line) = Len(waiting) + 1
      /\ line[Len(line)] = t /\ \A i \in DOMAIN waiting : line[i] = waiting[i]
      /\ DOMAIN line = DOMAIN waiting \cup {Len(line)}
  BY DEF PoolInv, TypeOK
<1>2. \A i \in DOMAIN waiting : waiting[i] # t /\ stage[waiting[i]] = "waiting"
  BY InvHolds DEF Holds
<1>3. \A v \in Tasks : at[v] = "waiting" <=> stage[v] = "waiting" \/ v = t
  BY DEF PoolInv, TypeOK
<1>4. {v \in Tasks : at[v] = "waiting"} = {line[i] : i \in DOMAIN line}
  BY <1>1, <1>3, InvHolds DEF Holds
<1>5. \A i, j \in DOMAIN line : line[i] = line[j] => i = j
  BY <1>1, <1>2, InvHolds DEF Holds
<1> QED
  BY <1>1, <1>4, <1>5 DEF Holds

\* The refused call is finished at once; the accepted one joins the queue, of
\* which at most its head can be taken.
LEMMA PoolRun == ASSUME PoolInv, NEW t \in Tasks, Run(t) PROVE PoolInv'
<1> USE DEF PoolInv
<1>1. CASE Accepts(DutyOf(t)) /\ Len(waiting) < QueueCapacity
  <2> DEFINE line == Append(waiting, t)
             at == [stage EXCEPT ![t] = "waiting"]
  <2>1. /\ stage[t] = "new" /\ Drain(line, active, at)
        /\ UNCHANGED <<result, accepting, cleanupOnly, aborted, immediate, closing>>
    BY <1>1 DEF Run
  <2>2. at \in [Tasks -> Stages] /\ BusyAt(at) = BusyAt(stage)
    BY <2>1 DEF TypeOK, Stages, BusyAt
  <2>3. Holds(line, at)
    BY <2>1, JoinsTheLine
  <2>4. Len(line) <= 1 \/ active >= OrdinaryConcurrency - 1
    BY InvHolds, ConcurrencyAssumption DEF TypeOK, OrdinaryConcurrency
  <2>5. /\ waiting' \in Seq(Tasks) /\ active' \in Nat /\ stage' \in [Tasks -> Stages]
        /\ WorkersAreCounted' /\ WorkConserving'
    BY <2>1, <2>2, <2>3, <2>4, InvHolds, DrainCorrect
  <2>6. \A k \in Closers : closing[k] = "none"
    BY <1>1 DEF Accepts, ClosingRefuses
  <2> QED
    BY <2>1, <2>5, <2>6 DEF TypeOK, ClosingRefuses, AnsweredIsIdle
<1>2. CASE ~(Accepts(DutyOf(t)) /\ Len(waiting) < QueueCapacity)
  <2>1. /\ stage[t] = "new" /\ stage' = [stage EXCEPT ![t] = "done"]
        /\ result' = [result EXCEPT ![t] = "refused"]
        /\ UNCHANGED <<waiting, active, accepting, cleanupOnly, aborted, immediate, closing>>
    BY <1>2 DEF Run
  <2>2. TypeOK'
    BY <2>1 DEF TypeOK, Stages, Outcomes
  <2>3. /\ BusyAt(stage') = BusyAt(stage)
        /\ \A v \in Tasks : stage'[v] = "waiting" <=> stage[v] = "waiting"
    BY <2>1 DEF TypeOK, BusyAt
  <2> QED
    BY <2>1, <2>2, <2>3, Undisturbed DEF ClosingRefuses, AnsweredIsIdle
<1> QED
  BY <1>1, <1>2

\* A task that begins or ends keeps its worker.
LEMMA PoolWork == ASSUME PoolInv, NEW t \in Tasks, Begin(t) \/ Finish(t) PROVE PoolInv'
<1>1. /\ stage[t] \in {"taken", "running"}
      /\ \E s \in {"running", "settled"} : stage' = [stage EXCEPT ![t] = s]
      /\ UNCHANGED <<accepting, cleanupOnly, aborted, waiting, active, immediate, closing>>
  BY DEF Begin, Finish
<1>2. result' \in [Tasks -> Outcomes]
  BY DEF Begin, Finish, PoolInv, TypeOK, Outcomes
<1>3. TypeOK'
  BY <1>1, <1>2 DEF PoolInv, TypeOK, Stages
<1>4. /\ BusyAt(stage') = BusyAt(stage)
      /\ \A v \in Tasks : stage'[v] = "waiting" <=> stage[v] = "waiting"
  BY <1>1 DEF PoolInv, TypeOK, BusyAt
<1> QED
  BY <1>1, <1>3, <1>4, Undisturbed DEF PoolInv, ClosingRefuses, AnsweredIsIdle

\* The worker that is given back was counted, and at most one task follows it.
LEMMA PoolRelease == ASSUME PoolInv, NEW t \in Tasks, Release(t) PROVE PoolInv'
<1> USE DEF PoolInv
<1> DEFINE at == [stage EXCEPT ![t] = "done"]
<1>1. /\ stage[t] = "settled" /\ Drain(waiting, active - 1, at) /\ FinishDrain
      /\ UNCHANGED <<accepting, cleanupOnly, aborted, result, immediate>>
  BY DEF Release
<1>2. t \in BusyAt(stage) /\ BusyAt(at) = BusyAt(stage) \ {t}
  BY <1>1 DEF TypeOK, BusyAt
<1>3. /\ Cardinality(BusyAt(at)) = active - 1
      /\ active - 1 \in Nat
  <2>1. Cardinality(BusyAt(at)) = active - 1
    BY <1>2, InvHolds, OneLessBusy
  <2>2. Cardinality(BusyAt(at)) \in Nat
    BY BusyFinite, FS_CardinalityType
  <2> QED
    BY <2>1, <2>2
<1>4. at \in [Tasks -> Stages]
  BY DEF TypeOK, Stages
<1>5. Holds(waiting, at)
  <2>1. \A v \in Tasks : at[v] = "waiting" <=> stage[v] = "waiting"
    BY <1>1 DEF TypeOK
  <2> QED
    BY <2>1, InvHolds DEF Holds
<1>6. /\ active - 1 <= OrdinaryConcurrency
      /\ Len(waiting) <= 1 \/ active - 1 >= OrdinaryConcurrency - 1
  BY InvHolds, ConcurrencyAssumption DEF TypeOK, OrdinaryConcurrency
<1>7. /\ waiting' \in Seq(Tasks) /\ active' \in Nat /\ stage' \in [Tasks -> Stages]
      /\ WorkersAreCounted' /\ WorkConserving'
  BY <1>1, <1>3, <1>4, <1>5, <1>6, DrainCorrect
<1>8. \A k \in Closers : closing[k] # "resolved"
  BY <1>3 DEF AnsweredIsIdle
<1>9. /\ closing' \in [Closers -> {"none", "pending", "resolved"}]
      /\ AnsweredIsIdle' /\ \A k \in Closers : closing'[k] # "none" => closing[k] # "none"
  BY <1>1, <1>8, FinishDrainCorrect
<1> QED
  BY <1>1, <1>7, <1>9 DEF TypeOK, ClosingRefuses

\* The synchronous call leaves the count as it found it.
LEMMA PoolRunImmediate ==
    ASSUME PoolInv, NEW i \in Immediates, NEW duty \in Duties, RunImmediate(i, duty)
    PROVE  PoolInv'
<1> USE DEF PoolInv
<1>1. CASE Accepts(duty) /\ active < Concurrency
  <2>1. /\ immediate' \in [Immediates -> Outcomes]
        /\ Drain(waiting, active, stage) /\ FinishDrain
        /\ UNCHANGED <<accepting, cleanupOnly, aborted, result>>
    BY <1>1 DEF RunImmediate, TypeOK, Outcomes
  <2>2. Len(waiting) <= 1 \/ active >= OrdinaryConcurrency - 1
    BY InvHolds, ConcurrencyAssumption DEF TypeOK, OrdinaryConcurrency
  <2>3. stage \in [Tasks -> Stages]
    BY DEF TypeOK
  <2>4. /\ waiting' \in Seq(Tasks) /\ active' \in Nat /\ stage' \in [Tasks -> Stages]
        /\ WorkersAreCounted' /\ WorkConserving'
    BY <2>1, <2>2, <2>3, InvHolds, DrainCorrect
  <2>5. \A k \in Closers : closing[k] = "none"
    BY <1>1 DEF Accepts, ClosingRefuses
  <2>6. /\ closing' \in [Closers -> {"none", "pending", "resolved"}]
        /\ AnsweredIsIdle' /\ \A k \in Closers : closing'[k] # "none" => closing[k] # "none"
    BY <2>1, <2>5, FinishDrainCorrect
  <2> QED
    BY <2>1, <2>4, <2>6 DEF TypeOK, ClosingRefuses
<1>2. CASE ~(Accepts(duty) /\ active < Concurrency)
  <2>1. /\ immediate' = [immediate EXCEPT ![i] = "refused"]
        /\ UNCHANGED <<waiting, active, stage, closing, accepting, cleanupOnly, aborted, result>>
    BY <1>2 DEF RunImmediate
  <2>2. TypeOK'
    BY <2>1 DEF TypeOK, Outcomes
  <2> QED
    BY <2>1, <2>2, Undisturbed DEF ClosingRefuses, AnsweredIsIdle
<1> QED
  BY <1>1, <1>2

LEMMA PoolClose == ASSUME PoolInv, NEW k \in Closers, Close(k) PROVE PoolInv'
<1> USE DEF PoolInv
<1>1. /\ accepting' = FALSE /\ cleanupOnly' = FALSE
      /\ closing' = [closing EXCEPT
             ![k] = IF active = 0 /\ waiting = <<>> THEN "resolved" ELSE "pending"]
      /\ UNCHANGED <<aborted, waiting, active, stage, result, immediate>>
  BY DEF Close
<1>2. closing' \in [Closers -> {"none", "pending", "resolved"}] /\ AnsweredIsIdle'
  BY <1>1 DEF TypeOK, AnsweredIsIdle
<1>3. accepting' \in BOOLEAN /\ cleanupOnly' \in BOOLEAN /\ ClosingRefuses'
  BY <1>1, Zenon DEF ClosingRefuses
<1>4. TypeOK'
  BY <1>1, <1>2, <1>3 DEF TypeOK
<1> QED
  BY <1>1, <1>2, <1>3, <1>4, Undisturbed

\* shutdown empties the queue and answers whoever waited in it.
LEMMA PoolShutdown == ASSUME PoolInv, Shutdown PROVE PoolInv'
<1> USE DEF PoolInv
<1>1. /\ accepting' = FALSE /\ cleanupOnly' = FALSE /\ aborted' = Duties
      /\ stage' = [t \in Tasks |-> IF t \in Queued THEN "done" ELSE stage[t]]
      /\ result' = Rejecting(Queued)
      /\ waiting' = <<>> /\ UNCHANGED <<active, immediate>> /\ FinishDrain
  BY DEF Shutdown
<1>2. accepting' \in BOOLEAN /\ cleanupOnly' \in BOOLEAN /\ ClosingRefuses'
  BY <1>1, Zenon DEF ClosingRefuses
<1>3. /\ closing' \in [Closers -> {"none", "pending", "resolved"}] /\ AnsweredIsIdle'
  BY <1>1, FinishDrainCorrect DEF AnsweredIsIdle
<1>4. waiting' \in Seq(Tasks) /\ active' \in Nat /\ aborted' \subseteq Duties
  BY <1>1 DEF TypeOK
<1>5. stage' \in [Tasks -> Stages] /\ result' \in [Tasks -> Outcomes]
  BY <1>1 DEF TypeOK, Stages, Outcomes, Rejecting
<1>6. TypeOK'
  BY <1>1, <1>2, <1>3, <1>4, <1>5 DEF TypeOK
<1>7. Busy' = Busy /\ Queued' = {} /\ DOMAIN waiting' = {}
  BY <1>1 DEF Busy, Queued, TypeOK
<1>8. WorkersAreCounted' /\ WorkConserving'
  BY <1>1, <1>7 DEF WorkersAreCounted, WorkConserving
<1> QED
  BY <1>2, <1>3, <1>6, <1>8

\* drainCleanup keeps the cleanup tasks in their order, so each of them still
\* stands in the line once, and the line is no longer than it was.
LEMMA KeptLine ==
    ASSUME PoolInv, NEW line \in InOrder(Queued \cap Cleanup, waiting)
    PROVE  /\ Holds(line, [t \in Tasks |->
                              IF t \in Queued \ Cleanup THEN "done" ELSE stage[t]])
           /\ \A i \in DOMAIN line : line[i] \in Queued
           /\ Len(line) <= Len(waiting)
<1> USE DEF PoolInv
<1> DEFINE kept == Queued \cap Cleanup
           at == [t \in Tasks |-> IF t \in Queued \ Cleanup THEN "done" ELSE stage[t]]
<1>1. PICK m \in Nat : m = Cardinality(kept)
  <2>1. IsFiniteSet(kept)
    BY TasksAssumption, FS_Subset DEF Queued
  <2> QED
    BY <2>1, FS_CardinalityType
<1>2. /\ line \in Seq(Tasks) /\ DOMAIN line = 1 .. m /\ Len(line) = m
      /\ \A i \in DOMAIN line : line[i] \in kept
      /\ \A t \in kept : \E i \in DOMAIN line : line[i] = t
  <2>1. line \in [1 .. m -> kept] /\ \A t \in kept : \E i \in DOMAIN line : line[i] = t
    BY <1>1 DEF InOrder
  <2>2. kept \subseteq Tasks
    BY DEF Queued
  <2> HIDE DEF kept
  <2>3. line \in [1 .. m -> Tasks]
    BY <2>1, <2>2
  <2>4. line \in Seq(Tasks) /\ Len(line) = m
    BY <2>3
  <2> QED
    BY <2>1, <2>4
<1>3. \A i, j \in DOMAIN line : line[i] = line[j] => i = j
  <2>1. \A i, j \in DOMAIN line : i < j => line[i] # line[j]
    <3> SUFFICES ASSUME NEW i \in DOMAIN line, NEW j \in DOMAIN line, i < j
                 PROVE  line[i] # line[j]
      OBVIOUS
    <3>1. PICK p \in DOMAIN waiting, q \in DOMAIN waiting :
              p < q /\ waiting[p] = line[i] /\ waiting[q] = line[j]
      BY DEF InOrder
    <3>2. p # q
      BY <3>1 DEF TypeOK
    <3> QED
      BY <3>1, <3>2, InvHolds DEF Holds
  <2>2. ASSUME NEW i \in 1 .. m, NEW j \in 1 .. m, i # j PROVE i < j \/ j < i
    BY <2>2
  <2> QED
    BY <2>1, <2>2, <1>2
<1>4. Holds(line, at)
  <2>1. \A t \in Tasks : at[t] = "waiting" <=> t \in kept
    BY DEF Queued
  <2>2. {t \in Tasks : at[t] = "waiting"} = {line[i] : i \in DOMAIN line}
    BY <2>1, <1>2 DEF Queued
  <2> QED
    BY <1>2, <1>3, <2>2 DEF Holds
<1>5. Len(line) <= Len(waiting)
  <2> DEFINE n == Len(waiting)
  <2>0. n \in Nat /\ DOMAIN waiting = 1 .. n /\ waiting \in [1 .. n -> Tasks]
    BY DEF TypeOK
  <2> HIDE DEF n
  <2>1. IsFiniteSet(1 .. n) /\ Cardinality(1 .. n) = n
    <3>1. 1 \in Int /\ n \in Int /\ (1 > n => n = 0)
      BY <2>0
    <3> QED
      BY <2>0, <3>1, FS_Interval
  <2>2. waiting \in Surjection(1 .. n, Queued)
    <3>1. Queued = {waiting[i] : i \in 1 .. n}
      BY <2>0, InvHolds DEF Holds, Queued
    <3> QED
      BY <2>0, <3>1 DEF Surjection
  <2>3. Cardinality(Queued) <= n /\ IsFiniteSet(Queued)
    BY <2>1, <2>2, FS_Surjection
  <2>4. m <= Cardinality(Queued)
    BY <1>1, <2>3, FS_Subset
  <2>5. Cardinality(Queued) \in Nat
    BY <2>3, FS_CardinalityType
  <2> QED
    BY <1>2, <2>0, <2>3, <2>4, <2>5 DEF n
<1> QED
  BY <1>2, <1>4, <1>5

\* drainCleanup.
LEMMA PoolDrainCleanup == ASSUME PoolInv, DrainCleanup PROVE PoolInv'
<1> USE DEF PoolInv
<1> DEFINE kept == Queued \cap Cleanup
           at == [t \in Tasks |-> IF t \in Queued \ Cleanup THEN "done" ELSE stage[t]]
<1>1. PICK line \in InOrder(kept, waiting) : Drain(line, active, at)
  BY DEF DrainCleanup
<1>2. /\ accepting \/ cleanupOnly
      /\ accepting' = FALSE /\ cleanupOnly' = TRUE /\ FinishDrain
      /\ aborted' = aborted \cup {"ordinary"} /\ UNCHANGED immediate
      /\ result' = Rejecting(Queued \ Cleanup)
  BY DEF DrainCleanup
<1>6. Holds(line, at) /\ \A i \in DOMAIN line : line[i] \in Queued
  BY KeptLine
<1>4. line \in Seq(Tasks) /\ DOMAIN line = 1 .. Len(line)
  BY <1>6 DEF Holds
<1>7. at \in [Tasks -> Stages] /\ BusyAt(at) = BusyAt(stage)
  BY DEF TypeOK, Stages, BusyAt, Queued
<1>8. Len(line) <= 1 \/ active >= OrdinaryConcurrency - 1
  <2>1. ASSUME Len(line) > 1 PROVE waiting # <<>>
    <3>1. 1 \in DOMAIN line
      BY <2>1, <1>4
    <3>2. line[1] \in Queued
      BY <3>1, <1>6
    <3>3. PICK i \in DOMAIN waiting : waiting[i] = line[1]
      BY <3>2, InvHolds DEF Holds, Queued
    <3> QED
      BY <3>3
  <2> QED
    BY <2>1, InvHolds, <1>4, ConcurrencyAssumption DEF OrdinaryConcurrency
<1>9. /\ waiting' \in Seq(Tasks) /\ active' \in Nat /\ stage' \in [Tasks -> Stages]
      /\ WorkersAreCounted' /\ WorkConserving'
  BY <1>1, <1>6, <1>7, <1>8, InvHolds, DrainCorrect
<1>10. \A k \in Closers : closing[k] = "none"
  BY <1>2 DEF ClosingRefuses
<1>11. /\ closing' \in [Closers -> {"none", "pending", "resolved"}] /\ AnsweredIsIdle'
       /\ \A k \in Closers : closing'[k] = "none"
  BY <1>2, <1>10, FinishDrainCorrect
<1>12. accepting' \in BOOLEAN /\ cleanupOnly' \in BOOLEAN
  BY <1>2, Zenon
<1>13. aborted' \subseteq Duties /\ result' \in [Tasks -> Outcomes]
  BY <1>2 DEF TypeOK, Duties, Outcomes, Rejecting
<1>14. TypeOK'
  BY <1>2, <1>9, <1>11, <1>12, <1>13 DEF TypeOK
<1> QED
  BY <1>9, <1>11, <1>14 DEF ClosingRefuses

-----------------------------------------------------------------------------
LEMMA PoolNext == PoolInv /\ [Next]_vars => PoolInv'
<1> SUFFICES ASSUME PoolInv, [Next]_vars PROVE PoolInv'
  OBVIOUS
<1>1. CASE UNCHANGED vars
  <2>1. TypeOK' /\ UNCHANGED <<waiting, active, stage, closing, accepting, cleanupOnly>>
    BY <1>1 DEF vars, PoolInv, TypeOK
  <2>2. WorkersAreCounted' /\ WorkConserving'
    BY <2>1, Undisturbed
  <2> QED
    BY <2>1, <2>2 DEF PoolInv, ClosingRefuses, AnsweredIsIdle
<1> QED
  BY <1>1, PoolRun, PoolWork, PoolRelease, PoolRunImmediate, PoolClose, PoolShutdown,
     PoolDrainCleanup DEF Next, Work

\* Everything below rests on this: however calls, ends, closes and aborts
\* interleave, the pool stays within PoolInv.
LEMMA PoolCorrect == Spec => []PoolInv
BY PoolInit, PoolNext, PTL DEF Spec

-----------------------------------------------------------------------------
(* What a step leaves to the other tasks, for those who use the pool. *)

\* A task no call was about is where it was, or was taken out of the queue.
Moved(u) ==
    /\ stage'[u] = stage[u] \/ (stage[u] = "waiting" /\ stage'[u] = "taken")
    /\ result'[u] = result[u]

QueueIsBounded == Len(waiting) <= QueueCapacity

\* drain takes tasks out of the line and does nothing else to a task.
LEMMA DrainMoves ==
    ASSUME NEW line, NEW busy \in Int, NEW at \in [Tasks -> Stages],
           Holds(line, at), Drain(line, busy, at)
    PROVE  /\ \A u \in Tasks : \/ stage'[u] = at[u]
                               \/ at[u] = "waiting" /\ stage'[u] = "taken"
           /\ Len(waiting') <= Len(line)
<1> DEFINE n == Taken(line, busy)
<1>1. line \in Seq(Tasks) /\ Len(line) \in Nat /\ DOMAIN line = 1 .. Len(line)
  BY DEF Holds
<1>2. n \in Nat /\ n <= Len(line)
  BY <1>1, ConcurrencyAssumption DEF Taken, OrdinaryConcurrency
<1>3. /\ waiting' = SubSeq(line, n + 1, Len(line))
      /\ stage' = [t \in Tasks |->
             IF \E i \in 1 .. n : line[i] = t THEN "taken" ELSE at[t]]
  BY DEF Drain
<1> HIDE DEF n
<1>4. \A i \in 1 .. n : at[line[i]] = "waiting"
  BY <1>1, <1>2 DEF Holds
<1>5. Len(SubSeq(line, n + 1, Len(line))) <= Len(line)
  <2>1. n = Len(line) \/ n + 1 \in 1 .. Len(line)
    <3>1. \A a, b \in Nat : a <= b => a = b \/ a + 1 \in 1 .. b
      OBVIOUS
    <3> QED
      BY <1>1, <1>2, <3>1
  <2>2. CASE n = Len(line)
    BY <1>1, <1>2, <2>2
  <2>3. CASE n + 1 \in 1 .. Len(line)
    <3>1. Len(line) \in 1 .. Len(line)
      BY <1>1, <1>2, <2>3
    <3> QED
      BY <1>1, <2>3, <3>1
  <2> QED
    BY <2>1, <2>2, <2>3, Zenon
<1>6. ASSUME NEW u \in Tasks
      PROVE  stage'[u] = at[u] \/ (at[u] = "waiting" /\ stage'[u] = "taken")
  <2>1. stage'[u] = IF \E i \in 1 .. n : line[i] = u THEN "taken" ELSE at[u]
    BY <1>3
  <2> QED
    BY <1>4, <2>1
<1> QED
  BY <1>3, <1>5, <1>6

\* A call is turned away, or its task waits or has been taken.
LEMMA RunMoves ==
    ASSUME PoolInv, QueueIsBounded, NEW t \in Tasks, Run(t)
    PROVE  /\ stage[t] = "new"
           /\ \A u \in Tasks \ {t} : Moved(u)
           /\ \/ stage'[t] \in {"waiting", "taken"} /\ result'[t] = result[t]
              \/ /\ stage'[t] = "done" /\ result'[t] = "refused"
                 /\ ~Accepts(DutyOf(t)) \/ Len(waiting) = QueueCapacity
           /\ QueueIsBounded'
           /\ UNCHANGED <<accepting, cleanupOnly, aborted, closing>>
<1>1. CASE ~(Accepts(DutyOf(t)) /\ Len(waiting) < QueueCapacity)
  BY <1>1, QueueCapacityAssumption
     DEF Run, Moved, PoolInv, TypeOK, QueueIsBounded
<1>2. CASE Accepts(DutyOf(t)) /\ Len(waiting) < QueueCapacity
  <2> DEFINE line == Append(waiting, t)
             at == [stage EXCEPT ![t] = "waiting"]
  <2>1. /\ stage[t] = "new" /\ Drain(line, active, at)
        /\ UNCHANGED <<result, accepting, cleanupOnly, aborted, closing>>
    BY <1>2 DEF Run
  <2>2. at \in [Tasks -> Stages] /\ Holds(line, at) /\ active \in Nat
    BY <2>1, JoinsTheLine DEF PoolInv, TypeOK, Stages
  <2>3. Len(line) = Len(waiting) + 1 /\ Len(waiting) \in Nat
    BY DEF PoolInv, TypeOK
  <2> HIDE DEF line
  <2>4. /\ \A u \in Tasks : \/ stage'[u] = at[u]
                            \/ at[u] = "waiting" /\ stage'[u] = "taken"
        /\ Len(waiting') <= Len(line)
    <3> HIDE DEF at
    <3> QED
      BY <2>1, <2>2, DrainMoves
  <2>5. QueueIsBounded' /\ Len(waiting') \in Nat
    BY PoolRun, <1>2, <2>3, <2>4, QueueCapacityAssumption DEF QueueIsBounded, PoolInv, TypeOK
  <2> QED
    BY <2>1, <2>4, <2>5 DEF Moved, PoolInv, TypeOK
<1> QED
  BY <1>1, <1>2

\* An operation that begins or ends.
LEMMA WorkMoves ==
    ASSUME PoolInv, NEW t \in Tasks, Begin(t) \/ Finish(t)
    PROVE  /\ \A u \in Tasks \ {t} : Moved(u)
           /\ UNCHANGED <<accepting, cleanupOnly, aborted, waiting, closing>>
BY DEF Begin, Finish, Moved, PoolInv, TypeOK

\* A worker that is given back.
LEMMA ReleaseMoves ==
    ASSUME PoolInv, QueueIsBounded, NEW t \in Tasks, Release(t)
    PROVE  /\ stage[t] = "settled" /\ stage'[t] = "done" /\ result'[t] = result[t]
           /\ \A u \in Tasks \ {t} : Moved(u)
           /\ QueueIsBounded'
           /\ \A k \in Closers : closing[k] = "resolved" => closing'[k] = "resolved"
           /\ UNCHANGED <<accepting, cleanupOnly, aborted>>
<1> DEFINE at == [stage EXCEPT ![t] = "done"]
<1>1. /\ stage[t] = "settled" /\ Drain(waiting, active - 1, at) /\ FinishDrain
      /\ UNCHANGED <<accepting, cleanupOnly, aborted, result>>
  BY DEF Release
<1>2. at \in [Tasks -> Stages] /\ Holds(waiting, at)
  BY <1>1, InvHolds DEF PoolInv, TypeOK, Stages, Holds
<1>3. active - 1 \in Int
  BY DEF PoolInv, TypeOK
<1>4. /\ \A u \in Tasks : \/ stage'[u] = at[u]
                          \/ at[u] = "waiting" /\ stage'[u] = "taken"
      /\ Len(waiting') <= Len(waiting)
  <2> HIDE DEF at
  <2> QED
    BY <1>1, <1>2, <1>3, DrainMoves
<1>5. QueueIsBounded'
  BY <1>4, PoolRelease, QueueCapacityAssumption DEF QueueIsBounded, PoolInv, TypeOK
<1>6. \A k \in Closers : closing[k] = "resolved" => closing'[k] = "resolved"
  BY <1>1 DEF FinishDrain
<1> QED
  BY <1>1, <1>4, <1>5, <1>6 DEF Moved, PoolInv, TypeOK

\* A task whose end is forgotten may be used again.
LEMMA ForgottenKeeps ==
    ASSUME PoolInv, NEW t \in Tasks, stage[t] = "done",
           stage' = [stage EXCEPT ![t] = "new"], result' = [result EXCEPT ![t] = "none"],
           UNCHANGED <<accepting, cleanupOnly, aborted, waiting, active, immediate, closing>>
    PROVE  PoolInv' /\ \A u \in Tasks \ {t} : Moved(u)
<1>1. /\ BusyAt(stage') = BusyAt(stage)
      /\ \A v \in Tasks : stage'[v] = "waiting" <=> stage[v] = "waiting"
  BY DEF PoolInv, TypeOK, BusyAt
<1>2. TypeOK'
  BY DEF PoolInv, TypeOK, Stages, Outcomes
<1>3. \A u \in Tasks \ {t} : Moved(u)
  BY DEF PoolInv, TypeOK, Moved
<1> QED
  BY <1>1, <1>2, <1>3, Undisturbed DEF PoolInv, ClosingRefuses, AnsweredIsIdle

\* A close, an abort and a drain end what waits, and touch nothing that runs.
LEMMA EndingMoves ==
    ASSUME PoolInv, QueueIsBounded,
           (\E k \in Closers : Close(k)) \/ Shutdown \/ DrainCleanup
    PROVE  /\ \A u \in Tasks : /\ stage[u] = "running" => stage'[u] = "running"
                               /\ result'[u] = "refused" => result[u] = "refused"
           /\ QueueIsBounded'
           /\ \A k \in Closers : closing[k] = "resolved" => closing'[k] = "resolved"
<1>1. CASE \E k \in Closers : Close(k)
  BY <1>1 DEF Close, QueueIsBounded
<1>2. CASE Shutdown
  <2>1. Len(waiting') = 0
    BY <1>2 DEF Shutdown
  <2>2. \A u \in Tasks : /\ stage[u] = "running" => stage'[u] = "running"
                         /\ result'[u] = "refused" => result[u] = "refused"
    BY <1>2 DEF Shutdown, Rejecting, Queued
  <2>3. \A k \in Closers : closing[k] = "resolved" => closing'[k] = "resolved"
    BY <1>2 DEF Shutdown, FinishDrain
  <2> QED
    BY <2>1, <2>2, <2>3, QueueCapacityAssumption DEF QueueIsBounded
<1>3. CASE DrainCleanup
  <2> DEFINE at == [t \in Tasks |-> IF t \in Queued \ Cleanup THEN "done" ELSE stage[t]]
  <2>1. PICK line \in InOrder(Queued \cap Cleanup, waiting) : Drain(line, active, at)
    BY <1>3 DEF DrainCleanup
  <2>2. FinishDrain /\ result' = Rejecting(Queued \ Cleanup)
    BY <1>3 DEF DrainCleanup
  <2>3. at \in [Tasks -> Stages] /\ active \in Int
    BY DEF PoolInv, TypeOK, Stages
  <2>4. Holds(line, at) /\ Len(line) <= Len(waiting)
    BY KeptLine
  <2>5. /\ \A u \in Tasks : \/ stage'[u] = at[u]
                            \/ at[u] = "waiting" /\ stage'[u] = "taken"
        /\ Len(waiting') <= Len(line)
    <3> HIDE DEF at
    <3> QED
      BY <2>1, <2>3, <2>4, DrainMoves
  <2>6. Len(line) \in Nat /\ Len(waiting') \in Nat /\ Len(waiting) \in Nat
    BY <1>3, <2>4, PoolDrainCleanup DEF Holds, PoolInv, TypeOK
  <2>7. QueueIsBounded'
    BY <2>4, <2>5, <2>6, QueueCapacityAssumption DEF QueueIsBounded
  <2>8. \A u \in Tasks : stage[u] = "running" => stage'[u] = "running"
    BY <2>5 DEF Queued
  <2>9. \A u \in Tasks : result'[u] = "refused" => result[u] = "refused"
    BY <2>2 DEF Rejecting
  <2>10. \A k \in Closers : closing[k] = "resolved" => closing'[k] = "resolved"
    BY <2>2 DEF FinishDrain
  <2> QED
    BY <2>7, <2>8, <2>9, <2>10
<1> QED
  BY <1>1, <1>2, <1>3

\* The line never grows beyond its capacity, whatever is asked of the pool.
LEMMA BoundedNext == PoolInv /\ QueueIsBounded /\ [Next]_vars => QueueIsBounded'
<1> SUFFICES ASSUME PoolInv, QueueIsBounded, [Next]_vars PROVE QueueIsBounded'
  OBVIOUS
<1>1. CASE UNCHANGED vars
  BY <1>1 DEF vars, QueueIsBounded
<1>2. ASSUME NEW i \in Immediates, NEW duty \in Duties, RunImmediate(i, duty)
      PROVE  QueueIsBounded'
  <2>1. CASE UNCHANGED waiting
    BY <2>1 DEF QueueIsBounded
  <2>2. CASE Drain(waiting, active, stage)
    <3>1. Len(waiting') <= Len(waiting)
      BY <2>2, InvHolds, DrainMoves DEF PoolInv, TypeOK
    <3> QED
      BY <1>2, <3>1, PoolRunImmediate, QueueCapacityAssumption
         DEF QueueIsBounded, PoolInv, TypeOK
  <2> QED
    BY <1>2, <2>1, <2>2 DEF RunImmediate
<1>3. ASSUME NEW t \in Tasks, Begin(t) \/ Finish(t) PROVE QueueIsBounded'
  BY <1>3, WorkMoves DEF QueueIsBounded
<1> QED
  BY <1>1, <1>2, <1>3, RunMoves, ReleaseMoves, EndingMoves DEF Next, Work

-----------------------------------------------------------------------------
\* The pool's variables always have their types.
THEOREM TypeCorrect == Spec => []TypeOK
BY PoolCorrect, PTL DEF PoolInv

\* No worker is lost or counted twice, and no queued task is lost or doubled.
THEOREM WorkersCounted == Spec => []WorkersAreCounted
BY PoolCorrect, PTL DEF PoolInv

\* No task waits beside a worker it could have, and runImmediate always finds one.
THEOREM WorkConserved == Spec => []WorkConserving
BY PoolCorrect, PTL DEF PoolInv

\* No more calls wait than IO_EXECUTION_QUEUE_CAPACITY: what comes beyond is
\* turned away and not held in memory.
THEOREM QueueBounded == Spec => []QueueIsBounded
<1>1. Init => QueueIsBounded
  BY QueueCapacityAssumption DEF Init, QueueIsBounded
<1> QED
  BY <1>1, BoundedNext, PoolCorrect, PTL DEF Spec

\* Once a close has been answered the pool is idle for good.
THEOREM ClosedIdle == Spec => []ClosedIsIdle
<1>1. PoolInv => ClosedIsIdle
  BY DEF PoolInv, ClosingRefuses, AnsweredIsIdle, ClosedIsIdle
<1> QED
  BY <1>1, PoolCorrect, PTL

\* No operation of an aborted duty begins, and none of them is reported as a
\* success.
THEOREM AbortedFails == Spec => AbortedWorkFails
<1>1. TypeOK /\ [Next]_vars =>
        [\A t \in Tasks : DutyOf(t) \in aborted =>
           /\ stage[t] # "running" => stage'[t] # "running"
           /\ result'[t] = "fulfilled" => result[t] = "fulfilled"]_vars
  <2> SUFFICES ASSUME TypeOK, Next, NEW t \in Tasks, DutyOf(t) \in aborted
               PROVE  /\ stage[t] # "running" => stage'[t] # "running"
                      /\ result'[t] = "fulfilled" => result[t] = "fulfilled"
    OBVIOUS
  <2>1. ASSUME NEW u \in Tasks, Run(u) \/ Release(u)
        PROVE  /\ stage[t] # "running" => stage'[t] # "running"
               /\ result'[t] = "fulfilled" => result[t] = "fulfilled"
    BY <2>1 DEF Run, Release, Drain, TypeOK
  <2>2. ASSUME NEW u \in Tasks, Begin(u) \/ Finish(u)
        PROVE  /\ stage[t] # "running" => stage'[t] # "running"
               /\ result'[t] = "fulfilled" => result[t] = "fulfilled"
    BY <2>2 DEF Begin, Finish, TypeOK
  <2>3. ASSUME NEW i \in Immediates, NEW duty \in Duties, RunImmediate(i, duty)
        PROVE  /\ stage[t] # "running" => stage'[t] # "running"
               /\ result'[t] = "fulfilled" => result[t] = "fulfilled"
    BY <2>3 DEF RunImmediate, Drain, TypeOK
  <2>4. CASE Shutdown \/ DrainCleanup
    BY <2>4 DEF Shutdown, DrainCleanup, Drain, Rejecting, TypeOK
  <2>5. ASSUME NEW k \in Closers, Close(k)
        PROVE  /\ stage[t] # "running" => stage'[t] # "running"
               /\ result'[t] = "fulfilled" => result[t] = "fulfilled"
    BY <2>5 DEF Close
  <2> QED
    BY <2>1, <2>2, <2>3, <2>4, <2>5 DEF Next, Work
<1> QED
  BY <1>1, TypeCorrect, PTL DEF Spec, AbortedWorkFails

\* Together: whatever the sizes of the pool and of its queue, its workers are
\* counted and used.
THEOREM WorkersUsed == Spec => []WorkersAreUsed
BY PoolCorrect, PTL DEF PoolInv, WorkersAreUsed

\* ... and what was closed or aborted comes to nothing more.
THEOREM EndsFinal == Spec => EndsAreFinal
BY ClosedIdle, AbortedFails, PTL DEF EndsAreFinal
=============================================================================
