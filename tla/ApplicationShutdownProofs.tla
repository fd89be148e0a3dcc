--------------------- MODULE ApplicationShutdownProofs ---------------------
(***************************************************************************)
(* Theorems about ApplicationShutdown: nothing uses a closed database, a   *)
(* close leaves no duty and no checkout behind, and a duty that was not    *)
(* stopped is never silenced.                                              *)
(*                                                                         *)
(* The pool is used by its invariant: what a step of the application does  *)
(* to the pool is a step of IoExecutionPool, whose theorems hold for these *)
(* tasks as for any.                                                       *)
(***************************************************************************)
EXTENDS ApplicationShutdown, FunctionTheorems, FiniteSetTheorems, TLAPS

Proven == INSTANCE IoExecutionPoolProofs WITH
              Tasks <- Tasks, Cleanup <- Removals, Immediates <- {}, Closers <- Closers

-----------------------------------------------------------------------------
(* The tasks of the pool *)

LEMMA TaggedFinite ==
    ASSUME NEW S, IsFiniteSet(S), NEW tag
    PROVE  IsFiniteSet({<<tag, x>> : x \in S})
<1> DEFINE f == [x \in S |-> <<tag, x>>]
           T == {<<tag, x>> : x \in S}
<1>1. f \in Surjection(S, T)
  BY DEF Surjection
<1> QED
  BY <1>1, FS_Surjection

\* The tasks are finitely many, whoever they are of.
LEMMA PoolIsAPool ==
    /\ Proven!CleanupAssumption /\ Proven!TasksAssumption
    /\ Proven!ConcurrencyAssumption /\ Proven!QueueCapacityAssumption
<1>1. IsFiniteSet(Duties)
  BY WorkAssumption, FS_Union DEF Duties
<1>2. /\ IsFiniteSet({Duty(d) : d \in Duties}) /\ IsFiniteSet({Acquisition(e) : e \in Executions})
      /\ IsFiniteSet(Removals) /\ IsFiniteSet({Changeset(r) : r \in Requests})
  BY <1>1, WorkAssumption, TaggedFinite DEF Duty, Acquisition, Removals, Removal, Changeset
<1>3. IsFiniteSet(Tasks)
  <2> DEFINE A == {Duty(d) : d \in Duties}
             B == {Acquisition(e) : e \in Executions}
             C == {Changeset(r) : r \in Requests}
  <2>1. Tasks = ((A \cup B) \cup Removals) \cup C
    BY DEF Tasks
  <2> HIDE DEF A, B, C
  <2>2. IsFiniteSet(A) /\ IsFiniteSet(B) /\ IsFiniteSet(Removals) /\ IsFiniteSet(C)
    BY <1>2 DEF A, B, C
  <2> QED
    BY <2>1, <2>2, FS_Union
<1> QED
  BY <1>3, PoolAssumption
     DEF Proven!CleanupAssumption, Proven!TasksAssumption, Proven!ConcurrencyAssumption,
         Proven!QueueCapacityAssumption, Proven!IsFiniteSet, IsFiniteSet, Tasks

\* Everybody's tasks are their own, and only removals are cleanup.
LEMMA TasksAreDistinct ==
    /\ \A d \in Duties : Duty(d) \in Tasks /\ Proven!DutyOf(Duty(d)) = "ordinary"
    /\ \A e \in Executions : /\ Acquisition(e) \in Tasks /\ Removal(e) \in Tasks
                             /\ Proven!DutyOf(Removal(e)) = "cleanup"
    /\ \A r \in Requests : Changeset(r) \in Tasks
    /\ \A d, c \in Duties : Duty(d) = Duty(c) => d = c
    /\ \A e, f \in Executions : Removal(e) = Removal(f) => e = f
    /\ \A d \in Duties, e \in Executions : Duty(d) # Acquisition(e) /\ Duty(d) # Removal(e)
    /\ \A d \in Duties, r \in Requests : Duty(d) # Changeset(r)
    /\ \A e \in Executions, r \in Requests : Removal(e) # Changeset(r)
    /\ \A e, f \in Executions : Removal(e) # Acquisition(f)
BY DEF Tasks, Removals, Duty, Acquisition, Removal, Changeset, Proven!DutyOf

\* The pool's steps are those the theorems about it are of.
LEMMA PoolSteps ==
    /\ \A t \in Tasks : /\ Pool!Run(t) => Proven!Run(t)
                        /\ Pool!Begin(t) => Proven!Begin(t)
                        /\ Pool!Finish(t) => Proven!Finish(t)
                        /\ Pool!Release(t) => Proven!Release(t)
    /\ \A k \in Closers : Pool!Close(k) => Proven!Close(k)
    /\ Pool!Shutdown => Proven!Shutdown
    /\ Pool!DrainCleanup => Proven!DrainCleanup
<1>1. ASSUME NEW t \in Tasks, Pool!Run(t) PROVE Proven!Run(t)
  BY <1>1 DEF Pool!Run, Proven!Run, Pool!Accepts, Proven!Accepts, Pool!DutyOf, Proven!DutyOf,
     Pool!Drain, Proven!Drain, Pool!Taken, Proven!Taken, Pool!OrdinaryConcurrency,
     Proven!OrdinaryConcurrency
<1>2. ASSUME NEW t \in Tasks
      PROVE  Pool!Begin(t) => Proven!Begin(t)
  BY DEF Pool!Begin, Proven!Begin, Pool!DutyOf, Proven!DutyOf
<1>3. ASSUME NEW t \in Tasks
      PROVE  Pool!Finish(t) => Proven!Finish(t)
  BY DEF Pool!Finish, Proven!Finish, Pool!DutyOf, Proven!DutyOf
<1>4. ASSUME NEW t \in Tasks, Pool!Release(t) PROVE Proven!Release(t)
  BY <1>4 DEF Pool!Release, Proven!Release, Pool!FinishDrain, Proven!FinishDrain,
     Pool!Drain, Proven!Drain, Pool!Taken, Proven!Taken, Pool!OrdinaryConcurrency,
     Proven!OrdinaryConcurrency
<1>5. ASSUME NEW k \in Closers, Pool!Close(k) PROVE Proven!Close(k)
  BY <1>5 DEF Pool!Close, Proven!Close
<1>6. ASSUME Pool!Shutdown PROVE Proven!Shutdown
  BY <1>6 DEF Pool!Shutdown, Proven!Shutdown, Pool!FinishDrain, Proven!FinishDrain,
     Pool!Queued, Proven!Queued, Pool!Rejecting, Proven!Rejecting, Pool!Duties, Proven!Duties
<1>7. ASSUME Pool!DrainCleanup PROVE Proven!DrainCleanup
  BY <1>7 DEF Pool!DrainCleanup, Proven!DrainCleanup, Pool!FinishDrain, Proven!FinishDrain,
     Pool!Queued, Proven!Queued, Pool!Rejecting, Proven!Rejecting, Pool!InOrder,
     Proven!InOrder, Pool!Cardinality, Proven!Cardinality, Pool!IsFiniteSet, Proven!IsFiniteSet,
     Pool!Drain, Proven!Drain, Pool!Taken, Proven!Taken, Pool!OrdinaryConcurrency,
     Proven!OrdinaryConcurrency
<1> QED
  BY <1>1, <1>2, <1>3, <1>4, <1>5, <1>6, <1>7

-----------------------------------------------------------------------------
(* The invariant *)

\* The pool is in order.
Ready == Proven!PoolInv /\ Proven!QueueIsBounded

OwnTypes ==
    /\ started \in [Duties -> BOOLEAN] /\ armed \in [Duties -> BOOLEAN]
    /\ generation \in [Duties -> 0 .. 4] /\ entry \in [Duties -> 0 .. 4 \cup {None}]
    /\ operating \subseteq Duties /\ broken \subseteq Duties
    /\ claiming \in BOOLEAN /\ server \in {"listening", "closing", "closed"}
    /\ execution \in [Executions -> {"none", "acquiring", "executing", "removing", "ended"}]
    /\ request \in [Requests -> {"none", "open", "answered"}]
    /\ runtimeFailed \in BOOLEAN /\ storageFailed \in BOOLEAN
    /\ step \in {"none", "draining", "pool", "closed"}
    /\ durableCore \in {"open", "closed"}

\* Each step of the close finds what the one before it has left.
CloseInOrder ==
    /\ step # "none" => ~claiming /\ server # "listening"
    /\ server # "listening" => step # "none"
    /\ server = "closed" => \A r \in Requests : request[r] # "open"
    /\ step \in {"pool", "closed"} => server = "closed" /\ AllExecutionsEnded
    /\ step = "closed" <=> durableCore = "closed"
    /\ step = "closed" => closing["application"] = "resolved"

\* A duty that was stopped has no timer and no entry; one that was not meets
\* an open pool.
Switches ==
    \A d \in Duties :
        /\ started[d] => /\ ~runtimeFailed /\ ~storageFailed /\ step = "none"
                         /\ accepting /\ "ordinary" \notin aborted
        /\ armed[d] => started[d]
        /\ ~started[d] => entry[d] = None

\* The generation counts what stopped the duties.
One(b) == IF b THEN 1 ELSE 0
Generations ==
    \A d \in Duties :
        generation[d] = One(runtimeFailed) + One(storageFailed) + One(step # "none")
                            + One(durableCore = "closed")

\* The task of a duty whose timer is off, as long as it is not stopped.
AtWork(d) == stage[Duty(d)] \in {"waiting", "taken", "running"} /\ entry[d] # None
Failed(d) == stage[Duty(d)] \in {"settled", "done"} /\ d \in broken

TasksOfDuties ==
    \A d \in Duties :
        /\ d \in operating => stage[Duty(d)] = "running"
        /\ entry[d] # None => stage[Duty(d)] # "new"
        /\ started[d] => armed[d] \/ (d \notin Interval /\ (AtWork(d) \/ Failed(d)))

\* The pool refuses cleanup only for a reason.
RefusalHasAReason ==
    ~accepting /\ ~cleanupOnly =>
        runtimeFailed \/ storageFailed \/ step \in {"pool", "closed"}

Inv ==
    /\ Ready /\ OwnTypes /\ CloseInOrder /\ Switches /\ Generations
    /\ TasksOfDuties /\ RefusalHasAReason

-----------------------------------------------------------------------------
(* What a step of the pool leaves to those it is not about *)

LEMMA RunLeaves ==
    ASSUME Ready, NEW t \in Tasks, Pool!Run(t)
    PROVE  /\ Ready' /\ stage[t] = "new" /\ \A u \in Tasks \ {t} : Proven!Moved(u)
           /\ \/ stage'[t] \in {"waiting", "taken"} /\ result'[t] = result[t]
              \/ /\ stage'[t] = "done" /\ result'[t] = "refused"
                 /\ ~Proven!Accepts(Proven!DutyOf(t)) \/ Len(waiting) = QueueCapacity
           /\ UNCHANGED <<accepting, cleanupOnly, aborted, closing>>
BY PoolIsAPool, PoolSteps, Proven!PoolRun, Proven!RunMoves DEF Ready

LEMMA WorkLeaves ==
    ASSUME Ready, NEW t \in Tasks, Pool!Begin(t) \/ Pool!Finish(t)
    PROVE  /\ Ready' /\ \A u \in Tasks \ {t} : Proven!Moved(u)
           /\ UNCHANGED <<accepting, cleanupOnly, aborted, waiting, closing>>
<1>1. Proven!Begin(t) \/ Proven!Finish(t)
  BY PoolSteps
<1>2. Proven!PoolInv'
  BY <1>1, PoolIsAPool, Proven!PoolWork DEF Ready
<1>3. /\ \A u \in Tasks \ {t} : Proven!Moved(u)
      /\ UNCHANGED <<accepting, cleanupOnly, aborted, waiting, closing>>
  BY <1>1, PoolIsAPool, Proven!WorkMoves DEF Ready
<1>4. Proven!QueueIsBounded'
  BY <1>3 DEF Ready, Proven!QueueIsBounded
<1> QED
  BY <1>2, <1>3, <1>4 DEF Ready

LEMMA ReleaseLeaves ==
    ASSUME Ready, NEW t \in Tasks, Pool!Release(t)
    PROVE  /\ Ready' /\ \A u \in Tasks \ {t} : Proven!Moved(u)
           /\ stage[t] = "settled" /\ stage'[t] = "done" /\ result'[t] = result[t]
           /\ \A k \in Closers : closing[k] = "resolved" => closing'[k] = "resolved"
           /\ UNCHANGED <<accepting, cleanupOnly, aborted>>
BY PoolIsAPool, PoolSteps, Proven!PoolRelease, Proven!ReleaseMoves DEF Ready

\* What an end of the pool leaves, whoever asks for it.
Spares ==
    /\ \A u \in Tasks : /\ stage[u] = "running" => stage'[u] = "running"
                        /\ result'[u] = "refused" => result[u] = "refused"
    /\ \A k \in Closers : closing[k] = "resolved" => closing'[k] = "resolved"

LEMMA EndLeaves ==
    ASSUME Ready, (\E k \in Closers : Pool!Close(k)) \/ Pool!Shutdown \/ Pool!DrainCleanup
    PROVE  Ready' /\ Spares
<1>1. (\E k \in Closers : Proven!Close(k)) \/ Proven!Shutdown \/ Proven!DrainCleanup
  BY PoolSteps
<1>2. Proven!PoolInv'
  BY <1>1, PoolIsAPool, Proven!PoolClose, Proven!PoolShutdown, Proven!PoolDrainCleanup DEF Ready
<1>3. Proven!QueueIsBounded' /\ Spares
  BY <1>1, PoolIsAPool, Proven!EndingMoves DEF Ready, Spares
<1> QED
  BY <1>2, <1>3 DEF Ready

\* A step that leaves the pool alone.
LEMMA NothingLeaves ==
    ASSUME Ready, UNCHANGED poolVars
    PROVE  Ready' /\ Spares /\ \A u \in Tasks : Proven!Moved(u)
<1>1. UNCHANGED Proven!vars
  BY DEF poolVars, Proven!vars
<1>2. Proven!PoolInv'
  BY <1>1, PoolIsAPool, Proven!PoolNext DEF Ready
<1> QED
  BY <1>2 DEF Ready, poolVars, Spares, Proven!Moved, Proven!QueueIsBounded

\* ClosePool: the first close or another one.
LEMMA ClosePoolLeaves ==
    ASSUME Ready, NEW k \in Closers, ClosePool(k)
    PROVE  Ready' /\ Spares /\ ~accepting' /\ ~cleanupOnly'
<1>1. CASE closing[k] = "none"
  BY <1>1, EndLeaves DEF ClosePool, Pool!Close
<1>2. CASE closing[k] # "none"
  <2>1. ~accepting /\ ~cleanupOnly
    BY <1>2 DEF Ready, Proven!PoolInv, Proven!ClosingRefuses
  <2>2. accepting' = accepting /\ cleanupOnly' = cleanupOnly
    BY <1>2, <2>1 DEF ClosePool, Ready, Proven!PoolInv, Proven!TypeOK
  <2>3. UNCHANGED poolVars
    BY <1>2, <2>2 DEF ClosePool, poolVars
  <2> QED
    BY <2>1, <2>2, <2>3, NothingLeaves
<1> QED
  BY <1>1, <1>2

-----------------------------------------------------------------------------
(* The steps of the application *)

\* A step that is about none of the duties leaves all of them as they were; a
\* worker that is given back was no longer theirs.
LEMMA DutiesUndisturbed ==
    ASSUME Inv, UNCHANGED <<dutyVars, endVars, accepting, cleanupOnly, aborted>>,
           \A d \in Duties : \/ Proven!Moved(Duty(d))
                             \/ stage[Duty(d)] = "settled" /\ stage'[Duty(d)] = "done"
    PROVE  Switches' /\ Generations' /\ TasksOfDuties' /\ RefusalHasAReason'
<1>1. UNCHANGED <<started, armed, generation, entry, operating, broken, runtimeFailed,
                  storageFailed, step, durableCore>>
  BY DEF dutyVars, endVars
<1>2. Switches'
  BY <1>1 DEF Inv, Switches
<1>3. Generations'
  BY <1>1 DEF Inv, Generations
<1>4. TasksOfDuties'
  BY <1>1 DEF Inv, TasksOfDuties, AtWork, Failed, Proven!Moved
<1>5. RefusalHasAReason'
  BY <1>1 DEF Inv, RefusalHasAReason
<1> QED
  BY <1>2, <1>3, <1>4, <1>5

\* The pool works for an executor or a request.
LEMMA TaskKeeps ==
    ASSUME Inv, NEW t \in Tasks, BeginTask(t) \/ FinishTask(t) \/ ReleaseTask(t)
    PROVE  Inv'
<1>1. UNCHANGED <<dutyVars, workVars, endVars>>
  BY DEF BeginTask, FinishTask, ReleaseTask
<1>2. /\ Ready' /\ UNCHANGED <<accepting, cleanupOnly, aborted>>
      /\ \A d \in Duties : \/ Proven!Moved(Duty(d))
                           \/ stage[Duty(d)] = "settled" /\ stage'[Duty(d)] = "done"
      /\ \A k \in Closers : closing[k] = "resolved" => closing'[k] = "resolved"
  <2>1. CASE BeginTask(t) \/ FinishTask(t)
    <3>1. \A d \in Duties : t # Duty(d) /\ Duty(d) \in Tasks
      BY <2>1, TasksAreDistinct DEF BeginTask, FinishTask
    <3>2. Pool!Begin(t) \/ Pool!Finish(t)
      BY <2>1 DEF BeginTask, FinishTask
    <3> QED
      BY <3>1, <3>2, WorkLeaves DEF Inv
  <2>2. CASE ReleaseTask(t)
    <3>1. Pool!Release(t)
      BY <2>2 DEF ReleaseTask
    <3>2. \A d \in Duties : Duty(d) \in Tasks
      BY TasksAreDistinct
    <3>3. \A u \in Tasks : Proven!Moved(u) \/ u = t
      BY <3>1, ReleaseLeaves DEF Inv
    <3> QED
      BY <3>1, <3>2, <3>3, ReleaseLeaves DEF Inv
  <2> QED
    BY <2>1, <2>2
<1>3. OwnTypes'
  BY <1>1 DEF Inv, OwnTypes, dutyVars, workVars, endVars
<1>4. CloseInOrder'
  BY <1>1, <1>2 DEF Inv, CloseInOrder, Closers, AllExecutionsEnded, workVars, endVars
<1> QED
  BY <1>1, <1>2, <1>3, <1>4, DutiesUndisturbed DEF Inv

\* An executor or a request calls the pool.
LEMMA CallKeeps ==
    ASSUME Inv, \/ \E e \in Executions : Claim(e) \/ RemoveCheckout(e)
                \/ \E r \in Requests : Arrive(r)
    PROVE  Inv'
<1>1. PICK t \in Tasks : Pool!Run(t) /\ \A d \in Duties : t # Duty(d)
  <2>1. ASSUME NEW e \in Executions, Claim(e) PROVE Pool!Run(Acquisition(e))
    BY <2>1 DEF Claim
  <2>2. ASSUME NEW e \in Executions, RemoveCheckout(e) PROVE Pool!Run(Removal(e))
    BY <2>2 DEF RemoveCheckout
  <2>3. ASSUME NEW r \in Requests, Arrive(r) PROVE Pool!Run(Changeset(r))
    BY <2>3 DEF Arrive
  <2> QED
    BY <2>1, <2>2, <2>3, TasksAreDistinct
<1>2. UNCHANGED <<dutyVars, claiming, server, endVars>>
  BY DEF Claim, RemoveCheckout, Arrive
<1>3. /\ Ready' /\ UNCHANGED <<accepting, cleanupOnly, aborted, closing>>
      /\ \A d \in Duties : Proven!Moved(Duty(d))
  BY <1>1, TasksAreDistinct, RunLeaves DEF Inv
<1>4. /\ execution' \in
            [Executions -> {"none", "acquiring", "executing", "removing", "ended"}]
      /\ request' \in [Requests -> {"none", "open", "answered"}]
  BY DEF Claim, RemoveCheckout, Arrive, Inv, OwnTypes
<1>5. OwnTypes'
  BY <1>2, <1>4 DEF Inv, OwnTypes, dutyVars, endVars
<1>6. server = "closed" => request' = request
  BY DEF Claim, RemoveCheckout, Arrive
<1>7. step \in {"pool", "closed"} => execution' = execution
  BY DEF Claim, RemoveCheckout, Arrive, Inv, CloseInOrder, AllExecutionsEnded
<1>8. CloseInOrder'
  BY <1>2, <1>3, <1>6, <1>7 DEF Inv, CloseInOrder, AllExecutionsEnded, endVars
<1> QED
  BY <1>2, <1>3, <1>5, <1>8, DutiesUndisturbed DEF Inv

\* An executor, a request or the server goes on without the pool.
LEMMA WorkKeeps ==
    ASSUME Inv, \/ \E e \in Executions : Acquired(e) \/ Removed(e)
                \/ \E r \in Requests : Answer(r)
                \/ ServerCloses
    PROVE  Inv'
<1>1. UNCHANGED <<poolVars, dutyVars, claiming, endVars>>
  BY DEF Acquired, Removed, Answer, ServerCloses
<1>2. /\ Ready' /\ UNCHANGED <<accepting, cleanupOnly, aborted, closing>>
      /\ \A d \in Duties : Proven!Moved(Duty(d))
  BY <1>1, NothingLeaves, TasksAreDistinct DEF Inv, poolVars
<1>3. /\ execution' \in
            [Executions -> {"none", "acquiring", "executing", "removing", "ended"}]
      /\ request' \in [Requests -> {"none", "open", "answered"}]
      /\ server' \in {"listening", "closing", "closed"}
  BY DEF Acquired, Removed, Answer, ServerCloses, Inv, OwnTypes
<1>4. OwnTypes'
  BY <1>1, <1>3 DEF Inv, OwnTypes, dutyVars, endVars
<1>5. CloseInOrder'
  <2>1. CASE \E e \in Executions : Acquired(e) \/ Removed(e)
    <3>1. UNCHANGED <<server, request, step, claiming, durableCore, closing>>
      BY <1>1, <2>1 DEF Acquired, Removed, endVars, poolVars
    <3>2. step \notin {"pool", "closed"}
      BY <2>1 DEF Acquired, Removed, Inv, CloseInOrder, AllExecutionsEnded
    <3> QED
      BY <3>1, <3>2 DEF Inv, CloseInOrder
  <2>2. CASE \E r \in Requests : Answer(r)
    BY <1>1, <2>2
       DEF Answer, Inv, OwnTypes, CloseInOrder, AllExecutionsEnded, endVars, poolVars
  <2>3. CASE ServerCloses
    BY <1>1, <2>3
       DEF ServerCloses, Inv, CloseInOrder, AllExecutionsEnded, endVars, poolVars
  <2> QED
    BY <2>1, <2>2, <2>3
<1> QED
  BY <1>1, <1>2, <1>4, <1>5, DutiesUndisturbed DEF Inv

-----------------------------------------------------------------------------
(* The steps that stop the duties *)

\* Each of its causes stops the duties once.
StopCause ==
    \/ /\ ~runtimeFailed /\ runtimeFailed' = TRUE
       /\ UNCHANGED <<storageFailed, step, durableCore>>
    \/ /\ ~storageFailed /\ storageFailed' = TRUE
       /\ UNCHANGED <<runtimeFailed, step, durableCore>>
    \/ /\ step = "none" /\ step' = "draining"
       /\ UNCHANGED <<runtimeFailed, storageFailed, durableCore>>
    \/ /\ step = "pool" /\ step' = "closed" /\ durableCore' = "closed"
       /\ UNCHANGED <<runtimeFailed, storageFailed>>

LEMMA StopKeeps ==
    ASSUME Inv, StopDuties, StopCause, Spares
    PROVE  /\ Switches' /\ Generations' /\ TasksOfDuties'
           /\ started' \in [Duties -> BOOLEAN] /\ armed' \in [Duties -> BOOLEAN]
           /\ generation' \in [Duties -> 0 .. 4] /\ entry' \in [Duties -> 0 .. 4 \cup {None}]
           /\ operating' \subseteq Duties
<1>1. \A d \in Duties : /\ started'[d] = FALSE /\ armed'[d] = FALSE /\ entry'[d] = None
                        /\ generation'[d] = generation[d] + 1
  BY DEF StopDuties
<1>2. Switches'
  BY <1>1 DEF Switches
<1>3. One(runtimeFailed)' + One(storageFailed)' + One(step # "none")'
          + One(durableCore = "closed")'
        = One(runtimeFailed) + One(storageFailed) + One(step # "none")
              + One(durableCore = "closed") + 1
  BY DEF StopCause, One, Inv, CloseInOrder, OwnTypes
<1>4. Generations'
  BY <1>1, <1>3 DEF Generations, Inv, One
<1>5. TasksOfDuties'
  BY <1>1, TasksAreDistinct DEF Inv, TasksOfDuties, StopDuties, Spares
<1>6. \A d \in Duties : generation'[d] \in 0 .. 4
  BY <1>4 DEF Generations, One
<1>7. generation' \in [Duties -> 0 .. 4]
  BY <1>6 DEF StopDuties
<1> QED
  BY <1>2, <1>4, <1>5, <1>7 DEF StopDuties, Inv, OwnTypes

\* The runtime fails: product work is stopped, what is queued is worked off.
LEMMA RuntimeFailsKeeps ==
    ASSUME Inv, ~runtimeFailed, RuntimeFails, broken' \subseteq Duties
    PROVE  Inv'
<1>1. /\ StopDuties /\ claiming' = FALSE /\ runtimeFailed' = TRUE
      /\ UNCHANGED <<execution, request, server, storageFailed, step, durableCore>>
  BY DEF RuntimeFails
<1>2. Ready' /\ Spares
  BY ClosePoolLeaves DEF RuntimeFails, Closers, Inv
<1>3. StopCause
  BY <1>1 DEF StopCause
<1>4. OwnTypes'
  BY <1>1, <1>2, <1>3, StopKeeps DEF Inv, OwnTypes
<1>5. CloseInOrder'
  BY <1>1, <1>2 DEF Inv, CloseInOrder, AllExecutionsEnded, Spares, Closers
<1>6. RefusalHasAReason'
  BY <1>1 DEF RefusalHasAReason
<1> QED
  BY <1>1, <1>2, <1>3, <1>4, <1>5, <1>6, StopKeeps DEF Inv

\* The storage fails: what is queued is rejected, what runs is aborted.
LEMMA StorageFailsKeeps ==
    ASSUME Inv, StorageFails
    PROVE  Inv'
<1>1. /\ StopDuties /\ claiming' = FALSE /\ ~storageFailed /\ storageFailed' = TRUE
      /\ UNCHANGED <<execution, request, server, runtimeFailed, step, durableCore>>
      /\ broken' \subseteq Duties
  BY DEF StorageFails, Inv, OwnTypes
<1>2. Ready' /\ Spares
  BY EndLeaves DEF StorageFails, Inv
<1>3. StopCause
  BY <1>1 DEF StopCause
<1>4. OwnTypes'
  BY <1>1, <1>2, <1>3, StopKeeps DEF Inv, OwnTypes
<1>5. CloseInOrder'
  BY <1>1, <1>2 DEF Inv, CloseInOrder, AllExecutionsEnded, Spares, Closers
<1>6. RefusalHasAReason'
  BY <1>1 DEF RefusalHasAReason
<1> QED
  BY <1>1, <1>2, <1>3, <1>4, <1>5, <1>6, StopKeeps DEF Inv

\* The application closes: the pool, if it is open, is left to cleanup.
LEMMA CloseApplicationKeeps ==
    ASSUME Inv, CloseApplication
    PROVE  Inv'
<1>1. /\ StopDuties /\ claiming' = FALSE /\ server' = "closing"
      /\ step = "none" /\ step' = "draining"
      /\ UNCHANGED <<broken, execution, request, runtimeFailed, storageFailed, durableCore>>
  BY DEF CloseApplication
<1>2. /\ Ready' /\ Spares
      /\ cleanupOnly' \/ UNCHANGED <<accepting, cleanupOnly>>
  <2>1. CASE accepting \/ cleanupOnly
    <3>1. Pool!DrainCleanup
      BY <2>1 DEF CloseApplication
    <3>2. cleanupOnly'
      BY <3>1 DEF Pool!DrainCleanup
    <3> QED
      BY <3>1, <3>2, EndLeaves DEF Inv
  <2>2. CASE ~(accepting \/ cleanupOnly)
    <3>1. UNCHANGED poolVars
      BY <2>2 DEF CloseApplication
    <3> QED
      BY <3>1, NothingLeaves DEF Inv, poolVars
  <2> QED
    BY <2>1, <2>2
<1>3. StopCause
  BY <1>1 DEF StopCause
<1>4. OwnTypes'
  BY <1>1, <1>2, <1>3, StopKeeps DEF Inv, OwnTypes
<1>5. CloseInOrder'
  BY <1>1, <1>2 DEF Inv, CloseInOrder, AllExecutionsEnded, Spares, Closers
<1>6. RefusalHasAReason'
  BY <1>1, <1>2 DEF RefusalHasAReason, Inv
<1> QED
  BY <1>1, <1>2, <1>3, <1>4, <1>5, <1>6, StopKeeps DEF Inv

\* The pool is closed after the server and the executors are done.
LEMMA ClosePoolNextKeeps ==
    ASSUME Inv, ClosePoolNext
    PROVE  Inv'
<1>1. /\ step = "draining" /\ step' = "pool" /\ server = "closed" /\ AllExecutionsEnded
      /\ ClosePool("application")
      /\ UNCHANGED <<dutyVars, workVars, runtimeFailed, storageFailed, durableCore>>
  BY DEF ClosePoolNext
<1>2. Ready' /\ Spares
  BY <1>1, ClosePoolLeaves DEF Inv, Closers
<1>3. OwnTypes'
  BY <1>1 DEF Inv, OwnTypes, dutyVars, workVars
<1>4. CloseInOrder'
  BY <1>1 DEF Inv, CloseInOrder, AllExecutionsEnded, workVars
<1>5. \A d \in Duties : ~started[d] /\ ~armed[d] /\ entry[d] = None
  BY <1>1 DEF Inv, Switches
<1>6. Switches' /\ Generations'
  BY <1>1, <1>5 DEF Inv, Switches, Generations, One, dutyVars
<1>7. TasksOfDuties'
  BY <1>1, <1>2, <1>5, TasksAreDistinct DEF Inv, TasksOfDuties, Spares, dutyVars
<1>8. RefusalHasAReason'
  BY <1>1 DEF RefusalHasAReason
<1> QED
  BY <1>2, <1>3, <1>4, <1>6, <1>7, <1>8 DEF Inv

\* The database is closed when the pool has become idle.
LEMMA CloseCoreKeeps ==
    ASSUME Inv, CloseCore
    PROVE  Inv'
<1>1. /\ StopDuties /\ step = "pool" /\ step' = "closed" /\ durableCore' = "closed"
      /\ closing["application"] = "resolved"
      /\ UNCHANGED <<poolVars, broken, workVars, runtimeFailed, storageFailed>>
  BY DEF CloseCore
<1>2. Ready' /\ Spares
  BY <1>1, NothingLeaves DEF Inv
<1>3. StopCause
  BY <1>1 DEF StopCause
<1>4. OwnTypes'
  BY <1>1, <1>2, <1>3, StopKeeps DEF Inv, OwnTypes, workVars
<1>5. CloseInOrder'
  BY <1>1, <1>2 DEF Inv, CloseInOrder, AllExecutionsEnded, workVars, poolVars
<1>6. RefusalHasAReason'
  BY <1>1 DEF RefusalHasAReason
<1> QED
  BY <1>1, <1>2, <1>3, <1>4, <1>5, <1>6, StopKeeps DEF Inv

-----------------------------------------------------------------------------
(* The steps of a duty *)

\* What a step about duty d has to establish, when it leaves the other duties
\* as they were.
LEMMA OneDutyKeeps ==
    ASSUME Inv, NEW d \in Duties, UNCHANGED <<workVars, endVars>>, Ready',
           UNCHANGED <<accepting, cleanupOnly, aborted, closing, started, generation>>,
           \A c \in Duties \ {d} :
               /\ Proven!Moved(Duty(c))
               /\ armed'[c] = armed[c] /\ entry'[c] = entry[c]
               /\ c \in operating' <=> c \in operating
               /\ c \in broken => c \in broken',
           armed' \in [Duties -> BOOLEAN], entry' \in [Duties -> 0 .. 4 \cup {None}],
           operating' \subseteq Duties, broken' \subseteq Duties,
           armed'[d] => started[d],
           ~started[d] => entry'[d] = None,
           d \in operating' => stage'[Duty(d)] = "running",
           entry'[d] # None => stage'[Duty(d)] # "new",
           started[d] => \/ armed'[d]
                         \/ d \notin Interval /\ (AtWork(d)' \/ Failed(d)')
    PROVE  Inv'
<1>1. OwnTypes'
  BY DEF Inv, OwnTypes, workVars, endVars
<1>2. CloseInOrder'
  BY DEF Inv, CloseInOrder, AllExecutionsEnded, workVars, endVars
<1>3. Switches'
  BY DEF Inv, Switches, endVars
<1>4. Generations'
  BY DEF Inv, Generations, One, endVars
<1>5. ASSUME NEW c \in Duties \ {d}
      PROVE  /\ c \in operating' => stage'[Duty(c)] = "running"
             /\ entry'[c] # None => stage'[Duty(c)] # "new"
             /\ started'[c] =>
                    armed'[c] \/ (c \notin Interval /\ (AtWork(c)' \/ Failed(c)'))
  BY <1>5 DEF Inv, TasksOfDuties, AtWork, Failed, Proven!Moved
<1>6. TasksOfDuties'
  BY <1>5 DEF TasksOfDuties
<1>7. RefusalHasAReason'
  BY DEF Inv, RefusalHasAReason, endVars
<1> QED
  BY <1>1, <1>2, <1>3, <1>4, <1>6, <1>7 DEF Inv

\* The timer fires only when no task of the duty has just ended.
LEMMA TimerKeeps ==
    ASSUME Inv, NEW d \in Duties, TimerFires(d)
    PROVE  Inv'
<1>1. /\ armed[d] /\ started[d] /\ Schedule(d) /\ stage[Duty(d)] \notin {"taken", "settled", "done"}
      /\ armed' = [armed EXCEPT ![d] = d \in Interval \/ result'[Duty(d)] = "refused"]
      /\ UNCHANGED <<started, generation, operating, workVars, endVars>>
  BY TasksAreDistinct DEF TimerFires, Quiet, Inv, Switches
<1>2. armed' \in [Duties -> BOOLEAN] /\ \A c \in Duties \ {d} : armed'[c] = armed[c]
  BY <1>1 DEF Inv, OwnTypes
<1>3. stage[Duty(d)] \in {"new", "waiting", "running"}
  BY <1>1, TasksAreDistinct DEF Inv, Ready, Proven!PoolInv, Proven!TypeOK, Proven!Stages
<1>4. d \notin operating \/ stage[Duty(d)] = "running"
  BY DEF Inv, TasksOfDuties
<1>5. CASE entry[d] # None
  <2>1. UNCHANGED <<poolVars, entry, broken>>
    BY <1>1, <1>5 DEF Schedule
  <2>2. /\ Ready' /\ UNCHANGED <<accepting, cleanupOnly, aborted, closing, stage>>
        /\ \A c \in Duties : Proven!Moved(Duty(c))
    BY <2>1, NothingLeaves, TasksAreDistinct DEF Inv, poolVars
  <2>3. stage[Duty(d)] # "new"
    BY <1>5 DEF Inv, TasksOfDuties
  <2>4. AtWork(d)'
    BY <1>3, <1>5, <2>1, <2>2, <2>3 DEF AtWork
  <2>5. armed'[d] \/ d \notin Interval
    BY <1>1 DEF Inv, OwnTypes
  <2> QED
    BY <1>1, <1>2, <1>4, <1>5, <2>1, <2>2, <2>3, <2>4, <2>5, OneDutyKeeps
       DEF Inv, OwnTypes
<1>6. CASE entry[d] = None
  <2>1. /\ Pool!Run(Duty(d))
        /\ entry' = [entry EXCEPT
               ![d] = IF result'[Duty(d)] = "refused" THEN None ELSE generation[d]]
        /\ broken' = IF result'[Duty(d)] = "refused" /\ ~accepting
                     THEN broken \cup {d} ELSE broken
    BY <1>1, <1>6 DEF Schedule
  <2>2. /\ Ready' /\ UNCHANGED <<accepting, cleanupOnly, aborted, closing>>
        /\ \A c \in Duties \ {d} : Proven!Moved(Duty(c))
        /\ stage[Duty(d)] = "new" /\ stage'[Duty(d)] \in {"waiting", "taken", "done"}
        /\ stage'[Duty(d)] = "done" => result'[Duty(d)] = "refused"
    BY <2>1, RunLeaves, TasksAreDistinct DEF Inv
  <2>3. generation[d] \in 0 .. 4 /\ generation[d] # None
    BY DEF Inv, OwnTypes, None
  <2>4. /\ entry' \in [Duties -> 0 .. 4 \cup {None}] /\ broken' \subseteq Duties
        /\ broken \subseteq broken' /\ \A c \in Duties \ {d} : entry'[c] = entry[c]
        /\ result'[Duty(d)] # "refused" => entry'[d] # None
    BY <2>1, <2>3 DEF Inv, OwnTypes
  <2>5. /\ result'[Duty(d)] = "refused" => armed'[d]
        /\ d \in Interval => armed'[d]
    BY <1>1 DEF Inv, OwnTypes
  <2>6. armed'[d] \/ (d \notin Interval /\ AtWork(d)')
    BY <2>2, <2>4, <2>5 DEF AtWork
  <2>7. entry'[d] # None => stage'[Duty(d)] # "new"
    BY <2>2
  <2>8. d \notin operating'
    BY <1>1, <1>4, <2>2
  <2> QED
    BY <1>1, <1>2, <2>2, <2>4, <2>6, <2>7, <2>8, OneDutyKeeps DEF Inv, OwnTypes
<1> QED
  BY <1>5, <1>6

\* An operation begins, or its signal was aborted meanwhile.
LEMMA BeginDutyKeeps ==
    ASSUME Inv, NEW d \in Duties, BeginDuty(d)
    PROVE  Inv'
<1>1. /\ Pool!Begin(Duty(d)) /\ stage[Duty(d)] = "taken"
      /\ operating' = IF stage'[Duty(d)] = "running" /\ entry[d] = generation[d]
                      THEN operating \cup {d} ELSE operating
      /\ UNCHANGED <<started, armed, generation, entry, broken, workVars, endVars>>
  BY DEF BeginDuty, Pool!Begin
<1>2. /\ Ready' /\ \A c \in Duties \ {d} : Proven!Moved(Duty(c))
      /\ UNCHANGED <<accepting, cleanupOnly, aborted, closing>>
  BY <1>1, WorkLeaves, TasksAreDistinct DEF Inv
<1>3. /\ stage'[Duty(d)] \in {"running", "settled"}
      /\ "ordinary" \notin aborted => stage'[Duty(d)] = "running"
  BY <1>1, PoolSteps, TasksAreDistinct
     DEF Proven!Begin, Inv, Ready, Proven!PoolInv, Proven!TypeOK
<1>4. d \notin operating
  BY <1>1 DEF Inv, TasksOfDuties
<1>5. started[d] => armed[d] \/ (d \notin Interval /\ AtWork(d)')
  <2>1. started[d] => stage'[Duty(d)] = "running"
    BY <1>3 DEF Inv, Switches
  <2>2. started[d] => armed[d] \/ (d \notin Interval /\ entry[d] # None)
    BY <1>1 DEF Inv, TasksOfDuties, AtWork, Failed
  <2> QED
    BY <1>1, <2>1, <2>2 DEF AtWork
<1>6. /\ armed[d] => started[d]
      /\ ~started[d] => entry[d] = None
  BY DEF Inv, Switches
<1> QED
  BY <1>1, <1>2, <1>3, <1>4, <1>5, <1>6, OneDutyKeeps DEF Inv, OwnTypes

\* An operation ends: with a success the timer is set again, with an error of
\* its own the duty is broken, and with the abort it was stopped before.
LEMMA FinishDutyKeeps ==
    ASSUME Inv, NEW d \in Duties, FinishDuty(d)
    PROVE  Inv'
<1>1. /\ Pool!Finish(Duty(d))
      /\ broken' = IF result'[Duty(d)] = "rejected" /\ "ordinary" \notin aborted
                   THEN broken \cup {d} ELSE broken
      /\ armed' = [armed EXCEPT
             ![d] = @ \/ (d \in OneShot /\ started[d] /\ result'[Duty(d)] = "fulfilled")]
      /\ operating' = operating \ {d}
      /\ UNCHANGED <<started, generation, entry, workVars, endVars>>
  BY DEF FinishDuty
<1>2. /\ Ready' /\ \A c \in Duties \ {d} : Proven!Moved(Duty(c))
      /\ UNCHANGED <<accepting, cleanupOnly, aborted, closing>>
  BY <1>1, WorkLeaves, TasksAreDistinct DEF Inv
<1>3. stage'[Duty(d)] = "settled" /\ result'[Duty(d)] \in {"fulfilled", "rejected"}
  <2>1. Proven!Finish(Duty(d))
    BY <1>1, PoolSteps, TasksAreDistinct
  <2>2. Duty(d) \in DOMAIN stage /\ Duty(d) \in DOMAIN result
    BY TasksAreDistinct DEF Inv, Ready, Proven!PoolInv, Proven!TypeOK
  <2> QED
    BY <2>1, <2>2 DEF Proven!Finish
<1>4. /\ armed' \in [Duties -> BOOLEAN] /\ \A c \in Duties \ {d} : armed'[c] = armed[c]
      /\ armed'[d] = (armed[d] \/ (d \in OneShot /\ started[d]
                                     /\ result'[Duty(d)] = "fulfilled"))
  BY <1>1 DEF Inv, OwnTypes
<1>5. /\ armed[d] => started[d]
      /\ ~started[d] => entry[d] = None
      /\ started[d] => "ordinary" \notin aborted
  BY DEF Inv, Switches
<1>6. started[d] => armed'[d] \/ (d \notin Interval /\ Failed(d)')
  <2>1. started[d] => armed[d] \/ d \notin Interval
    BY DEF Inv, TasksOfDuties
  <2>2. d \in OneShot \/ d \in Interval
    BY DEF Duties
  <2> QED
    BY <1>1, <1>3, <1>4, <1>5, <2>1, <2>2 DEF Failed
<1>7. broken' \subseteq Duties /\ broken \subseteq broken' /\ operating' \subseteq Duties
  BY <1>1 DEF Inv, OwnTypes
<1>8. armed'[d] => started[d]
  BY <1>4, <1>5
<1>9. entry' \in [Duties -> 0 .. 4 \cup {None}]
  BY <1>1 DEF Inv, OwnTypes
<1> QED
  BY <1>1, <1>2, <1>3, <1>4, <1>5, <1>6, <1>7, <1>8, <1>9, OneDutyKeeps

\* A failure is reported: the first one stops everybody, a later one finds
\* everybody stopped.
LEMMA ReportKeeps ==
    ASSUME Inv, NEW d \in Duties, Report(d)
    PROVE  Inv'
<1>1. stage[Duty(d)] = "done" /\ d \in broken /\ broken' = broken \ {d}
  BY DEF Report
<1>2. CASE ~runtimeFailed
  BY <1>1, <1>2, RuntimeFailsKeeps DEF Report, Inv, OwnTypes
<1>3. CASE runtimeFailed
  <2>1. UNCHANGED <<poolVars, started, armed, generation, entry, operating, workVars, endVars>>
    BY <1>3 DEF Report
  <2>2. /\ Ready' /\ UNCHANGED <<accepting, cleanupOnly, aborted, closing, stage>>
        /\ \A c \in Duties : Proven!Moved(Duty(c))
    BY <2>1, NothingLeaves, TasksAreDistinct DEF Inv, poolVars
  <2>3. ~started[d] /\ ~armed[d] /\ entry[d] = None
    BY <1>3 DEF Inv, Switches
  <2>4. d \in operating => stage[Duty(d)] = "running"
    BY DEF Inv, TasksOfDuties
  <2> QED
    BY <1>1, <2>1, <2>2, <2>3, <2>4, OneDutyKeeps DEF Inv, OwnTypes
<1> QED
  BY <1>2, <1>3

\* The completion is forgotten: the timer of a duty that goes on is set.
LEMMA ForgetKeeps ==
    ASSUME Inv, NEW d \in Duties, Forget(d)
    PROVE  Inv'
<1>1. /\ stage[Duty(d)] = "done" /\ d \notin broken
      /\ stage' = [stage EXCEPT ![Duty(d)] = "new"]
      /\ result' = [result EXCEPT ![Duty(d)] = "none"]
      /\ entry' = [entry EXCEPT ![d] = None]
      /\ UNCHANGED <<accepting, cleanupOnly, aborted, waiting, active, immediate, closing,
                     started, armed, generation, operating, broken, workVars, endVars>>
  BY DEF Forget
<1>2. Proven!PoolInv' /\ \A u \in Tasks \ {Duty(d)} : Proven!Moved(u)
  BY <1>1, PoolIsAPool, TasksAreDistinct, Proven!ForgottenKeeps DEF Inv, Ready
<1>3. Ready' /\ \A c \in Duties \ {d} : Proven!Moved(Duty(c))
  BY <1>1, <1>2, TasksAreDistinct DEF Inv, Ready, Proven!QueueIsBounded
<1>4. started[d] => armed[d]
  BY <1>1 DEF Inv, TasksOfDuties, AtWork, Failed
<1>5. /\ entry' \in [Duties -> 0 .. 4 \cup {None}] /\ entry'[d] = None
      /\ \A c \in Duties \ {d} : entry'[c] = entry[c]
  BY <1>1 DEF Inv, OwnTypes
<1>6. d \notin operating /\ (armed[d] => started[d])
  BY <1>1 DEF Inv, TasksOfDuties, Switches
<1> QED
  BY <1>1, <1>3, <1>4, <1>5, <1>6, OneDutyKeeps DEF Inv, OwnTypes

-----------------------------------------------------------------------------
LEMMA InvInit == Init => Inv
<1> SUFFICES ASSUME Init PROVE Inv
  OBVIOUS
<1>1. Proven!Init
  BY DEF Init, Pool!Init, Proven!Init
<1>2. Ready
  <2>1. Proven!PoolInv
    BY <1>1, PoolIsAPool, Proven!PoolInit
  <2>2. Proven!QueueIsBounded
    BY <1>1, PoolAssumption DEF Proven!Init, Proven!QueueIsBounded
  <2> QED
    BY <2>1, <2>2 DEF Ready
<1>3. OwnTypes
  <2>1. claiming \in BOOLEAN /\ runtimeFailed \in BOOLEAN /\ storageFailed \in BOOLEAN
    BY Zenon DEF Init
  <2> QED
    BY <2>1 DEF Init, OwnTypes
<1>4. CloseInOrder /\ RefusalHasAReason
  BY DEF Init, Pool!Init, CloseInOrder, RefusalHasAReason
<1>5. Switches /\ Generations /\ TasksOfDuties
  BY DEF Init, Pool!Init, Switches, Generations, One, TasksOfDuties
<1> QED
  BY <1>2, <1>3, <1>4, <1>5 DEF Inv

LEMMA InvNext == Inv /\ [Next]_vars => Inv'
<1> SUFFICES ASSUME Inv, [Next]_vars PROVE Inv'
  OBVIOUS
<1>1. CASE UNCHANGED vars
  <2>1. UNCHANGED <<poolVars, dutyVars, workVars, endVars>>
    BY <1>1 DEF vars
  <2>2. Ready' /\ \A d \in Duties : Proven!Moved(Duty(d))
    BY <2>1, NothingLeaves, TasksAreDistinct DEF Inv
  <2>3. OwnTypes'
    BY <2>1 DEF Inv, OwnTypes, dutyVars, workVars, endVars
  <2>4. CloseInOrder'
    BY <2>1 DEF Inv, CloseInOrder, AllExecutionsEnded, poolVars, workVars, endVars
  <2> QED
    BY <2>1, <2>2, <2>3, <2>4, DutiesUndisturbed DEF Inv, poolVars
<1>2. CASE WorkerFails
  BY <1>2, RuntimeFailsKeeps DEF WorkerFails, Inv, OwnTypes
<1>3. CASE Continue
  BY <1>3, BeginDutyKeeps, ReportKeeps, ForgetKeeps, TaskKeeps, WorkKeeps,
     ClosePoolNextKeeps, CloseCoreKeeps DEF Continue
<1> QED
  BY <1>1, <1>2, <1>3, TimerKeeps, FinishDutyKeeps, TaskKeeps, CallKeeps, WorkKeeps,
     StorageFailsKeeps, CloseApplicationKeeps DEF Next

\* Everything below rests on this.
LEMMA InvCorrect == Spec => []Inv
BY InvInit, InvNext, PTL DEF Spec

-----------------------------------------------------------------------------
LEMMA InvTypes == Inv => TypeOK
BY DEF Inv, Ready, OwnTypes, TypeOK, Proven!PoolInv, Proven!TypeOK, Pool!TypeOK,
   Proven!Duties, Pool!Duties, Proven!Stages, Pool!Stages, Proven!Outcomes, Pool!Outcomes

\* The variables of the application and of its pool have their types; none of
\* the duties is ever stopped more than four times.
THEOREM TypeCorrect == Spec => []TypeOK
BY InvCorrect, InvTypes, PTL

\* A pool whose close was answered has no task under way.
LEMMA AnsweredPoolRests ==
    ASSUME Inv, closing["application"] = "resolved"
    PROVE  \A t \in Tasks : stage[t] \in {"new", "done"}
<1>1. waiting = <<>> /\ active = 0
  BY DEF Inv, Ready, Proven!PoolInv, Proven!AnsweredIsIdle, Closers
<1>2. Proven!Queued = {}
  BY <1>1 DEF Inv, Ready, Proven!PoolInv, Proven!WorkersAreCounted
<1>3. Proven!Busy = {}
  <2>1. Proven!Cardinality(Proven!Busy) = 0
    BY <1>1 DEF Inv, Ready, Proven!PoolInv, Proven!WorkersAreCounted
  <2>2. IsFiniteSet(Proven!Busy)
    <3>1. IsFiniteSet(Tasks)
      BY PoolIsAPool DEF Proven!TasksAssumption, Proven!IsFiniteSet, IsFiniteSet
    <3> QED
      BY <3>1, FS_Subset DEF Proven!Busy
  <2>3. Cardinality(Proven!Busy) = 0
    BY <2>1 DEF Proven!Cardinality, Cardinality, Proven!IsFiniteSet, IsFiniteSet
  <2> QED
    BY <2>2, <2>3, FS_EmptySet
<1> QED
  BY <1>2, <1>3 DEF Proven!Queued, Proven!Busy, Inv, Ready, Proven!PoolInv, Proven!TypeOK,
     Proven!Stages

\* When the database is closed, whatever failed before, no duty, executor or
\* request is at work or can start.
THEOREM NothingUsesClosedCoreCorrect == Spec => []NothingUsesClosedCore
<1>1. Inv => NothingUsesClosedCore
  <2> SUFFICES ASSUME Inv, durableCore = "closed" PROVE NothingUsesClosedCore
    BY DEF NothingUsesClosedCore
  <2>1. step = "closed" /\ closing["application"] = "resolved"
    BY DEF Inv, CloseInOrder
  <2>2. \A t \in Tasks : stage[t] \in {"new", "done"}
    BY <2>1, AnsweredPoolRests
  <2>3. operating = {}
    BY <2>2, TasksAreDistinct DEF Inv, TasksOfDuties, OwnTypes
  <2>4. \A d \in Duties : ~armed[d]
    BY <2>1 DEF Inv, Switches
  <2> QED
    BY <2>1, <2>2, <2>3, <2>4 DEF NothingUsesClosedCore, Inv, CloseInOrder
<1> QED
  BY <1>1, InvCorrect, PTL

-----------------------------------------------------------------------------
\* Only the beginning of its task makes a duty operate, and the task of one
\* that was stopped has lost its generation.
LEMMA OnlyEntriesOperate ==
    ASSUME Inv, Next, NEW d \in Duties, ~started[d], d \in operating'
    PROVE  d \in operating
<1>1. ASSUME NEW c \in Duties, BeginDuty(c) PROVE d \in operating
  <2>1. entry[d] = None /\ generation[d] # None
    BY DEF Inv, Switches, OwnTypes, None
  <2> QED
    BY <1>1, <2>1 DEF BeginDuty
<1>2. ASSUME NEW c \in Duties, TimerFires(c) \/ FinishDuty(c) \/ Report(c) \/ Forget(c)
      PROVE  d \in operating
  BY <1>2 DEF TimerFires, FinishDuty, Report, Forget, RuntimeFails, StopDuties
<1>3. CASE UNCHANGED operating
  BY <1>3
<1>4. ASSUME NEW t \in Tasks, BeginTask(t) \/ FinishTask(t) \/ ReleaseTask(t)
      PROVE  UNCHANGED operating
  BY <1>4 DEF BeginTask, FinishTask, ReleaseTask, dutyVars
<1>5. ASSUME NEW e \in Executions, Claim(e) \/ Acquired(e) \/ RemoveCheckout(e) \/ Removed(e)
      PROVE  UNCHANGED operating
  BY <1>5 DEF Claim, Acquired, RemoveCheckout, Removed, dutyVars
<1>6. ASSUME NEW r \in Requests, Arrive(r) \/ Answer(r) PROVE UNCHANGED operating
  BY <1>6 DEF Arrive, Answer, dutyVars
<1>7. ASSUME \/ WorkerFails \/ StorageFails \/ CloseApplication \/ ServerCloses
             \/ ClosePoolNext \/ CloseCore
      PROVE  UNCHANGED operating
  BY <1>7 DEF WorkerFails, StorageFails, CloseApplication, ServerCloses, ClosePoolNext,
     CloseCore, RuntimeFails, StopDuties, dutyVars
<1> QED
  BY <1>1, <1>2, <1>3, <1>4, <1>5, <1>6, <1>7 DEF Next, Continue

\* After a duty was stopped none of its operations begins.
THEOREM StoppedDutiesRestCorrect == Spec => StoppedDutiesRest
<1>1. Inv /\ [Next]_vars =>
        [\A d \in Duties : ~started[d] => (d \in operating' => d \in operating)]_vars
  BY OnlyEntriesOperate
<1> QED
  BY <1>1, InvCorrect, PTL DEF Spec, StoppedDutiesRest

-----------------------------------------------------------------------------
\* Only a call of the pool is refused.
LEMMA OnlyCallsAreRefused ==
    ASSUME Inv, Next, NEW e \in Executions,
           result'[Removal(e)] = "refused", result[Removal(e)] # "refused"
    PROVE  RemoveCheckout(e)
<1>0. /\ Removal(e) \in Tasks /\ \A d \in Duties : Removal(e) # Duty(d) /\ Duty(d) \in Tasks
      /\ \A f \in Executions : Removal(e) # Acquisition(f) /\ Acquisition(f) \in Tasks
      /\ \A f \in Executions \ {e} : Removal(e) # Removal(f) /\ Removal(f) \in Tasks
      /\ \A r \in Requests : Removal(e) # Changeset(r) /\ Changeset(r) \in Tasks
      /\ result \in [Tasks -> Proven!Outcomes]
  <2>1. result \in [Tasks -> Proven!Outcomes]
    BY DEF Inv, Ready, Proven!PoolInv, Proven!TypeOK
  <2> QED
    BY <2>1, TasksAreDistinct
<1>1. ASSUME NEW t \in Tasks, Pool!Run(t) PROVE t = Removal(e)
  BY <1>0, <1>1, RunLeaves DEF Inv, Proven!Moved
<1>2. ASSUME NEW t \in Tasks, Pool!Begin(t) \/ Pool!Finish(t) PROVE FALSE
  BY <1>0, <1>2 DEF Pool!Begin, Pool!Finish
<1>3. ASSUME NEW t \in Tasks, Pool!Release(t) PROVE FALSE
  BY <1>0, <1>3 DEF Pool!Release
<1>4. ~Spares /\ result' # result
  BY <1>0 DEF Spares
<1>5. ASSUME NEW d \in Duties PROVE ~TimerFires(d) /\ ~BeginDuty(d) /\ ~FinishDuty(d)
  BY <1>0, <1>1, <1>2, <1>4 DEF TimerFires, Schedule, BeginDuty, FinishDuty, poolVars
<1>6. ~RuntimeFails
  BY <1>4, ClosePoolLeaves DEF RuntimeFails, Closers, Inv
<1>7. ASSUME NEW d \in Duties PROVE ~Report(d) /\ ~Forget(d)
  BY <1>0, <1>4, <1>6 DEF Report, Forget, poolVars
<1>8. ASSUME NEW t \in Tasks PROVE ~BeginTask(t) /\ ~FinishTask(t) /\ ~ReleaseTask(t)
  BY <1>2, <1>3 DEF BeginTask, FinishTask, ReleaseTask
<1>9. ASSUME NEW f \in Executions PROVE ~Claim(f) /\ ~Acquired(f) /\ ~Removed(f)
  BY <1>0, <1>1, <1>4 DEF Claim, Acquired, Removed, poolVars
<1>10. ASSUME NEW r \in Requests PROVE ~Arrive(r) /\ ~Answer(r)
  BY <1>0, <1>1, <1>4 DEF Arrive, Answer, poolVars
<1>11. ~WorkerFails /\ ~StorageFails /\ ~CloseApplication /\ ~ServerCloses
  BY <1>4, <1>6, EndLeaves
     DEF WorkerFails, StorageFails, CloseApplication, ServerCloses, poolVars, Inv
<1>12. ~ClosePoolNext /\ ~CloseCore
  BY <1>4, ClosePoolLeaves DEF ClosePoolNext, CloseCore, poolVars, Closers, Inv
<1>13. ASSUME NEW f \in Executions, RemoveCheckout(f) PROVE f = e
  BY <1>0, <1>1, <1>13 DEF RemoveCheckout
<1> QED
  BY <1>5, <1>7, <1>8, <1>9, <1>10, <1>11, <1>12, <1>13 DEF Next, Continue

\* The removal of a checkout is turned away by a full queue or after a failure.
THEOREM CheckoutsAreRemovedCorrect == Spec => CheckoutsAreRemoved
<1>1. Inv /\ [Next]_vars =>
        [\A e \in Executions :
            result'[Removal(e)] = "refused" /\ result[Removal(e)] # "refused" =>
                Len(waiting) = QueueCapacity \/ runtimeFailed \/ storageFailed]_vars
  <2> SUFFICES ASSUME Inv, Next, NEW e \in Executions,
                      result'[Removal(e)] = "refused", result[Removal(e)] # "refused"
               PROVE  Len(waiting) = QueueCapacity \/ runtimeFailed \/ storageFailed
    OBVIOUS
  <2>1. Pool!Run(Removal(e)) /\ execution[e] = "executing"
    BY OnlyCallsAreRefused DEF RemoveCheckout
  <2>2. Removal(e) \in Tasks /\ Proven!DutyOf(Removal(e)) = "cleanup"
    BY TasksAreDistinct
  <2>3. ~Proven!Accepts("cleanup") \/ Len(waiting) = QueueCapacity
    BY <2>1, <2>2, RunLeaves DEF Inv
  <2>4. step \notin {"pool", "closed"}
    BY <2>1 DEF Inv, CloseInOrder, AllExecutionsEnded
  <2> QED
    BY <2>3, <2>4 DEF Inv, RefusalHasAReason, Proven!Accepts
<1> QED
  BY <1>1, InvCorrect, PTL DEF Spec, CheckoutsAreRemoved

\* Together: what a close leaves behind.
THEOREM CloseLeavesNothing == Spec => CloseLeavesNothingBehind
BY StoppedDutiesRestCorrect, CheckoutsAreRemovedCorrect, PTL DEF CloseLeavesNothingBehind

-----------------------------------------------------------------------------
\* A duty that was not stopped has its timer set or its task in the pool, and
\* its timer finds the pool open.
THEOREM DutiesAreNeverSilenced == Spec => [](TypeOK /\ DutyIsAlive /\ TimersNeedThePool)
<1>1. Inv => DutyIsAlive
  BY DEF Inv, TasksOfDuties, AtWork, Failed, DutyIsAlive
<1>2. Inv => TimersNeedThePool
  BY DEF Inv, Switches, TimersNeedThePool
<1> QED
  BY <1>1, <1>2, InvCorrect, InvTypes, PTL
=============================================================================
