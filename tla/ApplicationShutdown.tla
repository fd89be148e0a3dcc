------------------------ MODULE ApplicationShutdown ------------------------
(***************************************************************************)
(* The application over its I/O pool: the duties that recur, the Codex     *)
(* executors and requests that use the pool beside them, the two ways in   *)
(* which product work is stopped by a failure, and the ordered close.      *)
(*                                                                         *)
(* Every user of the pool has its task.  A duty has one, because its       *)
(* scheduler hands out the pending completion while there is one; it is    *)
(* used again when the completion has been settled.                        *)
(*                                                                         *)
(* Node.js runs timers, the ends of operations and requests only when no   *)
(* promise is left to be continued.  Those steps require Quiet.            *)
(***************************************************************************)
EXTENDS Naturals, Sequences, FiniteSets

CONSTANTS
    OneShot,      \* duties whose operation sets the timer again: Forgejo polling
    Interval,     \* duties on an interval: GitHub polling and the publications
    Executions,   \* the Codex executions that may be claimed
    Requests,     \* the requests that acquire a changeset
    Concurrency, QueueCapacity

ASSUME WorkAssumption ==
    /\ IsFiniteSet(OneShot) /\ IsFiniteSet(Interval)
    /\ IsFiniteSet(Executions) /\ IsFiniteSet(Requests)
ASSUME PoolAssumption ==
    Concurrency \in Nat /\ Concurrency > 1 /\ QueueCapacity \in Nat \ {0}

Duties == OneShot \cup Interval

\* The tasks of the pool: who runs what in it.
Duty(d) == <<"duty", d>>
Acquisition(e) == <<"acquisition", e>>
Removal(e) == <<"removal", e>>
Changeset(r) == <<"changeset", r>>
Removals == {Removal(e) : e \in Executions}
Tasks == {Duty(d) : d \in Duties} \cup {Acquisition(e) : e \in Executions}
             \cup Removals \cup {Changeset(r) : r \in Requests}

\* Who awaits a close of the pool.
Closers == {"application", "product"}

VARIABLES
    accepting, cleanupOnly, aborted, waiting, active, stage, result,
    immediate, closing,        \* the pool's
    started, armed,            \* of a duty: its switch and its timer
    generation,                \* of its scheduler
    entry,                     \* the generation its task was scheduled in
    operating,                 \* the duties whose operation runs
    broken,                    \* the duties whose task fails by another error
                               \* than that of the shutdown
    claiming,                  \* the Codex worker accepts claims
    execution, request,        \* where they are
    server,                    \* "listening", "closing" or "closed"
    runtimeFailed, storageFailed,
    step,                      \* of the close: "none", "draining", "pool", "closed"
    durableCore                \* "open" or "closed"

Pool == INSTANCE IoExecutionPool WITH
            Tasks <- Tasks, Cleanup <- Removals, Immediates <- {}, Closers <- Closers

poolVars == <<accepting, cleanupOnly, aborted, waiting, active, stage, result,
              immediate, closing>>
dutyVars == <<started, armed, generation, entry, operating, broken>>
workVars == <<claiming, execution, request, server>>
endVars == <<runtimeFailed, storageFailed, step, durableCore>>
vars == <<poolVars, dutyVars, workVars, endVars>>

\* The generation of no task.
None == 99

\* Nothing is left to be continued.
Quiet ==
    /\ \A t \in Tasks : stage[t] \notin {"taken", "settled"}
    /\ \A d \in Duties : stage[Duty(d)] # "done"

\* createApplication at its end: duties and worker are started, and all serve.
Init ==
    /\ Pool!Init
    /\ started = [d \in Duties |-> TRUE] /\ armed = [d \in Duties |-> TRUE]
    /\ generation = [d \in Duties |-> 0] /\ entry = [d \in Duties |-> None]
    /\ operating = {} /\ broken = {}
    /\ claiming = TRUE /\ server = "listening"
    /\ execution = [e \in Executions |-> "none"]
    /\ request = [r \in Requests |-> "none"]
    /\ runtimeFailed = FALSE /\ storageFailed = FALSE
    /\ step = "none" /\ durableCore = "open"

-----------------------------------------------------------------------------
\* destroy of every runner and service: timer off, scheduler cancelled.
StopDuties ==
    /\ started' = [d \in Duties |-> FALSE] /\ armed' = [d \in Duties |-> FALSE]
    /\ generation' = [d \in Duties |-> generation[d] + 1]
    /\ entry' = [d \in Duties |-> None]
    /\ UNCHANGED operating

\* Close by one who has not asked yet; the flags stay down if he has.
ClosePool(k) ==
    IF closing[k] = "none" THEN Pool!Close(k)
    ELSE /\ accepting' = FALSE /\ cleanupOnly' = FALSE
         /\ UNCHANGED <<aborted, waiting, active, stage, result, immediate, closing>>

\* The first failure of the runtime stops product work without an error: what
\* is queued is still worked off.
RuntimeFails ==
    /\ runtimeFailed' = TRUE
    /\ StopDuties
    /\ claiming' = FALSE
    /\ ClosePool("product")
    /\ UNCHANGED <<execution, request, server, storageFailed, step, durableCore>>

\* claimNext throws: reportFailure without a claim.
WorkerFails ==
    /\ Quiet /\ claiming /\ ~runtimeFailed
    /\ RuntimeFails
    /\ UNCHANGED broken


\* enter: the database has become unavailable.  What is queued, and what runs
\* under a signal that is not aborted yet, fails with the storage's error.
StorageFails ==
    /\ Quiet /\ ~storageFailed /\ durableCore = "open"
    /\ storageFailed' = TRUE
    /\ StopDuties
    /\ broken' = broken \cup
           {d \in Duties : \/ stage[Duty(d)] = "waiting"
                           \/ stage[Duty(d)] = "running" /\ "ordinary" \notin aborted}
    /\ claiming' = FALSE
    /\ Pool!Shutdown
    /\ UNCHANGED <<execution, request, server, runtimeFailed, step, durableCore>>

-----------------------------------------------------------------------------
\* schedule: the task goes to the pool unless one of this generation is
\* pending.  A refusal by a closed pool is a failure of the runtime.
Schedule(d) ==
    IF entry[d] # None
    THEN UNCHANGED <<poolVars, entry, broken>>
    ELSE /\ Pool!Run(Duty(d))
         /\ entry' = [entry EXCEPT
                ![d] = IF result'[Duty(d)] = "refused" THEN None ELSE generation[d]]
         /\ broken' = IF result'[Duty(d)] = "refused" /\ ~accepting
                      THEN broken \cup {d} ELSE broken

\* Faulty variant: a refused one-shot timer is not set again.
TimerFires_Unarmed(d) ==
    /\ Quiet /\ armed[d]
    /\ Schedule(d)
    /\ armed' = [armed EXCEPT ![d] = d \in Interval]
    /\ UNCHANGED <<started, generation, operating, workVars, endVars>>

\* The timer of a duty.  A one-shot timer is set again if the task is refused.
TimerFires(d) ==
    /\ Quiet /\ armed[d]
    /\ Schedule(d)
    /\ armed' = [armed EXCEPT ![d] = d \in Interval \/ result'[Duty(d)] = "refused"]
    /\ UNCHANGED <<started, generation, operating, workVars, endVars>>

\* Faulty variant: an entry of an earlier generation is worked off too.
BeginDuty_Cancelled(d) ==
    /\ Pool!Begin(Duty(d))
    /\ operating' = IF stage'[Duty(d)] = "running" THEN operating \cup {d} ELSE operating
    /\ UNCHANGED <<started, armed, generation, entry, broken, workVars, endVars>>

\* The scheduler's operation: nothing, if it was cancelled meanwhile.
BeginDuty(d) ==
    /\ Pool!Begin(Duty(d))
    /\ operating' = IF stage'[Duty(d)] = "running" /\ entry[d] = generation[d]
                    THEN operating \cup {d} ELSE operating
    /\ UNCHANGED <<started, armed, generation, entry, broken, workVars, endVars>>

\* The operation of a duty ends.  A pause for lack of storage counts as well,
\* and the one-shot timer of a started duty is set again; an error is thrown.
FinishDuty(d) ==
    /\ Quiet /\ Pool!Finish(Duty(d))
    /\ d \notin operating => "ordinary" \in aborted \/ result'[Duty(d)] = "fulfilled"
    /\ broken' = IF result'[Duty(d)] = "rejected" /\ "ordinary" \notin aborted
                 THEN broken \cup {d} ELSE broken
    /\ armed' = [armed EXCEPT
           ![d] = @ \/ (d \in OneShot /\ started[d] /\ result'[Duty(d)] = "fulfilled")]
    /\ operating' = operating \ {d}
    /\ UNCHANGED <<started, generation, entry, workVars, endVars>>

\* Faulty variant: every failure is taken for the first.
Report_Again(d) ==
    /\ stage[Duty(d)] = "done" /\ d \in broken
    /\ broken' = broken \ {d}
    /\ RuntimeFails

\* reportBackgroundFailure, for an error that is neither the shutdown's nor a
\* lack of capacity.  It is logged in the database.
Report(d) ==
    /\ stage[Duty(d)] = "done" /\ d \in broken
    /\ broken' = broken \ {d}
    /\ IF runtimeFailed
       THEN UNCHANGED <<poolVars, started, armed, generation, entry, operating,
                        workVars, endVars>>
       ELSE RuntimeFails

\* Faulty variant: the scheduler keeps the settled completion.
Forget_Kept(d) ==
    /\ stage[Duty(d)] = "done" /\ d \notin broken
    /\ stage' = [stage EXCEPT ![Duty(d)] = "new"]
    /\ result' = [result EXCEPT ![Duty(d)] = "none"]
    /\ UNCHANGED <<accepting, cleanupOnly, aborted, waiting, active, immediate, closing,
                   entry, started, armed, generation, operating, broken, workVars, endVars>>

\* The completion is settled: the scheduler forgets it.
Forget(d) ==
    /\ stage[Duty(d)] = "done" /\ d \notin broken
    /\ stage' = [stage EXCEPT ![Duty(d)] = "new"]
    /\ result' = [result EXCEPT ![Duty(d)] = "none"]
    /\ entry' = [entry EXCEPT ![d] = None]
    /\ UNCHANGED <<accepting, cleanupOnly, aborted, waiting, active, immediate, closing,
                   started, armed, generation, operating, broken, workVars, endVars>>

-----------------------------------------------------------------------------
\* What the pool does for an executor or a request.
BeginTask(t) ==
    /\ \A d \in Duties : t # Duty(d)
    /\ Pool!Begin(t)
    /\ UNCHANGED <<dutyVars, workVars, endVars>>

FinishTask(t) ==
    /\ \A d \in Duties : t # Duty(d)
    /\ Quiet /\ Pool!Finish(t)
    /\ UNCHANGED <<dutyVars, workVars, endVars>>

ReleaseTask(t) ==
    /\ Pool!Release(t)
    /\ UNCHANGED <<dutyVars, workVars, endVars>>

\* runClaims, and executeReviewRun up to its checkout.
Claim(e) ==
    /\ Quiet /\ claiming /\ execution[e] = "none"
    /\ Pool!Run(Acquisition(e))
    /\ execution' = [execution EXCEPT
           ![e] = IF result'[Acquisition(e)] = "refused" THEN "ended" ELSE "acquiring"]
    /\ UNCHANGED <<dutyVars, claiming, request, server, endVars>>

Acquired(e) ==
    /\ execution[e] = "acquiring" /\ stage[Acquisition(e)] = "done"
    /\ execution' = [execution EXCEPT
           ![e] = IF result[Acquisition(e)] = "fulfilled" THEN "executing" ELSE "ended"]
    /\ UNCHANGED <<poolVars, dutyVars, claiming, request, server, endVars>>

\* Codex has ended, or was never started: removeCheckout.
RemoveCheckout(e) ==
    /\ Quiet /\ execution[e] = "executing"
    /\ Pool!Run(Removal(e))
    /\ execution' = [execution EXCEPT
           ![e] = IF result'[Removal(e)] = "refused" THEN "ended" ELSE "removing"]
    /\ UNCHANGED <<dutyVars, claiming, request, server, endVars>>

Removed(e) ==
    /\ execution[e] = "removing" /\ stage[Removal(e)] = "done"
    /\ execution' = [execution EXCEPT ![e] = "ended"]
    /\ UNCHANGED <<poolVars, dutyVars, claiming, request, server, endVars>>

\* acquireChangeset in a request.
Arrive(r) ==
    /\ Quiet /\ server = "listening" /\ request[r] = "none"
    /\ Pool!Run(Changeset(r))
    /\ request' = [request EXCEPT
           ![r] = IF result'[Changeset(r)] = "refused" THEN "answered" ELSE "open"]
    /\ UNCHANGED <<dutyVars, claiming, execution, server, endVars>>

Answer(r) ==
    /\ request[r] = "open" /\ stage[Changeset(r)] = "done"
    /\ request' = [request EXCEPT ![r] = "answered"]
    /\ UNCHANGED <<poolVars, dutyVars, claiming, execution, server, endVars>>

-----------------------------------------------------------------------------
\* Faulty variant: the timers go on until the services are destroyed.
CloseApplication_LateStop ==
    /\ Quiet /\ step = "none"
    /\ step' = "draining"
    /\ claiming' = FALSE
    /\ server' = "closing"
    /\ IF accepting \/ cleanupOnly THEN Pool!DrainCleanup ELSE UNCHANGED poolVars
    /\ UNCHANGED <<dutyVars, execution, request, runtimeFailed, storageFailed, durableCore>>

\* close, up to its first await: nothing new is claimed or served, the duties
\* stop, and the pool is left to cleanup.
CloseApplication ==
    /\ Quiet /\ step = "none"
    /\ step' = "draining"
    /\ claiming' = FALSE
    /\ server' = "closing"
    /\ StopDuties
    /\ IF accepting \/ cleanupOnly THEN Pool!DrainCleanup ELSE UNCHANGED poolVars
    /\ UNCHANGED <<broken, execution, request, runtimeFailed, storageFailed, durableCore>>

\* The server has answered whom it had accepted.
ServerCloses ==
    /\ Quiet /\ server = "closing"
    /\ \A r \in Requests : request[r] # "open"
    /\ server' = "closed"
    /\ UNCHANGED <<poolVars, dutyVars, claiming, execution, request, endVars>>

AllExecutionsEnded == \A e \in Executions : execution[e] \in {"none", "ended"}

\* Faulty variant: the executors are not waited for.
ClosePoolNext_Impatient ==
    /\ step = "draining" /\ server = "closed"
    /\ step' = "pool"
    /\ ClosePool("application")
    /\ UNCHANGED <<dutyVars, workVars, runtimeFailed, storageFailed, durableCore>>

\* Faulty variant: the end of the pool is awaited without closing it.
ClosePoolNext_Unasked ==
    /\ step = "draining" /\ server = "closed" /\ AllExecutionsEnded
    /\ step' = "pool"
    /\ UNCHANGED <<poolVars, dutyVars, workVars, runtimeFailed, storageFailed, durableCore>>

\* Server and executors are done: the pool is closed.
ClosePoolNext ==
    /\ step = "draining" /\ server = "closed" /\ AllExecutionsEnded
    /\ step' = "pool"
    /\ ClosePool("application")
    /\ UNCHANGED <<dutyVars, workVars, runtimeFailed, storageFailed, durableCore>>

\* Faulty variant: the pool is not waited for.
CloseCore_Impatient ==
    /\ step = "pool"
    /\ StopDuties
    /\ durableCore' = "closed" /\ step' = "closed"
    /\ UNCHANGED <<poolVars, broken, workVars, runtimeFailed, storageFailed>>

\* The pool is idle: the services are destroyed and the database is closed.
CloseCore ==
    /\ step = "pool" /\ closing["application"] = "resolved"
    /\ StopDuties
    /\ durableCore' = "closed" /\ step' = "closed"
    /\ UNCHANGED <<poolVars, broken, workVars, runtimeFailed, storageFailed>>

\* What promises continue.
Continue ==
    \/ \E d \in Duties : BeginDuty(d) \/ Report(d) \/ Forget(d)
    \/ \E t \in Tasks : BeginTask(t) \/ ReleaseTask(t)
    \/ \E e \in Executions : Acquired(e) \/ Removed(e)
    \/ \E r \in Requests : Answer(r)
    \/ ClosePoolNext \/ CloseCore

Next ==
    \/ Continue
    \/ \E d \in Duties : TimerFires(d) \/ FinishDuty(d)
    \/ \E t \in Tasks : FinishTask(t)
    \/ \E e \in Executions : Claim(e) \/ RemoveCheckout(e)
    \/ \E r \in Requests : Arrive(r)
    \/ WorkerFails \/ StorageFails \/ CloseApplication \/ ServerCloses

Spec == Init /\ [][Next]_vars

-----------------------------------------------------------------------------
TypeOK ==
    /\ Pool!TypeOK
    /\ started \in [Duties -> BOOLEAN] /\ armed \in [Duties -> BOOLEAN]
    /\ generation \in [Duties -> 0 .. 4] /\ entry \in [Duties -> 0 .. 4 \cup {None}]
    /\ operating \subseteq Duties /\ broken \subseteq Duties
    /\ claiming \in BOOLEAN /\ server \in {"listening", "closing", "closed"}
    /\ execution \in [Executions -> {"none", "acquiring", "executing", "removing", "ended"}]
    /\ request \in [Requests -> {"none", "open", "answered"}]
    /\ runtimeFailed \in BOOLEAN /\ storageFailed \in BOOLEAN
    /\ step \in {"none", "draining", "pool", "closed"}
    /\ durableCore \in {"open", "closed"}

\* Whatever stopped, failed or was aborted before: when the database is closed
\* no operation runs or will run, no executor and no request is at work, and
\* nothing can start any.
NothingUsesClosedCore ==
    durableCore = "closed" =>
        /\ operating = {} /\ ~claiming /\ server = "closed"
        /\ \A t \in Tasks : stage[t] \in {"new", "done"}
        /\ AllExecutionsEnded /\ \A r \in Requests : request[r] # "open"
        /\ \A d \in Duties : ~armed[d]

\* A duty that was not stopped has its timer set or its task in the pool, so
\* refusals and pauses never silence it.
DutyIsAlive ==
    \A d \in Duties : started[d] =>
        armed[d] \/ (stage[Duty(d)] # "new" /\ (entry[d] # None \/ d \in broken))

\* After a duty was stopped none of its operations begins, wherever its task
\* was by then.
StoppedDutiesRest ==
    [][\A d \in Duties : ~started[d] => (d \in operating' => d \in operating)]_vars

\* The closing application takes the checkout of every executor it waits for
\* away: its removal is turned away only by a full queue, unless a failure had
\* stopped product work.
CheckoutsAreRemoved ==
    [][\A e \in Executions :
          result'[Removal(e)] = "refused" /\ result[Removal(e)] # "refused" =>
              Len(waiting) = QueueCapacity \/ runtimeFailed \/ storageFailed]_vars

\* A timer is set only while the pool takes the duty: being turned away by a
\* closed pool would be taken for a failure of the runtime.
TimersNeedThePool == \A d \in Duties : armed[d] => accepting

\* A close leaves nothing behind: no duty goes on after it was stopped, and
\* the checkouts are removed.
CloseLeavesNothingBehind == StoppedDutiesRest /\ CheckoutsAreRemoved

\* The test "graceful close aborts bounded I/O and retains credentials until
\* accepted work drains" expects the durable log before the database is closed
\* and only the host log after it.
NoReportAfterClose ==
    durableCore = "closed" => \A d \in broken : stage[Duty(d)] # "done"

(***************************************************************************)
(* Liveness, if operations, executions and requests end.  Timers and ends  *)
(* compete with promises for the one thread, so they are taken whenever    *)
(* they are possible again and again.                                      *)
(***************************************************************************)
FairSpec ==
    /\ Spec
    /\ WF_vars(Continue) /\ WF_vars(ClosePoolNext) /\ WF_vars(CloseCore)
    /\ WF_vars(ServerCloses)
    /\ \A d \in Duties : SF_vars(TimerFires(d)) /\ SF_vars(FinishDuty(d))
    /\ SF_vars(\E t \in Tasks : FinishTask(t))
    /\ SF_vars(\E e \in Executions : RemoveCheckout(e))

\* The close of the application ends, whatever failed before.
CloseEnds == step = "draining" ~> step = "closed"

\* A duty that is not stopped is done again and again.
DutiesRecur == \A d \in Duties : started[d] ~> (d \in operating \/ ~started[d])

\* Until they are stopped the duties go on: no step silences one or lets it
\* meet a closed pool, and each is done again and again.
DutiesGoOn == [][(TypeOK /\ DutyIsAlive /\ TimersNeedThePool)']_vars /\ DutiesRecur
=============================================================================
