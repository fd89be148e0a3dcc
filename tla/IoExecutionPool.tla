-------------------------- MODULE IoExecutionPool --------------------------
(***************************************************************************)
(* The I/O execution pool: src/src/io-execution-pool.ts.                   *)
(*                                                                         *)
(* A task is one call of run.  It waits in the queue, is taken out by      *)
(* drain, begins a microtask later, and when its operation has ended its   *)
(* caller hears of it before the worker is free again.  Whatever the       *)
(* event loop runs in between may call the pool.                           *)
(***************************************************************************)
EXTENDS Naturals, Sequences, FiniteSets

CONSTANTS
    Tasks,               \* the calls of run
    Cleanup,             \* those whose duty is cleanup
    Immediates,          \* the calls of runImmediate
    Closers,             \* the calls of close
    Concurrency,         \* IO_EXECUTION_CONCURRENCY
    QueueCapacity        \* IO_EXECUTION_QUEUE_CAPACITY

ASSUME CleanupAssumption == Cleanup \subseteq Tasks
ASSUME TasksAssumption == IsFiniteSet(Tasks)
ASSUME ConcurrencyAssumption == Concurrency \in Nat /\ Concurrency > 1
ASSUME QueueCapacityAssumption == QueueCapacity \in Nat \ {0}

VARIABLES
    accepting, cleanupOnly,
    aborted,     \* the duties whose signal is aborted
    waiting,     \* the queue
    active,      \* the count of busy workers
    stage,       \* stage[t]: where the task is
    result,      \* how its promise is settled; the caller hears before Release
    immediate,   \* the results of the immediate calls
    closing      \* closing[k]: "none", "pending" or "resolved"

vars == <<accepting, cleanupOnly, aborted, waiting, active, stage, result,
          immediate, closing>>

-----------------------------------------------------------------------------
\* IO_EXECUTION_ORDINARY_CONCURRENCY: one worker is left to immediate calls.
OrdinaryConcurrency == Concurrency - 1

Duties == {"ordinary", "cleanup"}
DutyOf(t) == IF t \in Cleanup THEN "cleanup" ELSE "ordinary"

Stages == {"new", "waiting", "taken", "running", "settled", "done"}
Outcomes == {"none", "fulfilled", "rejected", "refused"}

\* The tasks that occupy a worker.
Busy == {t \in Tasks : stage[t] \in {"taken", "running", "settled"}}

\* Faulty variant: cleanup is accepted after the close as well.
Accepts_Cleanup(duty) == accepting \/ duty = "cleanup"

\* validate: who may still call.
Accepts(duty) == accepting \/ (cleanupOnly /\ duty = "cleanup")

Init ==
    /\ accepting = TRUE /\ cleanupOnly = FALSE /\ aborted = {}
    /\ waiting = <<>> /\ active = 0
    /\ stage = [t \in Tasks |-> "new"]
    /\ result = [t \in Tasks |-> "none"]
    /\ immediate = [i \in Immediates |-> "none"]
    /\ closing = [k \in Closers |-> "none"]

\* How many tasks of the line drain takes when busy workers are busy.
Taken(line, busy) ==
    LET room == IF busy < OrdinaryConcurrency THEN OrdinaryConcurrency - busy ELSE 0
    IN  IF Len(line) < room THEN Len(line) ELSE room

\* drain, from a queue line, a count busy and stages at.
Drain(line, busy, at) ==
    LET n == Taken(line, busy)
    IN  /\ waiting' = SubSeq(line, n + 1, Len(line))
        /\ active' = busy + n
        /\ stage' = [t \in Tasks |->
               IF \E i \in 1 .. n : line[i] = t THEN "taken" ELSE at[t]]

\* finishDrain: the promises of close are kept when nothing is left.
FinishDrain ==
    closing' = [k \in Closers |->
        IF closing[k] = "pending" /\ active' = 0 /\ waiting' = <<>>
        THEN "resolved" ELSE closing[k]]

-----------------------------------------------------------------------------
\* run: refused, or queued and perhaps taken at once.
Run(t) ==
    /\ stage[t] = "new"
    /\ IF Accepts(DutyOf(t)) /\ Len(waiting) < QueueCapacity
       THEN /\ Drain(Append(waiting, t), active, [stage EXCEPT ![t] = "waiting"])
            /\ UNCHANGED result
       ELSE /\ stage' = [stage EXCEPT ![t] = "done"]
            /\ result' = [result EXCEPT ![t] = "refused"]
            /\ UNCHANGED <<waiting, active>>
    /\ UNCHANGED <<accepting, cleanupOnly, aborted, immediate, closing>>

\* Faulty variant: the signal is not looked at before the operation.
Begin_Unsignalled(t) ==
    /\ stage[t] = "taken"
    /\ stage' = [stage EXCEPT ![t] = "running"]
    /\ UNCHANGED <<accepting, cleanupOnly, aborted, waiting, active, result,
                   immediate, closing>>

\* The microtask after drain: the operation begins unless its signal is
\* aborted by now.
Begin(t) ==
    /\ stage[t] = "taken"
    /\ IF DutyOf(t) \in aborted
       THEN /\ stage' = [stage EXCEPT ![t] = "settled"]
            /\ result' = [result EXCEPT ![t] = "rejected"]
       ELSE /\ stage' = [stage EXCEPT ![t] = "running"]
            /\ UNCHANGED result
    /\ UNCHANGED <<accepting, cleanupOnly, aborted, waiting, active,
                   immediate, closing>>

\* The operation ends; a success after the abort becomes the abort's reason.
Finish(t) ==
    /\ stage[t] = "running"
    /\ stage' = [stage EXCEPT ![t] = "settled"]
    /\ \E end \in IF DutyOf(t) \in aborted THEN {"rejected"}
                  ELSE {"fulfilled", "rejected"} :
          result' = [result EXCEPT ![t] = end]
    /\ UNCHANGED <<accepting, cleanupOnly, aborted, waiting, active,
                   immediate, closing>>

\* Faulty variant: the queue is not looked at again.
Release_Idle(t) ==
    /\ stage[t] = "settled"
    /\ active' = active - 1
    /\ stage' = [stage EXCEPT ![t] = "done"]
    /\ UNCHANGED <<accepting, cleanupOnly, aborted, waiting, result, immediate>>
    /\ FinishDrain

\* Faulty variant: nobody who awaits the close is told.
Release_Silent(t) ==
    /\ stage[t] = "settled"
    /\ Drain(waiting, active - 1, [stage EXCEPT ![t] = "done"])
    /\ UNCHANGED <<accepting, cleanupOnly, aborted, result, immediate, closing>>

\* Faulty variant: the worker is given back twice.
Release_Twice(t) ==
    /\ stage[t] = "settled"
    /\ Drain(waiting, active - 2, [stage EXCEPT ![t] = "done"])
    /\ FinishDrain
    /\ UNCHANGED <<accepting, cleanupOnly, aborted, result, immediate>>

\* finally: the worker is free.
Release(t) ==
    /\ stage[t] = "settled"
    /\ Drain(waiting, active - 1, [stage EXCEPT ![t] = "done"])
    /\ FinishDrain
    /\ UNCHANGED <<accepting, cleanupOnly, aborted, result, immediate>>

\* runImmediate: a synchronous operation on a worker of its own.
RunImmediate(i, duty) ==
    /\ immediate[i] = "none"
    /\ IF Accepts(duty) /\ active < Concurrency
       THEN /\ \E end \in {"fulfilled", "rejected"} :
                  immediate' = [immediate EXCEPT ![i] = end]
            /\ Drain(waiting, active, stage)
            /\ FinishDrain
       ELSE /\ immediate' = [immediate EXCEPT ![i] = "refused"]
            /\ UNCHANGED <<waiting, active, stage, closing>>
    /\ UNCHANGED <<accepting, cleanupOnly, aborted, result>>

-----------------------------------------------------------------------------
\* close: the queue is worked off, nothing new is accepted.
Close(k) ==
    /\ closing[k] = "none"
    /\ accepting' = FALSE /\ cleanupOnly' = FALSE
    /\ closing' = [closing EXCEPT
           ![k] = IF active = 0 /\ waiting = <<>> THEN "resolved" ELSE "pending"]
    /\ UNCHANGED <<aborted, waiting, active, stage, result, immediate>>

\* What is left of the queue when the tasks in gone are rejected.
Rejecting(gone) ==
    [t \in Tasks |-> IF t \in gone THEN "rejected" ELSE result[t]]

Queued == {t \in Tasks : stage[t] = "waiting"}

\* The tasks of S in the order they have in line.
InOrder(S, line) ==
    {s \in [1 .. Cardinality(S) -> S] :
        /\ \A t \in S : \E i \in DOMAIN s : s[i] = t
        /\ \A i, j \in DOMAIN s : i < j =>
               \E p, q \in DOMAIN line : p < q /\ line[p] = s[i] /\ line[q] = s[j]}

\* Faulty variant: the queue is dropped without an answer.
Shutdown_Dropped ==
    /\ accepting' = FALSE /\ cleanupOnly' = FALSE
    /\ aborted' = Duties
    /\ waiting' = <<>>
    /\ UNCHANGED <<active, immediate, result, stage>>
    /\ FinishDrain

\* shutdown, with the error that ends the installation.
Shutdown ==
    /\ accepting' = FALSE /\ cleanupOnly' = FALSE
    /\ aborted' = Duties
    /\ result' = Rejecting(Queued)
    /\ stage' = [t \in Tasks |-> IF t \in Queued THEN "done" ELSE stage[t]]
    /\ waiting' = <<>>
    /\ UNCHANGED <<active, immediate>>
    /\ FinishDrain

\* Faulty variant: the rejected tasks stay in the queue.
DrainCleanup_Kept ==
    /\ accepting \/ cleanupOnly
    /\ accepting' = FALSE /\ cleanupOnly' = TRUE
    /\ aborted' = aborted \cup {"ordinary"}
    /\ LET gone == Queued \ Cleanup
       IN  /\ result' = Rejecting(gone)
           /\ Drain(waiting, active,
                    [t \in Tasks |-> IF t \in gone THEN "done" ELSE stage[t]])
    /\ FinishDrain
    /\ UNCHANGED immediate

\* drainCleanup: only cleanup is left and accepted.
DrainCleanup ==
    /\ accepting \/ cleanupOnly
    /\ accepting' = FALSE /\ cleanupOnly' = TRUE
    /\ aborted' = aborted \cup {"ordinary"}
    /\ LET gone == Queued \ Cleanup
       IN  /\ result' = Rejecting(gone)
           /\ \E line \in InOrder(Queued \cap Cleanup, waiting) :
                  Drain(line, active,
                        [t \in Tasks |-> IF t \in gone THEN "done" ELSE stage[t]])
    /\ FinishDrain
    /\ UNCHANGED immediate

Work(t) == Begin(t) \/ Finish(t) \/ Release(t)

Next ==
    \/ \E t \in Tasks : Run(t) \/ Work(t)
    \/ \E i \in Immediates, duty \in Duties : RunImmediate(i, duty)
    \/ \E k \in Closers : Close(k)
    \/ Shutdown \/ DrainCleanup

Spec == Init /\ [][Next]_vars

-----------------------------------------------------------------------------
TypeOK ==
    /\ accepting \in BOOLEAN /\ cleanupOnly \in BOOLEAN
    /\ aborted \subseteq Duties
    /\ waiting \in Seq(Tasks)
    /\ active \in Nat
    /\ stage \in [Tasks -> Stages]
    /\ result \in [Tasks -> Outcomes]
    /\ immediate \in [Immediates -> Outcomes]
    /\ closing \in [Closers -> {"none", "pending", "resolved"}]

\* The count of workers is that of the tasks which occupy one, and the queue
\* holds exactly the tasks that wait, each of them once.  (A worker lost or
\* counted twice would slow the pool down for the rest of the process.)
WorkersAreCounted ==
    /\ active = Cardinality(Busy)
    /\ Queued = {waiting[i] : i \in DOMAIN waiting}
    /\ \A i, j \in DOMAIN waiting : waiting[i] = waiting[j] => i = j

\* No task waits while a worker could take it, and one worker is always left
\* to runImmediate: storage cleanup never fails for want of a worker.
WorkConserving ==
    /\ waiting # <<>> => active = OrdinaryConcurrency
    /\ active < Concurrency

\* The workers are used and none is lost, with every variable in its type.
WorkersAreUsed == TypeOK /\ WorkersAreCounted /\ WorkConserving

\* When a promise of close has been kept nothing runs, nothing waits and
\* nothing will: whoever awaited it may close the database.
ClosedIsIdle ==
    (\E k \in Closers : closing[k] = "resolved") =>
        waiting = <<>> /\ active = 0 /\ ~accepting

\* Once a duty is aborted none of its operations begins, and none that ends
\* from then on is reported to its caller as a success.
AbortedWorkFails ==
    [][\A t \in Tasks : DutyOf(t) \in aborted =>
           /\ stage[t] # "running" => stage'[t] # "running"
           /\ result'[t] = "fulfilled" => result[t] = "fulfilled"]_vars

\* Ends are final: what was closed stays idle, what was aborted fails.
EndsAreFinal == []ClosedIsIdle /\ AbortedWorkFails

(***************************************************************************)
(* Liveness, under the assumption that every operation ends: operations    *)
(* wait for requests and processes that are bounded by timeouts.  Calls,   *)
(* closes and aborts need not come.                                        *)
(***************************************************************************)
FairSpec == Spec /\ \A t \in Tasks : WF_vars(Work(t))

\* Every call that was not refused is answered.
EveryTaskSettles == \A t \in Tasks : stage[t] = "waiting" ~> stage[t] = "done"

\* A close that was asked for ends.
CloseEnds == \A k \in Closers : closing[k] = "pending" ~> closing[k] = "resolved"

\* Whoever waits for the pool, for a task or for its close, is answered.
EveryCallSettles == EveryTaskSettles /\ CloseEnds
=============================================================================
