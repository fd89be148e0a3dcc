--------------------------- MODULE StorageReserve ---------------------------
(***************************************************************************)
(* The free-space reserve, the checkouts that use the space, and the       *)
(* cleanup that gives it back (storage-reserve.ts,                         *)
(* storage-reserve-polling-core.ts, owned-artifact-cleanup.ts,             *)
(* retention.ts, review-run-checkout.ts).                                  *)
(*                                                                         *)
(* A guarded action measures both filesystems, cleans up when one is       *)
(* below the reserve and measures again.  What it guards may be performed  *)
(* in the same turn (a Waiver batch, a Codex start, the commit of an       *)
(* observation) or only after an await (the acquisition of a Changeset,    *)
(* the answers of a provider), when the measurement is stale.  The cleanup *)
(* runs between the steps of the executors whose checkouts it looks at,    *)
(* and the offline restore brings back rows that are older than the        *)
(* checkouts.                                                              *)
(*                                                                         *)
(* Space is counted in checkouts.  What else the executor and the row of a *)
(* work item go through is CodexExecution's.                               *)
(***************************************************************************)
EXTENDS Integers, FiniteSets

CONSTANTS
    Works,      \* the work items (Review Runs, Waiver Adjudications)
    MaxToken,   \* bound: claims of a work item
    Capacity,   \* the room of a filesystem, in checkouts
    Reserve     \* the part of it that is kept free

VARIABLES
    up,         \* the application runs
    rows,       \* codex_execution_queue and the state of its work
    executors,  \* what the executor of each claim is doing
    checkouts,  \* the directories <work>/<fencing token> on disk
    taken,      \* the room of each filesystem that something else occupies
    sound,      \* the filesystems can be measured and cleaned
    cleaned,    \* cleanupFacts.status
    round,      \* the polling round, or the baseline of a new connection;
                \* "committed" until the next one: it committed an observation
    requests    \* the works whose Changeset is being acquired

vars == <<up, rows, executors, checkouts, taken, sound, cleaned, round,
          requests>>

Claims == Works \X (1 .. MaxToken)
Filesystems == {"state", "checkouts"}

Statuses == {"absent", "queued", "running", "terminal"}
Row == [status : Statuses, token : 0 .. MaxToken,
        lease : {"free", "held", "lapsed"},
        \* codex_execution_pre_start_attempts: the open attempt of the claim
        attempt : {"none", "open", "old"}]
NoRow == [status |-> "absent", token |-> 0, lease |-> "free",
          attempt |-> "none"]
Queued == [NoRow EXCEPT !.status = "queued"]

Phases ==
    {"none", "claimed", "begun", "cloning", "ready", "started", "leaving"}

Init ==
    /\ up = TRUE
    /\ rows = [w \in Works |-> NoRow]
    /\ executors = [c \in Claims |-> "none"]
    /\ checkouts = {}
    /\ taken = [f \in Filesystems |-> 0]
    /\ sound = TRUE
    /\ cleaned = "not_run"
    /\ round = "idle"
    /\ requests = {}

-----------------------------------------------------------------------------
(***************************************************************************)
(* Measuring and cleaning                                                  *)
(***************************************************************************)
Free(f, kept) ==
    Capacity - taken[f] - (IF f = "checkouts" THEN Cardinality(kept) ELSE 0)

\* measure: every filesystem has the reserve, when "kept" is what is on disk.
Available(kept) == \A f \in Filesystems : Free(f, kept) >= Reserve

\* cleanupOwnedTemporaryArtifacts: the checkouts of a work that is unknown or
\* has ended, and the ones a newer claim has superseded.
Removable_Claimed(held) ==
    {c \in checkouts : held[c[1]].status \in {"absent", "terminal"}
                       \/ c[2] <= held[c[1]].token}
Removable_Ended(held) ==
    {c \in checkouts : held[c[1]].status \in {"absent", "terminal"}}
Removable(held) ==
    {c \in checkouts : held[c[1]].status \in {"absent", "terminal"}
                       \/ c[2] < held[c[1]].token}

\* cleanupEligibleRetentionData: an old attempt is deleted, except the open
\* one of a claim that has not started.
Expires_Any(row) == row.attempt = "old"
Expires(row) ==
    row.attempt = "old" /\ ~(row.status = "queued" /\ row.lease # "free")

Retained == [w \in Works |-> IF Expires(rows[w])
                             THEN [rows[w] EXCEPT !.attempt = "none"]
                             ELSE rows[w]]

\* trackedCleanup, with cleanupEligibleData of the application: the old
\* attempts go, then the directories.  When the root cannot be read the
\* attempts are gone already.
CleanUp ==
    /\ rows' = Retained
    /\ checkouts' = IF sound THEN checkouts \ Removable(rows) ELSE checkouts
    /\ cleaned' = IF sound THEN "available" ELSE "unavailable"

\* readFor: "kept" is the disk after it, "outcome" what it tells its caller.
\* A failing measurement or cleanup is an error of its own.
ReadFor(outcome) ==
    \/ /\ ~sound /\ outcome = "failed"
       /\ UNCHANGED <<rows, checkouts, cleaned>>
    \/ /\ Available(checkouts) /\ outcome = "available"
       /\ UNCHANGED <<rows, checkouts, cleaned>>
    \/ /\ ~Available(checkouts)
       /\ CleanUp
       /\ outcome = CASE ~sound -> "failed"
                      [] sound /\ Available(checkouts \ Removable(rows)) ->
                            "available"
                      [] OTHER -> "unavailable"

\* readFor in an action that changes a row as well, which it reads before.
Swept(w, row) ==
    /\ rows' = [(IF Available(checkouts) THEN rows ELSE Retained)
                EXCEPT ![w] = row]
    /\ checkouts' = IF Available(checkouts) THEN checkouts
                    ELSE checkouts \ Removable(rows)
    /\ cleaned' = IF Available(checkouts) THEN cleaned ELSE "available"
HasRoom == Available(checkouts)
           \/ (sound /\ Available(checkouts \ Removable(rows)))

\* assertPollingObservationAdvanceAvailable: inside a transaction nothing is
\* cleaned up.
MeasureAvailable_Prepared == TRUE
MeasureAvailable == Available(checkouts)

-----------------------------------------------------------------------------
(***************************************************************************)
(* Admission of work                                                       *)
(***************************************************************************)
\* A Waiver batch, or a retry: measured and committed in one turn.
AdmitAtOnce(w) ==
    /\ up /\ rows[w].status = "absent" /\ w \notin requests /\ HasRoom
    /\ Swept(w, Queued)
    /\ UNCHANGED <<up, executors, taken, sound, round, requests>>

\* requestEvaluation measures, and awaits the acquisition of the Changeset ...
RequestWork(w) ==
    /\ up /\ rows[w].status = "absent" /\ w \notin requests
    /\ ReadFor("available")
    /\ requests' = requests \cup {w}
    /\ UNCHANGED <<up, executors, taken, sound, round>>

\* ... and admits the work without another measurement.
AdmitAcquired(w) ==
    /\ up /\ w \in requests /\ rows[w].status = "absent"
    /\ requests' = requests \ {w}
    /\ rows' = [rows EXCEPT ![w] = Queued]
    /\ UNCHANGED <<up, executors, checkouts, taken, sound, cleaned, round>>

AcquisitionFails(w) ==
    /\ up /\ w \in requests
    /\ requests' = requests \ {w}
    /\ UNCHANGED <<up, rows, executors, checkouts, taken, sound, cleaned,
                   round>>

\* A refused request, and the System page: the cleanup is what remains of it.
Inspect ==
    /\ up /\ \E outcome \in {"available", "unavailable", "failed"} :
                ReadFor(outcome)
    /\ UNCHANGED <<up, executors, taken, sound, round, requests>>

-----------------------------------------------------------------------------
(***************************************************************************)
(* Observations of pull requests                                           *)
(***************************************************************************)
Halted == [c \in Claims |-> "none"]

\* A round of the runner, or a baseline, begins: the answers are awaited.
\* Without the reserve the round is left until the next interval.
BeginRound ==
    /\ up /\ round # "observing"
    /\ \E outcome \in {"available", "unavailable"} :
         /\ ReadFor(outcome)
         /\ round' = IF outcome = "available" THEN "observing" ELSE "idle"
    /\ UNCHANGED <<up, executors, taken, sound, requests>>

\* runStorageReserveTransaction: measured, cleaned and measured again, and
\* measured once more inside the transaction.
CommitObservation ==
    /\ up /\ round = "observing"
    /\ \E outcome \in {"available", "unavailable"} :
         /\ ReadFor(outcome)
         /\ round' = IF outcome = "available" THEN "committed" ELSE "idle"
    /\ UNCHANGED <<up, executors, taken, sound, requests>>

\* commitBaseline: it was measured before the answers, and is again now.
CommitBaseline ==
    /\ up /\ round = "observing"
    /\ \/ MeasureAvailable /\ round' = "committed"
       \/ (~MeasureAvailable \/ ~sound) /\ round' = "idle"
    /\ UNCHANGED <<up, rows, executors, checkouts, taken, sound, cleaned,
                   requests>>

\* requireStorageReservePause lets only the missing reserve pass: any other
\* failure of the duty closes the application.
DutyFails ==
    /\ up /\ ReadFor("failed")
    /\ up' = FALSE
    /\ executors' = Halted
    /\ round' = "idle"
    /\ requests' = {}
    /\ UNCHANGED <<taken, sound>>

-----------------------------------------------------------------------------
(***************************************************************************)
(* The executors and their checkouts                                       *)
(***************************************************************************)
\* The claim an executor of c holds.
Holds(c) == /\ rows[c[1]].status = "queued"
            /\ rows[c[1]].token = c[2]
            /\ rows[c[1]].lease = "held"

Claim(w) ==
    LET row == rows[w]
        token == row.token + 1
    IN /\ up /\ row.status = "queued" /\ row.lease # "held"
       /\ token <= MaxToken
       /\ rows' = [rows EXCEPT ![w].token = token, ![w].lease = "held",
                               ![w].attempt = "none"]
       /\ executors' = [executors EXCEPT ![<<w, token>>] = "claimed"]
       /\ UNCHANGED <<up, checkouts, taken, sound, cleaned, round, requests>>

Lapse(w) ==
    /\ rows[w].status = "queued" /\ rows[w].lease = "held"
    /\ rows' = [rows EXCEPT ![w].lease = "lapsed"]
    /\ UNCHANGED <<up, executors, checkouts, taken, sound, cleaned, round,
                   requests>>

\* beginPreStartAttempt, and the credential is awaited; a claim that was lost
\* is left alone.
BeginAttempt(c) ==
    /\ up /\ executors[c] = "claimed"
    /\ executors' = [executors EXCEPT ![c] = IF Holds(c) THEN "begun"
                                                         ELSE "none"]
    /\ rows' = IF Holds(c) THEN [rows EXCEPT ![c[1]].attempt = "open"]
                           ELSE rows
    /\ UNCHANGED <<up, checkouts, taken, sound, cleaned, round, requests>>

\* recordPreStartFailure: the attempt is closed and the claim given back, when
\* it is still this claim's.
RecordPreStartFailure(c) ==
    IF Holds(c)
    THEN [rows EXCEPT ![c[1]].lease = "free", ![c[1]].attempt = "none"]
    ELSE rows

\* prepareReviewRunCheckout makes its directory, whoever holds the claim now.
\* A directory that is there already fails it, and is removed with it.
MakeCheckout(c) ==
    /\ up /\ executors[c] = "begun"
    /\ IF c \notin checkouts /\ Free("checkouts", checkouts) > 0
       THEN /\ checkouts' = checkouts \cup {c}
            /\ executors' = [executors EXCEPT ![c] = "cloning"]
            /\ UNCHANGED rows
       ELSE /\ checkouts' = checkouts \ {c}
            /\ executors' = [executors EXCEPT ![c] = "none"]
            /\ rows' = RecordPreStartFailure(c)
    /\ UNCHANGED <<up, taken, sound, cleaned, round, requests>>

\* Git ends, and what it cloned is there ...
Cloned(c) ==
    /\ up /\ executors[c] = "cloning" /\ c \in checkouts
    /\ executors' = [executors EXCEPT ![c] = "ready"]
    /\ UNCHANGED <<up, rows, checkouts, taken, sound, cleaned, round,
                   requests>>

\* ... or it fails, as it does when its directory was taken away.
CloneFails(c) ==
    /\ up /\ executors[c] = "cloning"
    /\ checkouts' = checkouts \ {c}
    /\ executors' = [executors EXCEPT ![c] = "none"]
    /\ rows' = RecordPreStartFailure(c)
    /\ UNCHANGED <<up, taken, sound, cleaned, round, requests>>

\* startTracked behind assertCodexStartAvailable.
StartCodex(c) ==
    /\ up /\ executors[c] = "ready" /\ Holds(c) /\ HasRoom
    /\ Swept(c[1], [rows[c[1]] EXCEPT !.status = "running", !.lease = "free",
                                      !.attempt = "none"])
    /\ executors' = [executors EXCEPT ![c] = "started"]
    /\ UNCHANGED <<up, taken, sound, round, requests>>

\* No reserve, a lost claim, or any other failure before the start.
StartFails(c) ==
    /\ up /\ executors[c] = "ready"
    /\ executors' = [executors EXCEPT ![c] = "leaving"]
    /\ rows' = RecordPreStartFailure(c)
    /\ UNCHANGED <<up, checkouts, taken, sound, cleaned, round, requests>>

\* Codex ends, with or without a Result; the row may have been cancelled.
CodexEnds(c) ==
    /\ up /\ executors[c] = "started"
    /\ executors' = [executors EXCEPT ![c] = "leaving"]
    /\ rows' = [rows EXCEPT ![c[1]].status = "terminal"]
    /\ UNCHANGED <<up, checkouts, taken, sound, cleaned, round, requests>>

\* removeCheckout: when it fails the directory stays.
RemoveCheckout(c) ==
    /\ up /\ executors[c] = "leaving"
    /\ executors' = [executors EXCEPT ![c] = "none"]
    /\ checkouts' = IF sound THEN checkouts \ {c} ELSE checkouts
    /\ UNCHANGED <<up, rows, taken, sound, cleaned, round, requests>>

Cancel(w) ==
    /\ up /\ rows[w].status \in {"queued", "running"}
    /\ rows' = [rows EXCEPT ![w].status = "terminal", ![w].lease = "free",
                            ![w].attempt = "none"]
    /\ UNCHANGED <<up, executors, checkouts, taken, sound, cleaned, round,
                   requests>>

-----------------------------------------------------------------------------
(***************************************************************************)
(* The application                                                         *)
(***************************************************************************)
\* The daily check, after its backup.
DailyCleanup ==
    /\ up /\ sound /\ CleanUp
    /\ UNCHANGED <<up, executors, taken, sound, round, requests>>

Crash ==
    /\ up
    /\ up' = FALSE
    /\ executors' = Halted
    /\ round' = "idle"
    /\ requests' = {}
    /\ UNCHANGED <<rows, checkouts, taken, sound, cleaned>>

\* The rows of some backup, which are those of an earlier moment; the
\* checkouts are not part of it.
Earlier(row) ==
    {NoRow, row} \cup
    IF row.status = "absent" THEN {}
    ELSE {[Queued EXCEPT !.token = t] : t \in 0 .. row.token} \cup
         {[Queued EXCEPT !.token = t, !.lease = "held", !.attempt = "open"] :
            t \in 1 .. row.token}

Restore(w) ==
    /\ ~up /\ \E row \in Earlier(rows[w]) : rows' = [rows EXCEPT ![w] = row]
    /\ UNCHANGED <<up, executors, checkouts, taken, sound, cleaned, round,
                   requests>>

\* recoverCodexExecutions: the open attempts are recorded as failures and the
\* claims given back, a started work has failed.
Recovered ==
    [w \in Works |->
        CASE rows[w].status = "running" ->
                [rows[w] EXCEPT !.status = "terminal"]
          [] rows[w].status = "queued"  ->
                [rows[w] EXCEPT !.lease = "free", !.attempt = "none"]
          [] OTHER -> rows[w]]

\* The application starts: recovery, and then the cleanup, which must succeed.
Restart ==
    /\ ~up /\ sound
    /\ up' = TRUE
    /\ rows' = Recovered
    /\ checkouts' = checkouts \ Removable(Recovered)
    /\ cleaned' = "available"
    /\ UNCHANGED <<executors, taken, sound, round, requests>>

\* Something else writes or deletes on a filesystem.
Occupy(f) ==
    LET room == Capacity - (IF f = "checkouts" THEN Cardinality(checkouts)
                                               ELSE 0)
    IN /\ taken' = [taken EXCEPT ![f] = IF @ = 0 THEN room ELSE 0]
       /\ UNCHANGED <<up, rows, executors, checkouts, sound, cleaned, round,
                      requests>>

Break ==
    /\ sound' = ~sound
    /\ UNCHANGED <<up, rows, executors, checkouts, taken, cleaned, round,
                   requests>>

\* More than the retention period passes, or the clock says so.
Age(w) ==
    /\ rows[w].attempt = "open"
    /\ rows' = [rows EXCEPT ![w].attempt = "old"]
    /\ UNCHANGED <<up, executors, checkouts, taken, sound, cleaned, round,
                   requests>>

ExecutorNext(c) ==
    \/ BeginAttempt(c) \/ MakeCheckout(c) \/ Cloned(c) \/ CloneFails(c)
    \/ StartCodex(c) \/ StartFails(c) \/ CodexEnds(c) \/ RemoveCheckout(c)

Next ==
    \/ \E w \in Works : AdmitAtOnce(w) \/ RequestWork(w) \/ AdmitAcquired(w)
                        \/ AcquisitionFails(w)
    \/ \E w \in Works : Claim(w) \/ Lapse(w) \/ Cancel(w) \/ Age(w)
                        \/ Restore(w)
    \/ \E c \in Claims : ExecutorNext(c)
    \/ Inspect \/ BeginRound \/ CommitObservation \/ CommitBaseline
    \/ DutyFails \/ DailyCleanup \/ Crash \/ Restart
    \/ \E f \in Filesystems : Occupy(f)
    \/ Break

Spec == Init /\ [][Next]_vars

\* The timer of the daily check comes round.
Fairness == WF_vars(DailyCleanup)

-----------------------------------------------------------------------------
TypeOK ==
    /\ up \in BOOLEAN /\ sound \in BOOLEAN
    /\ rows \in [Works -> Row]
    /\ executors \in [Claims -> Phases]
    /\ checkouts \subseteq Claims
    /\ taken \in [Filesystems -> 0 .. Capacity]
    /\ cleaned \in {"not_run", "available", "unavailable"}
    /\ round \in {"idle", "observing", "committed"}
    /\ requests \subseteq Works

\* Whoever cleans up, and whenever, an executor that still holds its claim, or
\* whose Codex runs for a work that has not ended, keeps the checkout it
\* works in, and the attempt of its claim stays on record.
CleanupSparesTheLive ==
    \A c \in Claims :
        /\ executors[c] \in {"cloning", "ready"} /\ Holds(c) =>
              c \in checkouts /\ rows[c[1]].attempt # "none"
        /\ executors[c] = "started" /\ rows[c[1]].status = "running" =>
              c \in checkouts

\* No observation is committed, and no Codex started, while a filesystem is
\* below the reserve: what was measured before an await does not count.
GuardedStepsKeepTheReserve ==
    [][(round # "committed" /\ round' = "committed")
       \/ (\E c \in Claims : executors[c] = "ready"
                              /\ executors'[c] = "started")
        => (Available(checkouts))']_vars

\* A checkout nobody uses is removed, once its work has ended or has been
\* claimed again: no failed removal, crash or restore leaves it for ever.
Leftover(c) ==
    /\ c \in checkouts /\ executors[c] \in {"none", "claimed"}
    /\ \/ rows[c[1]].status \in {"absent", "terminal"}
       \/ c[2] < rows[c[1]].token

LeftoversAreRemoved ==
    <>[](up /\ sound) => []<>(\A c \in Claims : ~Leftover(c))
=============================================================================
