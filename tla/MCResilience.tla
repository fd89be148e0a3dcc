---------------------------- MODULE MCResilience ----------------------------
(***************************************************************************)
(* The parts of the service that have to come through failures, restarts   *)
(* and power losses, for TLC: the polls of both forges, the channel a      *)
(* Codex process submits its Result through, the reserve of storage with   *)
(* its cleanup, the daily backup and the offline restore.  They share no   *)
(* variable, so a behaviour is about one of them, its subject, and leaves  *)
(* the others where they begin.                                            *)
(***************************************************************************)
EXTENDS Naturals

CONSTANTS Revisions, MaxPushes, MaxFailures, MaxOperations,   \* of the polls
          Clients, None, MaxClientFaults,         \* of the channel
          Works, MaxToken, Capacity, Reserve,     \* of the storage reserve
          Keep, MaxDay, MaxBackupFaults,          \* of the daily backup
          MaxRestoreFaults                        \* of the offline restore

VARIABLES
    subject,
    forge, rows, snapshot, gated, connection, health, enabled, book, absorbed, poller,
    operator, moved, halted, left,
    lock, request, response, ack, closed, client, told, overdue, server, seen, takenUp,
    pending, stored, stopped, failed, result, directory, leader, stage, terminal,
    accepted, outcome, clientFaults,
    up, queue, executors, checkouts, occupied, measurable, cleaned, round, requests,
    day, hidden, visible, durable, sound, torn, phase, serving, kept, expired, reported,
    backupFaults,
    original, state, retained, stateViews, retainedViews, candidate, step, committed,
    checkpointed, opaque, report, unrolled, restoreFaults

pollVars == <<forge, rows, snapshot, gated, connection, health, enabled, book, absorbed,
    poller, operator, moved, halted, left>>
channelVars == <<lock, request, response, ack, closed, client, told, overdue, server, seen,
    takenUp, pending, stored, stopped, failed, result, directory, leader, stage, terminal,
    accepted, outcome, clientFaults>>
reserveVars == <<up, queue, executors, checkouts, occupied, measurable, cleaned, round,
    requests>>
backupVars == <<day, hidden, visible, durable, sound, torn, phase, serving, kept, expired,
    reported, backupFaults>>
restoreVars == <<original, state, retained, stateViews, retainedViews, candidate, step,
    committed, checkpointed, opaque, report, unrolled, restoreFaults>>
all == <<subject, pollVars, channelVars, reserveVars, backupVars, restoreVars>>

-----------------------------------------------------------------------------
\* One pull request of two GitHub Repositories, two of one Forgejo Repository.
GitHub == INSTANCE GitHubPolling
    WITH Pulls <- {1}, Repositories <- {1, 2}, RepositoryOf <- [p \in {1} |-> 1]
Forgejo == INSTANCE ForgejoPolling
    WITH Pulls <- {1, 2}, Repositories <- {1}, RepositoryOf <- [p \in {1, 2} |-> 1]

ASSUME PollBoundsAssumption ==
    MaxPushes \in Nat /\ MaxFailures \in Nat /\ MaxOperations \in Nat

\* A pull request that is open shows a revision, one that is not shows none.
ASSUME RevisionsAssumption == {GitHub!Closed, GitHub!Unseen} \cap Revisions = {}

Channel == INSTANCE SubmissionChannel
    WITH taken <- takenUp, committed <- stored, phase <- stage, faults <- clientFaults,
         MaxFaults <- MaxClientFaults

\* "No file" and "no client" are none of those there are.
ASSUME NoneAssumption ==
    None \notin Clients \cup [by : Clients, written : BOOLEAN] \cup Channel!Kinds
ASSUME ClientFaultsAssumption == MaxClientFaults \in Nat

Storage == INSTANCE StorageReserve
    WITH rows <- queue, taken <- occupied, sound <- measurable

ASSUME TokenAssumption == MaxToken \in Nat
ASSUME CapacityAssumption == Capacity \in Nat

Backup == INSTANCE DailyBackup
    WITH faults <- backupFaults, MaxFaults <- MaxBackupFaults

ASSUME BackupAssumption == Keep \in Nat /\ MaxDay \in Nat \ {0}
ASSUME BackupFaultsAssumption == MaxBackupFaults \in Nat

Restore == INSTANCE OfflineRestore
    WITH outcome <- report, faults <- restoreFaults, MaxFaults <- MaxRestoreFaults

ASSUME RestoreFaultsAssumption == MaxRestoreFaults \in Nat

Subjects == {"GitHub polls", "Forgejo polls", "channel", "storage", "backup", "restore"}

FirstClient == CHOOSE c \in Clients : TRUE   \* of the two

Init ==
    /\ subject \in Subjects
    /\ IF subject = "GitHub polls" THEN GitHub!Init ELSE Forgejo!Init
    /\ subject \notin {"GitHub polls", "Forgejo polls"} => snapshot = forge /\ enabled = {1}
    /\ Channel!Init /\ Storage!Init /\ Backup!Init /\ Restore!Init
    /\ subject # "restore" => original = "absent"

\* What moves the subject leaves the others alone.
AtGitHub(A) == subject = "GitHub polls" /\ A
    /\ UNCHANGED <<subject, channelVars, reserveVars, backupVars, restoreVars>>
AtForgejo(A) == subject = "Forgejo polls" /\ A
    /\ UNCHANGED <<subject, channelVars, reserveVars, backupVars, restoreVars>>
OfChannel(A) == subject = "channel" /\ A
    /\ UNCHANGED <<subject, pollVars, reserveVars, backupVars, restoreVars>>
OfStorage(A) == subject = "storage" /\ A
    /\ UNCHANGED <<subject, pollVars, channelVars, backupVars, restoreVars>>
OfBackup(A) == subject = "backup" /\ A
    /\ UNCHANGED <<subject, pollVars, channelVars, reserveVars, restoreVars>>
OfRestore(A) == subject = "restore" /\ A
    /\ UNCHANGED <<subject, pollVars, channelVars, reserveVars, backupVars>>

Next ==
    \/ AtGitHub(GitHub!Next) \/ AtForgejo(Forgejo!Next)
    \/ OfChannel(Channel!Next) \/ OfStorage(Storage!Next)
    \/ OfBackup(Backup!Next) \/ OfRestore(Restore!Next)

\* The fairness each of the modules states.  A behaviour has one subject, so
\* one condition stands for an action of each of them.
Fairness ==
    /\ WF_all(\/ AtGitHub(GitHub!RowIsDue(1)) \/ AtForgejo(Forgejo!RowIsDue(1))
              \/ OfChannel(Channel!Polls) \/ OfStorage(Storage!DailyCleanup))
    /\ WF_all(AtGitHub(GitHub!RowIsDue(2)) \/ OfChannel(Channel!SubmissionEnds))
    /\ WF_all(\/ AtGitHub(GitHub!GateOpens) \/ AtForgejo(Forgejo!GateOpens)
              \/ OfChannel(Channel!SubmissionSettles))
    /\ WF_all(\/ AtGitHub(GitHub!StartRound) \/ AtForgejo(Forgejo!StartRound)
              \/ OfChannel(Channel!LeaseLapses(FirstClient)))
    /\ WF_all(\/ AtGitHub(GitHub!Prepare)
              \/ AtForgejo(Forgejo!Prepare \/ \E f \in Forgejo!FailureType : Forgejo!MeetsGate(f))
              \/ \E c \in Clients \ {FirstClient} : OfChannel(Channel!LeaseLapses(c)))
    /\ WF_all(\/ AtGitHub(GitHub!FetchesOne \/ GitHub!FetchesLast \/ GitHub!BeginAcquisition)
              \/ AtForgejo(\/ Forgejo!FetchesOne \/ Forgejo!FetchesLast
                           \/ Forgejo!BeginAcquisition))
    /\ WF_all(AtGitHub(GitHub!Acquired) \/ AtForgejo(Forgejo!Acquired))

Spec == Init /\ [][Next]_all /\ Fairness

-----------------------------------------------------------------------------
\* The variables of every subject have their types.
TypesOK ==
    /\ subject \in Subjects
    /\ subject = "GitHub polls" => GitHub!TypeOK
    /\ subject = "Forgejo polls" => Forgejo!TypeOK
    /\ Channel!TypeOK /\ Storage!TypeOK /\ Backup!TypeOK /\ Restore!TypeOK

\* A stored snapshot hides no revision from the poller, and a pull request has
\* one automatic Evaluation under way, however polls, baselines, rotations and
\* failures ran into each other (both forges).
RevisionsAreAdmittedOnce ==
    /\ subject = "GitHub polls" => GitHub!NoRevisionIsMissed /\ GitHub!OneActivePerPull
    /\ subject = "Forgejo polls" => Forgejo!NoRevisionIsMissed /\ Forgejo!OneActivePerPull

\* No open revision is missed for ever, whatever failures, baselines and
\* restarts ended or overtook the rounds before (both forges).
RevisionsAreTaken ==
    []<>(/\ subject = "GitHub polls" => ~GitHub!Missed(1)
         /\ subject = "Forgejo polls" => \A p \in {1, 2} : ~Forgejo!Missed(p))

\* A client reports success only for its own stored Result, never finds the
\* answer to another's, and a Run succeeds exactly when a Result was stored.
SubmissionIsAnsweredOnce ==
    Channel!AcceptedIsStored /\ Channel!AnswerIsItsOwn /\ Channel!OutcomeHonoursCommit

\* Cleaning up spares the checkout of whoever still holds its claim.
CleanupSparesTheLive == Storage!CleanupSparesTheLive

\* No observation is committed and no Codex started below the reserve, however
\* long ago it was measured.
GuardedStepsKeepTheReserve == Storage!GuardedStepsKeepTheReserve

\* What a crash leaves behind is cleared: the lock of a killed client does not
\* keep the others out for ever, a checkout that nobody uses is removed.
LeftoversAreCleared == Channel!CrashedLockIsTaken /\ Storage!LeftoversAreRemoved

\* The database survives: a backup reported as created outlives a power loss
\* until newer ones take its place, and wherever a restore fails or is cut off
\* one complete database is in place, an unreadable original is kept and what
\* was reported is so after a power loss.
DatabaseSurvives ==
    /\ Backup!ReportedIsDurable
    /\ Restore!OneDatabaseIsWhole
    /\ Restore!UnreadableOriginalIsKept
    /\ Restore!OutcomeIsDurable
=============================================================================
