--------------------------- MODULE OfflineRestore ---------------------------
(***************************************************************************)
(* Restoring a backup while the service is stopped.  The snapshot is       *)
(* copied into a directory of its own and prepared there; the database in  *)
(* place is kept under a second name; then the copy takes its name.  Any   *)
(* operation may fail, the process may be killed and the power may fail    *)
(* between any two of them.  A directory is the function from its names    *)
(* to the files they stand for; its changes reach the disk in their order, *)
(* all of them by the next fsync of the directory.                         *)
(***************************************************************************)
EXTENDS Naturals

CONSTANT MaxFaults   \* bound: operations that fail

VARIABLES original,    \* the database in place: what it is without its WAL
          state,       \* names in the state directory: database and WAL
          retained,    \* names in the candidate's directory
          stateViews, retainedViews,  \* what a power loss may leave of either
          candidate,   \* how far the copy is prepared
          step,        \* the operation that is next
          committed,   \* the copy has taken the database's name
          checkpointed, opaque,       \* how consolidating the original ended
          outcome,     \* what the command reported
          unrolled,    \* a step of the rollback failed
          faults
vars == <<original, state, retained, stateViews, retainedViews, candidate, step,
          committed, checkpointed, opaque, outcome, unrolled, faults>>

Kinds == {"absent", "whole", "behind", "corrupt"}
Files == {"none", "original", "wal", "snapshot"}
Views == [database : Files, wal : Files]
RetainedViews == [candidate : Files, previous : Files, wal : Files]
Empty == [candidate |-> "none", previous |-> "none", wal |-> "none"]
Steps == {"copy", "prepare", "synchronize", "retain", "retainWal", "syncRetained",
          "checkpoint", "removeWal", "syncState", "syncKept", "publish", "syncPublished",
          "cleanUp", "rollback", "unpublish", "relink", "syncRollback", "discard", "over"}

TypeOK ==
    /\ original \in Kinds /\ state \in Views /\ retained \in RetainedViews
    /\ stateViews \subseteq Views /\ retainedViews \subseteq RetainedViews
    /\ candidate \in {"none", "raw", "prepared", "durable"} /\ step \in Steps
    /\ committed \in BOOLEAN /\ checkpointed \in BOOLEAN /\ opaque \in BOOLEAN
    /\ outcome \in {"none", "restored", "failed", "retained"} /\ unrolled \in BOOLEAN
    /\ faults \in 0..MaxFaults

Present == original # "absent"

Init ==
    /\ original \in Kinds
    /\ state = [database |-> IF Present THEN "original" ELSE "none",
                wal |-> IF original \in {"behind", "corrupt"} THEN "wal" ELSE "none"]
    /\ retained = Empty /\ stateViews = {state} /\ retainedViews = {retained}
    /\ candidate = "none" /\ step = "copy"
    /\ committed = FALSE /\ checkpointed = FALSE /\ opaque = FALSE
    /\ outcome = "none" /\ unrolled = FALSE /\ faults = 0

-----------------------------------------------------------------------------
\* Changes of the names, each of which may or may not be on disk until the
\* directory is synchronised.
InState(names) == state' = names /\ stateViews' = stateViews \cup {names}
InRetained(names) == retained' = names /\ retainedViews' = retainedViews \cup {names}
SyncState == stateViews' = {state} /\ UNCHANGED state
SyncRetained == retainedViews' = {retained} /\ UNCHANGED retained
StateKept == UNCHANGED <<state, stateViews>>
RetainedKept == UNCHANGED <<retained, retainedViews>>
Flags == <<committed, checkpointed, opaque>>
Report == <<outcome, unrolled, faults>>

\* The snapshot is validated and copied.
Copy ==
    /\ step = "copy"
    /\ InRetained([retained EXCEPT !.candidate = "snapshot"])
    /\ candidate' = "raw" /\ step' = "prepare"
    /\ StateKept /\ UNCHANGED <<original, Flags, Report>>

\* The copy is validated against the schema, the key and its credentials, the
\* operator's authority is replaced and discovery starts over.
Prepare ==
    /\ step = "prepare"
    /\ candidate' = "prepared" /\ step' = "synchronize"
    /\ StateKept /\ RetainedKept /\ UNCHANGED <<original, Flags, Report>>

SynchronizeCandidate_Not ==
    /\ step = "synchronize"
    /\ step' = "retain"
    /\ StateKept /\ RetainedKept /\ UNCHANGED <<original, candidate, Flags, Report>>

SynchronizeCandidate ==
    /\ step = "synchronize"
    /\ candidate' = "durable" /\ step' = "retain"
    /\ StateKept /\ RetainedKept /\ UNCHANGED <<original, Flags, Report>>

-----------------------------------------------------------------------------
\* The original and its WAL get second names, made durable before anything
\* happens to the first ones.
RetainOriginal ==
    /\ step = "retain"
    /\ InRetained([retained EXCEPT !.previous = state.database])
    /\ step' = "retainWal"
    /\ StateKept /\ UNCHANGED <<original, candidate, Flags, Report>>

RetainWal ==
    /\ step = "retainWal"
    /\ InRetained([retained EXCEPT !.wal = state.wal])
    /\ step' = "syncRetained"
    /\ StateKept /\ UNCHANGED <<original, candidate, Flags, Report>>

MakeRetainedDurable ==
    /\ step = "syncRetained"
    /\ SyncRetained
    /\ step' = IF Present THEN "checkpoint" ELSE "removeWal"
    /\ StateKept /\ UNCHANGED <<original, candidate, Flags, Report>>

\* A readable original takes in its WAL; an unreadable one stays opaque.
Consolidate ==
    /\ step = "checkpoint"
    /\ IF original = "corrupt"
       THEN opaque' = TRUE /\ UNCHANGED <<original, checkpointed>>
       ELSE checkpointed' = TRUE /\ original' = "whole" /\ UNCHANGED opaque
    /\ step' = "removeWal"
    /\ StateKept /\ RetainedKept /\ UNCHANGED <<candidate, committed, Report>>

RemoveWal_Kept ==
    /\ step = "removeWal"
    /\ StateKept /\ RetainedKept
    /\ step' = "syncState"
    /\ UNCHANGED <<original, candidate, Flags, Report>>

RemoveWal_Both ==
    /\ step = "removeWal"
    /\ InState([state EXCEPT !.wal = "none"])
    /\ InRetained([retained EXCEPT !.wal = "none"])
    /\ step' = "syncState"
    /\ UNCHANGED <<original, candidate, Flags, Report>>

\* The WAL's name goes, its second one only when nothing is left in it.
RemoveWal ==
    /\ step = "removeWal"
    /\ InState([state EXCEPT !.wal = "none"])
    /\ IF checkpointed THEN InRetained([retained EXCEPT !.wal = "none"]) ELSE RetainedKept
    /\ step' = "syncState"
    /\ UNCHANGED <<original, candidate, Flags, Report>>

MakeRemovalDurable ==
    /\ step = "syncState"
    /\ SyncState
    /\ step' = "syncKept"
    /\ RetainedKept /\ UNCHANGED <<original, candidate, Flags, Report>>

MakeKeptDurable ==
    /\ step = "syncKept"
    /\ SyncRetained
    /\ step' = "publish"
    /\ StateKept /\ UNCHANGED <<original, candidate, Flags, Report>>

\* The copy takes the database's name in one rename.
Publish ==
    /\ step = "publish"
    /\ InState([state EXCEPT !.database = retained.candidate])
    /\ InRetained([retained EXCEPT !.candidate = "none"])
    /\ committed' = TRUE /\ step' = "syncPublished"
    /\ UNCHANGED <<original, candidate, checkpointed, opaque, Report>>

MakePublicationDurable_Not ==
    /\ step = "syncPublished"
    /\ step' = "cleanUp"
    /\ StateKept /\ RetainedKept /\ UNCHANGED <<original, candidate, Flags, Report>>

MakePublicationDurable ==
    /\ step = "syncPublished"
    /\ SyncState
    /\ step' = "cleanUp"
    /\ RetainedKept /\ UNCHANGED <<original, candidate, Flags, Report>>

\* The candidate's directory goes, and with it the second names.
CleanUp ==
    /\ step = "cleanUp"
    /\ InRetained(Empty)
    /\ outcome' = "restored" /\ step' = "over"
    /\ StateKept /\ UNCHANGED <<original, candidate, Flags, unrolled, faults>>

-----------------------------------------------------------------------------
\* A failure before anything was retained ends in discarding the copy; one of
\* the publication in its rollback; one of the final removal keeps the names.
AfterFailure ==
    CASE step \in {"copy", "prepare", "synchronize"} -> "discard"
      [] step = "cleanUp" -> "over"
      [] OTHER -> "rollback"

Fails ==
    /\ step \in Steps \ {"rollback", "unpublish", "relink", "syncRollback", "discard", "over"}
    /\ faults < MaxFaults
    /\ faults' = faults + 1 /\ step' = AfterFailure
    /\ outcome' = IF step = "cleanUp" THEN "retained" ELSE outcome
    /\ StateKept /\ RetainedKept /\ UNCHANGED <<original, candidate, Flags, unrolled>>

\* An original that was absent leaves only the copy to take back; an opaque
\* one that is still in place is left with its second names.
Rollback ==
    /\ step = "rollback"
    /\ IF committed
       THEN /\ InRetained([retained EXCEPT !.candidate = state.database])
            /\ step' = "unpublish" /\ UNCHANGED outcome
       ELSE /\ RetainedKept
            /\ IF Present /\ opaque THEN step' = "over" /\ outcome' = "retained"
               ELSE step' = "syncRollback" /\ UNCHANGED outcome
    /\ StateKept /\ UNCHANGED <<original, candidate, Flags, unrolled, faults>>

Unpublish ==
    /\ step = "unpublish"
    /\ InState([state EXCEPT !.database = retained.previous])
    /\ InRetained([retained EXCEPT !.previous = "none"])
    /\ step' = IF Present THEN "relink" ELSE "syncRollback"
    /\ UNCHANGED <<original, candidate, Flags, Report>>

Relink_Never ==
    /\ step = "relink"
    /\ StateKept
    /\ step' = "syncRollback"
    /\ RetainedKept /\ UNCHANGED <<original, candidate, Flags, Report>>

Relink ==
    /\ step = "relink"
    /\ IF retained.wal # "none" THEN InState([state EXCEPT !.wal = retained.wal]) ELSE StateKept
    /\ step' = "syncRollback"
    /\ RetainedKept /\ UNCHANGED <<original, candidate, Flags, Report>>

\* The second names stay where the original was absent or could not be put
\* back; otherwise they go, and the failure is reported.
SyncRollback ==
    /\ step = "syncRollback"
    /\ SyncState /\ SyncRetained
    /\ IF Present /\ ~unrolled
       THEN step' = "discard" /\ UNCHANGED outcome
       ELSE step' = "over" /\ outcome' = "retained"
    /\ UNCHANGED <<original, candidate, Flags, unrolled, faults>>

\* A step of the rollback may fail; the others are still taken.
RollbackFails ==
    /\ faults < MaxFaults
    /\ \/ step = "rollback" /\ committed /\ UNCHANGED outcome
            /\ step' = IF Present THEN "unpublish" ELSE "syncRollback"
       \/ step = "unpublish" /\ UNCHANGED outcome
            /\ step' = IF Present THEN "relink" ELSE "syncRollback"
       \/ step = "relink" /\ retained.wal # "none" /\ step' = "syncRollback" /\ UNCHANGED outcome
       \/ step = "syncRollback" /\ step' = "over" /\ outcome' = "retained"
    /\ faults' = faults + 1 /\ unrolled' = TRUE
    /\ StateKept /\ RetainedKept /\ UNCHANGED <<original, candidate, Flags>>

\* The candidate's directory is removed before the failure is reported; that
\* it could not be is added to the report.
Discard ==
    /\ step = "discard"
    /\ \/ InRetained(Empty) /\ UNCHANGED faults
       \/ faults < MaxFaults /\ RetainedKept /\ faults' = faults + 1
    /\ outcome' = "failed" /\ step' = "over"
    /\ StateKept /\ UNCHANGED <<original, candidate, Flags, unrolled>>

-----------------------------------------------------------------------------
\* The command is killed.
Kill ==
    /\ step # "over"
    /\ step' = "over"
    /\ StateKept /\ RetainedKept /\ UNCHANGED <<original, candidate, Flags, Report>>

\* Each directory is left as it was at some moment since it was synchronised;
\* a copy that was not loses its contents.
PowerLoss ==
    \E view \in stateViews, second \in retainedViews :
        /\ state' = view /\ stateViews' = {view}
        /\ retained' = second /\ retainedViews' = {second}
        /\ candidate' = IF candidate = "durable" THEN candidate ELSE "none"
        /\ step' = "over"
        /\ UNCHANGED <<original, Flags, Report>>

Next ==
    \/ Copy \/ Prepare \/ SynchronizeCandidate
    \/ RetainOriginal \/ RetainWal \/ MakeRetainedDurable \/ Consolidate \/ RemoveWal
    \/ MakeRemovalDurable \/ MakeKeptDurable \/ Publish \/ MakePublicationDurable \/ CleanUp
    \/ Fails \/ Rollback \/ Unpublish \/ Relink \/ SyncRollback \/ RollbackFails \/ Discard
    \/ Kill \/ PowerLoss

Spec == Init /\ [][Next]_vars

-----------------------------------------------------------------------------
\* Whatever fails, and wherever the command is cut off, the service finds one
\* complete database: the prepared copy with no foreign WAL, or the original
\* with the WAL it still needs; only a rollback that itself failed may leave
\* another state.
OneDatabaseIsWhole ==
    unrolled \/
    /\ state.database = "snapshot" => candidate = "durable" /\ state.wal = "none"
    /\ state.database = "original" /\ original = "behind" => state.wal = "wal"
    /\ state.database = "none" => ~Present

\* An original that cannot be read is not thrown away piecemeal: until the copy
\* is published both its file and its WAL keep a name.
UnreadableOriginalIsKept ==
    original = "corrupt" /\ state.database # "snapshot" =>
        /\ "original" \in {state.database, retained.previous}
        /\ "wal" \in {state.wal, retained.wal}

\* What the command reported survives a power loss: the copy after a success,
\* the original with its WAL after a failure that kept nothing for the operator.
OutcomeIsDurable ==
    /\ outcome = "restored" =>
          \A view \in stateViews : view.database = "snapshot" /\ view.wal = "none"
    /\ outcome = "failed" =>
          \A view \in stateViews :
              /\ view.database = IF Present THEN "original" ELSE "none"
              /\ original \in {"behind", "corrupt"} => view.wal = "wal"
=============================================================================
