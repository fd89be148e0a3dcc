----------------------------- MODULE DailyBackup -----------------------------
(***************************************************************************)
(* The daily backups of an installation: a complete database and the       *)
(* manifest that names it, written under dotted names, renamed, made       *)
(* durable, and kept for the latest Keep days.  Everything after the       *)
(* online copy runs without yielding, so other requests interleave with    *)
(* the copy only; the process may be killed and the power may fail at any  *)
(* step.  Two backups of one day never stand side by side, so a backup is  *)
(* named by its day.                                                       *)
(***************************************************************************)
EXTENDS Naturals, FiniteSets

CONSTANTS Keep,       \* backups retained (7 in the code)
          MaxDay,     \* bound: days that pass
          MaxFaults   \* bound: operations that fail

VARIABLES day,        \* the current UTC day
          hidden,     \* dotted output present in the directory
          visible,    \* final names present in the directory
          durable,    \* final names a power loss is sure to leave
          sound,      \* days whose manifest survives a power loss intact
          torn,       \* days whose manifest a power loss left without its text
          phase,      \* where the process stands
          serving,    \* the application answers requests
          kept,       \* names the backup has renamed, which its failure removes
          expired,    \* days the retention is still to remove
          reported,   \* history: the newest day a backup was reported created
          faults
vars == <<day, hidden, visible, durable, sound, torn, phase, serving, kept, expired,
          reported, faults>>

Days == 1..MaxDay
Parts == {"database", "manifest"}
Names == Parts \X Days
Both(d) == Parts \X {d}
Phases == {"down", "idle", "copying", "copied", "verified", "named", "committed",
           "written", "durable", "retaining", "failed"}

TypeOK ==
    /\ day \in Days /\ hidden \subseteq Parts
    /\ visible \subseteq Names /\ durable \subseteq Names
    /\ sound \subseteq Days /\ torn \subseteq Days /\ expired \subseteq Days
    /\ phase \in Phases /\ serving \in BOOLEAN /\ kept \subseteq Parts
    /\ reported \in 0..MaxDay /\ faults \in 0..MaxFaults

-----------------------------------------------------------------------------
\* A manifest that parses beside a database that passes the integrity check.
Valid(names, broken) == {d \in Days \ broken : Both(d) \subseteq names}
\* The backups that a power loss at this moment leaves.
Held == {d \in Valid(visible, torn) : Both(d) \subseteq durable /\ d \in sound}

\* What reading the backups leaves: dotted output, half a backup and a backup
\* that does not validate are discarded.
Remaining == Parts \X Valid(visible, torn)
Discarded ==
    /\ hidden' = {}
    /\ visible' = Remaining
    /\ durable' = IF Remaining = visible /\ hidden = {} THEN durable ELSE Remaining
    /\ torn' = {}
    /\ UNCHANGED sound

Init ==
    /\ day = 1 /\ hidden = {} /\ visible = {} /\ durable = {} /\ sound = {} /\ torn = {}
    /\ phase = "down" /\ serving = FALSE /\ kept = {} /\ expired = {}
    /\ reported = 0 /\ faults = 0

-----------------------------------------------------------------------------
\* The check at startup and on every timer: nothing is due while this day's
\* backup is there, otherwise the online copy starts.
DueToday == day \notin Valid(visible, torn)

Check ==
    /\ phase \in {"down", "idle"}
    /\ Discarded
    /\ IF DueToday
       THEN /\ phase' = "copying" /\ UNCHANGED serving
       ELSE /\ phase' = "idle" /\ serving' = TRUE
    /\ UNCHANGED <<day, kept, expired, reported, faults>>

\* The online copy creates its output with its first pages.
CopyBegins ==
    /\ phase = "copying" /\ "database" \notin hidden
    /\ phase' = "copied" /\ hidden' = {"database"}
    /\ UNCHANGED <<day, visible, durable, sound, torn, serving, kept, expired,
                   reported, faults>>

\* The System resource reads the validated backups to report the latest one.
SystemReads ==
    /\ serving /\ phase \in {"idle", "copying", "copied"}
    /\ Discarded
    /\ UNCHANGED <<day, phase, serving, kept, expired, reported, faults>>

\* The finished copy is opened for its integrity check: it has to be there.
Verify ==
    /\ phase = "copied"
    /\ phase' = IF "database" \in hidden THEN "verified" ELSE "failed"
    /\ UNCHANGED <<day, hidden, visible, durable, sound, torn, serving, kept, expired,
                   reported, faults>>

NameDatabase ==
    /\ phase = "verified"
    /\ hidden' = {"manifest"} /\ visible' = visible \cup {<<"database", day>>}
    /\ kept' = {"database"} /\ phase' = "named"
    /\ UNCHANGED <<day, durable, sound, torn, serving, expired, reported, faults>>

NameManifest ==
    /\ phase = "named"
    /\ hidden' = {} /\ visible' = visible \cup {<<"manifest", day>>}
    /\ kept' = Parts /\ phase' = "committed"
    /\ UNCHANGED <<day, durable, sound, torn, serving, expired, reported, faults>>

SynchronizeFiles_Not ==
    /\ phase = "committed"
    /\ phase' = "written"
    /\ UNCHANGED <<day, hidden, visible, durable, sound, torn, serving, kept, expired,
                   reported, faults>>

SynchronizeFiles ==
    /\ phase = "committed"
    /\ sound' = sound \cup {day} /\ phase' = "written"
    /\ UNCHANGED <<day, hidden, visible, durable, torn, serving, kept, expired, reported, faults>>

SynchronizeDirectory ==
    /\ phase = "written"
    /\ durable' = visible /\ phase' = "durable"
    /\ UNCHANGED <<day, hidden, visible, sound, torn, serving, kept, expired, reported, faults>>

-----------------------------------------------------------------------------
\* All but the latest Keep backups.
Expired_Newest(days) == {d \in days : Cardinality({e \in days : e < d}) >= Keep}

Expired(days) == {d \in days : Cardinality({e \in days : e > d}) >= Keep}

Retain ==
    /\ phase = "durable"
    /\ Discarded
    /\ expired' = Expired(Valid(visible, torn)) /\ phase' = "retaining"
    /\ UNCHANGED <<day, serving, kept, reported, faults>>

\* The database of an expired backup is removed, then its manifest.
Removes(d) ==
    /\ phase = "retaining" /\ d \in expired
    /\ IF <<"database", d>> \in visible
       THEN visible' = visible \ {<<"database", d>>} /\ UNCHANGED expired
       ELSE visible' = visible \ {<<"manifest", d>>} /\ expired' = expired \ {d}
    /\ durable' = durable \cap visible'
    /\ UNCHANGED <<day, hidden, sound, torn, phase, serving, kept, reported, faults>>

\* The directory is synchronised once more and the backup is reported.
Created ==
    /\ phase = "retaining" /\ expired = {}
    /\ durable' = visible /\ phase' = "idle" /\ serving' = TRUE /\ kept' = {}
    /\ reported' = day
    /\ UNCHANGED <<day, hidden, visible, sound, torn, expired, faults>>

-----------------------------------------------------------------------------
\* Any operation may fail; closing the application aborts a copy.
Fails ==
    /\ phase \in Phases \ {"down", "idle", "failed"} /\ faults < MaxFaults
    /\ phase' = "failed" /\ faults' = faults + 1
    /\ UNCHANGED <<day, hidden, visible, durable, sound, torn, serving, kept, expired,
                   reported>>

Abort ==
    /\ phase \in {"copying", "copied"}
    /\ phase' = "failed"
    /\ UNCHANGED <<day, hidden, visible, durable, sound, torn, serving, kept, expired,
                   reported, faults>>

\* A failed backup removes what it wrote, the renamed names included, and the
\* failure closes the application; a removal may fail as well.
CleansUp(left) ==
    /\ phase = "failed" /\ left \subseteq kept
    /\ left = {} \/ faults < MaxFaults
    /\ faults' = IF left = {} THEN faults ELSE faults + 1
    /\ hidden' = {} /\ visible' = visible \ ((kept \ left) \X {day})
    /\ durable' = durable \cap visible'
    /\ phase' = "down" /\ serving' = FALSE /\ kept' = {} /\ expired' = {}
    /\ UNCHANGED <<day, sound, torn, reported>>

\* The process ends without a word; with the power, names that were not yet
\* synchronised are there or not, and so is the text of a manifest.
Kill ==
    /\ phase # "down"
    /\ phase' = "down" /\ serving' = FALSE /\ kept' = {} /\ expired' = {}
    /\ UNCHANGED <<day, hidden, visible, durable, sound, torn, reported, faults>>

PowerLoss ==
    \E lost \in SUBSET (visible \ durable), broken \in SUBSET (Days \ sound) :
        /\ phase # "down"
        /\ visible' = visible \ lost /\ durable' = visible'
        /\ broken \subseteq {d \in Days : <<"manifest", d>> \in visible'}
        /\ torn' = torn \cup broken
        /\ sound' = {d \in Days : <<"manifest", d>> \in visible'} \ torn'
        /\ phase' = "down" /\ serving' = FALSE /\ kept' = {} /\ expired' = {}
        /\ UNCHANGED <<day, hidden, reported, faults>>

\* A day passes, longer than the operating system takes to write back what it
\* buffers; a backup in the making keeps the day it began with.
DayPasses ==
    /\ phase \in {"down", "idle"} /\ day < MaxDay
    /\ day' = day + 1
    /\ durable' = visible
    /\ sound' = {d \in Days \ torn : <<"manifest", d>> \in visible}
    /\ UNCHANGED <<hidden, visible, torn, phase, serving, kept, expired, reported,
                   faults>>

Next ==
    \/ Check \/ CopyBegins \/ SystemReads \/ Verify \/ NameDatabase \/ NameManifest
    \/ SynchronizeFiles \/ SynchronizeDirectory \/ Retain
    \/ \E d \in Days : Removes(d)
    \/ Created \/ Fails \/ Abort
    \/ \E left \in SUBSET Parts : CleansUp(left)
    \/ Kill \/ PowerLoss \/ DayPasses

Spec == Init /\ [][Next]_vars

-----------------------------------------------------------------------------
\* A backup that was reported created survives a power loss until newer ones
\* have taken its place, whatever fails meanwhile.
ReportedIsDurable ==
    reported = 0 \/ reported \in Held
        \/ Cardinality({d \in Held : d > reported}) + 1 >= Keep

\* A backup in the making keeps its output until it ends: only output that an
\* earlier process left is discarded by those who read the backups.
OnlyInterruptedOutputIsDiscarded ==
    [][phase = "copied" /\ phase' = "copied" => hidden \subseteq hidden']_vars
=============================================================================
