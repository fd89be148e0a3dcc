------------------------- MODULE SubmissionChannel -------------------------
(***************************************************************************)
(* The file channel through which Codex hands in the Result of one Review  *)
(* Run (src/review/review-run-submission-*.ts, src/quality-bar-submit*.ts) *)
(* and the way the Codex adapter ends the Run from it.                     *)
(*                                                                         *)
(* Each client is one call of quality-bar-submit: a process of its own     *)
(* that takes the lock file, publishes its request, waits for the answer,  *)
(* acknowledges it and removes what it created.  The server polls in the   *)
(* application's thread; every file it reads in a poll is a step of its    *)
(* own, since clients run in between, while the adapter and the server     *)
(* share that thread and meet only between polls (server = "idle").        *)
(*                                                                         *)
(* Abstracted: signatures, file metadata and process provenance, which     *)
(* only tell genuine clients from others (every client here is genuine);   *)
(* the quarantine rename by which a file is removed only under the         *)
(* identity it was created with is the test "the file is still its own".   *)
(***************************************************************************)
EXTENDS Naturals, FiniteSets

CONSTANTS Clients,     \* the calls of quality-bar-submit
          None,        \* no file, no client
          MaxFaults    \* bound on killed or stalled clients and storage faults

VARIABLES
    lock,       \* the lock file: None or [by, written]
    request,    \* the client whose request file is published, or None
    response,   \* the response file: None or [to, ok]
    ack,        \* the client whose acknowledgment file is published, or None
    closed,     \* the closed marker exists
    client,     \* where each client is
    told,       \* what each client has to report to Codex
    overdue,    \* clients whose lock was not refreshed for the lease time
    server,     \* where the poll in progress is
    seen,       \* the lock file as that poll read it
    taken,      \* the client whose request that poll took up, or None
    pending,    \* the answer waiting for its acknowledgment: None or [to, ok]
    committed,  \* the client whose Result was stored, or None
    stopped,    \* the channel accepts nothing any more
    failed,     \* the channel recorded an unexpected failure
    result,     \* what waitForResult resolved to
    directory,  \* the private directory with the command, its runtime and token
    leader,     \* the Codex process itself runs
    phase,      \* how far the adapter has ended the Run
    terminal,   \* the first terminal event of the Run
    accepted,   \* the adapter's verdict on the submission
    outcome,    \* how runReviewRunCodex ended
    faults

files == <<lock, request, response, ack, closed>>
clientVars == <<client, told, overdue>>
pollVars == <<server, seen, taken, pending, committed>>
channelVars == <<stopped, failed, result>>
adapterVars == <<directory, leader, phase, terminal, accepted, outcome>>
vars == <<files, clientVars, pollVars, channelVars, adapterVars, faults>>

Running == {"opened", "locked", "publishing", "published", "waiting",
            "answered", "acknowledged", "leaving", "unlocking"}

Kinds == {"submission", "process", "deadline", "cancellation", "transcript"}

Answers == [to : Clients, ok : BOOLEAN]

(* The values every variable keeps to in all operations of the channel.    *)
TypeOK ==
    /\ lock \in [by : Clients, written : BOOLEAN] \cup {None}
    /\ {request, ack, taken, committed} \subseteq Clients \cup {None}
    /\ {response, pending} \subseteq Answers \cup {None}
    /\ client \in [Clients -> Running \cup {"idle", "done", "dead"}]
    /\ told \in [Clients -> {"nothing", "accepted", "rejected",
                             "unavailable", "invalid"}]
    /\ overdue \subseteq Clients
    /\ server \in {"idle", "pending", "lock", "request", "check", "prepare"}
    /\ seen \in [by : Clients, written : BOOLEAN, overdue : BOOLEAN] \cup {None}
    /\ {closed, stopped, failed, directory, leader, accepted} \subseteq BOOLEAN
    /\ result \in {"open", "accepted", "failed"}
    /\ phase \in {"opening", "open", "race", "awaits result", "awaits pending",
                  "settled", "ended", "closed"}
    /\ terminal \in Kinds \cup {None}
    /\ outcome \in {"running", "accepted", "cancelled", "deadline_exceeded",
                    "submission_failed", "result_not_submitted",
                    "not_started", "transcript", "evidence"}
    /\ faults \in 0..MaxFaults

Init ==
    /\ lock = None /\ request = None /\ response = None /\ ack = None
    /\ closed = FALSE
    /\ client = [c \in Clients |-> "idle"]
    /\ told = [c \in Clients |-> "nothing"]
    /\ overdue = {}
    /\ server = "idle" /\ seen = None /\ taken = None
    /\ pending = None /\ committed = None
    /\ stopped = FALSE /\ failed = FALSE /\ result = "open"
    /\ directory = FALSE /\ leader = FALSE
    /\ phase = "opening" /\ terminal = None
    /\ accepted = FALSE /\ outcome = "running"
    /\ faults = 0

-----------------------------------------------------------------------------
(* quality-bar-submit                                                      *)

Goes(c, there) == client' = [client EXCEPT ![c] = there]

(* The client reports and starts to remove what it created.                *)
Leaves(c, report) ==
    /\ told' = [told EXCEPT ![c] = report]
    /\ Goes(c, "leaving")

(* openSync(lockPath, "wx"): the channel takes one client at a time.       *)
OpenLock(c) ==
    /\ client[c] = "idle" /\ leader
    /\ IF lock = None
       THEN /\ lock' = [by |-> c, written |-> FALSE]
            /\ Goes(c, "opened")
            /\ UNCHANGED told
       ELSE /\ told' = [told EXCEPT ![c] = "unavailable"]
            /\ Goes(c, "done")
            /\ UNCHANGED lock
    /\ UNCHANGED <<request, response, ack, closed, overdue>>

Owns(c) == lock # None /\ lock.by = c

WriteLock(c) ==
    /\ client[c] = "opened" /\ c \notin overdue
    /\ lock' = IF Owns(c) THEN [lock EXCEPT !.written = TRUE] ELSE lock
    /\ Goes(c, "locked")
    /\ UNCHANGED <<request, response, ack, closed, told, overdue>>

(* The two looks at the closed marker, before and after the request is     *)
(* published.                                                              *)
FindOpen(c) ==
    /\ client[c] \in {"locked", "published"} /\ c \notin overdue
    /\ IF closed
       THEN Leaves(c, "unavailable")
       ELSE /\ Goes(c, IF client[c] = "locked" THEN "publishing" ELSE "waiting")
            /\ UNCHANGED told
    /\ UNCHANGED <<files, overdue>>

(* linkSync(temporaryRequestPath, requestPath) replaces no request.        *)
PublishRequest(c) ==
    /\ client[c] = "publishing" /\ c \notin overdue
    /\ IF request = None
       THEN /\ request' = c
            /\ Goes(c, "published")
            /\ UNCHANGED told
       ELSE /\ Leaves(c, "unavailable")
            /\ UNCHANGED request
    /\ UNCHANGED <<lock, response, ack, closed, overdue>>

(* One turn of the wait: an answer, the closed marker, a lost lock found   *)
(* by the heartbeat, or the deadline baked into the command.               *)
Look(c) ==
    /\ client[c] = "waiting" /\ c \notin overdue
    /\ \/ /\ response # None /\ response.to = c
          /\ told' = [told EXCEPT ![c] = IF response.ok THEN "accepted"
                                        ELSE "rejected"]
          /\ Goes(c, "answered")
       \/ /\ response # None /\ response.to # c
          /\ Leaves(c, "invalid")
       \/ /\ (response = None /\ closed) \/ ~Owns(c) \/ terminal = "deadline"
          /\ Leaves(c, "unavailable")
    /\ UNCHANGED <<files, overdue>>

(* publishAcknowledgment replaces no acknowledgment.                       *)
Acknowledge(c) ==
    /\ client[c] = "answered" /\ c \notin overdue
    /\ IF ack = None
       THEN /\ ack' = c
            /\ Goes(c, "acknowledged")
            /\ UNCHANGED told
       ELSE /\ Leaves(c, "unavailable")
            /\ UNCHANGED ack
    /\ UNCHANGED <<lock, request, response, closed, overdue>>

(* Variant: the client leaves the removal of the answer to the server.     *)
RemoveResponse_Left(c) ==
    /\ client[c] = "acknowledged" /\ c \notin overdue
    /\ Goes(c, "leaving")
    /\ UNCHANGED <<files, told, overdue>>

RemoveResponse(c) ==
    /\ client[c] = "acknowledged" /\ c \notin overdue
    /\ response' = IF response # None /\ response.to = c THEN None ELSE response
    /\ Goes(c, "leaving")
    /\ UNCHANGED <<lock, request, ack, closed, told, overdue>>

(* The finally block: its own request first, then its own lock.            *)
RemoveRequest(c) ==
    /\ client[c] = "leaving" /\ c \notin overdue
    /\ request' = IF request = c THEN None ELSE request
    /\ Goes(c, "unlocking")
    /\ UNCHANGED <<lock, response, ack, closed, told, overdue>>

RemoveLock(c) ==
    /\ client[c] = "unlocking" /\ c \notin overdue
    /\ lock' = IF Owns(c) THEN None ELSE lock
    /\ Goes(c, "done")
    /\ UNCHANGED <<request, response, ack, closed, told, overdue>>

Submits(c) ==
    /\ \/ OpenLock(c)       \/ WriteLock(c)     \/ FindOpen(c)
       \/ PublishRequest(c) \/ Look(c)          \/ Acknowledge(c)
       \/ RemoveResponse(c) \/ RemoveRequest(c) \/ RemoveLock(c)
    /\ UNCHANGED <<pollVars, channelVars, adapterVars, faults>>

(* Codex, or the system, kills a client, or stops it for longer than the   *)
(* lease time and lets it go on.                                           *)
KillClient(c) ==
    /\ client[c] \in Running /\ faults < MaxFaults
    /\ Goes(c, "dead")
    /\ faults' = faults + 1
    /\ UNCHANGED <<files, told, overdue, pollVars, channelVars, adapterVars>>

StallClient(c) ==
    /\ client[c] \in Running /\ c \notin overdue /\ faults < MaxFaults
    /\ overdue' = overdue \cup {c}
    /\ faults' = faults + 1
    /\ UNCHANGED <<files, client, told, pollVars, channelVars, adapterVars>>

ResumeClient(c) ==
    /\ c \in overdue /\ client[c] # "dead"
    /\ overdue' = overdue \ {c}
    /\ UNCHANGED <<files, client, told, pollVars, channelVars, adapterVars, faults>>

(* The lock a dead client left grows old.                                  *)
LeaseLapses(c) ==
    /\ client[c] = "dead" /\ c \notin overdue
    /\ overdue' = overdue \cup {c}
    /\ UNCHANGED <<files, client, told, pollVars, channelVars, adapterVars, faults>>

-----------------------------------------------------------------------------
(* The server's poll                                                       *)

(* A promise resolves once.                                                *)
Resolved(value) == result' = IF result = "open" THEN value ELSE result

StopAccepting == stopped' = TRUE /\ closed' = TRUE

(* failUnexpectedly                                                        *)
FailUnexpectedly ==
    /\ failed' = TRUE
    /\ StopAccepting
    /\ Resolved("failed")

(* isSubmissionLeaseAlive of a lock file that was read with this content.  *)
LeaseAlive(file) ==
    CASE ~file.written -> "unknown"
      [] file.written /\ (client[file.by] = "dead" \/ ~leader) -> "dead"
      [] OTHER -> IF file.overdue THEN "unknown" ELSE "alive"

(* Variant: a lock without an owner in it is never old enough.             *)
Discards_Dead(file) == LeaseAlive(file) = "dead"

(* Only a lock whose owner is gone is discarded: an overdue lock that      *)
(* still names its owner is kept.                                          *)
Discards(file) ==
    \/ LeaseAlive(file) = "dead"
    \/ ~file.written /\ file.overdue

LockRead == IF lock = None THEN None
            ELSE [by |-> lock.by, written |-> lock.written,
                  overdue |-> lock.by \in overdue]

(* A poll begins only in its own turn of the event loop: the adapter's     *)
(* continuation of a settled promise has run before it.                    *)
AdapterWaits ==
    /\ phase \in {"race", "awaits result"} => result = "open"
    /\ phase = "awaits pending" => pending # None

(* Nothing is read before the process group of Codex is bound.             *)
PollBegins ==
    /\ server = "idle" /\ ~stopped
    /\ phase \in {"race", "awaits result", "awaits pending"}
    /\ AdapterWaits

(* processPendingResponse with an acknowledgment there.                    *)
TakeAcknowledgment ==
    /\ PollBegins /\ pending # None /\ ack # None
    /\ IF ack = pending.to
       THEN /\ ack' = None
            /\ response' = IF response # None /\ response.to = pending.to
                           THEN None ELSE response
            /\ pending' = None
            /\ IF pending.ok
               THEN StopAccepting /\ Resolved("accepted")
               ELSE UNCHANGED <<closed, stopped, result>>
            /\ UNCHANGED failed
       ELSE /\ FailUnexpectedly
            /\ UNCHANGED <<ack, response, pending>>
    /\ UNCHANGED <<lock, request, server, seen, taken, committed>>

FindNoAcknowledgment ==
    /\ PollBegins /\ pending # None /\ ack = None
    /\ server' = "pending"
    /\ UNCHANGED <<files, seen, taken, pending, committed, channelVars>>

(* The lock, read after the acknowledgment was found missing, says whether *)
(* the client still waits for its answer.                                  *)
Abandons(file) ==
    \/ file = None
    \/ file # None /\ file.written /\ file.by # pending.to
    \/ file # None /\ Discards(file)

CheckPendingClient ==
    /\ server = "pending"
    /\ IF Abandons(LockRead)
       THEN /\ response' = IF response # None /\ response.to = pending.to
                           THEN None ELSE response
            /\ pending' = None
            /\ Resolved("failed")
       ELSE UNCHANGED <<response, pending, result>>
    /\ server' = "idle"
    /\ UNCHANGED <<lock, request, ack, closed, seen, taken, committed, stopped,
                   failed>>

ReadLock ==
    /\ PollBegins /\ pending = None
    /\ server' = "lock"
    /\ seen' = LockRead
    /\ UNCHANGED <<files, taken, pending, committed, channelVars>>

(* The request, read after the lock.                                       *)
ReadRequest ==
    /\ server = "lock"
    /\ \/ /\ request = None \/ (seen # None /\ Discards(seen))
          /\ IF seen # None /\ Discards(seen)
             THEN /\ lock' = IF lock # None /\ lock.by = seen.by THEN None
                             ELSE lock
                  /\ request' = None
                  /\ Resolved("failed")
             ELSE UNCHANGED <<lock, request, result>>
          /\ server' = "idle"
          /\ UNCHANGED <<closed, stopped, failed, taken>>
       \/ /\ request # None /\ seen = None
          /\ FailUnexpectedly
          /\ server' = "idle"
          /\ UNCHANGED <<lock, request, taken>>
       \/ /\ request # None /\ seen # None /\ ~Discards(seen)
          /\ taken' = request
          /\ request' = None
          /\ server' = "check"
          /\ UNCHANGED <<lock, closed, channelVars>>
    /\ seen' = IF server' = "check" THEN seen ELSE None
    /\ UNCHANGED <<response, ack, pending, committed>>

(* The request against the lock that was read with it, the owner's life    *)
(* and its lease; only then is its identity fixed for an answer.           *)
CheckRequest ==
    /\ server = "check"
    /\ \/ /\ seen.written /\ seen.by = taken /\ LeaseAlive(seen) = "alive"
          /\ server' = "prepare"
          /\ UNCHANGED <<lock, closed, channelVars, seen, taken>>
       \/ /\ \/ ~seen.written \/ seen.by # taken
             \/ client[taken] # "dead" /\ LeaseAlive(seen) # "alive"
          /\ FailUnexpectedly
          /\ server' = "idle" /\ seen' = None /\ taken' = None
          /\ UNCHANGED lock
       \/ /\ seen.written /\ seen.by = taken /\ client[taken] = "dead"
          /\ lock' = IF lock # None /\ lock.by = taken THEN None ELSE lock
          /\ Resolved("failed")
          /\ server' = "idle" /\ seen' = None /\ taken' = None
          /\ UNCHANGED <<closed, stopped, failed>>
    /\ UNCHANGED <<request, response, ack, pending, committed>>

(* publishFile links the answer and replaces none.                         *)
Answer(verdict) ==
    IF response = None
    THEN /\ response' = [to |-> taken, ok |-> verdict]
         /\ pending' = response'
         /\ UNCHANGED <<closed, channelVars>>
    ELSE /\ FailUnexpectedly
         /\ UNCHANGED <<response, pending>>

PollEnds ==
    /\ server' = "idle" /\ seen' = None /\ taken' = None
    /\ UNCHANGED <<lock, request, ack>>

(* Variant: the answer is published although nothing was stored.           *)
AcceptCandidate_Unstored ==
    /\ server = "prepare" /\ committed = None
    /\ \/ committed' = taken
       \/ committed' = None
    /\ Answer(TRUE)
    /\ PollEnds
    /\ UNCHANGED faults

(* The Result is stored once: the row that is no longer running refuses    *)
(* every later one as a closed channel.                                    *)
AcceptCandidate ==
    /\ server = "prepare" /\ committed = None
    /\ committed' = taken
    /\ Answer(TRUE)
    /\ PollEnds
    /\ UNCHANGED faults

(* A candidate that does not validate, or that comes too late.             *)
RejectCandidate ==
    /\ server = "prepare"
    /\ Answer(FALSE)
    /\ PollEnds
    /\ UNCHANGED <<committed, faults>>

(* Any other error of prepare is answered and ends the channel.            *)
FailCandidate ==
    /\ server = "prepare" /\ faults < MaxFaults
    /\ response' = IF response = None THEN [to |-> taken, ok |-> FALSE]
                   ELSE response
    /\ FailUnexpectedly
    /\ PollEnds
    /\ faults' = faults + 1
    /\ UNCHANGED <<pending, committed>>

Polls ==
    /\ \/ /\ \/ TakeAcknowledgment \/ FindNoAcknowledgment
             \/ CheckPendingClient \/ ReadLock \/ ReadRequest \/ CheckRequest
          /\ UNCHANGED faults
       \/ AcceptCandidate \/ RejectCandidate \/ FailCandidate
    /\ UNCHANGED <<clientVars, adapterVars>>

-----------------------------------------------------------------------------
(* The adapter: runReviewRunCodex and settleSubmissionTerminal             *)

(* The endpoint must be free, then command, runtime and token are          *)
(* installed; a failure removes what was installed before it.              *)
OpenChannel ==
    /\ phase = "opening"
    /\ \/ /\ phase' = "open"
          /\ directory' = TRUE
          /\ UNCHANGED <<outcome, faults>>
       \/ /\ faults < MaxFaults
          /\ phase' = "closed"
          /\ outcome' = "not_started"
          /\ faults' = faults + 1
          /\ UNCHANGED directory
    /\ UNCHANGED <<files, clientVars, pollVars, channelVars, leader, terminal,
                   accepted>>

(* Codex starts in a process group of its own, to which the channel is     *)
(* bound; a group that cannot be bound is stopped again.                   *)
BindProcessGroup ==
    /\ phase = "open"
    /\ \/ /\ phase' = "race" /\ leader' = TRUE
          /\ UNCHANGED <<closed, stopped, outcome, faults>>
       \/ /\ faults < MaxFaults
          /\ StopAccepting
          /\ phase' = "ended" /\ outcome' = "not_started"
          /\ faults' = faults + 1
          /\ UNCHANGED leader
    /\ UNCHANGED <<lock, request, response, ack, clientVars, pollVars, failed,
                   result, directory, terminal, accepted>>

CodexExits ==
    /\ leader
    /\ leader' = FALSE
    /\ UNCHANGED <<files, clientVars, pollVars, channelVars, directory, phase,
                   terminal, accepted, outcome, faults>>

(* Variant: what the channel resolved to decides alone.                    *)
Verdict_Resolved(resolved) == resolved

(* A stored Result is accepted, whatever the channel resolved to.          *)
Verdict(resolved) == committed # None \/ resolved

(* What the first terminal event does to the channel: an answer still      *)
(* waiting keeps the channel open past the exit of Codex, and nothing else *)
(* does.                                                                   *)
Terminates(kind) ==
    /\ phase = "race" /\ server = "idle"
    /\ terminal' = kind
    /\ \/ /\ kind = "process" /\ pending # None
          /\ phase' = IF pending.ok THEN "awaits result" ELSE "awaits pending"
          /\ UNCHANGED <<closed, stopped>>
       \/ /\ kind # "process" \/ pending = None
          /\ phase' = "settled"
          /\ IF kind = "submission" /\ result = "accepted"
             THEN UNCHANGED <<closed, stopped>>
             ELSE StopAccepting
    /\ accepted' = Verdict(kind = "submission" /\ result = "accepted")
    /\ UNCHANGED <<lock, request, response, ack, clientVars, pollVars, failed,
                   result, directory, leader, outcome, faults>>

SubmissionEnds   == result # "open" /\ Terminates("submission")
ProcessEnds      == ~leader /\ Terminates("process")
DeadlinePasses   == Terminates("deadline")
CancellationCame == Terminates("cancellation")
TranscriptFails  == Terminates("transcript")

(* The settlement an exit of Codex waited for.                             *)
SubmissionSettles ==
    /\ server = "idle"
    /\ \/ phase = "awaits result" /\ result # "open"
       \/ phase = "awaits pending" /\ (pending = None \/ stopped)
    /\ phase' = "settled"
    /\ accepted' = Verdict(phase = "awaits result" /\ result = "accepted")
    /\ IF phase = "awaits result" /\ result = "accepted"
       THEN UNCHANGED <<closed, stopped>>
       ELSE StopAccepting
    /\ UNCHANGED <<lock, request, response, ack, clientVars, pollVars, failed,
                   result, directory, leader, terminal, outcome,
                   faults>>

(* With the process group gone: how the adapter ends the Run.              *)
Outcome(evidenceLost) ==
    CASE terminal = "transcript" -> "transcript"
      [] terminal = "cancellation" /\ ~accepted -> "cancelled"
      [] terminal = "deadline" /\ ~accepted -> "deadline_exceeded"
      [] terminal \in {"submission", "process"} /\ committed = None
         /\ (failed \/ (terminal = "submission" /\ result = "failed")) ->
             "submission_failed"
      [] OTHER -> IF evidenceLost THEN "evidence"
                  ELSE IF accepted THEN "accepted"
                  ELSE "result_not_submitted"

(* The process group is terminated and the terminal evidence stored.       *)
TerminateGroup ==
    /\ phase = "settled" /\ server = "idle"
    /\ leader' = FALSE
    /\ client' = [c \in Clients |-> IF client[c] \in Running \cup {"idle"}
                                    THEN "dead" ELSE client[c]]
    /\ \/ outcome' = Outcome(FALSE) /\ UNCHANGED faults
       \/ /\ faults < MaxFaults
          /\ outcome' = Outcome(TRUE)
          /\ faults' = faults + 1
    /\ phase' = "ended"
    /\ UNCHANGED <<files, told, overdue, pollVars, channelVars, directory,
                   terminal, accepted>>

(* Closing drains the files whose identity the server has seen, the others *)
(* in the checkout go with it; an acknowledgment nobody read keeps the     *)
(* private directory from being removed, which is reported.                *)
CloseChannel ==
    /\ phase = "ended"
    /\ lock' = None /\ request' = None /\ response' = None
    /\ closed' = FALSE
    /\ directory' = (ack # None)
    /\ phase' = "closed"
    /\ UNCHANGED <<ack, clientVars, pollVars, channelVars, leader,
                   terminal, accepted, outcome, faults>>

Next ==
    \/ \E c \in Clients : \/ Submits(c) \/ KillClient(c) \/ StallClient(c)
                          \/ ResumeClient(c) \/ LeaseLapses(c)
    \/ Polls
    \/ OpenChannel \/ BindProcessGroup \/ CodexExits \/ SubmissionEnds \/ ProcessEnds \/ DeadlinePasses
    \/ CancellationCame \/ TranscriptFails
    \/ SubmissionSettles \/ TerminateGroup \/ CloseChannel

Spec == Init /\ [][Next]_vars

(* The polling timer, the age of a file and the continuations of settled   *)
(* promises go on; clients, faults and terminal events need not.           *)
Fairness ==
    /\ WF_vars(Polls)
    /\ WF_vars(SubmissionEnds) /\ WF_vars(SubmissionSettles)
    /\ \A c \in Clients : WF_vars(LeaseLapses(c))

FairSpec == Spec /\ Fairness

-----------------------------------------------------------------------------
(* What Codex and the application can rely on                              *)

(* A client reports an accepted Result only when its own candidate was     *)
(* stored, although the answer passes through a file that outlives crashed *)
(* clients and abandoned answers.                                          *)
AcceptedIsStored ==
    \A c \in Clients : told[c] = "accepted" => committed = c

(* No client ever finds the answer to another's request: an abandoned      *)
(* answer is gone before the lock is free for the next client.             *)
AnswerIsItsOwn == \A c \in Clients : told[c] # "invalid"

(* However a Run ends -- the client killed before its acknowledgment, the  *)
(* deadline or a cancellation right after the commit -- the adapter        *)
(* reports success exactly when a Result was stored, save for a transcript *)
(* or terminal evidence that could not be written.                         *)
OutcomeHonoursCommit ==
    outcome \notin {"running", "transcript", "evidence"} =>
        (outcome = "accepted" <=> committed # None)

(* The lock of a client that was killed, even between creating the file    *)
(* and writing its owner into it, does not keep the channel from every     *)
(* other client for ever: it is removed, or the channel stops.             *)
CrashedLockIsTaken ==
    []<>(\A c \in Clients : Owns(c) /\ client[c] = "dead" => stopped)

(* A client that was told of its rejection and has cleaned up leaves the   *)
(* channel open for the corrected candidate.  The code does not keep this: *)
(* an acknowledgment that arrives between the two reads of the pending     *)
(* answer's poll looks like an abandoned answer and ends the Run.          *)
RejectionLeavesChannelOpen ==
    faults = 0 /\ leader /\ phase = "race"
        /\ (\E c \in Clients : client[c] = "done" /\ told[c] = "rejected")
    => result # "failed"
=============================================================================
