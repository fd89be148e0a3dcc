-------------------------- MODULE ResilienceProofs --------------------------
(***************************************************************************)
(* What MCResilience checks on small instances, proved for every value of  *)
(* the constants.  A behaviour moves one subject and leaves the variables  *)
(* of the others alone, so each part below has an invariant of its own     *)
(* subject and one lemma for the steps of the others.                      *)
(***************************************************************************)
EXTENDS MCResilience, FiniteSets, FiniteSetTheorems, WellFoundedInduction, TLAPS

-----------------------------------------------------------------------------
(***************************************************************************)
(* The submission channel                                                  *)
(***************************************************************************)
Locks == [by : Clients, written : BOOLEAN]
Reads == [by : Clients, written : BOOLEAN, overdue : BOOLEAN]

\* Channel!TypeOK, by who changes the variables.
FileTypes ==
    /\ lock \in Locks \cup {None}
    /\ request \in Clients \cup {None}
    /\ response \in Channel!Answers \cup {None}
    /\ ack \in Clients \cup {None}
    /\ closed \in BOOLEAN
ClientTypes ==
    /\ client \in [Clients -> Channel!Running \cup {"idle", "done", "dead"}]
    /\ told \in [Clients -> {"nothing", "accepted", "rejected", "unavailable", "invalid"}]
    /\ overdue \subseteq Clients
PollTypes ==
    /\ server \in {"idle", "pending", "lock", "request", "check", "prepare"}
    /\ seen \in Reads \cup {None}
    /\ takenUp \in Clients \cup {None}
    /\ pending \in Channel!Answers \cup {None}
    /\ stored \in Clients \cup {None}
StateTypes ==
    /\ stopped \in BOOLEAN /\ failed \in BOOLEAN
    /\ result \in {"open", "accepted", "failed"}
AdapterTypes ==
    /\ directory \in BOOLEAN /\ leader \in BOOLEAN /\ accepted \in BOOLEAN
    /\ stage \in {"opening", "open", "race", "awaits result", "awaits pending",
                  "settled", "ended", "closed"}
    /\ terminal \in Channel!Kinds \cup {None}
    /\ outcome \in {"running", "accepted", "cancelled", "deadline_exceeded",
                    "submission_failed", "result_not_submitted",
                    "not_started", "transcript", "evidence"}
ChannelTypes ==
    /\ FileTypes /\ ClientTypes /\ PollTypes /\ StateTypes /\ AdapterTypes
    /\ clientFaults \in 0 .. MaxClientFaults

\* The steps of the adapter, the five terminal events as one.
Adapts ==
    \/ Channel!OpenChannel \/ Channel!BindProcessGroup \/ Channel!CodexExits
    \/ Channel!SubmissionSettles \/ Channel!TerminateGroup \/ Channel!CloseChannel
    \/ \E kind \in Channel!Kinds : Channel!Terminates(kind)

\* No poll will begin any more: the channel stopped, or its promise is settled
\* and nothing waits for an acknowledgment.
Ended == \/ stopped
         \/ server = "idle" /\ response = None /\ pending = None /\ result # "open"

\* A poll in progress belongs to a channel that is open and to a Run whose
\* terminal event is still awaited.
ServesARun ==
    server # "idle" => ~stopped /\ stage \in {"race", "awaits result", "awaits pending"}

\* A poll holds what its next step relies on.
PollsHold ==
    /\ server = "pending" => pending # None
    /\ server \in {"lock", "request", "check", "prepare"} => pending = None
    /\ server \in {"check", "prepare"} => takenUp # None /\ seen # None
    /\ server = "prepare" => seen.by = takenUp

\* The closed marker stands for the stopped channel until it is removed with
\* the other files, and the deadline stops the channel.
ClosingIsFinal ==
    /\ stopped => closed \/ stage = "closed"
    /\ closed => stopped
    /\ terminal = "deadline" => stopped

\* Before Codex runs and after its group has ended no client runs.
Unserved ==
    stage \in {"opening", "open", "ended", "closed"} =>
        ~leader /\ \A c \in Clients : client[c] \in {"idle", "done", "dead"}

\* While there are polls a client that runs owns the lock, so it runs alone.
LockIsHeld ==
    Ended \/ \A c \in Clients : client[c] \in Channel!Running => Channel!Owns(c)

\* Where a client is that has cleaned up or never will.
Past == {"acknowledged", "leaving", "unlocking", "done", "dead"}

\* While there are polls the request that is there, or was taken up, is one
\* whose client still waits for its answer, or was killed.
RequestIsWaitedFor ==
    \/ Ended
    \/ /\ request # None => client[request] \in {"published", "waiting", "dead"}
       /\ server \in {"check", "prepare"} =>
             client[takenUp] \in {"published", "waiting", "dead"} /\ request # takenUp
       /\ server = "prepare" => Channel!Owns(takenUp)

\* While there are polls a response is the pending answer to the owner of the
\* lock, and an acknowledgment is one of the pending answer.
ResponseIsWaitedFor ==
    \/ Ended
    \/ /\ response # None =>
             /\ response = pending /\ Channel!Owns(response.to)
             /\ client[response.to] \in
                   {"published", "waiting", "answered", "acknowledged", "dead"}
       /\ \A c \in Clients : client[c] = "answered" => response # None /\ response.to = c
       /\ pending # None =>
             /\ request # pending.to
             /\ client[pending.to] \in {"published", "waiting", "answered"} \cup Past
       /\ ack # None => pending # None /\ pending.to = ack /\ client[ack] \in Past

\* Whoever may still look for a response finds its own.
ResponseIsTheirs ==
    response # None => \A c \in Clients :
        client[c] \in {"publishing", "published", "waiting"} => response.to = c

\* An accepting answer, in its file, pending or reported, is to the client
\* whose Result was stored.
AnswersAreTrue ==
    /\ response # None => (response.ok => stored = response.to)
    /\ pending # None => (pending.ok => stored = pending.to)
    /\ Channel!AcceptedIsStored
    /\ Channel!AnswerIsItsOwn

\* The adapter's verdict is the store's, and nothing is stored after it.
EndIsTrue ==
    /\ result = "accepted" => stored # None
    /\ stage \in {"opening", "open"} => stored = None
    /\ stage = "settled" => (accepted <=> stored # None)
    /\ outcome # "running" => stage \in {"ended", "closed"}
    /\ Channel!OutcomeHonoursCommit

ChannelInv ==
    /\ ServesARun /\ PollsHold /\ ClosingIsFinal /\ Unserved
    /\ LockIsHeld /\ RequestIsWaitedFor /\ ResponseIsWaitedFor /\ ResponseIsTheirs
    /\ AnswersAreTrue /\ EndIsTrue

-----------------------------------------------------------------------------
\* The parts are Channel!TypeOK.
LEMMA ChannelTypesAre == ChannelTypes <=> Channel!TypeOK
BY DEF ChannelTypes, FileTypes, ClientTypes, PollTypes, StateTypes, AdapterTypes,
       Channel!TypeOK, Locks, Reads

\* A lock file as its client creates it and writes its owner into it
\* (OpenLock, WriteLock) is a lock file, of that client, and is there.
LEMMA LockIsTyped ==
    /\ \A c \in Clients, b \in BOOLEAN : [by |-> c, written |-> b] \in Locks
    /\ \A x \in Locks : x.by \in Clients /\ x.written \in BOOLEAN /\ x # None
    /\ \A x \in Locks : /\ [x EXCEPT !.written = TRUE] \in Locks
                        /\ [x EXCEPT !.written = TRUE].by = x.by
<1>1. \A c \in Clients, b \in BOOLEAN : [by |-> c, written |-> b] \in Locks
  BY DEF Locks
<1>2. \A x \in Locks : x.by \in Clients /\ x.written \in BOOLEAN
  BY DEF Locks
<1>3. \A x \in Locks : x # None
  BY NoneAssumption DEF Locks
<1>4. \A x \in Locks : /\ [x EXCEPT !.written = TRUE] \in Locks
                       /\ [x EXCEPT !.written = TRUE].by = x.by
  BY DEF Locks
<1>. QED BY <1>1, <1>2, <1>3, <1>4

\* The steps of a client keep the types: quality-bar-submit from the lock it
\* opens to the lock it removes.
LEMMA SubmitTypes ==
    ASSUME NEW c \in Clients, ChannelTypes, Channel!Submits(c)
    PROVE  ChannelTypes'
<1>. USE DEF ChannelTypes, Channel!Goes, Channel!Leaves, Channel!Owns,
              Channel!Running, Channel!files, Channel!clientVars,
              Channel!pollVars, Channel!channelVars, Channel!adapterVars,
              Channel!Resolved, Channel!StopAccepting,
              Channel!FailUnexpectedly, Channel!Kinds
<1>0. UNCHANGED <<Channel!pollVars, Channel!channelVars, Channel!adapterVars, clientFaults>>
  BY DEF Channel!Submits
<1>a. PollTypes' /\ StateTypes'
  BY <1>0 DEF PollTypes, StateTypes
<1>b. AdapterTypes'
  BY <1>0 DEF AdapterTypes
<1>1. ASSUME Channel!OpenLock(c) PROVE FileTypes' /\ ClientTypes'
  <2>1. FileTypes'
    BY <1>1, LockIsTyped DEF FileTypes, Channel!OpenLock
  <2>2. ClientTypes'
    BY <1>1 DEF ClientTypes, Channel!OpenLock
  <2>. QED BY <2>1, <2>2
<1>2. ASSUME Channel!WriteLock(c) PROVE FileTypes' /\ ClientTypes'
  <2>1. FileTypes'
    BY <1>2, LockIsTyped DEF FileTypes, Channel!WriteLock
  <2>2. ClientTypes'
    BY <1>2 DEF ClientTypes, Channel!WriteLock
  <2>. QED BY <2>1, <2>2
<1>3. ASSUME Channel!FindOpen(c) PROVE FileTypes' /\ ClientTypes'
  <2>1. FileTypes'
    BY <1>3 DEF FileTypes, Channel!FindOpen
  <2>2. ClientTypes'
    BY <1>3 DEF ClientTypes, Channel!FindOpen
  <2>. QED BY <2>1, <2>2
<1>4. ASSUME Channel!PublishRequest(c) PROVE FileTypes' /\ ClientTypes'
  <2>1. FileTypes'
    BY <1>4 DEF FileTypes, Channel!PublishRequest
  <2>2. ClientTypes'
    BY <1>4 DEF ClientTypes, Channel!PublishRequest
  <2>. QED BY <2>1, <2>2
<1>5. ASSUME Channel!Look(c) PROVE FileTypes' /\ ClientTypes'
  <2>1. FileTypes'
    BY <1>5 DEF FileTypes, Channel!Look
  <2>2. ClientTypes'
    BY <1>5 DEF ClientTypes, Channel!Look
  <2>. QED BY <2>1, <2>2
<1>6. ASSUME Channel!Acknowledge(c) PROVE FileTypes' /\ ClientTypes'
  <2>1. FileTypes'
    BY <1>6 DEF FileTypes, Channel!Acknowledge
  <2>2. ClientTypes'
    BY <1>6 DEF ClientTypes, Channel!Acknowledge
  <2>. QED BY <2>1, <2>2
<1>7. ASSUME Channel!RemoveResponse(c) PROVE FileTypes' /\ ClientTypes'
  <2>1. FileTypes'
    BY <1>7 DEF FileTypes, Channel!RemoveResponse
  <2>2. ClientTypes'
    BY <1>7 DEF ClientTypes, Channel!RemoveResponse
  <2>. QED BY <2>1, <2>2
<1>8. ASSUME Channel!RemoveRequest(c) PROVE FileTypes' /\ ClientTypes'
  <2>1. FileTypes'
    BY <1>8 DEF FileTypes, Channel!RemoveRequest
  <2>2. ClientTypes'
    BY <1>8 DEF ClientTypes, Channel!RemoveRequest
  <2>. QED BY <2>1, <2>2
<1>9. ASSUME Channel!RemoveLock(c) PROVE FileTypes' /\ ClientTypes'
  <2>1. FileTypes'
    BY <1>9 DEF FileTypes, Channel!RemoveLock
  <2>2. ClientTypes'
    BY <1>9 DEF ClientTypes, Channel!RemoveLock
  <2>. QED BY <2>1, <2>2
<1>. QED BY <1>0, <1>a, <1>b, <1>1, <1>2, <1>3, <1>4, <1>5, <1>6, <1>7, <1>8,
           <1>9
    DEF Channel!Submits

\* A client that is killed or stalled, goes on, or whose lock grows old keeps
\* the types.
LEMMA FaultTypes ==
    ASSUME NEW c \in Clients, ChannelTypes,
           \/ Channel!KillClient(c) \/ Channel!StallClient(c)
           \/ Channel!ResumeClient(c) \/ Channel!LeaseLapses(c)
    PROVE  ChannelTypes'
<1>. USE DEF ChannelTypes, Channel!Goes, Channel!Leaves, Channel!Owns,
              Channel!Running, Channel!files, Channel!clientVars,
              Channel!pollVars, Channel!channelVars, Channel!adapterVars,
              Channel!Resolved, Channel!StopAccepting,
              Channel!FailUnexpectedly, Channel!Kinds
<1>0. UNCHANGED <<Channel!files, told, Channel!pollVars, Channel!channelVars, Channel!adapterVars>>
  BY DEF Channel!KillClient, Channel!StallClient, Channel!ResumeClient, Channel!LeaseLapses
<1>1. FileTypes'
  BY <1>0 DEF FileTypes
<1>2. ClientTypes'
  BY <1>0 DEF ClientTypes, Channel!KillClient, Channel!StallClient, Channel!ResumeClient,
              Channel!LeaseLapses
<1>3. PollTypes'
  BY <1>0 DEF PollTypes
<1>4. StateTypes'
  BY <1>0 DEF StateTypes
<1>5. AdapterTypes'
  BY <1>0 DEF AdapterTypes
<1>6. (clientFaults \in 0 .. MaxClientFaults)'
  BY ClientFaultsAssumption DEF Channel!KillClient, Channel!StallClient,
     Channel!ResumeClient, Channel!LeaseLapses
<1>. QED BY <1>1, <1>2, <1>3, <1>4, <1>5, <1>6

\* What a poll reads of the lock file is a lock file, read (ReadLock).
LEMMA LockReadType == ChannelTypes => Channel!LockRead \in Reads \cup {None}
<1>1. SUFFICES ASSUME ChannelTypes, lock # None
               PROVE  [by |-> lock.by, written |-> lock.written,
                       overdue |-> lock.by \in overdue] \in Reads
  BY DEF Channel!LockRead
<1>2. lock.by \in Clients /\ lock.written \in BOOLEAN
  BY <1>1, LockIsTyped DEF ChannelTypes, FileTypes
<1>3. (lock.by \in overdue) \in BOOLEAN
  OBVIOUS
<1>. QED BY <1>2, <1>3 DEF Reads

\* The answer a poll publishes is an answer to the request it took up.
LEMMA AnswerTypes ==
    ASSUME ChannelTypes, takenUp # None, NEW verdict \in BOOLEAN, Channel!Answer(verdict)
    PROVE  /\ response' \in Channel!Answers \cup {None}
           /\ pending' \in Channel!Answers \cup {None}
<1>1. [to |-> takenUp, ok |-> verdict] \in Channel!Answers
  BY DEF Channel!Answers, ChannelTypes, PollTypes
<1>2. CASE response = None
  BY <1>1, <1>2 DEF Channel!Answer
<1>3. CASE response # None
  BY <1>3 DEF Channel!Answer, ChannelTypes, FileTypes, PollTypes
<1>. QED BY <1>2, <1>3

\* The steps of a poll keep the types.
LEMMA PollStepTypes ==
    ASSUME ChannelTypes, PollsHold, Channel!Polls
    PROVE  ChannelTypes'
<1>. USE DEF ChannelTypes, Channel!Goes, Channel!Leaves, Channel!Owns,
              Channel!Running, Channel!files, Channel!clientVars,
              Channel!pollVars, Channel!channelVars, Channel!adapterVars,
              Channel!Resolved, Channel!StopAccepting,
              Channel!FailUnexpectedly, Channel!Kinds
<1>0. UNCHANGED <<Channel!clientVars, Channel!adapterVars>>
  BY DEF Channel!Polls
<1>a. ClientTypes' /\ AdapterTypes'
  BY <1>0 DEF ClientTypes, AdapterTypes
<1>1. ASSUME Channel!TakeAcknowledgment PROVE FileTypes' /\ PollTypes' /\ StateTypes'
  <2>1. FileTypes'
    BY <1>1 DEF FileTypes, PollTypes, Channel!TakeAcknowledgment,
           Channel!PollBegins
  <2>2. PollTypes'
    BY <1>1 DEF PollTypes, FileTypes, Channel!TakeAcknowledgment,
           Channel!PollBegins
  <2>3. StateTypes'
    BY <1>1 DEF StateTypes, Channel!TakeAcknowledgment, Channel!PollBegins
  <2>. QED BY <2>1, <2>2, <2>3
<1>2. ASSUME Channel!FindNoAcknowledgment PROVE FileTypes' /\ PollTypes' /\ StateTypes'
  <2>1. FileTypes'
    BY <1>2 DEF FileTypes, PollTypes, Channel!FindNoAcknowledgment,
           Channel!PollBegins
  <2>2. PollTypes'
    BY <1>2 DEF PollTypes, FileTypes, Channel!FindNoAcknowledgment,
           Channel!PollBegins
  <2>3. StateTypes'
    BY <1>2 DEF StateTypes, Channel!FindNoAcknowledgment, Channel!PollBegins
  <2>. QED BY <2>1, <2>2, <2>3
<1>3. ASSUME Channel!CheckPendingClient PROVE FileTypes' /\ PollTypes' /\ StateTypes'
  <2>1. FileTypes'
    BY <1>3 DEF FileTypes, PollTypes, Channel!CheckPendingClient
  <2>2. PollTypes'
    BY <1>3 DEF PollTypes, FileTypes, Channel!CheckPendingClient
  <2>3. StateTypes'
    BY <1>3 DEF StateTypes, Channel!CheckPendingClient
  <2>. QED BY <2>1, <2>2, <2>3
<1>4. ASSUME Channel!ReadLock PROVE FileTypes' /\ PollTypes' /\ StateTypes'
  <2>1. FileTypes'
    BY <1>4 DEF FileTypes, PollTypes, Channel!ReadLock, Channel!PollBegins
  <2>2. PollTypes'
    BY <1>4, LockReadType DEF PollTypes, FileTypes, Channel!ReadLock,
           Channel!PollBegins
  <2>3. StateTypes'
    BY <1>4 DEF StateTypes, Channel!ReadLock, Channel!PollBegins
  <2>. QED BY <2>1, <2>2, <2>3
<1>5. ASSUME Channel!ReadRequest PROVE FileTypes' /\ PollTypes' /\ StateTypes'
  <2>1. FileTypes'
    BY <1>5 DEF FileTypes, PollTypes, Channel!ReadRequest
  <2>2. PollTypes'
    BY <1>5 DEF PollTypes, FileTypes, Channel!ReadRequest
  <2>3. StateTypes'
    BY <1>5 DEF StateTypes, Channel!ReadRequest
  <2>. QED BY <2>1, <2>2, <2>3
<1>6. ASSUME Channel!CheckRequest PROVE FileTypes' /\ PollTypes' /\ StateTypes'
  <2>1. FileTypes'
    BY <1>6 DEF FileTypes, PollTypes, Channel!CheckRequest
  <2>2. PollTypes'
    BY <1>6 DEF PollTypes, FileTypes, Channel!CheckRequest
  <2>3. StateTypes'
    BY <1>6 DEF StateTypes, Channel!CheckRequest
  <2>. QED BY <2>1, <2>2, <2>3
<1>7. ASSUME Channel!AcceptCandidate PROVE FileTypes' /\ PollTypes' /\ StateTypes'
  <2>a. Channel!Answer(TRUE) /\ takenUp # None
    BY <1>7 DEF PollsHold, Channel!AcceptCandidate
  <2>b. /\ response' \in Channel!Answers \cup {None}
        /\ pending' \in Channel!Answers \cup {None}
    BY <2>a, AnswerTypes
  <2>c. UNCHANGED <<lock, request, ack>> /\ (closed' = TRUE \/ closed' = closed)
    BY <1>7 DEF Channel!AcceptCandidate, Channel!Answer, Channel!PollEnds
  <2>1. FileTypes'
    BY <2>b, <2>c DEF FileTypes
  <2>2. PollTypes'
    BY <1>7, <2>b DEF PollTypes, Channel!AcceptCandidate, Channel!PollEnds
  <2>3. StateTypes'
    BY <1>7 DEF StateTypes, Channel!AcceptCandidate, Channel!Answer,
           Channel!PollEnds
  <2>. QED BY <2>1, <2>2, <2>3
<1>8. ASSUME Channel!RejectCandidate PROVE FileTypes' /\ PollTypes' /\ StateTypes'
  <2>a. Channel!Answer(FALSE) /\ takenUp # None
    BY <1>8 DEF PollsHold, Channel!RejectCandidate
  <2>b. /\ response' \in Channel!Answers \cup {None}
        /\ pending' \in Channel!Answers \cup {None}
    BY <2>a, AnswerTypes
  <2>c. UNCHANGED <<lock, request, ack>> /\ (closed' = TRUE \/ closed' = closed)
    BY <1>8 DEF Channel!RejectCandidate, Channel!Answer, Channel!PollEnds
  <2>1. FileTypes'
    BY <2>b, <2>c DEF FileTypes
  <2>2. PollTypes'
    BY <1>8, <2>b DEF PollTypes, Channel!RejectCandidate, Channel!PollEnds
  <2>3. StateTypes'
    BY <1>8 DEF StateTypes, Channel!RejectCandidate, Channel!Answer,
           Channel!PollEnds
  <2>. QED BY <2>1, <2>2, <2>3
<1>9. ASSUME Channel!FailCandidate PROVE FileTypes' /\ PollTypes' /\ StateTypes'
  <2>a. [to |-> takenUp, ok |-> FALSE] \in Channel!Answers
    BY <1>9 DEF PollsHold, PollTypes, Channel!FailCandidate, Channel!Answers
  <2>1. FileTypes'
    BY <1>9, <2>a DEF FileTypes, Channel!FailCandidate, Channel!PollEnds
  <2>2. PollTypes'
    BY <1>9 DEF PollTypes, Channel!FailCandidate, Channel!PollEnds
  <2>3. StateTypes'
    BY <1>9 DEF StateTypes, Channel!FailCandidate, Channel!Answer,
           Channel!PollEnds
  <2>. QED BY <2>1, <2>2, <2>3
<1>10. (clientFaults \in 0 .. MaxClientFaults)'
  <2>1. \/ clientFaults' = clientFaults
        \/ clientFaults < MaxClientFaults /\ clientFaults' = clientFaults + 1
    BY DEF Channel!Polls, Channel!AcceptCandidate, Channel!RejectCandidate,
       Channel!FailCandidate
  <2>. QED BY <2>1, ClientFaultsAssumption
<1>. QED BY <1>0, <1>a, <1>1, <1>2, <1>3, <1>4, <1>5, <1>6, <1>7, <1>8, <1>9,
           <1>10
    DEF Channel!Polls

\* The steps of the Codex adapter keep the types.
LEMMA AdapterTypesKept ==
    ASSUME ChannelTypes, Adapts
    PROVE  ChannelTypes'
<1>. USE DEF ChannelTypes, Channel!Goes, Channel!Leaves, Channel!Owns,
              Channel!Running, Channel!files, Channel!clientVars,
              Channel!pollVars, Channel!channelVars, Channel!adapterVars,
              Channel!Resolved, Channel!StopAccepting,
              Channel!FailUnexpectedly, Channel!Kinds
<1>1. ASSUME Channel!OpenChannel PROVE ChannelTypes'
  <2>1. FileTypes'
    BY <1>1 DEF FileTypes, Channel!OpenChannel
  <2>2. ClientTypes'
    BY <1>1 DEF ClientTypes, Channel!OpenChannel
  <2>3. PollTypes'
    BY <1>1 DEF PollTypes, Channel!OpenChannel
  <2>4. StateTypes'
    BY <1>1 DEF StateTypes, Channel!OpenChannel
  <2>5. AdapterTypes'
    BY <1>1 DEF AdapterTypes, Channel!OpenChannel
  <2>6. (clientFaults \in 0 .. MaxClientFaults)'
    BY <1>1, ClientFaultsAssumption DEF Channel!OpenChannel
  <2>. QED BY <2>1, <2>2, <2>3, <2>4, <2>5, <2>6
<1>2. ASSUME Channel!BindProcessGroup PROVE ChannelTypes'
  <2>1. FileTypes'
    BY <1>2 DEF FileTypes, Channel!BindProcessGroup
  <2>2. ClientTypes'
    BY <1>2 DEF ClientTypes, Channel!BindProcessGroup
  <2>3. PollTypes'
    BY <1>2 DEF PollTypes, Channel!BindProcessGroup
  <2>4. StateTypes'
    BY <1>2 DEF StateTypes, Channel!BindProcessGroup
  <2>5. AdapterTypes'
    BY <1>2 DEF AdapterTypes, Channel!BindProcessGroup
  <2>6. (clientFaults \in 0 .. MaxClientFaults)'
    BY <1>2, ClientFaultsAssumption DEF Channel!BindProcessGroup
  <2>. QED BY <2>1, <2>2, <2>3, <2>4, <2>5, <2>6
<1>3. ASSUME Channel!CodexExits PROVE ChannelTypes'
  <2>1. FileTypes'
    BY <1>3 DEF FileTypes, Channel!CodexExits
  <2>2. ClientTypes'
    BY <1>3 DEF ClientTypes, Channel!CodexExits
  <2>3. PollTypes'
    BY <1>3 DEF PollTypes, Channel!CodexExits
  <2>4. StateTypes'
    BY <1>3 DEF StateTypes, Channel!CodexExits
  <2>5. AdapterTypes'
    BY <1>3 DEF AdapterTypes, Channel!CodexExits
  <2>6. (clientFaults \in 0 .. MaxClientFaults)'
    BY <1>3, ClientFaultsAssumption DEF Channel!CodexExits
  <2>. QED BY <2>1, <2>2, <2>3, <2>4, <2>5, <2>6
<1>4. ASSUME Channel!SubmissionSettles PROVE ChannelTypes'
  <2>1. FileTypes'
    BY <1>4 DEF FileTypes, Channel!SubmissionSettles
  <2>2. ClientTypes'
    BY <1>4 DEF ClientTypes, Channel!SubmissionSettles
  <2>3. PollTypes'
    BY <1>4 DEF PollTypes, Channel!SubmissionSettles
  <2>4. StateTypes'
    BY <1>4 DEF StateTypes, Channel!SubmissionSettles
  <2>5. AdapterTypes'
    BY <1>4 DEF AdapterTypes, Channel!SubmissionSettles, Channel!Verdict
  <2>6. (clientFaults \in 0 .. MaxClientFaults)'
    BY <1>4, ClientFaultsAssumption DEF Channel!SubmissionSettles
  <2>. QED BY <2>1, <2>2, <2>3, <2>4, <2>5, <2>6
<1>5. ASSUME Channel!TerminateGroup PROVE ChannelTypes'
  <2>1. FileTypes'
    BY <1>5 DEF FileTypes, Channel!TerminateGroup
  <2>2. ClientTypes'
    BY <1>5 DEF ClientTypes, Channel!TerminateGroup
  <2>3. PollTypes'
    BY <1>5 DEF PollTypes, Channel!TerminateGroup
  <2>4. StateTypes'
    BY <1>5 DEF StateTypes, Channel!TerminateGroup
  <2>5. AdapterTypes'
    BY <1>5 DEF AdapterTypes, Channel!TerminateGroup, Channel!Outcome
  <2>6. (clientFaults \in 0 .. MaxClientFaults)'
    <3>1. \/ clientFaults' = clientFaults
          \/ clientFaults < MaxClientFaults /\ clientFaults' = clientFaults + 1
      BY <1>5 DEF Channel!TerminateGroup
    <3>. QED BY <3>1, ClientFaultsAssumption
  <2>. QED BY <2>1, <2>2, <2>3, <2>4, <2>5, <2>6
<1>6. ASSUME Channel!CloseChannel PROVE ChannelTypes'
  <2>1. FileTypes'
    BY <1>6 DEF FileTypes, Channel!CloseChannel
  <2>2. ClientTypes'
    BY <1>6 DEF ClientTypes, Channel!CloseChannel
  <2>3. PollTypes'
    BY <1>6 DEF PollTypes, Channel!CloseChannel
  <2>4. StateTypes'
    BY <1>6 DEF StateTypes, Channel!CloseChannel
  <2>5. AdapterTypes'
    BY <1>6 DEF AdapterTypes, Channel!CloseChannel
  <2>6. (clientFaults \in 0 .. MaxClientFaults)'
    BY <1>6, ClientFaultsAssumption DEF Channel!CloseChannel
  <2>. QED BY <2>1, <2>2, <2>3, <2>4, <2>5, <2>6
<1>7. ASSUME NEW kind \in Channel!Kinds, Channel!Terminates(kind) PROVE ChannelTypes'
  <2>1. FileTypes'
    BY <1>7 DEF FileTypes, Channel!Terminates
  <2>2. ClientTypes'
    BY <1>7 DEF ClientTypes, Channel!Terminates
  <2>3. PollTypes'
    BY <1>7 DEF PollTypes, Channel!Terminates
  <2>4. StateTypes'
    BY <1>7 DEF StateTypes, Channel!Terminates
  <2>5. AdapterTypes'
    BY <1>7 DEF AdapterTypes, Channel!Terminates, Channel!Verdict
  <2>6. (clientFaults \in 0 .. MaxClientFaults)'
    BY <1>7, ClientFaultsAssumption DEF Channel!Terminates
  <2>. QED BY <2>1, <2>2, <2>3, <2>4, <2>5, <2>6
<1>. QED BY <1>1, <1>2, <1>3, <1>4, <1>5, <1>6, <1>7 DEF Adapts

-----------------------------------------------------------------------------
\* A step of one client moves no other (Goes).
LEMMA Moved ==
    ASSUME ChannelTypes, NEW c \in Clients, NEW there, Channel!Goes(c, there)
    PROVE  client'[c] = there /\ \A d \in Clients : d # c => client'[d] = client[d]
BY DEF ChannelTypes, ClientTypes, Channel!Goes

\* What one client has to report changes no other's report.
LEMMA Reported ==
    ASSUME ChannelTypes, NEW c \in Clients, NEW words,
           told' = [told EXCEPT ![c] = words]
    PROVE  told'[c] = words /\ \A d \in Clients : d # c => told'[d] = told[d]
BY DEF ChannelTypes, ClientTypes

\* Whoever a file or the poll names is a client.
LEMMA Reach ==
    ASSUME ChannelTypes
    PROVE  /\ request \in Clients \cup {None} /\ ack \in Clients \cup {None}
           /\ takenUp \in Clients \cup {None} /\ stored \in Clients \cup {None}
           /\ response # None => response.to \in Clients
           /\ pending # None => pending.to \in Clients
           /\ lock # None => lock.by \in Clients
BY DEF ChannelTypes, FileTypes, PollTypes, Locks, Channel!Answers

\* The steps of a client keep the invariant.
LEMMA SubmitKeeps ==
    ASSUME NEW c \in Clients, ChannelTypes, ChannelInv, Channel!Submits(c)
    PROVE  ChannelInv'
<1>. USE NoneAssumption DEF ChannelInv, Ended, Channel!Owns, Channel!Leaves
<1>0. UNCHANGED <<server, seen, takenUp, pending, stored, stopped, failed, result,
                  directory, leader, stage, terminal, accepted, outcome>>
  BY DEF Channel!Submits, Channel!pollVars, Channel!channelVars, Channel!adapterVars
<1>r. /\ request \in Clients \cup {None} /\ ack \in Clients \cup {None}
      /\ takenUp \in Clients \cup {None}
      /\ response # None => response.to \in Clients
      /\ pending # None => pending.to \in Clients
      /\ lock # None => lock.by \in Clients
  BY Reach
<1>t. \A there : Channel!Goes(c, there) => client'[c] = there
  BY Moved
<1>s. \A words : told' = [told EXCEPT ![c] = words] => told'[c] = words
  BY Reported
<1>1. ASSUME Channel!OpenLock(c) PROVE ChannelInv'
  <2>m. \A d \in Clients : d # c => client'[d] = client[d] /\ told'[d] = told[d]
    BY <1>1, Moved, Reported DEF Channel!OpenLock
  <2>n. \/ lock = None /\ Channel!Owns(c)' /\ client'[c] = "opened" /\ told' = told
        \/ lock # None /\ lock' = lock /\ client'[c] = "done" /\ told'[c] = "unavailable"
    <3>1. CASE lock = None
      <4>1. lock' = [by |-> c, written |-> FALSE] /\ Channel!Goes(c, "opened") /\ told' = told
        BY <1>1, <3>1 DEF Channel!OpenLock
      <4>2. lock' # None /\ lock'.by = c
        BY <4>1, LockIsTyped
      <4>. QED BY <3>1, <4>1, <4>2, <1>t
    <3>2. CASE lock # None
      BY <1>1, <3>2, <1>t, <1>s DEF Channel!OpenLock
    <3>. QED BY <3>1, <3>2
  <2>u. UNCHANGED <<request, response, ack, closed>>
    BY <1>1 DEF Channel!OpenLock, Channel!files
  <2>v. client[c] = "idle" /\ leader
    BY <1>1 DEF Channel!OpenLock
  <2>1. ServesARun' /\ PollsHold' /\ ClosingIsFinal'
    BY <1>0, <1>r, <2>m, <2>n, <2>u, <2>v DEF ServesARun, PollsHold,
           ClosingIsFinal
  <2>2. Unserved'
    BY <1>0, <1>r, <2>m, <2>n, <2>u, <2>v DEF Unserved, Channel!Running
  <2>3. LockIsHeld'
    BY <1>0, <1>r, <2>m, <2>n, <2>u, <2>v DEF LockIsHeld, Channel!Running
  <2>4. RequestIsWaitedFor'
    BY <1>0, <1>r, <2>m, <2>n, <2>u, <2>v DEF RequestIsWaitedFor, ServesARun,
           PollsHold, ClosingIsFinal, LockIsHeld, ResponseIsWaitedFor,
           ResponseIsTheirs, Past, Channel!Running
  <2>5. ResponseIsWaitedFor'
    BY <1>0, <1>r, <2>m, <2>n, <2>u, <2>v DEF ResponseIsWaitedFor, Past,
           ServesARun, PollsHold, ClosingIsFinal, LockIsHeld,
           RequestIsWaitedFor
  <2>6. ResponseIsTheirs'
    BY <1>0, <1>r, <2>m, <2>n, <2>u, <2>v DEF ResponseIsTheirs,
           ClosingIsFinal, Unserved, LockIsHeld, ResponseIsWaitedFor,
           RequestIsWaitedFor, Channel!Running
  <2>7. AnswersAreTrue'
    BY <1>0, <1>r, <2>m, <2>n, <2>u, <2>v DEF AnswersAreTrue,
           Channel!AcceptedIsStored, Channel!AnswerIsItsOwn, ResponseIsTheirs
  <2>8. EndIsTrue'
    BY <1>0, <1>r, <2>m, <2>n, <2>u, <2>v DEF EndIsTrue,
           Channel!OutcomeHonoursCommit
  <2>. QED BY <2>1, <2>2, <2>3, <2>4, <2>5, <2>6, <2>7, <2>8 DEF ChannelInv
<1>2. ASSUME Channel!WriteLock(c) PROVE ChannelInv'
  <2>m. \A d \in Clients : d # c => client'[d] = client[d] /\ told'[d] = told[d]
    BY <1>2, Moved, Reported DEF Channel!WriteLock
  <2>n. /\ client[c] = "opened" /\ client'[c] = "locked" /\ told' = told
        /\ \A d \in Clients : Channel!Owns(d)' <=> Channel!Owns(d)
    BY <1>2, <1>t, LockIsTyped DEF Channel!WriteLock, ChannelTypes, FileTypes
  <2>u. UNCHANGED <<request, response, ack, closed>>
    BY <1>2 DEF Channel!WriteLock, Channel!files
  <2>1. ServesARun' /\ PollsHold' /\ ClosingIsFinal'
    BY <1>0, <1>r, <2>m, <2>n, <2>u DEF ServesARun, PollsHold, ClosingIsFinal
  <2>2. Unserved'
    BY <1>0, <1>r, <2>m, <2>n, <2>u DEF Unserved, Channel!Running
  <2>3. LockIsHeld'
    BY <1>0, <1>r, <2>m, <2>n, <2>u DEF LockIsHeld, Channel!Running
  <2>4. RequestIsWaitedFor'
    BY <1>0, <1>r, <2>m, <2>n, <2>u DEF RequestIsWaitedFor, ServesARun,
           PollsHold, ClosingIsFinal, LockIsHeld, ResponseIsWaitedFor,
           ResponseIsTheirs, Past, Channel!Running
  <2>5. ResponseIsWaitedFor'
    BY <1>0, <1>r, <2>m, <2>n, <2>u DEF ResponseIsWaitedFor, Past, ServesARun,
           PollsHold, ClosingIsFinal, LockIsHeld, RequestIsWaitedFor
  <2>6. ResponseIsTheirs'
    BY <1>0, <1>r, <2>m, <2>n, <2>u DEF ResponseIsTheirs, ClosingIsFinal,
           Unserved, LockIsHeld, ResponseIsWaitedFor, RequestIsWaitedFor,
           Channel!Running
  <2>7. AnswersAreTrue'
    BY <1>0, <1>r, <2>m, <2>n, <2>u DEF AnswersAreTrue,
           Channel!AcceptedIsStored, Channel!AnswerIsItsOwn, ResponseIsTheirs
  <2>8. EndIsTrue'
    BY <1>0, <1>r, <2>m, <2>n, <2>u DEF EndIsTrue,
           Channel!OutcomeHonoursCommit
  <2>. QED BY <2>1, <2>2, <2>3, <2>4, <2>5, <2>6, <2>7, <2>8 DEF ChannelInv
<1>3. ASSUME Channel!FindOpen(c) PROVE ChannelInv'
  <2>m. \A d \in Clients : d # c => client'[d] = client[d] /\ told'[d] = told[d]
    BY <1>3, Moved, Reported DEF Channel!FindOpen
  <2>n. \/ /\ client[c] \in {"locked", "published"} /\ closed
           /\ client'[c] = "leaving" /\ told'[c] = "unavailable"
        \/ client[c] = "locked" /\ ~closed /\ told' = told /\ client'[c] = "publishing"
        \/ client[c] = "published" /\ ~closed /\ told' = told /\ client'[c] = "waiting"
    <3>1. client[c] \in {"locked", "published"}
      BY <1>3 DEF Channel!FindOpen
    <3>2. CASE closed
      BY <1>3, <3>1, <3>2, <1>t, <1>s DEF Channel!FindOpen
    <3>3. CASE ~closed
      <4>1. /\ Channel!Goes(c, IF client[c] = "locked" THEN "publishing" ELSE "waiting")
            /\ told' = told
        BY <1>3, <3>3 DEF Channel!FindOpen
      <4>2. client'[c] = IF client[c] = "locked" THEN "publishing" ELSE "waiting"
        BY <4>1, <1>t
      <4>. QED BY <3>1, <3>3, <4>1, <4>2
    <3>. QED BY <3>2, <3>3
  <2>u. UNCHANGED <<lock, request, response, ack, closed>>
    BY <1>3 DEF Channel!FindOpen, Channel!files
  <2>1. ServesARun' /\ PollsHold' /\ ClosingIsFinal'
    BY <1>0, <1>r, <2>m, <2>n, <2>u DEF ServesARun, PollsHold, ClosingIsFinal
  <2>2. Unserved'
    BY <1>0, <1>r, <2>m, <2>n, <2>u DEF Unserved, Channel!Running
  <2>3. LockIsHeld'
    BY <1>0, <1>r, <2>m, <2>n, <2>u DEF LockIsHeld, Channel!Running
  <2>4. RequestIsWaitedFor'
    BY <1>0, <1>r, <2>m, <2>n, <2>u DEF RequestIsWaitedFor, ServesARun,
           PollsHold, ClosingIsFinal, LockIsHeld, ResponseIsWaitedFor,
           ResponseIsTheirs, Past, Channel!Running
  <2>5. ResponseIsWaitedFor'
    BY <1>0, <1>r, <2>m, <2>n, <2>u DEF ResponseIsWaitedFor, Past, ServesARun,
           PollsHold, ClosingIsFinal, LockIsHeld, RequestIsWaitedFor
  <2>6. ResponseIsTheirs'
    BY <1>0, <1>r, <2>m, <2>n, <2>u DEF ResponseIsTheirs, ClosingIsFinal,
           Unserved, LockIsHeld, ResponseIsWaitedFor, RequestIsWaitedFor,
           Channel!Running
  <2>7. AnswersAreTrue'
    BY <1>0, <1>r, <2>m, <2>n, <2>u DEF AnswersAreTrue,
           Channel!AcceptedIsStored, Channel!AnswerIsItsOwn, ResponseIsTheirs
  <2>8. EndIsTrue'
    BY <1>0, <1>r, <2>m, <2>n, <2>u DEF EndIsTrue,
           Channel!OutcomeHonoursCommit
  <2>. QED BY <2>1, <2>2, <2>3, <2>4, <2>5, <2>6, <2>7, <2>8 DEF ChannelInv
<1>4. ASSUME Channel!PublishRequest(c) PROVE ChannelInv'
  <2>m. \A d \in Clients : d # c => client'[d] = client[d] /\ told'[d] = told[d]
    BY <1>4, Moved, Reported DEF Channel!PublishRequest
  <2>n. /\ client[c] = "publishing"
        /\ \/ request = None /\ request' = c /\ client'[c] = "published" /\ told' = told
           \/ request' = request /\ client'[c] = "leaving" /\ told'[c] = "unavailable"
    <3>1. CASE request = None
      BY <1>4, <3>1, <1>t DEF Channel!PublishRequest
    <3>2. CASE request # None
      BY <1>4, <3>2, <1>t, <1>s DEF Channel!PublishRequest
    <3>. QED BY <3>1, <3>2
  <2>u. UNCHANGED <<lock, response, ack, closed>>
    BY <1>4 DEF Channel!PublishRequest, Channel!files
  <2>1. ServesARun' /\ PollsHold' /\ ClosingIsFinal'
    BY <1>0, <1>r, <2>m, <2>n, <2>u DEF ServesARun, PollsHold, ClosingIsFinal
  <2>2. Unserved'
    BY <1>0, <1>r, <2>m, <2>n, <2>u DEF Unserved, Channel!Running
  <2>3. LockIsHeld'
    BY <1>0, <1>r, <2>m, <2>n, <2>u DEF LockIsHeld, Channel!Running
  <2>4. RequestIsWaitedFor'
    BY <1>0, <1>r, <2>m, <2>n, <2>u DEF RequestIsWaitedFor, ServesARun,
           PollsHold, ClosingIsFinal, LockIsHeld, ResponseIsWaitedFor,
           ResponseIsTheirs, Past, Channel!Running
  <2>5. ResponseIsWaitedFor'
    BY <1>0, <1>r, <2>m, <2>n, <2>u DEF ResponseIsWaitedFor, Past, ServesARun,
           PollsHold, ClosingIsFinal, LockIsHeld, RequestIsWaitedFor
  <2>6. ResponseIsTheirs'
    BY <1>0, <1>r, <2>m, <2>n, <2>u DEF ResponseIsTheirs
  <2>7. AnswersAreTrue'
    BY <1>0, <1>r, <2>m, <2>n, <2>u DEF AnswersAreTrue,
           Channel!AcceptedIsStored, Channel!AnswerIsItsOwn, ResponseIsTheirs
  <2>8. EndIsTrue'
    BY <1>0, <1>r, <2>m, <2>n, <2>u DEF EndIsTrue,
           Channel!OutcomeHonoursCommit
  <2>. QED BY <2>1, <2>2, <2>3, <2>4, <2>5, <2>6, <2>7, <2>8 DEF ChannelInv
<1>5. ASSUME Channel!Look(c) PROVE ChannelInv'
  <2>m. \A d \in Clients : d # c => client'[d] = client[d] /\ told'[d] = told[d]
    BY <1>5, Moved, Reported DEF Channel!Look
  <2>n. /\ client[c] = "waiting"
        /\ \/ /\ response # None /\ response.to = c /\ client'[c] = "answered"
              /\ told'[c] = IF response.ok THEN "accepted" ELSE "rejected"
           \/ /\ response # None /\ response.to # c
              /\ told'[c] = "invalid" /\ client'[c] = "leaving"
           \/ /\ (response = None /\ closed) \/ ~Channel!Owns(c) \/ terminal = "deadline"
              /\ told'[c] = "unavailable" /\ client'[c] = "leaving"
    <3>1. client[c] = "waiting"
      BY <1>5 DEF Channel!Look
    <3>2. CASE /\ response # None /\ response.to = c
               /\ told' = [told EXCEPT ![c] = IF response.ok THEN "accepted" ELSE "rejected"]
               /\ Channel!Goes(c, "answered")
      BY <3>1, <3>2, <1>t, <1>s
    <3>3. CASE response # None /\ response.to # c /\ Channel!Leaves(c, "invalid")
      BY <3>1, <3>3, <1>t, <1>s
    <3>4. CASE /\ (response = None /\ closed) \/ ~Channel!Owns(c) \/ terminal = "deadline"
               /\ Channel!Leaves(c, "unavailable")
      BY <3>1, <3>4, <1>t, <1>s
    <3>. QED BY <1>5, <3>2, <3>3, <3>4 DEF Channel!Look
  <2>u. UNCHANGED <<lock, request, response, ack, closed>>
    BY <1>5 DEF Channel!Look, Channel!files
  <2>1. ServesARun' /\ PollsHold' /\ ClosingIsFinal'
    BY <1>0, <1>r, <2>m, <2>n, <2>u DEF ServesARun, PollsHold, ClosingIsFinal
  <2>2. Unserved'
    BY <1>0, <1>r, <2>m, <2>n, <2>u DEF Unserved, Channel!Running
  <2>3. LockIsHeld'
    BY <1>0, <1>r, <2>m, <2>n, <2>u DEF LockIsHeld, Channel!Running
  <2>4. RequestIsWaitedFor'
    BY <1>0, <1>r, <2>m, <2>n, <2>u DEF RequestIsWaitedFor, ServesARun,
           PollsHold, ClosingIsFinal, LockIsHeld, ResponseIsWaitedFor,
           ResponseIsTheirs, Past, Channel!Running
  <2>5. ResponseIsWaitedFor'
    BY <1>0, <1>r, <2>m, <2>n, <2>u DEF ResponseIsWaitedFor, Past, ServesARun,
           PollsHold, ClosingIsFinal, LockIsHeld, RequestIsWaitedFor
  <2>6. ResponseIsTheirs'
    BY <1>0, <1>r, <2>m, <2>n, <2>u DEF ResponseIsTheirs, ClosingIsFinal,
           Unserved, LockIsHeld, ResponseIsWaitedFor, RequestIsWaitedFor,
           Channel!Running
  <2>7. AnswersAreTrue'
    BY <1>0, <1>r, <2>m, <2>n, <2>u DEF AnswersAreTrue,
           Channel!AcceptedIsStored, Channel!AnswerIsItsOwn, ResponseIsTheirs
  <2>8. EndIsTrue'
    BY <1>0, <1>r, <2>m, <2>n, <2>u DEF EndIsTrue,
           Channel!OutcomeHonoursCommit
  <2>. QED BY <2>1, <2>2, <2>3, <2>4, <2>5, <2>6, <2>7, <2>8 DEF ChannelInv
<1>6. ASSUME Channel!Acknowledge(c) PROVE ChannelInv'
  <2>m. \A d \in Clients : d # c => client'[d] = client[d] /\ told'[d] = told[d]
    BY <1>6, Moved, Reported DEF Channel!Acknowledge
  <2>n. /\ client[c] = "answered"
        /\ \/ ack = None /\ ack' = c /\ client'[c] = "acknowledged" /\ told' = told
           \/ ack # None /\ ack' = ack /\ client'[c] = "leaving" /\ told'[c] = "unavailable"
    <3>1. CASE ack = None
      BY <1>6, <3>1, <1>t DEF Channel!Acknowledge
    <3>2. CASE ack # None
      BY <1>6, <3>2, <1>t, <1>s DEF Channel!Acknowledge
    <3>. QED BY <3>1, <3>2
  <2>u. UNCHANGED <<lock, request, response, closed>>
    BY <1>6 DEF Channel!Acknowledge, Channel!files
  <2>1. ServesARun' /\ PollsHold' /\ ClosingIsFinal'
    BY <1>0, <1>r, <2>m, <2>n, <2>u DEF ServesARun, PollsHold, ClosingIsFinal
  <2>2. Unserved'
    BY <1>0, <1>r, <2>m, <2>n, <2>u DEF Unserved, Channel!Running
  <2>3. LockIsHeld'
    BY <1>0, <1>r, <2>m, <2>n, <2>u DEF LockIsHeld, Channel!Running
  <2>4. RequestIsWaitedFor'
    BY <1>0, <1>r, <2>m, <2>n, <2>u DEF RequestIsWaitedFor, ServesARun,
           PollsHold, ClosingIsFinal, LockIsHeld, ResponseIsWaitedFor,
           ResponseIsTheirs, Past, Channel!Running
  <2>5. ResponseIsWaitedFor'
    BY <1>0, <1>r, <2>m, <2>n, <2>u DEF ResponseIsWaitedFor, Past, ServesARun,
           PollsHold, ClosingIsFinal, LockIsHeld, RequestIsWaitedFor
  <2>6. ResponseIsTheirs'
    BY <1>0, <1>r, <2>m, <2>n, <2>u DEF ResponseIsTheirs, ClosingIsFinal,
           Unserved, LockIsHeld, ResponseIsWaitedFor, RequestIsWaitedFor,
           Channel!Running
  <2>7. AnswersAreTrue'
    BY <1>0, <1>r, <2>m, <2>n, <2>u DEF AnswersAreTrue,
           Channel!AcceptedIsStored, Channel!AnswerIsItsOwn, ResponseIsTheirs
  <2>8. EndIsTrue'
    BY <1>0, <1>r, <2>m, <2>n, <2>u DEF EndIsTrue,
           Channel!OutcomeHonoursCommit
  <2>. QED BY <2>1, <2>2, <2>3, <2>4, <2>5, <2>6, <2>7, <2>8 DEF ChannelInv
<1>7. ASSUME Channel!RemoveResponse(c) PROVE ChannelInv'
  <2>m. \A d \in Clients : d # c => client'[d] = client[d] /\ told'[d] = told[d]
    BY <1>7, Moved, Reported DEF Channel!RemoveResponse
  <2>n. client[c] = "acknowledged" /\ client'[c] = "leaving" /\ told' = told
    BY <1>7, <1>t, <1>s DEF Channel!RemoveResponse
  <2>u. UNCHANGED <<lock, request, ack, closed>>
    BY <1>7 DEF Channel!RemoveResponse, Channel!files
  <2>v. response' = IF response # None /\ response.to = c THEN None ELSE response
    BY <1>7 DEF Channel!RemoveResponse
  <2>1. ServesARun' /\ PollsHold' /\ ClosingIsFinal'
    BY <1>0, <1>r, <2>m, <2>n, <2>u, <2>v DEF ServesARun, PollsHold,
           ClosingIsFinal
  <2>2. Unserved'
    BY <1>0, <1>r, <2>m, <2>n, <2>u, <2>v DEF Unserved, Channel!Running
  <2>3. LockIsHeld'
    BY <1>0, <1>r, <2>m, <2>n, <2>u, <2>v DEF LockIsHeld, Channel!Running
  <2>4. RequestIsWaitedFor'
    BY <1>0, <1>r, <2>m, <2>n, <2>u, <2>v DEF RequestIsWaitedFor, ServesARun,
           PollsHold, ClosingIsFinal, LockIsHeld, ResponseIsWaitedFor,
           ResponseIsTheirs, Past, Channel!Running
  <2>5. ResponseIsWaitedFor'
    BY <1>0, <1>r, <2>m, <2>n, <2>u, <2>v DEF ResponseIsWaitedFor, Past,
           ServesARun, PollsHold, ClosingIsFinal, LockIsHeld,
           RequestIsWaitedFor
  <2>6. ResponseIsTheirs'
    BY <1>0, <1>r, <2>m, <2>n, <2>u, <2>v DEF ResponseIsTheirs,
           ClosingIsFinal, Unserved, LockIsHeld, ResponseIsWaitedFor,
           RequestIsWaitedFor, Channel!Running
  <2>7. AnswersAreTrue'
    BY <1>0, <1>r, <2>m, <2>n, <2>u, <2>v DEF AnswersAreTrue,
           Channel!AcceptedIsStored, Channel!AnswerIsItsOwn, ResponseIsTheirs
  <2>8. EndIsTrue'
    BY <1>0, <1>r, <2>m, <2>n, <2>u, <2>v DEF EndIsTrue,
           Channel!OutcomeHonoursCommit
  <2>. QED BY <2>1, <2>2, <2>3, <2>4, <2>5, <2>6, <2>7, <2>8 DEF ChannelInv
<1>8. ASSUME Channel!RemoveRequest(c) PROVE ChannelInv'
  <2>m. \A d \in Clients : d # c => client'[d] = client[d] /\ told'[d] = told[d]
    BY <1>8, Moved, Reported DEF Channel!RemoveRequest
  <2>n. client[c] = "leaving" /\ client'[c] = "unlocking" /\ told' = told
    BY <1>8, <1>t, <1>s DEF Channel!RemoveRequest
  <2>u. UNCHANGED <<lock, response, ack, closed>>
    BY <1>8 DEF Channel!RemoveRequest, Channel!files
  <2>v. request' = IF request = c THEN None ELSE request
    BY <1>8 DEF Channel!RemoveRequest
  <2>1. ServesARun' /\ PollsHold' /\ ClosingIsFinal'
    BY <1>0, <1>r, <2>m, <2>n, <2>u, <2>v DEF ServesARun, PollsHold,
           ClosingIsFinal
  <2>2. Unserved'
    BY <1>0, <1>r, <2>m, <2>n, <2>u, <2>v DEF Unserved, Channel!Running
  <2>3. LockIsHeld'
    BY <1>0, <1>r, <2>m, <2>n, <2>u, <2>v DEF LockIsHeld, Channel!Running
  <2>4. RequestIsWaitedFor'
    BY <1>0, <1>r, <2>m, <2>n, <2>u, <2>v DEF RequestIsWaitedFor, ServesARun,
           PollsHold, ClosingIsFinal, LockIsHeld, ResponseIsWaitedFor,
           ResponseIsTheirs, Past, Channel!Running
  <2>5. ResponseIsWaitedFor'
    BY <1>0, <1>r, <2>m, <2>n, <2>u, <2>v DEF ResponseIsWaitedFor, Past,
           ServesARun, PollsHold, ClosingIsFinal, LockIsHeld,
           RequestIsWaitedFor
  <2>6. ResponseIsTheirs'
    BY <1>0, <1>r, <2>m, <2>n, <2>u, <2>v DEF ResponseIsTheirs,
           ClosingIsFinal, Unserved, LockIsHeld, ResponseIsWaitedFor,
           RequestIsWaitedFor, Channel!Running
  <2>7. AnswersAreTrue'
    BY <1>0, <1>r, <2>m, <2>n, <2>u, <2>v DEF AnswersAreTrue,
           Channel!AcceptedIsStored, Channel!AnswerIsItsOwn, ResponseIsTheirs
  <2>8. EndIsTrue'
    BY <1>0, <1>r, <2>m, <2>n, <2>u, <2>v DEF EndIsTrue,
           Channel!OutcomeHonoursCommit
  <2>. QED BY <2>1, <2>2, <2>3, <2>4, <2>5, <2>6, <2>7, <2>8 DEF ChannelInv
<1>9. ASSUME Channel!RemoveLock(c) PROVE ChannelInv'
  <2>m. \A d \in Clients : d # c => client'[d] = client[d] /\ told'[d] = told[d]
    BY <1>9, Moved, Reported DEF Channel!RemoveLock
  <2>n. client[c] = "unlocking" /\ client'[c] = "done" /\ told' = told
    BY <1>9, <1>t, <1>s DEF Channel!RemoveLock
  <2>u. UNCHANGED <<request, response, ack, closed>>
    BY <1>9 DEF Channel!RemoveLock, Channel!files
  <2>v. lock' = IF Channel!Owns(c) THEN None ELSE lock
    BY <1>9 DEF Channel!RemoveLock
  <2>1. ServesARun' /\ PollsHold' /\ ClosingIsFinal'
    BY <1>0, <1>r, <2>m, <2>n, <2>u, <2>v DEF ServesARun, PollsHold,
           ClosingIsFinal
  <2>2. Unserved'
    BY <1>0, <1>r, <2>m, <2>n, <2>u, <2>v DEF Unserved, Channel!Running
  <2>3. LockIsHeld'
    BY <1>0, <1>r, <2>m, <2>n, <2>u, <2>v DEF LockIsHeld, Channel!Running
  <2>4. RequestIsWaitedFor'
    BY <1>0, <1>r, <2>m, <2>n, <2>u, <2>v DEF RequestIsWaitedFor, ServesARun,
           PollsHold, ClosingIsFinal, LockIsHeld, ResponseIsWaitedFor,
           ResponseIsTheirs, Past, Channel!Running
  <2>5. ResponseIsWaitedFor'
    BY <1>0, <1>r, <2>m, <2>n, <2>u, <2>v DEF ResponseIsWaitedFor, Past,
           ServesARun, PollsHold, ClosingIsFinal, LockIsHeld,
           RequestIsWaitedFor
  <2>6. ResponseIsTheirs'
    BY <1>0, <1>r, <2>m, <2>n, <2>u, <2>v DEF ResponseIsTheirs,
           ClosingIsFinal, Unserved, LockIsHeld, ResponseIsWaitedFor,
           RequestIsWaitedFor, Channel!Running
  <2>7. AnswersAreTrue'
    BY <1>0, <1>r, <2>m, <2>n, <2>u, <2>v DEF AnswersAreTrue,
           Channel!AcceptedIsStored, Channel!AnswerIsItsOwn, ResponseIsTheirs
  <2>8. EndIsTrue'
    BY <1>0, <1>r, <2>m, <2>n, <2>u, <2>v DEF EndIsTrue,
           Channel!OutcomeHonoursCommit
  <2>. QED BY <2>1, <2>2, <2>3, <2>4, <2>5, <2>6, <2>7, <2>8 DEF ChannelInv
<1>. QED BY <1>1, <1>2, <1>3, <1>4, <1>5, <1>6, <1>7, <1>8, <1>9 DEF Channel!Submits

\* A client that is killed or stalled, goes on, or whose lock grows old keeps
\* the invariant.
LEMMA FaultKeeps ==
    ASSUME NEW c \in Clients, ChannelTypes, ChannelInv,
           \/ Channel!KillClient(c) \/ Channel!StallClient(c)
           \/ Channel!ResumeClient(c) \/ Channel!LeaseLapses(c)
    PROVE  ChannelInv'
<1>. USE DEF ChannelInv, Ended, Channel!Owns
<1>1. UNCHANGED <<lock, request, response, ack, closed, told, server, seen, takenUp, pending,
                  stored, stopped, failed, result, directory, leader, stage, terminal,
                  accepted, outcome>>
  BY DEF Channel!KillClient, Channel!StallClient, Channel!ResumeClient, Channel!LeaseLapses,
         Channel!files, Channel!pollVars, Channel!channelVars, Channel!adapterVars
<1>2. /\ \A d \in Clients : d # c => client'[d] = client[d]
      /\ client' = client \/ (client[c] \in Channel!Running /\ client'[c] = "dead")
  BY Moved DEF Channel!KillClient, Channel!StallClient, Channel!ResumeClient,
     Channel!LeaseLapses
<1>3. /\ request \in Clients \cup {None} /\ ack \in Clients \cup {None}
      /\ takenUp \in Clients \cup {None}
      /\ response # None => response.to \in Clients
      /\ pending # None => pending.to \in Clients
  BY Reach
<1>4. ServesARun' /\ PollsHold' /\ ClosingIsFinal'
  BY <1>1, <1>2, <1>3 DEF ServesARun, PollsHold, ClosingIsFinal
<1>5. Unserved'
  BY <1>1, <1>2, <1>3 DEF Unserved, Channel!Running
<1>6. LockIsHeld'
  BY <1>1, <1>2, <1>3 DEF LockIsHeld, Channel!Running
<1>7. RequestIsWaitedFor'
  BY <1>1, <1>2, <1>3 DEF RequestIsWaitedFor, ServesARun, PollsHold
<1>8. ResponseIsWaitedFor'
  BY <1>1, <1>2, <1>3 DEF ResponseIsWaitedFor, Past
<1>9. ResponseIsTheirs'
  BY <1>1, <1>2, <1>3 DEF ResponseIsTheirs
<1>10. AnswersAreTrue'
  BY <1>1, <1>2, <1>3 DEF AnswersAreTrue, Channel!AcceptedIsStored,
         Channel!AnswerIsItsOwn
<1>11. EndIsTrue'
  BY <1>1, <1>2, <1>3 DEF EndIsTrue, Channel!OutcomeHonoursCommit
<1>. QED BY <1>4, <1>5, <1>6, <1>7, <1>8, <1>9, <1>10, <1>11

\* The steps of a poll keep the invariant.
LEMMA PollKeeps ==
    ASSUME ChannelTypes, ChannelInv, Channel!Polls
    PROVE  ChannelInv'
<1>. USE NoneAssumption DEF ChannelInv, Ended, Channel!Owns
<1>0. UNCHANGED <<client, told, overdue, directory, leader, stage, terminal, accepted, outcome>>
  BY DEF Channel!Polls, Channel!clientVars, Channel!adapterVars
<1>r. /\ request \in Clients \cup {None} /\ ack \in Clients \cup {None}
      /\ takenUp \in Clients \cup {None} /\ stored \in Clients \cup {None}
      /\ response # None => response.to \in Clients
      /\ pending # None => pending.to \in Clients
      /\ lock # None => lock.by \in Clients
      /\ result \in {"open", "accepted", "failed"}
  BY Reach DEF ChannelTypes, StateTypes
<1>1. ASSUME Channel!TakeAcknowledgment PROVE ChannelInv'
  <2>1. ServesARun'
    BY <1>1, <1>0, <1>r DEF ServesARun, PollsHold, Channel!TakeAcknowledgment,
           Channel!PollBegins, Channel!AdapterWaits, Channel!FailUnexpectedly,
           Channel!StopAccepting, Channel!Resolved
  <2>2. PollsHold'
    BY <1>1, <1>0, <1>r DEF PollsHold, ServesARun, Channel!TakeAcknowledgment,
           Channel!PollBegins, Channel!AdapterWaits, Channel!FailUnexpectedly,
           Channel!StopAccepting, Channel!Resolved
  <2>3. ClosingIsFinal'
    BY <1>1, <1>0, <1>r DEF ClosingIsFinal, ServesARun,
           Channel!TakeAcknowledgment, Channel!PollBegins,
           Channel!AdapterWaits, Channel!FailUnexpectedly,
           Channel!StopAccepting, Channel!Resolved
  <2>4. Unserved'
    BY <1>1, <1>0, <1>r DEF Unserved, ServesARun, Channel!TakeAcknowledgment,
           Channel!PollBegins, Channel!AdapterWaits, Channel!FailUnexpectedly,
           Channel!StopAccepting, Channel!Resolved
  <2>5. LockIsHeld'
    BY <1>1, <1>0, <1>r DEF LockIsHeld, ServesARun, PollsHold,
           ResponseIsWaitedFor, Channel!TakeAcknowledgment,
           Channel!PollBegins, Channel!AdapterWaits, Channel!FailUnexpectedly,
           Channel!StopAccepting, Channel!Resolved
  <2>6. RequestIsWaitedFor'
    BY <1>1, <1>0, <1>r DEF RequestIsWaitedFor, ServesARun, PollsHold,
           ResponseIsWaitedFor, LockIsHeld, Channel!Running,
           Channel!TakeAcknowledgment, Channel!PollBegins,
           Channel!AdapterWaits, Channel!FailUnexpectedly,
           Channel!StopAccepting, Channel!Resolved
  <2>7. ResponseIsWaitedFor'
    BY <1>1, <1>0, <1>r DEF ResponseIsWaitedFor, Past, ServesARun, PollsHold,
           LockIsHeld, RequestIsWaitedFor, Channel!Running,
           Channel!TakeAcknowledgment, Channel!PollBegins,
           Channel!AdapterWaits, Channel!FailUnexpectedly,
           Channel!StopAccepting, Channel!Resolved
  <2>8. ResponseIsTheirs'
    BY <1>1, <1>0, <1>r DEF ResponseIsTheirs, ServesARun, PollsHold,
           LockIsHeld, ResponseIsWaitedFor, RequestIsWaitedFor,
           Channel!Running, Channel!TakeAcknowledgment, Channel!PollBegins,
           Channel!AdapterWaits, Channel!FailUnexpectedly,
           Channel!StopAccepting, Channel!Resolved
  <2>9. AnswersAreTrue'
    BY <1>1, <1>0, <1>r DEF AnswersAreTrue, Channel!AcceptedIsStored,
           Channel!AnswerIsItsOwn, PollsHold, Channel!TakeAcknowledgment,
           Channel!PollBegins, Channel!AdapterWaits, Channel!FailUnexpectedly,
           Channel!StopAccepting, Channel!Resolved
  <2>10. EndIsTrue'
    BY <1>1, <1>0, <1>r DEF EndIsTrue, Channel!OutcomeHonoursCommit,
           ServesARun, PollsHold, AnswersAreTrue, Channel!TakeAcknowledgment,
           Channel!PollBegins, Channel!AdapterWaits, Channel!FailUnexpectedly,
           Channel!StopAccepting, Channel!Resolved
  <2>. QED BY <2>1, <2>2, <2>3, <2>4, <2>5, <2>6, <2>7, <2>8, <2>9, <2>10 DEF ChannelInv
<1>2. ASSUME Channel!FindNoAcknowledgment PROVE ChannelInv'
  <2>1. ServesARun'
    BY <1>2, <1>0, <1>r DEF ServesARun, PollsHold,
           Channel!FindNoAcknowledgment, Channel!PollBegins,
           Channel!AdapterWaits, Channel!files, Channel!channelVars
  <2>2. PollsHold'
    BY <1>2, <1>0, <1>r DEF PollsHold, ServesARun,
           Channel!FindNoAcknowledgment, Channel!PollBegins,
           Channel!AdapterWaits, Channel!files, Channel!channelVars
  <2>3. ClosingIsFinal'
    BY <1>2, <1>0, <1>r DEF ClosingIsFinal, ServesARun,
           Channel!FindNoAcknowledgment, Channel!PollBegins,
           Channel!AdapterWaits, Channel!files, Channel!channelVars
  <2>4. Unserved'
    BY <1>2, <1>0, <1>r DEF Unserved, ServesARun,
           Channel!FindNoAcknowledgment, Channel!PollBegins,
           Channel!AdapterWaits, Channel!files, Channel!channelVars
  <2>5. LockIsHeld'
    BY <1>2, <1>0, <1>r DEF LockIsHeld, ServesARun, PollsHold,
           ResponseIsWaitedFor, Channel!FindNoAcknowledgment,
           Channel!PollBegins, Channel!AdapterWaits, Channel!files,
           Channel!channelVars
  <2>6. RequestIsWaitedFor'
    BY <1>2, <1>0, <1>r DEF RequestIsWaitedFor, ServesARun, PollsHold,
           ResponseIsWaitedFor, LockIsHeld, Channel!Running,
           Channel!FindNoAcknowledgment, Channel!PollBegins,
           Channel!AdapterWaits, Channel!files, Channel!channelVars
  <2>7. ResponseIsWaitedFor'
    BY <1>2, <1>0, <1>r DEF ResponseIsWaitedFor, Past, ServesARun, PollsHold,
           LockIsHeld, RequestIsWaitedFor, Channel!Running,
           Channel!FindNoAcknowledgment, Channel!PollBegins,
           Channel!AdapterWaits, Channel!files, Channel!channelVars
  <2>8. ResponseIsTheirs'
    BY <1>2, <1>0, <1>r DEF ResponseIsTheirs, ServesARun, PollsHold,
           LockIsHeld, ResponseIsWaitedFor, RequestIsWaitedFor,
           Channel!Running, Channel!FindNoAcknowledgment, Channel!PollBegins,
           Channel!AdapterWaits, Channel!files, Channel!channelVars
  <2>9. AnswersAreTrue'
    BY <1>2, <1>0, <1>r DEF AnswersAreTrue, Channel!AcceptedIsStored,
           Channel!AnswerIsItsOwn, PollsHold, Channel!FindNoAcknowledgment,
           Channel!PollBegins, Channel!AdapterWaits, Channel!files,
           Channel!channelVars
  <2>10. EndIsTrue'
    BY <1>2, <1>0, <1>r DEF EndIsTrue, Channel!OutcomeHonoursCommit,
           ServesARun, PollsHold, AnswersAreTrue,
           Channel!FindNoAcknowledgment, Channel!PollBegins,
           Channel!AdapterWaits, Channel!files, Channel!channelVars
  <2>. QED BY <2>1, <2>2, <2>3, <2>4, <2>5, <2>6, <2>7, <2>8, <2>9, <2>10 DEF ChannelInv
<1>3. ASSUME Channel!CheckPendingClient PROVE ChannelInv'
  <2>1. ServesARun'
    BY <1>3, <1>0, <1>r DEF ServesARun, PollsHold, Channel!CheckPendingClient,
           Channel!Resolved, Channel!Abandons
  <2>2. PollsHold'
    BY <1>3, <1>0, <1>r DEF PollsHold, ServesARun, Channel!CheckPendingClient,
           Channel!Resolved, Channel!Abandons
  <2>3. ClosingIsFinal'
    BY <1>3, <1>0, <1>r DEF ClosingIsFinal, ServesARun,
           Channel!CheckPendingClient, Channel!Resolved, Channel!Abandons
  <2>4. Unserved'
    BY <1>3, <1>0, <1>r DEF Unserved, ServesARun, Channel!CheckPendingClient,
           Channel!Resolved, Channel!Abandons
  <2>5. LockIsHeld'
    BY <1>3, <1>0, <1>r DEF LockIsHeld, ServesARun, PollsHold,
           ResponseIsWaitedFor, Channel!CheckPendingClient, Channel!Resolved,
           Channel!Abandons
  <2>6. RequestIsWaitedFor'
    BY <1>3, <1>0, <1>r DEF RequestIsWaitedFor, ServesARun, PollsHold,
           ResponseIsWaitedFor, LockIsHeld, Channel!Running,
           Channel!CheckPendingClient, Channel!Resolved, Channel!Abandons
  <2>7. ResponseIsWaitedFor'
    BY <1>3, <1>0, <1>r DEF ResponseIsWaitedFor, Past, ServesARun, PollsHold,
           LockIsHeld, RequestIsWaitedFor, Channel!Running,
           Channel!CheckPendingClient, Channel!Resolved, Channel!Abandons
  <2>8. ResponseIsTheirs'
    BY <1>3, <1>0, <1>r DEF ResponseIsTheirs, ServesARun, PollsHold,
           LockIsHeld, ResponseIsWaitedFor, RequestIsWaitedFor,
           Channel!Running, Channel!CheckPendingClient, Channel!Resolved,
           Channel!Abandons
  <2>9. AnswersAreTrue'
    BY <1>3, <1>0, <1>r DEF AnswersAreTrue, Channel!AcceptedIsStored,
           Channel!AnswerIsItsOwn, PollsHold, Channel!CheckPendingClient,
           Channel!Resolved, Channel!Abandons
  <2>10. EndIsTrue'
    BY <1>3, <1>0, <1>r DEF EndIsTrue, Channel!OutcomeHonoursCommit,
           ServesARun, PollsHold, AnswersAreTrue, Channel!CheckPendingClient,
           Channel!Resolved, Channel!Abandons
  <2>. QED BY <2>1, <2>2, <2>3, <2>4, <2>5, <2>6, <2>7, <2>8, <2>9, <2>10 DEF ChannelInv
<1>4. ASSUME Channel!ReadLock PROVE ChannelInv'
  <2>1. ServesARun'
    BY <1>4, <1>0, <1>r DEF ServesARun, PollsHold, Channel!ReadLock,
           Channel!PollBegins, Channel!AdapterWaits, Channel!files,
           Channel!channelVars, Channel!LockRead
  <2>2. PollsHold'
    BY <1>4, <1>0, <1>r DEF PollsHold, ServesARun, Channel!ReadLock,
           Channel!PollBegins, Channel!AdapterWaits, Channel!files,
           Channel!channelVars, Channel!LockRead
  <2>3. ClosingIsFinal'
    BY <1>4, <1>0, <1>r DEF ClosingIsFinal, ServesARun, Channel!ReadLock,
           Channel!PollBegins, Channel!AdapterWaits, Channel!files,
           Channel!channelVars, Channel!LockRead
  <2>4. Unserved'
    BY <1>4, <1>0, <1>r DEF Unserved, ServesARun, Channel!ReadLock,
           Channel!PollBegins, Channel!AdapterWaits, Channel!files,
           Channel!channelVars, Channel!LockRead
  <2>5. LockIsHeld'
    BY <1>4, <1>0, <1>r DEF LockIsHeld, ServesARun, PollsHold,
           ResponseIsWaitedFor, Channel!ReadLock, Channel!PollBegins,
           Channel!AdapterWaits, Channel!files, Channel!channelVars,
           Channel!LockRead
  <2>6. RequestIsWaitedFor'
    BY <1>4, <1>0, <1>r DEF RequestIsWaitedFor, ServesARun, PollsHold,
           ResponseIsWaitedFor, LockIsHeld, Channel!Running, Channel!ReadLock,
           Channel!PollBegins, Channel!AdapterWaits, Channel!files,
           Channel!channelVars, Channel!LockRead
  <2>7. ResponseIsWaitedFor'
    BY <1>4, <1>0, <1>r DEF ResponseIsWaitedFor, Past, ServesARun, PollsHold,
           LockIsHeld, RequestIsWaitedFor, Channel!Running, Channel!ReadLock,
           Channel!PollBegins, Channel!AdapterWaits, Channel!files,
           Channel!channelVars, Channel!LockRead
  <2>8. ResponseIsTheirs'
    BY <1>4, <1>0, <1>r DEF ResponseIsTheirs, ServesARun, PollsHold,
           LockIsHeld, ResponseIsWaitedFor, RequestIsWaitedFor,
           Channel!Running, Channel!ReadLock, Channel!PollBegins,
           Channel!AdapterWaits, Channel!files, Channel!channelVars,
           Channel!LockRead
  <2>9. AnswersAreTrue'
    BY <1>4, <1>0, <1>r DEF AnswersAreTrue, Channel!AcceptedIsStored,
           Channel!AnswerIsItsOwn, PollsHold, Channel!ReadLock,
           Channel!PollBegins, Channel!AdapterWaits, Channel!files,
           Channel!channelVars, Channel!LockRead
  <2>10. EndIsTrue'
    BY <1>4, <1>0, <1>r DEF EndIsTrue, Channel!OutcomeHonoursCommit,
           ServesARun, PollsHold, AnswersAreTrue, Channel!ReadLock,
           Channel!PollBegins, Channel!AdapterWaits, Channel!files,
           Channel!channelVars, Channel!LockRead
  <2>. QED BY <2>1, <2>2, <2>3, <2>4, <2>5, <2>6, <2>7, <2>8, <2>9, <2>10 DEF ChannelInv
<1>5. ASSUME Channel!ReadRequest PROVE ChannelInv'
  <2>n. server = "lock" /\ UNCHANGED <<response, ack, pending, stored>>
    BY <1>5 DEF Channel!ReadRequest
  <2>w. \/ /\ result' # "open" /\ server' = "idle" /\ UNCHANGED <<closed, stopped, takenUp>>
           /\ result = "accepted" => result' = result
           /\ result' = "accepted" => result = "accepted"
        \/ server' = "idle" /\ UNCHANGED <<lock, request, closed, stopped, takenUp, result>>
        \/ /\ server' = "idle" /\ stopped' /\ closed' /\ UNCHANGED <<lock, request, takenUp>>
           /\ result' = "accepted" => result = "accepted"
        \/ /\ request # None /\ seen # None /\ seen' = seen
           /\ takenUp' = request /\ request' = None /\ server' = "check"
           /\ UNCHANGED <<lock, closed, stopped, result>>
    <3>1. CASE /\ request = None \/ (seen # None /\ Channel!Discards(seen))
               /\ IF seen # None /\ Channel!Discards(seen)
                  THEN /\ lock' = IF lock # None /\ lock.by = seen.by THEN None ELSE lock
                       /\ request' = None
                       /\ Channel!Resolved("failed")
                  ELSE UNCHANGED <<lock, request, result>>
               /\ server' = "idle"
               /\ UNCHANGED <<closed, stopped, failed, takenUp>>
      BY <3>1 DEF Channel!Resolved
    <3>2. CASE /\ request # None /\ seen = None
               /\ Channel!FailUnexpectedly
               /\ server' = "idle"
               /\ UNCHANGED <<lock, request, takenUp>>
      BY <3>2, <1>r DEF Channel!FailUnexpectedly, Channel!Resolved, Channel!StopAccepting
    <3>3. CASE /\ request # None /\ seen # None /\ ~Channel!Discards(seen)
               /\ takenUp' = request
               /\ request' = None
               /\ server' = "check"
               /\ UNCHANGED <<lock, closed, Channel!channelVars>>
      BY <1>5, <3>3 DEF Channel!ReadRequest, Channel!channelVars
    <3>. QED BY <1>5, <3>1, <3>2, <3>3 DEF Channel!ReadRequest
  <2>1. ServesARun'
    BY <1>0, <1>r, <2>n, <2>w DEF ServesARun, PollsHold
  <2>2. PollsHold'
    BY <1>0, <1>r, <2>n, <2>w DEF PollsHold, ServesARun
  <2>3. ClosingIsFinal'
    <3>1. (stopped => closed \/ stage = "closed")'
      BY <1>0, <2>n, <2>w DEF ClosingIsFinal, ServesARun
    <3>2. (closed => stopped)'
      BY <1>0, <2>n, <2>w DEF ClosingIsFinal, ServesARun
    <3>3. (terminal = "deadline" => stopped)'
      BY <1>0, <2>n, <2>w DEF ClosingIsFinal, ServesARun
    <3>. QED BY <3>1, <3>2, <3>3 DEF ClosingIsFinal
  <2>4. Unserved'
    BY <1>0, <2>n, <2>w DEF Unserved, ServesARun
  <2>5. LockIsHeld'
    BY <1>0, <1>r, <2>n, <2>w DEF LockIsHeld, ServesARun, PollsHold,
           ResponseIsWaitedFor
  <2>6. RequestIsWaitedFor'
    BY <1>0, <1>r, <2>n, <2>w DEF RequestIsWaitedFor, ServesARun, PollsHold,
           ResponseIsWaitedFor, LockIsHeld, Channel!Running
  <2>7. ResponseIsWaitedFor'
    BY <1>0, <1>r, <2>n, <2>w DEF ResponseIsWaitedFor, Past, ServesARun,
           PollsHold, LockIsHeld, RequestIsWaitedFor, Channel!Running
  <2>8. ResponseIsTheirs'
    BY <1>0, <1>r, <2>n, <2>w DEF ResponseIsTheirs, ServesARun, PollsHold,
           LockIsHeld, ResponseIsWaitedFor, RequestIsWaitedFor,
           Channel!Running
  <2>9. AnswersAreTrue'
    BY <1>0, <1>r, <2>n, <2>w DEF AnswersAreTrue, Channel!AcceptedIsStored,
           Channel!AnswerIsItsOwn, PollsHold
  <2>10. EndIsTrue'
    BY <1>0, <1>r, <2>n, <2>w DEF EndIsTrue, Channel!OutcomeHonoursCommit,
           ServesARun, PollsHold, AnswersAreTrue
  <2>. QED BY <2>1, <2>2, <2>3, <2>4, <2>5, <2>6, <2>7, <2>8, <2>9, <2>10 DEF ChannelInv
<1>6. ASSUME Channel!CheckRequest PROVE ChannelInv'
  <2>n. server = "check" /\ UNCHANGED <<request, response, ack, pending, stored>>
    BY <1>6 DEF Channel!CheckRequest
  <2>w. \/ /\ seen.by = takenUp /\ client[takenUp] # "dead" /\ server' = "prepare"
           /\ UNCHANGED <<lock, closed, stopped, result, seen, takenUp>>
        \/ /\ server' = "idle" /\ stopped' /\ closed' /\ UNCHANGED lock
           /\ result' = "accepted" => result = "accepted"
        \/ /\ server' = "idle" /\ result' # "open"
           /\ UNCHANGED <<closed, stopped>>
           /\ result' = "accepted" => result = "accepted"
    <3>1. CASE /\ seen.written /\ seen.by = takenUp /\ Channel!LeaseAlive(seen) = "alive"
               /\ server' = "prepare"
               /\ UNCHANGED <<lock, closed, Channel!channelVars, seen, takenUp>>
      BY <3>1 DEF Channel!LeaseAlive, Channel!channelVars
    <3>2. CASE /\ Channel!FailUnexpectedly
               /\ server' = "idle" /\ seen' = None /\ takenUp' = None
               /\ UNCHANGED lock
      BY <3>2, <1>r DEF Channel!FailUnexpectedly, Channel!Resolved, Channel!StopAccepting
    <3>3. CASE /\ Channel!Resolved("failed")
               /\ server' = "idle" /\ seen' = None /\ takenUp' = None
               /\ UNCHANGED <<closed, stopped, failed>>
      BY <3>3, <1>r DEF Channel!Resolved
    <3>. QED BY <1>6, <3>1, <3>2, <3>3 DEF Channel!CheckRequest
  <2>1. ServesARun'
    BY <1>0, <1>r, <2>n, <2>w DEF ServesARun, PollsHold
  <2>2. PollsHold'
    BY <1>0, <1>r, <2>n, <2>w DEF PollsHold, ServesARun
  <2>3. ClosingIsFinal'
    <3>1. (stopped => closed \/ stage = "closed")'
      BY <1>0, <2>n, <2>w DEF ClosingIsFinal, ServesARun
    <3>2. (closed => stopped)'
      BY <1>0, <2>n, <2>w DEF ClosingIsFinal, ServesARun
    <3>3. (terminal = "deadline" => stopped)'
      BY <1>0, <2>n, <2>w DEF ClosingIsFinal, ServesARun
    <3>. QED BY <3>1, <3>2, <3>3 DEF ClosingIsFinal
  <2>4. Unserved'
    BY <1>0, <2>n, <2>w DEF Unserved, ServesARun
  <2>5. LockIsHeld'
    BY <1>0, <1>r, <2>n, <2>w DEF LockIsHeld, ServesARun, PollsHold,
           ResponseIsWaitedFor
  <2>6. RequestIsWaitedFor'
    BY <1>0, <1>r, <2>n, <2>w DEF RequestIsWaitedFor, ServesARun, PollsHold,
           ResponseIsWaitedFor, LockIsHeld, Channel!Running
  <2>7. ResponseIsWaitedFor'
    BY <1>0, <1>r, <2>n, <2>w DEF ResponseIsWaitedFor, Past, ServesARun,
           PollsHold, LockIsHeld, RequestIsWaitedFor, Channel!Running
  <2>8. ResponseIsTheirs'
    BY <1>0, <1>r, <2>n, <2>w DEF ResponseIsTheirs, ServesARun, PollsHold,
           LockIsHeld, ResponseIsWaitedFor, RequestIsWaitedFor,
           Channel!Running
  <2>9. AnswersAreTrue'
    BY <1>0, <1>r, <2>n, <2>w DEF AnswersAreTrue, Channel!AcceptedIsStored,
           Channel!AnswerIsItsOwn, PollsHold
  <2>10. EndIsTrue'
    BY <1>0, <1>r, <2>n, <2>w DEF EndIsTrue, Channel!OutcomeHonoursCommit,
           ServesARun, PollsHold, AnswersAreTrue
  <2>. QED BY <2>1, <2>2, <2>3, <2>4, <2>5, <2>6, <2>7, <2>8, <2>9, <2>10 DEF ChannelInv
<1>7. ASSUME Channel!AcceptCandidate PROVE ChannelInv'
  <2>n. /\ server = "prepare" /\ server' = "idle" /\ stored = None /\ stored' = takenUp
        /\ UNCHANGED <<lock, request, ack>>
    BY <1>7 DEF Channel!AcceptCandidate, Channel!PollEnds
  <2>w. \/ /\ response = None /\ response'.to = takenUp /\ response'.ok /\ pending' = response'
           /\ UNCHANGED <<closed, stopped, result>>
        \/ /\ response # None /\ stopped' /\ closed' /\ UNCHANGED <<response, pending>>
           /\ result' = "accepted" => result = "accepted"
    <3>1. CASE response = None
      BY <1>7, <3>1 DEF Channel!AcceptCandidate, Channel!Answer, Channel!channelVars
    <3>2. CASE response # None
      BY <1>7, <3>2, <1>r DEF Channel!AcceptCandidate, Channel!Answer,
         Channel!FailUnexpectedly, Channel!Resolved, Channel!StopAccepting
    <3>. QED BY <3>1, <3>2
  <2>1. ServesARun'
    BY <1>0, <1>r, <2>n, <2>w DEF ServesARun, PollsHold
  <2>2. PollsHold'
    BY <1>0, <1>r, <2>n, <2>w DEF PollsHold, ServesARun
  <2>3. ClosingIsFinal'
    <3>1. (stopped => closed \/ stage = "closed")'
      BY <1>0, <2>n, <2>w DEF ClosingIsFinal, ServesARun
    <3>2. (closed => stopped)'
      BY <1>0, <2>n, <2>w DEF ClosingIsFinal, ServesARun
    <3>3. (terminal = "deadline" => stopped)'
      BY <1>0, <2>n, <2>w DEF ClosingIsFinal, ServesARun
    <3>. QED BY <3>1, <3>2, <3>3 DEF ClosingIsFinal
  <2>4. Unserved'
    BY <1>0, <2>n, <2>w DEF Unserved, ServesARun
  <2>5. LockIsHeld'
    BY <1>0, <1>r, <2>n, <2>w DEF LockIsHeld, ServesARun, PollsHold,
           ResponseIsWaitedFor
  <2>6. RequestIsWaitedFor'
    BY <1>0, <1>r, <2>n, <2>w DEF RequestIsWaitedFor, ServesARun, PollsHold,
           ResponseIsWaitedFor, LockIsHeld, Channel!Running
  <2>7. ResponseIsWaitedFor'
    BY <1>0, <1>r, <2>n, <2>w DEF ResponseIsWaitedFor, Past, ServesARun,
           PollsHold, LockIsHeld, RequestIsWaitedFor, Channel!Running
  <2>8. ResponseIsTheirs'
    BY <1>0, <1>r, <2>n, <2>w DEF ResponseIsTheirs, ServesARun, PollsHold,
           LockIsHeld, ResponseIsWaitedFor, RequestIsWaitedFor,
           Channel!Running
  <2>9. AnswersAreTrue'
    BY <1>0, <1>r, <2>n, <2>w DEF AnswersAreTrue, Channel!AcceptedIsStored,
           Channel!AnswerIsItsOwn, PollsHold
  <2>10. EndIsTrue'
    BY <1>0, <1>r, <2>n, <2>w DEF EndIsTrue, Channel!OutcomeHonoursCommit,
           ServesARun, PollsHold, AnswersAreTrue
  <2>. QED BY <2>1, <2>2, <2>3, <2>4, <2>5, <2>6, <2>7, <2>8, <2>9, <2>10 DEF ChannelInv
<1>8. ASSUME Channel!RejectCandidate PROVE ChannelInv'
  <2>n. /\ server = "prepare" /\ server' = "idle" /\ UNCHANGED stored
        /\ UNCHANGED <<lock, request, ack>>
    BY <1>8 DEF Channel!RejectCandidate, Channel!PollEnds
  <2>w. \/ /\ response = None /\ response'.to = takenUp /\ ~response'.ok /\ pending' = response'
           /\ UNCHANGED <<closed, stopped, result>>
        \/ /\ response # None /\ stopped' /\ closed' /\ UNCHANGED <<response, pending>>
           /\ result' = "accepted" => result = "accepted"
    <3>1. CASE response = None
      BY <1>8, <3>1 DEF Channel!RejectCandidate, Channel!Answer, Channel!channelVars
    <3>2. CASE response # None
      BY <1>8, <3>2, <1>r DEF Channel!RejectCandidate, Channel!Answer,
         Channel!FailUnexpectedly, Channel!Resolved, Channel!StopAccepting
    <3>. QED BY <3>1, <3>2
  <2>1. ServesARun'
    BY <1>0, <1>r, <2>n, <2>w DEF ServesARun, PollsHold
  <2>2. PollsHold'
    BY <1>0, <1>r, <2>n, <2>w DEF PollsHold, ServesARun
  <2>3. ClosingIsFinal'
    <3>1. (stopped => closed \/ stage = "closed")'
      BY <1>0, <2>n, <2>w DEF ClosingIsFinal, ServesARun
    <3>2. (closed => stopped)'
      BY <1>0, <2>n, <2>w DEF ClosingIsFinal, ServesARun
    <3>3. (terminal = "deadline" => stopped)'
      BY <1>0, <2>n, <2>w DEF ClosingIsFinal, ServesARun
    <3>. QED BY <3>1, <3>2, <3>3 DEF ClosingIsFinal
  <2>4. Unserved'
    BY <1>0, <2>n, <2>w DEF Unserved, ServesARun
  <2>5. LockIsHeld'
    BY <1>0, <1>r, <2>n, <2>w DEF LockIsHeld, ServesARun, PollsHold,
           ResponseIsWaitedFor
  <2>6. RequestIsWaitedFor'
    BY <1>0, <1>r, <2>n, <2>w DEF RequestIsWaitedFor, ServesARun, PollsHold,
           ResponseIsWaitedFor, LockIsHeld, Channel!Running
  <2>7. ResponseIsWaitedFor'
    BY <1>0, <1>r, <2>n, <2>w DEF ResponseIsWaitedFor, Past, ServesARun,
           PollsHold, LockIsHeld, RequestIsWaitedFor, Channel!Running
  <2>8. ResponseIsTheirs'
    BY <1>0, <1>r, <2>n, <2>w DEF ResponseIsTheirs, ServesARun, PollsHold,
           LockIsHeld, ResponseIsWaitedFor, RequestIsWaitedFor,
           Channel!Running
  <2>9. AnswersAreTrue'
    BY <1>0, <1>r, <2>n, <2>w DEF AnswersAreTrue, Channel!AcceptedIsStored,
           Channel!AnswerIsItsOwn, PollsHold
  <2>10. EndIsTrue'
    BY <1>0, <1>r, <2>n, <2>w DEF EndIsTrue, Channel!OutcomeHonoursCommit,
           ServesARun, PollsHold, AnswersAreTrue
  <2>. QED BY <2>1, <2>2, <2>3, <2>4, <2>5, <2>6, <2>7, <2>8, <2>9, <2>10 DEF ChannelInv
<1>9. ASSUME Channel!FailCandidate PROVE ChannelInv'
  <2>n. /\ server = "prepare" /\ server' = "idle"
        /\ UNCHANGED <<lock, request, ack, pending, stored>>
        /\ stopped' /\ closed' /\ (result' = "accepted" => result = "accepted")
    BY <1>9, <1>r DEF Channel!FailCandidate, Channel!PollEnds, Channel!FailUnexpectedly,
       Channel!Resolved, Channel!StopAccepting
  <2>w. \/ response = None /\ response'.to = takenUp /\ ~response'.ok
        \/ response # None /\ response' = response
    BY <1>9 DEF Channel!FailCandidate
  <2>1. ServesARun'
    BY <1>0, <1>r, <2>n, <2>w DEF ServesARun, PollsHold
  <2>2. PollsHold'
    BY <1>0, <1>r, <2>n, <2>w DEF PollsHold, ServesARun
  <2>3. ClosingIsFinal'
    <3>1. (stopped => closed \/ stage = "closed")'
      BY <1>0, <2>n, <2>w DEF ClosingIsFinal, ServesARun
    <3>2. (closed => stopped)'
      BY <1>0, <2>n, <2>w DEF ClosingIsFinal, ServesARun
    <3>3. (terminal = "deadline" => stopped)'
      BY <1>0, <2>n, <2>w DEF ClosingIsFinal, ServesARun
    <3>. QED BY <3>1, <3>2, <3>3 DEF ClosingIsFinal
  <2>4. Unserved'
    BY <1>0, <2>n, <2>w DEF Unserved, ServesARun
  <2>5. LockIsHeld'
    BY <1>0, <1>r, <2>n, <2>w DEF LockIsHeld, ServesARun, PollsHold,
           ResponseIsWaitedFor
  <2>6. RequestIsWaitedFor'
    BY <1>0, <1>r, <2>n, <2>w DEF RequestIsWaitedFor, ServesARun, PollsHold,
           ResponseIsWaitedFor, LockIsHeld, Channel!Running
  <2>7. ResponseIsWaitedFor'
    BY <1>0, <1>r, <2>n, <2>w DEF ResponseIsWaitedFor, Past, ServesARun,
           PollsHold, LockIsHeld, RequestIsWaitedFor, Channel!Running
  <2>8. ResponseIsTheirs'
    BY <1>0, <1>r, <2>n, <2>w DEF ResponseIsTheirs, ServesARun, PollsHold,
           LockIsHeld, ResponseIsWaitedFor, RequestIsWaitedFor,
           Channel!Running
  <2>9. AnswersAreTrue'
    BY <1>0, <1>r, <2>n, <2>w DEF AnswersAreTrue, Channel!AcceptedIsStored,
           Channel!AnswerIsItsOwn, PollsHold
  <2>10. EndIsTrue'
    BY <1>0, <1>r, <2>n, <2>w DEF EndIsTrue, Channel!OutcomeHonoursCommit,
           ServesARun, PollsHold, AnswersAreTrue
  <2>. QED BY <2>1, <2>2, <2>3, <2>4, <2>5, <2>6, <2>7, <2>8, <2>9, <2>10 DEF ChannelInv
<1>. QED BY <1>1, <1>2, <1>3, <1>4, <1>5, <1>6, <1>7, <1>8, <1>9 DEF Channel!Polls

\* The steps of the Codex adapter keep the invariant.
LEMMA AdapterKeeps ==
    ASSUME ChannelTypes, ChannelInv, Adapts
    PROVE  ChannelInv'
<1>. USE NoneAssumption DEF ChannelInv, Ended, Channel!Owns, Channel!StopAccepting, Channel!files,
         Channel!clientVars, Channel!pollVars, Channel!channelVars
<1>r. /\ client \in [Clients -> Channel!Running \cup {"idle", "done", "dead"}]
      /\ request \in Clients \cup {None} /\ ack \in Clients \cup {None}
      /\ takenUp \in Clients \cup {None} /\ stored \in Clients \cup {None}
      /\ response \in Channel!Answers \cup {None} /\ pending \in Channel!Answers \cup {None}
  BY DEF ChannelTypes, ClientTypes, PollTypes, FileTypes
<1>1. ASSUME Channel!OpenChannel PROVE ChannelInv'
  <2>1. ServesARun'
    BY <1>r, <1>1 DEF ServesARun, Channel!OpenChannel
  <2>2. PollsHold'
    BY <1>r, <1>1 DEF PollsHold, Channel!OpenChannel
  <2>3. ClosingIsFinal'
    BY <1>r, <1>1 DEF ClosingIsFinal, ServesARun, Channel!OpenChannel
  <2>4. Unserved'
    BY <1>r, <1>1 DEF Unserved, ServesARun, Channel!Running,
           Channel!OpenChannel
  <2>5. LockIsHeld'
    BY <1>r, <1>1 DEF LockIsHeld, Unserved, ServesARun, Channel!Running,
           Channel!OpenChannel
  <2>6. RequestIsWaitedFor'
    BY <1>r, <1>1 DEF RequestIsWaitedFor, ServesARun, PollsHold, Unserved,
           Channel!Running, Channel!OpenChannel
  <2>7. ResponseIsWaitedFor'
    BY <1>r, <1>1 DEF ResponseIsWaitedFor, Past, Unserved, ServesARun,
           Channel!Answers, Channel!Running, Channel!OpenChannel
  <2>8. ResponseIsTheirs'
    BY <1>r, <1>1 DEF ResponseIsTheirs, Unserved, Channel!Answers,
           Channel!OpenChannel
  <2>9. AnswersAreTrue'
    BY <1>r, <1>1 DEF AnswersAreTrue, Channel!AcceptedIsStored,
           Channel!AnswerIsItsOwn, Channel!OpenChannel
  <2>10. EndIsTrue'
    BY <1>r, <1>1 DEF EndIsTrue, Channel!OutcomeHonoursCommit, ServesARun,
           Channel!OpenChannel
  <2>. QED BY <2>1, <2>2, <2>3, <2>4, <2>5, <2>6, <2>7, <2>8, <2>9, <2>10 DEF ChannelInv
<1>2. ASSUME Channel!BindProcessGroup PROVE ChannelInv'
  <2>1. ServesARun'
    BY <1>r, <1>2 DEF ServesARun, Channel!BindProcessGroup
  <2>2. PollsHold'
    BY <1>r, <1>2 DEF PollsHold, Channel!BindProcessGroup
  <2>3. ClosingIsFinal'
    BY <1>r, <1>2 DEF ClosingIsFinal, ServesARun, Channel!BindProcessGroup
  <2>4. Unserved'
    BY <1>r, <1>2 DEF Unserved, ServesARun, Channel!Running,
           Channel!BindProcessGroup
  <2>5. LockIsHeld'
    BY <1>r, <1>2 DEF LockIsHeld, Unserved, ServesARun, Channel!Running,
           Channel!BindProcessGroup
  <2>6. RequestIsWaitedFor'
    BY <1>r, <1>2 DEF RequestIsWaitedFor, ServesARun, PollsHold, Unserved,
           Channel!Running, Channel!BindProcessGroup
  <2>7. ResponseIsWaitedFor'
    BY <1>r, <1>2 DEF ResponseIsWaitedFor, Past, Unserved, ServesARun,
           Channel!Answers, Channel!Running, Channel!BindProcessGroup
  <2>8. ResponseIsTheirs'
    BY <1>r, <1>2 DEF ResponseIsTheirs, Unserved, Channel!Answers,
           Channel!BindProcessGroup
  <2>9. AnswersAreTrue'
    BY <1>r, <1>2 DEF AnswersAreTrue, Channel!AcceptedIsStored,
           Channel!AnswerIsItsOwn, Channel!BindProcessGroup
  <2>10. EndIsTrue'
    BY <1>r, <1>2 DEF EndIsTrue, Channel!OutcomeHonoursCommit, ServesARun,
           Channel!BindProcessGroup
  <2>. QED BY <2>1, <2>2, <2>3, <2>4, <2>5, <2>6, <2>7, <2>8, <2>9, <2>10 DEF ChannelInv
<1>3. ASSUME Channel!CodexExits PROVE ChannelInv'
  <2>1. ServesARun'
    BY <1>r, <1>3 DEF ServesARun, Channel!CodexExits
  <2>2. PollsHold'
    BY <1>r, <1>3 DEF PollsHold, Channel!CodexExits
  <2>3. ClosingIsFinal'
    BY <1>r, <1>3 DEF ClosingIsFinal, ServesARun, Channel!CodexExits
  <2>4. Unserved'
    BY <1>r, <1>3 DEF Unserved, ServesARun, Channel!Running,
           Channel!CodexExits
  <2>5. LockIsHeld'
    BY <1>r, <1>3 DEF LockIsHeld, Unserved, ServesARun, Channel!Running,
           Channel!CodexExits
  <2>6. RequestIsWaitedFor'
    BY <1>r, <1>3 DEF RequestIsWaitedFor, ServesARun, PollsHold, Unserved,
           Channel!Running, Channel!CodexExits
  <2>7. ResponseIsWaitedFor'
    BY <1>r, <1>3 DEF ResponseIsWaitedFor, Past, Unserved, ServesARun,
           Channel!Answers, Channel!Running, Channel!CodexExits
  <2>8. ResponseIsTheirs'
    BY <1>r, <1>3 DEF ResponseIsTheirs, Unserved, Channel!Answers,
           Channel!CodexExits
  <2>9. AnswersAreTrue'
    BY <1>r, <1>3 DEF AnswersAreTrue, Channel!AcceptedIsStored,
           Channel!AnswerIsItsOwn, Channel!CodexExits
  <2>10. EndIsTrue'
    BY <1>r, <1>3 DEF EndIsTrue, Channel!OutcomeHonoursCommit, ServesARun,
           Channel!CodexExits
  <2>. QED BY <2>1, <2>2, <2>3, <2>4, <2>5, <2>6, <2>7, <2>8, <2>9, <2>10 DEF ChannelInv
<1>4. ASSUME Channel!SubmissionSettles PROVE ChannelInv'
  <2>1. ServesARun'
    BY <1>r, <1>4 DEF ServesARun, Channel!SubmissionSettles, Channel!Verdict
  <2>2. PollsHold'
    BY <1>r, <1>4 DEF PollsHold, Channel!SubmissionSettles, Channel!Verdict
  <2>3. ClosingIsFinal'
    BY <1>r, <1>4 DEF ClosingIsFinal, ServesARun, Channel!SubmissionSettles,
           Channel!Verdict
  <2>4. Unserved'
    BY <1>r, <1>4 DEF Unserved, ServesARun, Channel!Running,
           Channel!SubmissionSettles, Channel!Verdict
  <2>5. LockIsHeld'
    BY <1>r, <1>4 DEF LockIsHeld, Unserved, ServesARun, Channel!Running,
           Channel!SubmissionSettles, Channel!Verdict
  <2>6. RequestIsWaitedFor'
    BY <1>r, <1>4 DEF RequestIsWaitedFor, ServesARun, PollsHold, Unserved,
           Channel!Running, Channel!SubmissionSettles, Channel!Verdict
  <2>7. ResponseIsWaitedFor'
    BY <1>r, <1>4 DEF ResponseIsWaitedFor, Past, Unserved, ServesARun,
           Channel!Answers, Channel!Running, Channel!SubmissionSettles,
           Channel!Verdict
  <2>8. ResponseIsTheirs'
    BY <1>r, <1>4 DEF ResponseIsTheirs, Unserved, Channel!Answers,
           Channel!SubmissionSettles, Channel!Verdict
  <2>9. AnswersAreTrue'
    BY <1>r, <1>4 DEF AnswersAreTrue, Channel!AcceptedIsStored,
           Channel!AnswerIsItsOwn, Channel!SubmissionSettles, Channel!Verdict
  <2>10. EndIsTrue'
    BY <1>r, <1>4 DEF EndIsTrue, Channel!OutcomeHonoursCommit, ServesARun,
           Channel!SubmissionSettles, Channel!Verdict
  <2>. QED BY <2>1, <2>2, <2>3, <2>4, <2>5, <2>6, <2>7, <2>8, <2>9, <2>10 DEF ChannelInv
<1>5. ASSUME Channel!TerminateGroup PROVE ChannelInv'
  <2>1. ServesARun'
    BY <1>r, <1>5 DEF ServesARun, Channel!TerminateGroup, Channel!Outcome,
           Channel!Running
  <2>2. PollsHold'
    BY <1>r, <1>5 DEF PollsHold, Channel!TerminateGroup, Channel!Outcome,
           Channel!Running
  <2>3. ClosingIsFinal'
    BY <1>r, <1>5 DEF ClosingIsFinal, ServesARun, Channel!TerminateGroup,
           Channel!Outcome, Channel!Running
  <2>4. Unserved'
    BY <1>r, <1>5 DEF Unserved, ServesARun, Channel!Running,
           Channel!TerminateGroup, Channel!Outcome
  <2>5. LockIsHeld'
    BY <1>r, <1>5 DEF LockIsHeld, Unserved, ServesARun, Channel!Running,
           Channel!TerminateGroup, Channel!Outcome
  <2>6. RequestIsWaitedFor'
    BY <1>r, <1>5 DEF RequestIsWaitedFor, ServesARun, PollsHold, Unserved,
           Channel!Running, Channel!TerminateGroup, Channel!Outcome
  <2>7. ResponseIsWaitedFor'
    BY <1>r, <1>5 DEF ResponseIsWaitedFor, Past, Unserved, ServesARun,
           Channel!Answers, Channel!Running, Channel!TerminateGroup,
           Channel!Outcome
  <2>8. ResponseIsTheirs'
    BY <1>r, <1>5 DEF ResponseIsTheirs, Unserved, Channel!Answers,
           Channel!TerminateGroup, Channel!Outcome, Channel!Running
  <2>9. AnswersAreTrue'
    BY <1>r, <1>5 DEF AnswersAreTrue, Channel!AcceptedIsStored,
           Channel!AnswerIsItsOwn, Channel!TerminateGroup, Channel!Outcome,
           Channel!Running
  <2>10. EndIsTrue'
    BY <1>r, <1>5 DEF EndIsTrue, Channel!OutcomeHonoursCommit, ServesARun,
           Channel!TerminateGroup, Channel!Outcome, Channel!Running
  <2>. QED BY <2>1, <2>2, <2>3, <2>4, <2>5, <2>6, <2>7, <2>8, <2>9, <2>10 DEF ChannelInv
<1>6. ASSUME Channel!CloseChannel PROVE ChannelInv'
  <2>1. ServesARun'
    BY <1>r, <1>6 DEF ServesARun, Channel!CloseChannel
  <2>2. PollsHold'
    BY <1>r, <1>6 DEF PollsHold, Channel!CloseChannel
  <2>3. ClosingIsFinal'
    BY <1>r, <1>6 DEF ClosingIsFinal, ServesARun, Channel!CloseChannel
  <2>4. Unserved'
    BY <1>r, <1>6 DEF Unserved, ServesARun, Channel!Running,
           Channel!CloseChannel
  <2>5. LockIsHeld'
    BY <1>r, <1>6 DEF LockIsHeld, Unserved, ServesARun, Channel!Running,
           Channel!CloseChannel
  <2>6. RequestIsWaitedFor'
    BY <1>r, <1>6 DEF RequestIsWaitedFor, ServesARun, PollsHold, Unserved,
           Channel!Running, Channel!CloseChannel
  <2>7. ResponseIsWaitedFor'
    BY <1>r, <1>6 DEF ResponseIsWaitedFor, Past, Unserved, ServesARun,
           Channel!Answers, Channel!Running, Channel!CloseChannel
  <2>8. ResponseIsTheirs'
    BY <1>r, <1>6 DEF ResponseIsTheirs, Unserved, Channel!Answers,
           Channel!CloseChannel
  <2>9. AnswersAreTrue'
    BY <1>r, <1>6 DEF AnswersAreTrue, Channel!AcceptedIsStored,
           Channel!AnswerIsItsOwn, Channel!CloseChannel
  <2>10. EndIsTrue'
    BY <1>r, <1>6 DEF EndIsTrue, Channel!OutcomeHonoursCommit, ServesARun,
           Channel!CloseChannel
  <2>. QED BY <2>1, <2>2, <2>3, <2>4, <2>5, <2>6, <2>7, <2>8, <2>9, <2>10 DEF ChannelInv
<1>7. ASSUME NEW kind \in Channel!Kinds, Channel!Terminates(kind) PROVE ChannelInv'
  <2>1. ServesARun'
    BY <1>r, <1>7 DEF ServesARun, Channel!Terminates, Channel!Verdict
  <2>2. PollsHold'
    BY <1>r, <1>7 DEF PollsHold, Channel!Terminates, Channel!Verdict
  <2>3. ClosingIsFinal'
    BY <1>r, <1>7 DEF ClosingIsFinal, ServesARun, Channel!Terminates,
           Channel!Verdict
  <2>4. Unserved'
    BY <1>r, <1>7 DEF Unserved, ServesARun, Channel!Running,
           Channel!Terminates, Channel!Verdict
  <2>5. LockIsHeld'
    BY <1>r, <1>7 DEF LockIsHeld, Unserved, ServesARun, Channel!Running,
           Channel!Terminates, Channel!Verdict
  <2>6. RequestIsWaitedFor'
    BY <1>r, <1>7 DEF RequestIsWaitedFor, ServesARun, PollsHold, Unserved,
           Channel!Running, Channel!Terminates, Channel!Verdict
  <2>7. ResponseIsWaitedFor'
    BY <1>r, <1>7 DEF ResponseIsWaitedFor, Past, Unserved, ServesARun,
           Channel!Answers, Channel!Running, Channel!Terminates,
           Channel!Verdict
  <2>8. ResponseIsTheirs'
    BY <1>r, <1>7 DEF ResponseIsTheirs, Unserved, Channel!Answers,
           Channel!Terminates, Channel!Verdict
  <2>9. AnswersAreTrue'
    BY <1>r, <1>7 DEF AnswersAreTrue, Channel!AcceptedIsStored,
           Channel!AnswerIsItsOwn, Channel!Terminates, Channel!Verdict
  <2>10. EndIsTrue'
    BY <1>r, <1>7 DEF EndIsTrue, Channel!OutcomeHonoursCommit, ServesARun,
           Channel!Terminates, Channel!Verdict
  <2>. QED BY <2>1, <2>2, <2>3, <2>4, <2>5, <2>6, <2>7, <2>8, <2>9, <2>10 DEF ChannelInv
<1>. QED BY <1>1, <1>2, <1>3, <1>4, <1>5, <1>6, <1>7 DEF Adapts

\* A step of the channel keeps types and invariant.
LEMMA ChannelStep ==
    ASSUME ChannelTypes, ChannelInv, Channel!Next
    PROVE  ChannelTypes' /\ ChannelInv'
<1>1. ASSUME NEW c \in Clients, Channel!Submits(c) PROVE ChannelTypes' /\ ChannelInv'
  BY <1>1, SubmitTypes, SubmitKeeps
<1>2. ASSUME NEW c \in Clients,
             \/ Channel!KillClient(c) \/ Channel!StallClient(c)
             \/ Channel!ResumeClient(c) \/ Channel!LeaseLapses(c)
      PROVE  ChannelTypes' /\ ChannelInv'
  BY <1>2, FaultTypes, FaultKeeps
<1>3. ASSUME Channel!Polls PROVE ChannelTypes' /\ ChannelInv'
  BY <1>3, PollStepTypes, PollKeeps DEF ChannelInv
<1>4. ASSUME Adapts PROVE ChannelTypes' /\ ChannelInv'
  BY <1>4, AdapterTypesKept, AdapterKeeps
<1>5. ASSUME \/ Channel!SubmissionEnds \/ Channel!ProcessEnds \/ Channel!DeadlinePasses
             \/ Channel!CancellationCame \/ Channel!TranscriptFails
      PROVE  Adapts
  BY <1>5 DEF Adapts, Channel!Kinds, Channel!SubmissionEnds, Channel!ProcessEnds,
              Channel!DeadlinePasses, Channel!CancellationCame, Channel!TranscriptFails
<1>. QED BY <1>1, <1>2, <1>3, <1>4, <1>5 DEF Channel!Next, Adapts

\* The other subjects leave the channel alone.
LEMMA ChannelRests ==
    ASSUME ChannelTypes, ChannelInv, UNCHANGED channelVars
    PROVE  ChannelTypes' /\ ChannelInv'
<1>. USE DEF channelVars
<1>1. FileTypes' /\ ClientTypes' /\ PollTypes'
  BY DEF ChannelTypes, FileTypes, ClientTypes, PollTypes
<1>2. StateTypes' /\ (clientFaults \in 0 .. MaxClientFaults)'
  BY DEF ChannelTypes, StateTypes
<1>a. AdapterTypes'
  BY DEF ChannelTypes, AdapterTypes
<1>3. ServesARun' /\ PollsHold' /\ ClosingIsFinal' /\ Unserved'
  BY DEF ChannelInv, ServesARun, PollsHold, ClosingIsFinal, Unserved
<1>4. LockIsHeld' /\ RequestIsWaitedFor'
  BY DEF ChannelInv, LockIsHeld, RequestIsWaitedFor, Ended, Channel!Owns
<1>5. ResponseIsWaitedFor' /\ ResponseIsTheirs'
  BY DEF ChannelInv, ResponseIsWaitedFor, ResponseIsTheirs, Ended, Channel!Owns
<1>6. AnswersAreTrue' /\ EndIsTrue'
  BY DEF ChannelInv, AnswersAreTrue, EndIsTrue, Channel!AcceptedIsStored,
         Channel!AnswerIsItsOwn, Channel!OutcomeHonoursCommit
<1>. QED BY <1>1, <1>2, <1>a, <1>3, <1>4, <1>5, <1>6 DEF ChannelTypes, ChannelInv

\* The channel begins without files, clients or a stored Result.
LEMMA ChannelBegins == Channel!Init => ChannelTypes /\ ChannelInv
<1>. SUFFICES ASSUME Channel!Init PROVE ChannelTypes /\ ChannelInv
  OBVIOUS
<1>. USE ClientFaultsAssumption DEF Channel!Init
<1>1. FileTypes /\ ClientTypes /\ PollTypes
  BY DEF FileTypes, ClientTypes, PollTypes
<1>2. StateTypes
  BY DEF StateTypes
<1>c. clientFaults \in 0 .. MaxClientFaults
  OBVIOUS
<1>a. AdapterTypes
  BY DEF AdapterTypes
<1>3. ServesARun /\ PollsHold
  BY DEF ServesARun, PollsHold
<1>d. ClosingIsFinal
  BY NoneAssumption DEF ClosingIsFinal, Channel!Kinds
<1>b. Unserved
  BY DEF Unserved
<1>4. LockIsHeld /\ RequestIsWaitedFor /\ ResponseIsWaitedFor /\ ResponseIsTheirs
  BY DEF LockIsHeld, RequestIsWaitedFor, ResponseIsWaitedFor, ResponseIsTheirs, Channel!Running
<1>5. AnswersAreTrue /\ EndIsTrue
  BY DEF AnswersAreTrue, EndIsTrue, Channel!AcceptedIsStored, Channel!AnswerIsItsOwn,
         Channel!OutcomeHonoursCommit
<1>. QED BY <1>1, <1>2, <1>a, <1>c, <1>3, <1>b, <1>d, <1>4, <1>5 DEF ChannelTypes, ChannelInv

\* Whatever clients are killed, stalled or overtaken, and however the Run ends:
\* a client reports success only for its own stored Result, no client finds the
\* answer to another's request, and the Run succeeds exactly when a Result was
\* stored.
THEOREM SubmissionAnswered == Spec => []SubmissionIsAnsweredOnce
<1>1. Init => ChannelTypes /\ ChannelInv
  BY ChannelBegins DEF Init
<1>2. ASSUME ChannelTypes /\ ChannelInv, [Next]_all PROVE (ChannelTypes /\ ChannelInv)'
  <2>1. CASE OfChannel(Channel!Next)
    BY <1>2, <2>1, ChannelStep DEF OfChannel
  <2>2. CASE UNCHANGED channelVars
    BY <1>2, <2>2, ChannelRests
  <2>3. CASE \/ AtGitHub(GitHub!Next) \/ AtForgejo(Forgejo!Next) \/ OfStorage(Storage!Next)
             \/ OfBackup(Backup!Next) \/ OfRestore(Restore!Next)
    <3>1. UNCHANGED channelVars
      BY <2>3 DEF AtGitHub, AtForgejo, OfStorage, OfBackup, OfRestore
    <3>. QED BY <2>2, <3>1
  <2>4. CASE UNCHANGED all
    BY <2>2, <2>4 DEF all
  <2>. QED BY <1>2, <2>1, <2>3, <2>4 DEF Next
<1>3. ChannelInv => SubmissionIsAnsweredOnce
  BY DEF ChannelInv, AnswersAreTrue, EndIsTrue, SubmissionIsAnsweredOnce
<1>. QED BY <1>1, <1>2, <1>3, PTL DEF Spec

-----------------------------------------------------------------------------
(***************************************************************************)
(* The polls of both forges                                                *)
(***************************************************************************)
\* An associated Evaluation was begun, and a pull request has one of them active.
Orderly(b, pulls) ==
    /\ \A p \in pulls, v \in Revisions :
          <<p, v>> \in b.of => b.status[<<1, v>>] # "none"
    /\ \A p \in pulls, v, w \in Revisions :
          /\ <<p, v>> \in b.of /\ b.status[<<1, v>>] = "active"
          /\ <<p, w>> \in b.of /\ b.status[<<1, w>>] = "active"
          => v = w

\* What was seen open was admitted, or absorbed by a baseline.
Known(snap, pulls) ==
    \A p \in pulls : snap[p] \in Revisions => <<p, snap[p]>> \in book.of \cup absorbed

\* With that of what is stored, that of what the poller compares with.
Polled(pulls) ==
    /\ Orderly(book, pulls)
    /\ Known(snapshot, pulls)
    /\ "seen" \in DOMAIN poller /\ Known(poller.seen, pulls)

\* Nothing is taken up, and the poller compares with nothing else than before,
\* with what is stored or with a snapshot that shows nothing.
TakesNothingUp(nothing) ==
    /\ UNCHANGED <<snapshot, book, absorbed>>
    /\ "seen" \in DOMAIN poller' /\ poller'.seen \in {poller.seen, snapshot, nothing}

\* The invariant of the polls of GitHub.
GitHubInv == book \in GitHub!BookType /\ Polled({1})

\* An admission keeps the book orderly and adds its association.
LEMMA GitHubAdmits ==
    ASSUME NEW b \in GitHub!BookType, Orderly(b, {1}), NEW p \in {1}, NEW v \in Revisions
    PROVE  /\ GitHub!Admit(b, p, v) \in GitHub!BookType
           /\ Orderly(GitHub!Admit(b, p, v), {1})
           /\ b.of \cup {<<p, v>>} \subseteq GitHub!Admit(b, p, v).of
<1>. DEFINE a == GitHub!Admit(b, p, v)
<1>1. /\ b.status \in [{1, 2} \X Revisions -> GitHub!EvaluationStatus]
      /\ b.of \subseteq {1} \X Revisions
  BY DEF GitHub!BookType
<1>3. /\ a.of = b.of \cup {<<p, v>>}
      /\ a.status \in [{1, 2} \X Revisions -> GitHub!EvaluationStatus]
      /\ a = [status |-> a.status, of |-> a.of]
      /\ \A e \in {1, 2} \X Revisions :
            /\ e \in {1} \X (Revisions \ {v}) /\ <<p, e[2]>> \in b.of /\ b.status[e] = "active"
                  => a.status[e] = "cancelled"
            /\ a.status[e] = b.status[e] \/ a.status[e] = "cancelled"
                 \/ (e = <<1, v>> /\ b.status[e] = "none" /\ a.status[e] = "active")
            /\ e = <<1, v>> => a.status[e] # "none"
  BY <1>1 DEF GitHub!Admit, GitHub!Superseded, GitHub!EvaluationStatus
<1>. HIDE DEF a
<1>4. a \in GitHub!BookType
  BY <1>1, <1>3 DEF GitHub!BookType
<1>5. \A q \in {1}, w \in Revisions : <<q, w>> \in a.of => a.status[<<1, w>>] # "none"
  BY <1>1, <1>3 DEF Orderly
<1>6. ASSUME NEW q \in {1}, NEW w \in Revisions, NEW x \in Revisions,
             <<q, w>> \in a.of, a.status[<<1, w>>] = "active",
             <<q, x>> \in a.of, a.status[<<1, x>>] = "active"
      PROVE  w = x
  <2>1. \A y \in Revisions : a.status[<<1, y>>] = "active" =>
           \/ b.status[<<1, y>>] = "active"
           \/ y = v /\ b.status[<<1, y>>] = "none"
    BY <1>3
  <2>2. CASE q = p
    BY <1>3, <1>6, <2>1, <2>2 DEF Orderly
  <2>3. CASE q # p
    BY <1>3, <1>6, <2>1, <2>3 DEF Orderly
  <2>. QED BY <2>2, <2>3
<1>7. Orderly(a, {1})
  BY <1>5, <1>6 DEF Orderly
<1>. QED BY <1>3, <1>4, <1>7 DEF a

\* All of a set are admitted in the order of their numbers.
LEMMA GitHubAdmitsAll ==
    ASSUME NEW b \in GitHub!BookType, NEW P \in SUBSET {1}, NEW current
    PROVE  GitHub!AdmitAll(b, P, current) =
              IF P = {} THEN b ELSE GitHub!Admit(b, 1, current[1])
<1>. DEFINE F(f) == [Q \in SUBSET P |->
             IF Q = {} THEN b
          ELSE LET p == GitHub!Max(Q) IN GitHub!Admit(f[Q \ {p}], p, current[p])]
            g == [Q \in SUBSET P |-> IF Q = {} THEN b ELSE GitHub!Admit(b, 1, current[1])]
            h == CHOOSE f : f = F(f)
<1>1. GitHub!AdmitAll(b, P, current) = h[P]
  BY DEF GitHub!AdmitAll
<1>2. GitHub!Max({1}) = 1
  BY DEF GitHub!Max
<1>3. SUBSET P \subseteq {{}, {1}}
  OBVIOUS
<1>4. g = F(g)
  <2>1. ASSUME NEW Q \in SUBSET P PROVE g[Q] = F(g)[Q]
    <3>1. CASE Q = {}
      BY <3>1
    <3>2. CASE Q = {1}
      <4>1. g[{}] = b
        OBVIOUS
      <4>. QED BY <1>2, <3>2, <4>1
    <3>. QED BY <1>3, <3>1, <3>2
  <2>. QED BY <2>1
<1>5. h = F(h)
  BY <1>4
<1>6. h[{}] = b
  BY <1>5
<1>7. ASSUME P = {1} PROVE h[P] = GitHub!Admit(b, 1, current[1])
  <2>1. {1} \in SUBSET P /\ {1} # {} /\ {1} \ {1} = {}
    BY <1>7
  <2>2. F(h)[{1}] = GitHub!Admit(h[{1} \ {1}], 1, current[1])
    BY <1>2, <2>1
  <2>3. h[{1}] = F(h)[{1}]
    BY <1>5
  <2>. HIDE DEF h, F
  <2>. QED BY <1>6, <1>7, <2>1, <2>2, <2>3
<1>. QED BY <1>1, <1>6, <1>7, <1>3

\* So do those of whatever is eligible.
LEMMA GitHubAdmitsEligible ==
    ASSUME NEW b \in GitHub!BookType, Orderly(b, {1}), NEW seen_, NEW new, NEW r,
           NEW P \in SUBSET GitHub!NewlyEligible(seen_, new, r)
    PROVE  /\ GitHub!AdmitAll(b, P, new) \in GitHub!BookType
           /\ Orderly(GitHub!AdmitAll(b, P, new), {1})
           /\ b.of \cup {<<p, new[p]>> : p \in P} \subseteq GitHub!AdmitAll(b, P, new).of
<1>1. P \in SUBSET {1} /\ \A p \in P : new[p] \in Revisions
  BY DEF GitHub!NewlyEligible, GitHub!PullsOf
<1>2. CASE P = {}
  BY <1>1, <1>2, GitHubAdmitsAll
<1>3. CASE P = {1}
  <2>1. GitHub!AdmitAll(b, P, new) = GitHub!Admit(b, 1, new[1])
    BY <1>1, <1>3, GitHubAdmitsAll
  <2>. QED BY <1>1, <1>3, <2>1, GitHubAdmits
<1>. QED BY <1>1, <1>2, <1>3

\* How a round goes on: with the snapshots it compares with, or with none.
LEMMA GitHubGoesOn ==
    ASSUME "seen" \in DOMAIN poller, poller' \in {GitHub!Idle, GitHub!Onwards}
    PROVE  "seen" \in DOMAIN poller' /\ poller'.seen \in {poller.seen, GitHub!Nothing}
<1>1. "seen" \in DOMAIN GitHub!Idle /\ GitHub!Idle.seen = GitHub!Nothing
  BY DEF GitHub!Idle
<1>2. CASE poller' = GitHub!Idle
  BY <1>1, <1>2
<1>3. CASE poller' = GitHub!Onwards
  <2>. DEFINE rest == poller.rest \ {GitHub!Row}
              next == [poller EXCEPT !.phase = "next", !.rest = rest, !.ids = {},
                                     !.fetched = GitHub!Nothing]
  <2>1. poller' = IF rest = {} THEN GitHub!Idle ELSE next
    BY <1>3 DEF GitHub!Onwards
  <2>2. "seen" \in DOMAIN next /\ next.seen = poller.seen
    OBVIOUS
  <2>. HIDE DEF next, rest
  <2>. QED BY <1>1, <2>1, <2>2
<1>. QED BY <1>2, <1>3

\* A step that takes nothing up keeps the invariant.
LEMMA GitHubTakesNothingUp ==
    ASSUME GitHubInv, TakesNothingUp(GitHub!Nothing)
    PROVE  GitHubInv'
<1>1. Known(GitHub!Nothing, {1})
  BY RevisionsAssumption DEF Known, GitHub!Nothing, GitHub!Unseen, GitHub!Closed
<1>2. Known(poller'.seen, {1})
  BY <1>1 DEF GitHubInv, Polled, TakesNothingUp
<1>3. book' = book /\ absorbed' = absorbed /\ snapshot' = snapshot
  BY DEF TakesNothingUp
<1>4. Known(snapshot, {1})' /\ Known(poller.seen, {1})'
  BY <1>2, <1>3 DEF GitHubInv, Polled, Known
<1>. QED BY <1>3, <1>4 DEF GitHubInv, Polled, Orderly, TakesNothingUp

\* The transaction that ends a row takes up what its snapshot shows.
LEMMA GitHubCommitsRow ==
    ASSUME GitHubInv, NEW new, NEW admitted \in GitHub!BookType, Orderly(admitted, {1}),
           book.of \subseteq admitted.of,
           GitHub!Baseline \/ {<<p, new[p]>> : p \in GitHub!Eligible(new)} \subseteq admitted.of,
           GitHub!CommitRow(new, admitted)
    PROVE  GitHubInv'
<1>1. CASE GitHub!Fenced("poller")
  <2>1. TakesNothingUp(GitHub!Nothing)
    BY <1>1 DEF GitHub!CommitRow, GitHub!Halts, GitHub!Idle, GitHub!storeVars,
         GitHub!bookVars, TakesNothingUp
  <2>. QED BY <2>1, GitHubTakesNothingUp
<1>2. CASE ~GitHub!Fenced("poller")
  <2>1. /\ book' = admitted
        /\ snapshot' = GitHub!Replaced(GitHub!Taken, new, snapshot)
        /\ poller' \in {GitHub!Idle, GitHub!Onwards}
        /\ IF GitHub!Baseline THEN GitHub!Absorb(poller.unseen, new) ELSE absorbed' = absorbed
    BY <1>2 DEF GitHub!CommitRow, GitHub!Store
  <2>2. book.of \cup absorbed \subseteq book'.of \cup absorbed'
    BY <2>1 DEF GitHub!Absorb
  <2>3. "seen" \in DOMAIN poller' /\ poller'.seen \in {poller.seen, GitHub!Nothing}
    BY <2>1, GitHubGoesOn DEF GitHubInv, Polled
  <2>4. Known(poller.seen, {1})'
    <3>1. Known(GitHub!Nothing, {1})
      BY RevisionsAssumption DEF Known, GitHub!Nothing, GitHub!Unseen, GitHub!Closed
    <3>2. Known(poller'.seen, {1})
      BY <2>3, <3>1 DEF GitHubInv, Polled
    <3>. QED BY <2>2, <3>2 DEF Known
  <2>5. ASSUME NEW p \in {1}, snapshot'[p] \in Revisions
        PROVE  <<p, snapshot'[p]>> \in book'.of \cup absorbed'
    <3>1. snapshot'[p] = IF 1 \in GitHub!Taken THEN new[p] ELSE snapshot[p]
      BY <2>1 DEF GitHub!Replaced
    <3>2. CASE 1 \notin GitHub!Taken
      BY <2>2, <2>5, <3>1, <3>2 DEF GitHubInv, Polled, Known
    <3>3. CASE 1 \in GitHub!Taken /\ GitHub!Baseline
      BY <2>1, <2>5, <3>1, <3>3 DEF GitHub!Absorb, GitHub!Taken
    <3>4. CASE 1 \in GitHub!Taken /\ ~GitHub!Baseline
      <4>1. GitHub!Row = 1
        BY <3>4 DEF GitHub!Taken
      <4>2. p \in GitHub!Eligible(new) \/ poller.seen[p] = new[p]
        BY <2>5, <3>1, <3>4, <4>1 DEF GitHub!Eligible, GitHub!NewlyEligible, GitHub!PullsOf
      <4>3. CASE p \in GitHub!Eligible(new)
        BY <2>1, <3>1, <3>4, <4>3
      <4>4. CASE poller.seen[p] = new[p]
        BY <2>2, <2>5, <3>1, <3>4, <4>4 DEF GitHubInv, Polled, Known
      <4>. QED BY <4>2, <4>3, <4>4
    <3>. QED BY <3>2, <3>3, <3>4
  <2>6. Known(snapshot, {1})'
    BY <2>5 DEF Known
  <2>7. book' \in GitHub!BookType /\ Orderly(book, {1})'
    BY <2>1 DEF Orderly
  <2>. QED BY <2>3, <2>4, <2>6, <2>7 DEF GitHubInv, Polled
<1>. QED BY <1>1, <1>2

\* The last row of a fetch commits what it read.
LEMMA GitHubFetchesLast ==
    ASSUME GitHubInv, GitHub!FetchesLast
    PROVE  GitHubInv'
<1>1. /\ GitHub!Baseline \/ GitHub!Eligible(GitHub!Fetched) = {}
      /\ GitHub!CommitRow(GitHub!Fetched, book)
  BY DEF GitHub!FetchesLast
<1>2. GitHub!Baseline \/ {<<p, GitHub!Fetched[p]>> : p \in GitHub!Eligible(GitHub!Fetched)}
                            \subseteq book.of
  BY <1>1
<1>3. book \in GitHub!BookType /\ Orderly(book, {1})
  BY DEF GitHubInv, Polled
<1>. QED BY <1>1, <1>2, <1>3, GitHubCommitsRow

\* A row whose changesets are acquired admits what is new.
LEMMA GitHubAcquired ==
    ASSUME GitHubInv, GitHub!Acquired
    PROVE  GitHubInv'
<1>. DEFINE E == GitHub!Eligible(poller.fetched)
            a == GitHub!AdmitAll(book, E, poller.fetched)
<1>1. GitHub!CommitRow(poller.fetched, a)
  BY DEF GitHub!Acquired
<1>2. book \in GitHub!BookType /\ Orderly(book, {1})
  BY DEF GitHubInv, Polled
<1>3. E \in SUBSET GitHub!NewlyEligible(poller.seen, poller.fetched, GitHub!Row)
  BY DEF GitHub!Eligible
<1>4. /\ a \in GitHub!BookType /\ Orderly(a, {1})
      /\ book.of \cup {<<p, poller.fetched[p]>> : p \in E} \subseteq a.of
  BY <1>2, <1>3, GitHubAdmitsEligible
<1>. HIDE DEF a
<1>5. {<<p, poller.fetched[p]>> : p \in GitHub!Eligible(poller.fetched)} \subseteq a.of
  BY <1>4
<1>. QED BY <1>1, <1>4, <1>5, GitHubCommitsRow

\* A baseline of the operator takes up what its snapshots show.
LEMMA GitHubOperatorCommits ==
    ASSUME GitHubInv, GitHub!OperatorCommits
    PROVE  GitHubInv'
<1>. DEFINE new == GitHub!OperatorFetched
<1>1. book' = book /\ poller' = poller
  BY DEF GitHub!OperatorCommits
<1>2. CASE UNCHANGED <<snapshot, absorbed>>
  BY <1>1, <1>2, GitHubTakesNothingUp DEF TakesNothingUp, GitHubInv, Polled
<1>3. CASE ~UNCHANGED <<snapshot, absorbed>>
  <2>1. /\ snapshot' = GitHub!Replaced(operator.rest, new, snapshot)
        /\ GitHub!Absorb(operator.rest, new)
    BY <1>3 DEF GitHub!OperatorCommits, GitHub!Store, GitHub!storeVars
  <2>. HIDE DEF new
  <2>2. absorbed \subseteq absorbed'
    BY <2>1 DEF GitHub!Absorb
  <2>3. ASSUME NEW p \in {1}, snapshot'[p] \in Revisions
        PROVE  <<p, snapshot'[p]>> \in book'.of \cup absorbed'
    <3>1. snapshot'[p] = IF 1 \in operator.rest THEN new[p] ELSE snapshot[p]
      BY <2>1 DEF GitHub!Replaced
    <3>2. CASE 1 \notin operator.rest
      BY <1>1, <2>2, <2>3, <3>1, <3>2 DEF GitHubInv, Polled, Known
    <3>3. CASE 1 \in operator.rest
      BY <2>1, <2>3, <3>1, <3>3 DEF GitHub!Absorb
    <3>. QED BY <3>2, <3>3
  <2>4. Known(snapshot, {1})'
    BY <2>3 DEF Known
  <2>5. Known(poller.seen, {1})'
    BY <1>1, <2>2 DEF GitHubInv, Polled, Known
  <2>. QED BY <1>1, <2>4, <2>5 DEF GitHubInv, Polled, Orderly
<1>. QED BY <1>2, <1>3

\* An Evaluation that ends leaves its associations.
LEMMA GitHubEndsEvaluation ==
    ASSUME GitHubInv, NEW e \in DOMAIN book.status, GitHub!EndEvaluation(e)
    PROVE  GitHubInv'
<1>1. /\ book.status \in [{1, 2} \X Revisions -> GitHub!EvaluationStatus]
      /\ book.of \subseteq {1} \X Revisions
      /\ book = [status |-> book.status, of |-> book.of]
  BY DEF GitHubInv, GitHub!BookType
<1>2. /\ book'.of = book.of
      /\ book' = [status |-> [book.status EXCEPT ![e] = "ended"], of |-> book.of]
  BY <1>1 DEF GitHub!EndEvaluation, GitHub!Ended
<1>3. /\ book'.status = [book.status EXCEPT ![e] = "ended"]
      /\ UNCHANGED <<snapshot, absorbed, poller>>
  BY <1>2 DEF GitHub!EndEvaluation, GitHub!storeVars, GitHub!processVars
<1>4. book' \in GitHub!BookType
  BY <1>1, <1>2 DEF GitHub!BookType, GitHub!EvaluationStatus
<1>5. \A x \in {1, 2} \X Revisions :
         book'.status[x] = book.status[x] \/ book'.status[x] = "ended"
  BY <1>1, <1>3
<1>6. Orderly(book', {1})
  BY <1>2, <1>5 DEF GitHubInv, Polled, Orderly
<1>7. Orderly(book, {1})'
  BY <1>6 DEF Orderly
<1>8. Known(snapshot, {1})' /\ Known(poller.seen, {1})'
  BY <1>2, <1>3 DEF GitHubInv, Polled, Known
<1>. QED BY <1>3, <1>4, <1>7, <1>8 DEF GitHubInv, Polled

\* Every other step takes nothing up.
LEMMA GitHubRounds ==
    ASSUME GitHubInv,
           \/ GitHub!StartRound \/ GitHub!CredentialFails \/ GitHub!Prepare
           \/ GitHub!FetchesOne \/ GitHub!BeginAcquisition \/ GitHub!AcquisitionRefused
           \/ \E f \in GitHub!FailureType : GitHub!FetchFails(f)
           \/ \E kind \in {"passing", "definitive"} : GitHub!AcquisitionFails(kind)
    PROVE  TakesNothingUp(GitHub!Nothing)
<1>. USE DEF GitHub!storeVars, GitHub!bookVars, GitHub!processVars, GitHub!healthVars
<1>1. "seen" \in DOMAIN poller
  BY DEF GitHubInv, Polled
<1>2. ASSUME NEW f, GitHub!RecordFailure(f)
      PROVE  TakesNothingUp(GitHub!Nothing)
  <2>1. poller' \in {GitHub!Idle, GitHub!Onwards} /\ UNCHANGED <<snapshot, book, absorbed>>
    BY <1>2 DEF GitHub!RecordFailure, GitHub!StoreFailure, GitHub!Halts
  <2>. QED BY <1>1, <2>1, GitHubGoesOn DEF TakesNothingUp
<1>3. CASE GitHub!StartRound
  BY <1>3 DEF GitHub!StartRound, GitHub!StartsRound, GitHub!Idle, TakesNothingUp
<1>4. CASE GitHub!CredentialFails
  BY <1>2, <1>4 DEF GitHub!CredentialFails
<1>5. CASE GitHub!Prepare
  <2>1. \/ poller' = GitHub!Idle
        \/ poller' = [poller EXCEPT !.phase = "fetching", !.ids = GitHub!Taken]
    BY <1>5 DEF GitHub!Prepare
  <2>2. "seen" \in DOMAIN poller' /\ poller'.seen \in {poller.seen, GitHub!Nothing}
    BY <1>1, <2>1, GitHubGoesOn
  <2>. QED BY <1>5, <2>2 DEF GitHub!Prepare, TakesNothingUp
<1>6. CASE GitHub!FetchesOne
  BY <1>1, <1>6 DEF GitHub!FetchesOne, TakesNothingUp
<1>7. CASE GitHub!BeginAcquisition
  BY <1>1, <1>7 DEF GitHub!BeginAcquisition, TakesNothingUp
<1>8. CASE GitHub!AcquisitionRefused
  BY <1>1, <1>8, GitHubGoesOn DEF GitHub!AcquisitionRefused, TakesNothingUp
<1>9. ASSUME NEW f \in GitHub!FailureType, GitHub!FetchFails(f)
      PROVE  TakesNothingUp(GitHub!Nothing)
  <2>1. CASE GitHub!RecordFailure([of |-> GitHub!Row, kind |-> "passing"])
    BY <1>2, <2>1
  <2>2. CASE ~GitHub!RecordFailure([of |-> GitHub!Row, kind |-> "passing"])
    <3>1. /\ poller' \in {GitHub!Idle, GitHub!Onwards}
          /\ UNCHANGED <<snapshot, book, absorbed>>
      BY <1>9, <2>2 DEF GitHub!FetchFails, GitHub!StoreFailure, GitHub!Halts
    <3>. QED BY <1>1, <3>1, GitHubGoesOn DEF TakesNothingUp
  <2>. QED BY <2>1, <2>2
<1>10. ASSUME NEW kind, GitHub!AcquisitionFails(kind)
       PROVE  TakesNothingUp(GitHub!Nothing)
  BY <1>2, <1>10 DEF GitHub!AcquisitionFails
<1>. QED BY <1>3, <1>4, <1>5, <1>6, <1>7, <1>8, <1>9, <1>10

\* Nor does a step outside the rounds.
LEMMA GitHubElsewhere ==
    ASSUME GitHubInv,
           \/ \E p \in {1}, v \in Revisions \cup {GitHub!Closed} : GitHub!Push(p, v)
           \/ \E r \in {1, 2} : GitHub!RowIsDue(r)
           \/ GitHub!GateOpens
           \/ \E R \in SUBSET {1, 2} \ {{}}, ph \in {"enabling", "rotating"} :
                GitHub!BeginOperation(ph, R)
           \/ GitHub!OperatorFetchesOne
           \/ \E f \in GitHub!FailureType : GitHub!EnablementFails(f) \/ GitHub!RotationFails(f)
           \/ \E r \in {1, 2} : GitHub!Disable(r, {1, 2})
           \/ GitHub!Restart
    PROVE  TakesNothingUp(GitHub!Nothing)
<1>1. UNCHANGED <<snapshot, book, absorbed>> /\ poller' \in {poller, GitHub!Idle}
  BY DEF GitHub!storeVars, GitHub!bookVars, GitHub!processVars, GitHub!Push, GitHub!RowIsDue,
     GitHub!GateOpens, GitHub!BeginOperation, GitHub!OperatorFetchesOne,
     GitHub!EnablementFails, GitHub!RotationFails, GitHub!Disable, GitHub!Restart
<1>. QED BY <1>1 DEF TakesNothingUp, GitHub!Idle, GitHubInv, Polled

\* Every step of the polls of GitHub, and none but those, concern them.
LEMMA GitHubStep ==
    ASSUME GitHubInv, GitHub!Next
    PROVE  GitHubInv'
BY GitHubFetchesLast, GitHubAcquired, GitHubOperatorCommits, GitHubEndsEvaluation,
   GitHubRounds, GitHubElsewhere, GitHubTakesNothingUp
   DEF GitHub!Next, GitHub!Environment, GitHub!Poll, GitHub!Operation

\* The invariant of the polls of Forgejo.
ForgejoInv == book \in Forgejo!BookType /\ Polled({1, 2})

\* An admission keeps the book orderly and adds its association.
LEMMA ForgejoAdmits ==
    ASSUME NEW b \in Forgejo!BookType, Orderly(b, {1, 2}), NEW p \in {1, 2}, NEW v \in Revisions
    PROVE  /\ Forgejo!Admit(b, p, v) \in Forgejo!BookType
           /\ Orderly(Forgejo!Admit(b, p, v), {1, 2})
           /\ b.of \cup {<<p, v>>} \subseteq Forgejo!Admit(b, p, v).of
<1>. DEFINE a == Forgejo!Admit(b, p, v)
<1>1. /\ b.status \in [{1} \X Revisions -> Forgejo!EvaluationStatus]
      /\ b.of \subseteq {1, 2} \X Revisions
  BY DEF Forgejo!BookType
<1>3. /\ a.of = b.of \cup {<<p, v>>}
      /\ a.status \in [{1} \X Revisions -> Forgejo!EvaluationStatus]
      /\ a = [status |-> a.status, of |-> a.of]
      /\ \A e \in {1} \X Revisions :
            /\ e \in {1} \X (Revisions \ {v}) /\ <<p, e[2]>> \in b.of /\ b.status[e] = "active"
                  => a.status[e] = "cancelled"
            /\ a.status[e] = b.status[e] \/ a.status[e] = "cancelled"
                 \/ (e = <<1, v>> /\ b.status[e] = "none" /\ a.status[e] = "active")
            /\ e = <<1, v>> => a.status[e] # "none"
  BY <1>1 DEF Forgejo!Admit, Forgejo!Superseded, Forgejo!EvaluationStatus
<1>. HIDE DEF a
<1>4. a \in Forgejo!BookType
  BY <1>1, <1>3 DEF Forgejo!BookType
<1>5. \A q \in {1, 2}, w \in Revisions : <<q, w>> \in a.of => a.status[<<1, w>>] # "none"
  BY <1>1, <1>3 DEF Orderly
<1>6. ASSUME NEW q \in {1, 2}, NEW w \in Revisions, NEW x \in Revisions,
             <<q, w>> \in a.of, a.status[<<1, w>>] = "active",
             <<q, x>> \in a.of, a.status[<<1, x>>] = "active"
      PROVE  w = x
  <2>1. \A y \in Revisions : a.status[<<1, y>>] = "active" =>
           \/ b.status[<<1, y>>] = "active"
           \/ y = v /\ b.status[<<1, y>>] = "none"
    BY <1>3
  <2>2. CASE q = p
    BY <1>3, <1>6, <2>1, <2>2 DEF Orderly
  <2>3. CASE q # p
    BY <1>3, <1>6, <2>1, <2>3 DEF Orderly
  <2>. QED BY <2>2, <2>3
<1>7. Orderly(a, {1, 2})
  BY <1>5, <1>6 DEF Orderly
<1>. QED BY <1>3, <1>4, <1>7 DEF a

\* All of a set are admitted in the order of their numbers.
LEMMA ForgejoAdmitsAll ==
    ASSUME NEW b, NEW P \in SUBSET {1, 2}, NEW current
    PROVE  Forgejo!AdmitAll(b, P, current) =
              CASE P = {} -> b
                [] P = {1} -> Forgejo!Admit(b, 1, current[1])
                [] P = {2} -> Forgejo!Admit(b, 2, current[2])
                [] OTHER -> Forgejo!Admit(Forgejo!Admit(b, 1, current[1]), 2, current[2])
<1>. DEFINE val(Q) == CASE Q = {} -> b
                [] Q = {1} -> Forgejo!Admit(b, 1, current[1])
                [] Q = {2} -> Forgejo!Admit(b, 2, current[2])
                [] OTHER -> Forgejo!Admit(Forgejo!Admit(b, 1, current[1]), 2, current[2])
            F(f) == [Q \in SUBSET P |->
               IF Q = {} THEN b
               ELSE LET p == Forgejo!Max(Q) IN Forgejo!Admit(f[Q \ {p}], p, current[p])]
            g == [Q \in SUBSET P |-> val(Q)]
            h == CHOOSE f : f = F(f)
<1>1. Forgejo!AdmitAll(b, P, current) = h[P]
  BY DEF Forgejo!AdmitAll
<1>2. Forgejo!Max({1}) = 1 /\ Forgejo!Max({2}) = 2 /\ Forgejo!Max({1, 2}) = 2
  BY DEF Forgejo!Max
<1>3. \A Q \in SUBSET P : Q = {} \/ Q = {1} \/ Q = {2} \/ Q = {1, 2}
  OBVIOUS
<1>4. /\ {1} \ {1} = {} /\ {2} \ {2} = {} /\ {1, 2} \ {2} = {1}
      /\ {1} # {} /\ {2} # {} /\ {1, 2} # {} /\ {1} # {2} /\ {1} # {1, 2} /\ {2} # {1, 2}
  OBVIOUS
<1>5. /\ val({}) = b /\ val({1}) = Forgejo!Admit(b, 1, current[1])
      /\ val({2}) = Forgejo!Admit(b, 2, current[2])
      /\ val({1, 2}) = Forgejo!Admit(Forgejo!Admit(b, 1, current[1]), 2, current[2])
  BY <1>4
<1>6. ASSUME NEW f, \A Q \in SUBSET P : f[Q] = val(Q), NEW Q \in SUBSET P
      PROVE  F(f)[Q] = val(Q)
  <2>. HIDE DEF val
  <2>1. CASE Q = {}
    BY <1>5, <2>1
  <2>2. CASE Q = {1}
    <3>1. F(f)[{1}] = Forgejo!Admit(f[{1} \ {1}], 1, current[1])
      BY <1>2, <1>4, <2>2
    <3>. QED BY <1>4, <1>5, <1>6, <2>2, <3>1
  <2>3. CASE Q = {2}
    <3>1. F(f)[{2}] = Forgejo!Admit(f[{2} \ {2}], 2, current[2])
      BY <1>2, <1>4, <2>3
    <3>. QED BY <1>4, <1>5, <1>6, <2>3, <3>1
  <2>4. CASE Q = {1, 2}
    <3>1. F(f)[{1, 2}] = Forgejo!Admit(f[{1, 2} \ {2}], 2, current[2])
      BY <1>2, <1>4, <2>4
    <3>2. {1} \in SUBSET P
      BY <2>4
    <3>3. f[{1, 2} \ {2}] = val({1})
      BY <1>4, <1>6, <3>2
    <3>. QED BY <1>5, <2>4, <3>1, <3>3
  <2>. QED BY <1>3, <2>1, <2>2, <2>3, <2>4
<1>7. \A Q \in SUBSET P : g[Q] = val(Q)
  OBVIOUS
<1>8. g = F(g)
  <2>1. \A Q \in SUBSET P : F(g)[Q] = val(Q)
    BY <1>6, <1>7
  <2>2. \A Q \in SUBSET P : F(g)[Q] = g[Q]
    BY <1>7, <2>1
  <2>3. F(g) = [Q \in SUBSET P |-> F(g)[Q]] /\ g = [Q \in SUBSET P |-> g[Q]]
    OBVIOUS
  <2>. QED BY <2>2, <2>3
<1>9. h = F(h)
  BY <1>8
<1>10. h = [Q \in SUBSET P |-> h[Q]] /\ \A Q \in SUBSET P : h[Q] = F(h)[Q]
  BY <1>9
<1>11. h[{}] = val({})
  BY <1>5, <1>9
<1>. HIDE DEF h, val
<1>12. {1} \in SUBSET P => h[{1}] = val({1})
  <2>1. SUFFICES ASSUME {1} \in SUBSET P PROVE h[{1}] = val({1})
    OBVIOUS
  <2>2. F(h)[{1}] = Forgejo!Admit(h[{1} \ {1}], 1, current[1])
    BY <1>2, <1>4, <2>1
  <2>. QED BY <1>4, <1>5, <1>10, <1>11, <2>1, <2>2
<1>13. {2} \in SUBSET P => h[{2}] = val({2})
  <2>1. SUFFICES ASSUME {2} \in SUBSET P PROVE h[{2}] = val({2})
    OBVIOUS
  <2>2. F(h)[{2}] = Forgejo!Admit(h[{2} \ {2}], 2, current[2])
    BY <1>2, <1>4, <2>1
  <2>. QED BY <1>4, <1>5, <1>10, <1>11, <2>1, <2>2
<1>14. {1, 2} \in SUBSET P => h[{1, 2}] = val({1, 2})
  <2>1. SUFFICES ASSUME {1, 2} \in SUBSET P PROVE h[{1, 2}] = val({1, 2})
    OBVIOUS
  <2>2. F(h)[{1, 2}] = Forgejo!Admit(h[{1, 2} \ {2}], 2, current[2])
    BY <1>2, <1>4, <2>1
  <2>3. {1} \in SUBSET P
    BY <2>1
  <2>. QED BY <1>4, <1>5, <1>10, <1>12, <2>1, <2>2, <2>3
<1>15. h[P] = val(P)
  BY <1>3, <1>11, <1>12, <1>13, <1>14
<1>. QED BY <1>1, <1>15 DEF val

\* So do those of whatever is eligible.
LEMMA ForgejoAdmitsEligible ==
    ASSUME NEW b \in Forgejo!BookType, Orderly(b, {1, 2}), NEW seen_, NEW new, NEW r,
           NEW P \in SUBSET Forgejo!NewlyEligible(seen_, new, r)
    PROVE  /\ Forgejo!AdmitAll(b, P, new) \in Forgejo!BookType
           /\ Orderly(Forgejo!AdmitAll(b, P, new), {1, 2})
           /\ b.of \cup {<<p, new[p]>> : p \in P} \subseteq Forgejo!AdmitAll(b, P, new).of
<1>1. P \in SUBSET {1, 2} /\ \A p \in P : new[p] \in Revisions
  BY DEF Forgejo!NewlyEligible, Forgejo!PullsOf
<1>2. CASE P = {}
  BY <1>1, <1>2, ForgejoAdmitsAll
<1>3. CASE P = {1}
  <2>1. {1} # {}
    OBVIOUS
  <2>2. Forgejo!AdmitAll(b, P, new) = Forgejo!Admit(b, 1, new[1])
    BY <1>1, <1>3, <2>1, ForgejoAdmitsAll
  <2>. QED BY <1>1, <1>3, <2>2, ForgejoAdmits
<1>4. CASE P = {2}
  <2>1. {2} # {} /\ {2} # {1}
    OBVIOUS
  <2>2. Forgejo!AdmitAll(b, P, new) = Forgejo!Admit(b, 2, new[2])
    BY <1>1, <1>4, <2>1, ForgejoAdmitsAll
  <2>. QED BY <1>1, <1>4, <2>2, ForgejoAdmits
<1>5. CASE P = {1, 2}
  <2>. DEFINE a == Forgejo!Admit(b, 1, new[1])
  <2>1. {1, 2} # {} /\ {1, 2} # {1} /\ {1, 2} # {2}
    OBVIOUS
  <2>2. Forgejo!AdmitAll(b, P, new) = Forgejo!Admit(a, 2, new[2])
    BY <1>1, <1>5, <2>1, ForgejoAdmitsAll
  <2>3. /\ a \in Forgejo!BookType /\ Orderly(a, {1, 2})
        /\ b.of \cup {<<1, new[1]>>} \subseteq a.of
    BY <1>1, <1>5, ForgejoAdmits
  <2>. HIDE DEF a
  <2>4. /\ Forgejo!Admit(a, 2, new[2]) \in Forgejo!BookType
        /\ Orderly(Forgejo!Admit(a, 2, new[2]), {1, 2})
        /\ a.of \cup {<<2, new[2]>>} \subseteq Forgejo!Admit(a, 2, new[2]).of
    BY <1>1, <1>5, <2>3, ForgejoAdmits
  <2>. QED BY <1>5, <2>2, <2>3, <2>4
<1>6. P = {} \/ P = {1} \/ P = {2} \/ P = {1, 2}
  BY <1>1
<1>. QED BY <1>2, <1>3, <1>4, <1>5, <1>6

\* How a round goes on: with the snapshots it compares with, or with none.
LEMMA ForgejoGoesOn ==
    ASSUME "seen" \in DOMAIN poller, poller' \in {Forgejo!Idle, Forgejo!Onwards}
    PROVE  "seen" \in DOMAIN poller' /\ poller'.seen \in {poller.seen, Forgejo!Nothing}
<1>1. "seen" \in DOMAIN Forgejo!Idle /\ Forgejo!Idle.seen = Forgejo!Nothing
  BY DEF Forgejo!Idle
<1>2. CASE poller' = Forgejo!Idle
  BY <1>1, <1>2
<1>3. CASE poller' = Forgejo!Onwards
  <2>. DEFINE rest == poller.rest \ {Forgejo!Row}
              next == [poller EXCEPT !.phase = "next", !.rest = rest, !.ids = {},
                                     !.fetched = Forgejo!Nothing]
  <2>1. poller' = IF rest = {} THEN Forgejo!Idle ELSE next
    BY <1>3 DEF Forgejo!Onwards
  <2>2. "seen" \in DOMAIN next /\ next.seen = poller.seen
    OBVIOUS
  <2>. HIDE DEF next, rest
  <2>. QED BY <1>1, <2>1, <2>2
<1>. QED BY <1>2, <1>3

\* A step that takes nothing up keeps the invariant.
LEMMA ForgejoTakesNothingUp ==
    ASSUME ForgejoInv, TakesNothingUp(Forgejo!Nothing)
    PROVE  ForgejoInv'
<1>1. Known(Forgejo!Nothing, {1, 2})
  BY RevisionsAssumption DEF Known, Forgejo!Nothing, Forgejo!Unseen, GitHub!Unseen
<1>2. Known(poller'.seen, {1, 2})
  BY <1>1 DEF ForgejoInv, Polled, TakesNothingUp
<1>3. book' = book /\ absorbed' = absorbed /\ snapshot' = snapshot
  BY DEF TakesNothingUp
<1>4. Known(snapshot, {1, 2})' /\ Known(poller.seen, {1, 2})'
  BY <1>2, <1>3 DEF ForgejoInv, Polled, Known
<1>. QED BY <1>3, <1>4 DEF ForgejoInv, Polled, Orderly, TakesNothingUp

\* The transaction that ends a row takes up what its snapshot shows.
LEMMA ForgejoCommitsRow ==
    ASSUME ForgejoInv, NEW new, NEW admitted \in Forgejo!BookType, Orderly(admitted, {1, 2}),
           book.of \subseteq admitted.of,
           Forgejo!Baseline \/ {<<p, new[p]>> : p \in Forgejo!Eligible(new)} \subseteq admitted.of,
           Forgejo!CommitRow(new, admitted)
    PROVE  ForgejoInv'
<1>1. CASE Forgejo!Fenced("poller")
  <2>1. TakesNothingUp(Forgejo!Nothing)
    BY <1>1 DEF Forgejo!CommitRow, Forgejo!Halts, Forgejo!Idle, Forgejo!storeVars,
         Forgejo!bookVars, TakesNothingUp
  <2>. QED BY <2>1, ForgejoTakesNothingUp
<1>2. CASE ~Forgejo!Fenced("poller")
  <2>1. /\ book' = admitted
        /\ snapshot' = Forgejo!Replaced(Forgejo!Taken, new, snapshot)
        /\ poller' \in {Forgejo!Idle, Forgejo!Onwards}
        /\ IF Forgejo!Baseline THEN Forgejo!Absorb(poller.unseen, new) ELSE absorbed' = absorbed
    BY <1>2 DEF Forgejo!CommitRow, Forgejo!Store
  <2>2. book.of \cup absorbed \subseteq book'.of \cup absorbed'
    BY <2>1 DEF Forgejo!Absorb
  <2>3. "seen" \in DOMAIN poller' /\ poller'.seen \in {poller.seen, Forgejo!Nothing}
    BY <2>1, ForgejoGoesOn DEF ForgejoInv, Polled
  <2>4. Known(poller.seen, {1, 2})'
    <3>1. Known(Forgejo!Nothing, {1, 2})
      BY RevisionsAssumption DEF Known, Forgejo!Nothing, Forgejo!Unseen, GitHub!Unseen
    <3>2. Known(poller'.seen, {1, 2})
      BY <2>3, <3>1 DEF ForgejoInv, Polled
    <3>. QED BY <2>2, <3>2 DEF Known
  <2>5. ASSUME NEW p \in {1, 2}, snapshot'[p] \in Revisions
        PROVE  <<p, snapshot'[p]>> \in book'.of \cup absorbed'
    <3>1. snapshot'[p] = IF 1 \in Forgejo!Taken THEN new[p] ELSE snapshot[p]
      BY <2>1 DEF Forgejo!Replaced
    <3>2. CASE 1 \notin Forgejo!Taken
      BY <2>2, <2>5, <3>1, <3>2 DEF ForgejoInv, Polled, Known
    <3>3. CASE 1 \in Forgejo!Taken /\ Forgejo!Baseline
      BY <2>1, <2>5, <3>1, <3>3 DEF Forgejo!Absorb, Forgejo!Taken
    <3>4. CASE 1 \in Forgejo!Taken /\ ~Forgejo!Baseline
      <4>1. Forgejo!Row = 1
        BY <3>4 DEF Forgejo!Taken
      <4>2. p \in Forgejo!Eligible(new) \/ poller.seen[p] = new[p]
        BY <2>5, <3>1, <3>4, <4>1 DEF Forgejo!Eligible, Forgejo!NewlyEligible, Forgejo!PullsOf
      <4>3. CASE p \in Forgejo!Eligible(new)
        BY <2>1, <3>1, <3>4, <4>3
      <4>4. CASE poller.seen[p] = new[p]
        BY <2>2, <2>5, <3>1, <3>4, <4>4 DEF ForgejoInv, Polled, Known
      <4>. QED BY <4>2, <4>3, <4>4
    <3>. QED BY <3>2, <3>3, <3>4
  <2>6. Known(snapshot, {1, 2})'
    BY <2>5 DEF Known
  <2>7. book' \in Forgejo!BookType /\ Orderly(book, {1, 2})'
    BY <2>1 DEF Orderly
  <2>. QED BY <2>3, <2>4, <2>6, <2>7 DEF ForgejoInv, Polled
<1>. QED BY <1>1, <1>2

\* The last row of a fetch commits what it read.
LEMMA ForgejoFetchesLast ==
    ASSUME ForgejoInv, Forgejo!FetchesLast
    PROVE  ForgejoInv'
<1>1. /\ Forgejo!Baseline \/ Forgejo!Eligible(Forgejo!Fetched) = {}
      /\ Forgejo!CommitRow(Forgejo!Fetched, book)
  BY DEF Forgejo!FetchesLast
<1>2. Forgejo!Baseline \/ {<<p, Forgejo!Fetched[p]>> : p \in Forgejo!Eligible(Forgejo!Fetched)}
                            \subseteq book.of
  BY <1>1
<1>3. book \in Forgejo!BookType /\ Orderly(book, {1, 2})
  BY DEF ForgejoInv, Polled
<1>. QED BY <1>1, <1>2, <1>3, ForgejoCommitsRow

\* A row whose changesets are acquired admits what is new.
LEMMA ForgejoAcquired ==
    ASSUME ForgejoInv, Forgejo!Acquired
    PROVE  ForgejoInv'
<1>. DEFINE E == Forgejo!Eligible(poller.fetched)
            a == Forgejo!AdmitAll(book, E, poller.fetched)
<1>1. Forgejo!CommitRow(poller.fetched, a)
  BY DEF Forgejo!Acquired
<1>2. book \in Forgejo!BookType /\ Orderly(book, {1, 2})
  BY DEF ForgejoInv, Polled
<1>3. E \in SUBSET Forgejo!NewlyEligible(poller.seen, poller.fetched, Forgejo!Row)
  BY DEF Forgejo!Eligible
<1>4. /\ a \in Forgejo!BookType /\ Orderly(a, {1, 2})
      /\ book.of \cup {<<p, poller.fetched[p]>> : p \in E} \subseteq a.of
  BY <1>2, <1>3, ForgejoAdmitsEligible
<1>. HIDE DEF a
<1>5. {<<p, poller.fetched[p]>> : p \in Forgejo!Eligible(poller.fetched)} \subseteq a.of
  BY <1>4
<1>. QED BY <1>1, <1>4, <1>5, ForgejoCommitsRow

\* A baseline of the operator takes up what its snapshots show.
LEMMA ForgejoOperatorCommits ==
    ASSUME ForgejoInv, Forgejo!OperatorCommits
    PROVE  ForgejoInv'
<1>. DEFINE new == Forgejo!OperatorFetched
<1>1. book' = book /\ poller' = poller
  BY DEF Forgejo!OperatorCommits
<1>2. CASE UNCHANGED <<snapshot, absorbed>>
  BY <1>1, <1>2, ForgejoTakesNothingUp DEF TakesNothingUp, ForgejoInv, Polled
<1>3. CASE ~UNCHANGED <<snapshot, absorbed>>
  <2>1. /\ snapshot' = Forgejo!Replaced(operator.rest, new, snapshot)
        /\ Forgejo!Absorb(operator.rest, new)
    BY <1>3 DEF Forgejo!OperatorCommits, Forgejo!Store, Forgejo!storeVars
  <2>. HIDE DEF new
  <2>2. absorbed \subseteq absorbed'
    BY <2>1 DEF Forgejo!Absorb
  <2>3. ASSUME NEW p \in {1, 2}, snapshot'[p] \in Revisions
        PROVE  <<p, snapshot'[p]>> \in book'.of \cup absorbed'
    <3>1. snapshot'[p] = IF 1 \in operator.rest THEN new[p] ELSE snapshot[p]
      BY <2>1 DEF Forgejo!Replaced
    <3>2. CASE 1 \notin operator.rest
      BY <1>1, <2>2, <2>3, <3>1, <3>2 DEF ForgejoInv, Polled, Known
    <3>3. CASE 1 \in operator.rest
      BY <2>1, <2>3, <3>1, <3>3 DEF Forgejo!Absorb
    <3>. QED BY <3>2, <3>3
  <2>4. Known(snapshot, {1, 2})'
    BY <2>3 DEF Known
  <2>5. Known(poller.seen, {1, 2})'
    BY <1>1, <2>2 DEF ForgejoInv, Polled, Known
  <2>. QED BY <1>1, <2>4, <2>5 DEF ForgejoInv, Polled, Orderly
<1>. QED BY <1>2, <1>3

\* An Evaluation that ends leaves its associations.
LEMMA ForgejoEndsEvaluation ==
    ASSUME ForgejoInv, NEW e \in DOMAIN book.status, Forgejo!EndEvaluation(e)
    PROVE  ForgejoInv'
<1>1. /\ book.status \in [{1} \X Revisions -> Forgejo!EvaluationStatus]
      /\ book.of \subseteq {1, 2} \X Revisions
      /\ book = [status |-> book.status, of |-> book.of]
  BY DEF ForgejoInv, Forgejo!BookType
<1>2. /\ book'.of = book.of
      /\ book' = [status |-> [book.status EXCEPT ![e] = "ended"], of |-> book.of]
  BY <1>1 DEF Forgejo!EndEvaluation, Forgejo!Ended
<1>3. /\ book'.status = [book.status EXCEPT ![e] = "ended"]
      /\ UNCHANGED <<snapshot, absorbed, poller>>
  BY <1>2 DEF Forgejo!EndEvaluation, Forgejo!storeVars, Forgejo!processVars
<1>4. book' \in Forgejo!BookType
  BY <1>1, <1>2 DEF Forgejo!BookType, Forgejo!EvaluationStatus
<1>5. \A x \in {1} \X Revisions :
         book'.status[x] = book.status[x] \/ book'.status[x] = "ended"
  BY <1>1, <1>3
<1>6. Orderly(book', {1, 2})
  BY <1>2, <1>5 DEF ForgejoInv, Polled, Orderly
<1>7. Orderly(book, {1, 2})'
  BY <1>6 DEF Orderly
<1>8. Known(snapshot, {1, 2})' /\ Known(poller.seen, {1, 2})'
  BY <1>2, <1>3 DEF ForgejoInv, Polled, Known
<1>. QED BY <1>3, <1>4, <1>7, <1>8 DEF ForgejoInv, Polled

\* A failure of the acquisition admits what was acquired nevertheless.
LEMMA ForgejoAcquisitionFails ==
    ASSUME ForgejoInv, NEW P \in SUBSET {1, 2}, NEW kind, Forgejo!AcquisitionFails(P, kind)
    PROVE  ForgejoInv'
<1>. DEFINE E == Forgejo!Eligible(poller.fetched)
            a == Forgejo!AdmitAll(book, E \ P, poller.fetched)
<1>1. book \in Forgejo!BookType /\ Orderly(book, {1, 2})
  BY DEF ForgejoInv, Polled
<1>2. /\ a \in Forgejo!BookType /\ Orderly(a, {1, 2}) /\ book.of \subseteq a.of
  <2>1. E \ P \in SUBSET Forgejo!NewlyEligible(poller.seen, poller.fetched, Forgejo!Row)
    BY DEF Forgejo!Eligible
  <2>. HIDE DEF E
  <2>. QED BY <1>1, <2>1, ForgejoAdmitsEligible
<1>. DEFINE f == [of |-> Forgejo!Row, kind |-> kind]
            again == [f EXCEPT !.kind = "limited"]
<1>3. Forgejo!CommitFailure(f, a) \/ Forgejo!CommitFailure(again, book)
  BY DEF Forgejo!AcquisitionFails
<1>. HIDE DEF a, f, again
<1>4. PICK g : \E b \in {a, book} : Forgejo!CommitFailure(g, b)
  BY <1>3
<1>5. /\ UNCHANGED <<snapshot, absorbed>> /\ poller' \in {Forgejo!Idle, Forgejo!Onwards}
      /\ book' \in {a, book}
  BY <1>4 DEF Forgejo!CommitFailure, Forgejo!Halts, Forgejo!StoreFailure, Forgejo!storeVars,
     Forgejo!bookVars
<1>6. book' \in Forgejo!BookType /\ Orderly(book', {1, 2}) /\ book.of \subseteq book'.of
  BY <1>1, <1>2, <1>5
<1>7. "seen" \in DOMAIN poller' /\ poller'.seen \in {poller.seen, Forgejo!Nothing}
  BY <1>5, ForgejoGoesOn DEF ForgejoInv, Polled
<1>8. Known(Forgejo!Nothing, {1, 2})
  BY RevisionsAssumption DEF Known, Forgejo!Nothing, Forgejo!Unseen, GitHub!Unseen
<1>9. Known(poller'.seen, {1, 2})
  BY <1>7, <1>8 DEF ForgejoInv, Polled
<1>10. Known(snapshot, {1, 2})' /\ Known(poller.seen, {1, 2})'
  BY <1>5, <1>6, <1>9 DEF ForgejoInv, Polled, Known
<1>11. Orderly(book, {1, 2})'
  BY <1>6 DEF Orderly
<1>. QED BY <1>6, <1>7, <1>10, <1>11 DEF ForgejoInv, Polled

\* Every other step takes nothing up.
LEMMA ForgejoRounds ==
    ASSUME ForgejoInv,
           \/ Forgejo!StartRound \/ Forgejo!CredentialFails \/ Forgejo!Prepare
           \/ \E f \in Forgejo!FailureType : Forgejo!MeetsGate(f)
           \/ Forgejo!FetchesOne \/ Forgejo!BeginAcquisition
           \/ \E kind \in {"limited", "repository", "connection"} : Forgejo!FetchFails(kind)
    PROVE  TakesNothingUp(Forgejo!Nothing)
<1>. USE DEF Forgejo!storeVars, Forgejo!bookVars, Forgejo!processVars, Forgejo!healthVars
<1>1. "seen" \in DOMAIN poller
  BY DEF ForgejoInv, Polled
<1>2. ASSUME NEW f, Forgejo!RecordFailure(f)
      PROVE  TakesNothingUp(Forgejo!Nothing)
  <2>1. poller' \in {Forgejo!Idle, Forgejo!Onwards} /\ UNCHANGED <<snapshot, book, absorbed>>
    BY <1>2 DEF Forgejo!RecordFailure, Forgejo!StoreFailure, Forgejo!Halts
  <2>. QED BY <1>1, <2>1, ForgejoGoesOn DEF TakesNothingUp
<1>3. CASE Forgejo!StartRound
  BY <1>3 DEF Forgejo!StartRound, Forgejo!StartsRound, Forgejo!Idle, TakesNothingUp
<1>4. CASE Forgejo!CredentialFails
  BY <1>2, <1>4 DEF Forgejo!CredentialFails
<1>5. CASE Forgejo!Prepare
  BY <1>1, <1>5 DEF Forgejo!Prepare, Forgejo!Idle, TakesNothingUp
<1>6. ASSUME NEW f, Forgejo!MeetsGate(f)
      PROVE  TakesNothingUp(Forgejo!Nothing)
  BY <1>2, <1>6 DEF Forgejo!MeetsGate
<1>7. CASE Forgejo!FetchesOne
  BY <1>1, <1>7 DEF Forgejo!FetchesOne, TakesNothingUp
<1>8. CASE Forgejo!BeginAcquisition
  BY <1>1, <1>8 DEF Forgejo!BeginAcquisition, TakesNothingUp
<1>9. ASSUME NEW kind, Forgejo!FetchFails(kind)
      PROVE  TakesNothingUp(Forgejo!Nothing)
  <2>1. /\ poller' \in {Forgejo!Idle, Forgejo!Onwards}
        /\ UNCHANGED <<snapshot, book, absorbed>>
    BY <1>9 DEF Forgejo!FetchFails, Forgejo!CommitFailure, Forgejo!StoreFailure, Forgejo!Halts
  <2>. QED BY <1>1, <2>1, ForgejoGoesOn DEF TakesNothingUp
<1>. QED BY <1>3, <1>4, <1>5, <1>6, <1>7, <1>8, <1>9

\* Nor does a step outside the rounds.
LEMMA ForgejoElsewhere ==
    ASSUME ForgejoInv,
           \/ \E p \in {1, 2}, v \in Revisions \cup {Forgejo!Closed} : Forgejo!Push(p, v)
           \/ \E r \in {1} : Forgejo!RowIsDue(r)
           \/ Forgejo!GateOpens
           \/ \E r \in {1} : Forgejo!BeginEnablement(r)
           \/ Forgejo!OperatorFetchesOne
           \/ \E f \in Forgejo!FailureType, b \in BOOLEAN : Forgejo!EnablementFails(f, b)
           \/ \E r \in {1} : Forgejo!Disable(r, operator.rest)
           \/ Forgejo!Restart
    PROVE  TakesNothingUp(Forgejo!Nothing)
<1>1. UNCHANGED <<snapshot, book, absorbed>> /\ poller' \in {poller, Forgejo!Idle}
  BY DEF Forgejo!storeVars, Forgejo!bookVars, Forgejo!processVars, Forgejo!Push,
     Forgejo!RowIsDue, Forgejo!GateOpens, Forgejo!BeginEnablement, Forgejo!OperatorFetchesOne,
     Forgejo!EnablementFails, Forgejo!StoreFailure, Forgejo!Disable, Forgejo!Restart
<1>. QED BY <1>1 DEF TakesNothingUp, Forgejo!Idle, ForgejoInv, Polled

\* Every step of the polls of Forgejo, and none but those, concern them.
LEMMA ForgejoStep ==
    ASSUME ForgejoInv, Forgejo!Next
    PROVE  ForgejoInv'
BY ForgejoFetchesLast, ForgejoAcquired, ForgejoAcquisitionFails, ForgejoOperatorCommits,
   ForgejoEndsEvaluation, ForgejoRounds, ForgejoElsewhere, ForgejoTakesNothingUp
   DEF Forgejo!Next, Forgejo!Environment, Forgejo!Poll, Forgejo!Operation

\* At the start nothing was seen that is open.
LEMMA PollsInit ==
    ASSUME Init
    PROVE  /\ subject = "GitHub polls" => GitHubInv
           /\ subject = "Forgejo polls" => ForgejoInv
<1>1. ASSUME subject = "GitHub polls" PROVE GitHubInv
  <2>1. /\ book = GitHub!EmptyBook /\ absorbed = {} /\ poller = GitHub!Idle
        /\ snapshot \in {[p \in {1} |-> GitHub!Closed], GitHub!Nothing}
    BY <1>1 DEF Init, GitHub!Init, GitHub!InitWith
  <2>2. book \in GitHub!BookType /\ Orderly(book, {1})
    BY <2>1 DEF GitHub!EmptyBook, GitHub!BookType, GitHub!EvaluationStatus, Orderly
  <2>3. "seen" \in DOMAIN poller /\ poller.seen = GitHub!Nothing
    BY <2>1 DEF GitHub!Idle
  <2>4. Known(snapshot, {1}) /\ Known(poller.seen, {1})
    BY <2>1, <2>3, RevisionsAssumption
       DEF Known, GitHub!Nothing, GitHub!Unseen, GitHub!Closed
  <2>. QED BY <2>2, <2>3, <2>4 DEF GitHubInv, Polled
<1>2. ASSUME subject = "Forgejo polls" PROVE ForgejoInv
  <2>1. /\ book = Forgejo!EmptyBook /\ absorbed = {} /\ poller = Forgejo!Idle
        /\ snapshot \in {[p \in {1, 2} |-> Forgejo!Closed], Forgejo!Nothing}
    BY <1>2 DEF Init, Forgejo!Init, Forgejo!InitWith
  <2>2. book \in Forgejo!BookType /\ Orderly(book, {1, 2})
    BY <2>1 DEF Forgejo!EmptyBook, Forgejo!BookType, Forgejo!EvaluationStatus, Orderly
  <2>3. "seen" \in DOMAIN poller /\ poller.seen = Forgejo!Nothing
    BY <2>1 DEF Forgejo!Idle
  <2>4. Known(snapshot, {1, 2}) /\ Known(poller.seen, {1, 2})
    BY <2>1, <2>3, RevisionsAssumption
       DEF Known, Forgejo!Nothing, Forgejo!Unseen, Forgejo!Closed, GitHub!Unseen, GitHub!Closed
  <2>. QED BY <2>2, <2>3, <2>4 DEF ForgejoInv, Polled
<1>. QED BY <1>1, <1>2

\* A set without two different members has at most one.
LEMMA AtMostOne ==
    ASSUME NEW S, \A v, w \in S : v = w
    PROVE  /\ GitHub!Cardinality(S) <= 1
           /\ Forgejo!Cardinality(S) <= 1
<1>1. Cardinality(S) = 0 \/ Cardinality(S) = 1
  <2>1. CASE S = {}
    BY <2>1, FS_EmptySet
  <2>2. CASE S # {}
    <3>1. PICK v \in S : S = {v}
      BY <2>2
    <3>. QED BY <3>1, FS_Singleton
  <2>. QED BY <2>1, <2>2
<1>2. GitHub!Cardinality(S) = Cardinality(S) /\ Forgejo!Cardinality(S) = Cardinality(S)
  BY DEF GitHub!Cardinality, Forgejo!Cardinality, Cardinality
<1>. QED BY <1>1, <1>2

\* A stored snapshot hides no revision from the poller of either forge, and a
\* pull request has one automatic Evaluation under way: what the poller
\* compares with was itself admitted or absorbed, however stale it is, so what
\* a row stores is known or eligible (commitSuccess of github-polling-state.ts
\* and of forgejo-polling-state.ts, and the baselines of the operator).
THEOREM RevisionsAdmitted == Spec => []RevisionsAreAdmittedOnce
<1>. DEFINE Inv == /\ subject = "GitHub polls" => GitHubInv
                   /\ subject = "Forgejo polls" => ForgejoInv
<1>1. Init => Inv
  BY PollsInit
<1>2. Inv /\ [Next]_all => Inv'
  <2>. SUFFICES ASSUME Inv, [Next]_all PROVE Inv'
    OBVIOUS
  <2>1. ASSUME AtGitHub(GitHub!Next) PROVE Inv'
    BY <2>1, GitHubStep DEF AtGitHub
  <2>2. ASSUME AtForgejo(Forgejo!Next) PROVE Inv'
    BY <2>2, ForgejoStep DEF AtForgejo
  <2>3. ASSUME subject \notin {"GitHub polls", "Forgejo polls"}, UNCHANGED subject PROVE Inv'
    BY <2>3
  <2>4. CASE UNCHANGED all
    <3>1. UNCHANGED <<subject, book, absorbed, snapshot, poller>>
      BY <2>4 DEF all, pollVars
    <3>. QED BY <3>1, GitHubTakesNothingUp, ForgejoTakesNothingUp
             DEF TakesNothingUp, GitHubInv, ForgejoInv, Polled
  <2>. QED
    BY <2>1, <2>2, <2>3, <2>4 DEF Next, OfChannel, OfStorage, OfBackup, OfRestore
<1>3. Inv => RevisionsAreAdmittedOnce
  <2>1. ASSUME GitHubInv PROVE GitHub!NoRevisionIsMissed /\ GitHub!OneActivePerPull
    <3>1. GitHub!NoRevisionIsMissed
      BY <2>1 DEF GitHub!NoRevisionIsMissed, GitHubInv, Polled, Known
    <3>2. ASSUME NEW p \in {1}
          PROVE  GitHub!Cardinality({v \in Revisions :
                     <<p, v>> \in book.of /\ book.status[<<1, v>>] = "active"}) <= 1
      BY <2>1, AtMostOne DEF GitHubInv, Polled, Orderly
    <3>. QED BY <3>1, <3>2 DEF GitHub!OneActivePerPull
  <2>2. ASSUME ForgejoInv PROVE Forgejo!NoRevisionIsMissed /\ Forgejo!OneActivePerPull
    <3>1. Forgejo!NoRevisionIsMissed
      BY <2>2 DEF Forgejo!NoRevisionIsMissed, ForgejoInv, Polled, Known
    <3>2. ASSUME NEW p \in {1, 2}
          PROVE  Forgejo!Cardinality({v \in Revisions :
                     <<p, v>> \in book.of /\ book.status[<<1, v>>] = "active"}) <= 1
      BY <2>2, AtMostOne DEF ForgejoInv, Polled, Orderly
    <3>. QED BY <3>1, <3>2 DEF Forgejo!OneActivePerPull
  <2>. QED BY <2>1, <2>2 DEF RevisionsAreAdmittedOnce
<1>. QED BY <1>1, <1>2, <1>3, PTL DEF Spec

-----------------------------------------------------------------------------
(***************************************************************************)
(* The storage reserve and its cleanup                                     *)
(***************************************************************************)
RowTypes ==
    /\ queue \in [Works -> Storage!Row]
    /\ executors \in [Storage!Claims -> Storage!Phases]
    /\ checkouts \subseteq Storage!Claims

\* An executor works for a row that is known and was claimed no later than it
\* says; a started one for the last claim of the row, until the row ends.  The
\* one that holds its claim has its attempt on record and, once it cloned, its
\* checkout.
Kept(c) ==
    LET row == queue[c[1]]
    IN  /\ executors[c] # "none" => row.status # "absent" /\ c[2] <= row.token
        /\ executors[c] = "started" =>
              row.status = "terminal" \/ (row.status = "running" /\ row.token = c[2])
        /\ executors[c] \in {"begun", "cloning", "ready"} /\ Storage!Holds(c) =>
              row.attempt # "none"
        /\ executors[c] \in {"cloning", "ready"} /\ Storage!Holds(c) => c \in checkouts
        /\ executors[c] = "started" /\ row.status = "running" => c \in checkouts

StorageInv ==
    /\ up \/ executors = Storage!Halted
    /\ \A c \in Storage!Claims : Kept(c)

-----------------------------------------------------------------------------
\* The fields of a row have their types.
LEMMA RowFields ==
    ASSUME NEW row \in Storage!Row
    PROVE  /\ row.status \in Storage!Statuses /\ row.token \in 0 .. MaxToken
           /\ row.lease \in {"free", "held", "lapsed"}
           /\ row.attempt \in {"none", "open", "old"}
BY DEF Storage!Row

\* A claim is of a work and has a token.
LEMMA ClaimParts ==
    ASSUME NEW c \in Storage!Claims
    PROVE  c[1] \in Works /\ c[2] \in 1 .. MaxToken /\ c = <<c[1], c[2]>>
BY DEF Storage!Claims

\* Retention touches nothing but old attempts, and never the open one of a
\* claim that has not started (cleanupEligibleRetentionData).
LEMMA RetainedRows ==
    ASSUME RowTypes
    PROVE  /\ Storage!Retained \in [Works -> Storage!Row]
           /\ \A w \in Works :
                 /\ Storage!Retained[w].status = queue[w].status
                 /\ Storage!Retained[w].token = queue[w].token
                 /\ Storage!Retained[w].lease = queue[w].lease
                 /\ queue[w].status = "queued" /\ queue[w].lease = "held" =>
                       Storage!Retained[w].attempt = queue[w].attempt
<1>1. SUFFICES ASSUME NEW w \in Works
               PROVE  LET stays == IF Storage!Expires(queue[w])
                                  THEN [queue[w] EXCEPT !.attempt = "none"] ELSE queue[w]
                      IN  /\ stays \in Storage!Row
                          /\ stays.status = queue[w].status /\ stays.token = queue[w].token
                          /\ stays.lease = queue[w].lease
                          /\ queue[w].status = "queued" /\ queue[w].lease = "held" =>
                                stays.attempt = queue[w].attempt
  BY DEF Storage!Retained
<1>2. queue[w] \in Storage!Row
  BY DEF RowTypes
<1>3. CASE Storage!Expires(queue[w])
  <2>1. ~(queue[w].status = "queued" /\ queue[w].lease # "free")
    BY <1>3 DEF Storage!Expires
  <2>. QED BY <1>2, <1>3, <2>1 DEF Storage!Row
<1>4. CASE ~Storage!Expires(queue[w])
  BY <1>2, <1>4
<1>. QED BY <1>3, <1>4

\* A row that is replaced leaves the others.
LEMMA RowsWith ==
    ASSUME NEW rs \in [Works -> Storage!Row], NEW w \in Works, NEW row \in Storage!Row
    PROVE  /\ [rs EXCEPT ![w] = row] \in [Works -> Storage!Row]
           /\ [rs EXCEPT ![w] = row][w] = row
           /\ \A v \in Works : v # w => [rs EXCEPT ![w] = row][v] = rs[v]
OBVIOUS

\* An executor that goes on leaves the others.
LEMMA ExecutorsWith ==
    ASSUME RowTypes, NEW c \in Storage!Claims, NEW there \in Storage!Phases,
           executors' = [executors EXCEPT ![c] = there]
    PROVE  /\ executors' \in [Storage!Claims -> Storage!Phases]
           /\ executors'[c] = there
           /\ \A d \in Storage!Claims : d # c => executors'[d] = executors[d]
BY DEF RowTypes

\* A step that keeps every executor or leaves it none, every row but for its
\* old attempt, and every checkout but the removable ones (CleanUp, whoever
\* calls it).
LEMMA SweepKeeps ==
    ASSUME RowTypes, StorageInv,
           queue' = queue \/ queue' = Storage!Retained,
           checkouts \ Storage!Removable(queue) \subseteq checkouts',
           checkouts' \subseteq checkouts,
           \/ executors' = executors /\ up' = up
           \/ executors' = Storage!Halted /\ up' \in BOOLEAN
    PROVE  RowTypes' /\ StorageInv'
<1>1. /\ queue' \in [Works -> Storage!Row]
      /\ \A w \in Works :
            /\ queue'[w].status = queue[w].status /\ queue'[w].token = queue[w].token
            /\ queue'[w].lease = queue[w].lease
            /\ queue[w].status = "queued" /\ queue[w].lease = "held" =>
                  queue'[w].attempt = queue[w].attempt
  BY RetainedRows DEF RowTypes
<1>2. RowTypes'
  BY <1>1 DEF RowTypes, Storage!Halted, Storage!Phases
<1>3. ASSUME NEW c \in Storage!Claims PROVE Kept(c)'
  <2>1. CASE executors'[c] = executors[c]
    <3>1. Kept(c) /\ c[1] \in Works /\ c[2] \in 1 .. MaxToken
      BY ClaimParts DEF StorageInv
    <3>2. queue[c[1]].token \in 0 .. MaxToken
      BY <3>1, RowFields DEF RowTypes
    <3>3. /\ queue'[c[1]].status = queue[c[1]].status
          /\ queue'[c[1]].token = queue[c[1]].token
          /\ queue'[c[1]].lease = queue[c[1]].lease
          /\ queue[c[1]].status = "queued" /\ queue[c[1]].lease = "held" =>
                queue'[c[1]].attempt = queue[c[1]].attempt
      BY <1>1, <3>1
    <3>4. /\ c \in checkouts /\ queue[c[1]].status \notin {"absent", "terminal"}
             /\ queue[c[1]].token = c[2] => c \in checkouts'
      BY <3>1, <3>2 DEF Storage!Removable
    <3>. QED BY <2>1, <3>1, <3>2, <3>3, <3>4 DEF Kept, Storage!Holds
  <2>2. CASE executors'[c] = "none"
    BY <2>2 DEF Kept
  <2>. QED BY <2>1, <2>2 DEF Storage!Halted
<1>4. up' \/ executors' = Storage!Halted
  BY DEF StorageInv
<1>. QED BY <1>2, <1>3, <1>4 DEF StorageInv, Storage!Halted

\* An executor that does not move stays kept when its row keeps its fields and
\* its checkout is not one the cleanup may remove.
LEMMA ClaimKeeps ==
    ASSUME RowTypes, NEW c \in Storage!Claims, Kept(c),
           executors'[c] = executors[c],
           queue'[c[1]].status = queue[c[1]].status,
           queue'[c[1]].token = queue[c[1]].token,
           queue'[c[1]].lease = queue[c[1]].lease,
           queue[c[1]].status = "queued" /\ queue[c[1]].lease = "held" =>
               (queue[c[1]].attempt # "none" => queue'[c[1]].attempt # "none"),
           c \in checkouts /\ c \notin Storage!Removable(queue) => c \in checkouts'
    PROVE  Kept(c)'
<1>1. queue[c[1]].token \in 0 .. MaxToken /\ c[2] \in 1 .. MaxToken
  BY RowFields, ClaimParts DEF RowTypes
<1>2. c \in checkouts /\ queue[c[1]].status \notin {"absent", "terminal"}
         /\ queue[c[1]].token = c[2] => c \in checkouts'
  BY <1>1 DEF Storage!Removable
<1>. QED BY <1>1, <1>2 DEF Kept, Storage!Holds

\* A step of one row: the executors of the others stay.
LEMMA OneRowKeeps ==
    ASSUME RowTypes, StorageInv, RowTypes', up, up' = up, NEW w \in Works,
           \A v \in Works : v # w =>
               /\ queue'[v].status = queue[v].status
               /\ queue'[v].token = queue[v].token
               /\ queue'[v].lease = queue[v].lease
               /\ queue[v].status = "queued" /\ queue[v].lease = "held" =>
                     queue'[v].attempt = queue[v].attempt,
           \A d \in Storage!Claims : d[1] # w =>
               /\ executors'[d] = executors[d]
               /\ d \in checkouts /\ d \notin Storage!Removable(queue) => d \in checkouts',
           \A d \in Storage!Claims : d[1] = w => Kept(d)'
    PROVE  StorageInv'
<1>1. ASSUME NEW d \in Storage!Claims, d[1] # w PROVE Kept(d)'
  <2>1. Kept(d) /\ d[1] \in Works
    BY ClaimParts DEF StorageInv
  <2>. QED BY <1>1, <2>1, ClaimKeeps
<1>. QED BY <1>1 DEF StorageInv

\* The rows a step writes are rows.
LEMMA RowValues ==
    /\ Storage!NoRow \in Storage!Row /\ Storage!Queued \in Storage!Row
    /\ \A row \in Storage!Row :
          /\ \A token \in 0 .. MaxToken :
                [row EXCEPT !.token = token, !.lease = "held", !.attempt = "none"]
                    \in Storage!Row
          /\ [row EXCEPT !.lease = "lapsed"] \in Storage!Row
          /\ [row EXCEPT !.attempt = "open"] \in Storage!Row
          /\ [row EXCEPT !.attempt = "old"] \in Storage!Row
          /\ [row EXCEPT !.lease = "free", !.attempt = "none"] \in Storage!Row
          /\ [row EXCEPT !.status = "running", !.lease = "free", !.attempt = "none"]
                \in Storage!Row
          /\ [row EXCEPT !.status = "terminal", !.lease = "free", !.attempt = "none"]
                \in Storage!Row
          /\ [row EXCEPT !.status = "terminal"] \in Storage!Row
<1>1. Storage!NoRow \in Storage!Row /\ Storage!Queued \in Storage!Row
  BY TokenAssumption DEF Storage!NoRow, Storage!Queued, Storage!Row, Storage!Statuses
<1>. QED BY <1>1 DEF Storage!Row, Storage!Statuses

-----------------------------------------------------------------------------
\* A claim takes the row with a new token; the executors of earlier claims hold
\* nothing any more (Claim).
LEMMA ClaimStep ==
    ASSUME RowTypes, StorageInv, NEW w \in Works, Storage!Claim(w)
    PROVE  RowTypes' /\ StorageInv'
<1>. DEFINE token == queue[w].token + 1
<1>1. /\ up /\ up' = up /\ checkouts' = checkouts
      /\ queue[w].status = "queued" /\ queue[w].lease # "held" /\ token <= MaxToken
      /\ queue' = [queue EXCEPT ![w] =
                      [@ EXCEPT !.token = token, !.lease = "held", !.attempt = "none"]]
      /\ executors' = [executors EXCEPT ![<<w, token>>] = "claimed"]
  BY DEF Storage!Claim, RowTypes
<1>2. queue[w] \in Storage!Row /\ queue[w].token \in 0 .. MaxToken
  BY RowFields DEF RowTypes
<1>3. token \in 1 .. MaxToken /\ token \in 0 .. MaxToken
  BY <1>1, <1>2
<1>4. <<w, token>> \in Storage!Claims /\ "claimed" \in Storage!Phases
  BY <1>3 DEF Storage!Claims, Storage!Phases
<1>5. /\ queue' \in [Works -> Storage!Row]
      /\ queue'[w] = [queue[w] EXCEPT !.token = token, !.lease = "held", !.attempt = "none"]
      /\ \A v \in Works : v # w => queue'[v] = queue[v]
  BY <1>1, <1>2, <1>3, RowValues DEF RowTypes
<1>6. /\ executors' \in [Storage!Claims -> Storage!Phases]
      /\ executors'[<<w, token>>] = "claimed"
      /\ \A d \in Storage!Claims : d # <<w, token>> => executors'[d] = executors[d]
  BY <1>1, <1>4, ExecutorsWith
<1>7. queue'[w].status = "queued" /\ queue'[w].token = token /\ queue'[w].lease = "held"
  BY <1>1, <1>2, <1>5 DEF Storage!Row
<1>8. ASSUME NEW d \in Storage!Claims, d[1] = w PROVE Kept(d)'
  <2>1. Kept(d) /\ d[2] \in 1 .. MaxToken
    BY ClaimParts DEF StorageInv
  <2>2. CASE d = <<w, token>>
    BY <2>2, <1>6, <1>7, <1>8, <1>2 DEF Kept
  <2>3. CASE d # <<w, token>>
    <3>1. d[2] # token
      BY <2>3, <1>8, ClaimParts
    <3>. QED BY <3>1, <2>1, <2>3, <1>1, <1>2, <1>6, <1>7, <1>8 DEF Kept, Storage!Holds
  <2>. QED BY <2>2, <2>3
<1>9. RowTypes'
  BY <1>1, <1>5, <1>6 DEF RowTypes
<1>. QED
  <2>1. \A d \in Storage!Claims : d[1] # w => executors'[d] = executors[d]
    BY <1>6
  <2>. QED BY <2>1, <1>1, <1>5, <1>8, <1>9, OneRowKeeps

\* What an action writes into a row, and nothing else of the rows.
RowBecomes(w, row) == queue' = [queue EXCEPT ![w] = row]

\* ... leaves the other rows and is typed.
LEMMA OneRow ==
    ASSUME RowTypes, NEW w \in Works, NEW row \in Storage!Row, RowBecomes(w, row)
    PROVE  /\ queue' \in [Works -> Storage!Row] /\ queue'[w] = row
           /\ \A v \in Works : v # w => queue'[v] = queue[v]
BY DEF RowTypes, RowBecomes

\* A row steps without its executors and the checkouts: admitted after its
\* acquisition, lapsed, cancelled, aged (AdmitAcquired, Lapse, Cancel, Age).
LEMMA RowStep ==
    ASSUME RowTypes, StorageInv, up, up' = up, NEW w \in Works, NEW row \in Storage!Row,
           RowBecomes(w, row), UNCHANGED <<executors, checkouts>>,
           \/ queue[w].status = "absent"
           \/ row.status = "terminal" /\ row.token = queue[w].token
           \/ /\ row.status = queue[w].status /\ row.token = queue[w].token
              /\ row.lease = "held" => queue[w].lease = "held"
              /\ row.attempt = "none" => queue[w].attempt = "none"
    PROVE  RowTypes' /\ StorageInv'
<1>1. /\ queue' \in [Works -> Storage!Row] /\ queue'[w] = row
      /\ \A v \in Works : v # w => queue'[v] = queue[v]
  BY OneRow
<1>2. ASSUME NEW d \in Storage!Claims, d[1] = w PROVE Kept(d)'
  <2>1. Kept(d)
    BY DEF StorageInv
  <2>2. CASE queue[w].status = "absent"
    BY <2>1, <2>2, <1>2 DEF Kept
  <2>3. CASE row.status = "terminal" /\ row.token = queue[w].token
    BY <2>1, <2>3, <1>1, <1>2 DEF Kept, Storage!Holds
  <2>4. CASE /\ row.status = queue[w].status /\ row.token = queue[w].token
             /\ row.lease = "held" => queue[w].lease = "held"
             /\ row.attempt = "none" => queue[w].attempt = "none"
    BY <2>1, <2>4, <1>1, <1>2 DEF Kept, Storage!Holds
  <2>. QED BY <2>2, <2>3, <2>4
<1>3. RowTypes'
  BY <1>1 DEF RowTypes
<1>4. \A d \in Storage!Claims : executors'[d] = executors[d] /\ (d \in checkouts => d \in checkouts')
  OBVIOUS
<1>. QED BY <1>1, <1>2, <1>3, <1>4, OneRowKeeps

\* Swept: the retained rows with one of them replaced, and what the cleanup
\* leaves of the checkouts.
LEMMA SweptRows ==
    ASSUME RowTypes, NEW w \in Works, NEW row \in Storage!Row, Storage!Swept(w, row)
    PROVE  /\ queue' \in [Works -> Storage!Row] /\ queue'[w] = row
           /\ \A v \in Works : v # w =>
               /\ queue'[v].status = queue[v].status
               /\ queue'[v].token = queue[v].token
               /\ queue'[v].lease = queue[v].lease
               /\ queue[v].status = "queued" /\ queue[v].lease = "held" =>
                     queue'[v].attempt = queue[v].attempt
           /\ checkouts' \subseteq Storage!Claims
           /\ \A d \in checkouts : d \notin Storage!Removable(queue) => d \in checkouts'
<1>. DEFINE rs == IF Storage!Available(checkouts) THEN queue ELSE Storage!Retained
<1>1. queue' = [rs EXCEPT ![w] = row]
  BY DEF Storage!Swept
<1>2. /\ rs \in [Works -> Storage!Row]
      /\ \A v \in Works :
               /\ rs[v].status = queue[v].status
               /\ rs[v].token = queue[v].token
               /\ rs[v].lease = queue[v].lease
               /\ queue[v].status = "queued" /\ queue[v].lease = "held" =>
                     rs[v].attempt = queue[v].attempt
  BY RetainedRows DEF RowTypes
<1>3. /\ checkouts' \subseteq Storage!Claims
      /\ \A d \in checkouts : d \notin Storage!Removable(queue) => d \in checkouts'
  BY DEF Storage!Swept, RowTypes
<1>. HIDE DEF rs
<1>. QED BY <1>1, <1>2, <1>3, RowsWith

\* A work is admitted in the turn of its measurement (AdmitAtOnce).
LEMMA AdmitStep ==
    ASSUME RowTypes, StorageInv, NEW w \in Works, Storage!AdmitAtOnce(w)
    PROVE  RowTypes' /\ StorageInv'
<1>1. /\ up /\ up' = up /\ executors' = executors /\ queue[w].status = "absent"
      /\ Storage!Swept(w, Storage!Queued)
  BY DEF Storage!AdmitAtOnce
<1>2. Storage!Queued \in Storage!Row
  BY RowValues
<1>3. ASSUME NEW d \in Storage!Claims, d[1] = w PROVE Kept(d)'
  BY <1>1, <1>3 DEF StorageInv, Kept
<1>4. RowTypes'
  BY <1>1, <1>2, SweptRows DEF RowTypes
<1>5. \A d \in Storage!Claims :
          /\ executors'[d] = executors[d]
          /\ d \in checkouts /\ d \notin Storage!Removable(queue) => d \in checkouts'
  BY <1>1, <1>2, SweptRows
<1>6. \A v \in Works : v # w =>
               /\ queue'[v].status = queue[v].status
               /\ queue'[v].token = queue[v].token
               /\ queue'[v].lease = queue[v].lease
               /\ queue[v].status = "queued" /\ queue[v].lease = "held" =>
                     queue'[v].attempt = queue[v].attempt
  BY <1>1, <1>2, SweptRows
<1>. QED BY <1>1, <1>3, <1>4, <1>5, <1>6, OneRowKeeps

\* The row of a claim is left, or its claim is given back (recordPreStartFailure).
LEMMA FailureRecorded ==
    ASSUME RowTypes, NEW c \in Storage!Claims, queue' = Storage!RecordPreStartFailure(c)
    PROVE  /\ queue' \in [Works -> Storage!Row]
           /\ \A v \in Works : v # c[1] => queue'[v] = queue[v]
           /\ queue'[c[1]].status = queue[c[1]].status
           /\ queue'[c[1]].token = queue[c[1]].token
           /\ queue'[c[1]] = queue[c[1]] \/ queue'[c[1]].lease = "free"
<1>0. c[1] \in Works /\ queue[c[1]] \in Storage!Row
  BY ClaimParts DEF RowTypes
<1>1. CASE Storage!Holds(c)
  <2>1. RowBecomes(c[1], [queue[c[1]] EXCEPT !.lease = "free", !.attempt = "none"])
    BY <1>0, <1>1 DEF Storage!RecordPreStartFailure, RowBecomes, RowTypes
  <2>2. [queue[c[1]] EXCEPT !.lease = "free", !.attempt = "none"] \in Storage!Row
    BY <1>0, RowValues
  <2>3. /\ [queue[c[1]] EXCEPT !.lease = "free", !.attempt = "none"].lease = "free"
        /\ [queue[c[1]] EXCEPT !.lease = "free", !.attempt = "none"].status = queue[c[1]].status
        /\ [queue[c[1]] EXCEPT !.lease = "free", !.attempt = "none"].token = queue[c[1]].token
    BY <1>0 DEF Storage!Row
  <2>. QED BY <1>0, <2>1, <2>2, <2>3, OneRow
<1>2. CASE ~Storage!Holds(c)
  BY <1>2 DEF Storage!RecordPreStartFailure, RowTypes
<1>. QED BY <1>1, <1>2

\* An executor steps in a turn that may touch its row and its own checkout.
LEMMA ExecutorKeeps ==
    ASSUME RowTypes, StorageInv, up, up' = up, NEW c \in Storage!Claims,
           NEW there \in Storage!Phases, executors' = [executors EXCEPT ![c] = there],
           queue' \in [Works -> Storage!Row], checkouts' \subseteq Storage!Claims,
           \A v \in Works : v # c[1] => queue'[v] = queue[v],
           \A d \in checkouts : d # c => d \in checkouts',
           \A d \in Storage!Claims : d # c /\ d[1] = c[1] => Kept(d)',
           Kept(c)'
    PROVE  RowTypes' /\ StorageInv'
<1>1. /\ executors' \in [Storage!Claims -> Storage!Phases]
      /\ \A d \in Storage!Claims : d # c => executors'[d] = executors[d]
  BY ExecutorsWith
<1>2. RowTypes'
  BY <1>1 DEF RowTypes
<1>3. c[1] \in Works
  BY ClaimParts
<1>4. \A d \in Storage!Claims : d[1] # c[1] =>
          executors'[d] = executors[d] /\ (d \in checkouts => d \in checkouts')
  BY <1>1
<1>. QED BY <1>2, <1>3, <1>4, OneRowKeeps

\* An executor that does not move stays kept when it gains no claim and loses
\* neither its attempt nor its checkout.
LEMMA OtherKeeps ==
    ASSUME NEW d \in Storage!Claims, Kept(d), executors'[d] = executors[d],
           queue'[d[1]].status = queue[d[1]].status,
           queue'[d[1]].token = queue[d[1]].token,
           Storage!Holds(d)' => queue'[d[1]] = queue[d[1]],
           d \in checkouts => d \in checkouts'
    PROVE  Kept(d)'
BY DEF Kept, Storage!Holds

\* The steps of an executor, from its attempt to the removal of its checkout.
LEMMA ExecutorStep ==
    ASSUME RowTypes, StorageInv, NEW c \in Storage!Claims, Storage!ExecutorNext(c)
    PROVE  RowTypes' /\ StorageInv'
<1>0. /\ c[1] \in Works /\ c[2] \in 1 .. MaxToken /\ Kept(c)
      /\ queue[c[1]] \in Storage!Row /\ queue[c[1]].token \in 0 .. MaxToken
  BY ClaimParts, RowFields DEF RowTypes, StorageInv
<1>p. {"none", "begun", "cloning", "ready", "started", "leaving"} \subseteq Storage!Phases
  BY DEF Storage!Phases
<1>e. ASSUME NEW there \in Storage!Phases, executors' = [executors EXCEPT ![c] = there]
      PROVE  executors'[c] = there /\ \A d \in Storage!Claims : d # c => executors'[d] = executors[d]
  BY <1>e, ExecutorsWith
<1>1. ASSUME Storage!BeginAttempt(c) PROVE RowTypes' /\ StorageInv'
  <2>1. CASE Storage!Holds(c)
    <3>1. /\ up /\ up' = up /\ checkouts' = checkouts
          /\ executors' = [executors EXCEPT ![c] = "begun"]
          /\ RowBecomes(c[1], [queue[c[1]] EXCEPT !.attempt = "open"])
      BY <1>1, <2>1, <1>0 DEF Storage!BeginAttempt, RowBecomes, RowTypes
    <3>2. [queue[c[1]] EXCEPT !.attempt = "open"] \in Storage!Row
      BY <1>0, RowValues
    <3>3. /\ queue' \in [Works -> Storage!Row]
          /\ queue'[c[1]] = [queue[c[1]] EXCEPT !.attempt = "open"]
          /\ \A v \in Works : v # c[1] => queue'[v] = queue[v]
      BY <1>0, <3>1, <3>2, OneRow
    <3>4. /\ queue'[c[1]].status = queue[c[1]].status /\ queue'[c[1]].token = queue[c[1]].token
          /\ queue'[c[1]].lease = queue[c[1]].lease /\ queue'[c[1]].attempt = "open"
      BY <1>0, <3>3 DEF Storage!Row
    <3>5. executors'[c] = "begun" /\ \A d \in Storage!Claims : d # c => executors'[d] = executors[d]
      BY <3>1, <1>e, <1>p
    <3>6. ASSUME NEW d \in Storage!Claims, d # c, d[1] = c[1] PROVE Kept(d)'
      <4>1. Kept(d)
        BY DEF StorageInv
      <4>. QED BY <3>1, <3>4, <3>5, <3>6, <4>1 DEF Kept, Storage!Holds
    <3>7. Kept(c)'
      BY <1>0, <2>1, <3>4, <3>5 DEF Kept, Storage!Holds
    <3>8. /\ checkouts' \subseteq Storage!Claims
          /\ \A d \in checkouts : d # c => d \in checkouts'
      BY <3>1 DEF RowTypes
    <3>. QED BY <3>1, <1>p, <3>3, <3>6, <3>7, <3>8, ExecutorKeeps
  <2>2. CASE ~Storage!Holds(c)
    <3>1. /\ up /\ up' = up /\ checkouts' = checkouts /\ queue' = queue
          /\ executors' = [executors EXCEPT ![c] = "none"]
      BY <1>1, <2>2 DEF Storage!BeginAttempt
    <3>2. executors'[c] = "none" /\ \A d \in Storage!Claims : d # c => executors'[d] = executors[d]
      BY <3>1, <1>e, <1>p
    <3>3. \A d \in Storage!Claims : d # c /\ d[1] = c[1] => Kept(d)'
      BY <3>1, <3>2, OtherKeeps DEF StorageInv
    <3>4. Kept(c)'
      BY <3>2 DEF Kept
    <3>5. /\ queue' \in [Works -> Storage!Row] /\ checkouts' \subseteq Storage!Claims
          /\ \A v \in Works : v # c[1] => queue'[v] = queue[v]
          /\ \A d \in checkouts : d # c => d \in checkouts'
      BY <3>1 DEF RowTypes
    <3>. QED BY <3>1, <1>p, <3>3, <3>4, <3>5, ExecutorKeeps
  <2>. QED BY <2>1, <2>2
\* Whoever fails before its start leaves the row to its claim, and is gone or
\* about to remove its checkout.
<1>f. ASSUME up, up' = up, executors[c] # "none", queue' = Storage!RecordPreStartFailure(c),
             checkouts' = checkouts \ {c} \/ checkouts' = checkouts,
             NEW there \in {"none", "leaving"}, executors' = [executors EXCEPT ![c] = there]
      PROVE  RowTypes' /\ StorageInv'
  <2>1. /\ queue' \in [Works -> Storage!Row]
        /\ \A v \in Works : v # c[1] => queue'[v] = queue[v]
        /\ queue'[c[1]].status = queue[c[1]].status
        /\ queue'[c[1]].token = queue[c[1]].token
        /\ queue'[c[1]] = queue[c[1]] \/ queue'[c[1]].lease = "free"
    BY <1>f, FailureRecorded
  <2>2. executors'[c] = there /\ \A d \in Storage!Claims : d # c => executors'[d] = executors[d]
    BY <1>f, <1>e, <1>p
  <2>3. ASSUME NEW d \in Storage!Claims, d # c, d[1] = c[1] PROVE Kept(d)'
    <3>1. Storage!Holds(d)' => queue'[d[1]] = queue[d[1]]
      BY <2>1, <2>3 DEF Storage!Holds
    <3>2. d \in checkouts => d \in checkouts'
      BY <1>f, <2>3
    <3>3. Kept(d)
      BY DEF StorageInv
    <3>. QED BY <2>1, <2>2, <2>3, <3>1, <3>2, <3>3, OtherKeeps
  <2>4. Kept(c)'
    BY <1>0, <1>f, <2>1, <2>2 DEF Kept
  <2>5. /\ checkouts' \subseteq Storage!Claims
        /\ \A d \in checkouts : d # c => d \in checkouts'
    BY <1>f DEF RowTypes
  <2>. QED BY <1>f, <1>p, <2>1, <2>3, <2>4, <2>5, ExecutorKeeps
\* The rows stay, and the executor goes where its row and its checkout allow.
<1>g. ASSUME up, up' = up, queue' = queue, executors[c] # "none",
             checkouts' \subseteq Storage!Claims, \A d \in checkouts : d # c => d \in checkouts',
             NEW there \in {"none", "cloning", "ready", "leaving"},
             executors' = [executors EXCEPT ![c] = there],
             there \in {"cloning", "ready"} =>
                 c \in checkouts' /\ executors[c] \in {"begun", "cloning", "ready"}
      PROVE  RowTypes' /\ StorageInv'
  <2>1. executors'[c] = there /\ \A d \in Storage!Claims : d # c => executors'[d] = executors[d]
    BY <1>g, <1>e, <1>p
  <2>2. \A d \in Storage!Claims : d # c /\ d[1] = c[1] => Kept(d)'
    BY <1>g, <2>1, OtherKeeps DEF StorageInv
  <2>3. Kept(c)'
    BY <1>0, <1>g, <2>1 DEF Kept, Storage!Holds
  <2>4. queue' \in [Works -> Storage!Row] /\ \A v \in Works : v # c[1] => queue'[v] = queue[v]
    BY <1>g DEF RowTypes
  <2>. QED BY <1>g, <1>p, <2>2, <2>3, <2>4, ExecutorKeeps
<1>2. ASSUME Storage!MakeCheckout(c) PROVE RowTypes' /\ StorageInv'
  <2>1. CASE c \notin checkouts /\ Storage!Free("checkouts", checkouts) > 0
    BY <1>2, <2>1, <1>g DEF Storage!MakeCheckout, RowTypes
  <2>2. CASE ~(c \notin checkouts /\ Storage!Free("checkouts", checkouts) > 0)
    <3>1. /\ up /\ up' = up /\ executors[c] # "none" /\ checkouts' = checkouts \ {c}
          /\ executors' = [executors EXCEPT ![c] = "none"]
          /\ queue' = Storage!RecordPreStartFailure(c)
      BY <1>2, <2>2 DEF Storage!MakeCheckout
    <3>. QED BY <3>1, <1>f
  <2>. QED BY <2>1, <2>2
<1>3. ASSUME Storage!Cloned(c) PROVE RowTypes' /\ StorageInv'
  BY <1>3, <1>g DEF Storage!Cloned, RowTypes
<1>4. ASSUME Storage!CloneFails(c) PROVE RowTypes' /\ StorageInv'
  <2>1. /\ up /\ up' = up /\ executors[c] # "none" /\ checkouts' = checkouts \ {c}
        /\ executors' = [executors EXCEPT ![c] = "none"]
        /\ queue' = Storage!RecordPreStartFailure(c)
    BY <1>4 DEF Storage!CloneFails
  <2>. QED BY <2>1, <1>f
<1>5. ASSUME Storage!StartCodex(c) PROVE RowTypes' /\ StorageInv'
  <2>. DEFINE row == [queue[c[1]] EXCEPT !.status = "running", !.lease = "free",
                                         !.attempt = "none"]
  <2>1. /\ up /\ up' = up /\ executors[c] = "ready" /\ Storage!Holds(c)
        /\ Storage!Swept(c[1], row) /\ executors' = [executors EXCEPT ![c] = "started"]
    BY <1>5 DEF Storage!StartCodex
  <2>2. row \in Storage!Row
    BY <1>0, RowValues
  <2>3. row.status = "running" /\ row.token = c[2]
    BY <1>0, <2>1 DEF Storage!Row, Storage!Holds
  <2>. HIDE DEF row
  <2>4. /\ executors' \in [Storage!Claims -> Storage!Phases] /\ executors'[c] = "started"
        /\ \A d \in Storage!Claims : d # c => executors'[d] = executors[d]
    BY <2>1, <1>p, ExecutorsWith
  <2>5. queue' \in [Works -> Storage!Row] /\ queue'[c[1]] = row /\ checkouts' \subseteq Storage!Claims
    BY <1>0, <2>1, <2>2, SweptRows
  <2>6. \A d \in checkouts : d \notin Storage!Removable(queue) => d \in checkouts'
    BY <1>0, <2>1, <2>2, SweptRows
  <2>7. \A v \in Works : v # c[1] =>
               /\ queue'[v].status = queue[v].status
               /\ queue'[v].token = queue[v].token
               /\ queue'[v].lease = queue[v].lease
               /\ queue[v].status = "queued" /\ queue[v].lease = "held" =>
                     queue'[v].attempt = queue[v].attempt
    BY <1>0, <2>1, <2>2, SweptRows
  <2>8. RowTypes'
    BY <2>4, <2>5 DEF RowTypes
  <2>9. Kept(c)'
    <3>1. c \in checkouts /\ c \notin Storage!Removable(queue)
      BY <1>0, <2>1 DEF Kept, Storage!Removable, Storage!Holds
    <3>. QED BY <1>0, <2>3, <2>4, <2>5, <2>6, <3>1 DEF Kept
  <2>10. ASSUME NEW d \in Storage!Claims, d[1] = c[1], d # c PROVE Kept(d)'
    <3>1. Kept(d) /\ executors'[d] = executors[d]
      BY <2>4, <2>10 DEF StorageInv
    <3>2. queue[c[1]].status = "queued" /\ queue[c[1]].token = c[2]
      BY <2>1 DEF Storage!Holds
    <3>3. queue'[d[1]].status = "running" /\ queue'[d[1]].token = queue[d[1]].token
      BY <2>3, <2>5, <2>10, <3>2
    <3>. QED BY <2>10, <3>1, <3>2, <3>3 DEF Kept, Storage!Holds
  <2>11. \A d \in Storage!Claims : d[1] = c[1] => Kept(d)'
    BY <2>9, <2>10
  <2>12. \A d \in Storage!Claims : d[1] # c[1] =>
            /\ executors'[d] = executors[d]
            /\ d \in checkouts /\ d \notin Storage!Removable(queue) => d \in checkouts'
    BY <2>4, <2>6
  <2>. QED BY <1>0, <2>1, <2>7, <2>8, <2>11, <2>12, OneRowKeeps
<1>6. ASSUME Storage!StartFails(c) PROVE RowTypes' /\ StorageInv'
  <2>1. /\ up /\ up' = up /\ executors[c] # "none" /\ checkouts' = checkouts
        /\ executors' = [executors EXCEPT ![c] = "leaving"]
        /\ queue' = Storage!RecordPreStartFailure(c)
    BY <1>6 DEF Storage!StartFails
  <2>. QED BY <2>1, <1>f
<1>7. ASSUME Storage!CodexEnds(c) PROVE RowTypes' /\ StorageInv'
  <2>. DEFINE row == [queue[c[1]] EXCEPT !.status = "terminal"]
  <2>1. /\ up /\ up' = up /\ executors[c] = "started" /\ checkouts' = checkouts
        /\ executors' = [executors EXCEPT ![c] = "leaving"] /\ RowBecomes(c[1], row)
    BY <1>7, <1>0 DEF Storage!CodexEnds, RowBecomes, RowTypes
  <2>2. row \in Storage!Row
    BY <1>0, RowValues
  <2>3. row.status = "terminal" /\ row.token = queue[c[1]].token
    BY <1>0 DEF Storage!Row
  <2>. HIDE DEF row
  <2>4. /\ queue' \in [Works -> Storage!Row] /\ queue'[c[1]] = row
        /\ \A v \in Works : v # c[1] => queue'[v] = queue[v]
    BY <1>0, <2>1, <2>2, OneRow
  <2>5. executors'[c] = "leaving" /\ \A d \in Storage!Claims : d # c => executors'[d] = executors[d]
    BY <2>1, <1>e, <1>p
  <2>6. Kept(c)'
    BY <1>0, <2>1, <2>3, <2>4, <2>5 DEF Kept
  <2>7. ASSUME NEW d \in Storage!Claims, d # c, d[1] = c[1] PROVE Kept(d)'
    <3>1. Kept(d)
      BY DEF StorageInv
    <3>. QED BY <2>3, <2>4, <2>5, <2>7, <3>1 DEF Kept, Storage!Holds
  <2>8. /\ checkouts' \subseteq Storage!Claims
        /\ \A d \in checkouts : d # c => d \in checkouts'
    BY <2>1 DEF RowTypes
  <2>. QED BY <2>1, <1>p, <2>4, <2>6, <2>7, <2>8, ExecutorKeeps
<1>8. ASSUME Storage!RemoveCheckout(c) PROVE RowTypes' /\ StorageInv'
  <2>1. /\ up /\ up' = up /\ executors[c] # "none" /\ queue' = queue
        /\ executors' = [executors EXCEPT ![c] = "none"]
        /\ checkouts' = checkouts \ {c} \/ checkouts' = checkouts
    BY <1>8 DEF Storage!RemoveCheckout
  <2>2. /\ checkouts' \subseteq Storage!Claims
        /\ \A d \in checkouts : d # c => d \in checkouts'
    BY <2>1 DEF RowTypes
  <2>. QED BY <2>1, <2>2, <1>g
<1>. QED BY <1>1, <1>2, <1>3, <1>4, <1>5, <1>6, <1>7, <1>8 DEF Storage!ExecutorNext

\* While the application is down nothing executes, whatever becomes of the rows
\* and the checkouts (Restore, Restart, and the time that passes).
LEMMA DownStep ==
    ASSUME RowTypes, StorageInv, ~up, executors' = executors,
           queue' \in [Works -> Storage!Row], checkouts' \subseteq checkouts
    PROVE  RowTypes' /\ StorageInv'
<1>1. executors' = Storage!Halted
  BY DEF StorageInv
<1>2. \A c \in Storage!Claims : Kept(c)'
  BY <1>1 DEF Storage!Halted, Kept
<1>3. RowTypes'
  BY DEF RowTypes
<1>. QED BY <1>1, <1>2, <1>3 DEF StorageInv, Storage!Halted

\* The rows of a backup are rows (Restore).
LEMMA EarlierRows ==
    ASSUME NEW row \in Storage!Row
    PROVE  Storage!Earlier(row) \subseteq Storage!Row
<1>1. Storage!NoRow \in Storage!Row
  BY RowValues
<1>2. row.token \in 0 .. MaxToken
  BY RowFields
<1>3. \A t \in 0 .. row.token : t \in 0 .. MaxToken
  BY <1>2, TokenAssumption
<1>4. ASSUME NEW t \in 0 .. MaxToken
      PROVE  /\ [Storage!Queued EXCEPT !.token = t] \in Storage!Row
             /\ [Storage!Queued EXCEPT !.token = t, !.lease = "held", !.attempt = "open"]
                   \in Storage!Row
  BY RowValues DEF Storage!Row
<1>5. \A t \in 1 .. row.token : t \in 0 .. row.token
  BY <1>2
<1>. QED BY <1>1, <1>3, <1>4, <1>5 DEF Storage!Earlier

\* So are those that recovery leaves (Restart).
LEMMA RecoveredRows ==
    ASSUME RowTypes
    PROVE  Storage!Recovered \in [Works -> Storage!Row]
BY RowValues DEF RowTypes, Storage!Recovered

\* A measurement, whatever it says, sweeps at most (readFor).
LEMMA ReadSweeps ==
    ASSUME NEW answer, Storage!ReadFor(answer)
    PROVE  /\ queue' = queue \/ queue' = Storage!Retained
           /\ checkouts \ Storage!Removable(queue) \subseteq checkouts'
           /\ checkouts' \subseteq checkouts
BY DEF Storage!ReadFor, Storage!CleanUp

\* One of the actions that time, an operator or another process takes on a row.
LEMMA RowActionStep ==
    ASSUME RowTypes, StorageInv, NEW w \in Works,
           \/ Storage!AdmitAcquired(w) \/ Storage!Lapse(w) \/ Storage!Cancel(w)
           \/ Storage!Age(w) \/ Storage!Restore(w)
    PROVE  RowTypes' /\ StorageInv'
<1>. DEFINE row == queue[w]
<1>0. row \in Storage!Row
  BY DEF RowTypes
<1>1. ASSUME Storage!AdmitAcquired(w) PROVE RowTypes' /\ StorageInv'
  <2>1. /\ up /\ up' = up /\ queue[w].status = "absent" /\ RowBecomes(w, Storage!Queued)
        /\ UNCHANGED <<executors, checkouts>>
    BY <1>1 DEF Storage!AdmitAcquired, RowBecomes
  <2>. QED BY <2>1, RowValues, RowStep
<1>2. ASSUME Storage!Lapse(w) PROVE RowTypes' /\ StorageInv'
  <2>. DEFINE late == [row EXCEPT !.lease = "lapsed"]
  <2>1. RowBecomes(w, late) /\ up' = up /\ UNCHANGED <<executors, checkouts>>
    BY <1>2, <1>0 DEF Storage!Lapse, RowBecomes, RowTypes
  <2>2. late \in Storage!Row
    BY <1>0, RowValues
  <2>3. /\ late.status = queue[w].status /\ late.token = queue[w].token
        /\ late.lease = "lapsed" /\ late.attempt = queue[w].attempt
    BY <1>0 DEF Storage!Row
  <2>. HIDE DEF late, row
  <2>4. CASE up
    BY <2>1, <2>2, <2>3, <2>4, RowStep
  <2>5. CASE ~up
    BY <2>1, <2>2, <2>5, OneRow, DownStep
  <2>. QED BY <2>4, <2>5
<1>3. ASSUME Storage!Cancel(w) PROVE RowTypes' /\ StorageInv'
  <2>. DEFINE ended == [row EXCEPT !.status = "terminal", !.lease = "free", !.attempt = "none"]
  <2>1. RowBecomes(w, ended) /\ up /\ up' = up /\ UNCHANGED <<executors, checkouts>>
    BY <1>3, <1>0 DEF Storage!Cancel, RowBecomes, RowTypes
  <2>2. ended \in Storage!Row
    BY <1>0, RowValues
  <2>3. ended.status = "terminal" /\ ended.token = queue[w].token
    BY <1>0 DEF Storage!Row
  <2>. HIDE DEF ended, row
  <2>. QED BY <2>1, <2>2, <2>3, RowStep
<1>4. ASSUME Storage!Age(w) PROVE RowTypes' /\ StorageInv'
  <2>. DEFINE aged == [row EXCEPT !.attempt = "old"]
  <2>1. RowBecomes(w, aged) /\ up' = up /\ UNCHANGED <<executors, checkouts>>
    BY <1>4, <1>0 DEF Storage!Age, RowBecomes, RowTypes
  <2>2. aged \in Storage!Row
    BY <1>0, RowValues
  <2>3. /\ aged.status = queue[w].status /\ aged.token = queue[w].token
        /\ aged.lease = queue[w].lease /\ aged.attempt = "old"
    BY <1>0 DEF Storage!Row
  <2>. HIDE DEF aged, row
  <2>4. CASE up
    BY <2>1, <2>2, <2>3, <2>4, RowStep
  <2>5. CASE ~up
    BY <2>1, <2>2, <2>5, OneRow, DownStep
  <2>. QED BY <2>4, <2>5
<1>5. ASSUME Storage!Restore(w) PROVE RowTypes' /\ StorageInv'
  <2>1. ~up /\ up' = up /\ executors' = executors /\ checkouts' = checkouts
    BY <1>5 DEF Storage!Restore
  <2>2. PICK earlier \in Storage!Earlier(row) : RowBecomes(w, earlier)
    BY <1>5 DEF Storage!Restore, RowBecomes
  <2>3. earlier \in Storage!Row
    BY <1>0, EarlierRows
  <2>4. queue' \in [Works -> Storage!Row]
    BY <2>2, <2>3, OneRow
  <2>. QED BY <2>1, <2>4, DownStep
<1>. QED BY <1>1, <1>2, <1>3, <1>4, <1>5

\* Every step of the storage keeps every executor's row, attempt and checkout.
LEMMA StorageStep ==
    ASSUME RowTypes, StorageInv, Storage!Next
    PROVE  RowTypes' /\ StorageInv'
<1>1. ASSUME NEW w \in Works,
             \/ Storage!AdmitAtOnce(w) \/ Storage!RequestWork(w)
             \/ Storage!AdmitAcquired(w) \/ Storage!AcquisitionFails(w)
      PROVE  RowTypes' /\ StorageInv'
  <2>1. ASSUME Storage!RequestWork(w) PROVE RowTypes' /\ StorageInv'
    <3>1. executors' = executors /\ up' = up /\ Storage!ReadFor("available")
      BY <2>1 DEF Storage!RequestWork
    <3>. QED BY <3>1, ReadSweeps, SweepKeeps
  <2>2. ASSUME Storage!AcquisitionFails(w) PROVE RowTypes' /\ StorageInv'
    BY <2>2, SweepKeeps DEF Storage!AcquisitionFails
  <2>. QED BY <1>1, <2>1, <2>2, AdmitStep, RowActionStep
<1>2. ASSUME NEW w \in Works,
             \/ Storage!Claim(w) \/ Storage!Lapse(w) \/ Storage!Cancel(w)
             \/ Storage!Age(w) \/ Storage!Restore(w)
      PROVE  RowTypes' /\ StorageInv'
  BY <1>2, ClaimStep, RowActionStep
<1>3. ASSUME Storage!Inspect \/ Storage!BeginRound \/ Storage!CommitObservation
      PROVE  RowTypes' /\ StorageInv'
  <2>1. /\ executors' = executors /\ up' = up
        /\ \E answer \in {"available", "unavailable", "failed"} : Storage!ReadFor(answer)
    BY <1>3 DEF Storage!Inspect, Storage!BeginRound, Storage!CommitObservation
  <2>. QED BY <2>1, ReadSweeps, SweepKeeps
<1>4. ASSUME Storage!DutyFails PROVE RowTypes' /\ StorageInv'
  <2>1. executors' = Storage!Halted /\ up' \in BOOLEAN /\ Storage!ReadFor("failed")
    BY <1>4 DEF Storage!DutyFails
  <2>. QED BY <2>1, ReadSweeps, SweepKeeps
<1>5. ASSUME Storage!DailyCleanup PROVE RowTypes' /\ StorageInv'
  <2>1. /\ queue' = Storage!Retained /\ executors' = executors /\ up' = up
        /\ checkouts \ Storage!Removable(queue) \subseteq checkouts'
        /\ checkouts' \subseteq checkouts
    BY <1>5 DEF Storage!DailyCleanup, Storage!CleanUp
  <2>. QED BY <2>1, SweepKeeps
<1>6. ASSUME Storage!CommitBaseline \/ Storage!Break
             \/ \E f \in Storage!Filesystems : Storage!Occupy(f)
      PROVE  RowTypes' /\ StorageInv'
  <2>1. queue' = queue /\ executors' = executors /\ up' = up /\ checkouts' = checkouts
    BY <1>6 DEF Storage!CommitBaseline, Storage!Break, Storage!Occupy
  <2>. QED BY <2>1, SweepKeeps
<1>7. ASSUME Storage!Crash PROVE RowTypes' /\ StorageInv'
  <2>1. queue' = queue /\ executors' = Storage!Halted /\ up' \in BOOLEAN /\ checkouts' = checkouts
    BY <1>7 DEF Storage!Crash
  <2>. QED BY <2>1, SweepKeeps
<1>8. ASSUME Storage!Restart PROVE RowTypes' /\ StorageInv'
  <2>1. /\ ~up /\ executors' = executors
        /\ queue' = Storage!Recovered /\ checkouts' \subseteq checkouts
    BY <1>8 DEF Storage!Restart
  <2>. QED BY <2>1, RecoveredRows, DownStep
<1>. QED BY <1>1, <1>2, <1>3, <1>4, <1>5, <1>6, <1>7, <1>8, ExecutorStep DEF Storage!Next

\* Every other step leaves them alone.
LEMMA StorageRests ==
    ASSUME RowTypes, StorageInv, UNCHANGED reserveVars
    PROVE  RowTypes' /\ StorageInv'
<1>1. queue' = queue /\ executors' = executors /\ up' = up /\ checkouts' = checkouts
  BY DEF reserveVars
<1>. QED BY <1>1, SweepKeeps

\* At the start nothing is known and nothing executes.
LEMMA StorageInit ==
    ASSUME Init
    PROVE  RowTypes /\ StorageInv
<1>1. /\ up = TRUE /\ queue = [w \in Works |-> Storage!NoRow]
      /\ executors = Storage!Halted /\ checkouts = {}
  BY DEF Init, Storage!Init, Storage!Halted
<1>2. RowTypes
  BY <1>1, RowValues DEF RowTypes, Storage!Halted, Storage!Phases
<1>. QED BY <1>1, <1>2 DEF StorageInv, Kept, Storage!Halted

\* What is kept is what the cleanup must spare.
LEMMA KeptIsSpared ==
    ASSUME RowTypes, StorageInv
    PROVE  CleanupSparesTheLive
<1>1. SUFFICES ASSUME NEW c \in Storage!Claims
               PROVE  /\ executors[c] \in {"cloning", "ready"} /\ Storage!Holds(c) =>
                            c \in checkouts /\ queue[c[1]].attempt # "none"
                      /\ executors[c] = "started" /\ queue[c[1]].status = "running" =>
                            c \in checkouts
  BY DEF CleanupSparesTheLive, Storage!CleanupSparesTheLive
<1>2. Kept(c)
  BY DEF StorageInv
<1>. QED BY <1>2 DEF Kept

\* THEOREM: whoever cleans up, and whenever - a refused request, a round, the
\* daily check, a restart, over rows a restore brought back -, an executor that
\* still holds its claim keeps its checkout and its attempt, and a running
\* Codex keeps its checkout until its work ends
\* (cleanupOwnedTemporaryArtifacts, cleanupEligibleRetentionData).
THEOREM CleanupSpares == Spec => []CleanupSparesTheLive
<1>1. Init => RowTypes /\ StorageInv
  BY StorageInit
<1>2. ASSUME RowTypes /\ StorageInv, [Next]_all PROVE (RowTypes /\ StorageInv)'
  <2>1. CASE OfStorage(Storage!Next)
    BY <1>2, <2>1, StorageStep DEF OfStorage
  <2>2. CASE UNCHANGED reserveVars
    BY <1>2, <2>2, StorageRests
  <2>. QED BY <1>2, <2>1, <2>2
         DEF Next, all, AtGitHub, AtForgejo, OfChannel, OfBackup, OfRestore
<1>3. RowTypes /\ StorageInv => CleanupSparesTheLive
  BY KeptIsSpared
<1>. QED BY <1>1, <1>2, <1>3, PTL DEF Spec

-----------------------------------------------------------------------------
\* What the guard of a measured step demands: an observation is committed or a
\* Codex started in it only with the reserve free.
Measured ==
    \/ round # "committed" /\ round' = "committed"
    \/ \E c \in Storage!Claims : executors[c] = "ready" /\ executors'[c] = "started"
ReserveKept == Measured => (Storage!Available(checkouts))'

\* The room is that of the checkouts, when nothing else takes any.
LEMMA RoomAfter ==
    ASSUME UNCHANGED occupied, Storage!Available(checkouts')
    PROVE  (Storage!Available(checkouts))'
BY DEF Storage!Available, Storage!Free

\* A measurement that finds the reserve leaves it (readFor).
LEMMA ReadLeavesRoom ==
    ASSUME UNCHANGED <<occupied, measurable>>, Storage!ReadFor("available")
    PROVE  (Storage!Available(checkouts))'
<1>1. CASE Storage!Available(checkouts) /\ checkouts' = checkouts
  BY <1>1, RoomAfter
<1>2. CASE /\ ~Storage!Available(checkouts) /\ Storage!CleanUp
           /\ "available" = CASE ~measurable -> "failed"
                     [] measurable /\ Storage!Available(checkouts \ Storage!Removable(queue)) ->
                            "available"
                     [] OTHER -> "unavailable"
  <2>1. measurable /\ Storage!Available(checkouts \ Storage!Removable(queue))
    BY <1>2
  <2>2. checkouts' = checkouts \ Storage!Removable(queue)
    BY <1>2, <2>1 DEF Storage!CleanUp
  <2>. QED BY <2>1, <2>2, RoomAfter
<1>. QED BY <1>1, <1>2 DEF Storage!ReadFor

\* So does a start that found room (assertCodexStartAvailable, startTracked).
LEMMA SweptLeavesRoom ==
    ASSUME UNCHANGED occupied, Storage!HasRoom, NEW w, NEW row, Storage!Swept(w, row)
    PROVE  (Storage!Available(checkouts))'
<1>1. Storage!Available(checkouts')
  BY DEF Storage!HasRoom, Storage!Swept
<1>. QED BY <1>1, RoomAfter

\* Every step of the storage that needs the reserve finds it.
LEMMA StorageMeasures ==
    ASSUME RowTypes, Storage!Next
    PROVE  ReserveKept
<1>r. ASSUME executors' = executors \/ executors' = Storage!Halted,
             round' = round \/ round' # "committed"
      PROVE  ReserveKept
  BY <1>r DEF ReserveKept, Measured, Storage!Halted
<1>1. ASSUME NEW w \in Works,
             \/ Storage!AdmitAtOnce(w) \/ Storage!RequestWork(w)
             \/ Storage!AdmitAcquired(w) \/ Storage!AcquisitionFails(w)
             \/ Storage!Lapse(w) \/ Storage!Cancel(w) \/ Storage!Age(w) \/ Storage!Restore(w)
      PROVE  ReserveKept
  BY <1>1, <1>r
     DEF Storage!AdmitAtOnce, Storage!RequestWork, Storage!AdmitAcquired,
         Storage!AcquisitionFails, Storage!Lapse, Storage!Cancel, Storage!Age, Storage!Restore
<1>2. ASSUME NEW w \in Works, Storage!Claim(w) PROVE ReserveKept
  <2>1. round' = round /\ \E d : executors' = [executors EXCEPT ![d] = "claimed"]
    BY <1>2 DEF Storage!Claim
  <2>2. \A c \in Storage!Claims : executors'[c] = executors[c] \/ executors'[c] = "claimed"
    BY <2>1 DEF RowTypes
  <2>. QED BY <2>1, <2>2 DEF ReserveKept, Measured
<1>3. ASSUME NEW c \in Storage!Claims, Storage!ExecutorNext(c) PROVE ReserveKept
  <2>1. ASSUME Storage!StartCodex(c) PROVE ReserveKept
    <3>1. UNCHANGED occupied /\ Storage!HasRoom /\ \E row : Storage!Swept(c[1], row)
      BY <2>1 DEF Storage!StartCodex
    <3>. QED BY <3>1, SweptLeavesRoom DEF ReserveKept
  <2>2. ASSUME \/ Storage!BeginAttempt(c) \/ Storage!MakeCheckout(c) \/ Storage!Cloned(c)
               \/ Storage!CloneFails(c) \/ Storage!StartFails(c) \/ Storage!CodexEnds(c)
               \/ Storage!RemoveCheckout(c)
        PROVE  ReserveKept
    <3>1. round' = round
      BY <2>2 DEF Storage!BeginAttempt, Storage!MakeCheckout, Storage!Cloned,
           Storage!CloneFails, Storage!StartFails, Storage!CodexEnds, Storage!RemoveCheckout
    <3>2. \E there : there # "started" /\ executors' = [executors EXCEPT ![c] = there]
      BY <2>2 DEF Storage!BeginAttempt, Storage!MakeCheckout, Storage!Cloned,
           Storage!CloneFails, Storage!StartFails, Storage!CodexEnds, Storage!RemoveCheckout
    <3>3. \A d \in Storage!Claims : executors'[d] = executors[d] \/ executors'[d] # "started"
      BY <3>2 DEF RowTypes
    <3>. QED BY <3>1, <3>3 DEF ReserveKept, Measured
  <2>. QED BY <1>3, <2>1, <2>2 DEF Storage!ExecutorNext
<1>4. ASSUME Storage!CommitObservation PROVE ReserveKept
  <2>1. UNCHANGED <<occupied, measurable, executors>>
    BY <1>4 DEF Storage!CommitObservation
  <2>2. CASE Storage!ReadFor("available")
    BY <2>1, <2>2, ReadLeavesRoom DEF ReserveKept
  <2>3. CASE round' = "idle"
    BY <2>1, <2>3, <1>r
  <2>. QED BY <1>4, <2>2, <2>3 DEF Storage!CommitObservation
<1>5. ASSUME Storage!CommitBaseline PROVE ReserveKept
  <2>1. UNCHANGED <<occupied, executors, checkouts>>
    BY <1>5 DEF Storage!CommitBaseline
  <2>2. CASE Storage!MeasureAvailable
    BY <2>1, <2>2, RoomAfter DEF ReserveKept, Storage!MeasureAvailable
  <2>3. CASE round' = "idle"
    BY <2>1, <2>3, <1>r
  <2>. QED BY <1>5, <2>2, <2>3 DEF Storage!CommitBaseline
<1>6. ASSUME \/ Storage!Inspect \/ Storage!BeginRound \/ Storage!DutyFails
             \/ Storage!DailyCleanup \/ Storage!Crash \/ Storage!Restart \/ Storage!Break
             \/ \E f \in Storage!Filesystems : Storage!Occupy(f)
      PROVE  ReserveKept
  BY <1>6, <1>r
     DEF Storage!Inspect, Storage!BeginRound, Storage!DutyFails, Storage!DailyCleanup,
         Storage!Crash, Storage!Restart, Storage!Break, Storage!Occupy
<1>. QED BY <1>1, <1>2, <1>3, <1>4, <1>5, <1>6 DEF Storage!Next

\* THEOREM: an observation is committed and a Codex started only while both
\* filesystems have the reserve: the measurement that lets a step through is
\* the one of its own turn, after the cleanup it caused
\* (runStorageReserveTransaction, assertCodexStartAvailable).
THEOREM GuardsKeepTheReserve == Spec => GuardedStepsKeepTheReserve
<1>1. Init => RowTypes /\ StorageInv
  BY StorageInit
<1>2. ASSUME RowTypes /\ StorageInv, [Next]_all PROVE (RowTypes /\ StorageInv)'
  <2>1. CASE OfStorage(Storage!Next)
    BY <1>2, <2>1, StorageStep DEF OfStorage
  <2>2. CASE UNCHANGED reserveVars
    BY <1>2, <2>2, StorageRests
  <2>. QED BY <1>2, <2>1, <2>2
         DEF Next, all, AtGitHub, AtForgejo, OfChannel, OfBackup, OfRestore
<1>3. ASSUME RowTypes /\ StorageInv, [Next]_all PROVE [ReserveKept]_(Storage!vars)
  <2>1. CASE OfStorage(Storage!Next)
    BY <1>3, <2>1, StorageMeasures DEF OfStorage
  <2>2. CASE UNCHANGED reserveVars
    BY <2>2 DEF reserveVars, Storage!vars
  <2>. QED BY <1>3, <2>1, <2>2
         DEF Next, all, AtGitHub, AtForgejo, OfChannel, OfBackup, OfRestore
<1>. QED BY <1>1, <1>2, <1>3, PTL
       DEF Spec, GuardedStepsKeepTheReserve, Storage!GuardedStepsKeepTheReserve,
           ReserveKept, Measured

-----------------------------------------------------------------------------
(***************************************************************************)
(* The offline restore                                                     *)
(***************************************************************************)
Before == {"copy", "prepare", "synchronize", "retain", "retainWal", "syncRetained",
           "checkpoint"}
Removing == {"removeWal", "syncState", "syncKept", "publish"}
Published == {"syncPublished", "cleanUp"}
Undoing == {"rollback", "unpublish", "relink", "syncRollback"}
Taken == step = "rollback" /\ committed   \* the copy is to be taken back

\* The name of the database before the restore.
Named == IF Restore!Present THEN "original" ELSE "none"

\* The names are records of names, on disk and in memory.
NamesTyped ==
    /\ original \in Restore!Kinds /\ step \in Restore!Steps
    /\ state \in stateViews /\ stateViews \subseteq Restore!Views
    /\ retained \in retainedViews /\ retainedViews \subseteq Restore!RetainedViews

\* How the original was consolidated is what it is now.
Consolidated ==
    /\ original = "behind" => ~checkpointed
    /\ opaque => original = "corrupt"
    /\ checkpointed => original = "whole"
    /\ committed /\ Restore!Present => opaque \/ checkpointed

\* What each step finds done.
Stages ==
    /\ step \in Before => ~committed /\ ~opaque /\ ~checkpointed
    /\ step \in Removing => ~committed /\ (Restore!Present => opaque \/ checkpointed)
    /\ step \in Published \cup {"unpublish", "relink"} => committed
    /\ step = "syncRollback" => committed \/ ~opaque
    /\ step \in {"checkpoint", "relink"} => Restore!Present
    /\ step = "discard" => Restore!Present \/ (~opaque /\ ~checkpointed /\ ~committed)

\* A failed rollback and a report belong to the end.
Ends ==
    /\ unrolled => /\ step \in {"unpublish", "relink", "syncRollback", "over"}
                   /\ report \in {"none", "retained"}
    /\ report # "none" => step = "over"
    /\ report = "restored" => committed

\* The copy is durable before the original is touched, and has its name until
\* it is published.
CopyIsDurable ==
    /\ step \in {"retain", "retainWal", "syncRetained", "checkpoint"} \cup Removing =>
          candidate = "durable"
    /\ committed => candidate = "durable"
    /\ step \in (Before \ {"copy"}) \cup Removing => retained.candidate = "snapshot"

\* Until the copy is published the original has its name, and until it is
\* consolidated its WAL has one.
Untouched ==
    ~committed => \A v \in stateViews :
        /\ v.database = Named
        /\ ~opaque /\ ~checkpointed => (v.wal = "wal" <=> original \in {"behind", "corrupt"})

\* The original keeps its second name until that becomes its first again.
SecondName ==
    /\ step \in {"retainWal", "syncRetained", "checkpoint"} => retained.previous = Named
    /\ step \in Removing \cup Published \cup {"unpublish"} \/ Taken =>
          retained.previous = Named

\* A published copy has no WAL beside it.
NoForeignWal ==
    /\ step = "syncState" => state.wal = "none"
    /\ step \in {"syncKept", "publish", "unpublish"} \cup Published \/ Taken =>
          \A v \in stateViews : v.wal = "none"
    /\ ~unrolled => \A v \in stateViews : v.database = "snapshot" => v.wal = "none"
    /\ \A v \in stateViews : v.database \in {Named, "snapshot"}

\* The second names of an original that cannot be read are durable before its
\* first ones go, and stay until those are back.
OpaqueIsRetained ==
    opaque =>
        /\ step \in Removing \cup Published \cup Undoing =>
              \A r \in retainedViews : r.wal = "wal"
        /\ step \in Removing \cup Published \cup {"rollback", "unpublish"} =>
              \A r \in retainedViews : r.previous = "original"
SecondNamesDurable ==
    original = "corrupt" =>
        /\ step \in {"syncRetained", "checkpoint"} =>
              retained.wal = "wal" /\ retained.previous = "original"
        /\ step = "checkpoint" =>
              \A r \in retainedViews : r.wal = "wal" /\ r.previous = "original"

\* A rollback that did not fail has put the original back.
PutBack ==
    /\ step \in {"relink", "syncRollback"} /\ ~unrolled => state.database = Named
    /\ step = "syncRollback" /\ ~unrolled /\ original = "corrupt" => state.wal = "wal"
    /\ step = "discard" \/ report = "failed" =>
          \A v \in stateViews : /\ v.database = Named
                                /\ original \in {"behind", "corrupt"} => v.wal = "wal"

\* A restore that is reported has put the copy in place for good.
InPlace ==
    /\ step = "syncPublished" => state.database = "snapshot"
    /\ step = "cleanUp" \/ report = "restored" =>
          \A v \in stateViews : v.database = "snapshot" /\ v.wal = "none"

\* Whatever a power loss leaves of either directory, an original that cannot be
\* read has both its names until the copy is published.
BothKept ==
    original = "corrupt" => \A v \in stateViews, r \in retainedViews :
        v.database # "snapshot" => /\ "original" \in {v.database, r.previous}
                                   /\ "wal" \in {v.wal, r.wal}

RestoreInv ==
    /\ NamesTyped /\ Consolidated /\ Stages /\ Ends /\ CopyIsDurable /\ Untouched
    /\ SecondName /\ NoForeignWal /\ OpaqueIsRetained /\ SecondNamesDurable /\ PutBack
    /\ InPlace /\ BothKept

-----------------------------------------------------------------------------

\* The snapshot is copied (Copy).
LEMMA CopyKeeps ==
    ASSUME RestoreInv, Restore!Copy
    PROVE  RestoreInv'
<1>. USE DEF Restore!Copy, Restore!InRetained, Restore!StateKept, Restore!Flags,
         Restore!Report, Restore!Present, Named, Taken, Before, Removing, Published,
         Undoing
<1>1. Consolidated' /\ Stages' /\ Ends'
  BY DEF RestoreInv, Consolidated, Stages, Ends
<1>2. NamesTyped' /\ CopyIsDurable'
  BY DEF RestoreInv, NamesTyped, Stages, Ends, CopyIsDurable, Restore!Kinds,
         Restore!Views, Restore!RetainedViews, Restore!Files, Restore!Steps
<1>3. Untouched' /\ SecondName' /\ NoForeignWal'
  BY DEF RestoreInv, NamesTyped, Consolidated, Stages, Ends, CopyIsDurable, Untouched,
         SecondName, NoForeignWal, PutBack, Restore!Views, Restore!RetainedViews,
         Restore!Kinds
<1>4. OpaqueIsRetained' /\ SecondNamesDurable'
  BY DEF RestoreInv, NamesTyped, Consolidated, Stages, Untouched, SecondName,
         OpaqueIsRetained, SecondNamesDurable, Restore!Views, Restore!RetainedViews,
         Restore!Kinds
<1>5. PutBack' /\ InPlace'
  BY DEF RestoreInv, NamesTyped, Consolidated, Stages, Ends, CopyIsDurable, Untouched,
         SecondName, NoForeignWal, OpaqueIsRetained, PutBack, InPlace, Restore!Views,
         Restore!RetainedViews, Restore!Kinds
<1>6. BothKept'
  BY DEF RestoreInv, NamesTyped, Consolidated, Stages, Untouched, OpaqueIsRetained,
         SecondNamesDurable, PutBack, InPlace, BothKept, Restore!Views,
         Restore!RetainedViews, Restore!Kinds
<1>. QED BY <1>1, <1>2, <1>3, <1>4, <1>5, <1>6 DEF RestoreInv

\* The copy is prepared (Prepare).
LEMMA PrepareKeeps ==
    ASSUME RestoreInv, Restore!Prepare
    PROVE  RestoreInv'
<1>. USE DEF Restore!Prepare, Restore!StateKept, Restore!RetainedKept, Restore!Flags,
         Restore!Report, Restore!Present, Named, Taken, Before, Removing, Published,
         Undoing
<1>1. Consolidated' /\ Stages' /\ Ends'
  BY DEF RestoreInv, Consolidated, Stages, Ends
<1>2. NamesTyped' /\ CopyIsDurable'
  BY DEF RestoreInv, NamesTyped, Stages, Ends, CopyIsDurable, Restore!Kinds,
         Restore!Views, Restore!RetainedViews, Restore!Files, Restore!Steps
<1>3. Untouched' /\ SecondName' /\ NoForeignWal'
  BY DEF RestoreInv, NamesTyped, Consolidated, Stages, Ends, CopyIsDurable, Untouched,
         SecondName, NoForeignWal, PutBack, Restore!Views, Restore!RetainedViews,
         Restore!Kinds
<1>4. OpaqueIsRetained' /\ SecondNamesDurable'
  BY DEF RestoreInv, NamesTyped, Consolidated, Stages, Untouched, SecondName,
         OpaqueIsRetained, SecondNamesDurable, Restore!Views, Restore!RetainedViews,
         Restore!Kinds
<1>5. PutBack' /\ InPlace'
  BY DEF RestoreInv, NamesTyped, Consolidated, Stages, Ends, CopyIsDurable, Untouched,
         SecondName, NoForeignWal, OpaqueIsRetained, PutBack, InPlace, Restore!Views,
         Restore!RetainedViews, Restore!Kinds
<1>6. BothKept'
  BY DEF RestoreInv, NamesTyped, Consolidated, Stages, Untouched, OpaqueIsRetained,
         SecondNamesDurable, PutBack, InPlace, BothKept, Restore!Views,
         Restore!RetainedViews, Restore!Kinds
<1>. QED BY <1>1, <1>2, <1>3, <1>4, <1>5, <1>6 DEF RestoreInv

\* The copy is made durable (SynchronizeCandidate).
LEMMA SynchronizeCandidateKeeps ==
    ASSUME RestoreInv, Restore!SynchronizeCandidate
    PROVE  RestoreInv'
<1>. USE DEF Restore!SynchronizeCandidate, Restore!StateKept, Restore!RetainedKept,
         Restore!Flags, Restore!Report, Restore!Present, Named, Taken, Before,
         Removing, Published, Undoing
<1>1. Consolidated' /\ Stages' /\ Ends'
  BY DEF RestoreInv, Consolidated, Stages, Ends
<1>2. NamesTyped' /\ CopyIsDurable'
  BY DEF RestoreInv, NamesTyped, Stages, Ends, CopyIsDurable, Restore!Kinds,
         Restore!Views, Restore!RetainedViews, Restore!Files, Restore!Steps
<1>3. Untouched' /\ SecondName' /\ NoForeignWal'
  BY DEF RestoreInv, NamesTyped, Consolidated, Stages, Ends, CopyIsDurable, Untouched,
         SecondName, NoForeignWal, PutBack, Restore!Views, Restore!RetainedViews,
         Restore!Kinds
<1>4. OpaqueIsRetained' /\ SecondNamesDurable'
  BY DEF RestoreInv, NamesTyped, Consolidated, Stages, Untouched, SecondName,
         OpaqueIsRetained, SecondNamesDurable, Restore!Views, Restore!RetainedViews,
         Restore!Kinds
<1>5. PutBack' /\ InPlace'
  BY DEF RestoreInv, NamesTyped, Consolidated, Stages, Ends, CopyIsDurable, Untouched,
         SecondName, NoForeignWal, OpaqueIsRetained, PutBack, InPlace, Restore!Views,
         Restore!RetainedViews, Restore!Kinds
<1>6. BothKept'
  BY DEF RestoreInv, NamesTyped, Consolidated, Stages, Untouched, OpaqueIsRetained,
         SecondNamesDurable, PutBack, InPlace, BothKept, Restore!Views,
         Restore!RetainedViews, Restore!Kinds
<1>. QED BY <1>1, <1>2, <1>3, <1>4, <1>5, <1>6 DEF RestoreInv

\* The original gets its second name (RetainOriginal).
LEMMA RetainOriginalKeeps ==
    ASSUME RestoreInv, Restore!RetainOriginal
    PROVE  RestoreInv'
<1>. USE DEF Restore!RetainOriginal, Restore!InRetained, Restore!StateKept,
         Restore!Flags, Restore!Report, Restore!Present, Named, Taken, Before,
         Removing, Published, Undoing
<1>1. Consolidated' /\ Stages' /\ Ends'
  BY DEF RestoreInv, Consolidated, Stages, Ends
<1>2. NamesTyped' /\ CopyIsDurable'
  BY DEF RestoreInv, NamesTyped, Stages, Ends, CopyIsDurable, Restore!Kinds,
         Restore!Views, Restore!RetainedViews, Restore!Files, Restore!Steps
<1>3. Untouched' /\ SecondName' /\ NoForeignWal'
  BY DEF RestoreInv, NamesTyped, Consolidated, Stages, Ends, CopyIsDurable, Untouched,
         SecondName, NoForeignWal, PutBack, Restore!Views, Restore!RetainedViews,
         Restore!Kinds
<1>4. OpaqueIsRetained' /\ SecondNamesDurable'
  BY DEF RestoreInv, NamesTyped, Consolidated, Stages, Untouched, SecondName,
         OpaqueIsRetained, SecondNamesDurable, Restore!Views, Restore!RetainedViews,
         Restore!Kinds
<1>5. PutBack' /\ InPlace'
  BY DEF RestoreInv, NamesTyped, Consolidated, Stages, Ends, CopyIsDurable, Untouched,
         SecondName, NoForeignWal, OpaqueIsRetained, PutBack, InPlace, Restore!Views,
         Restore!RetainedViews, Restore!Kinds
<1>6. BothKept'
  BY DEF RestoreInv, NamesTyped, Consolidated, Stages, Untouched, OpaqueIsRetained,
         SecondNamesDurable, PutBack, InPlace, BothKept, Restore!Views,
         Restore!RetainedViews, Restore!Kinds
<1>. QED BY <1>1, <1>2, <1>3, <1>4, <1>5, <1>6 DEF RestoreInv

\* So does its WAL (RetainWal).
LEMMA RetainWalKeeps ==
    ASSUME RestoreInv, Restore!RetainWal
    PROVE  RestoreInv'
<1>. USE DEF Restore!RetainWal, Restore!InRetained, Restore!StateKept, Restore!Flags,
         Restore!Report, Restore!Present, Named, Taken, Before, Removing, Published,
         Undoing
<1>1. Consolidated' /\ Stages' /\ Ends'
  BY DEF RestoreInv, Consolidated, Stages, Ends
<1>2. NamesTyped' /\ CopyIsDurable'
  BY DEF RestoreInv, NamesTyped, Stages, Ends, CopyIsDurable, Restore!Kinds,
         Restore!Views, Restore!RetainedViews, Restore!Files, Restore!Steps
<1>3. Untouched' /\ SecondName' /\ NoForeignWal'
  BY DEF RestoreInv, NamesTyped, Consolidated, Stages, Ends, CopyIsDurable, Untouched,
         SecondName, NoForeignWal, PutBack, Restore!Views, Restore!RetainedViews,
         Restore!Kinds
<1>4. OpaqueIsRetained' /\ SecondNamesDurable'
  BY DEF RestoreInv, NamesTyped, Consolidated, Stages, Untouched, SecondName,
         OpaqueIsRetained, SecondNamesDurable, Restore!Views, Restore!RetainedViews,
         Restore!Kinds
<1>5. PutBack' /\ InPlace'
  BY DEF RestoreInv, NamesTyped, Consolidated, Stages, Ends, CopyIsDurable, Untouched,
         SecondName, NoForeignWal, OpaqueIsRetained, PutBack, InPlace, Restore!Views,
         Restore!RetainedViews, Restore!Kinds
<1>6. BothKept'
  BY DEF RestoreInv, NamesTyped, Consolidated, Stages, Untouched, OpaqueIsRetained,
         SecondNamesDurable, PutBack, InPlace, BothKept, Restore!Views,
         Restore!RetainedViews, Restore!Kinds
<1>. QED BY <1>1, <1>2, <1>3, <1>4, <1>5, <1>6 DEF RestoreInv

\* The second names are made durable (MakeRetainedDurable).
LEMMA MakeRetainedDurableKeeps ==
    ASSUME RestoreInv, Restore!MakeRetainedDurable
    PROVE  RestoreInv'
<1>. USE DEF Restore!MakeRetainedDurable, Restore!SyncRetained, Restore!StateKept,
         Restore!Flags, Restore!Report, Restore!Present, Named, Taken, Before,
         Removing, Published, Undoing
<1>1. Consolidated' /\ Stages' /\ Ends'
  BY DEF RestoreInv, Consolidated, Stages, Ends
<1>2. NamesTyped' /\ CopyIsDurable'
  BY DEF RestoreInv, NamesTyped, Stages, Ends, CopyIsDurable, Restore!Kinds,
         Restore!Views, Restore!RetainedViews, Restore!Files, Restore!Steps
<1>3. Untouched' /\ SecondName' /\ NoForeignWal'
  BY DEF RestoreInv, NamesTyped, Consolidated, Stages, Ends, CopyIsDurable, Untouched,
         SecondName, NoForeignWal, PutBack, Restore!Views, Restore!RetainedViews,
         Restore!Kinds
<1>4. OpaqueIsRetained' /\ SecondNamesDurable'
  BY DEF RestoreInv, NamesTyped, Consolidated, Stages, Untouched, SecondName,
         OpaqueIsRetained, SecondNamesDurable, Restore!Views, Restore!RetainedViews,
         Restore!Kinds
<1>5. PutBack' /\ InPlace'
  BY DEF RestoreInv, NamesTyped, Consolidated, Stages, Ends, CopyIsDurable, Untouched,
         SecondName, NoForeignWal, OpaqueIsRetained, PutBack, InPlace, Restore!Views,
         Restore!RetainedViews, Restore!Kinds
<1>6. BothKept'
  BY DEF RestoreInv, NamesTyped, Consolidated, Stages, Untouched, OpaqueIsRetained,
         SecondNamesDurable, PutBack, InPlace, BothKept, Restore!Views,
         Restore!RetainedViews, Restore!Kinds
<1>. QED BY <1>1, <1>2, <1>3, <1>4, <1>5, <1>6 DEF RestoreInv

\* The original takes in its WAL, or turns out to be unreadable (Consolidate).
LEMMA ConsolidateKeeps ==
    ASSUME RestoreInv, Restore!Consolidate
    PROVE  RestoreInv'
<1>. USE DEF Restore!Consolidate, Restore!StateKept, Restore!RetainedKept,
         Restore!Report, Restore!Present, Named, Taken, Before, Removing, Published,
         Undoing
<1>1. Consolidated' /\ Stages' /\ Ends'
  BY DEF RestoreInv, Consolidated, Stages, Ends
<1>2. NamesTyped' /\ CopyIsDurable'
  BY DEF RestoreInv, NamesTyped, Stages, Ends, CopyIsDurable, Restore!Kinds,
         Restore!Views, Restore!RetainedViews, Restore!Files, Restore!Steps
<1>3. Untouched' /\ SecondName' /\ NoForeignWal'
  <2>0. original # "absent"
    BY DEF RestoreInv, Stages
  <2>1. Named' = Named /\ stateViews' = stateViews /\ state' = state /\ retained' = retained
    BY <2>0
  <2>2. opaque' \/ checkpointed'
    OBVIOUS
  <2>3. step = "checkpoint" /\ step' = "removeWal" /\ committed' = committed /\ unrolled' = unrolled
    OBVIOUS
  <2>. HIDE DEF Named
  <2>4. Untouched'
    BY <2>1, <2>2, <2>3 DEF RestoreInv, Untouched
  <2>5. SecondName'
    BY <2>1, <2>3 DEF RestoreInv, SecondName
  <2>6. NoForeignWal'
    BY <2>1, <2>3 DEF RestoreInv, NoForeignWal
  <2>. QED BY <2>4, <2>5, <2>6
<1>4. OpaqueIsRetained' /\ SecondNamesDurable'
  BY DEF RestoreInv, NamesTyped, Consolidated, Stages, Untouched, SecondName,
         OpaqueIsRetained, SecondNamesDurable, Restore!Views, Restore!RetainedViews,
         Restore!Kinds
<1>5. PutBack' /\ InPlace'
  BY DEF RestoreInv, NamesTyped, Consolidated, Stages, Ends, CopyIsDurable, Untouched,
         SecondName, NoForeignWal, OpaqueIsRetained, PutBack, InPlace, Restore!Views,
         Restore!RetainedViews, Restore!Kinds
<1>6. BothKept'
  BY DEF RestoreInv, NamesTyped, Consolidated, Stages, Untouched, OpaqueIsRetained,
         SecondNamesDurable, PutBack, InPlace, BothKept, Restore!Views,
         Restore!RetainedViews, Restore!Kinds
<1>. QED BY <1>1, <1>2, <1>3, <1>4, <1>5, <1>6 DEF RestoreInv

\* The WAL loses its name (RemoveWal).
LEMMA RemoveWalKeeps ==
    ASSUME RestoreInv, Restore!RemoveWal
    PROVE  RestoreInv'
<1>. USE DEF Restore!RemoveWal, Restore!InState, Restore!InRetained,
         Restore!RetainedKept, Restore!Flags, Restore!Report, Restore!Present, Named,
         Taken, Before, Removing, Published, Undoing
<1>1. Consolidated' /\ Stages' /\ Ends'
  BY DEF RestoreInv, Consolidated, Stages, Ends
<1>2. NamesTyped' /\ CopyIsDurable'
  BY DEF RestoreInv, NamesTyped, Stages, Ends, CopyIsDurable, Restore!Kinds,
         Restore!Views, Restore!RetainedViews, Restore!Files, Restore!Steps
<1>3. Untouched' /\ SecondName' /\ NoForeignWal'
  BY DEF RestoreInv, NamesTyped, Consolidated, Stages, Ends, CopyIsDurable, Untouched,
         SecondName, NoForeignWal, PutBack, Restore!Views, Restore!RetainedViews,
         Restore!Kinds
<1>4. OpaqueIsRetained' /\ SecondNamesDurable'
  BY DEF RestoreInv, NamesTyped, Consolidated, Stages, Untouched, SecondName,
         OpaqueIsRetained, SecondNamesDurable, Restore!Views, Restore!RetainedViews,
         Restore!Kinds
<1>5. PutBack' /\ InPlace'
  BY DEF RestoreInv, NamesTyped, Consolidated, Stages, Ends, CopyIsDurable, Untouched,
         SecondName, NoForeignWal, OpaqueIsRetained, PutBack, InPlace, Restore!Views,
         Restore!RetainedViews, Restore!Kinds
<1>6. BothKept'
  BY DEF RestoreInv, NamesTyped, Consolidated, Stages, Untouched, OpaqueIsRetained,
         SecondNamesDurable, PutBack, InPlace, BothKept, Restore!Views,
         Restore!RetainedViews, Restore!Kinds
<1>. QED BY <1>1, <1>2, <1>3, <1>4, <1>5, <1>6 DEF RestoreInv

\* That is made durable (MakeRemovalDurable).
LEMMA MakeRemovalDurableKeeps ==
    ASSUME RestoreInv, Restore!MakeRemovalDurable
    PROVE  RestoreInv'
<1>. USE DEF Restore!MakeRemovalDurable, Restore!SyncState, Restore!RetainedKept,
         Restore!Flags, Restore!Report, Restore!Present, Named, Taken, Before,
         Removing, Published, Undoing
<1>1. Consolidated' /\ Stages' /\ Ends'
  BY DEF RestoreInv, Consolidated, Stages, Ends
<1>2. NamesTyped' /\ CopyIsDurable'
  BY DEF RestoreInv, NamesTyped, Stages, Ends, CopyIsDurable, Restore!Kinds,
         Restore!Views, Restore!RetainedViews, Restore!Files, Restore!Steps
<1>3. Untouched' /\ SecondName' /\ NoForeignWal'
  BY DEF RestoreInv, NamesTyped, Consolidated, Stages, Ends, CopyIsDurable, Untouched,
         SecondName, NoForeignWal, PutBack, Restore!Views, Restore!RetainedViews,
         Restore!Kinds
<1>4. OpaqueIsRetained' /\ SecondNamesDurable'
  BY DEF RestoreInv, NamesTyped, Consolidated, Stages, Untouched, SecondName,
         OpaqueIsRetained, SecondNamesDurable, Restore!Views, Restore!RetainedViews,
         Restore!Kinds
<1>5. PutBack' /\ InPlace'
  BY DEF RestoreInv, NamesTyped, Consolidated, Stages, Ends, CopyIsDurable, Untouched,
         SecondName, NoForeignWal, OpaqueIsRetained, PutBack, InPlace, Restore!Views,
         Restore!RetainedViews, Restore!Kinds
<1>6. BothKept'
  BY DEF RestoreInv, NamesTyped, Consolidated, Stages, Untouched, OpaqueIsRetained,
         SecondNamesDurable, PutBack, InPlace, BothKept, Restore!Views,
         Restore!RetainedViews, Restore!Kinds
<1>. QED BY <1>1, <1>2, <1>3, <1>4, <1>5, <1>6 DEF RestoreInv

\* What is retained is made durable (MakeKeptDurable).
LEMMA MakeKeptDurableKeeps ==
    ASSUME RestoreInv, Restore!MakeKeptDurable
    PROVE  RestoreInv'
<1>. USE DEF Restore!MakeKeptDurable, Restore!SyncRetained, Restore!StateKept,
         Restore!Flags, Restore!Report, Restore!Present, Named, Taken, Before,
         Removing, Published, Undoing
<1>1. Consolidated' /\ Stages' /\ Ends'
  BY DEF RestoreInv, Consolidated, Stages, Ends
<1>2. NamesTyped' /\ CopyIsDurable'
  BY DEF RestoreInv, NamesTyped, Stages, Ends, CopyIsDurable, Restore!Kinds,
         Restore!Views, Restore!RetainedViews, Restore!Files, Restore!Steps
<1>3. Untouched' /\ SecondName' /\ NoForeignWal'
  BY DEF RestoreInv, NamesTyped, Consolidated, Stages, Ends, CopyIsDurable, Untouched,
         SecondName, NoForeignWal, PutBack, Restore!Views, Restore!RetainedViews,
         Restore!Kinds
<1>4. OpaqueIsRetained' /\ SecondNamesDurable'
  BY DEF RestoreInv, NamesTyped, Consolidated, Stages, Untouched, SecondName,
         OpaqueIsRetained, SecondNamesDurable, Restore!Views, Restore!RetainedViews,
         Restore!Kinds
<1>5. PutBack' /\ InPlace'
  BY DEF RestoreInv, NamesTyped, Consolidated, Stages, Ends, CopyIsDurable, Untouched,
         SecondName, NoForeignWal, OpaqueIsRetained, PutBack, InPlace, Restore!Views,
         Restore!RetainedViews, Restore!Kinds
<1>6. BothKept'
  BY DEF RestoreInv, NamesTyped, Consolidated, Stages, Untouched, OpaqueIsRetained,
         SecondNamesDurable, PutBack, InPlace, BothKept, Restore!Views,
         Restore!RetainedViews, Restore!Kinds
<1>. QED BY <1>1, <1>2, <1>3, <1>4, <1>5, <1>6 DEF RestoreInv

\* The copy takes the name of the original (Publish).
LEMMA PublishKeeps ==
    ASSUME RestoreInv, Restore!Publish
    PROVE  RestoreInv'
<1>. USE DEF Restore!Publish, Restore!InState, Restore!InRetained, Restore!Report,
         Restore!Present, Named, Taken, Before, Removing, Published, Undoing
<1>1. Consolidated' /\ Stages' /\ Ends'
  BY DEF RestoreInv, Consolidated, Stages, Ends
<1>2. NamesTyped' /\ CopyIsDurable'
  BY DEF RestoreInv, NamesTyped, Stages, Ends, CopyIsDurable, Restore!Kinds,
         Restore!Views, Restore!RetainedViews, Restore!Files, Restore!Steps
<1>3. Untouched' /\ SecondName' /\ NoForeignWal'
  BY DEF RestoreInv, NamesTyped, Consolidated, Stages, Ends, CopyIsDurable, Untouched,
         SecondName, NoForeignWal, PutBack, Restore!Views, Restore!RetainedViews,
         Restore!Kinds
<1>4. OpaqueIsRetained' /\ SecondNamesDurable'
  BY DEF RestoreInv, NamesTyped, Consolidated, Stages, Untouched, SecondName,
         OpaqueIsRetained, SecondNamesDurable, Restore!Views, Restore!RetainedViews,
         Restore!Kinds
<1>5. PutBack' /\ InPlace'
  BY DEF RestoreInv, NamesTyped, Consolidated, Stages, Ends, CopyIsDurable, Untouched,
         SecondName, NoForeignWal, OpaqueIsRetained, PutBack, InPlace, Restore!Views,
         Restore!RetainedViews, Restore!Kinds
<1>6. BothKept'
  BY DEF RestoreInv, NamesTyped, Consolidated, Stages, Untouched, OpaqueIsRetained,
         SecondNamesDurable, PutBack, InPlace, BothKept, Restore!Views,
         Restore!RetainedViews, Restore!Kinds
<1>. QED BY <1>1, <1>2, <1>3, <1>4, <1>5, <1>6 DEF RestoreInv

\* That is made durable (MakePublicationDurable).
LEMMA MakePublicationDurableKeeps ==
    ASSUME RestoreInv, Restore!MakePublicationDurable
    PROVE  RestoreInv'
<1>. USE DEF Restore!MakePublicationDurable, Restore!SyncState, Restore!RetainedKept,
         Restore!Flags, Restore!Report, Restore!Present, Named, Taken, Before,
         Removing, Published, Undoing
<1>1. Consolidated' /\ Stages' /\ Ends'
  BY DEF RestoreInv, Consolidated, Stages, Ends
<1>2. NamesTyped' /\ CopyIsDurable'
  BY DEF RestoreInv, NamesTyped, Stages, Ends, CopyIsDurable, Restore!Kinds,
         Restore!Views, Restore!RetainedViews, Restore!Files, Restore!Steps
<1>3. Untouched' /\ SecondName' /\ NoForeignWal'
  BY DEF RestoreInv, NamesTyped, Consolidated, Stages, Ends, CopyIsDurable, Untouched,
         SecondName, NoForeignWal, PutBack, Restore!Views, Restore!RetainedViews,
         Restore!Kinds
<1>4. OpaqueIsRetained' /\ SecondNamesDurable'
  BY DEF RestoreInv, NamesTyped, Consolidated, Stages, Untouched, SecondName,
         OpaqueIsRetained, SecondNamesDurable, Restore!Views, Restore!RetainedViews,
         Restore!Kinds
<1>5. PutBack' /\ InPlace'
  BY DEF RestoreInv, NamesTyped, Consolidated, Stages, Ends, CopyIsDurable, Untouched,
         SecondName, NoForeignWal, OpaqueIsRetained, PutBack, InPlace, Restore!Views,
         Restore!RetainedViews, Restore!Kinds
<1>6. BothKept'
  BY DEF RestoreInv, NamesTyped, Consolidated, Stages, Untouched, OpaqueIsRetained,
         SecondNamesDurable, PutBack, InPlace, BothKept, Restore!Views,
         Restore!RetainedViews, Restore!Kinds
<1>. QED BY <1>1, <1>2, <1>3, <1>4, <1>5, <1>6 DEF RestoreInv

\* The second names go (CleanUp).
LEMMA CleanUpKeeps ==
    ASSUME RestoreInv, Restore!CleanUp
    PROVE  RestoreInv'
<1>. USE DEF Restore!CleanUp, Restore!InRetained, Restore!StateKept, Restore!Flags,
         Restore!Empty, Restore!Present, Named, Taken, Before, Removing, Published,
         Undoing
<1>1. Consolidated' /\ Stages' /\ Ends'
  BY DEF RestoreInv, Consolidated, Stages, Ends
<1>2. NamesTyped' /\ CopyIsDurable'
  BY DEF RestoreInv, NamesTyped, Stages, Ends, CopyIsDurable, Restore!Kinds,
         Restore!Views, Restore!RetainedViews, Restore!Files, Restore!Steps
<1>3. Untouched' /\ SecondName' /\ NoForeignWal'
  BY DEF RestoreInv, NamesTyped, Consolidated, Stages, Ends, CopyIsDurable, Untouched,
         SecondName, NoForeignWal, PutBack, Restore!Views, Restore!RetainedViews,
         Restore!Kinds
<1>4. OpaqueIsRetained' /\ SecondNamesDurable'
  BY DEF RestoreInv, NamesTyped, Consolidated, Stages, Untouched, SecondName,
         OpaqueIsRetained, SecondNamesDurable, Restore!Views, Restore!RetainedViews,
         Restore!Kinds
<1>5. PutBack' /\ InPlace'
  BY DEF RestoreInv, NamesTyped, Consolidated, Stages, Ends, CopyIsDurable, Untouched,
         SecondName, NoForeignWal, OpaqueIsRetained, PutBack, InPlace, Restore!Views,
         Restore!RetainedViews, Restore!Kinds
<1>6. BothKept'
  BY DEF RestoreInv, NamesTyped, Consolidated, Stages, Untouched, OpaqueIsRetained,
         SecondNamesDurable, PutBack, InPlace, BothKept, Restore!Views,
         Restore!RetainedViews, Restore!Kinds
<1>. QED BY <1>1, <1>2, <1>3, <1>4, <1>5, <1>6 DEF RestoreInv

\* An operation fails (Fails).
LEMMA FailsKeeps ==
    ASSUME RestoreInv, Restore!Fails
    PROVE  RestoreInv'
<1>1. /\ UNCHANGED <<original, candidate, committed, checkpointed, opaque, unrolled>>
      /\ UNCHANGED <<state, stateViews, retained, retainedViews>>
      /\ report' = report \/ (step = "cleanUp" /\ report' = "retained")
  BY DEF Restore!Fails, Restore!StateKept, Restore!RetainedKept, Restore!Flags
<1>2. \/ step \in {"copy", "prepare", "synchronize"} /\ step' = "discard"
      \/ step = "cleanUp" /\ step' = "over"
      \/ /\ step \in {"retain", "retainWal", "syncRetained", "checkpoint", "removeWal",
                      "syncState", "syncKept", "publish", "syncPublished"}
         /\ step' = "rollback"
  BY DEF Restore!Fails, Restore!AfterFailure, Restore!Steps
<1>. USE DEF Restore!Present, Named, Taken, Before, Removing, Published, Undoing, RestoreInv
<1>3. Consolidated' /\ Stages'
  BY <1>1, <1>2 DEF Consolidated, Stages
<1>4. Ends'
  BY <1>1, <1>2 DEF Stages, Ends
<1>5. NamesTyped'
  BY <1>1, <1>2 DEF NamesTyped, Restore!Steps
<1>6. CopyIsDurable' /\ Untouched'
  BY <1>1, <1>2 DEF CopyIsDurable, Untouched
<1>7. SecondName'
  BY <1>1, <1>2 DEF Stages, SecondName
<1>8. NoForeignWal'
  BY <1>1, <1>2 DEF Stages, NoForeignWal
<1>9. OpaqueIsRetained' /\ SecondNamesDurable'
  BY <1>1, <1>2 DEF Stages, OpaqueIsRetained, SecondNamesDurable
<1>10. PutBack'
  BY <1>1, <1>2 DEF Consolidated, Stages, Ends, Untouched, PutBack
<1>11. InPlace' /\ BothKept'
  BY <1>1, <1>2 DEF Ends, InPlace, BothKept
<1>. QED BY <1>3, <1>4, <1>5, <1>6, <1>7, <1>8, <1>9, <1>10, <1>11

\* The rollback begins (Rollback).
LEMMA RollbackKeeps ==
    ASSUME RestoreInv, Restore!Rollback
    PROVE  RestoreInv'
<1>. USE DEF Restore!Rollback, Restore!InRetained, Restore!StateKept,
         Restore!RetainedKept, Restore!Flags, Restore!Present, Named, Taken, Before,
         Removing, Published, Undoing
<1>1. Consolidated' /\ Stages' /\ Ends'
  BY DEF RestoreInv, Consolidated, Stages, Ends
<1>2. NamesTyped' /\ CopyIsDurable'
  BY DEF RestoreInv, NamesTyped, Stages, Ends, CopyIsDurable, Restore!Kinds,
         Restore!Views, Restore!RetainedViews, Restore!Files, Restore!Steps
<1>3. Untouched' /\ SecondName' /\ NoForeignWal'
  BY DEF RestoreInv, NamesTyped, Consolidated, Stages, Ends, CopyIsDurable, Untouched,
         SecondName, NoForeignWal, PutBack, Restore!Views, Restore!RetainedViews,
         Restore!Kinds
<1>4. OpaqueIsRetained' /\ SecondNamesDurable'
  BY DEF RestoreInv, NamesTyped, Consolidated, Stages, Untouched, SecondName,
         OpaqueIsRetained, SecondNamesDurable, Restore!Views, Restore!RetainedViews,
         Restore!Kinds
<1>5. PutBack' /\ InPlace'
  BY DEF RestoreInv, NamesTyped, Consolidated, Stages, Ends, CopyIsDurable, Untouched,
         SecondName, NoForeignWal, OpaqueIsRetained, PutBack, InPlace, Restore!Views,
         Restore!RetainedViews, Restore!Kinds
<1>6. BothKept'
  BY DEF RestoreInv, NamesTyped, Consolidated, Stages, Untouched, OpaqueIsRetained,
         SecondNamesDurable, PutBack, InPlace, BothKept, Restore!Views,
         Restore!RetainedViews, Restore!Kinds
<1>. QED BY <1>1, <1>2, <1>3, <1>4, <1>5, <1>6 DEF RestoreInv

\* The original gets its name back (Unpublish).
LEMMA UnpublishKeeps ==
    ASSUME RestoreInv, Restore!Unpublish
    PROVE  RestoreInv'
<1>. USE DEF Restore!Unpublish, Restore!InState, Restore!InRetained, Restore!Flags,
         Restore!Report, Restore!Present, Named, Taken, Before, Removing, Published,
         Undoing
<1>1. Consolidated' /\ Stages' /\ Ends'
  BY DEF RestoreInv, Consolidated, Stages, Ends
<1>2. NamesTyped' /\ CopyIsDurable'
  BY DEF RestoreInv, NamesTyped, Stages, Ends, CopyIsDurable, Restore!Kinds,
         Restore!Views, Restore!RetainedViews, Restore!Files, Restore!Steps
<1>3. Untouched' /\ SecondName' /\ NoForeignWal'
  BY DEF RestoreInv, NamesTyped, Consolidated, Stages, Ends, CopyIsDurable, Untouched,
         SecondName, NoForeignWal, PutBack, Restore!Views, Restore!RetainedViews,
         Restore!Kinds
<1>4. OpaqueIsRetained' /\ SecondNamesDurable'
  BY DEF RestoreInv, NamesTyped, Consolidated, Stages, Untouched, SecondName,
         OpaqueIsRetained, SecondNamesDurable, Restore!Views, Restore!RetainedViews,
         Restore!Kinds
<1>5. PutBack' /\ InPlace'
  BY DEF RestoreInv, NamesTyped, Consolidated, Stages, Ends, CopyIsDurable, Untouched,
         SecondName, NoForeignWal, OpaqueIsRetained, PutBack, InPlace, Restore!Views,
         Restore!RetainedViews, Restore!Kinds
<1>6. BothKept'
  BY DEF RestoreInv, NamesTyped, Consolidated, Stages, Untouched, SecondName, NoForeignWal,
     OpaqueIsRetained,
         SecondNamesDurable, PutBack, InPlace, BothKept, Restore!Views,
         Restore!RetainedViews, Restore!Kinds
<1>. QED BY <1>1, <1>2, <1>3, <1>4, <1>5, <1>6 DEF RestoreInv

\* So does its WAL (Relink).
LEMMA RelinkKeeps ==
    ASSUME RestoreInv, Restore!Relink
    PROVE  RestoreInv'
<1>. USE DEF Restore!Relink, Restore!InState, Restore!StateKept, Restore!RetainedKept,
         Restore!Flags, Restore!Report, Restore!Present, Named, Taken, Before,
         Removing, Published, Undoing
<1>1. Consolidated' /\ Stages' /\ Ends'
  BY DEF RestoreInv, Consolidated, Stages, Ends
<1>2. NamesTyped' /\ CopyIsDurable'
  BY DEF RestoreInv, NamesTyped, Stages, Ends, CopyIsDurable, Restore!Kinds,
         Restore!Views, Restore!RetainedViews, Restore!Files, Restore!Steps
<1>3. Untouched' /\ SecondName' /\ NoForeignWal'
  BY DEF RestoreInv, NamesTyped, Consolidated, Stages, Ends, CopyIsDurable, Untouched,
         SecondName, NoForeignWal, PutBack, Restore!Views, Restore!RetainedViews,
         Restore!Kinds
<1>4. OpaqueIsRetained' /\ SecondNamesDurable'
  BY DEF RestoreInv, NamesTyped, Consolidated, Stages, Untouched, SecondName,
         OpaqueIsRetained, SecondNamesDurable, Restore!Views, Restore!RetainedViews,
         Restore!Kinds
<1>5. PutBack' /\ InPlace'
  BY DEF RestoreInv, NamesTyped, Consolidated, Stages, Ends, CopyIsDurable, Untouched,
         SecondName, NoForeignWal, OpaqueIsRetained, PutBack, InPlace, Restore!Views,
         Restore!RetainedViews, Restore!Kinds
<1>6. BothKept'
  BY DEF RestoreInv, NamesTyped, Consolidated, Stages, Untouched, OpaqueIsRetained,
         SecondNamesDurable, PutBack, InPlace, BothKept, Restore!Views,
         Restore!RetainedViews, Restore!Kinds
<1>. QED BY <1>1, <1>2, <1>3, <1>4, <1>5, <1>6 DEF RestoreInv

\* The rollback is made durable (SyncRollback).
LEMMA SyncRollbackKeeps ==
    ASSUME RestoreInv, Restore!SyncRollback
    PROVE  RestoreInv'
<1>. USE DEF Restore!SyncRollback, Restore!SyncState, Restore!SyncRetained,
         Restore!Flags, Restore!Present, Named, Taken, Before, Removing, Published,
         Undoing
<1>1. Consolidated' /\ Stages' /\ Ends'
  BY DEF RestoreInv, Consolidated, Stages, Ends
<1>2. NamesTyped' /\ CopyIsDurable'
  BY DEF RestoreInv, NamesTyped, Stages, Ends, CopyIsDurable, Restore!Kinds,
         Restore!Views, Restore!RetainedViews, Restore!Files, Restore!Steps
<1>3. Untouched' /\ SecondName' /\ NoForeignWal'
  BY DEF RestoreInv, NamesTyped, Consolidated, Stages, Ends, CopyIsDurable, Untouched,
         SecondName, NoForeignWal, PutBack, Restore!Views, Restore!RetainedViews,
         Restore!Kinds
<1>4. OpaqueIsRetained' /\ SecondNamesDurable'
  BY DEF RestoreInv, NamesTyped, Consolidated, Stages, Untouched, SecondName,
         OpaqueIsRetained, SecondNamesDurable, Restore!Views, Restore!RetainedViews,
         Restore!Kinds
<1>5. PutBack' /\ InPlace'
  BY DEF RestoreInv, NamesTyped, Consolidated, Stages, Ends, CopyIsDurable, Untouched,
         SecondName, NoForeignWal, OpaqueIsRetained, PutBack, InPlace, Restore!Views,
         Restore!RetainedViews, Restore!Kinds
<1>6. BothKept'
  BY DEF RestoreInv, NamesTyped, Consolidated, Stages, Untouched, OpaqueIsRetained,
         SecondNamesDurable, PutBack, InPlace, BothKept, Restore!Views,
         Restore!RetainedViews, Restore!Kinds
<1>. QED BY <1>1, <1>2, <1>3, <1>4, <1>5, <1>6 DEF RestoreInv

\* A step of the rollback fails (RollbackFails).
LEMMA RollbackFailsKeeps ==
    ASSUME RestoreInv, Restore!RollbackFails
    PROVE  RestoreInv'
<1>. USE DEF Restore!RollbackFails, Restore!StateKept, Restore!RetainedKept,
         Restore!Flags, Restore!Present, Named, Taken, Before, Removing, Published,
         Undoing
<1>1. Consolidated' /\ Stages' /\ Ends'
  BY DEF RestoreInv, Consolidated, Stages, Ends
<1>2. NamesTyped' /\ CopyIsDurable'
  BY DEF RestoreInv, NamesTyped, Stages, Ends, CopyIsDurable, Restore!Kinds,
         Restore!Views, Restore!RetainedViews, Restore!Files, Restore!Steps
<1>3. Untouched' /\ SecondName' /\ NoForeignWal'
  BY DEF RestoreInv, NamesTyped, Consolidated, Stages, Ends, CopyIsDurable, Untouched,
         SecondName, NoForeignWal, PutBack, Restore!Views, Restore!RetainedViews,
         Restore!Kinds
<1>4. OpaqueIsRetained' /\ SecondNamesDurable'
  BY DEF RestoreInv, NamesTyped, Consolidated, Stages, Untouched, SecondName,
         OpaqueIsRetained, SecondNamesDurable, Restore!Views, Restore!RetainedViews,
         Restore!Kinds
<1>5. PutBack' /\ InPlace'
  BY DEF RestoreInv, NamesTyped, Consolidated, Stages, Ends, CopyIsDurable, Untouched,
         SecondName, NoForeignWal, OpaqueIsRetained, PutBack, InPlace, Restore!Views,
         Restore!RetainedViews, Restore!Kinds
<1>6. BothKept'
  BY DEF RestoreInv, NamesTyped, Consolidated, Stages, Untouched, OpaqueIsRetained,
         SecondNamesDurable, PutBack, InPlace, BothKept, Restore!Views,
         Restore!RetainedViews, Restore!Kinds
<1>. QED BY <1>1, <1>2, <1>3, <1>4, <1>5, <1>6 DEF RestoreInv

\* The copy is discarded (Discard).
LEMMA DiscardKeeps ==
    ASSUME RestoreInv, Restore!Discard
    PROVE  RestoreInv'
<1>. USE DEF Restore!Discard, Restore!InRetained, Restore!StateKept,
         Restore!RetainedKept, Restore!Flags, Restore!Empty, Restore!Present, Named,
         Taken, Before, Removing, Published, Undoing
<1>1. Consolidated' /\ Stages' /\ Ends'
  BY DEF RestoreInv, Consolidated, Stages, Ends
<1>2. NamesTyped' /\ CopyIsDurable'
  BY DEF RestoreInv, NamesTyped, Stages, Ends, CopyIsDurable, Restore!Kinds,
         Restore!Views, Restore!RetainedViews, Restore!Files, Restore!Steps
<1>3. Untouched' /\ SecondName' /\ NoForeignWal'
  BY DEF RestoreInv, NamesTyped, Consolidated, Stages, Ends, CopyIsDurable, Untouched,
         SecondName, NoForeignWal, PutBack, Restore!Views, Restore!RetainedViews,
         Restore!Kinds
<1>4. OpaqueIsRetained' /\ SecondNamesDurable'
  BY DEF RestoreInv, NamesTyped, Consolidated, Stages, Untouched, SecondName,
         OpaqueIsRetained, SecondNamesDurable, Restore!Views, Restore!RetainedViews,
         Restore!Kinds
<1>5. PutBack' /\ InPlace'
  BY DEF RestoreInv, NamesTyped, Consolidated, Stages, Ends, CopyIsDurable, Untouched,
         SecondName, NoForeignWal, OpaqueIsRetained, PutBack, InPlace, Restore!Views,
         Restore!RetainedViews, Restore!Kinds
<1>6. BothKept'
  BY DEF RestoreInv, NamesTyped, Consolidated, Stages, Untouched, OpaqueIsRetained,
         SecondNamesDurable, PutBack, InPlace, BothKept, Restore!Views,
         Restore!RetainedViews, Restore!Kinds
<1>. QED BY <1>1, <1>2, <1>3, <1>4, <1>5, <1>6 DEF RestoreInv

\* The command is killed (Kill).
LEMMA KillKeeps ==
    ASSUME RestoreInv, Restore!Kill
    PROVE  RestoreInv'
<1>. USE DEF Restore!Kill, Restore!StateKept, Restore!RetainedKept, Restore!Flags,
         Restore!Report, Restore!Present, Named, Taken, Before, Removing, Published,
         Undoing
<1>1. Consolidated' /\ Stages' /\ Ends'
  BY DEF RestoreInv, Consolidated, Stages, Ends
<1>2. NamesTyped' /\ CopyIsDurable'
  BY DEF RestoreInv, NamesTyped, Stages, Ends, CopyIsDurable, Restore!Kinds,
         Restore!Views, Restore!RetainedViews, Restore!Files, Restore!Steps
<1>3. Untouched' /\ SecondName' /\ NoForeignWal'
  BY DEF RestoreInv, NamesTyped, Consolidated, Stages, Ends, CopyIsDurable, Untouched,
         SecondName, NoForeignWal, PutBack, Restore!Views, Restore!RetainedViews,
         Restore!Kinds
<1>4. OpaqueIsRetained' /\ SecondNamesDurable'
  BY DEF RestoreInv, NamesTyped, Consolidated, Stages, Untouched, SecondName,
         OpaqueIsRetained, SecondNamesDurable, Restore!Views, Restore!RetainedViews,
         Restore!Kinds
<1>5. PutBack' /\ InPlace'
  BY DEF RestoreInv, NamesTyped, Consolidated, Stages, Ends, CopyIsDurable, Untouched,
         SecondName, NoForeignWal, OpaqueIsRetained, PutBack, InPlace, Restore!Views,
         Restore!RetainedViews, Restore!Kinds
<1>6. BothKept'
  BY DEF RestoreInv, NamesTyped, Consolidated, Stages, Untouched, OpaqueIsRetained,
         SecondNamesDurable, PutBack, InPlace, BothKept, Restore!Views,
         Restore!RetainedViews, Restore!Kinds
<1>. QED BY <1>1, <1>2, <1>3, <1>4, <1>5, <1>6 DEF RestoreInv

\* The power fails (PowerLoss).
LEMMA PowerLossKeeps ==
    ASSUME RestoreInv, Restore!PowerLoss
    PROVE  RestoreInv'
<1>. USE DEF Restore!PowerLoss, Restore!Flags, Restore!Report, Restore!Present, Named,
         Taken, Before, Removing, Published, Undoing
<1>1. Consolidated' /\ Stages' /\ Ends'
  BY DEF RestoreInv, Consolidated, Stages, Ends
<1>2. NamesTyped' /\ CopyIsDurable'
  BY DEF RestoreInv, NamesTyped, Stages, Ends, CopyIsDurable, Restore!Kinds,
         Restore!Views, Restore!RetainedViews, Restore!Files, Restore!Steps
<1>3. Untouched' /\ SecondName' /\ NoForeignWal'
  BY DEF RestoreInv, NamesTyped, Consolidated, Stages, Ends, CopyIsDurable, Untouched,
         SecondName, NoForeignWal, PutBack, Restore!Views, Restore!RetainedViews,
         Restore!Kinds
<1>4. OpaqueIsRetained' /\ SecondNamesDurable'
  BY DEF RestoreInv, NamesTyped, Consolidated, Stages, Untouched, SecondName,
         OpaqueIsRetained, SecondNamesDurable, Restore!Views, Restore!RetainedViews,
         Restore!Kinds
<1>5. PutBack' /\ InPlace'
  BY DEF RestoreInv, NamesTyped, Consolidated, Stages, Ends, CopyIsDurable, Untouched,
         SecondName, NoForeignWal, OpaqueIsRetained, PutBack, InPlace, Restore!Views,
         Restore!RetainedViews, Restore!Kinds
<1>6. BothKept'
  BY DEF RestoreInv, NamesTyped, Consolidated, Stages, Untouched, OpaqueIsRetained,
         SecondNamesDurable, PutBack, InPlace, BothKept, Restore!Views,
         Restore!RetainedViews, Restore!Kinds
<1>. QED BY <1>1, <1>2, <1>3, <1>4, <1>5, <1>6 DEF RestoreInv

\* Every step of the restore, and none but those, concern its directories.
LEMMA RestoreStep ==
    ASSUME RestoreInv, Restore!Next
    PROVE  RestoreInv'
BY CopyKeeps, PrepareKeeps, SynchronizeCandidateKeeps, RetainOriginalKeeps,
   RetainWalKeeps, MakeRetainedDurableKeeps, ConsolidateKeeps, RemoveWalKeeps,
   MakeRemovalDurableKeeps, MakeKeptDurableKeeps, PublishKeeps,
   MakePublicationDurableKeeps, CleanUpKeeps, FailsKeeps, RollbackKeeps, UnpublishKeeps,
   RelinkKeeps, SyncRollbackKeeps, RollbackFailsKeeps, DiscardKeeps, KillKeeps,
   PowerLossKeeps
   DEF Restore!Next

\* A step elsewhere leaves its directories alone.
LEMMA RestoreRests ==
    ASSUME RestoreInv, UNCHANGED restoreVars
    PROVE  RestoreInv'
<1>1. UNCHANGED <<original, state, retained, stateViews, retainedViews, candidate, step,
                  committed, checkpointed, opaque, report, unrolled>>
  BY DEF restoreVars
<1>2. NamesTyped' /\ Consolidated' /\ Stages' /\ Ends' /\ CopyIsDurable'
  BY <1>1 DEF RestoreInv, NamesTyped, Consolidated, Stages, Ends, CopyIsDurable,
       Restore!Present
<1>3. Untouched' /\ SecondName' /\ NoForeignWal' /\ OpaqueIsRetained'
  BY <1>1 DEF RestoreInv, Untouched, SecondName, NoForeignWal, OpaqueIsRetained, Taken,
       Named, Restore!Present
<1>4. SecondNamesDurable' /\ PutBack' /\ InPlace' /\ BothKept'
  BY <1>1 DEF RestoreInv, SecondNamesDurable, PutBack, InPlace, BothKept, Named,
       Restore!Present
<1>. QED BY <1>2, <1>3, <1>4 DEF RestoreInv

\* At the start the original is where it was.
LEMMA RestoreInit ==
    ASSUME Init
    PROVE  RestoreInv
<1>1. Restore!Init
  BY DEF Init
<1>2. NamesTyped
  BY <1>1 DEF Restore!Init, NamesTyped, Restore!Empty, Restore!Kinds, Restore!Steps,
       Restore!Views, Restore!RetainedViews, Restore!Files, Restore!Present
<1>3. Consolidated /\ Stages /\ Ends /\ CopyIsDurable
  BY <1>1 DEF Restore!Init, Consolidated, Stages, Ends, CopyIsDurable, Before, Removing,
       Published
<1>4. Untouched /\ SecondName /\ NoForeignWal
  BY <1>1 DEF Restore!Init, Untouched, SecondName, NoForeignWal, Named, Taken, Removing,
       Published, Restore!Present
<1>5. OpaqueIsRetained /\ SecondNamesDurable /\ PutBack /\ InPlace /\ BothKept
  BY <1>1 DEF Restore!Init, OpaqueIsRetained, SecondNamesDurable, PutBack, InPlace,
       BothKept, Restore!Present
<1>. QED BY <1>2, <1>3, <1>4, <1>5 DEF RestoreInv

\* What the invariant says of the database in place, of an unreadable original
\* and of what was reported.
LEMMA RestoreSurvives ==
    ASSUME RestoreInv
    PROVE  /\ Restore!OneDatabaseIsWhole
           /\ Restore!UnreadableOriginalIsKept
           /\ Restore!OutcomeIsDurable
<1>1. Restore!OneDatabaseIsWhole
  BY DEF RestoreInv, Restore!OneDatabaseIsWhole, NamesTyped, Consolidated, CopyIsDurable,
     Untouched, NoForeignWal, Named, Restore!Present
<1>2. Restore!UnreadableOriginalIsKept
  BY DEF RestoreInv, Restore!UnreadableOriginalIsKept, NamesTyped, BothKept
<1>3. Restore!OutcomeIsDurable
  BY DEF RestoreInv, Restore!OutcomeIsDurable, PutBack, InPlace, Named
<1>. QED BY <1>1, <1>2, <1>3

\* THEOREM: wherever an operation fails, the command is killed or the power
\* fails, one complete database is in place - the prepared copy without a
\* foreign WAL, or the original with the one it needs -, an unreadable original
\* keeps both its names until the copy is published, and what was reported is
\* so after a power loss (offline restore, its rollback and its report).
THEOREM RestoreKeepsADatabase ==
    Spec => [](/\ Restore!OneDatabaseIsWhole
               /\ Restore!UnreadableOriginalIsKept
               /\ Restore!OutcomeIsDurable)
<1>1. Init => RestoreInv
  BY RestoreInit
<1>2. ASSUME RestoreInv, [Next]_all PROVE RestoreInv'
  <2>1. CASE OfRestore(Restore!Next)
    BY <1>2, <2>1, RestoreStep DEF OfRestore
  <2>2. CASE UNCHANGED restoreVars
    BY <1>2, <2>2, RestoreRests
  <2>. QED BY <1>2, <2>1, <2>2
         DEF Next, all, AtGitHub, AtForgejo, OfChannel, OfStorage, OfBackup
<1>3. RestoreInv => /\ Restore!OneDatabaseIsWhole
                    /\ Restore!UnreadableOriginalIsKept
                    /\ Restore!OutcomeIsDurable
  BY RestoreSurvives
<1>. QED BY <1>1, <1>2, <1>3, PTL DEF Spec

-----------------------------------------------------------------------------
(***************************************************************************)
(* The daily backup                                                        *)
(***************************************************************************)
Backups == Backup!Valid(visible, torn)
Staying == Backups \ expired
Later(days, d) == {e \in days : e > d}

\* The backups between the reported one and today's, which no failure takes.
Newer == {d \in Backup!Held : reported < d /\ d < day}

DaysTyped ==
    /\ day \in Backup!Days /\ phase \in Backup!Phases
    /\ visible \subseteq Backup!Names /\ durable \subseteq visible
    /\ sound \subseteq Backup!Days /\ expired \subseteq Backup!Days
    /\ kept \subseteq Backup!Parts
    /\ reported \in 0 .. MaxDay /\ reported <= day
    /\ \A n \in visible : n[2] <= day

\* A process that reads the backups has cleared the torn manifests.
NothingTorn == phase # "down" => torn = {}

\* The backups of earlier days are on disk.
EarlierHeld == \A d \in Backups : d < day => d \in Backup!Held

\* A backup in the making has the names it was given, and its manifest its text
\* once it was synchronised.
InTheMaking ==
    /\ phase = "named" => <<"database", day>> \in visible
    /\ phase \in {"committed", "written", "durable", "retaining"} =>
          Backup!Both(day) \subseteq visible \/ Keep = 0
    /\ phase \in {"written", "durable", "retaining"} => day \in sound

\* What retention is still to remove has enough newer backups that stay.
ExpiredReplaced ==
    phase = "retaining" => \A d \in expired : Cardinality(Later(Staying, d)) >= Keep

\* A backup that was reported is not made a second time.
MadeOnce == phase \notin {"down", "idle"} => reported # day \/ Keep <= 1

\* The reported backup is on disk, or as many newer ones as today's failure
\* may leave.
ReportedIsHeld ==
    reported = 0 \/ reported \in Backup!Held \/ Cardinality(Newer) + 1 >= Keep

BackupInv ==
    /\ DaysTyped /\ NothingTorn /\ EarlierHeld /\ InTheMaking /\ ExpiredReplaced
    /\ MadeOnce /\ ReportedIsHeld

-----------------------------------------------------------------------------
\* The module of the backup counts as this one does.
LEMMA SameCount ==
    ASSUME NEW S
    PROVE  Backup!Cardinality(S) = Cardinality(S)
BY DEF Backup!Cardinality, Cardinality

\* Sets of days are finite, and count accordingly.
LEMMA DaysFinite ==
    /\ Backup!Days \subseteq Nat
    /\ \A S \in SUBSET Backup!Days :
          /\ IsFiniteSet(S) /\ Cardinality(S) \in Nat
          /\ \A T \in SUBSET S : Cardinality(T) <= Cardinality(S)
<1>1. MaxDay \in Int /\ 1 \in Int
  BY BackupAssumption
<1>2. IsFiniteSet(Backup!Days) /\ Backup!Days \subseteq Nat
  BY <1>1, FS_Interval DEF Backup!Days
<1>3. ASSUME NEW S \in SUBSET Backup!Days
      PROVE  IsFiniteSet(S) /\ Cardinality(S) \in Nat
  BY <1>2, FS_Subset, FS_CardinalityType
<1>4. ASSUME NEW S \in SUBSET Backup!Days, NEW T \in SUBSET S
      PROVE  Cardinality(T) <= Cardinality(S)
  BY <1>3, FS_Subset
<1>. QED BY <1>2, <1>3, <1>4

\* Of some days one is the last.
LEMMA LastDay ==
    ASSUME NEW days \in SUBSET Backup!Days, days # {}
    PROVE  \E m \in days : \A e \in days : e <= m
<1>. DEFINE R == StrictSubsetOrdering(Backup!Days)
            S == FiniteSubsetsOf(Backup!Days)
            laters == {Later(days, e) : e \in days}
<1>1. laters \subseteq S
  <2>1. ASSUME NEW e \in days PROVE Later(days, e) \in S
    <3>1. Later(days, e) \in SUBSET Backup!Days
      BY DEF Later
    <3>. QED BY <3>1, DaysFinite DEF FiniteSubsetsOf
  <2>. QED BY <2>1
<1>2. IsWellFoundedOn(R, S)
  BY FS_StrictSubsetOrderingWellFounded
<1>3. laters # {}
  OBVIOUS
<1>. HIDE DEF R, S, laters
<1>4. PICK x \in laters : \A y \in laters : ~ (<<y, x>> \in R)
  BY <1>1, <1>2, <1>3, WFMin
<1>5. PICK m \in days : x = Later(days, m)
  BY <1>4 DEF laters
<1>6. ASSUME NEW e \in days, e > m PROVE FALSE
  <2>1. days \subseteq Nat
    BY DaysFinite
  <2>2. Later(days, e) \subseteq Later(days, m) /\ Later(days, e) # Later(days, m)
    <3>1. e \in Later(days, m) /\ e \notin Later(days, e)
      BY <1>6, <2>1 DEF Later
    <3>2. \A k \in days : k > e => k > m
      BY <1>6, <2>1
    <3>. QED BY <3>1, <3>2 DEF Later
  <2>3. /\ Later(days, e) \in SUBSET Backup!Days /\ Later(days, m) \in SUBSET Backup!Days
        /\ Later(days, e) \in laters
    BY DEF Later, laters
  <2>4. <<Later(days, e), x>> \in R
    BY <1>5, <2>2, <2>3 DEF R, StrictSubsetOrdering
  <2>. QED BY <1>4, <2>3, <2>4
<1>7. \A e \in days : e \in Nat
  BY DaysFinite
<1>. QED BY <1>6, <1>7

\* What is expired has Keep newer backups.
LEMMA ExpiredHas ==
    ASSUME NEW days, NEW m \in Backup!Expired(days)
    PROVE  m \in days /\ Cardinality(Later(days, m)) >= Keep
<1>1. Backup!Expired(days) = {d \in days : Cardinality(Later(days, d)) >= Keep}
  BY SameCount DEF Backup!Expired, Later
<1>. QED BY <1>1

\* Retention leaves Keep backups that are newer than any it removes
\* (removeExpiredBackups).
LEMMA KeepRemain ==
    ASSUME NEW days \in SUBSET Backup!Days, NEW d \in Backup!Expired(days)
    PROVE  Cardinality(Later(days \ Backup!Expired(days), d)) >= Keep
<1>. DEFINE gone == Backup!Expired(days)
<1>1. gone \in SUBSET Backup!Days /\ gone # {} /\ Backup!Days \subseteq Nat
  BY DaysFinite, ExpiredHas
<1>2. d \in gone
  OBVIOUS
<1>3. \A e \in gone : Cardinality(Later(days, e)) >= Keep
  BY ExpiredHas
<1>. HIDE DEF gone
<1>4. PICK m \in gone : \A e \in gone : e <= m
  BY <1>1, LastDay
<1>5. Later(days, m) \subseteq Later(days \ gone, d)
  <2>1. ASSUME NEW e \in days, e > m PROVE e \notin gone /\ e > d
    <3>1. e \in Nat /\ d \in Nat /\ m \in Nat
      BY <1>1, <1>2
    <3>. QED BY <1>2, <1>4, <2>1, <3>1
  <2>. QED BY <2>1 DEF Later
<1>6. Later(days \ gone, d) \in SUBSET Backup!Days
  BY DEF Later
<1>7. /\ Cardinality(Later(days, m)) <= Cardinality(Later(days \ gone, d))
      /\ Cardinality(Later(days, m)) \in Nat /\ Cardinality(Later(days \ gone, d)) \in Nat
  <2>1. Later(days, m) \in SUBSET Backup!Days
    BY DEF Later
  <2>. QED BY <1>5, <1>6, <2>1, DaysFinite
<1>8. Cardinality(Later(days \ gone, d)) >= Keep
  BY <1>3, <1>4, <1>7, BackupAssumption
<1>. QED BY <1>8 DEF gone

\* The backups are days, and one that is held is one of them.
LEMMA BackupsAreDays ==
    /\ Backups \subseteq Backup!Days /\ Backup!Held \subseteq Backups
    /\ Newer \subseteq Backup!Days /\ (Newer \subseteq Backup!Days)'
    /\ (Backups \subseteq Backup!Days)' /\ (Backup!Held \subseteq Backups)'
BY DEF Backups, Newer, Backup!Held, Backup!Valid

\* A step that loses no backup on disk and goes on with the same report keeps
\* what was reported.
LEMMA HeldStays ==
    ASSUME BackupInv, reported' = reported, DaysTyped', day <= day',
           Backup!Held \subseteq Backup!Held'
    PROVE  ReportedIsHeld'
<1>1. Newer \subseteq Newer'
  <2>1. day \in Nat /\ day' \in Nat /\ Backup!Days \subseteq Nat /\ Backup!Held \subseteq Backup!Days
    BY DaysFinite, BackupsAreDays DEF BackupInv, DaysTyped
  <2>2. ASSUME NEW d \in Newer PROVE d \in Newer'
    BY <2>1, <2>2 DEF Newer
  <2>. QED BY <2>2
<1>2. /\ Cardinality(Newer) <= Cardinality(Newer')
      /\ Cardinality(Newer) \in Nat /\ Cardinality(Newer') \in Nat
  BY <1>1, BackupsAreDays, DaysFinite
<1>. QED BY <1>1, <1>2, BackupAssumption DEF BackupInv, ReportedIsHeld

\* A backup is held while its names, their durability and its text are.
LEMMA HeldGrows ==
    ASSUME \A d \in Backup!Held :
              /\ Backup!Both(d) \subseteq visible' /\ Backup!Both(d) \subseteq durable'
              /\ d \in sound' /\ d \notin torn'
    PROVE  Backup!Held \subseteq Backup!Held'
<1>1. \A d \in Backup!Held : d \in Backup!Days
  BY DEF Backup!Held, Backup!Valid
<1>. QED BY <1>1 DEF Backup!Held, Backup!Valid

\* What a held backup has.
LEMMA HeldHas ==
    ASSUME NEW d \in Backup!Held
    PROVE  /\ d \in Backup!Days /\ d \notin torn /\ d \in sound
           /\ Backup!Both(d) \subseteq visible /\ Backup!Both(d) \subseteq durable
BY DEF Backup!Held, Backup!Valid

\* A step within a day that makes no earlier backup valid and loses none.
LEMMA BackupKeeps ==
    ASSUME BackupInv, day' = day, reported' = reported,
           Backup!Held \subseteq Backup!Held',
           \A d \in Backups' : d < day => d \in Backups,
           DaysTyped', NothingTorn', InTheMaking', ExpiredReplaced', MadeOnce'
    PROVE  BackupInv'
<1>1. EarlierHeld'
  BY DEF BackupInv, EarlierHeld
<1>2. day <= day'
  BY DaysFinite DEF BackupInv, DaysTyped
<1>3. ReportedIsHeld'
  BY <1>2, HeldStays
<1>. QED BY <1>1, <1>3 DEF BackupInv

\* A step of the process alone: the directory stays (CopyBegins, Verify, Fails,
\* Abort, Kill).
LEMMA ProcessStep ==
    ASSUME BackupInv,
           \/ Backup!CopyBegins \/ Backup!Verify \/ Backup!Fails \/ Backup!Abort
           \/ Backup!Kill
    PROVE  BackupInv'
<1>1. /\ UNCHANGED <<day, visible, durable, sound, torn, reported>>
      /\ phase # "down" /\ phase' \in {"copied", "verified", "failed", "down"}
      /\ phase = "idle" => phase' = "down"
      /\ expired' = expired \/ expired' = {}
      /\ kept' = kept \/ kept' = {}
  BY DEF Backup!CopyBegins, Backup!Verify, Backup!Fails, Backup!Abort, Backup!Kill
<1>2. Backup!Held' = Backup!Held /\ Backups' = Backups
  BY <1>1 DEF Backup!Held, Backups
<1>3. DaysTyped'
  BY <1>1 DEF BackupInv, DaysTyped, Backup!Phases
<1>4. NothingTorn' /\ InTheMaking' /\ ExpiredReplaced' /\ MadeOnce'
  BY <1>1 DEF BackupInv, NothingTorn, InTheMaking, ExpiredReplaced, MadeOnce
<1>. QED BY <1>1, <1>2, <1>3, <1>4, BackupKeeps

\* Reading the backups discards none that is valid (discardTemporaryArtifacts and
\* the validation of what is there).
LEMMA DiscardedKeeps ==
    ASSUME BackupInv, Backup!Discarded
    PROVE  /\ Backups' = Backups /\ Backup!Held \subseteq Backup!Held'
           /\ visible' \subseteq visible /\ durable' \subseteq visible'
           /\ torn' = {} /\ sound' = sound
           /\ \A d \in Backups : Backup!Both(d) \subseteq visible'
<1>1. /\ visible' = Backup!Parts \X Backups /\ torn' = {} /\ sound' = sound
      /\ (durable' = durable /\ visible' = visible) \/ durable' = visible'
  BY DEF Backup!Discarded, Backup!Remaining, Backups
<1>2. \A d \in Backup!Days : d \in Backups <=> Backup!Both(d) \subseteq visible /\ d \notin torn
  BY DEF Backups, Backup!Valid
<1>3. \A d : Backup!Both(d) = {<<"database", d>>, <<"manifest", d>>}
  BY DEF Backup!Both, Backup!Parts
<1>4. \A d \in Backup!Days : d \in Backups <=> Backup!Both(d) \subseteq visible'
  BY <1>1, <1>3 DEF Backup!Parts
<1>5. Backups' = Backups
  BY <1>1, <1>4, BackupsAreDays DEF Backups, Backup!Valid
<1>6. visible' \subseteq visible
  BY <1>1, <1>2, <1>3, BackupsAreDays DEF Backup!Parts
<1>7. durable' \subseteq visible'
  BY <1>1 DEF BackupInv, DaysTyped
<1>8. ASSUME NEW d \in Backup!Held
      PROVE  /\ Backup!Both(d) \subseteq visible' /\ Backup!Both(d) \subseteq durable'
             /\ d \in sound' /\ d \notin torn'
  <2>1. /\ d \in Backup!Days /\ d \in sound /\ d \in Backups
        /\ Backup!Both(d) \subseteq durable
    BY HeldHas, BackupsAreDays
  <2>2. Backup!Both(d) \subseteq visible'
    BY <2>1, <1>4
  <2>. QED BY <2>1, <2>2, <1>1
<1>9. Backup!Held \subseteq Backup!Held'
  BY <1>8, HeldGrows
<1>. QED BY <1>1, <1>4, <1>5, <1>6, <1>7, <1>9, BackupsAreDays

\* Types after reading.
LEMMA DiscardedTyped ==
    ASSUME BackupInv, Backup!Discarded, day' = day, reported' = reported, kept' = kept,
           expired' \subseteq Backup!Days, phase' \in Backup!Phases
    PROVE  DaysTyped'
BY DiscardedKeeps DEF BackupInv, DaysTyped

\* The daily check (Check).
LEMMA CheckStep ==
    ASSUME BackupInv, Backup!Check
    PROVE  BackupInv'
<1>1. /\ Backup!Discarded /\ UNCHANGED <<day, kept, expired, reported>>
      /\ (phase' = "copying" /\ day \notin Backups) \/ phase' = "idle"
  BY DEF Backup!Check, Backup!DueToday, Backups
<1>2. DaysTyped'
  BY <1>1, DiscardedTyped DEF BackupInv, DaysTyped, Backup!Phases
<1>3. NothingTorn' /\ InTheMaking' /\ ExpiredReplaced'
  BY <1>1, DiscardedKeeps DEF NothingTorn, InTheMaking, ExpiredReplaced
<1>4. MadeOnce'
  <2>1. SUFFICES ASSUME day \notin Backups, reported = day PROVE Keep <= 1
    BY <1>1 DEF MadeOnce
  <2>2. reported # 0 /\ reported \notin Backup!Held
    BY <2>1, BackupsAreDays, DaysFinite DEF BackupInv, DaysTyped, Backup!Days
  <2>3. Newer = {}
    <3>1. day \in Nat /\ \A d \in Newer : d \in Nat /\ reported < d /\ d < day
      BY DaysFinite, BackupsAreDays DEF Newer, BackupInv, DaysTyped
    <3>. QED BY <2>1, <3>1
  <2>4. Cardinality(Newer) = 0
    BY <2>3, FS_EmptySet
  <2>. QED BY <2>2, <2>4, BackupAssumption DEF BackupInv, ReportedIsHeld
<1>. QED BY <1>1, <1>2, <1>3, <1>4, DiscardedKeeps, BackupKeeps

\* The System page reads the backups (SystemReads).
LEMMA ReadsStep ==
    ASSUME BackupInv, Backup!SystemReads
    PROVE  BackupInv'
<1>1. /\ Backup!Discarded /\ UNCHANGED <<day, phase, kept, expired, reported>>
      /\ phase \in {"idle", "copying", "copied"}
  BY DEF Backup!SystemReads
<1>2. DaysTyped'
  BY <1>1, DiscardedTyped DEF BackupInv, DaysTyped
<1>3. NothingTorn' /\ InTheMaking' /\ ExpiredReplaced' /\ MadeOnce'
  BY <1>1, DiscardedKeeps
     DEF BackupInv, NothingTorn, InTheMaking, ExpiredReplaced, MadeOnce
<1>. QED BY <1>1, <1>2, <1>3, DiscardedKeeps, BackupKeeps

\* Retention chooses what expires, and leaves Keep newer ones (Retain).
LEMMA RetainStep ==
    ASSUME BackupInv, Backup!Retain
    PROVE  BackupInv'
<1>1. /\ Backup!Discarded /\ UNCHANGED <<day, kept, reported>>
      /\ phase = "durable" /\ phase' = "retaining" /\ expired' = Backup!Expired(Backups)
  BY DEF Backup!Retain, Backups
<1>2. Backups \in SUBSET Backup!Days /\ Backups' = Backups
  BY <1>1, BackupsAreDays, DiscardedKeeps
<1>3. Backup!Expired(Backups) \subseteq Backup!Days
  BY <1>2, ExpiredHas
<1>4. DaysTyped'
  BY <1>1, <1>3, DiscardedTyped DEF Backup!Phases
<1>5. NothingTorn' /\ MadeOnce'
  BY <1>1, DiscardedKeeps DEF BackupInv, NothingTorn, MadeOnce
<1>6. InTheMaking'
  <2>1. day \in sound /\ (Backup!Both(day) \subseteq visible \/ Keep = 0) /\ torn = {}
    BY <1>1 DEF BackupInv, InTheMaking, NothingTorn
  <2>2. Backup!Both(day) \subseteq visible => day \in Backups
    BY <2>1 DEF BackupInv, DaysTyped, Backups, Backup!Valid
  <2>3. Backup!Both(day) \subseteq visible' \/ Keep = 0
    BY <1>1, <2>1, <2>2, DiscardedKeeps
  <2>4. sound' = sound
    BY <1>1, DiscardedKeeps
  <2>. QED BY <1>1, <2>1, <2>3, <2>4 DEF InTheMaking
<1>7. ExpiredReplaced'
  <2>1. Staying' = Backups \ Backup!Expired(Backups)
    BY <1>1, <1>2 DEF Staying
  <2>2. \A d \in Backup!Expired(Backups) :
            Cardinality(Later(Backups \ Backup!Expired(Backups), d)) >= Keep
    BY <1>2, KeepRemain
  <2>. QED BY <1>1, <2>1, <2>2 DEF ExpiredReplaced
<1>. QED BY <1>1, <1>2, <1>4, <1>5, <1>6, <1>7, DiscardedKeeps, BackupKeeps

\* A backup takes its names, its text and its place on disk (NameDatabase,
\* NameManifest, SynchronizeFiles, SynchronizeDirectory).
LEMMA MakingStep ==
    ASSUME BackupInv,
           \/ Backup!NameDatabase \/ Backup!NameManifest
           \/ Backup!SynchronizeFiles \/ Backup!SynchronizeDirectory
    PROVE  BackupInv'
<1>. USE DEF Backup!NameDatabase, Backup!NameManifest, Backup!SynchronizeFiles,
             Backup!SynchronizeDirectory
<1>1. /\ UNCHANGED <<day, torn, reported, expired>>
      /\ phase \in {"verified", "named", "committed", "written"}
      /\ phase' \in {"named", "committed", "written", "durable"}
      /\ visible \subseteq visible' /\ durable \subseteq durable' /\ durable' \subseteq visible'
      /\ visible' \subseteq visible \cup Backup!Both(day)
      /\ sound \subseteq sound' /\ sound' \subseteq sound \cup {day}
      /\ kept' = kept \/ kept' = {"database"} \/ kept' = Backup!Parts
  BY DEF BackupInv, DaysTyped, Backup!Both, Backup!Parts
<1>2. \A n \in Backup!Both(day) : n \in Backup!Names /\ n[2] = day
  BY DEF Backup!Both, Backup!Names, BackupInv, DaysTyped
<1>3. DaysTyped'
  <2>1. visible' \subseteq Backup!Names /\ \A n \in visible' : n[2] <= day'
    BY <1>1, <1>2, DaysFinite DEF BackupInv, DaysTyped
  <2>2. phase' \in Backup!Phases /\ kept' \subseteq Backup!Parts
    BY <1>1 DEF BackupInv, DaysTyped, Backup!Phases, Backup!Parts
  <2>3. sound' \subseteq Backup!Days
    BY <1>1 DEF BackupInv, DaysTyped
  <2>. QED BY <1>1, <2>1, <2>2, <2>3 DEF BackupInv, DaysTyped
<1>4. NothingTorn' /\ MadeOnce' /\ ExpiredReplaced'
  BY <1>1 DEF BackupInv, NothingTorn, MadeOnce, ExpiredReplaced
<1>5. InTheMaking'
  BY <1>1 DEF BackupInv, InTheMaking, Backup!Both, Backup!Parts
<1>6. Backup!Held \subseteq Backup!Held'
  <2>1. \A d \in Backup!Held :
            /\ Backup!Both(d) \subseteq visible' /\ Backup!Both(d) \subseteq durable'
            /\ d \in sound' /\ d \notin torn'
    BY <1>1, HeldHas
  <2>. QED BY <2>1, HeldGrows
<1>7. ASSUME NEW d \in Backups', d < day PROVE d \in Backups
  <2>1. d \in Backup!Days /\ d \notin torn /\ Backup!Both(d) \subseteq visible'
    BY <1>1 DEF Backups, Backup!Valid
  <2>2. \A n \in Backup!Both(d) : n[2] = d
    BY DEF Backup!Both
  <2>3. d # day
    BY <1>7, DaysFinite DEF BackupInv, DaysTyped
  <2>4. Backup!Both(d) \subseteq visible
    BY <1>1, <1>2, <2>1, <2>2, <2>3
  <2>. QED BY <2>1, <2>4 DEF Backups, Backup!Valid
<1>. QED BY <1>1, <1>3, <1>4, <1>5, <1>6, <1>7, BackupKeeps

\* A backup is of a day that has come.
LEMMA BackupsHaveCome ==
    ASSUME BackupInv
    PROVE  \A d \in Backups : d \in Nat /\ d <= day
<1>1. ASSUME NEW d \in Backups PROVE d <= day
  <2>1. <<"database", d>> \in visible
    BY DEF Backups, Backup!Valid, Backup!Both, Backup!Parts
  <2>2. <<"database", d>>[2] = d
    OBVIOUS
  <2>. QED BY <2>1, <2>2 DEF BackupInv, DaysTyped
<1>. QED BY <1>1, BackupsAreDays, DaysFinite

\* Retention removes a backup; the ones that stay replace it (Removes).
LEMMA RemovesStep ==
    ASSUME BackupInv, NEW d \in Backup!Days, Backup!Removes(d)
    PROVE  BackupInv'
<1>1. /\ UNCHANGED <<day, sound, torn, phase, kept, reported>>
      /\ phase = "retaining" /\ d \in expired
      /\ visible' \subseteq visible /\ visible \ Backup!Both(d) \subseteq visible'
      /\ durable' = durable \cap visible' /\ expired' \subseteq expired
      /\ <<"database", d>> \notin visible'
  BY DEF Backup!Removes, Backup!Both, Backup!Parts
<1>2. d \in Nat /\ day \in Nat /\ reported \in Nat
  BY DaysFinite DEF BackupInv, DaysTyped
<1>3. \A e \in Backup!Days : e # d =>
          \A n \in Backup!Both(e) : n \notin Backup!Both(d)
  BY DEF Backup!Both, Backup!Parts
<1>4. DaysTyped'
  BY <1>1 DEF BackupInv, DaysTyped
<1>5. Backups' \subseteq Backups /\ d \notin Backups'
  BY <1>1 DEF Backups, Backup!Valid, Backup!Both, Backup!Parts
<1>6. \A e \in Backups : e # d => e \in Backups'
  BY <1>1, <1>3 DEF Backups, Backup!Valid
<1>7. \A e \in Backup!Held : e # d => e \in Backup!Held'
  <2>1. ASSUME NEW e \in Backup!Held, e # d PROVE e \in Backup!Held'
    <3>1. /\ e \in Backup!Days /\ e \in sound /\ e \in Backups
          /\ Backup!Both(e) \subseteq durable /\ Backup!Both(e) \subseteq visible
      BY HeldHas, BackupsAreDays
    <3>2. Backup!Both(e) \subseteq durable'
      BY <1>1, <1>3, <2>1, <3>1
    <3>. QED BY <1>1, <1>6, <2>1, <3>1, <3>2 DEF Backup!Held, Backups
  <2>. QED BY <2>1
<1>8. EarlierHeld'
  BY <1>1, <1>5, <1>7 DEF BackupInv, EarlierHeld
<1>. DEFINE L == Later(Staying, d)
<1>9. /\ L \in SUBSET Backup!Days /\ Cardinality(L) >= Keep
      /\ \A e \in L : e \in Backups /\ e \notin expired /\ e > d /\ e \in Nat /\ e <= day
  BY <1>1, BackupsAreDays, BackupsHaveCome DEF BackupInv, ExpiredReplaced, Later, Staying
<1>10. NothingTorn' /\ MadeOnce'
  BY <1>1 DEF BackupInv, NothingTorn, MadeOnce
<1>11. InTheMaking'
  <2>1. CASE d = day
    <3>1. L = {}
      BY <1>2, <1>9, <2>1
    <3>2. Keep = 0
      BY <1>9, <3>1, FS_EmptySet, BackupAssumption
    <3>. QED BY <1>1, <3>2 DEF BackupInv, InTheMaking
  <2>2. CASE d # day
    <3>1. \A n \in Backup!Both(day) : n \notin Backup!Both(d)
      BY <1>3, <2>2 DEF BackupInv, DaysTyped
    <3>. QED BY <1>1, <3>1 DEF BackupInv, InTheMaking
  <2>. QED BY <2>1, <2>2
<1>12. ExpiredReplaced'
  <2>1. ASSUME NEW x \in expired' PROVE Cardinality(Later(Staying', x)) >= Keep
    <3>1. Later(Staying, x) \subseteq Later(Staying', x)
      BY <1>1, <1>6 DEF Later, Staying
    <3>2. Later(Staying, x) \in SUBSET Backup!Days /\ Later(Staying', x) \in SUBSET Backup!Days
      BY BackupsAreDays DEF Later, Staying
    <3>3. Cardinality(Later(Staying, x)) >= Keep
      BY <1>1, <2>1 DEF BackupInv, ExpiredReplaced
    <3>4. /\ Cardinality(Later(Staying, x)) <= Cardinality(Later(Staying', x))
          /\ Cardinality(Later(Staying, x)) \in Nat /\ Cardinality(Later(Staying', x)) \in Nat
      BY <3>1, <3>2, DaysFinite
    <3>. QED BY <3>3, <3>4, BackupAssumption
  <2>2. \A x \in expired' : Cardinality(Later(Staying, x)') >= Keep
    BY <2>1 DEF Later
  <2>. QED BY <2>2 DEF ExpiredReplaced
<1>13. ReportedIsHeld'
  <2>1. CASE reported <= d
    <3>1. L \ {day} \subseteq Newer'
      <4>1. ASSUME NEW e \in L, e # day PROVE e \in Newer'
        <5>1. e < day /\ reported < e /\ e # d
          BY <1>2, <1>9, <2>1, <4>1
        <5>2. e \in Backup!Held
          BY <1>9, <5>1 DEF BackupInv, EarlierHeld
        <5>. QED BY <1>1, <1>7, <5>1, <5>2 DEF Newer
      <4>. QED BY <4>1
    <3>2. IsFiniteSet(L) /\ Cardinality(L) \in Nat
      BY <1>9, DaysFinite
    <3>3. Cardinality(L \ {day}) + 1 >= Keep /\ Cardinality(L \ {day}) \in Nat
      <4>1. Cardinality(L \ {day}) = IF day \in L THEN Cardinality(L) - 1 ELSE Cardinality(L)
        BY <3>2, FS_RemoveElement
      <4>2. Cardinality(L \ {day}) \in Nat
        BY <1>9, DaysFinite
      <4>. QED BY <1>9, <3>2, <4>1, <4>2, BackupAssumption
    <3>4. Cardinality(L \ {day}) <= Cardinality(Newer') /\ Cardinality(Newer') \in Nat
      BY <3>1, BackupsAreDays, DaysFinite
    <3>. QED BY <3>3, <3>4, BackupAssumption DEF ReportedIsHeld
  <2>2. CASE ~(reported <= d)
    <3>1. Newer \subseteq Newer'
      <4>1. ASSUME NEW e \in Newer PROVE e \in Newer'
        <5>1. e \in Backup!Held /\ reported < e /\ e < day /\ e \in Nat
          BY BackupsAreDays, DaysFinite DEF Newer
        <5>2. e # d
          BY <1>2, <2>2, <5>1
        <5>. QED BY <1>1, <1>7, <5>1, <5>2 DEF Newer
      <4>. QED BY <4>1
    <3>2. /\ Cardinality(Newer) <= Cardinality(Newer')
          /\ Cardinality(Newer) \in Nat /\ Cardinality(Newer') \in Nat
      BY <3>1, BackupsAreDays, DaysFinite
    <3>3. reported # d
      BY <1>2, <2>2
    <3>. QED BY <1>1, <1>7, <3>2, <3>3, BackupAssumption DEF BackupInv, ReportedIsHeld
  <2>. QED BY <2>1, <2>2
<1>. QED BY <1>4, <1>8, <1>10, <1>11, <1>12, <1>13 DEF BackupInv

\* The backup is reported: it is on disk by then (Created).
LEMMA CreatedStep ==
    ASSUME BackupInv, Backup!Created
    PROVE  BackupInv'
<1>1. /\ UNCHANGED <<day, visible, sound, torn, expired>>
      /\ phase = "retaining" /\ phase' = "idle" /\ durable' = visible /\ reported' = day
      /\ kept' = {}
  BY DEF Backup!Created
<1>2. day \in Nat /\ day \in Backup!Days /\ day <= MaxDay /\ day # 0
  BY DaysFinite, BackupAssumption DEF BackupInv, DaysTyped, Backup!Days
<1>3. DaysTyped'
  BY <1>1, <1>2, BackupAssumption DEF BackupInv, DaysTyped, Backup!Phases
<1>4. NothingTorn' /\ InTheMaking' /\ ExpiredReplaced' /\ MadeOnce'
  BY <1>1 DEF BackupInv, NothingTorn, InTheMaking, ExpiredReplaced, MadeOnce
<1>5. Backup!Held \subseteq Backup!Held'
  <2>1. \A d \in Backup!Held :
            /\ Backup!Both(d) \subseteq visible' /\ Backup!Both(d) \subseteq durable'
            /\ d \in sound' /\ d \notin torn'
    BY <1>1, HeldHas
  <2>. QED BY <2>1, HeldGrows
<1>6. EarlierHeld'
  BY <1>1, <1>5 DEF BackupInv, EarlierHeld, Backups
<1>7. ReportedIsHeld'
  <2>1. CASE Backup!Both(day) \subseteq visible
    <3>1. day \in sound /\ torn = {}
      BY <1>1 DEF BackupInv, InTheMaking, NothingTorn
    <3>2. day \in Backup!Held'
      BY <1>1, <1>2, <2>1, <3>1 DEF Backup!Held, Backup!Valid
    <3>. QED BY <1>1, <3>2 DEF ReportedIsHeld
  <2>2. CASE Keep = 0
    <3>1. Cardinality(Newer') \in Nat
      BY BackupsAreDays, DaysFinite
    <3>. QED BY <2>2, <3>1 DEF ReportedIsHeld
  <2>. QED BY <1>1, <2>1, <2>2 DEF BackupInv, InTheMaking
<1>. QED BY <1>3, <1>4, <1>6, <1>7 DEF BackupInv

\* A failed backup takes back its own names only (CleansUp).
LEMMA CleansUpStep ==
    ASSUME BackupInv, NEW rest \in SUBSET Backup!Parts, Backup!CleansUp(rest)
    PROVE  BackupInv'
<1>1. /\ UNCHANGED <<day, sound, torn, reported>>
      /\ phase = "failed" /\ phase' = "down" /\ kept' = {} /\ expired' = {}
      /\ visible' = visible \ ((kept \ rest) \X {day}) /\ durable' = durable \cap visible'
  BY DEF Backup!CleansUp
<1>2. day \in Nat /\ reported \in Nat
  BY DaysFinite DEF BackupInv, DaysTyped
<1>3. \A e : e # day => \A n \in Backup!Both(e) : n \notin ((kept \ rest) \X {day})
  BY DEF Backup!Both
<1>4. DaysTyped'
  BY <1>1 DEF BackupInv, DaysTyped, Backup!Phases
<1>5. Backups' \subseteq Backups
  BY <1>1 DEF Backups, Backup!Valid
<1>6. ASSUME NEW e \in Backup!Held, e # day PROVE e \in Backup!Held'
  <2>1. /\ e \in Backup!Days /\ e \in sound /\ e \notin torn
        /\ Backup!Both(e) \subseteq durable /\ Backup!Both(e) \subseteq visible
    BY HeldHas
  <2>2. Backup!Both(e) \subseteq visible' /\ Backup!Both(e) \subseteq durable'
    BY <1>1, <1>3, <1>6, <2>1
  <2>. QED BY <1>1, <2>1, <2>2 DEF Backup!Held, Backup!Valid
<1>7. EarlierHeld'
  <2>1. ASSUME NEW e \in Backups', e < day PROVE e \in Backup!Held'
    <3>1. e # day
      BY <1>2, <2>1
    <3>. QED BY <1>5, <1>6, <2>1, <3>1 DEF BackupInv, EarlierHeld
  <2>. QED BY <1>1, <2>1 DEF EarlierHeld
<1>8. NothingTorn' /\ InTheMaking' /\ ExpiredReplaced' /\ MadeOnce'
  BY <1>1 DEF NothingTorn, InTheMaking, ExpiredReplaced, MadeOnce
<1>9. Newer \subseteq Newer'
  <2>1. ASSUME NEW e \in Newer PROVE e \in Newer'
    <3>1. e \in Backup!Held /\ reported < e /\ e < day /\ e # day
      BY <1>2, BackupsAreDays, DaysFinite DEF Newer
    <3>. QED BY <1>1, <1>6, <3>1 DEF Newer
  <2>. QED BY <2>1
<1>10. /\ Cardinality(Newer) <= Cardinality(Newer')
       /\ Cardinality(Newer) \in Nat /\ Cardinality(Newer') \in Nat
  BY <1>9, BackupsAreDays, DaysFinite
<1>11. ReportedIsHeld'
  <2>1. CASE reported # day
    BY <1>1, <1>6, <1>10, <2>1, BackupAssumption DEF BackupInv, ReportedIsHeld
  <2>2. CASE Keep <= 1
    BY <1>10, <2>2, BackupAssumption DEF ReportedIsHeld
  <2>. QED BY <1>1, <2>1, <2>2 DEF BackupInv, MadeOnce
<1>. QED BY <1>4, <1>7, <1>8, <1>11 DEF BackupInv

\* The power fails: what was durable and sound is there, and so is all that is
\* left (PowerLoss).
LEMMA BackupPowerLossStep ==
    ASSUME BackupInv, Backup!PowerLoss
    PROVE  BackupInv'
<1>1. PICK lost \in SUBSET (visible \ durable), broken \in SUBSET (Backup!Days \ sound) :
        /\ visible' = visible \ lost /\ durable' = visible'
        /\ broken \subseteq {d \in Backup!Days : <<"manifest", d>> \in visible'}
        /\ torn' = torn \cup broken
        /\ sound' = {d \in Backup!Days : <<"manifest", d>> \in visible'} \ torn'
        /\ phase' = "down" /\ kept' = {} /\ expired' = {}
        /\ UNCHANGED <<day, reported>>
  BY DEF Backup!PowerLoss
<1>2. DaysTyped'
  BY <1>1 DEF BackupInv, DaysTyped, Backup!Phases
<1>3. \A d : Backup!Both(d) = {<<"database", d>>, <<"manifest", d>>}
  BY DEF Backup!Both, Backup!Parts
<1>4. \A d \in Backup!Held :
          /\ Backup!Both(d) \subseteq visible' /\ Backup!Both(d) \subseteq durable'
          /\ d \in sound' /\ d \notin torn'
  BY <1>1, <1>3, HeldHas
<1>5. Backup!Held \subseteq Backup!Held'
  BY <1>4, HeldGrows
<1>6. NothingTorn' /\ InTheMaking' /\ ExpiredReplaced' /\ MadeOnce'
  BY <1>1 DEF NothingTorn, InTheMaking, ExpiredReplaced, MadeOnce
<1>7. EarlierHeld'
  BY <1>1, <1>3 DEF EarlierHeld, Backups, Backup!Held, Backup!Valid
<1>8. day <= day'
  BY <1>1, DaysFinite DEF BackupInv, DaysTyped
<1>9. ReportedIsHeld'
  BY <1>1, <1>2, <1>5, <1>8, HeldStays
<1>. QED BY <1>2, <1>6, <1>7, <1>9 DEF BackupInv

\* A day passes, and with it everything is written (DayPasses).
LEMMA DayPassesStep ==
    ASSUME BackupInv, Backup!DayPasses
    PROVE  BackupInv'
<1>1. /\ phase \in {"down", "idle"} /\ day < MaxDay /\ day' = day + 1
      /\ durable' = visible
      /\ sound' = {d \in Backup!Days \ torn : <<"manifest", d>> \in visible}
      /\ UNCHANGED <<visible, torn, phase, kept, expired, reported>>
  BY DEF Backup!DayPasses
<1>2. day \in Nat /\ day' \in Backup!Days /\ day <= day' /\ reported \in Nat
  BY <1>1, DaysFinite, BackupAssumption DEF BackupInv, DaysTyped, Backup!Days
<1>3. \A d : Backup!Both(d) = {<<"database", d>>, <<"manifest", d>>}
  BY DEF Backup!Both, Backup!Parts
<1>4. \A n \in visible : n[2] <= day'
  <2>1. ASSUME NEW n \in visible PROVE n[2] <= day'
    <3>1. n[2] <= day /\ n[2] \in Nat
      BY DaysFinite DEF BackupInv, DaysTyped, Backup!Names
    <3>. QED BY <1>1, <1>2, <3>1
  <2>. QED BY <2>1
<1>5. DaysTyped'
  <2>1. reported' \in 0 .. MaxDay /\ reported' <= day'
    BY <1>1, <1>2, BackupAssumption DEF BackupInv, DaysTyped
  <2>. QED BY <1>1, <1>2, <1>4, <2>1 DEF BackupInv, DaysTyped
<1>6. NothingTorn' /\ InTheMaking' /\ ExpiredReplaced' /\ MadeOnce'
  BY <1>1 DEF BackupInv, NothingTorn, InTheMaking, ExpiredReplaced, MadeOnce
<1>7. \A d \in Backup!Held :
          /\ Backup!Both(d) \subseteq visible' /\ Backup!Both(d) \subseteq durable'
          /\ d \in sound' /\ d \notin torn'
  BY <1>1, <1>3, HeldHas
<1>8. EarlierHeld'
  BY <1>1, <1>3 DEF EarlierHeld, Backups, Backup!Held, Backup!Valid
<1>9. ReportedIsHeld'
  BY <1>1, <1>2, <1>5, <1>7, HeldGrows, HeldStays
<1>. QED BY <1>5, <1>6, <1>8, <1>9 DEF BackupInv

\* Every step of the backup, and none but those, concern its directory.
LEMMA BackupStep ==
    ASSUME BackupInv, Backup!Next
    PROVE  BackupInv'
BY ProcessStep, CheckStep, ReadsStep, RetainStep, MakingStep, RemovesStep, CreatedStep,
   CleansUpStep, BackupPowerLossStep, DayPassesStep DEF Backup!Next

\* A step elsewhere leaves the backups alone.
LEMMA BackupRests ==
    ASSUME BackupInv, UNCHANGED backupVars
    PROVE  BackupInv'
<1>1. UNCHANGED <<day, visible, durable, sound, torn, phase, kept, expired, reported>>
  BY DEF backupVars
<1>2. Backup!Held' = Backup!Held /\ Backups' = Backups
  BY <1>1 DEF Backup!Held, Backups
<1>3. Staying' = Staying
  BY <1>1, <1>2 DEF Staying
<1>4. DaysTyped' /\ NothingTorn' /\ InTheMaking' /\ MadeOnce'
  BY <1>1 DEF BackupInv, DaysTyped, NothingTorn, InTheMaking, MadeOnce
<1>5. ExpiredReplaced'
  BY <1>1, <1>3 DEF BackupInv, ExpiredReplaced, Later
<1>. QED BY <1>1, <1>2, <1>4, <1>5, BackupKeeps

\* At the start there is no backup.
LEMMA BackupInit ==
    ASSUME Init
    PROVE  BackupInv
<1>1. /\ day = 1 /\ visible = {} /\ durable = {} /\ sound = {} /\ torn = {}
      /\ phase = "down" /\ kept = {} /\ expired = {} /\ reported = 0
  BY DEF Init, Backup!Init
<1>2. DaysTyped
  BY <1>1, BackupAssumption DEF DaysTyped, Backup!Days, Backup!Phases
<1>3. EarlierHeld
  <2>1. \A d : <<"database", d>> \in Backup!Both(d)
    BY DEF Backup!Both, Backup!Parts
  <2>2. \A d : d \notin Backups
    BY <1>1, <2>1 DEF Backups, Backup!Valid
  <2>. QED BY <2>2 DEF EarlierHeld
<1>. QED BY <1>1, <1>2, <1>3
       DEF BackupInv, NothingTorn, InTheMaking, ExpiredReplaced, MadeOnce, ReportedIsHeld

\* Newer backups are among those that count.
LEMMA ReportedSurvives ==
    ASSUME BackupInv
    PROVE  Backup!ReportedIsDurable
<1>. DEFINE count == {d \in Backup!Held : d > reported}
<1>1. Newer \subseteq count /\ count \in SUBSET Backup!Days
  BY BackupsAreDays, DaysFinite DEF Newer, BackupInv, DaysTyped
<1>2. /\ Cardinality(Newer) <= Cardinality(count)
      /\ Cardinality(Newer) \in Nat /\ Cardinality(count) \in Nat
  BY <1>1, DaysFinite
<1>3. Backup!Cardinality(count) = Cardinality(count)
  BY SameCount
<1>. HIDE DEF count
<1>4. reported = 0 \/ reported \in Backup!Held \/ Backup!Cardinality(count) + 1 >= Keep
  BY <1>2, <1>3, BackupAssumption DEF BackupInv, ReportedIsHeld
<1>. QED BY <1>4 DEF count, Backup!ReportedIsDurable

\* THEOREM: a backup that was reported as created outlives a power loss until
\* Keep - 1 newer ones have taken its place - the last of them may be the one
\* whose failure takes it back -, whatever failed, was killed, lost its power
\* or was read meanwhile; and the restore leaves a whole database
\* (createBackup, retention and discarding, offline restore).
THEOREM DatabaseOutlives == Spec => []DatabaseSurvives
<1>1. Init => BackupInv /\ RestoreInv
  BY BackupInit, RestoreInit
<1>2. ASSUME BackupInv /\ RestoreInv, [Next]_all PROVE (BackupInv /\ RestoreInv)'
  <2>1. BackupInv'
    <3>1. CASE OfBackup(Backup!Next)
      BY <1>2, <3>1, BackupStep DEF OfBackup
    <3>2. CASE UNCHANGED backupVars
      BY <1>2, <3>2, BackupRests
    <3>. QED BY <1>2, <3>1, <3>2
           DEF Next, all, AtGitHub, AtForgejo, OfChannel, OfStorage, OfRestore
  <2>2. RestoreInv'
    <3>1. CASE OfRestore(Restore!Next)
      BY <1>2, <3>1, RestoreStep DEF OfRestore
    <3>2. CASE UNCHANGED restoreVars
      BY <1>2, <3>2, RestoreRests
    <3>. QED BY <1>2, <3>1, <3>2
           DEF Next, all, AtGitHub, AtForgejo, OfChannel, OfStorage, OfBackup
  <2>. QED BY <2>1, <2>2
<1>3. BackupInv /\ RestoreInv => DatabaseSurvives
  BY ReportedSurvives, RestoreSurvives DEF DatabaseSurvives
<1>. QED BY <1>1, <1>2, <1>3, PTL DEF Spec

-----------------------------------------------------------------------------
(***************************************************************************)
(* The types of the polls at GitHub                                        *)
(***************************************************************************)
\* A round that goes on has rows to take.
RoundHasRows == poller.phase # "idle" => poller.rest # {}

\* GitHub!TypeOK, by what changes together.
GitHubStored ==
    /\ rows \in [{1, 2} -> GitHub!RowType]
    /\ snapshot \in [{1} -> GitHub!Observation]
    /\ gated \in BOOLEAN
GitHubHealth ==
    /\ connection \in {"healthy", "error"}
    /\ health \in [{1, 2} -> {"healthy", "error"}]
    /\ enabled \subseteq {1, 2}
GitHubBook == book \in GitHub!BookType /\ absorbed \subseteq {1} \X Revisions
GitHubProcesses ==
    /\ poller \in GitHub!ProcessType /\ operator \in GitHub!ProcessType
    /\ RoundHasRows
    /\ moved \subseteq {"poller", "operator"}
    /\ halted \in {"no", "conflict", "abort"}
GitHubForge ==
    /\ forge \in [{1} -> Revisions \cup {GitHub!Closed}]
    /\ left \in [pushes : 0 .. MaxPushes, failures : 0 .. MaxFailures,
                 operations : 0 .. MaxOperations]
GitHubTypes ==
    GitHubStored /\ GitHubHealth /\ GitHubBook /\ GitHubProcesses /\ GitHubForge

\* Together they are all of its type invariant.
LEMMA GitHubTypesAre == GitHubTypes => GitHub!TypeOK
BY DEF GitHubTypes, GitHubStored, GitHubHealth, GitHubBook, GitHubProcesses, GitHubForge,
   GitHub!TypeOK, GitHub!TypesOfRound

\* A process that is idle is one, with a snapshot of nothing.
LEMMA GitHubIdleIs ==
    /\ GitHub!Idle \in GitHub!ProcessType /\ GitHub!Idle.phase = "idle"
    /\ GitHub!Nothing \in [{1} -> GitHub!Observation]
<1>1. GitHub!Nothing \in [{1} -> GitHub!Observation]
  BY DEF GitHub!Nothing, GitHub!Observation
<1>. QED BY <1>1 DEF GitHub!Idle, GitHub!ProcessType

\* The row that is next is one of the Repositories.
LEMMA GitHubRowIs ==
    ASSUME NEW S \in SUBSET {1, 2}, S # {}
    PROVE  GitHub!Min(S) \in {1, 2}
<1>1. S = {1} \/ S = {2} \/ S = {1, 2}
  OBVIOUS
<1>2. \E x \in S : \A y \in S : x <= y
  BY <1>1
<1>. QED BY <1>2 DEF GitHub!Min

\* A round goes on with the rows that are left, or ends (runDue).
LEMMA GitHubOnwardsIs ==
    ASSUME GitHubProcesses, poller' \in {GitHub!Idle, GitHub!Onwards}
    PROVE  poller' \in GitHub!ProcessType /\ RoundHasRows'
<1>. DEFINE rest == poller.rest \ {GitHub!Row}
            next == [poller EXCEPT !.phase = "next", !.rest = rest, !.ids = {},
                                   !.fetched = GitHub!Nothing]
<1>1. CASE poller' = GitHub!Idle
  BY <1>1, GitHubIdleIs DEF RoundHasRows
<1>2. CASE poller' = next /\ rest # {}
  <2>1. rest \subseteq {1, 2}
    BY DEF GitHubProcesses, GitHub!ProcessType
  <2>. HIDE DEF rest
  <2>2. next \in GitHub!ProcessType /\ next.rest = rest
    BY <2>1, GitHubIdleIs DEF GitHubProcesses, GitHub!ProcessType
  <2>. HIDE DEF next
  <2>. QED BY <1>2, <2>2 DEF RoundHasRows
<1>3. poller' = GitHub!Idle \/ (poller' = next /\ rest # {})
  <2>1. GitHub!Onwards = IF rest = {} THEN GitHub!Idle ELSE next
    BY DEF GitHub!Onwards
  <2>. HIDE DEF next, rest
  <2>. QED BY <2>1
<1>. QED BY <1>1, <1>2, <1>3

\* A snapshot is replaced by one, Repository by Repository.
LEMMA GitHubReplacedIs ==
    ASSUME NEW R, NEW s \in [{1} -> GitHub!Observation], NEW t \in [{1} -> GitHub!Observation]
    PROVE  GitHub!Replaced(R, s, t) \in [{1} -> GitHub!Observation]
BY DEF GitHub!Replaced

\* What a success stores (commitSuccess).
LEMMA GitHubStoreIs ==
    ASSUME GitHubStored, NEW R, NEW new \in [{1} -> GitHub!Observation], GitHub!Store(R, new)
    PROVE  GitHubStored'
<1>1. snapshot' \in [{1} -> GitHub!Observation] /\ gated' = FALSE
  BY GitHubReplacedIs DEF GitHubStored, GitHub!Store
<1>2. rows' \in [{1, 2} -> GitHub!RowType]
  BY DEF GitHubStored, GitHub!Store, GitHub!RowType, GitHub!BaselineStatus
<1>. QED BY <1>1, <1>2 DEF GitHubStored

\* What a baseline observes without an Evaluation.
LEMMA GitHubAbsorbIs ==
    ASSUME absorbed \subseteq {1} \X Revisions, NEW R, NEW new, GitHub!Absorb(R, new)
    PROVE  absorbed' \subseteq {1} \X Revisions
BY DEF GitHub!Absorb

\* A failure leaves a row of the table, whichever it concerns.
LEMMA GitHubFailedRowIs ==
    ASSUME GitHubStored, NEW r \in {1, 2}, NEW R, NEW f, NEW baseline
    PROVE  GitHub!FailedRow(r, R, f, baseline) \in GitHub!RowType
<1>1. GitHub!NextAttempt(f) \in {"never", "later"}
  BY DEF GitHub!NextAttempt
<1>2. rows[r] \in GitHub!RowType
  BY DEF GitHubStored
<1>. HIDE DEF GitHub!NextAttempt
<1>. QED BY <1>1, <1>2 DEF GitHub!FailedRow, GitHub!RowType, GitHub!BaselineStatus

\* The health a definitive failure leaves.
LEMMA GitHubOwningIs ==
    ASSUME GitHubHealth, NEW definitive \in BOOLEAN, NEW of, GitHub!OwningFailure(definitive, of)
    PROVE  GitHubHealth'
<1>1. CASE ~definitive
  BY <1>1 DEF GitHub!OwningFailure, GitHub!healthVars, GitHubHealth
<1>2. CASE definitive /\ of = GitHub!Connection
  BY <1>2 DEF GitHub!OwningFailure, GitHubHealth
<1>3. CASE definitive /\ of # GitHub!Connection
  BY <1>3 DEF GitHub!OwningFailure, GitHubHealth
<1>. QED BY <1>1, <1>2, <1>3

\* What a failure stores (commitFailure).
LEMMA GitHubStoreFailureIs ==
    ASSUME GitHubStored, GitHubHealth, NEW R, NEW f, NEW baseline,
           GitHub!StoreFailure(R, f, baseline)
    PROVE  GitHubStored' /\ GitHubHealth' /\ UNCHANGED <<book, absorbed>>
<1>1. rows' \in [{1, 2} -> GitHub!RowType]
  BY GitHubFailedRowIs DEF GitHub!StoreFailure
<1>2. gated' \in BOOLEAN /\ snapshot' = snapshot
  BY DEF GitHub!StoreFailure, GitHubStored
<1>3. GitHubHealth'
  BY GitHubOwningIs DEF GitHub!StoreFailure
<1>. QED BY <1>1, <1>2, <1>3 DEF GitHubStored, GitHub!StoreFailure, GitHub!bookVars

\* A failure that is recorded of the row alone (recordFailure).
LEMMA GitHubRecordIs ==
    ASSUME GitHubStored, GitHubHealth, GitHubBook, GitHubProcesses, NEW f,
           GitHub!RecordFailure(f), UNCHANGED operator
    PROVE  GitHubStored' /\ GitHubHealth' /\ GitHubBook' /\ GitHubProcesses'
<1>1. CASE GitHub!StoreFailure({GitHub!Row}, f, FALSE) /\ moved' = {"operator"}
           /\ poller' = GitHub!Onwards /\ UNCHANGED halted
  BY <1>1, GitHubStoreFailureIs, GitHubOnwardsIs DEF GitHubProcesses, GitHubBook
<1>2. CASE GitHub!Halts("abort") /\ UNCHANGED <<GitHub!storeVars, GitHub!healthVars,
                                                GitHub!bookVars, moved>>
  <2>1. poller' \in GitHub!ProcessType /\ RoundHasRows'
    BY <1>2, GitHubOnwardsIs DEF GitHub!Halts
  <2>2. halted' = "abort"
    BY <1>2 DEF GitHub!Halts
  <2>. QED BY <1>2, <2>1, <2>2 DEF GitHub!storeVars, GitHub!healthVars, GitHub!bookVars,
          GitHubStored, GitHubHealth, GitHubBook, GitHubProcesses
<1>. QED BY <1>1, <1>2 DEF GitHub!RecordFailure

\* The transaction that ends a row.
LEMMA GitHubCommitIs ==
    ASSUME GitHubStored, GitHubBook, GitHubProcesses,
           NEW new \in [{1} -> GitHub!Observation], NEW admitted, book' \in GitHub!BookType,
           GitHub!CommitRow(new, admitted), UNCHANGED operator
    PROVE  GitHubStored' /\ GitHubBook' /\ GitHubProcesses'
<1>1. CASE GitHub!Halts("conflict") /\ UNCHANGED <<GitHub!storeVars, GitHub!bookVars, moved>>
  <2>1. poller' \in GitHub!ProcessType /\ RoundHasRows'
    BY <1>1, GitHubOnwardsIs DEF GitHub!Halts
  <2>2. halted' = "conflict"
    BY <1>1 DEF GitHub!Halts
  <2>. QED BY <1>1, <2>1, <2>2 DEF GitHub!storeVars, GitHub!bookVars, GitHubStored,
          GitHubBook, GitHubProcesses
<1>2. CASE /\ UNCHANGED halted /\ GitHub!Store(GitHub!Taken, new) /\ moved' = {"operator"}
           /\ IF GitHub!Baseline THEN GitHub!Absorb(poller.unseen, new) ELSE UNCHANGED absorbed
           /\ poller' \in {GitHub!Idle, GitHub!Onwards}
  <2>1. absorbed' \subseteq {1} \X Revisions
    BY <1>2, GitHubAbsorbIs DEF GitHubBook
  <2>. QED BY <1>2, <2>1, GitHubStoreIs, GitHubOnwardsIs DEF GitHubProcesses, GitHubBook
<1>. QED BY <1>1, <1>2 DEF GitHub!CommitRow

\* A failure uses up its bound.
LEMMA GitHubFailsIs ==
    ASSUME GitHubForge, GitHub!Fails, UNCHANGED forge
    PROVE  GitHubForge'
<1>1. /\ left.failures \in 0 .. MaxFailures /\ left.failures > 0
      /\ left' = [left EXCEPT !.failures = left.failures - 1]
  BY DEF GitHubForge, GitHub!Fails
<1>2. left.failures - 1 \in 0 .. MaxFailures
  BY <1>1, PollBoundsAssumption
<1>. QED BY <1>1, <1>2 DEF GitHubForge

\* An operation of the operator uses up its bound.
LEMMA GitHubOperatesIs ==
    ASSUME GitHubForge, left.operations > 0, UNCHANGED forge,
           left' = [left EXCEPT !.operations = left.operations - 1]
    PROVE  GitHubForge'
<1>1. left.operations \in 0 .. MaxOperations
  BY DEF GitHubForge
<1>2. left.operations - 1 \in 0 .. MaxOperations
  BY <1>1, PollBoundsAssumption
<1>. QED BY <1>2 DEF GitHubForge

\* What the forge answers is an observation.
LEMMA GitHubFetchedIs ==
    ASSUME GitHubForge, NEW R, NEW t \in [{1} -> GitHub!Observation]
    PROVE  GitHub!Replaced(R, forge, t) \in [{1} -> GitHub!Observation]
<1>1. forge \in [{1} -> GitHub!Observation]
  BY DEF GitHubForge, GitHub!Observation
<1>. QED BY <1>1, GitHubReplacedIs

\* What a round prepares are Repositories.
LEMMA GitHubTakenIs ==
    ASSUME GitHubProcesses, poller.phase # "idle"
    PROVE  GitHub!Taken \subseteq {1, 2}
<1>1. poller.rest \in SUBSET {1, 2} /\ poller.rest # {} /\ poller.unseen \subseteq {1, 2}
  BY DEF GitHubProcesses, GitHub!ProcessType, RoundHasRows
<1>2. GitHub!Row \in {1, 2}
  BY <1>1, GitHubRowIs DEF GitHub!Row
<1>. QED BY <1>1, <1>2 DEF GitHub!Taken

\* What only the poller does to itself while a round goes on.
LEMMA GitHubPollerIs ==
    ASSUME GitHubForge, GitHubProcesses,
           \/ GitHub!StartsRound /\ enabled \subseteq {1, 2}
                /\ snapshot \in [{1} -> GitHub!Observation]
           \/ /\ poller.phase = "next"
              /\ poller' = [poller EXCEPT !.phase = "fetching", !.ids = GitHub!Taken]
           \/ /\ poller.phase = "fetching"
              /\ poller' = [poller EXCEPT
                     !.ids = @ \ {GitHub!Min(poller.ids)},
                     !.fetched = GitHub!Replaced({GitHub!Min(poller.ids)}, forge, @)]
           \/ /\ poller.phase = "fetching"
              /\ poller' = [poller EXCEPT !.phase = "acquiring", !.fetched = GitHub!Fetched]
    PROVE  poller' \in GitHub!ProcessType /\ RoundHasRows'
<1>0. poller \in GitHub!ProcessType /\ (poller.phase # "idle" => poller.rest # {})
  BY DEF GitHubProcesses, RoundHasRows
<1>1. CASE GitHub!StartsRound /\ enabled \subseteq {1, 2}
             /\ snapshot \in [{1} -> GitHub!Observation]
  <2>. DEFINE due == GitHub!Due
              unseen == {r \in due : rows[r].baseline # "complete"}
              next == [GitHub!Idle EXCEPT !.phase = "next", !.rest = due, !.seen = snapshot,
                          !.unseen = unseen]
  <2>1. due \subseteq {1, 2} /\ unseen \subseteq {1, 2} /\ due # {} /\ poller' = next
    BY <1>1 DEF GitHub!StartsRound, GitHub!Due
  <2>. HIDE DEF due, unseen
  <2>2. next \in GitHub!ProcessType /\ next.rest = due
    BY <1>1, <2>1, GitHubIdleIs DEF GitHub!Idle, GitHub!ProcessType
  <2>. HIDE DEF next
  <2>. QED BY <2>1, <2>2 DEF RoundHasRows
<1>2. CASE /\ poller.phase = "next"
           /\ poller' = [poller EXCEPT !.phase = "fetching", !.ids = GitHub!Taken]
  <2>. DEFINE taken == GitHub!Taken
              next == [poller EXCEPT !.phase = "fetching", !.ids = taken]
  <2>1. taken \subseteq {1, 2}
    BY <1>2, GitHubTakenIs
  <2>. HIDE DEF taken
  <2>2. next \in GitHub!ProcessType /\ next.rest = poller.rest
    BY <1>0, <2>1 DEF GitHub!ProcessType
  <2>3. poller' = next
    BY <1>2 DEF taken
  <2>. HIDE DEF next
  <2>. QED BY <1>0, <1>2, <2>2, <2>3 DEF RoundHasRows
<1>3. CASE /\ poller.phase = "fetching"
           /\ poller' = [poller EXCEPT
                  !.ids = @ \ {GitHub!Min(poller.ids)},
                  !.fetched = GitHub!Replaced({GitHub!Min(poller.ids)}, forge, @)]
  <2>. DEFINE ids == poller.ids \ {GitHub!Min(poller.ids)}
              fetched == GitHub!Replaced({GitHub!Min(poller.ids)}, forge, poller.fetched)
              next == [poller EXCEPT !.ids = ids, !.fetched = fetched]
  <2>0. poller' = next
    BY <1>3
  <2>1. poller.fetched \in [{1} -> GitHub!Observation]
    BY <1>0 DEF GitHub!ProcessType
  <2>2. ids \subseteq {1, 2} /\ fetched \in [{1} -> GitHub!Observation]
    BY <1>0, <2>1, GitHubFetchedIs DEF GitHub!ProcessType
  <2>. HIDE DEF ids, fetched
  <2>3. next \in GitHub!ProcessType /\ next.rest = poller.rest
    BY <1>0, <2>2 DEF GitHub!ProcessType
  <2>. HIDE DEF next
  <2>. QED BY <1>0, <1>3, <2>0, <2>3 DEF RoundHasRows
<1>4. CASE /\ poller.phase = "fetching"
           /\ poller' = [poller EXCEPT !.phase = "acquiring", !.fetched = GitHub!Fetched]
  <2>. DEFINE fetched == GitHub!Fetched
              next == [poller EXCEPT !.phase = "acquiring", !.fetched = fetched]
  <2>0. poller' = next
    BY <1>4
  <2>1. poller.fetched \in [{1} -> GitHub!Observation]
    BY <1>0 DEF GitHub!ProcessType
  <2>2. fetched \in [{1} -> GitHub!Observation]
    BY <2>1, GitHubFetchedIs DEF GitHub!Fetched
  <2>. HIDE DEF fetched
  <2>3. next \in GitHub!ProcessType /\ next.rest = poller.rest
    BY <1>0, <2>2 DEF GitHub!ProcessType
  <2>. HIDE DEF next
  <2>. QED BY <1>0, <1>4, <2>0, <2>3 DEF RoundHasRows
<1>. QED BY <1>1, <1>2, <1>3, <1>4

\* The forge and the clock.
LEMMA GitHubEnvironmentTyped ==
    ASSUME GitHubTypes, GitHub!Environment, book' \in GitHub!BookType
    PROVE  GitHubTypes'
<1>. USE DEF GitHubTypes
<1>1. CASE \E p \in {1}, v \in Revisions \cup {GitHub!Closed} : GitHub!Push(p, v)
  <2>1. PICK v \in Revisions \cup {GitHub!Closed} : GitHub!Push(1, v)
    BY <1>1
  <2>2. /\ left.pushes \in 0 .. MaxPushes /\ left.pushes > 0
        /\ forge' = [forge EXCEPT ![1] = v]
        /\ left' = [left EXCEPT !.pushes = left.pushes - 1]
        /\ UNCHANGED <<GitHub!storeVars, GitHub!healthVars, GitHub!bookVars,
                       GitHub!processVars>>
    BY <2>1 DEF GitHub!Push, GitHubForge
  <2>3. left.pushes - 1 \in 0 .. MaxPushes
    BY <2>2, PollBoundsAssumption
  <2>4. GitHubForge'
    BY <2>2, <2>3 DEF GitHubForge
  <2>. QED BY <2>2, <2>4 DEF GitHubStored, GitHubHealth, GitHubBook, GitHubProcesses,
          RoundHasRows, GitHub!storeVars, GitHub!healthVars, GitHub!bookVars,
          GitHub!processVars
<1>2. CASE \E r \in {1, 2} : GitHub!RowIsDue(r)
  <2>1. PICK r \in {1, 2} : GitHub!RowIsDue(r)
    BY <1>2
  <2>2. rows' \in [{1, 2} -> GitHub!RowType]
    <3>1. rows[r] \in GitHub!RowType
      BY DEF GitHubStored
    <3>. DEFINE next == IF rows[r].next = "later" THEN "due" ELSE rows[r].next
                row == [rows[r] EXCEPT !.limited = FALSE, !.next = next]
    <3>2. next \in {"due", "later", "never"}
      BY <3>1 DEF GitHub!RowType
    <3>3. rows' = [rows EXCEPT ![r] = row]
      BY <2>1 DEF GitHub!RowIsDue, GitHubStored
    <3>. HIDE DEF next
    <3>4. row \in GitHub!RowType
      BY <3>1, <3>2 DEF GitHub!RowType
    <3>. HIDE DEF row
    <3>. QED BY <3>3, <3>4 DEF GitHubStored
  <2>. QED BY <2>1, <2>2 DEF GitHub!RowIsDue, GitHubStored, GitHubHealth, GitHubBook,
          GitHubProcesses, GitHubForge, RoundHasRows, GitHub!healthVars, GitHub!bookVars,
          GitHub!processVars
<1>3. CASE GitHub!GateOpens
  BY <1>3 DEF GitHub!GateOpens, GitHubStored, GitHubHealth, GitHubBook,
     GitHubProcesses, GitHubForge, RoundHasRows, GitHub!healthVars, GitHub!bookVars,
     GitHub!processVars
<1>4. CASE \E e \in DOMAIN book.status : GitHub!EndEvaluation(e)
  BY <1>4 DEF GitHub!EndEvaluation, GitHubStored, GitHubHealth, GitHubBook,
     GitHubProcesses, GitHubForge, RoundHasRows, GitHub!storeVars, GitHub!healthVars,
     GitHub!processVars
<1>. QED BY <1>1, <1>2, <1>3, <1>4 DEF GitHub!Environment

\* The round.
LEMMA GitHubPollTyped ==
    ASSUME GitHubTypes, GitHub!Poll, book' \in GitHub!BookType
    PROVE  GitHubTypes'
<1>. USE DEF GitHubTypes
<1>1. ASSUME poller' \in GitHub!ProcessType /\ RoundHasRows',
             moved' \subseteq {"poller", "operator"},
             UNCHANGED <<forge, GitHub!storeVars, GitHub!healthVars, GitHub!bookVars,
                         operator, halted>>,
             GitHubForge'
      PROVE  GitHubTypes'
  BY <1>1 DEF GitHubStored, GitHubHealth, GitHubBook, GitHubProcesses, GitHub!storeVars,
     GitHub!healthVars, GitHub!bookVars
<1>2. CASE GitHub!StartRound
  BY <1>1, <1>2, GitHubPollerIs DEF GitHub!StartRound, GitHubStored, GitHubHealth,
     GitHubProcesses, GitHubForge, GitHub!storeVars
<1>3. CASE GitHub!CredentialFails
  <2>1. /\ GitHub!RecordFailure([of |-> GitHub!Connection, kind |-> "definitive"])
        /\ GitHub!Fails /\ UNCHANGED <<forge, operator>>
    BY <1>3 DEF GitHub!CredentialFails
  <2>. QED BY <2>1, GitHubRecordIs, GitHubFailsIs
<1>4. CASE GitHub!Prepare
  <2>1. CASE poller' = GitHub!Idle /\ UNCHANGED moved
    BY <1>1, <1>4, <2>1, GitHubIdleIs DEF GitHub!Prepare, GitHubProcesses, GitHubForge,
       RoundHasRows
  <2>2. CASE /\ poller' = [poller EXCEPT !.phase = "fetching", !.ids = GitHub!Taken]
             /\ moved' = moved \ {"poller"}
    <3>1. poller' \in GitHub!ProcessType /\ RoundHasRows'
      BY <1>4, <2>2, GitHubPollerIs DEF GitHub!Prepare
    <3>. QED BY <1>1, <1>4, <2>2, <3>1 DEF GitHub!Prepare, GitHubProcesses, GitHubForge
  <2>. QED BY <1>4, <2>1, <2>2 DEF GitHub!Prepare
<1>5. CASE GitHub!FetchesOne
  <2>1. poller' \in GitHub!ProcessType /\ RoundHasRows'
    BY <1>5, GitHubPollerIs DEF GitHub!FetchesOne
  <2>. QED BY <1>1, <1>5, <2>1 DEF GitHub!FetchesOne, GitHubProcesses, GitHubForge
<1>6. CASE GitHub!FetchesLast
  <2>1. poller.fetched \in [{1} -> GitHub!Observation]
    BY DEF GitHubProcesses, GitHub!ProcessType
  <2>2. GitHub!Fetched \in [{1} -> GitHub!Observation]
    BY <2>1, GitHubFetchedIs DEF GitHub!Fetched
  <2>3. /\ GitHub!CommitRow(GitHub!Fetched, book)
        /\ UNCHANGED <<forge, GitHub!healthVars, operator, left>>
    BY <1>6 DEF GitHub!FetchesLast
  <2>4. GitHubStored' /\ GitHubBook' /\ GitHubProcesses'
    BY <2>2, <2>3, GitHubCommitIs
  <2>. QED BY <2>3, <2>4 DEF GitHubHealth, GitHubForge, GitHub!healthVars
<1>7. CASE GitHub!BeginAcquisition
  <2>1. poller' \in GitHub!ProcessType /\ RoundHasRows'
    BY <1>7, GitHubPollerIs DEF GitHub!BeginAcquisition
  <2>. QED BY <1>1, <1>7, <2>1 DEF GitHub!BeginAcquisition, GitHubProcesses, GitHubForge
<1>8. CASE GitHub!Acquired
  <2>1. poller.fetched \in [{1} -> GitHub!Observation]
    BY DEF GitHubProcesses, GitHub!ProcessType
  <2>2. /\ GitHub!CommitRow(poller.fetched, GitHub!AdmitAll(book,
                GitHub!Eligible(poller.fetched), poller.fetched))
        /\ UNCHANGED <<forge, GitHub!healthVars, operator, left>>
    BY <1>8 DEF GitHub!Acquired
  <2>3. GitHubStored' /\ GitHubBook' /\ GitHubProcesses'
    BY <2>1, <2>2, GitHubCommitIs
  <2>. QED BY <2>2, <2>3 DEF GitHubHealth, GitHubForge, GitHub!healthVars
<1>9. CASE GitHub!AcquisitionRefused
  <2>1. GitHubForge'
    BY <1>9, GitHubFailsIs DEF GitHub!AcquisitionRefused
  <2>2. poller' \in GitHub!ProcessType /\ RoundHasRows'
    BY <1>9, GitHubOnwardsIs DEF GitHub!AcquisitionRefused
  <2>. QED BY <1>1, <1>9, <2>1, <2>2 DEF GitHub!AcquisitionRefused, GitHubProcesses
<1>10. CASE \E f \in GitHub!FailureType : GitHub!FetchFails(f)
  <2>1. PICK f \in GitHub!FailureType : GitHub!FetchFails(f)
    BY <1>10
  <2>2. GitHubForge' /\ UNCHANGED operator
    BY <2>1, GitHubFailsIs DEF GitHub!FetchFails
  <2>3. CASE /\ GitHub!Halts("conflict")
             /\ UNCHANGED <<GitHub!storeVars, GitHub!healthVars, GitHub!bookVars, moved>>
    <3>1. poller' \in GitHub!ProcessType /\ RoundHasRows' /\ halted' = "conflict"
      BY <2>3, GitHubIdleIs DEF GitHub!Halts, RoundHasRows
    <3>. QED BY <2>2, <2>3, <3>1 DEF GitHubStored, GitHubHealth, GitHubBook,
            GitHubProcesses, GitHub!storeVars, GitHub!healthVars, GitHub!bookVars
  <2>4. CASE /\ GitHub!StoreFailure(GitHub!Taken, f, GitHub!Baseline)
             /\ moved' = {"operator"}
             /\ poller' \in {GitHub!Idle, GitHub!Onwards}
             /\ UNCHANGED halted
    BY <2>2, <2>4, GitHubStoreFailureIs, GitHubOnwardsIs DEF GitHubProcesses, GitHubBook
  <2>5. CASE GitHub!RecordFailure([of |-> GitHub!Row, kind |-> "passing"])
    BY <2>2, <2>5, GitHubRecordIs
  <2>. QED BY <2>1, <2>3, <2>4, <2>5 DEF GitHub!FetchFails
<1>11. CASE \E kind \in {"passing", "definitive"} : GitHub!AcquisitionFails(kind)
  <2>1. PICK kind \in {"passing", "definitive"} : GitHub!AcquisitionFails(kind)
    BY <1>11
  <2>2. /\ GitHub!RecordFailure([of |-> GitHub!Row, kind |-> kind])
        /\ GitHub!Fails /\ UNCHANGED <<forge, operator>>
    BY <2>1 DEF GitHub!AcquisitionFails
  <2>. QED BY <2>2, GitHubRecordIs, GitHubFailsIs
<1>. QED BY <1>2, <1>3, <1>4, <1>5, <1>6, <1>7, <1>8, <1>9, <1>10, <1>11 DEF GitHub!Poll

\* The health a failed verification leaves.
LEMMA GitHubVerifiedIs ==
    ASSUME GitHubHealth, NEW f, GitHub!Verified(f)
    PROVE  GitHubHealth'
<1>1. CASE f.kind = "definitive" /\ f.of # GitHub!Connection
  BY <1>1 DEF GitHub!Verified, GitHubHealth
<1>2. CASE ~(f.kind = "definitive" /\ f.of # GitHub!Connection)
  BY <1>2 DEF GitHub!Verified, GitHubHealth
<1>. QED BY <1>1, <1>2

\* The operator.
LEMMA GitHubOperationTyped ==
    ASSUME GitHubTypes, GitHub!Operation, book' \in GitHub!BookType
    PROVE  GitHubTypes'
<1>. USE DEF GitHubTypes
<1>1. ASSUME operator' \in GitHub!ProcessType, UNCHANGED <<poller, halted>>,
             moved' \subseteq {"poller", "operator"}
      PROVE  GitHubProcesses'
  BY <1>1 DEF GitHubProcesses, RoundHasRows
<1>2. moved \subseteq {"poller", "operator"} /\ operator \in GitHub!ProcessType
  BY DEF GitHubProcesses
<1>3. UNCHANGED GitHub!healthVars => GitHubHealth'
  BY DEF GitHub!healthVars, GitHubHealth
<1>4. UNCHANGED GitHub!storeVars => GitHubStored'
  BY DEF GitHub!storeVars, GitHubStored
<1>5. UNCHANGED absorbed => GitHubBook'
  BY DEF GitHubBook
<1>6. CASE \E R \in SUBSET {1, 2} \ {{}}, move \in {"enabling", "rotating"} :
             GitHub!BeginOperation(move, R)
  <2>1. PICK R \in SUBSET {1, 2}, move \in {"enabling", "rotating"} :
            GitHub!BeginOperation(move, R)
    BY <1>6
  <2>. DEFINE next == [GitHub!Idle EXCEPT !.phase = move, !.rest = R, !.ids = R]
  <2>2. next \in GitHub!ProcessType
    BY GitHubIdleIs DEF GitHub!Idle, GitHub!ProcessType
  <2>3. operator' = next /\ moved' = moved \ {"operator"} /\ UNCHANGED <<poller, halted>>
    BY <2>1 DEF GitHub!BeginOperation
  <2>. HIDE DEF next
  <2>4. GitHubProcesses'
    BY <1>1, <1>2, <2>2, <2>3
  <2>5. GitHubForge'
    BY <2>1, GitHubOperatesIs DEF GitHub!BeginOperation
  <2>6. UNCHANGED <<GitHub!storeVars, GitHub!healthVars, absorbed>>
    BY <2>1 DEF GitHub!BeginOperation, GitHub!bookVars
  <2>. QED BY <1>3, <1>4, <1>5, <2>4, <2>5, <2>6
<1>7. CASE GitHub!OperatorFetchesOne
  <2>. DEFINE r == GitHub!Min(operator.ids)
              ids == operator.ids \ {r}
              fetched == GitHub!Replaced({r}, forge, operator.fetched)
              next == [operator EXCEPT !.ids = ids, !.fetched = fetched]
  <2>1. operator.fetched \in [{1} -> GitHub!Observation]
    BY <1>2 DEF GitHub!ProcessType
  <2>2. ids \subseteq {1, 2} /\ fetched \in [{1} -> GitHub!Observation]
    BY <1>2, <2>1, GitHubFetchedIs DEF GitHub!ProcessType
  <2>3. /\ operator' = next
        /\ UNCHANGED <<forge, GitHub!storeVars, GitHub!healthVars, absorbed, poller, moved,
                       halted, left>>
    BY <1>7 DEF GitHub!OperatorFetchesOne, GitHub!bookVars
  <2>. HIDE DEF ids, fetched
  <2>4. next \in GitHub!ProcessType
    BY <1>2, <2>2 DEF GitHub!ProcessType
  <2>. HIDE DEF next
  <2>5. GitHubProcesses'
    BY <1>1, <1>2, <2>3, <2>4
  <2>6. GitHubForge'
    BY <2>3 DEF GitHubForge
  <2>. QED BY <1>3, <1>4, <1>5, <2>3, <2>5, <2>6
<1>8. CASE GitHub!OperatorCommits
  <2>1. operator' = GitHub!Idle /\ UNCHANGED <<forge, poller, halted, left>>
    BY <1>8 DEF GitHub!OperatorCommits
  <2>2. GitHubForge'
    BY <2>1 DEF GitHubForge
  <2>3. CASE /\ GitHub!Store(operator.rest, GitHub!OperatorFetched)
             /\ GitHub!Absorb(operator.rest, GitHub!OperatorFetched)
             /\ moved' = {"poller"}
             /\ GitHub!Recover(operator.rest)
             /\ enabled' = enabled \cup operator.rest
    <3>1. operator.fetched \in [{1} -> GitHub!Observation] /\ operator.rest \subseteq {1, 2}
      BY <1>2 DEF GitHub!ProcessType
    <3>2. GitHub!OperatorFetched \in [{1} -> GitHub!Observation]
      BY <3>1, GitHubFetchedIs DEF GitHub!OperatorFetched
    <3>3. GitHubStored'
      BY <2>3, <3>2, GitHubStoreIs
    <3>4. GitHubBook'
      BY <2>3, GitHubAbsorbIs DEF GitHubBook
    <3>5. GitHubHealth'
      BY <2>3, <3>1 DEF GitHub!Recover, GitHubHealth
    <3>. QED BY <1>1, <2>1, <2>2, <2>3, <3>3, <3>4, <3>5, GitHubIdleIs
  <2>4. CASE /\ GitHub!Verified([of |-> GitHub!Connection, kind |-> "passing"])
             /\ UNCHANGED <<GitHub!storeVars, absorbed, moved>>
    BY <1>1, <1>2, <1>4, <1>5, <2>1, <2>2, <2>4, GitHubVerifiedIs, GitHubIdleIs
  <2>5. CASE UNCHANGED <<GitHub!storeVars, GitHub!healthVars, absorbed, moved>>
    BY <1>1, <1>2, <1>3, <1>4, <1>5, <2>1, <2>2, <2>5, GitHubIdleIs
  <2>. QED BY <1>8, <2>3, <2>4, <2>5 DEF GitHub!OperatorCommits
<1>9. CASE \E f \in GitHub!FailureType : GitHub!EnablementFails(f)
  <2>1. PICK f \in GitHub!FailureType : GitHub!EnablementFails(f)
    BY <1>9
  <2>2. operator' = GitHub!Idle /\ UNCHANGED <<absorbed, poller, halted>>
    BY <2>1 DEF GitHub!EnablementFails, GitHub!bookVars
  <2>3. GitHubForge'
    BY <2>1, GitHubFailsIs DEF GitHub!EnablementFails
  <2>4. CASE UNCHANGED <<GitHub!storeVars, GitHub!healthVars, moved>>
    BY <1>1, <1>2, <1>3, <1>4, <1>5, <2>2, <2>3, <2>4, GitHubIdleIs
  <2>5. CASE /\ rows' = [r \in {1, 2} |-> GitHub!FailedRow(r, operator.rest, f, TRUE)]
             /\ gated' = FALSE /\ GitHub!Verified(f) /\ moved' = {"poller"}
             /\ UNCHANGED snapshot
    <3>1. GitHubStored'
      <4>1. rows' \in [{1, 2} -> GitHub!RowType]
        BY <2>5, GitHubFailedRowIs
      <4>. QED BY <2>5, <4>1 DEF GitHubStored
    <3>. QED BY <1>1, <1>5, <2>2, <2>3, <2>5, <3>1, GitHubVerifiedIs, GitHubIdleIs
  <2>. QED BY <2>1, <2>4, <2>5 DEF GitHub!EnablementFails
<1>10. CASE \E f \in GitHub!FailureType : GitHub!RotationFails(f)
  <2>1. PICK f \in GitHub!FailureType : GitHub!RotationFails(f)
    BY <1>10
  <2>2. /\ operator' = GitHub!Idle
        /\ UNCHANGED <<GitHub!storeVars, absorbed, poller, moved, halted>>
    BY <2>1 DEF GitHub!RotationFails, GitHub!bookVars
  <2>3. GitHubForge'
    BY <2>1, GitHubFailsIs DEF GitHub!RotationFails
  <2>4. GitHubHealth'
    BY <1>3, <2>1, GitHubVerifiedIs DEF GitHub!RotationFails
  <2>. QED BY <1>1, <1>2, <1>4, <1>5, <2>2, <2>3, <2>4, GitHubIdleIs
<1>11. CASE \E r \in {1, 2} : GitHub!Disable(r, {1, 2})
  <2>1. PICK r \in {1, 2} : GitHub!Disable(r, {1, 2})
    BY <1>11
  <2>2. GitHubForge'
    BY <2>1, GitHubOperatesIs DEF GitHub!Disable
  <2>3. GitHubHealth'
    BY <2>1 DEF GitHub!Disable, GitHubHealth
  <2>4. moved' \subseteq {"poller", "operator"} /\ UNCHANGED <<poller, operator, halted>>
    BY <1>2, <2>1 DEF GitHub!Disable
  <2>5. UNCHANGED <<GitHub!storeVars, absorbed>>
    BY <2>1 DEF GitHub!Disable, GitHub!bookVars
  <2>. QED BY <1>1, <1>2, <1>4, <1>5, <2>2, <2>3, <2>4, <2>5
<1>. QED BY <1>6, <1>7, <1>8, <1>9, <1>10, <1>11 DEF GitHub!Operation

\* Every step of the polls of GitHub keeps their types.
LEMMA GitHubTyped ==
    ASSUME GitHubTypes, GitHub!Next, book' \in GitHub!BookType
    PROVE  GitHubTypes'
<1>1. CASE GitHub!Restart
  <2>1. GitHubForge'
    BY <1>1, GitHubFailsIs DEF GitHub!Restart, GitHubTypes
  <2>2. GitHubProcesses'
    BY <1>1, GitHubIdleIs DEF GitHub!Restart, GitHubTypes, GitHubProcesses, RoundHasRows
  <2>. QED BY <1>1, <2>1, <2>2 DEF GitHub!Restart, GitHubTypes, GitHubStored, GitHubHealth,
          GitHubBook, GitHub!storeVars, GitHub!healthVars, GitHub!bookVars
<1>. QED BY <1>1, GitHubEnvironmentTyped, GitHubPollTyped, GitHubOperationTyped
        DEF GitHub!Next

-----------------------------------------------------------------------------
(***************************************************************************)
(* The types of the polls at Forgejo                                       *)
(***************************************************************************)
\* Forgejo!TypeOK, by what changes together.
ForgejoStored ==
    /\ rows \in [{1} -> Forgejo!RowType]
    /\ snapshot \in [{1, 2} -> Forgejo!Observation]
    /\ gated \in BOOLEAN
ForgejoHealth ==
    /\ connection \in {"healthy", "error"}
    /\ health \in [{1} -> {"healthy", "error"}]
    /\ enabled \subseteq {1}
ForgejoBook == book \in Forgejo!BookType /\ absorbed \subseteq {1, 2} \X Revisions
ForgejoProcesses ==
    /\ poller \in Forgejo!ProcessType /\ operator \in Forgejo!ProcessType
    /\ RoundHasRows
    /\ moved \subseteq {"poller", "operator"}
    /\ halted \in {"no", "conflict", "abort"}
ForgejoForge ==
    /\ forge \in [{1, 2} -> Revisions \cup {Forgejo!Closed}]
    /\ left \in [pushes : 0 .. MaxPushes, failures : 0 .. MaxFailures,
                 operations : 0 .. MaxOperations]
ForgejoTypes ==
    ForgejoStored /\ ForgejoHealth /\ ForgejoBook /\ ForgejoProcesses /\ ForgejoForge

\* Together they are all of its type invariant.
LEMMA ForgejoTypesAre == ForgejoTypes => Forgejo!TypeOK
BY DEF ForgejoTypes, ForgejoStored, ForgejoHealth, ForgejoBook, ForgejoProcesses, ForgejoForge,
   Forgejo!TypeOK, Forgejo!TypesOfRound

\* What a failure at Forgejo may be.
ForgejoKinds == {"limited", "owned", "repository", "connection"}

\* A process that is idle is one, with a snapshot of nothing.
LEMMA ForgejoIdleIs ==
    /\ Forgejo!Idle \in Forgejo!ProcessType /\ Forgejo!Idle.phase = "idle"
    /\ Forgejo!Nothing \in [{1, 2} -> Forgejo!Observation]
<1>1. Forgejo!Nothing \in [{1, 2} -> Forgejo!Observation]
  BY DEF Forgejo!Nothing, Forgejo!Observation
<1>. QED BY <1>1 DEF Forgejo!Idle, Forgejo!ProcessType

\* The row that is next is one of the Repositories.
LEMMA ForgejoRowIs ==
    ASSUME NEW S \in SUBSET {1}, S # {}
    PROVE  Forgejo!Min(S) \in {1}
<1>1. S = {1}
  OBVIOUS
<1>2. \E x \in S : \A y \in S : x <= y
  BY <1>1
<1>. QED BY <1>2 DEF Forgejo!Min

\* A round goes on with the rows that are left, or ends (runDue).
LEMMA ForgejoOnwardsIs ==
    ASSUME ForgejoProcesses, poller' \in {Forgejo!Idle, Forgejo!Onwards}
    PROVE  poller' \in Forgejo!ProcessType /\ RoundHasRows'
<1>. DEFINE rest == poller.rest \ {Forgejo!Row}
            next == [poller EXCEPT !.phase = "next", !.rest = rest, !.ids = {},
                                   !.fetched = Forgejo!Nothing]
<1>1. CASE poller' = Forgejo!Idle
  BY <1>1, ForgejoIdleIs DEF RoundHasRows
<1>2. CASE poller' = next /\ rest # {}
  <2>1. rest \subseteq {1}
    BY DEF ForgejoProcesses, Forgejo!ProcessType
  <2>. HIDE DEF rest
  <2>2. next \in Forgejo!ProcessType /\ next.rest = rest
    BY <2>1, ForgejoIdleIs DEF ForgejoProcesses, Forgejo!ProcessType
  <2>. HIDE DEF next
  <2>. QED BY <1>2, <2>2 DEF RoundHasRows
<1>3. poller' = Forgejo!Idle \/ (poller' = next /\ rest # {})
  <2>1. Forgejo!Onwards = IF rest = {} THEN Forgejo!Idle ELSE next
    BY DEF Forgejo!Onwards
  <2>. HIDE DEF next, rest
  <2>. QED BY <2>1
<1>. QED BY <1>1, <1>2, <1>3

\* A snapshot is replaced by one, Repository by Repository.
LEMMA ForgejoReplacedIs ==
    ASSUME NEW R, NEW s \in [{1, 2} -> Forgejo!Observation], NEW t \in [{1, 2} -> Forgejo!Observation]
    PROVE  Forgejo!Replaced(R, s, t) \in [{1, 2} -> Forgejo!Observation]
BY DEF Forgejo!Replaced

\* A row that loses its gate is a row.
LEMMA ForgejoUngatedIs ==
    ASSUME NEW row \in Forgejo!RowType
    PROVE  Forgejo!Ungated(row) \in Forgejo!RowType
<1>. DEFINE next == IF row.next = "gate" THEN "later" ELSE row.next
<1>1. next \in {"due", "later", "gate", "sentinel", "never"}
  BY DEF Forgejo!RowType
<1>2. Forgejo!Ungated(row) = [row EXCEPT !.next = next]
  BY DEF Forgejo!Ungated
<1>. HIDE DEF next
<1>. QED BY <1>1, <1>2 DEF Forgejo!RowType

\* What a success stores (commitSuccess).
LEMMA ForgejoStoreIs ==
    ASSUME ForgejoStored, NEW R, NEW new \in [{1, 2} -> Forgejo!Observation],
           Forgejo!Store(R, new)
    PROVE  ForgejoStored'
<1>1. snapshot' \in [{1, 2} -> Forgejo!Observation] /\ gated' = FALSE
  BY ForgejoReplacedIs DEF ForgejoStored, Forgejo!Store
<1>2. [baseline |-> "complete", next |-> "later"] \in Forgejo!RowType
  BY DEF Forgejo!RowType, Forgejo!BaselineStatus
<1>3. Forgejo!Ungated(rows[1]) \in Forgejo!RowType
  BY ForgejoUngatedIs DEF ForgejoStored
<1>4. rows' \in [{1} -> Forgejo!RowType]
  BY <1>2, <1>3 DEF Forgejo!Store
<1>. QED BY <1>1, <1>4 DEF ForgejoStored

\* What a baseline observes without an Evaluation.
LEMMA ForgejoAbsorbIs ==
    ASSUME absorbed \subseteq {1, 2} \X Revisions, NEW R, NEW new, Forgejo!Absorb(R, new)
    PROVE  absorbed' \subseteq {1, 2} \X Revisions
BY DEF Forgejo!Absorb

\* A failure leaves a row of the table, whichever it concerns.
LEMMA ForgejoFailedRowIs ==
    ASSUME ForgejoStored, NEW r \in {1}, NEW R, NEW f, f.kind \in ForgejoKinds, NEW baseline
    PROVE  Forgejo!FailedRow(r, R, f, baseline) \in Forgejo!RowType
<1>. DEFINE row == IF Forgejo!RepositoryOwned(f) THEN rows[r] ELSE Forgejo!Ungated(rows[r])
            attempt == Forgejo!NextAttempt(f)
<1>1. attempt \in {"never", "later", "gate"}
  BY DEF Forgejo!NextAttempt, Forgejo!Definitive, ForgejoKinds
<1>2. row \in Forgejo!RowType
  BY ForgejoUngatedIs DEF ForgejoStored
<1>3. Forgejo!FailedRow(r, R, f, baseline) =
        [baseline |-> IF (r \in R /\ f.of \in {Forgejo!Connection, r}) /\ baseline
                      THEN "error" ELSE row.baseline,
         next |-> CASE r \in R /\ f.of \in {Forgejo!Connection, r} -> attempt
                    [] ~(r \in R /\ f.of \in {Forgejo!Connection, r}) /\ r \in R
                       /\ baseline ->
                         IF Forgejo!Definitive(f) THEN "sentinel" ELSE attempt
                    [] ~(r \in R /\ f.of \in {Forgejo!Connection, r}) /\ ~baseline
                       /\ ~Forgejo!RepositoryOwned(f) -> attempt
                    [] OTHER -> row.next]
  BY DEF Forgejo!FailedRow
<1>. HIDE DEF row, attempt
<1>. QED BY <1>1, <1>2, <1>3 DEF Forgejo!RowType, Forgejo!BaselineStatus

\* The health a definitive failure leaves.
LEMMA ForgejoOwningIs ==
    ASSUME ForgejoHealth, NEW definitive \in BOOLEAN, NEW of, Forgejo!OwningFailure(definitive, of)
    PROVE  ForgejoHealth'
<1>1. CASE ~definitive
  BY <1>1 DEF Forgejo!OwningFailure, Forgejo!healthVars, ForgejoHealth
<1>2. CASE definitive /\ of = Forgejo!Connection
  BY <1>2 DEF Forgejo!OwningFailure, ForgejoHealth
<1>3. CASE definitive /\ of # Forgejo!Connection
  BY <1>3 DEF Forgejo!OwningFailure, ForgejoHealth
<1>. QED BY <1>1, <1>2, <1>3

\* What a failure stores (commitFailure).
LEMMA ForgejoStoreFailureIs ==
    ASSUME ForgejoStored, ForgejoHealth, NEW R, NEW f, f.kind \in ForgejoKinds, NEW baseline,
           Forgejo!StoreFailure(R, f, baseline)
    PROVE  ForgejoStored' /\ ForgejoHealth'
<1>1. rows' \in [{1} -> Forgejo!RowType]
  BY ForgejoFailedRowIs DEF Forgejo!StoreFailure
<1>2. gated' \in BOOLEAN /\ snapshot' = snapshot
  BY DEF Forgejo!StoreFailure, ForgejoStored
<1>3. ForgejoHealth'
  <2>. DEFINE of == IF f.kind = "connection" THEN Forgejo!Connection ELSE f.of
  <2>1. Forgejo!Definitive(f) \in BOOLEAN
    BY DEF Forgejo!Definitive
  <2>2. Forgejo!OwningFailure(Forgejo!Definitive(f), of)
    BY DEF Forgejo!StoreFailure
  <2>. HIDE DEF of
  <2>. QED BY <2>1, <2>2, ForgejoOwningIs
<1>. QED BY <1>1, <1>2, <1>3 DEF ForgejoStored

\* A round that stops the duties changes nothing else.
LEMMA ForgejoHaltsIs ==
    ASSUME ForgejoStored, ForgejoHealth, ForgejoBook, ForgejoProcesses,
           NEW why \in {"conflict", "abort"}, Forgejo!Halts(why), UNCHANGED operator,
           UNCHANGED <<Forgejo!storeVars, Forgejo!healthVars, Forgejo!bookVars, moved>>
    PROVE  ForgejoStored' /\ ForgejoHealth' /\ ForgejoBook' /\ ForgejoProcesses'
<1>1. poller' \in Forgejo!ProcessType /\ RoundHasRows' /\ halted' = why
  BY ForgejoIdleIs DEF Forgejo!Halts, RoundHasRows
<1>. QED BY <1>1 DEF Forgejo!storeVars, Forgejo!healthVars, Forgejo!bookVars,
        ForgejoStored, ForgejoHealth, ForgejoBook, ForgejoProcesses

\* A failure that is recorded of the row alone (recordFailure).
LEMMA ForgejoRecordIs ==
    ASSUME ForgejoStored, ForgejoHealth, ForgejoBook, ForgejoProcesses,
           NEW f, f.kind \in ForgejoKinds, Forgejo!RecordFailure(f), UNCHANGED operator
    PROVE  ForgejoStored' /\ ForgejoHealth' /\ ForgejoBook' /\ ForgejoProcesses'
<1>1. CASE /\ Forgejo!StoreFailure({Forgejo!Row}, f, FALSE)
           /\ moved' = {"poller", "operator"} /\ poller' = Forgejo!Idle
           /\ UNCHANGED <<Forgejo!bookVars, halted>>
  <2>1. ForgejoStored' /\ ForgejoHealth'
    BY <1>1, ForgejoStoreFailureIs
  <2>. QED BY <1>1, <2>1, ForgejoIdleIs DEF Forgejo!bookVars, ForgejoProcesses, ForgejoBook,
          RoundHasRows
<1>. QED BY <1>1, ForgejoHaltsIs DEF Forgejo!RecordFailure

\* A failure that is recorded under the generation of the round.
LEMMA ForgejoFailsRoundIs ==
    ASSUME ForgejoStored, ForgejoHealth, ForgejoBook, ForgejoProcesses,
           NEW f, f.kind \in ForgejoKinds, NEW admitted, book' \in Forgejo!BookType,
           Forgejo!CommitFailure(f, admitted), UNCHANGED operator
    PROVE  ForgejoStored' /\ ForgejoHealth' /\ ForgejoBook' /\ ForgejoProcesses'
<1>1. CASE /\ Forgejo!StoreFailure(Forgejo!Taken, f, Forgejo!Baseline)
           /\ moved' = {"operator"}
           /\ poller' \in {Forgejo!Idle, Forgejo!Onwards}
           /\ UNCHANGED <<absorbed, halted>>
  <2>1. ForgejoStored' /\ ForgejoHealth'
    BY <1>1, ForgejoStoreFailureIs
  <2>2. poller' \in Forgejo!ProcessType /\ RoundHasRows'
    BY <1>1, ForgejoOnwardsIs
  <2>. QED BY <1>1, <2>1, <2>2 DEF ForgejoProcesses, ForgejoBook
<1>. QED BY <1>1, ForgejoHaltsIs DEF Forgejo!CommitFailure

\* The transaction that ends a row.
LEMMA ForgejoCommitIs ==
    ASSUME ForgejoStored, ForgejoBook, ForgejoProcesses,
           NEW new \in [{1, 2} -> Forgejo!Observation], NEW admitted, book' \in Forgejo!BookType,
           Forgejo!CommitRow(new, admitted), UNCHANGED operator
    PROVE  ForgejoStored' /\ ForgejoBook' /\ ForgejoProcesses'
<1>1. CASE Forgejo!Halts("conflict") /\ UNCHANGED <<Forgejo!storeVars, Forgejo!bookVars, moved>>
  <2>1. poller' \in Forgejo!ProcessType /\ RoundHasRows'
    BY <1>1, ForgejoOnwardsIs DEF Forgejo!Halts
  <2>2. halted' = "conflict"
    BY <1>1 DEF Forgejo!Halts
  <2>. QED BY <1>1, <2>1, <2>2 DEF Forgejo!storeVars, Forgejo!bookVars, ForgejoStored,
          ForgejoBook, ForgejoProcesses
<1>2. CASE /\ UNCHANGED halted /\ Forgejo!Store(Forgejo!Taken, new) /\ moved' = {"operator"}
           /\ IF Forgejo!Baseline THEN Forgejo!Absorb(poller.unseen, new) ELSE UNCHANGED absorbed
           /\ poller' \in {Forgejo!Idle, Forgejo!Onwards}
  <2>1. absorbed' \subseteq {1, 2} \X Revisions
    BY <1>2, ForgejoAbsorbIs DEF ForgejoBook
  <2>. QED BY <1>2, <2>1, ForgejoStoreIs, ForgejoOnwardsIs DEF ForgejoProcesses, ForgejoBook
<1>. QED BY <1>1, <1>2 DEF Forgejo!CommitRow

\* A failure uses up its bound.
LEMMA ForgejoFailsIs ==
    ASSUME ForgejoForge, Forgejo!Fails, UNCHANGED forge
    PROVE  ForgejoForge'
<1>1. /\ left.failures \in 0 .. MaxFailures /\ left.failures > 0
      /\ left' = [left EXCEPT !.failures = left.failures - 1]
  BY DEF ForgejoForge, Forgejo!Fails
<1>2. left.failures - 1 \in 0 .. MaxFailures
  BY <1>1, PollBoundsAssumption
<1>. QED BY <1>1, <1>2 DEF ForgejoForge

\* An operation of the operator uses up its bound.
LEMMA ForgejoOperatesIs ==
    ASSUME ForgejoForge, left.operations > 0, UNCHANGED forge,
           left' = [left EXCEPT !.operations = left.operations - 1]
    PROVE  ForgejoForge'
<1>1. left.operations \in 0 .. MaxOperations
  BY DEF ForgejoForge
<1>2. left.operations - 1 \in 0 .. MaxOperations
  BY <1>1, PollBoundsAssumption
<1>. QED BY <1>2 DEF ForgejoForge

\* What the forge answers is an observation.
LEMMA ForgejoFetchedIs ==
    ASSUME ForgejoForge, NEW R, NEW t \in [{1, 2} -> Forgejo!Observation]
    PROVE  Forgejo!Replaced(R, forge, t) \in [{1, 2} -> Forgejo!Observation]
<1>1. forge \in [{1, 2} -> Forgejo!Observation]
  BY DEF ForgejoForge, Forgejo!Observation
<1>. QED BY <1>1, ForgejoReplacedIs

\* What a round prepares are Repositories.
LEMMA ForgejoTakenIs ==
    ASSUME ForgejoProcesses, poller.phase # "idle"
    PROVE  Forgejo!Taken \subseteq {1}
<1>1. poller.rest \in SUBSET {1} /\ poller.rest # {} /\ poller.unseen \subseteq {1}
  BY DEF ForgejoProcesses, Forgejo!ProcessType, RoundHasRows
<1>2. Forgejo!Row \in {1}
  BY <1>1, ForgejoRowIs DEF Forgejo!Row
<1>. QED BY <1>1, <1>2 DEF Forgejo!Taken

\* What only the poller does to itself while a round goes on.
LEMMA ForgejoPollerIs ==
    ASSUME ForgejoForge, ForgejoProcesses,
           \/ Forgejo!StartsRound /\ enabled \subseteq {1}
                /\ snapshot \in [{1, 2} -> Forgejo!Observation]
           \/ /\ poller.phase = "next"
              /\ poller' = [poller EXCEPT !.phase = "fetching", !.ids = Forgejo!Taken]
           \/ /\ poller.phase = "fetching"
              /\ poller' = [poller EXCEPT
                     !.ids = @ \ {Forgejo!Min(poller.ids)},
                     !.fetched = Forgejo!Replaced({Forgejo!Min(poller.ids)}, forge, @)]
           \/ /\ poller.phase = "fetching"
              /\ poller' = [poller EXCEPT !.phase = "acquiring", !.fetched = Forgejo!Fetched]
    PROVE  poller' \in Forgejo!ProcessType /\ RoundHasRows'
<1>0. poller \in Forgejo!ProcessType /\ (poller.phase # "idle" => poller.rest # {})
  BY DEF ForgejoProcesses, RoundHasRows
<1>1. CASE Forgejo!StartsRound /\ enabled \subseteq {1}
             /\ snapshot \in [{1, 2} -> Forgejo!Observation]
  <2>. DEFINE due == Forgejo!Due
              unseen == {r \in due : rows[r].baseline # "complete"}
              next == [Forgejo!Idle EXCEPT !.phase = "next", !.rest = due, !.seen = snapshot,
                          !.unseen = unseen]
  <2>1. due \subseteq {1} /\ unseen \subseteq {1} /\ due # {} /\ poller' = next
    BY <1>1 DEF Forgejo!StartsRound, Forgejo!Due
  <2>. HIDE DEF due, unseen
  <2>2. next \in Forgejo!ProcessType /\ next.rest = due
    BY <1>1, <2>1, ForgejoIdleIs DEF Forgejo!Idle, Forgejo!ProcessType
  <2>. HIDE DEF next
  <2>. QED BY <2>1, <2>2 DEF RoundHasRows
<1>2. CASE /\ poller.phase = "next"
           /\ poller' = [poller EXCEPT !.phase = "fetching", !.ids = Forgejo!Taken]
  <2>. DEFINE taken == Forgejo!Taken
              next == [poller EXCEPT !.phase = "fetching", !.ids = taken]
  <2>1. taken \subseteq {1}
    BY <1>2, ForgejoTakenIs
  <2>. HIDE DEF taken
  <2>2. next \in Forgejo!ProcessType /\ next.rest = poller.rest
    BY <1>0, <2>1 DEF Forgejo!ProcessType
  <2>3. poller' = next
    BY <1>2 DEF taken
  <2>. HIDE DEF next
  <2>. QED BY <1>0, <1>2, <2>2, <2>3 DEF RoundHasRows
<1>3. CASE /\ poller.phase = "fetching"
           /\ poller' = [poller EXCEPT
                  !.ids = @ \ {Forgejo!Min(poller.ids)},
                  !.fetched = Forgejo!Replaced({Forgejo!Min(poller.ids)}, forge, @)]
  <2>. DEFINE ids == poller.ids \ {Forgejo!Min(poller.ids)}
              fetched == Forgejo!Replaced({Forgejo!Min(poller.ids)}, forge, poller.fetched)
              next == [poller EXCEPT !.ids = ids, !.fetched = fetched]
  <2>0. poller' = next
    BY <1>3
  <2>1. poller.fetched \in [{1, 2} -> Forgejo!Observation]
    BY <1>0 DEF Forgejo!ProcessType
  <2>2. ids \subseteq {1} /\ fetched \in [{1, 2} -> Forgejo!Observation]
    BY <1>0, <2>1, ForgejoFetchedIs DEF Forgejo!ProcessType
  <2>. HIDE DEF ids, fetched
  <2>3. next \in Forgejo!ProcessType /\ next.rest = poller.rest
    BY <1>0, <2>2 DEF Forgejo!ProcessType
  <2>. HIDE DEF next
  <2>. QED BY <1>0, <1>3, <2>0, <2>3 DEF RoundHasRows
<1>4. CASE /\ poller.phase = "fetching"
           /\ poller' = [poller EXCEPT !.phase = "acquiring", !.fetched = Forgejo!Fetched]
  <2>. DEFINE fetched == Forgejo!Fetched
              next == [poller EXCEPT !.phase = "acquiring", !.fetched = fetched]
  <2>0. poller' = next
    BY <1>4
  <2>1. poller.fetched \in [{1, 2} -> Forgejo!Observation]
    BY <1>0 DEF Forgejo!ProcessType
  <2>2. fetched \in [{1, 2} -> Forgejo!Observation]
    BY <2>1, ForgejoFetchedIs DEF Forgejo!Fetched
  <2>. HIDE DEF fetched
  <2>3. next \in Forgejo!ProcessType /\ next.rest = poller.rest
    BY <1>0, <2>2 DEF Forgejo!ProcessType
  <2>. HIDE DEF next
  <2>. QED BY <1>0, <1>4, <2>0, <2>3 DEF RoundHasRows
<1>. QED BY <1>1, <1>2, <1>3, <1>4

\* The forge and the clock.
LEMMA ForgejoEnvironmentTyped ==
    ASSUME ForgejoTypes, Forgejo!Environment, book' \in Forgejo!BookType
    PROVE  ForgejoTypes'
<1>. USE DEF ForgejoTypes
<1>1. CASE \E p \in {1, 2}, v \in Revisions \cup {Forgejo!Closed} : Forgejo!Push(p, v)
  <2>1. PICK p \in {1, 2}, v \in Revisions \cup {Forgejo!Closed} : Forgejo!Push(p, v)
    BY <1>1
  <2>2. /\ left.pushes \in 0 .. MaxPushes /\ left.pushes > 0
        /\ forge' = [forge EXCEPT ![p] = v]
        /\ left' = [left EXCEPT !.pushes = left.pushes - 1]
        /\ UNCHANGED <<Forgejo!storeVars, Forgejo!healthVars, Forgejo!bookVars,
                       Forgejo!processVars>>
    BY <2>1 DEF Forgejo!Push, ForgejoForge
  <2>3. left.pushes - 1 \in 0 .. MaxPushes
    BY <2>2, PollBoundsAssumption
  <2>4. ForgejoForge'
    BY <2>2, <2>3 DEF ForgejoForge
  <2>. QED BY <2>2, <2>4 DEF ForgejoStored, ForgejoHealth, ForgejoBook, ForgejoProcesses,
          RoundHasRows, Forgejo!storeVars, Forgejo!healthVars, Forgejo!bookVars,
          Forgejo!processVars
<1>2. CASE \E r \in {1} : Forgejo!RowIsDue(r)
  <2>1. Forgejo!RowIsDue(1)
    BY <1>2
  <2>2. rows' \in [{1} -> Forgejo!RowType]
    <3>1. rows[1] \in Forgejo!RowType
      BY DEF ForgejoStored
    <3>. DEFINE row == [rows[1] EXCEPT !.next = "due"]
    <3>2. rows' = [rows EXCEPT ![1] = row]
      BY <2>1 DEF Forgejo!RowIsDue, ForgejoStored
    <3>3. row \in Forgejo!RowType
      BY <3>1 DEF Forgejo!RowType
    <3>. HIDE DEF row
    <3>. QED BY <3>2, <3>3 DEF ForgejoStored
  <2>. QED BY <2>1, <2>2 DEF Forgejo!RowIsDue, ForgejoStored, ForgejoHealth, ForgejoBook,
          ForgejoProcesses, ForgejoForge, RoundHasRows, Forgejo!healthVars,
          Forgejo!bookVars, Forgejo!processVars
<1>3. CASE Forgejo!GateOpens
  <2>1. rows' \in [{1} -> Forgejo!RowType]
    <3>. DEFINE next == IF rows[1].next = "gate" THEN "due" ELSE rows[1].next
                row == [rows[1] EXCEPT !.next = next]
    <3>1. rows[1] \in Forgejo!RowType
      BY DEF ForgejoStored
    <3>2. next \in {"due", "later", "gate", "sentinel", "never"}
      BY <3>1 DEF Forgejo!RowType
    <3>3. rows' = [r \in {1} |-> row]
      BY <1>3 DEF Forgejo!GateOpens
    <3>. HIDE DEF next
    <3>4. row \in Forgejo!RowType
      BY <3>1, <3>2 DEF Forgejo!RowType
    <3>. HIDE DEF row
    <3>. QED BY <3>3, <3>4
  <2>. QED BY <1>3, <2>1 DEF Forgejo!GateOpens, ForgejoStored, ForgejoHealth, ForgejoBook,
          ForgejoProcesses, ForgejoForge, RoundHasRows, Forgejo!healthVars,
          Forgejo!bookVars, Forgejo!processVars
<1>4. CASE \E e \in DOMAIN book.status : Forgejo!EndEvaluation(e)
  BY <1>4 DEF Forgejo!EndEvaluation, ForgejoStored, ForgejoHealth, ForgejoBook,
     ForgejoProcesses, ForgejoForge, RoundHasRows, Forgejo!storeVars, Forgejo!healthVars,
     Forgejo!processVars
<1>. QED BY <1>1, <1>2, <1>3, <1>4 DEF Forgejo!Environment

\* The round.
LEMMA ForgejoPollTyped ==
    ASSUME ForgejoTypes, Forgejo!Poll, book' \in Forgejo!BookType
    PROVE  ForgejoTypes'
<1>. USE DEF ForgejoTypes
<1>1. ASSUME poller' \in Forgejo!ProcessType /\ RoundHasRows',
             moved' \subseteq {"poller", "operator"},
             UNCHANGED <<forge, Forgejo!storeVars, Forgejo!healthVars, Forgejo!bookVars,
                         operator, halted>>,
             ForgejoForge'
      PROVE  ForgejoTypes'
  BY <1>1 DEF ForgejoStored, ForgejoHealth, ForgejoBook, ForgejoProcesses, Forgejo!storeVars,
     Forgejo!healthVars, Forgejo!bookVars
<1>2. CASE Forgejo!StartRound
  BY <1>1, <1>2, ForgejoPollerIs DEF Forgejo!StartRound, ForgejoStored, ForgejoHealth,
     ForgejoProcesses, ForgejoForge, Forgejo!storeVars
<1>3. CASE Forgejo!CredentialFails
  <2>1. /\ Forgejo!RecordFailure([of |-> Forgejo!Connection, kind |-> "connection"])
        /\ Forgejo!Fails /\ UNCHANGED <<forge, operator>>
    BY <1>3 DEF Forgejo!CredentialFails
  <2>. QED BY <2>1, ForgejoRecordIs, ForgejoFailsIs DEF ForgejoKinds
<1>4. CASE Forgejo!Prepare
  <2>1. poller' \in Forgejo!ProcessType /\ RoundHasRows'
    BY <1>4, ForgejoPollerIs DEF Forgejo!Prepare
  <2>. QED BY <1>1, <1>4, <2>1 DEF Forgejo!Prepare, ForgejoProcesses, ForgejoForge
<1>12. CASE \E f \in Forgejo!FailureType : Forgejo!MeetsGate(f)
  <2>1. PICK f \in Forgejo!FailureType : Forgejo!MeetsGate(f)
    BY <1>12
  <2>2. /\ Forgejo!RecordFailure(f) /\ f.kind \in ForgejoKinds
        /\ UNCHANGED <<forge, operator, left>>
    BY <2>1 DEF Forgejo!MeetsGate, ForgejoKinds
  <2>. QED BY <2>2, ForgejoRecordIs DEF ForgejoForge
<1>5. CASE Forgejo!FetchesOne
  <2>1. poller' \in Forgejo!ProcessType /\ RoundHasRows'
    BY <1>5, ForgejoPollerIs DEF Forgejo!FetchesOne
  <2>. QED BY <1>1, <1>5, <2>1 DEF Forgejo!FetchesOne, ForgejoProcesses, ForgejoForge
<1>6. CASE Forgejo!FetchesLast
  <2>1. poller.fetched \in [{1, 2} -> Forgejo!Observation]
    BY DEF ForgejoProcesses, Forgejo!ProcessType
  <2>2. Forgejo!Fetched \in [{1, 2} -> Forgejo!Observation]
    BY <2>1, ForgejoFetchedIs DEF Forgejo!Fetched
  <2>3. /\ Forgejo!CommitRow(Forgejo!Fetched, book)
        /\ UNCHANGED <<forge, Forgejo!healthVars, operator, left>>
    BY <1>6 DEF Forgejo!FetchesLast
  <2>4. ForgejoStored' /\ ForgejoBook' /\ ForgejoProcesses'
    BY <2>2, <2>3, ForgejoCommitIs
  <2>. QED BY <2>3, <2>4 DEF ForgejoHealth, ForgejoForge, Forgejo!healthVars
<1>7. CASE Forgejo!BeginAcquisition
  <2>1. poller' \in Forgejo!ProcessType /\ RoundHasRows'
    BY <1>7, ForgejoPollerIs DEF Forgejo!BeginAcquisition
  <2>. QED BY <1>1, <1>7, <2>1 DEF Forgejo!BeginAcquisition, ForgejoProcesses, ForgejoForge
<1>8. CASE Forgejo!Acquired
  <2>1. poller.fetched \in [{1, 2} -> Forgejo!Observation]
    BY DEF ForgejoProcesses, Forgejo!ProcessType
  <2>2. /\ Forgejo!CommitRow(poller.fetched, Forgejo!AdmitAll(book,
                Forgejo!Eligible(poller.fetched), poller.fetched))
        /\ UNCHANGED <<forge, Forgejo!healthVars, operator, left>>
    BY <1>8 DEF Forgejo!Acquired
  <2>3. ForgejoStored' /\ ForgejoBook' /\ ForgejoProcesses'
    BY <2>1, <2>2, ForgejoCommitIs
  <2>. QED BY <2>2, <2>3 DEF ForgejoHealth, ForgejoForge, Forgejo!healthVars
<1>10. CASE \E kind \in {"limited", "repository", "connection"} : Forgejo!FetchFails(kind)
  <2>1. PICK kind \in {"limited", "repository", "connection"} : Forgejo!FetchFails(kind)
    BY <1>10
  <2>. DEFINE f == [of |-> Forgejo!Min(poller.ids), kind |-> kind]
  <2>0. f.kind \in ForgejoKinds
    BY DEF ForgejoKinds
  <2>2. /\ Forgejo!CommitFailure(f, book) /\ UNCHANGED operator
        /\ Forgejo!Fails /\ UNCHANGED forge
    BY <2>1 DEF Forgejo!FetchFails
  <2>. HIDE DEF f
  <2>. QED BY <2>0, <2>2, ForgejoFailsRoundIs, ForgejoFailsIs
<1>11. CASE \E P \in SUBSET {1, 2}, kind \in {"owned", "repository", "connection"} :
              Forgejo!AcquisitionFails(P, kind)
  <2>1. PICK P \in SUBSET {1, 2}, kind \in {"owned", "repository", "connection"} :
            Forgejo!AcquisitionFails(P, kind)
    BY <1>11
  <2>. DEFINE f == [of |-> Forgejo!Row, kind |-> kind]
              g == [f EXCEPT !.kind = "limited"]
  <2>2. f.kind \in ForgejoKinds /\ g.kind \in ForgejoKinds
    BY DEF ForgejoKinds
  <2>3. /\ \E admitted : Forgejo!CommitFailure(f, admitted) \/ Forgejo!CommitFailure(g, admitted)
        /\ Forgejo!Fails /\ UNCHANGED <<forge, operator>>
    BY <2>1 DEF Forgejo!AcquisitionFails
  <2>. HIDE DEF f, g
  <2>. QED BY <2>2, <2>3, ForgejoFailsRoundIs, ForgejoFailsIs
<1>. QED BY <1>2, <1>3, <1>4, <1>5, <1>6, <1>7, <1>8, <1>10, <1>11, <1>12 DEF Forgejo!Poll

\* The operator.
LEMMA ForgejoOperationTyped ==
    ASSUME ForgejoTypes, Forgejo!Operation, book' \in Forgejo!BookType
    PROVE  ForgejoTypes'
<1>. USE DEF ForgejoTypes
<1>1. ASSUME operator' \in Forgejo!ProcessType, UNCHANGED <<poller, halted>>,
             moved' \subseteq {"poller", "operator"}
      PROVE  ForgejoProcesses'
  BY <1>1 DEF ForgejoProcesses, RoundHasRows
<1>2. moved \subseteq {"poller", "operator"} /\ operator \in Forgejo!ProcessType
  BY DEF ForgejoProcesses
<1>3. UNCHANGED Forgejo!healthVars => ForgejoHealth'
  BY DEF Forgejo!healthVars, ForgejoHealth
<1>4. UNCHANGED Forgejo!storeVars => ForgejoStored'
  BY DEF Forgejo!storeVars, ForgejoStored
<1>5. UNCHANGED absorbed => ForgejoBook'
  BY DEF ForgejoBook
<1>6. CASE \E r \in {1} : Forgejo!BeginEnablement(r)
  <2>1. PICK r \in {1} : Forgejo!BeginEnablement(r)
    BY <1>6
  <2>. DEFINE R == {r} \cup {q \in enabled : rows[q].baseline # "complete"}
              next == [Forgejo!Idle EXCEPT !.phase = "enabling", !.rest = R, !.ids = R,
                                           !.unseen = {r}]
  <2>2. R \subseteq {1}
    BY DEF ForgejoHealth
  <2>3. operator' = next /\ moved' = moved \ {"operator"} /\ UNCHANGED <<poller, halted>>
    BY <2>1 DEF Forgejo!BeginEnablement
  <2>. HIDE DEF R
  <2>4. next \in Forgejo!ProcessType
    BY <2>2, ForgejoIdleIs DEF Forgejo!Idle, Forgejo!ProcessType
  <2>. HIDE DEF next
  <2>5. ForgejoProcesses'
    BY <1>1, <1>2, <2>3, <2>4
  <2>6. ForgejoForge'
    BY <2>1, ForgejoOperatesIs DEF Forgejo!BeginEnablement
  <2>7. UNCHANGED <<Forgejo!storeVars, Forgejo!healthVars, absorbed>>
    BY <2>1 DEF Forgejo!BeginEnablement, Forgejo!bookVars
  <2>. QED BY <1>3, <1>4, <1>5, <2>5, <2>6, <2>7
<1>7. CASE Forgejo!OperatorFetchesOne
  <2>. DEFINE r == Forgejo!Min(operator.ids)
              ids == operator.ids \ {r}
              fetched == Forgejo!Replaced({r}, forge, operator.fetched)
              next == [operator EXCEPT !.ids = ids, !.fetched = fetched]
  <2>1. operator.fetched \in [{1, 2} -> Forgejo!Observation]
    BY <1>2 DEF Forgejo!ProcessType
  <2>2. ids \subseteq {1} /\ fetched \in [{1, 2} -> Forgejo!Observation]
    BY <1>2, <2>1, ForgejoFetchedIs DEF Forgejo!ProcessType
  <2>3. /\ operator' = next
        /\ UNCHANGED <<forge, Forgejo!storeVars, Forgejo!healthVars, absorbed, poller, moved,
                       halted, left>>
    BY <1>7 DEF Forgejo!OperatorFetchesOne, Forgejo!bookVars
  <2>. HIDE DEF ids, fetched
  <2>4. next \in Forgejo!ProcessType
    BY <1>2, <2>2 DEF Forgejo!ProcessType
  <2>. HIDE DEF next
  <2>5. ForgejoProcesses'
    BY <1>1, <1>2, <2>3, <2>4
  <2>6. ForgejoForge'
    BY <2>3 DEF ForgejoForge
  <2>. QED BY <1>3, <1>4, <1>5, <2>3, <2>5, <2>6
<1>8. CASE Forgejo!OperatorCommits
  <2>1. operator' = Forgejo!Idle /\ UNCHANGED <<forge, poller, halted, left>>
    BY <1>8 DEF Forgejo!OperatorCommits
  <2>2. ForgejoForge'
    BY <2>1 DEF ForgejoForge
  <2>3. CASE /\ Forgejo!Store(operator.rest, Forgejo!OperatorFetched)
             /\ Forgejo!Absorb(operator.rest, Forgejo!OperatorFetched)
             /\ moved' = {"poller"}
             /\ Forgejo!Recover(operator.rest)
             /\ enabled' = enabled \cup operator.unseen
    <3>1. operator.fetched \in [{1, 2} -> Forgejo!Observation] /\ operator.unseen \subseteq {1}
      BY <1>2 DEF Forgejo!ProcessType
    <3>2. Forgejo!OperatorFetched \in [{1, 2} -> Forgejo!Observation]
      BY <3>1, ForgejoFetchedIs DEF Forgejo!OperatorFetched
    <3>3. ForgejoStored'
      BY <2>3, <3>2, ForgejoStoreIs
    <3>4. ForgejoBook'
      BY <2>3, ForgejoAbsorbIs DEF ForgejoBook
    <3>5. ForgejoHealth'
      BY <2>3, <3>1 DEF Forgejo!Recover, ForgejoHealth
    <3>. QED BY <1>1, <2>1, <2>2, <2>3, <3>3, <3>4, <3>5, ForgejoIdleIs
  <2>5. CASE UNCHANGED <<Forgejo!storeVars, Forgejo!healthVars, absorbed, moved>>
    BY <1>1, <1>2, <1>3, <1>4, <1>5, <2>1, <2>2, <2>5, ForgejoIdleIs
  <2>. QED BY <1>8, <2>3, <2>5 DEF Forgejo!OperatorCommits
<1>9. CASE \E f \in Forgejo!FailureType, b \in BOOLEAN : Forgejo!EnablementFails(f, b)
  <2>1. PICK f \in Forgejo!FailureType, b \in BOOLEAN : Forgejo!EnablementFails(f, b)
    BY <1>9
  <2>2. operator' = Forgejo!Idle /\ UNCHANGED <<absorbed, poller, halted>>
    BY <2>1 DEF Forgejo!EnablementFails, Forgejo!bookVars
  <2>3. ForgejoForge'
    BY <2>1, ForgejoFailsIs DEF Forgejo!EnablementFails
  <2>4. CASE UNCHANGED <<Forgejo!storeVars, Forgejo!healthVars, moved>>
    BY <1>1, <1>2, <1>3, <1>4, <1>5, <2>2, <2>3, <2>4, ForgejoIdleIs
  <2>5. CASE Forgejo!StoreFailure(operator.rest, f, TRUE) /\ moved' = {"poller"}
    <3>1. f.kind \in ForgejoKinds
      BY DEF ForgejoKinds, Forgejo!FailureType
    <3>. QED BY <3>1, <1>1, <1>5, <2>2, <2>3, <2>5, ForgejoStoreFailureIs, ForgejoIdleIs
  <2>6. CASE /\ Forgejo!OwningFailure(Forgejo!Definitive(f),
                     IF f.kind = "connection" THEN Forgejo!Connection ELSE f.of)
             /\ UNCHANGED <<Forgejo!storeVars, moved>>
    <3>. DEFINE of == IF f.kind = "connection" THEN Forgejo!Connection ELSE f.of
    <3>a. Forgejo!Definitive(f) \in BOOLEAN /\ Forgejo!OwningFailure(Forgejo!Definitive(f), of)
      BY <2>6 DEF Forgejo!Definitive
    <3>. HIDE DEF of
    <3>1. ForgejoHealth'
      BY <3>a, ForgejoOwningIs
    <3>. QED BY <1>1, <1>2, <1>4, <1>5, <2>2, <2>3, <2>6, <3>1, ForgejoIdleIs
  <2>. QED BY <2>1, <2>4, <2>5, <2>6 DEF Forgejo!EnablementFails
<1>11. CASE \E r \in {1} : Forgejo!Disable(r, operator.rest)
  <2>1. PICK r \in {1} : Forgejo!Disable(r, operator.rest)
    BY <1>11
  <2>2. ForgejoForge'
    BY <2>1, ForgejoOperatesIs DEF Forgejo!Disable
  <2>3. ForgejoHealth'
    BY <2>1 DEF Forgejo!Disable, ForgejoHealth
  <2>4. moved' \subseteq {"poller", "operator"} /\ UNCHANGED <<poller, operator, halted>>
    BY <1>2, <2>1 DEF Forgejo!Disable
  <2>5. UNCHANGED <<Forgejo!storeVars, absorbed>>
    BY <2>1 DEF Forgejo!Disable, Forgejo!bookVars
  <2>. QED BY <1>1, <1>2, <1>4, <1>5, <2>2, <2>3, <2>4, <2>5
<1>. QED BY <1>6, <1>7, <1>8, <1>9, <1>11 DEF Forgejo!Operation

\* Every step of the polls of Forgejo keeps their types.
LEMMA ForgejoTyped ==
    ASSUME ForgejoTypes, Forgejo!Next, book' \in Forgejo!BookType
    PROVE  ForgejoTypes'
<1>1. CASE Forgejo!Restart
  <2>1. ForgejoForge'
    BY <1>1, ForgejoFailsIs DEF Forgejo!Restart, ForgejoTypes
  <2>2. ForgejoProcesses'
    BY <1>1, ForgejoIdleIs DEF Forgejo!Restart, ForgejoTypes, ForgejoProcesses, RoundHasRows
  <2>. QED BY <1>1, <2>1, <2>2 DEF Forgejo!Restart, ForgejoTypes, ForgejoStored, ForgejoHealth,
          ForgejoBook, Forgejo!storeVars, Forgejo!healthVars, Forgejo!bookVars
<1>. QED BY <1>1, ForgejoEnvironmentTyped, ForgejoPollTyped, ForgejoOperationTyped
        DEF Forgejo!Next

-----------------------------------------------------------------------------
(***************************************************************************)
(* The types of the reserve, of the backup and of the restore              *)
(***************************************************************************)
\* Storage!TypeOK, without what RowTypes says; the checkouts fit their filesystem.
ReserveTypes ==
    /\ up \in BOOLEAN /\ measurable \in BOOLEAN
    /\ occupied \in [Storage!Filesystems -> 0 .. Capacity]
    /\ IsFiniteSet(checkouts) /\ Cardinality(checkouts) <= Capacity
    /\ cleaned \in {"not_run", "available", "unavailable"}
    /\ round \in {"idle", "observing", "committed"}
    /\ requests \subseteq Works

\* With the rows, that is all of its type invariant.
LEMMA ReserveTypesAre == RowTypes /\ ReserveTypes => Storage!TypeOK
BY DEF RowTypes, ReserveTypes, Storage!TypeOK

\* The module of the reserve counts as this one does.
LEMMA SameRoom ==
    ASSUME NEW S
    PROVE  Storage!Cardinality(S) = Cardinality(S)
BY DEF Storage!Cardinality, Cardinality

\* Fewer checkouts fit as well.
LEMMA ReserveRests ==
    ASSUME ReserveTypes, UNCHANGED occupied, checkouts' \subseteq checkouts,
           up' \in BOOLEAN, measurable' \in BOOLEAN,
           cleaned' \in {"not_run", "available", "unavailable"},
           round' \in {"idle", "observing", "committed"}, requests' \subseteq Works
    PROVE  ReserveTypes'
<1>1. /\ IsFiniteSet(checkouts) /\ Cardinality(checkouts) <= Capacity
      /\ occupied \in [Storage!Filesystems -> 0 .. Capacity]
  BY DEF ReserveTypes
<1>2. IsFiniteSet(checkouts') /\ Cardinality(checkouts') <= Cardinality(checkouts)
  BY <1>1, FS_Subset
<1>3. Cardinality(checkouts') \in Nat /\ Cardinality(checkouts) \in Nat
  BY <1>1, <1>2, FS_CardinalityType
<1>4. Cardinality(checkouts') <= Capacity
  BY <1>1, <1>2, <1>3, CapacityAssumption
<1>. QED BY <1>1, <1>2, <1>4 DEF ReserveTypes

\* Whoever measures leaves no more checkouts (readFor, assertCodexStartAvailable).
LEMMA ReadTypes ==
    ASSUME ReserveTypes, NEW answer, Storage!ReadFor(answer)
    PROVE  checkouts' \subseteq checkouts /\ cleaned' \in {"not_run", "available", "unavailable"}
BY DEF ReserveTypes, Storage!ReadFor, Storage!CleanUp

\* So does a change of a row that measures before it.
LEMMA SweptTypes ==
    ASSUME ReserveTypes, NEW w, NEW row, Storage!Swept(w, row)
    PROVE  checkouts' \subseteq checkouts /\ cleaned' \in {"not_run", "available", "unavailable"}
BY DEF ReserveTypes, Storage!Swept

\* Nothing makes more checkouts, or takes more room, than there is.
LEMMA ReserveTyped ==
    ASSUME ReserveTypes, Storage!Next
    PROVE  ReserveTypes'
<1>0. /\ up \in BOOLEAN /\ measurable \in BOOLEAN /\ requests \subseteq Works
      /\ cleaned \in {"not_run", "available", "unavailable"}
      /\ round \in {"idle", "observing", "committed"}
  BY DEF ReserveTypes
<1>1. ASSUME NEW w \in Works, Storage!AdmitAtOnce(w) PROVE ReserveTypes'
  BY <1>0, <1>1, SweptTypes, ReserveRests DEF Storage!AdmitAtOnce
<1>2. ASSUME NEW w \in Works, Storage!RequestWork(w) PROVE ReserveTypes'
  BY <1>0, <1>2, ReadTypes, ReserveRests DEF Storage!RequestWork
<1>3. ASSUME NEW w \in Works,
             \/ Storage!AdmitAcquired(w) \/ Storage!AcquisitionFails(w) \/ Storage!Claim(w)
             \/ Storage!Lapse(w) \/ Storage!Cancel(w) \/ Storage!Age(w) \/ Storage!Restore(w)
      PROVE  ReserveTypes'
  <2>1. /\ UNCHANGED <<up, checkouts, occupied, measurable, cleaned, round>>
        /\ requests' \subseteq requests
    BY <1>3 DEF Storage!AdmitAcquired, Storage!AcquisitionFails, Storage!Claim,
       Storage!Lapse, Storage!Cancel, Storage!Age, Storage!Restore
  <2>. QED BY <1>0, <2>1, ReserveRests
<1>4. ASSUME NEW c \in Storage!Claims, Storage!StartCodex(c) PROVE ReserveTypes'
  BY <1>0, <1>4, SweptTypes, ReserveRests DEF Storage!StartCodex
<1>5. ASSUME NEW c \in Storage!Claims,
             \/ Storage!BeginAttempt(c) \/ Storage!Cloned(c) \/ Storage!CloneFails(c)
             \/ Storage!StartFails(c) \/ Storage!CodexEnds(c) \/ Storage!RemoveCheckout(c)
      PROVE  ReserveTypes'
  <2>1. /\ UNCHANGED <<up, occupied, measurable, cleaned, round, requests>>
        /\ checkouts' \subseteq checkouts
    BY <1>5 DEF Storage!BeginAttempt, Storage!Cloned, Storage!CloneFails,
       Storage!StartFails, Storage!CodexEnds, Storage!RemoveCheckout
  <2>. QED BY <1>0, <2>1, ReserveRests
<1>6. ASSUME NEW c \in Storage!Claims, Storage!MakeCheckout(c) PROVE ReserveTypes'
  <2>1. UNCHANGED <<up, occupied, measurable, cleaned, round, requests>>
    BY <1>6 DEF Storage!MakeCheckout
  <2>2. CASE checkouts' = checkouts \ {c}
    BY <1>0, <2>1, <2>2, ReserveRests
  <2>3. CASE /\ c \notin checkouts /\ Storage!Free("checkouts", checkouts) > 0
             /\ checkouts' = checkouts \cup {c}
    <3>1. /\ IsFiniteSet(checkouts) /\ Cardinality(checkouts) \in Nat
          /\ occupied["checkouts"] \in 0 .. Capacity
      BY FS_CardinalityType DEF ReserveTypes, Storage!Filesystems
    <3>2. IsFiniteSet(checkouts') /\ Cardinality(checkouts') = Cardinality(checkouts) + 1
      BY <2>3, <3>1, FS_AddElement
    <3>3. Capacity - occupied["checkouts"] - Cardinality(checkouts) > 0
      BY <2>3, SameRoom DEF Storage!Free
    <3>4. Cardinality(checkouts') <= Capacity
      BY <3>1, <3>2, <3>3, CapacityAssumption
    <3>. QED BY <2>1, <3>2, <3>4 DEF ReserveTypes
  <2>. QED BY <1>6, <2>2, <2>3 DEF Storage!MakeCheckout
<1>7. ASSUME \/ Storage!Inspect \/ Storage!BeginRound \/ Storage!CommitObservation
             \/ Storage!DutyFails
      PROVE  ReserveTypes'
  <2>1. /\ \E answer \in {"available", "unavailable", "failed"} : Storage!ReadFor(answer)
        /\ UNCHANGED <<occupied, measurable>> /\ up' \in {up, FALSE}
        /\ round' \in {round, "idle", "observing", "committed"} /\ requests' \in {requests, {}}
    BY <1>7 DEF Storage!Inspect, Storage!BeginRound, Storage!CommitObservation,
       Storage!DutyFails
  <2>. QED BY <1>0, <2>1, ReadTypes, ReserveRests
<1>8. ASSUME \/ Storage!CommitBaseline \/ Storage!DailyCleanup \/ Storage!Crash
             \/ Storage!Restart \/ Storage!Break
      PROVE  ReserveTypes'
  <2>1. /\ UNCHANGED occupied /\ checkouts' \subseteq checkouts
        /\ up' \in BOOLEAN /\ measurable' \in BOOLEAN /\ requests' \subseteq Works
        /\ cleaned' \in {"not_run", "available", "unavailable"}
        /\ round' \in {"idle", "observing", "committed"}
    BY <1>0, <1>8 DEF Storage!CommitBaseline, Storage!DailyCleanup, Storage!CleanUp,
       Storage!Crash, Storage!Restart, Storage!Break
  <2>. QED BY <2>1, ReserveRests
<1>9. ASSUME NEW f \in Storage!Filesystems, Storage!Occupy(f) PROVE ReserveTypes'
  <2>. DEFINE room == Capacity - (IF f = "checkouts" THEN Cardinality(checkouts) ELSE 0)
              taken == IF occupied[f] = 0 THEN room ELSE 0
  <2>1. /\ IsFiniteSet(checkouts) /\ Cardinality(checkouts) <= Capacity
        /\ occupied \in [Storage!Filesystems -> 0 .. Capacity]
    BY DEF ReserveTypes
  <2>2. Cardinality(checkouts) \in Nat
    BY <2>1, FS_CardinalityType
  <2>3. taken \in 0 .. Capacity
    BY <2>1, <2>2, CapacityAssumption
  <2>4. occupied' = [occupied EXCEPT ![f] = taken]
    BY <1>9, SameRoom DEF Storage!Occupy
  <2>. HIDE DEF taken
  <2>5. occupied' \in [Storage!Filesystems -> 0 .. Capacity]
    BY <2>1, <2>3, <2>4
  <2>6. UNCHANGED <<up, checkouts, measurable, cleaned, round, requests>>
    BY <1>9 DEF Storage!Occupy
  <2>. QED BY <2>1, <2>5, <2>6 DEF ReserveTypes
<1>. QED BY <1>1, <1>2, <1>3, <1>4, <1>5, <1>6, <1>7, <1>8, <1>9
        DEF Storage!Next, Storage!ExecutorNext

\* At the start there is no checkout and nothing is occupied.
LEMMA ReserveBegins ==
    ASSUME Storage!Init
    PROVE  ReserveTypes
<1>1. IsFiniteSet({}) /\ Cardinality({}) = 0
  BY FS_EmptySet
<1>. QED BY <1>1, CapacityAssumption DEF Storage!Init, ReserveTypes

\* Backup!TypeOK, without what DaysTyped says.
OutputTyped ==
    /\ hidden \subseteq Backup!Parts /\ torn \subseteq Backup!Days
    /\ serving \in BOOLEAN /\ backupFaults \in 0 .. MaxBackupFaults

\* With the days, that is all of its type invariant.
LEMMA BackupTypesAre == DaysTyped /\ OutputTyped => Backup!TypeOK
BY DEF DaysTyped, OutputTyped, Backup!TypeOK

\* Every step of the backup keeps what is left of its types.
LEMMA OutputStep ==
    ASSUME OutputTyped, Backup!Next
    PROVE  OutputTyped'
<1>0. /\ hidden \subseteq Backup!Parts /\ torn \subseteq Backup!Days
      /\ serving \in BOOLEAN /\ backupFaults \in 0 .. MaxBackupFaults
      /\ {"database"} \subseteq Backup!Parts /\ {"manifest"} \subseteq Backup!Parts
  BY DEF OutputTyped, Backup!Parts
<1>1. ASSUME \/ Backup!Check \/ Backup!SystemReads \/ Backup!Retain PROVE OutputTyped'
  BY <1>0, <1>1 DEF Backup!Check, Backup!SystemReads, Backup!Retain, Backup!Discarded,
     OutputTyped
<1>2. ASSUME \/ Backup!CopyBegins \/ Backup!Verify \/ Backup!NameDatabase
             \/ Backup!NameManifest \/ Backup!SynchronizeFiles
             \/ Backup!SynchronizeDirectory \/ Backup!Created \/ Backup!Abort \/ Backup!Kill
             \/ \E d \in Backup!Days : Backup!Removes(d)
      PROVE  OutputTyped'
  <2>1. /\ hidden' \subseteq Backup!Parts /\ serving' \in BOOLEAN
        /\ UNCHANGED <<torn, backupFaults>>
    BY <1>0, <1>2 DEF Backup!CopyBegins, Backup!Verify, Backup!NameDatabase,
       Backup!NameManifest, Backup!SynchronizeFiles, Backup!SynchronizeDirectory,
       Backup!Created, Backup!Abort, Backup!Kill, Backup!Removes
  <2>. QED BY <1>0, <2>1 DEF OutputTyped
<1>3. ASSUME Backup!PowerLoss \/ Backup!DayPasses PROVE OutputTyped'
  <2>1. /\ torn' \subseteq Backup!Days /\ serving' \in BOOLEAN
        /\ UNCHANGED <<hidden, backupFaults>>
    BY <1>0, <1>3 DEF Backup!PowerLoss, Backup!DayPasses
  <2>. QED BY <1>0, <2>1 DEF OutputTyped
<1>4. ASSUME Backup!Fails \/ \E left_ \in SUBSET Backup!Parts : Backup!CleansUp(left_)
      PROVE  OutputTyped'
  <2>1. /\ backupFaults' = backupFaults
           \/ (backupFaults < MaxBackupFaults /\ backupFaults' = backupFaults + 1)
        /\ hidden' \in {hidden, {}} /\ serving' \in {serving, FALSE} /\ UNCHANGED torn
    BY <1>4 DEF Backup!Fails, Backup!CleansUp
  <2>2. backupFaults' \in 0 .. MaxBackupFaults
    BY <1>0, <2>1, BackupFaultsAssumption
  <2>. QED BY <1>0, <2>1, <2>2 DEF OutputTyped
<1>. QED BY <1>1, <1>2, <1>3, <1>4 DEF Backup!Next

\* It begins without output or failures.
LEMMA OutputBegins ==
    ASSUME Backup!Init
    PROVE  OutputTyped
<1>1. backupFaults \in 0 .. MaxBackupFaults
  BY BackupFaultsAssumption DEF Backup!Init
<1>. QED BY <1>1 DEF Backup!Init, OutputTyped

\* Restore!TypeOK, without what NamesTyped says.
StepsTyped ==
    /\ candidate \in {"none", "raw", "prepared", "durable"}
    /\ committed \in BOOLEAN /\ checkpointed \in BOOLEAN /\ opaque \in BOOLEAN
    /\ report \in {"none", "restored", "failed", "retained"} /\ unrolled \in BOOLEAN
    /\ restoreFaults \in 0 .. MaxRestoreFaults

\* With the names, that is all of its type invariant.
LEMMA RestoreTypesAre == NamesTyped /\ StepsTyped => Restore!TypeOK
BY DEF NamesTyped, StepsTyped, Restore!TypeOK

\* Every step of the restore keeps what is left of its types.
LEMMA StepsStep ==
    ASSUME StepsTyped, Restore!Next
    PROVE  StepsTyped'
<1>0. restoreFaults \in 0 .. MaxRestoreFaults
  BY DEF StepsTyped
<1>1. restoreFaults < MaxRestoreFaults => restoreFaults + 1 \in 0 .. MaxRestoreFaults
  BY <1>0, RestoreFaultsAssumption
<1>2. ASSUME \/ Restore!Copy \/ Restore!Prepare \/ Restore!SynchronizeCandidate
             \/ Restore!RetainOriginal \/ Restore!RetainWal \/ Restore!MakeRetainedDurable
             \/ Restore!Consolidate
      PROVE  StepsTyped'
  BY <1>2 DEF StepsTyped, Restore!Copy, Restore!Prepare, Restore!SynchronizeCandidate,
     Restore!RetainOriginal, Restore!RetainWal, Restore!MakeRetainedDurable,
     Restore!Consolidate, Restore!Flags, Restore!Report
<1>3. ASSUME \/ Restore!RemoveWal \/ Restore!MakeRemovalDurable \/ Restore!MakeKeptDurable
             \/ Restore!Publish \/ Restore!MakePublicationDurable \/ Restore!CleanUp
      PROVE  StepsTyped'
  BY <1>3 DEF StepsTyped, Restore!RemoveWal, Restore!MakeRemovalDurable,
     Restore!MakeKeptDurable, Restore!Publish, Restore!MakePublicationDurable,
     Restore!CleanUp, Restore!Flags, Restore!Report
<1>4. ASSUME \/ Restore!Rollback \/ Restore!Unpublish \/ Restore!Relink
             \/ Restore!SyncRollback \/ Restore!Kill \/ Restore!PowerLoss
      PROVE  StepsTyped'
  BY <1>4 DEF StepsTyped, Restore!Rollback, Restore!Unpublish, Restore!Relink,
     Restore!SyncRollback, Restore!Kill, Restore!PowerLoss, Restore!Flags, Restore!Report
<1>5. ASSUME Restore!Fails \/ Restore!RollbackFails \/ Restore!Discard PROVE StepsTyped'
  <2>1. /\ restoreFaults' = restoreFaults
           \/ (restoreFaults < MaxRestoreFaults /\ restoreFaults' = restoreFaults + 1)
        /\ report' \in {report, "failed", "retained"} /\ unrolled' \in {unrolled, TRUE}
        /\ UNCHANGED <<candidate, committed, checkpointed, opaque>>
    BY <1>5 DEF Restore!Fails, Restore!RollbackFails, Restore!Discard, Restore!Flags
  <2>. QED BY <1>0, <1>1, <2>1 DEF StepsTyped
<1>. QED BY <1>2, <1>3, <1>4, <1>5 DEF Restore!Next

\* It begins with nothing done and nothing reported.
LEMMA StepsBegin ==
    ASSUME Restore!Init
    PROVE  StepsTyped
<1>1. restoreFaults \in 0 .. MaxRestoreFaults
  BY RestoreFaultsAssumption DEF Restore!Init
<1>. QED BY <1>1 DEF Restore!Init, StepsTyped

-----------------------------------------------------------------------------
(***************************************************************************)
(* The types of every part                                                 *)
(***************************************************************************)
\* A poller and its operator begin idle, before anything was read.
LEMMA PollTypesBegin ==
    ASSUME Init
    PROVE  /\ subject = "GitHub polls" => GitHubTypes
           /\ subject = "Forgejo polls" => ForgejoTypes
<1>0. /\ MaxPushes \in 0 .. MaxPushes /\ MaxFailures \in 0 .. MaxFailures
      /\ MaxOperations \in 0 .. MaxOperations
  BY PollBoundsAssumption
<1>1. ASSUME subject = "GitHub polls" PROVE GitHubTypes
  <2>1. GitHub!Init
    BY <1>1 DEF Init
  <2>2. /\ snapshot \in {[p \in {1} |-> GitHub!Closed], GitHub!Nothing} /\ gated = FALSE
        /\ \E b \in {"pending", "complete"} :
              rows = [r \in {1, 2} |-> [baseline |-> b, next |-> "due", limited |-> FALSE]]
    BY <2>1 DEF GitHub!Init, GitHub!InitWith
  <2>a. [p \in {1} |-> GitHub!Closed] \in [{1} -> GitHub!Observation]
    BY DEF GitHub!Observation
  <2>b. \A b \in {"pending", "complete"} :
            [baseline |-> b, next |-> "due", limited |-> FALSE] \in GitHub!RowType
    BY DEF GitHub!RowType, GitHub!BaselineStatus
  <2>c. rows \in [{1, 2} -> GitHub!RowType]
    BY <2>2, <2>b
  <2>3. GitHubStored
    BY <2>2, <2>a, <2>c, GitHubIdleIs DEF GitHubStored
  <2>4. GitHubHealth
    BY <2>1 DEF GitHub!Init, GitHub!InitWith, GitHubHealth
  <2>5. GitHubBook
    BY <1>1, <2>1, PollsInit DEF GitHubInv, GitHub!Init, GitHub!InitWith, GitHubBook
  <2>6. GitHubProcesses
    BY <2>1, GitHubIdleIs DEF GitHub!Init, GitHub!InitWith, GitHubProcesses, RoundHasRows
  <2>7. GitHubForge
    BY <1>0, <2>1 DEF GitHub!Init, GitHub!InitWith, GitHubForge
  <2>. QED BY <2>3, <2>4, <2>5, <2>6, <2>7 DEF GitHubTypes
<1>2. ASSUME subject = "Forgejo polls" PROVE ForgejoTypes
  <2>1. Forgejo!Init
    BY <1>2 DEF Init
  <2>2. /\ snapshot \in {[p \in {1, 2} |-> Forgejo!Closed], Forgejo!Nothing} /\ gated = FALSE
        /\ \E b \in {"pending", "complete"} :
              rows = [r \in {1} |-> [baseline |-> b, next |-> "due"]]
    BY <2>1 DEF Forgejo!Init, Forgejo!InitWith
  <2>a. [p \in {1, 2} |-> Forgejo!Closed] \in [{1, 2} -> Forgejo!Observation]
    BY DEF Forgejo!Observation
  <2>b. \A b \in {"pending", "complete"} :
            [baseline |-> b, next |-> "due"] \in Forgejo!RowType
    BY DEF Forgejo!RowType, Forgejo!BaselineStatus
  <2>c. rows \in [{1} -> Forgejo!RowType]
    BY <2>2, <2>b
  <2>3. ForgejoStored
    BY <2>2, <2>a, <2>c, ForgejoIdleIs DEF ForgejoStored
  <2>4. ForgejoHealth
    BY <2>1 DEF Forgejo!Init, Forgejo!InitWith, ForgejoHealth
  <2>5. ForgejoBook
    BY <1>2, <2>1, PollsInit DEF ForgejoInv, Forgejo!Init, Forgejo!InitWith, ForgejoBook
  <2>6. ForgejoProcesses
    BY <2>1, ForgejoIdleIs DEF Forgejo!Init, Forgejo!InitWith, ForgejoProcesses, RoundHasRows
  <2>7. ForgejoForge
    BY <1>0, <2>1 DEF Forgejo!Init, Forgejo!InitWith, ForgejoForge
  <2>. QED BY <2>3, <2>4, <2>5, <2>6, <2>7 DEF ForgejoTypes
<1>. QED BY <1>1, <1>2

\* The invariants of the parts, with what their types leave open.
PollTyped ==
    /\ subject = "GitHub polls" => GitHubInv /\ GitHubTypes
    /\ subject = "Forgejo polls" => ForgejoInv /\ ForgejoTypes
ChannelTyped == ChannelTypes /\ ChannelInv
StorageTyped == RowTypes /\ StorageInv /\ ReserveTypes
BackupTyped == BackupInv /\ OutputTyped
RestoreTyped == RestoreInv /\ StepsTyped

\* The other subjects leave the polls where they are, or alone.
LEMMA PollRests ==
    ASSUME PollTyped, UNCHANGED subject,
           subject \notin {"GitHub polls", "Forgejo polls"} \/ UNCHANGED pollVars
    PROVE  PollTyped'
<1>1. CASE subject \notin {"GitHub polls", "Forgejo polls"}
  BY <1>1 DEF PollTyped
<1>2. CASE UNCHANGED pollVars
  <2>1. UNCHANGED <<forge, rows, snapshot, gated, connection, health, enabled, book,
                    absorbed, poller, operator, moved, halted, left>>
    BY <1>2 DEF pollVars
  <2>2. GitHubInv => GitHubInv'
    BY <2>1, GitHubTakesNothingUp DEF TakesNothingUp, GitHubInv, Polled
  <2>3. ForgejoInv => ForgejoInv'
    BY <2>1, ForgejoTakesNothingUp DEF TakesNothingUp, ForgejoInv, Polled
  <2>4. GitHubTypes => GitHubTypes'
    BY <2>1 DEF GitHubTypes, GitHubStored, GitHubHealth, GitHubBook, GitHubProcesses,
       GitHubForge, RoundHasRows
  <2>5. ForgejoTypes => ForgejoTypes'
    BY <2>1 DEF ForgejoTypes, ForgejoStored, ForgejoHealth, ForgejoBook,
       ForgejoProcesses, ForgejoForge, RoundHasRows
  <2>. QED BY <2>2, <2>3, <2>4, <2>5 DEF PollTyped
<1>. QED BY <1>1, <1>2

\* Every step of the polls keeps what they rest on.
LEMMA PollKeepsTypes ==
    ASSUME PollTyped, AtGitHub(GitHub!Next) \/ AtForgejo(Forgejo!Next)
    PROVE  PollTyped'
<1>1. CASE AtGitHub(GitHub!Next)
  <2>1. GitHubInv'
    BY <1>1, GitHubStep DEF AtGitHub, PollTyped
  <2>2. GitHubTypes'
    BY <1>1, <2>1, GitHubTyped DEF AtGitHub, PollTyped, GitHubInv
  <2>. QED BY <1>1, <2>1, <2>2 DEF AtGitHub, PollTyped
<1>2. CASE AtForgejo(Forgejo!Next)
  <2>1. ForgejoInv'
    BY <1>2, ForgejoStep DEF AtForgejo, PollTyped
  <2>2. ForgejoTypes'
    BY <1>2, <2>1, ForgejoTyped DEF AtForgejo, PollTyped, ForgejoInv
  <2>. QED BY <1>2, <2>1, <2>2 DEF AtForgejo, PollTyped
<1>. QED BY <1>1, <1>2

\* THEOREM: the variables of every part keep their types; so the checkouts never
\* outgrow their filesystem, a round that goes on has a row to take, and what a
\* poll stores of a failure is a row of the table
\* (prepareReviewRunCheckout, runDue, commitFailure of both forges).
THEOREM ResilienceTypesCorrect == Spec => []TypesOK
<1>. DEFINE Inv == /\ subject \in Subjects
                   /\ PollTyped /\ ChannelTyped /\ StorageTyped /\ BackupTyped /\ RestoreTyped
<1>1. Init => Inv
  <2>. SUFFICES ASSUME Init PROVE Inv
    OBVIOUS
  <2>1. subject \in Subjects /\ Channel!Init /\ Storage!Init /\ Backup!Init /\ Restore!Init
    BY DEF Init
  <2>2. PollTyped
    BY PollsInit, PollTypesBegin DEF PollTyped
  <2>3. ChannelTyped /\ StorageTyped
    BY <2>1, ChannelBegins, StorageInit, ReserveBegins DEF ChannelTyped, StorageTyped
  <2>4. BackupTyped /\ RestoreTyped
    BY <2>1, BackupInit, OutputBegins, RestoreInit, StepsBegin DEF BackupTyped, RestoreTyped
  <2>. QED BY <2>1, <2>2, <2>3, <2>4
<1>2. Inv /\ [Next]_all => Inv'
  <2>. SUFFICES ASSUME Inv, [Next]_all PROVE Inv'
    OBVIOUS
  <2>1. UNCHANGED subject
    BY DEF Next, all, AtGitHub, AtForgejo, OfChannel, OfStorage, OfBackup, OfRestore
  <2>2. PollTyped'
    <3>1. \/ AtGitHub(GitHub!Next) \/ AtForgejo(Forgejo!Next)
          \/ subject \notin {"GitHub polls", "Forgejo polls"} \/ UNCHANGED pollVars
      BY DEF Next, all, OfChannel, OfStorage, OfBackup, OfRestore
    <3>. QED BY <2>1, <3>1, PollRests, PollKeepsTypes
  <2>3. ChannelTyped'
    <3>1. OfChannel(Channel!Next) \/ UNCHANGED channelVars
      BY DEF Next, all, AtGitHub, AtForgejo, OfStorage, OfBackup, OfRestore
    <3>. QED BY <3>1, ChannelStep, ChannelRests DEF ChannelTyped, OfChannel
  <2>4. StorageTyped'
    <3>1. OfStorage(Storage!Next) \/ UNCHANGED reserveVars
      BY DEF Next, all, AtGitHub, AtForgejo, OfChannel, OfBackup, OfRestore
    <3>2. CASE OfStorage(Storage!Next)
      BY <3>2, StorageStep, ReserveTyped DEF StorageTyped, OfStorage
    <3>3. CASE UNCHANGED reserveVars
      <4>1. ReserveTypes'
        BY <3>3 DEF reserveVars, StorageTyped, ReserveTypes
      <4>. QED BY <3>3, <4>1, StorageRests DEF StorageTyped
    <3>. QED BY <3>1, <3>2, <3>3
  <2>5. BackupTyped'
    <3>1. OfBackup(Backup!Next) \/ UNCHANGED backupVars
      BY DEF Next, all, AtGitHub, AtForgejo, OfChannel, OfStorage, OfRestore
    <3>2. CASE OfBackup(Backup!Next)
      BY <3>2, BackupStep, OutputStep DEF BackupTyped, OfBackup
    <3>3. CASE UNCHANGED backupVars
      <4>1. OutputTyped'
        BY <3>3 DEF backupVars, BackupTyped, OutputTyped
      <4>. QED BY <3>3, <4>1, BackupRests DEF BackupTyped
    <3>. QED BY <3>1, <3>2, <3>3
  <2>6. RestoreTyped'
    <3>1. OfRestore(Restore!Next) \/ UNCHANGED restoreVars
      BY DEF Next, all, AtGitHub, AtForgejo, OfChannel, OfStorage, OfBackup
    <3>2. CASE OfRestore(Restore!Next)
      BY <3>2, RestoreStep, StepsStep DEF RestoreTyped, OfRestore
    <3>3. CASE UNCHANGED restoreVars
      <4>1. StepsTyped'
        BY <3>3 DEF restoreVars, RestoreTyped, StepsTyped
      <4>. QED BY <3>3, <4>1, RestoreRests DEF RestoreTyped
    <3>. QED BY <3>1, <3>2, <3>3
  <2>. QED BY <2>1, <2>2, <2>3, <2>4, <2>5, <2>6
<1>3. Inv => TypesOK
  <2>. SUFFICES ASSUME Inv PROVE TypesOK
    OBVIOUS
  <2>1. /\ subject = "GitHub polls" => GitHub!TypeOK
        /\ subject = "Forgejo polls" => Forgejo!TypeOK
    BY GitHubTypesAre, ForgejoTypesAre DEF PollTyped
  <2>2. Channel!TypeOK
    BY ChannelTypesAre DEF ChannelTyped
  <2>3. Storage!TypeOK
    BY ReserveTypesAre DEF StorageTyped
  <2>4. Backup!TypeOK
    BY BackupTypesAre DEF BackupTyped, BackupInv
  <2>5. Restore!TypeOK
    BY RestoreTypesAre DEF RestoreTyped, RestoreInv
  <2>. QED BY <2>1, <2>2, <2>3, <2>4, <2>5 DEF TypesOK
<1>. QED BY <1>1, <1>2, <1>3, PTL DEF Spec
=============================================================================
