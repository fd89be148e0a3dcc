----------------------------- MODULE PollingRound -----------------------------
(***************************************************************************)
(* What the pollers of both forges share: src/src/forge/polling/runner.ts  *)
(* and the parts of src/src/github/github-polling*.ts and                  *)
(* src/src/forgejo/forgejo-polling*.ts that are the same code twice.       *)
(*                                                                         *)
(* The poller of one connection takes the due Repositories in turn while   *)
(* an operator's baseline, a restart and the forge itself interleave.      *)
(* Between two awaits the code runs alone: phase "next" of the poller is   *)
(* such a stretch, and nothing else moves in it.  A generation that was    *)
(* read is still current until somebody claims one: "moved" has the        *)
(* processes for which what they read is no longer what is stored.         *)
(* Times are what they mean now: an attempt is due, later or never.        *)
(***************************************************************************)
EXTENDS AutomaticAdmission

CONSTANTS MaxPushes, MaxFailures, MaxOperations   \* bounds of the runs

VARIABLES
    forge,       \* the revision of each pull request at the forge
    rows,        \* the poll rows of the Repositories, but for their snapshots
    snapshot,    \* the stored snapshots, by pull request
    gated,       \* the poll gate of the connection is ahead of the clock
    connection,  \* health of the connection
    health,      \* health of the Repositories
    enabled,     \* the enabled Repositories
    book,        \* the automatic Evaluations
    absorbed,    \* what baselines observed without an Evaluation
    poller, operator, moved,
    halted,      \* why the duties were stopped, as for a failed runtime
    left         \* what the bounds leave

storeVars == <<rows, snapshot, gated>>
healthVars == <<connection, health, enabled>>
bookVars == <<book, absorbed>>
processVars == <<poller, operator, moved, halted>>
vars == <<forge, storeVars, healthVars, bookVars, processVars, left>>

Observation == Revisions \cup {Closed, Unseen}
Nothing == [p \in Pulls |-> Unseen]
BaselineStatus == {"pending", "complete", "error"}

Idle == [phase |-> "idle", rest |-> {}, unseen |-> {}, ids |-> {},
         seen |-> Nothing, fetched |-> Nothing]
ProcessType ==
    [phase : {"idle", "next", "fetching", "acquiring", "enabling", "rotating"},
     rest : SUBSET Repositories,      \* due rows the round has still to take
     unseen : SUBSET Repositories,    \* those of them without a baseline
     ids : SUBSET Repositories,       \* what is prepared, still to be fetched
     seen : [Pulls -> Observation],   \* the snapshots of the due rows
     fetched : [Pulls -> Observation]]

Running == poller.phase = "next"
Row == Min(poller.rest)
Baseline == poller.unseen # {}
Taken == IF Baseline THEN poller.unseen ELSE {Row}

-----------------------------------------------------------------------------
(* What is stored *)

Replaced(R, s, t) ==
    [p \in Pulls |-> IF RepositoryOf[p] \in R THEN s[p] ELSE t[p]]

Absorb(R, new) ==
    absorbed' = absorbed \cup
        {<<p, new[p]>> : p \in {q \in Pulls : /\ RepositoryOf[q] \in R
                                              /\ new[q] \in Revisions}}

\* What a failure is of, if not of one Repository, which have numbers above.
Connection == 0

\* The health a definitive failure of a poll leaves behind.
OwningFailure(definitive, of) ==
    CASE ~definitive -> UNCHANGED healthVars
      [] definitive /\ of = Connection ->
           connection' = "error" /\ UNCHANGED <<health, enabled>>
      [] definitive /\ of # Connection ->
           /\ health' = [health EXCEPT ![of] = "error"]
           /\ UNCHANGED <<connection, enabled>>

\* The health a committed baseline of R leaves behind.
Recover(R) ==
    /\ connection' = "healthy"
    /\ health' = [r \in Repositories |-> IF r \in R THEN "healthy" ELSE health[r]]

Fails == left.failures > 0 /\ left' = [left EXCEPT !.failures = @ - 1]

\* Before the first poll, of a new Repository or after a restore, or later.
InitWith(row) ==
    /\ forge = [p \in Pulls |-> Closed]
    /\ \E b \in {"pending", "complete"} :
         /\ rows = [r \in Repositories |-> row[b]]
         /\ snapshot = IF b = "complete" THEN forge ELSE Nothing
    /\ absorbed = {}
    /\ gated = FALSE
    /\ connection = "healthy" /\ health = [r \in Repositories |-> "healthy"]
    /\ enabled \in {Repositories, Repositories \ {Max(Repositories)}}
    /\ book = EmptyBook
    /\ poller = Idle /\ operator = Idle /\ moved = {} /\ halted = "no"
    /\ left = [pushes |-> MaxPushes, failures |-> MaxFailures,
               operations |-> MaxOperations]

\* A push, a close or a reopening at the forge.
Push(p, v) ==
    /\ ~Running /\ left.pushes > 0
    /\ v # forge[p]
    /\ forge' = [forge EXCEPT ![p] = v]
    /\ left' = [left EXCEPT !.pushes = @ - 1]
    /\ UNCHANGED <<storeVars, healthVars, bookVars, processVars>>

-----------------------------------------------------------------------------
(* A round of the poller *)

\* queryDue.
Due == {r \in enabled : /\ rows[r].next = "due"
                        /\ connection = "healthy" /\ health[r] = "healthy"}

StartsRound ==
    /\ poller.phase = "idle" /\ Due # {} /\ halted = "no"
    /\ poller' = [Idle EXCEPT !.phase = "next", !.rest = Due, !.seen = snapshot,
                      !.unseen = {r \in Due : rows[r].baseline # "complete"}]

\* The loop of runDue after a row that did not gate the connection.
Onwards ==
    LET rest == poller.rest \ {Row} IN
    IF rest = {} THEN Idle
    ELSE [poller EXCEPT !.phase = "next", !.rest = rest, !.ids = {},
                        !.fetched = Nothing]

\* An error leaves the round: the duty fails, and the runtime with it.
Halts(why) == poller' = Idle /\ halted' = why

\* Faulty variant: a process claims whatever generation is stored.
Fenced_Trusting(process) == FALSE

\* claim...PollingGeneration refuses the generation that process expects.
Fenced(process) == process \in moved

\* The pull requests of one Repository are there, and others are awaited.
FetchesOne ==
    LET r == Min(poller.ids) IN
    /\ poller.phase = "fetching" /\ poller.ids # {r}
    /\ poller' = [poller EXCEPT !.ids = @ \ {r},
                                !.fetched = Replaced({r}, forge, @)]
    /\ UNCHANGED <<forge, storeVars, healthVars, bookVars, operator, moved,
                   halted, left>>

Fetched == Replaced(poller.ids, forge, poller.fetched)
Eligible(fetched) == NewlyEligible(poller.seen, fetched, Row)

\* Changesets are to be acquired before the last row can be stored.
BeginAcquisition ==
    /\ poller.phase = "fetching" /\ poller.ids = {Row}
    /\ ~Baseline /\ Eligible(Fetched) # {}
    /\ poller' = [poller EXCEPT !.phase = "acquiring", !.fetched = Fetched]
    /\ UNCHANGED <<forge, storeVars, healthVars, bookVars, operator, moved,
                   halted, left>>

OperatorFetchesOne ==
    LET r == Min(operator.ids) IN
    /\ ~Running /\ operator.phase # "idle" /\ operator.ids # {r}
    /\ operator' = [operator EXCEPT !.ids = @ \ {r},
                                    !.fetched = Replaced({r}, forge, @)]
    /\ UNCHANGED <<forge, storeVars, healthVars, bookVars, poller, moved,
                   halted, left>>

OperatorFetched == Replaced(operator.ids, forge, operator.fetched)

\* The operator disables a Repository, in one transaction: what a baseline
\* of the Repositories R read of it is no longer so.
Disable(r, R) ==
    /\ ~Running /\ left.operations > 0 /\ r \in enabled
    /\ enabled' = enabled \ {r}
    /\ moved' = IF r \in R THEN moved \cup {"operator"} ELSE moved
    /\ left' = [left EXCEPT !.operations = @ - 1]
    /\ UNCHANGED <<forge, storeVars, connection, health, bookVars, poller,
                   operator, halted>>

\* An Evaluation ends.
EndEvaluation(e) ==
    /\ ~Running /\ book.status[e] = "active"
    /\ book' = Ended(book, e)
    /\ UNCHANGED <<forge, storeVars, healthVars, absorbed, processVars, left>>

\* The application stops or crashes, and starts again.
Restart ==
    /\ ~Running /\ Fails
    /\ poller' = Idle /\ operator' = Idle /\ halted' = "no"
    /\ UNCHANGED <<forge, storeVars, healthVars, bookVars, moved>>

-----------------------------------------------------------------------------
TypesOfRound ==
    /\ forge \in [Pulls -> Revisions \cup {Closed}]
    /\ snapshot \in [Pulls -> Observation]
    /\ gated \in BOOLEAN
    /\ connection \in {"healthy", "error"}
    /\ health \in [Repositories -> {"healthy", "error"}]
    /\ enabled \subseteq Repositories
    /\ book \in BookType
    /\ absorbed \subseteq Pulls \X Revisions
    /\ poller \in ProcessType /\ operator \in ProcessType
    /\ moved \subseteq {"poller", "operator"}
    /\ halted \in {"no", "conflict", "abort"}
    /\ left \in [pushes : 0 .. MaxPushes, failures : 0 .. MaxFailures,
                 operations : 0 .. MaxOperations]

\* A stored snapshot hides no revision: whatever it shows as open was
\* admitted for that pull request, or absorbed by a baseline.
NoRevisionIsMissed ==
    \A p \in Pulls : snapshot[p] \in Revisions =>
        <<p, snapshot[p]>> \in book.of \cup absorbed

\* A pull request has one Evaluation under way, of whatever it was pushed to.
OneActivePerPull ==
    \A p \in Pulls :
        Cardinality({v \in Revisions :
            /\ <<p, v>> \in book.of
            /\ book.status[<<RepositoryOf[p], v>>] = "active"}) <= 1

\* Whatever a round records fits the table of the poll rows: its CHECK
\* aborts no transaction of a round, which would stop all duties.
FailuresAreRecorded == halted # "abort"

\* What the poller may poll, unless a definitive failure parked its row.
Pollable(r) ==
    /\ r \in enabled /\ connection = "healthy" /\ health[r] = "healthy"
    /\ rows[r].next \notin {"never", "sentinel"} /\ halted = "no"

\* A revision that the poller should find and has not taken up.
Missed(p) ==
    /\ forge[p] \in Revisions /\ Pollable(RepositoryOf[p])
    /\ <<p, forge[p]>> \notin book.of \cup absorbed

\* No open revision is missed for ever, whatever failures, baselines and
\* restarts ended or overtook the rounds before.
EveryRevisionIsTaken == []<>(\A p \in Pulls : ~Missed(p))
=============================================================================
