---------------------------- MODULE ForgejoPolling ----------------------------
(***************************************************************************)
(* Polling of one Forgejo connection: src/src/forgejo/forgejo-polling*.ts, *)
(* forgejo-automatic-reconciliation.ts, and the baseline the enablement of *)
(* a Repository commits (forgejo-repository-enablement.ts).  Other than at *)
(* GitHub, the generation is read once for a round, the attempts of all    *)
(* rows move together with the gate of the connection, and what could be   *)
(* acquired is admitted even if something else could not.                  *)
(***************************************************************************)
EXTENDS PollingRound

\* "gate" is the time of the stored gate, "later" another time ahead, and
\* "sentinel" the largest integer.
RowType == [baseline : BaselineStatus,
            next : {"due", "later", "gate", "sentinel", "never"}]

\* The gate is deleted or replaced: its time is nothing special any more.
Ungated(row) == [row EXCEPT !.next = IF @ = "gate" THEN "later" ELSE @]

\* commitSuccess of the prepared snapshots of the Repositories R.
Store(R, new) ==
    /\ rows' = [r \in Repositories |->
                  IF r \in R THEN [baseline |-> "complete", next |-> "later"]
                  ELSE Ungated(rows[r])]
    /\ snapshot' = Replaced(R, new, snapshot)
    /\ gated' = FALSE

\* A failure names the Repository it met, or none.  It is transient with a
\* next attempt ("limited"), the Repository's without being definitive
\* ("owned"), or definitive for a Repository or the connection.
FailureType == [of : Repositories \cup {Connection},
                kind : {"limited", "owned", "repository", "connection"}]

Definitive(f) == f.kind \in {"repository", "connection"}
RepositoryOwned(f) == f.kind \in {"owned", "repository"}
Gates(f) == f.kind \in {"limited", "connection"}

\* nextForgejoAttemptAt: the time a failure that is not owned makes the gate.
NextAttempt(f) ==
    CASE Definitive(f) -> "never"
      [] f.kind = "owned" -> "later"
      [] f.kind = "limited" -> "gate"

\* The rows after a failure f; R are the Repositories it was prepared for.
FailedRow(r, R, f, baseline) ==
    LET concerned == r \in R /\ f.of \in {Connection, r}
        row == IF RepositoryOwned(f) THEN rows[r] ELSE Ungated(rows[r])
    IN [baseline |-> IF concerned /\ baseline THEN "error" ELSE row.baseline,
        next |-> CASE concerned -> NextAttempt(f)
                   [] ~concerned /\ r \in R /\ baseline ->
                        IF Definitive(f) THEN "sentinel" ELSE NextAttempt(f)
                   [] ~concerned /\ ~baseline /\ ~RepositoryOwned(f) -> NextAttempt(f)
                   [] OTHER -> row.next]

\* The table demands of a pending row a next attempt and no error.
Fits(R, f, baseline) ==
    \A r \in Repositories :
        FailedRow(r, R, f, baseline).baseline = "pending" =>
            /\ FailedRow(r, R, f, baseline).next # "never"
            /\ ~(r \in R /\ f.of \in {Connection, r})

\* commitFailure, once the generation is claimed.
StoreFailure(R, f, baseline) ==
    /\ rows' = [r \in Repositories |-> FailedRow(r, R, f, baseline)]
    /\ gated' = IF RepositoryOwned(f) THEN gated ELSE f.kind = "limited"
    /\ OwningFailure(Definitive(f),
                     IF f.kind = "connection" THEN Connection ELSE f.of)
    /\ UNCHANGED snapshot

-----------------------------------------------------------------------------
Init ==
    InitWith([b \in {"pending", "complete"} |-> [baseline |-> b, next |-> "due"]])

\* The clock reaches the attempt of a row.
RowIsDue(r) ==
    /\ rows[r].next = "later"
    /\ rows' = [rows EXCEPT ![r].next = "due"]
    /\ UNCHANGED <<forge, snapshot, gated, healthVars, bookVars, processVars,
                   left>>

\* The clock reaches the gate, and with it what was set with it.
GateOpens ==
    /\ gated
    /\ gated' = FALSE
    /\ rows' = [r \in Repositories |->
                  [rows[r] EXCEPT !.next = IF @ = "gate" THEN "due" ELSE @]]
    /\ UNCHANGED <<forge, snapshot, healthVars, bookVars, processVars, left>>

-----------------------------------------------------------------------------
(* A round of the poller *)

\* queryDue reads the generation with the rows.
StartRound ==
    /\ StartsRound
    /\ moved' = moved \ {"poller"}
    /\ UNCHANGED <<forge, storeVars, healthVars, bookVars, operator, halted,
                   left>>

\* recordFailure: of the row, under whatever generation is stored, and it
\* gates the connection for the round.
RecordFailure(f) ==
    IF Fits({Row}, f, FALSE)
    THEN /\ StoreFailure({Row}, f, FALSE)
         /\ moved' = {"poller", "operator"}
         /\ poller' = Idle
         /\ UNCHANGED <<bookVars, halted>>
    ELSE Halts("abort") /\ UNCHANGED <<storeVars, healthVars, bookVars, moved>>

\* The credential of the connection cannot be decrypted.
CredentialFails ==
    /\ poller.phase = "next" /\ Fails
    /\ RecordFailure([of |-> Connection, kind |-> "connection"])
    /\ UNCHANGED <<forge, operator>>

\* prepare: a gate ahead fails the row as what set the gate had failed.
MeetsGate(f) ==
    /\ poller.phase = "next" /\ gated /\ f.kind = "limited"
    /\ RecordFailure(f)
    /\ UNCHANGED <<forge, operator, left>>

Prepare ==
    /\ poller.phase = "next" /\ ~gated
    /\ poller' = [poller EXCEPT !.phase = "fetching", !.ids = Taken]
    /\ UNCHANGED <<forge, storeVars, healthVars, bookVars, operator, moved,
                   halted, left>>

\* The generation stays the round's own: what it commits it counts.
CommitRow(new, admitted) ==
    IF Fenced("poller")
    THEN Halts("conflict") /\ UNCHANGED <<storeVars, bookVars, moved>>
    ELSE /\ UNCHANGED halted
         /\ Store(Taken, new)
         /\ moved' = {"operator"}
         /\ book' = admitted
         /\ IF Baseline THEN Absorb(poller.unseen, new) ELSE UNCHANGED absorbed
         /\ poller' = IF Baseline THEN Idle ELSE Onwards

\* The pull requests of the last Repository are there, and none is new.
FetchesLast ==
    /\ poller.phase = "fetching" /\ poller.ids = {Min(poller.ids)}
    /\ Baseline \/ Eligible(Fetched) = {}
    /\ CommitRow(Fetched, book)
    /\ UNCHANGED <<forge, healthVars, operator, left>>

\* commitFailure of the round under its generation; "admitted" is the book
\* with what was acquired nevertheless.
CommitFailure(f, admitted) ==
    CASE Fenced("poller") ->
           /\ Halts("conflict")
           /\ UNCHANGED <<storeVars, healthVars, bookVars, moved>>
      [] ~Fenced("poller") /\ Fits(Taken, f, Baseline) ->
           /\ StoreFailure(Taken, f, Baseline)
           /\ moved' = {"operator"}
           /\ book' = admitted
           /\ poller' = IF Baseline \/ Gates(f) THEN Idle ELSE Onwards
           /\ UNCHANGED <<absorbed, halted>>
      [] OTHER ->
           /\ Halts("abort")
           /\ UNCHANGED <<storeVars, healthVars, bookVars, moved>>

\* A request fails: every failure of a fetch names the Repository it met.
FetchFails(kind) ==
    /\ poller.phase = "fetching" /\ Fails
    /\ CommitFailure([of |-> Min(poller.ids), kind |-> kind], book)
    /\ UNCHANGED <<forge, operator>>

\* Every changeset is acquired: one transaction stores and admits.
Acquired ==
    /\ poller.phase = "acquiring"
    /\ CommitRow(poller.fetched,
                 AdmitAll(book, Eligible(poller.fetched), poller.fetched))
    /\ UNCHANGED <<forge, healthVars, operator, left>>

\* Those of P are not: the others are admitted with the failure, and the
\* snapshot stays.  A failure the table refuses is met again as another one.
AcquisitionFails(P, kind) ==
    LET eligible == Eligible(poller.fetched)
        f == [of |-> Row, kind |-> kind] IN
    /\ poller.phase = "acquiring" /\ Fails
    /\ P # {} /\ P \subseteq eligible
    /\ IF Fits({Row}, f, FALSE)
       THEN CommitFailure(f, AdmitAll(book, eligible \ P, poller.fetched))
       ELSE CommitFailure([f EXCEPT !.kind = "limited"], book)
    /\ UNCHANGED <<forge, operator>>

-----------------------------------------------------------------------------
(* The operator's enablement *)

\* With r, every enabled Repository without a baseline gets one; no gate
\* is respected.
BeginEnablement(r) ==
    /\ ~Running /\ operator.phase = "idle" /\ left.operations > 0
    /\ LET R == {r} \cup {q \in enabled : rows[q].baseline # "complete"} IN
         operator' = [Idle EXCEPT !.phase = "enabling", !.rest = R, !.ids = R,
                                  !.unseen = {r}]
    /\ moved' = moved \ {"operator"}
    /\ left' = [left EXCEPT !.operations = @ - 1]
    /\ UNCHANGED <<forge, storeVars, healthVars, bookVars, poller, halted>>

\* The last pull requests are there: the baseline is committed, if the
\* connection, its Repositories and the generation are what they were.
OperatorCommits ==
    /\ ~Running /\ operator.phase # "idle"
    /\ operator.ids = {Min(operator.ids)}
    /\ operator' = Idle
    /\ IF Fenced("operator")
       THEN UNCHANGED <<storeVars, healthVars, absorbed, moved>>
       ELSE /\ Store(operator.rest, OperatorFetched)
            /\ Absorb(operator.rest, OperatorFetched)
            /\ moved' = {"poller"}
            /\ Recover(operator.rest)
            /\ enabled' = enabled \cup operator.unseen
    /\ UNCHANGED <<forge, book, poller, halted, left>>

\* The verification or a request of an enablement fails: recorded if nothing
\* changed meanwhile, of the polls only what a request met.
EnablementFails(f, requested) ==
    /\ ~Running /\ operator.phase = "enabling" /\ Fails
    /\ f.kind # "owned"
    /\ IF requested THEN f.of = Min(operator.ids)
       ELSE operator.ids = operator.rest /\ f.of \in operator.rest
    /\ operator' = Idle
    /\ CASE Fenced("operator") ->
              UNCHANGED <<storeVars, healthVars, moved>>
         [] ~Fenced("operator") /\ requested ->
              StoreFailure(operator.rest, f, TRUE) /\ moved' = {"poller"}
         [] OTHER ->
              /\ OwningFailure(Definitive(f),
                     IF f.kind = "connection" THEN Connection ELSE f.of)
              /\ UNCHANGED <<storeVars, moved>>
    /\ UNCHANGED <<forge, bookVars, poller, halted>>

-----------------------------------------------------------------------------
Environment ==
    \/ \E p \in Pulls, v \in Revisions \cup {Closed} : Push(p, v)
    \/ \E r \in Repositories : RowIsDue(r)
    \/ GateOpens
    \/ \E e \in DOMAIN book.status : EndEvaluation(e)

Poll ==
    \/ StartRound \/ CredentialFails \/ Prepare
    \/ \E f \in FailureType : MeetsGate(f)
    \/ FetchesOne \/ FetchesLast \/ BeginAcquisition \/ Acquired
    \/ \E kind \in {"limited", "repository", "connection"} : FetchFails(kind)
    \/ \E P \in SUBSET Pulls, kind \in {"owned", "repository", "connection"} :
         AcquisitionFails(P, kind)

Operation ==
    \/ \E r \in Repositories : BeginEnablement(r)
    \/ OperatorFetchesOne \/ OperatorCommits
    \/ \E f \in FailureType, b \in BOOLEAN : EnablementFails(f, b)
    \/ \E r \in Repositories : Disable(r, operator.rest)

Next == Environment \/ Poll \/ Operation \/ Restart

Spec == Init /\ [][Next]_vars

\* Time passes, the timer of the poller fires, and every request ends.
Fairness ==
    /\ \A r \in Repositories : WF_vars(RowIsDue(r))
    /\ WF_vars(GateOpens)
    /\ WF_vars(StartRound)
    /\ WF_vars(Prepare \/ \E f \in FailureType : MeetsGate(f))
    /\ WF_vars(FetchesOne \/ FetchesLast \/ BeginAcquisition)
    /\ WF_vars(Acquired)

FairSpec == Spec /\ Fairness

-----------------------------------------------------------------------------
TypeOK == TypesOfRound /\ rows \in [Repositories -> RowType]

\* nextForgejoPollingDelay, which runScheduled hands to setTimeout: one of
\* more than 2^31 - 1 ms is taken for 1 ms.
NextDelay ==
    LET healthy == {r \in enabled : connection = "healthy" /\ health[r] = "healthy"}
        attempts == {rows[r].next : r \in healthy} \ {"never"}
    IN CASE attempts = {} -> "interval"
         [] attempts # {} /\ "due" \in attempts -> "now"
         [] attempts = {"sentinel"} -> "overflow"
         [] OTHER -> "attempt"

\* The poller is woken when something is due, or after its interval: it does
\* not spin.
PollingTargetsAnInterval == NextDelay # "overflow"
=============================================================================
