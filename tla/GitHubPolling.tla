---------------------------- MODULE GitHubPolling ----------------------------
(***************************************************************************)
(* Polling of one GitHub connection: src/src/github/github-polling*.ts,    *)
(* and the baselines an operator's enablement or rotation commits          *)
(* (github-repository-selection-commit.ts, github-connection-rotation.ts)  *)
(* while a round of the poller awaits.  The generation of a row is read    *)
(* when the row is prepared, and again stored with what the row observed.  *)
(***************************************************************************)
EXTENDS PollingRound

RowType == [baseline : BaselineStatus, next : {"due", "later", "never"},
            limited : BOOLEAN]   \* rate_gate_until is ahead of the clock

\* commitSuccess of the prepared snapshots of the Repositories R.
Store(R, new) ==
    /\ rows' = [r \in Repositories |->
                  IF r \in R THEN [baseline |-> "complete", next |-> "later",
                                   limited |-> FALSE]
                  ELSE rows[r]]
    /\ snapshot' = Replaced(R, new, snapshot)
    /\ gated' = FALSE

FailureType == [of : Repositories \cup {Connection},
                kind : {"passing", "limited", "definitive"}]

NextAttempt(f) == IF f.kind = "definitive" THEN "never" ELSE "later"

\* The rows after a failure f; R are the Repositories it was prepared for.
FailedRow(r, R, f, baseline) ==
    LET concerned == r \in R /\ f.of \in {Connection, r}
        row == rows[r]
    IN [baseline |-> IF concerned /\ f.of = r /\ baseline
                     THEN "error" ELSE row.baseline,
        next |-> CASE concerned -> NextAttempt(f)
                   [] ~concerned /\ f.kind = "limited" /\ row.next = "due" -> "later"
                   [] OTHER -> row.next,
        limited |-> CASE f.kind = "limited" -> TRUE
                      [] f.kind # "limited" /\ concerned -> FALSE
                      [] OTHER -> row.limited]

\* The table demands of a pending row a next attempt and no error.
Fits(R, f, baseline) ==
    \A r \in R : rows[r].baseline = "pending" =>
        /\ f.of = Connection => f.kind # "definitive"
        /\ f.of = r => baseline

\* commitFailure, once the generation is claimed.
StoreFailure(R, f, baseline) ==
    /\ rows' = [r \in Repositories |-> FailedRow(r, R, f, baseline)]
    /\ gated' = IF baseline \/ f.of = Connection
                THEN NextAttempt(f) = "later" ELSE gated
    /\ OwningFailure(f.kind = "definitive", f.of)
    /\ UNCHANGED <<snapshot, bookVars>>

-----------------------------------------------------------------------------
Init ==
    InitWith([b \in {"pending", "complete"} |->
                  [baseline |-> b, next |-> "due", limited |-> FALSE]])

\* The clock reaches the attempt of a row and the end of its rate gate.
RowIsDue(r) ==
    /\ rows[r].next = "later" \/ rows[r].limited
    /\ rows' = [rows EXCEPT ![r].limited = FALSE,
                            ![r].next = IF @ = "later" THEN "due" ELSE @]
    /\ UNCHANGED <<forge, snapshot, gated, healthVars, bookVars, processVars,
                   left>>

\* The clock reaches the end of the gate of the connection.
GateOpens ==
    /\ gated
    /\ gated' = FALSE
    /\ UNCHANGED <<forge, rows, snapshot, healthVars, bookVars, processVars,
                   left>>

-----------------------------------------------------------------------------
(* A round of the poller *)

StartRound ==
    /\ StartsRound
    /\ UNCHANGED <<forge, storeVars, healthVars, bookVars, operator, moved,
                   halted, left>>

\* recordFailure: of the row, under whatever generation is stored.  What the
\* table refuses aborts the transaction, and nothing catches the error.
RecordFailure(f) ==
    IF Fits({Row}, f, FALSE)
    THEN /\ StoreFailure({Row}, f, FALSE)
         /\ moved' = {"operator"}
         /\ poller' = Onwards
         /\ UNCHANGED halted
    ELSE Halts("abort") /\ UNCHANGED <<storeVars, healthVars, bookVars, moved>>

\* The credential of the connection cannot be decrypted.
CredentialFails ==
    /\ poller.phase = "next" /\ Fails
    /\ RecordFailure([of |-> Connection, kind |-> "definitive"])
    /\ UNCHANGED <<forge, operator>>

\* prepare: the gates, then the generation, then the first request.
Prepare ==
    /\ poller.phase = "next"
    /\ IF gated \/ \E r \in Repositories : rows[r].limited
       THEN poller' = Idle /\ UNCHANGED moved
       ELSE /\ poller' = [poller EXCEPT !.phase = "fetching", !.ids = Taken]
            /\ moved' = moved \ {"poller"}
    /\ UNCHANGED <<forge, storeVars, healthVars, bookVars, operator, halted, left>>

\* The transaction that ends a row, or the conflict that ends the round.
CommitRow(new, admitted) ==
    IF Fenced("poller")
    THEN Halts("conflict") /\ UNCHANGED <<storeVars, bookVars, moved>>
    ELSE /\ UNCHANGED halted
         /\ Store(Taken, new)
         /\ moved' = {"operator"}
         /\ book' = admitted
         /\ IF Baseline THEN Absorb(poller.unseen, new) ELSE UNCHANGED absorbed
         /\ poller' = IF Baseline THEN Idle ELSE Onwards

\* The pull requests of the last Repository are there, and none is new.
FetchesLast ==
    /\ poller.phase = "fetching" /\ poller.ids = {Min(poller.ids)}
    /\ Baseline \/ Eligible(Fetched) = {}
    /\ CommitRow(Fetched, book)
    /\ UNCHANGED <<forge, healthVars, operator, left>>

\* A request fails; the failure is recorded under the generation.
FetchFails(f) ==
    /\ poller.phase = "fetching" /\ Fails
    /\ f.of \in {Connection, Min(poller.ids)}
    /\ CASE Fenced("poller") ->
              /\ Halts("conflict")
              /\ UNCHANGED <<storeVars, healthVars, bookVars, moved>>
         [] ~Fenced("poller") /\ Fits(Taken, f, Baseline) ->
              /\ StoreFailure(Taken, f, Baseline)
              /\ moved' = {"operator"}
              /\ poller' = IF Baseline \/ f.kind = "limited" THEN Idle ELSE Onwards
              /\ UNCHANGED halted
         [] OTHER -> RecordFailure([of |-> Row, kind |-> "passing"])
    /\ UNCHANGED <<forge, operator>>

\* Every changeset is acquired: one transaction stores and admits.
Acquired ==
    /\ poller.phase = "acquiring"
    /\ CommitRow(poller.fetched,
                 AdmitAll(book, Eligible(poller.fetched), poller.fetched))
    /\ UNCHANGED <<forge, healthVars, operator, left>>

\* One is not: recordFailure of the row, under whatever generation.
AcquisitionFails(kind) ==
    /\ poller.phase = "acquiring" /\ Fails
    /\ RecordFailure([of |-> Row, kind |-> kind])
    /\ UNCHANGED <<forge, operator>>

\* GitHub itself fails the acquisition: nothing is recorded, the row stays due.
AcquisitionRefused ==
    /\ poller.phase = "acquiring" /\ Fails
    /\ poller' \in {Idle, Onwards}
    /\ UNCHANGED <<forge, storeVars, healthVars, bookVars, operator, moved,
                   halted>>

-----------------------------------------------------------------------------
(* The operator's baselines *)

\* An enablement of R respects the gates, a rotation ignores them.
BeginOperation(phase, R) ==
    /\ ~Running /\ operator.phase = "idle" /\ left.operations > 0
    /\ CASE phase = "enabling" -> ~gated /\ \A r \in Repositories : ~rows[r].limited
         [] phase = "rotating" -> R = enabled
    /\ operator' = [Idle EXCEPT !.phase = phase, !.rest = R, !.ids = R]
    /\ moved' = moved \ {"operator"}
    /\ left' = [left EXCEPT !.operations = @ - 1]
    /\ UNCHANGED <<forge, storeVars, healthVars, bookVars, poller, halted>>

\* What a failed verification leaves behind: a failure of one Repository
\* proves that the connection works, any other that it does not.
Verified(f) ==
    IF f.kind = "definitive" /\ f.of # Connection
    THEN /\ connection' = "healthy"
         /\ health' = [health EXCEPT ![f.of] = "error"]
         /\ UNCHANGED enabled
    ELSE connection' = "error" /\ UNCHANGED <<health, enabled>>

\* The last pull requests are there: the baseline is committed, if the
\* connection, its Repositories and the generation are what they were.  A
\* rotation records the conflict as a failure of the connection, unless what
\* changed are its Repositories.
OperatorCommits ==
    /\ ~Running /\ operator.phase # "idle"
    /\ operator.ids = {Min(operator.ids)}
    /\ operator' = Idle
    /\ CASE ~Fenced("operator") ->
              /\ Store(operator.rest, OperatorFetched)
              /\ Absorb(operator.rest, OperatorFetched)
              /\ moved' = {"poller"}
              /\ Recover(operator.rest)
              /\ enabled' = enabled \cup operator.rest
         [] Fenced("operator") /\ operator.phase = "rotating"
                               /\ enabled = operator.rest ->
              /\ Verified([of |-> Connection, kind |-> "passing"])
              /\ UNCHANGED <<storeVars, absorbed, moved>>
         [] OTHER -> UNCHANGED <<storeVars, healthVars, absorbed, moved>>
    /\ UNCHANGED <<forge, book, poller, halted, left>>

\* A request of an enablement fails: a definitive failure is recorded if
\* nothing changed meanwhile, another one is not.
EnablementFails(f) ==
    /\ ~Running /\ operator.phase = "enabling" /\ Fails
    /\ f.of \in {Connection, Min(operator.ids)}
    /\ operator' = Idle
    /\ IF f.kind # "definitive" \/ Fenced("operator") \/ ~Fits(operator.rest, f, TRUE)
       THEN UNCHANGED <<storeVars, healthVars, moved>>
       ELSE /\ rows' = [r \in Repositories |-> FailedRow(r, operator.rest, f, TRUE)]
            /\ gated' = FALSE
            /\ Verified(f)
            /\ moved' = {"poller"}
            /\ UNCHANGED snapshot
    /\ UNCHANGED <<forge, bookVars, poller, halted>>

\* One of a rotation leaves nothing but its verification behind.
RotationFails(f) ==
    /\ ~Running /\ operator.phase = "rotating" /\ Fails
    /\ f.of \in {Connection, Min(operator.ids)}
    /\ operator' = Idle
    /\ IF enabled = operator.rest THEN Verified(f) ELSE UNCHANGED healthVars
    /\ UNCHANGED <<forge, storeVars, bookVars, poller, moved, halted>>

-----------------------------------------------------------------------------
Environment ==
    \/ \E p \in Pulls, v \in Revisions \cup {Closed} : Push(p, v)
    \/ \E r \in Repositories : RowIsDue(r)
    \/ GateOpens
    \/ \E e \in DOMAIN book.status : EndEvaluation(e)

Poll ==
    \/ StartRound \/ CredentialFails \/ Prepare
    \/ FetchesOne \/ FetchesLast
    \/ BeginAcquisition \/ Acquired \/ AcquisitionRefused
    \/ \E f \in FailureType : FetchFails(f)
    \/ \E kind \in {"passing", "definitive"} : AcquisitionFails(kind)

Operation ==
    \/ \E R \in SUBSET Repositories \ {{}}, phase \in {"enabling", "rotating"} :
         BeginOperation(phase, R)
    \/ OperatorFetchesOne \/ OperatorCommits
    \/ \E f \in FailureType : EnablementFails(f) \/ RotationFails(f)
    \/ \E r \in Repositories : Disable(r, Repositories)

Next == Environment \/ Poll \/ Operation \/ Restart

Spec == Init /\ [][Next]_vars

\* Time passes, the timer of the poller fires, and every request ends.
Fairness ==
    /\ \A r \in Repositories : WF_vars(RowIsDue(r))
    /\ WF_vars(GateOpens)
    /\ WF_vars(StartRound)
    /\ WF_vars(Prepare)
    /\ WF_vars(FetchesOne \/ FetchesLast \/ BeginAcquisition)
    /\ WF_vars(Acquired)

FairSpec == Spec /\ Fairness

-----------------------------------------------------------------------------
TypeOK == TypesOfRound /\ rows \in [Repositories -> RowType]
=============================================================================
