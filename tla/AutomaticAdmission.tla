-------------------------- MODULE AutomaticAdmission --------------------------
(***************************************************************************)
(* The admission of automatic Evaluations, as both pollers use it:         *)
(*   src/src/automatic-evaluation-*.ts, github/github-evaluation-          *)
(*   supersession.ts, forgejo/forgejo-evaluation-*.ts.                     *)
(*                                                                         *)
(* An automatic Evaluation is that of one Repository and one revision (a   *)
(* pair of base and head), shared by every pull request with this pair.    *)
(* "book" is what the database holds of them:                              *)
(*   book.status   of each Evaluation, by its Repository and revision;     *)
(*   book.of       the associations, as pairs of pull request and revision.*)
(***************************************************************************)
EXTENDS Naturals, FiniteSets, FiniteSetsExt

CONSTANTS Pulls,         \* the pull requests, numbered across Repositories
          Repositories,  \* numbers, too
          RepositoryOf,  \* the Repository of each pull request
          Revisions      \* the pairs of base and head, strings but for two:

\* A pull request that is closed, merged, a draft or not there.
Closed == "closed"
\* The snapshot of a Repository that was never observed.
Unseen == "unseen"

PullsOf(r) == {p \in Pulls : RepositoryOf[p] = r}

EvaluationStatus == {"none", "active", "ended", "cancelled"}
BookType ==
    [status : [Repositories \X Revisions -> EvaluationStatus],
     of : SUBSET (Pulls \X Revisions)]
EmptyBook ==
    [status |-> [e \in Repositories \X Revisions |-> "none"], of |-> {}]

\* Faulty variant: a pull request that was observed before is not new.
NewlyEligible_Opened(previous, current, r) ==
    {p \in PullsOf(r) : current[p] \in Revisions /\ previous[p] \notin Revisions}

\* Faulty variant: whether it is open is not asked.
NewlyEligible_Changed(previous, current, r) ==
    {p \in PullsOf(r) : previous[p] # current[p]}

\* newlyEligible...PullRequests: open now, and not with this pair before.
NewlyEligible(previous, current, r) ==
    {p \in PullsOf(r) : current[p] \in Revisions /\ previous[p] # current[p]}

\* Faulty variant: looked up by the revision that is only to be associated.
Superseded_Current(book, p, v) ==
    {e \in {RepositoryOf[p]} \X (Revisions \ {v}) :
       <<p, v>> \in book.of /\ book.status[e] = "active"}

\* The active Evaluations associated with p, but those of v.
Superseded(book, p, v) ==
    {e \in {RepositoryOf[p]} \X (Revisions \ {v}) :
       <<p, e[2]>> \in book.of /\ book.status[e] = "active"}

\* prepareAutomaticEvaluation and, where there is none yet, the admission
\* of an Evaluation and recordAutomaticEvaluation.
Admit(book, p, v) ==
    LET superseded == Superseded(book, p, v)
        own == <<RepositoryOf[p], v>> IN
    [status |-> [e \in DOMAIN book.status |->
                   CASE e \in superseded -> "cancelled"
                     [] e = own /\ book.status[e] = "none" -> "active"
                     [] OTHER -> book.status[e]],
     of |-> book.of \cup {<<p, v>>}]

\* admitAutomaticEvaluations: in the order of their numbers.
AdmitAll(book, P, current) ==
    LET admitted[Q \in SUBSET P] ==
          IF Q = {} THEN book
          ELSE LET p == Max(Q) IN Admit(admitted[Q \ {p}], p, current[p])
    IN admitted[P]

\* The Evaluation of e ends: its Runs are done, or all were cancelled.
Ended(book, e) == [book EXCEPT !.status[e] = "ended"]
=============================================================================
