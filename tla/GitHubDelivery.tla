--------------------------- MODULE GitHubDelivery ---------------------------
(***************************************************************************)
(* One row of github_delivery_attempts and what the delivery protocol does *)
(* to it: src/src/github/github-delivery.ts and its schema.                *)
(*                                                                         *)
(* A publication is identified by its source.  The row of a source says    *)
(* whether a write may have reached the provider (reconcile), whether it   *)
(* has been found there (external) and whether it was refused for good     *)
(* (verdict).  A completion is applied only by the attempt that holds the  *)
(* row: nobody has begun, resumed or retired it since, and the connection  *)
(* has not been verified again.                                            *)
(***************************************************************************)
EXTENDS Naturals

\* The row as its trigger inserts it, and as the first delivery finds it.
FreshAttempt == [generation |-> 0, authority |-> 0, due |-> TRUE,
                 reconcile |-> FALSE, external |-> FALSE, verdict |-> "none"]

\* verdict: not definitive; definitive until the authority is verified again;
\* definitive for ever.
Verdicts == {"none", "recoverable", "final"}

AttemptType == [generation : Nat, authority : Nat, due : BOOLEAN,
                reconcile : BOOLEAN, external : BOOLEAN, verdict : Verdicts]

Operations == {"create", "reconcile"}

(***************************************************************************)
(* What a request can fail with.                                           *)
(*   unavailable  no answer, an invalid one, or a server error             *)
(*   limited      the provider asks to wait: its gate is closed            *)
(*   authority    401, 403, a credential, permission or principal that does*)
(*                not match: the connection is in error                    *)
(*   repository   404 for the repository                                   *)
(*   rejected     any other refusal of the request                         *)
(*   conflict     the status was found more than once                      *)
(***************************************************************************)
Failures == {"unavailable", "limited", "authority", "repository", "rejected",
             "conflict"}

VerdictOf(failure) ==
    CASE failure \in {"authority", "repository"} -> "recoverable"
      [] failure \in {"rejected", "conflict"} -> "final"
      [] OTHER -> "none"

\* The write may have been performed although it failed.
Uncertain(failure, operation) ==
    failure = "unavailable" /\ operation = "create"

-----------------------------------------------------------------------------
\* Faulty variant: what has been begun once is never due again.
MayBegin_Once(d, gated) == d.generation = 0 /\ d.verdict = "none" /\ ~gated

\* An attempt may be made when it is due and the provider's gate is open.
MayBegin(d, gated) == d.verdict = "none" /\ d.due /\ ~gated

\* Faulty variant: only an uncertain failure asks for reconciliation.
Begun_Trusting(d, verified, operation) ==
    [d EXCEPT !.generation = @ + 1, !.authority = verified]

\* beginGitHubDeliveryAttempt: from here on a crash must reconcile.
Begun(d, verified, operation) ==
    [d EXCEPT !.generation = @ + 1,
              !.authority = verified,
              !.reconcile = @ \/ operation = "create"]

\* Faulty variant: a completion is applied whoever has touched the row since.
Held_Unfenced(d, generation, verified) == d.verdict = "none"

\* The attempt that read generation still holds the row.
Held(d, generation, verified) ==
    /\ d.generation = generation + 1
    /\ d.verdict = "none"
    /\ d.authority = verified

\* succeedGitHubDelivery: the external identity is known.
Succeeded(d) ==
    [d EXCEPT !.due = TRUE, !.reconcile = FALSE, !.external = TRUE]

\* failGitHubDelivery: back off, or be definitive.
Failed(d, failure, operation) ==
    [d EXCEPT !.due = VerdictOf(failure) # "none",
              !.reconcile = @ \/ Uncertain(failure, operation),
              !.verdict = VerdictOf(failure)]

\* proveGitHubDeliveryAbsent: the provider does not have it.
ProvenAbsent(d) == [d EXCEPT !.due = TRUE, !.reconcile = FALSE]

\* Faulty variant: the refusal stays.
Resumed_Definitive(d) == [d EXCEPT !.generation = @ + 1, !.due = TRUE]

\* resumeGitHubDeliveries: a new authority takes the row over.
Resumed(d) ==
    [d EXCEPT !.generation = @ + 1, !.due = TRUE, !.verdict = "none"]

\* commitRetirement: the connection is retired under whoever holds the row.
RetiredAttempt(d) ==
    [d EXCEPT !.generation = @ + 1, !.due = TRUE, !.verdict = "recoverable"]
=============================================================================
