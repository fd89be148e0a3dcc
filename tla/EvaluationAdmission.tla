------------------------- MODULE EvaluationAdmission -------------------------
(***************************************************************************)
(* The library of Reviews and what an Evaluation takes from it:            *)
(*   src/src/review/review.ts, review-assignment.ts, review-removal.ts     *)
(*   src/src/review/review-run-admission.ts   the Reviews of an Evaluation *)
(*   src/src/evaluation/evaluation.ts         createExplicit, admitFrozen- *)
(*                                            Evaluation                   *)
(*   src/src/evaluation/evaluation-idempotency.ts                          *)
(*                                                                         *)
(* One Repository.  A client asks for an Evaluation under an idempotency   *)
(* key; its request waits for the changeset to be acquired, and what it    *)
(* read before that may be stale when it goes on.  A Version is a number;  *)
(* what its rule says of a changeset is any outcome (ApplicabilityRule).   *)
(***************************************************************************)
EXTENDS Naturals, Sequences, FiniteSets

CONSTANTS
    Reviews, Clients, Keys,
    Bodies,                 \* what a request can ask for, up to its hash
    MaxVersions,            \* bound on the Versions of a Review
    MaxEvaluations,         \* bound on the Evaluations
    Capacity                \* of the queue of the runs

VARIABLES
    reviews,        \* reviews[r]: the Review, its Versions and assignment
    repository,     \* "healthy", "error" or "disabled"
    evaluations,    \* in the order of their admission
    keys,           \* evaluation_idempotency: keys[k]
    clients,        \* clients[c]: what its last request is at
    queued          \* review_runs that wait for their start

vars == <<reviews, repository, evaluations, keys, clients, queued>>

-----------------------------------------------------------------------------
Scopes == {"installation_wide", "repository_set"}
ApplicabilityOutcomes == {"applicable", "not_applicable", "error"}

\* member: the Repository is in review_assignment_repositories.
ReviewType == [exists : BOOLEAN, versions : 0 .. MaxVersions, active : 0 .. MaxVersions,
               archived : BOOLEAN, scope : Scopes, member : BOOLEAN]
Absent == [exists |-> FALSE, versions |-> 0, active |-> 0, archived |-> FALSE,
           scope |-> "repository_set", member |-> FALSE]

NoKey == [evaluation |-> 0, body |-> CHOOSE b \in Bodies : TRUE]
KeyType == [evaluation : 0 .. MaxEvaluations, body : Bodies]
Idle == [at |-> "idle", key |-> CHOOSE k \in Keys : TRUE, body |-> NoKey.body,
         answer |-> 0]
ClientType == [at : {"idle", "acquiring", "answered"}, key : Keys,
               body : Bodies, answer : 0 .. MaxEvaluations]

Init ==
    /\ reviews = [r \in Reviews |-> Absent]
    /\ repository = "healthy"
    /\ evaluations = <<>>
    /\ keys = [k \in Keys |-> NoKey]
    /\ clients = [c \in Clients |-> Idle]
    /\ queued = 0

admissionVars == <<evaluations, keys, clients, queued>>

-----------------------------------------------------------------------------
(* Reviews *)

Active(r) == reviews[r].exists /\ ~reviews[r].archived

\* create seals Version 1 with the Review and its assignment.
Create(r) ==
    /\ ~reviews[r].exists
    /\ \E scope \in Scopes, member \in BOOLEAN :
         /\ scope = "installation_wide" => ~member
         /\ reviews' = [reviews EXCEPT ![r] =
                [exists |-> TRUE, versions |-> 1, active |-> 1, archived |-> FALSE,
                 scope |-> scope, member |-> member]]
    /\ UNCHANGED <<repository, admissionVars>>

\* saveVersion of another snapshot.
SaveVersion(r) ==
    /\ Active(r) /\ reviews[r].versions < MaxVersions
    /\ reviews' = [reviews EXCEPT ![r].versions = @ + 1,
                                  ![r].active = reviews[r].versions + 1]
    /\ UNCHANGED <<repository, admissionVars>>

\* reactivateVersion.
Reactivate(r) ==
    /\ Active(r)
    /\ \E v \in 1 .. reviews[r].versions :
         /\ v # reviews[r].active
         /\ reviews' = [reviews EXCEPT ![r].active = v]
    /\ UNCHANGED <<repository, admissionVars>>

\* setArchived.
Archive(r) ==
    /\ reviews[r].exists
    /\ reviews' = [reviews EXCEPT ![r].archived = ~@]
    /\ UNCHANGED <<repository, admissionVars>>

\* changeReviewAssignment: the memberships are deleted and inserted anew.
ChangeAssignment(r) ==
    /\ Active(r)
    /\ \E scope \in Scopes, member \in BOOLEAN :
         /\ scope = "installation_wide" => ~member
         /\ <<scope, member>> # <<reviews[r].scope, reviews[r].member>>
         /\ reviews' = [reviews EXCEPT ![r].scope = scope, ![r].member = member]
    /\ UNCHANGED <<repository, admissionVars>>

\* setForRepository moves the Repository in and out of every active
\* repository_set at once.
SetForRepository ==
    /\ \E selected \in SUBSET {r \in Reviews : Active(r) /\ reviews[r].scope = "repository_set"} :
         reviews' = [r \in Reviews |->
             IF Active(r) /\ reviews[r].scope = "repository_set"
             THEN [reviews[r] EXCEPT !.member = r \in selected] ELSE reviews[r]]
    /\ reviews' # reviews
    /\ UNCHANGED <<repository, admissionVars>>

\* The Evaluations that have selected r, and those that have a run of it.
Selecting(r) == {i \in DOMAIN evaluations : r \in DOMAIN evaluations[i].selection}
Running(r) ==
    {i \in Selecting(r) : evaluations[i].selection[r].outcome = "applicable"}

\* deletion_eligible.
DeletionEligible(r) == reviews[r].exists /\ Running(r) = {}

\* Faulty variant: the deletion takes the lineage whatever refers to it.
Deletable_Eligible(r) == DeletionEligible(r)

\* Selections and results refer to the Review: the foreign keys refuse the
\* deletion of its lineage that the check of the runs lets pass.
Deletable(r) == DeletionEligible(r) /\ Selecting(r) = {}

\* removeNeverUsedReview.
Remove(r) ==
    /\ Deletable(r)
    /\ reviews' = [reviews EXCEPT ![r] = Absent]
    /\ UNCHANGED <<repository, admissionVars>>

\* The Repository is disabled, enabled or found at fault.
ChangeRepository ==
    /\ repository' \in {"healthy", "error", "disabled"} \ {repository}
    /\ UNCHANGED <<reviews, admissionVars>>

-----------------------------------------------------------------------------
(* Admission *)

\* The assigned, active Reviews.
Assigned ==
    {r \in Reviews : /\ Active(r)
                     /\ reviews[r].scope = "installation_wide" \/ reviews[r].member}

\* Faulty variant: only the runs that are queued already are counted.
HasCapacity_Before(added) == queued <= Capacity

\* assertReviewRunCapacity: the added runs have room in the queue as well.
HasCapacity(added) == queued + added <= Capacity

\* admitFrozenEvaluation, or no Evaluation if it fails: the Repository, a
\* capability of Codex or the queue refuses it.
Admit(body, outcomes) ==
    LET selection == [r \in Assigned |-> [version |-> reviews[r].active,
                                          outcome |-> outcomes[r]]]
        runs == {r \in Assigned : outcomes[r] = "applicable"}
    IN  /\ repository = "healthy"
        /\ HasCapacity(Cardinality(runs))
        /\ Len(evaluations) < MaxEvaluations
        /\ evaluations' = Append(evaluations,
               [body |-> body, selection |-> selection,
                result |-> CASE runs # {} -> "queued"
                             [] runs = {} /\ \E r \in Assigned : outcomes[r] = "error" ->
                                    "error"
                             [] OTHER -> "clear"])
        /\ queued' = queued + Cardinality(runs)

\* Faulty variant: any request under the key is a replay.
Replays_AnyBody(k, body) == keys[k].evaluation # 0

\* readIdempotentReplay; a row of another hash is a conflict.
Replays(k, body) == keys[k].evaluation # 0 /\ keys[k].body = body

\* The key is known: the stored response, or a conflict.
Known(c, k, body) ==
    IF Replays(k, body)
    THEN clients' = [clients EXCEPT ![c] = [at |-> "answered", key |-> k, body |-> body,
                                            answer |-> keys[k].evaluation]]
    ELSE clients' = [clients EXCEPT ![c] = Idle]

\* createExplicit up to its await.
Request(c) ==
    /\ clients[c].at # "acquiring"
    /\ \E k \in Keys, body \in Bodies :
         IF keys[k].evaluation # 0 THEN Known(c, k, body)
         ELSE clients' = [clients EXCEPT ![c] =
                  [at |-> "acquiring", key |-> k, body |-> body, answer |-> 0]]
    /\ UNCHANGED <<reviews, repository, evaluations, keys, queued>>

\* Faulty variant: the transaction relies on the replay read before the await.
Raced_Never(k) == FALSE

\* The key is looked up again inside the transaction.
Raced(k) == keys[k].evaluation # 0

\* Its transaction, once the changeset is there.
Insert(c) ==
    LET k == clients[c].key IN
    /\ clients[c].at = "acquiring"
    /\ IF Raced(k)
       THEN Known(c, k, clients[c].body) /\ UNCHANGED <<evaluations, keys, queued>>
       ELSE /\ \E outcomes \in [Reviews -> ApplicabilityOutcomes] : Admit(clients[c].body, outcomes)
            /\ keys' = [keys EXCEPT ![k] = [evaluation |-> Len(evaluations'),
                                            body |-> clients[c].body]]
            /\ clients' = [clients EXCEPT ![c].at = "answered",
                                          ![c].answer = Len(evaluations')]
    /\ UNCHANGED <<reviews, repository>>

\* The acquisition or the admission fails, or the process ends: nothing is stored.
Refuse(c) ==
    /\ clients[c].at = "acquiring"
    /\ clients' = [clients EXCEPT ![c] = Idle]
    /\ UNCHANGED <<reviews, repository, evaluations, keys, queued>>

\* A poll round admits a pair of its own.
AdmitAutomatic ==
    /\ \E outcomes \in [Reviews -> ApplicabilityOutcomes], body \in Bodies : Admit(body, outcomes)
    /\ UNCHANGED <<reviews, repository, keys, clients>>

\* A run starts and leaves the queue.
Start ==
    /\ queued > 0 /\ queued' = queued - 1
    /\ UNCHANGED <<reviews, repository, evaluations, keys, clients>>

-----------------------------------------------------------------------------
Next ==
    \/ \E r \in Reviews :
         \/ Create(r) \/ SaveVersion(r) \/ Reactivate(r) \/ Archive(r)
         \/ ChangeAssignment(r) \/ Remove(r)
    \/ SetForRepository \/ ChangeRepository
    \/ \E c \in Clients : Request(c) \/ Insert(c) \/ Refuse(c)
    \/ AdmitAutomatic \/ Start

Spec == Init /\ [][Next]_vars

-----------------------------------------------------------------------------
TypeOK ==
    /\ reviews \in [Reviews -> ReviewType]
    /\ repository \in {"healthy", "error", "disabled"}
    /\ keys \in [Keys -> KeyType]
    /\ clients \in [Clients -> ClientType]
    /\ queued \in 0 .. Capacity

\* Requests that ask for the same under one key are answered with one
\* Evaluation, and that is what they have asked for, however their
\* acquisitions overlap.
AnsweredByItsOwn ==
    \A c \in Clients : clients[c].at = "answered" =>
        /\ evaluations[clients[c].answer].body = clients[c].body
        /\ \A d \in Clients :
             (clients[d].at = "answered" /\ clients[d].key = clients[c].key) =>
                 clients[d].answer = clients[c].answer

\* What an Evaluation has selected stays in the library.
SelectionsRemain ==
    \A i \in DOMAIN evaluations :
        \A r \in DOMAIN evaluations[i].selection :
            reviews[r].exists
                /\ evaluations[i].selection[r].version <= reviews[r].versions

\* A Review shown as deletion_eligible can be deleted.
EligibleCanBeDeleted == \A r \in Reviews : DeletionEligible(r) => Deletable(r)
=============================================================================
