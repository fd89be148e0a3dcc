--------------------------- MODULE ApplicabilityRule ---------------------------
(***************************************************************************)
(* The applicability rule of a Review Version and the result an Evaluation *)
(* records for it:                                                         *)
(*   src/src/applicability/applicability-evaluation.ts   its evaluation    *)
(*   src/src/applicability/applicability-evidence.ts     and evidence      *)
(*   src/src/applicability/applicability-result-schema.ts  the row         *)
(*                                                                         *)
(* A rule is a tree over the frozen file changes.  Every glob and pattern  *)
(* is one: a path or a content hits it or misses it.  The number of an id  *)
(* is the place of its node in the tree.                                   *)
(***************************************************************************)
EXTENDS Naturals, Sequences, FiniteSets

CONSTANTS
    Rules,          \* the rules that compile, as ApplicabilityGrammar has them
    Nodes           \* their nodes, with all that is below them

VARIABLES
    rule,           \* the compiled rule of the Review Version
    changeset,      \* file_changes: a sequence, in the order of their ids
    result,         \* what its evaluation returns, or None
    row             \* of applicability_results: "none", "inserted", "refused"

vars == <<rule, changeset, result, row>>

-----------------------------------------------------------------------------
(* Frozen file changes *)

\* An added file has no before_path, a deleted one no text to look at.
FileChanges ==
    [added : BOOLEAN, path : {"hit", "miss"},
     content : {"hit", "miss", "absent", "unreadable"}]

NoFile == [added |-> FALSE, path |-> "none", content |-> "none"]

Changesets == {<<>>} \cup {<<f>> : f \in FileChanges}
                     \cup {<<f, g>> : f \in FileChanges, g \in FileChanges}

Paths(file) == {side \in {"before", "after"} : side = "before" => ~file.added}

-----------------------------------------------------------------------------
(* Evidence *)

\* trace.  A match without a file is the side a predicate about it has seen.
Trace(state, branches, predicates, matches) ==
    [state |-> state, branches |-> branches, predicates |-> predicates,
     matches |-> matches]

Truth(b) == IF b THEN "true" ELSE "false"
Seen(side) == [file |-> 0, branches |-> {}, predicates |-> {}, sides |-> {side}]

\* appendBranch: only matches of a file carry branches.
AppendBranch(matches, id) ==
    {IF m.file = 0 THEN m ELSE [m EXCEPT !.branches = @ \cup {id}] : m \in matches}

Combined(state, left, right, id) ==
    LET all == left.matches \cup right.matches IN
    Trace(state,
          left.branches \cup right.branches
              \cup (IF state = "true" THEN {id} ELSE {}),
          left.predicates \cup right.predicates,
          IF state = "true" THEN AppendBranch(all, id) ELSE all)

-----------------------------------------------------------------------------
(* Evaluation.  Every operator is given the results of the parts that the   *)
(* code may look at; a part it skips is evaluated here without effect.      *)

Group(inner, id) ==
    IF inner.state # "true" THEN inner
    ELSE [inner EXCEPT !.branches = @ \cup {id}, !.matches = AppendBranch(@, id)]

\* Faulty variant: what is outside is negated like what is false.
Not_Outside(inner, id) ==
    IF inner.state = "error" THEN inner
    ELSE Trace(Truth(inner.state # "true"), inner.branches, inner.predicates,
               inner.matches)

Not(inner, id) ==
    IF inner.state \in {"error", "outside"} THEN inner
    ELSE IF inner.state = "true"
         THEN Trace("false", inner.branches, inner.predicates, inner.matches)
         ELSE Trace("true", inner.branches \cup {id}, inner.predicates,
                    AppendBranch(inner.matches, id))

And(left, right, id) ==
    IF left.state # "true" THEN left
    ELSE IF right.state = "error" THEN right
    ELSE Combined(right.state, left, right, id)

Or(left, right, id) ==
    IF left.state \in {"error", "true"} THEN left
    ELSE IF right.state = "error" THEN right
    ELSE IF right.state = "true"
         THEN Combined("true", Trace("false", {}, {}, {}), right, id)
    ELSE Combined(IF "outside" \in {left.state, right.state} THEN "outside"
                                                             ELSE "false",
                  left, right, id)

\* A match names its file and what of the predicate holds of it; an error of
\* any file is the result.
FileExists(results, id) ==
    LET failed == {i \in DOMAIN results : results[i].state = "error"}
        sides(r) == UNION {m.sides : m \in r.matches}
        matches == {[file |-> i,
                     branches |-> {id} \cup results[i].branches,
                     predicates |-> {id} \cup results[i].predicates,
                     sides |-> IF sides(results[i]) = {} THEN {"change"}
                               ELSE sides(results[i])] :
                       i \in {j \in DOMAIN results : results[j].state = "true"}}
        found == IF matches = {} THEN {} ELSE {id}
    IN  IF failed # {} THEN results[CHOOSE i \in failed : \A j \in failed : i <= j]
        ELSE Trace(Truth(matches # {}), found, found, matches)

\* path_exists over the sides of a file; the first error of them is the result.
PathExists(results, id) ==
    LET holds == {side \in DOMAIN results : results[side].state = "true"}
        failed == {side \in DOMAIN results : results[side].state = "error"} IN
    IF failed # {} THEN results[IF "before" \in failed THEN "before" ELSE "after"]
    ELSE IF holds = {} THEN Trace("false", {}, {}, {})
    ELSE Trace("true",
               {id} \cup UNION {results[s].branches : s \in holds},
               {id} \cup UNION {results[s].predicates : s \in holds},
               UNION {results[s].matches : s \in holds})

\* A glob or a pattern on one value.
Match(value, side, id) ==
    CASE value = "absent" -> Trace("outside", {}, {}, {})
      [] value = "unreadable" -> Trace("error", {}, {}, {})
      [] value = "none" -> Trace("false", {}, {}, {})
      [] OTHER -> Trace(Truth(value = "hit"), {}, {id},
                        IF value = "hit" THEN {Seen(side)} ELSE {})

\* What can be evaluated: a node, its id, and the file and the side of it that
\* the predicates above have bound.
Evaluations ==
    [node : Nodes, id : Seq({1, 2}), file : FileChanges \cup {NoFile},
     side : {"before", "after"}]

At(node, id, file, side) == [node |-> node, id |-> id, file |-> file, side |-> side]

\* evaluate.
Evaluate[e \in Evaluations] ==
    LET node == e.node
        Of(i, file, side) == Evaluate[At(node.kids[i], Append(e.id, i), file, side)]
        Part(i) == Of(i, e.file, e.side)
    IN
    CASE node.type \in {"true", "false"} -> Trace(node.type, {}, {e.id}, {})
      [] node.type = "group" -> Group(Part(1), e.id)
      [] node.type = "not" -> Not(Part(1), e.id)
      [] node.type = "and" -> And(Part(1), Part(2), e.id)
      [] node.type = "or" -> Or(Part(1), Part(2), e.id)
      [] node.type = "file_exists" ->
             FileExists([i \in DOMAIN changeset |-> Of(1, changeset[i], e.side)], e.id)
      [] node.type = "path_exists" ->
             PathExists([s \in Paths(e.file) |-> Of(1, e.file, s)], e.id)
      [] node.type = "added" ->
             Trace(Truth(e.file.added), {}, {e.id},
                   IF e.file.added THEN {Seen("change")} ELSE {})
      [] node.type = "path" -> Match(e.file.path, e.side, e.id)
      [] node.type = "before" ->
             Match(IF e.file.added THEN "none" ELSE e.file.path, "before", e.id)
      [] node.type = "content" -> Match(e.file.content, "after", e.id)

\* branches and predicates of identify, for the root.
RootBranch == IF rule.type \in {"true", "false"} THEN {} ELSE {<<>>}
RootPredicate == IF rule.type \in {"true", "false", "file_exists"} THEN {<<>>} ELSE {}

None == [outcome |-> "none", kind |-> "none", branches |-> {}, predicates |-> {},
         matches |-> {}]

\* evaluateApplicabilityRule.
Outcome ==
    LET t == Evaluate[At(rule, <<>>, NoFile, "after")] IN
    CASE t.state = "error" -> [None EXCEPT !.outcome = "error"]
      [] t.state = "true" ->
             [outcome |-> "applicable",
              kind |-> IF t.matches = {} THEN "satisfied_branches" ELSE "matched",
              branches |-> IF t.matches = {} THEN t.branches ELSE {},
              predicates |-> IF t.matches = {} THEN t.predicates ELSE {},
              matches |-> t.matches]
      [] OTHER ->
             [outcome |-> "not_applicable", kind |-> "failed_branches",
              branches |-> RootBranch, predicates |-> RootPredicate,
              matches |-> {}]

-----------------------------------------------------------------------------
(* The row *)

\* Each entry of "matched" names its file, branches, predicates and sides.
MatchAccepted(m) ==
    m.file > 0 /\ m.branches # {} /\ m.predicates # {} /\ m.sides # {}

\* applicability_result_ruled_evidence_insert and the CHECKs of the table.
Accepted(r) ==
    CASE r.outcome = "error" -> r.kind = "none"
      [] r.outcome = "not_applicable" -> r.kind = "failed_branches"
      [] r.outcome = "applicable" ->
             \/ r.kind = "satisfied_branches" /\ r.predicates # {}
             \/ /\ r.kind = "matched" /\ r.matches # {}
                /\ \A m \in r.matches : MatchAccepted(m)

Init ==
    /\ rule \in Rules
    /\ changeset \in {<<>>} \cup {<<f>> : f \in FileChanges}
    /\ result = None
    /\ row = "none"

\* The Version meets another changeset, in an Evaluation of its own.
Acquire ==
    /\ row = "none" /\ Len(changeset) = 1
    /\ changeset' \in {<<changeset[1], f>> : f \in FileChanges}
    /\ UNCHANGED <<rule, result, row>>

\* insertApplicabilityResults: a row the triggers refuse aborts the admission.
Record ==
    /\ row = "none"
    /\ result' = Outcome
    /\ row' = IF Accepted(result') THEN "inserted" ELSE "refused"
    /\ UNCHANGED <<rule, changeset>>

Next == Acquire \/ Record
Spec == Init /\ [][Next]_vars

-----------------------------------------------------------------------------
TypeOK ==
    /\ rule \in Rules
    /\ changeset \in Changesets
    /\ result.outcome \in {"none", "error", "applicable", "not_applicable"}
    /\ row \in {"none", "inserted", "refused"}

\* The values a part of a rule can take, if content that cannot be looked at may
\* answer every question about it either way.  Both sides of a file are alike.
Truths == {"true", "false"}
Unavailable == {"absent", "unreadable"}
Negated(values) == {IF v = "true" THEN "false" ELSE "true" : v \in values}

Meaning[x \in Nodes \X (FileChanges \cup {NoFile})] ==
    LET node == x[1]
        file == x[2]
        Of(i) == Meaning[<<node.kids[i], file>>]
        OfFile(i) == Meaning[<<node.kids[1], changeset[i]>>]
    IN
    CASE node.type \in Truths -> {node.type}
      [] node.type = "group" -> Of(1)
      [] node.type = "not" -> Negated(Of(1))
      [] node.type = "and" -> {Truth(v = "true" /\ w = "true") : v \in Of(1), w \in Of(2)}
      [] node.type = "or" -> {Truth(v = "true" \/ w = "true") : v \in Of(1), w \in Of(2)}
      [] node.type = "file_exists" ->
             {v \in Truths :
                 \/ v = "true" /\ \E i \in DOMAIN changeset : "true" \in OfFile(i)
                 \/ v = "false" /\ \A i \in DOMAIN changeset : "false" \in OfFile(i)}
      [] node.type = "path_exists" -> Of(1)
      [] node.type = "added" -> {Truth(file.added)}
      [] node.type = "path" -> {Truth(file.path = "hit")}
      [] node.type = "before" -> {Truth(~file.added /\ file.path = "hit")}
      [] node.type = "content" ->
             IF file.content \in Unavailable THEN Truths
             ELSE {Truth(file.content = "hit")}

\* What a part of a rule can be relied on for while something it asks about
\* cannot be looked at: "sound" are the answers that are right whatever it would
\* say, "complete" those that are given whenever they are right whatever it would
\* say.  exists takes a file of which its predicate is outside for no match, and
\* && is outside with its left part, whatever its right part is.
Reliance[node \in Nodes] ==
    LET left == Reliance[node.kids[1]]
        right == Reliance[node.kids[2]]
    IN
    CASE node.kids = <<>> ->
             [asks |-> {"content"} \cap {node.type}, sound |-> Truths, complete |-> Truths]
      [] node.type = "group" -> left
      [] node.type = "not" ->
             [asks |-> left.asks, sound |-> Negated(left.sound),
              complete |-> Negated(left.complete)]
      [] node.type \in {"and", "or"} ->
             [asks |-> left.asks \cup right.asks,
              sound |-> left.sound \cap right.sound,
              complete |-> (left.complete \cap right.complete)
                               \ (IF node.type = "and" /\ left.asks # {} THEN {"false"} ELSE {})]
      [] node.type \in {"file_exists", "path_exists"} ->
             IF left.asks = {} THEN left
             ELSE [asks |-> left.asks,
                   sound |-> left.sound \cap {"true"},
                   complete |-> (left.complete \cap {"true"})
                                    \cup (IF "true" \in left.sound THEN {"false"} ELSE {})]

\* Without content that cannot be looked at, a rule applies exactly if it holds.
\* With it, an answer the rule is sound for is right whatever that content would
\* say, and an answer it is complete for is given whenever it is.  Nothing is
\* claimed of the others: of an exists that asks about content only "true" is
\* sound, so that its negation may apply although what was not looked at would
\* have been a match.
MatchesItsMeaning ==
    result.outcome \in {"applicable", "not_applicable"} =>
        LET answer == Truth(result.outcome = "applicable")
            meaning == Meaning[<<rule, NoFile>>]
            missing == \E i \in DOMAIN changeset : changeset[i].content \in Unavailable
        IN  /\ ~missing => meaning = {answer}
            /\ answer \in Reliance[rule].sound => meaning = {answer}
            /\ \A v \in Reliance[rule].complete : meaning = {v} => answer = v

\* Content that cannot be looked at never decides: every answer is right whatever
\* it would say.  The code does not keep it, as exists takes a file without text for
\* no match; MatchesItsMeaning says where an answer is right all the same.
UnknownsDecideNothing ==
    result.outcome \in {"applicable", "not_applicable"} =>
        Meaning[<<rule, NoFile>>] = {Truth(result.outcome = "applicable")}

\* A result of the evaluation is a row the schema accepts: a rule that is saved
\* can always be recorded.
EvidenceIsAccepted == row # "refused"
=============================================================================
