-------------------------- MODULE ApplicabilityGrammar --------------------------
(***************************************************************************)
(* The rules that src/src/applicability/applicability-rule.ts compiles, up *)
(* to a bounded depth: their trees, and the nodes of those.                *)
(***************************************************************************)
EXTENDS Naturals, Sequences, FiniteSets

CONSTANT Richness        \* depth of the predicates about a file: 0 or 1

\* kids holds left and right, operand, expression or predicate.
Node(type, kids) == [type |-> type, kids |-> kids]
Unary(type, nodes) == {Node(type, <<n>>) : n \in nodes}
Binary(type, nodes) == {Node(type, <<l, r>>) : l \in nodes, r \in nodes}

\* "added" is a fact; "path" is bound by paths.exists; "before" and "content"
\* are before_path and after_content.
Leaf == {Node(type, << >>) : type \in {"added", "before", "content"}}
Literals == {Node(type, << >>) : type \in {"true", "false"}}
OfPaths == Unary("path_exists", {Node(type, << >>) : type \in {"path", "content"}})

FilePredicates ==
    LET simple == Leaf \cup OfPaths \cup {Node("true", << >>)}
        pairs == {n \in Binary("and", Leaf) \cup Binary("or", Leaf) :
                     n.kids[1] # n.kids[2]}
    IN  IF Richness = 0 THEN simple
        ELSE simple \cup Unary("not", simple)
                    \cup pairs \cup Unary("not", Unary("group", pairs))

\* exists over file_changes, and what or, and, unary and primary make of it.
Rules ==
    LET files == Unary("file_exists", Leaf)
        facts == files \cup Literals
        mixed == facts \cup Unary("not", files)
        pairs == Binary("and", mixed) \cup Binary("or", mixed)
        tops == Literals \cup Unary("file_exists", FilePredicates)
    IN  tops \cup Unary("not", tops) \cup Unary("group", tops)
             \cup pairs \cup Unary("not", Unary("group", pairs))

\* The nodes of the rules; no rule has a depth of more than 6.
Kids(nodes) == UNION {{n.kids[i] : i \in DOMAIN n.kids} : n \in nodes}
Nodes ==
    LET second == Kids(Rules)
        third == Kids(second)
        fourth == Kids(third)
        fifth == Kids(fourth)
        sixth == Kids(fifth)
    IN  Rules \cup second \cup third \cup fourth \cup fifth \cup sixth
=============================================================================
