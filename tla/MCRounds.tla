------------------------------ MODULE MCRounds ------------------------------
(* DependencyRounds on small reactors.                                      *)
EXTENDS ImportRefinement

CONSTANTS f1, f2, a, b, c, d

\* One file: its module a needs b and c, and b needs d.
TreeOf == [f \in {f1} |-> a]
TreeDeps == [m \in {a, b, c, d} |-> IF m = a THEN {b, c} ELSE IF m = b THEN {d} ELSE {}]
TreeRoot == [m \in {a, b, c, d} |-> 1]
TreeGroups == {{b}}

\* Two files, the second in a module that the first one's needs.
PairOf == [f \in {f1, f2} |-> IF f = f1 THEN a ELSE b]
PairDeps == [m \in {a, b, c} |-> IF m = a THEN {b, c} ELSE {}]
PairRoot == [m \in {a, b, c} |-> 1]
=============================================================================
