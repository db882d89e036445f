----------------------------- MODULE MCStorage -----------------------------
(* Instances of Storage for TLC: one or two paths a client uploads, and the *)
(* names keep-both gives their candidates.                                  *)
EXTENDS Storage, TLC

CONSTANTS p1, p2, p3    \* each is stored by keep-both under the next name

OnePath == {p1}
TwoPaths == {p1, p2}
ThreePaths == {p1, p2, p3}
NextName == [p \in ClientPath |-> [d \in Device |-> IF p = p1 THEN p2 ELSE p3]]
TwoSeconds == {0, 1}
NegativeLimit == -1

RequestContent == Permutations(Request) \cup Permutations(Content)
=============================================================================
