------------------------ MODULE MCRequestQueueShared ------------------------
(* Small instances of RequestQueueShared: one client with two tasks, two    *)
(* clients with one task each.                                              *)
EXTENDS RequestQueueShared, TLC

CONSTANTS c1, c2, t1, t2, a, b

OneClient == {c1}
TwoClients == {c1, c2}
TwoTasks == {t1, t2}
OneRequest == {a}
TwoRequests == {a, b}

BothOfOne == [t \in Tasks |-> c1]
OneEach == [t \in Tasks |-> IF t = t1 THEN c1 ELSE c2]

OnlyA == {{a}}
OverlappingBatches == {{a}, {a, b}}

Symmetry == Permutations(Tasks)
=============================================================================
