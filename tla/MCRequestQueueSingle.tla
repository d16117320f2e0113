------------------------ MODULE MCRequestQueueSingle ------------------------
(* Small instances of RequestQueueSingle: two or three tasks, two requests. *)
EXTENDS RequestQueueSingle, TLC

CONSTANTS t1, t2, t3, a, b

TwoTasks == {t1, t2}
NoTasks == {}
ThreeTasks == {t1, t2, t3}
TwoRequests == {a, b}
OneRequest == {a}
TheOther == {b}
NoRequests == {}

BothTogether == {{a, b}}
AOrBoth == {{a}, {a, b}}
OnlyA == {{a}}

EmptyQueue == {[r \in Requests |-> "absent"]}
AnyQueue == [Requests -> Status]

Symmetry == Permutations(Tasks)
=============================================================================
