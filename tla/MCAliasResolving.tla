------------------------- MODULE MCAliasResolving -------------------------
(* A small instance of AliasResolving: two tasks of a process and one of    *)
(* another, an alias of the run and one the platform predefines.            *)
EXTENDS AliasResolving, TLC

CONSTANTS p1, p2, t1, t2, t3, a, b, c

TwoProcesses == {p1, p2}
ThreeTasks == {t1, t2, t3}
TwoAndOne == (t1 :> p1 @@ t2 :> p1 @@ t3 :> p2)
ThreeAliases == {a, b, c}
CPredefined == (a :> 0 @@ b :> 0 @@ c :> 1)
=============================================================================
