-------------------------- MODULE MCActorLifecycle --------------------------
(* A small instance of ActorLifecycle: the main task and two others.        *)
EXTENDS ActorLifecycle, TLC

CONSTANTS helper, helper2, s1, s2

TwoHelpers == {helper, helper2}
TwoStores == {s1, s2}

Symmetry == Permutations(Helpers) \cup Permutations(Stores)
=============================================================================
