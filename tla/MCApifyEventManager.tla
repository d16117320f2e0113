------------------------ MODULE MCApifyEventManager ------------------------
(* A small instance of ApifyEventManager: the Actor and two crawlers.       *)
EXTENDS ApifyEventManager, TLC

CONSTANTS u1, u2, u3

ThreeUsers == {u1, u2, u3}
=============================================================================
