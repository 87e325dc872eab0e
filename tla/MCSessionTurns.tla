--------------------------- MODULE MCSessionTurns ---------------------------
(* Model checking of SessionTurns: two models that differ in nothing but their  *)
(* weights, so that only model_id tells their files apart.                      *)
EXTENDS SessionTurns

CONSTANTS coder, general

SameHash == [m \in Models |-> 0]
OwnIdentity == [m \in Models |-> m]
=============================================================================
