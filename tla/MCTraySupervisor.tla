-------------------------- MODULE MCTraySupervisor --------------------------
(* Model checking of TraySupervisor.  The calls served by the control server   *)
(* are interchangeable.                                                        *)
EXTENDS TraySupervisor, TLC

CallSymmetry == Permutations(Workers)
=============================================================================
