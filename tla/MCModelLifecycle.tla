-------------------------- MODULE MCModelLifecycle --------------------------
(* Model checking of ModelLifecycle on a device that holds one of two GGUF   *)
(* models, with a stub router and an id that is not registered.              *)
EXTENDS ModelLifecycle, TLC

CONSTANTS general, coder, router, unknown

MCModels == {general, coder, router, unknown}
MCRegistered == {general, coder, router}
MCGguf == {general, coder}
MCBytes == [m \in Models |-> IF m \in MCGguf THEN 2 ELSE 1]

ThreadSymmetry == Permutations(Threads)
=============================================================================
