-------------------------- MODULE MCResourceBudget --------------------------
(* Model checking of ResourceBudget: a host of 16 GB with half of it for the    *)
(* engine, roles of high and of low priority over four models of which two      *)
(* share a file, and requests of two sessions.  Sizes are in KB.                *)
EXTENDS ResourceBudget, TLC

CONSTANTS router, general, coder, audio_stt, m1, m2, m3, m4, f1, f2, f3

RolePriority == router :> 1 @@ general :> 3 @@ coder :> 5 @@ audio_stt :> 6
ModelFile == m1 :> f1 @@ m2 :> f1 @@ m3 :> f2 @@ m4 :> f3
RoleBindings == {b \in [Roles -> ModelIds \cup {NoModelId}] :
                   /\ b[router] = m1 /\ b[audio_stt] = m3
                   /\ b[general] \in {m1, m3} /\ b[coder] \in {m2, m4, NoModelId}}
HostMemory == 16 * GB
FreeVram == 6500 * MB
FileSize == f1 :> 2 * GB @@ f2 :> 6 * GB @@ f3 :> 512 * MB
OtherUse == {2 * GB, 12 * GB}
Alike == Permutations(Sessions)
BaseUse == 1100 * MB
Requests == {[system |-> 200, task |-> 300, history |-> <<3000, 800>>],
             [system |-> 1500, task |-> 5000, history |-> <<>>]}
=============================================================================
