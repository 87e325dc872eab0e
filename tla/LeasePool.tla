------------------------------ MODULE LeasePool ------------------------------
(***************************************************************************)
(* What the model pool promises its users, without saying how it counts.   *)
(* A model is loaded or not; a lease slot (an RAII ModelLease object)      *)
(* holds one model or none.  A lease is granted only on a loaded model and *)
(* a model is unloaded only when no slot holds it, so the weights a lease  *)
(* points at never go away under it.                                       *)
(***************************************************************************)
CONSTANTS Threads,   \* the threads that call the model manager
          Models,    \* the model ids
          NoModel    \* content of an empty lease

VARIABLES loaded,    \* the ids that have weights in memory
          lease      \* the model each lease slot holds

vars == <<loaded, lease>>

\* Each thread owns a lease variable ("held") and, while a call of acquire
\* returns, the temporary that carries its result ("ret").
Slots == Threads \X {"held", "ret"}

Leased(m) == \E s \in Slots : lease[s] = m

Init ==
    /\ loaded = {}
    /\ lease = [s \in Slots |-> NoModel]

Load(m) ==
    /\ m \notin loaded
    /\ loaded' = loaded \cup {m}
    /\ UNCHANGED lease

Unload(m) ==
    /\ m \in loaded
    /\ ~Leased(m)
    /\ loaded' = loaded \ {m}
    /\ UNCHANGED lease

Grant(s, m) ==
    /\ m \in loaded
    /\ lease[s] = NoModel
    /\ lease' = [lease EXCEPT ![s] = m]
    /\ UNCHANGED loaded

\* Move assignment: what the variable held is dropped, the temporary is emptied.
Move(t) ==
    /\ lease' = [lease EXCEPT ![<<t, "held">>] = lease[<<t, "ret">>],
                              ![<<t, "ret">>] = NoModel]
    /\ UNCHANGED loaded

Drop(t) ==
    /\ lease' = [lease EXCEPT ![<<t, "held">>] = NoModel]
    /\ UNCHANGED loaded

Next ==
    \/ \E m \in Models : Load(m) \/ Unload(m)
    \/ \E s \in Slots, m \in Models : Grant(s, m)
    \/ \E t \in Threads : Move(t) \/ Drop(t)

Spec == Init /\ [][Next]_vars
=============================================================================
