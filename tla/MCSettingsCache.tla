-------------------------- MODULE MCSettingsCache --------------------------
(* Model checking of SettingsCache: a config of two keys, the engine with two   *)
(* readers and a tray; or the tray alone with two posters.                      *)
EXTENDS SettingsCache, TLC

CONSTANTS engine, tray, e1, e2, t1, t2, secret, port, d, a

KeyOrder == <<secret, port>>
OwnerOf == [t \in Threads |-> IF t \in {e1, e2} THEN engine ELSE tray]
MainOf == [p \in Procs |-> IF p = engine THEN e1 ELSE t1]
PostedBodies == {(secret :> Absent @@ port :> a), (secret :> d @@ port :> a)}
OppositeBodies == {(secret :> Absent @@ port :> v) : v \in Values}
=============================================================================
