------------------------ MODULE SettingsCache_proofs ------------------------
(***************************************************************************)
(* Proofs about SettingsCache, for any number of processes, threads and    *)
(* keys.                                                                   *)
(***************************************************************************)
EXTENDS SettingsCache, TLAPS

LEMMA OrderLength == Len(Order) \in Nat \ {0}
BY KeysAssumption

LEMMA Owners ==
    /\ \A t \in Threads : Owner[t] \in Procs
    /\ \A p \in Procs : Main[p] \in Threads /\ Owner[Main[p]] = p
BY ThreadsAssumption

LEMMA KeyType ==
    ASSUME TypeOK, NEW t \in Threads
    PROVE  Key(t) \in Keys
BY KeysAssumption DEF TypeOK, Key, Keys

LEMMA ConstantTypes ==
    /\ NoRows \in Rows
    /\ Defaults \in Configs
    /\ Configs \subseteq Rows
BY ValuesAssumption DEF NoRows, Defaults, Configs, Rows

LEMMA ReturnType ==
    ASSUME TypeOK, NEW t \in Threads, Return(t)
    PROVE  /\ pc' \in [Threads -> Locations]
           /\ op' \in [Threads -> Handlers]
           /\ change' \in [Threads -> Rows]
           /\ config' \in [Threads -> Configs]
           /\ idx' \in [Threads -> 1..Len(Order)]
           /\ cur' \in [Threads -> Nat]
           /\ snap' \in [Threads -> Rows]
BY ConstantTypes, OrderLength DEF TypeOK, Return, Goto, Locations, Handlers, jobVars, localVars

LEMMA WriteType ==
    ASSUME TypeOK, NEW t \in Threads, NEW c \in Configs, WriteConfig(t, c)
    PROVE  /\ pc' \in [Threads -> Locations]
           /\ change' \in [Threads -> Rows]
           /\ config' \in [Threads -> Configs]
           /\ idx' \in [Threads -> 1..Len(Order)]
BY OrderLength DEF TypeOK, WriteConfig, Goto, Locations, jobVars, localVars

LEMMA NextKeyType ==
    ASSUME TypeOK, NEW t \in Threads, NextKey(t)
    PROVE  /\ pc' \in [Threads -> Locations]
           /\ op' \in [Threads -> Handlers]
           /\ change' \in [Threads -> Rows]
           /\ config' \in [Threads -> Configs]
           /\ idx' \in [Threads -> 1..Len(Order)]
           /\ cur' \in [Threads -> Nat]
           /\ snap' \in [Threads -> Rows]
           /\ since' \in [Procs -> Nat \cup {-1}]
<1> USE Owners, OrderLength, BoundAssumption
<1>1. CASE /\ idx[t] < Len(Order)
           /\ idx' = [idx EXCEPT ![t] = @ + 1]
           /\ Goto(t, "upsert")
           /\ UNCHANGED <<op, change, config, localVars, since>>
  BY <1>1 DEF TypeOK, Goto, Locations, localVars
<1>2. CASE Return(t) /\ UNCHANGED since
  BY <1>2, ReturnType DEF TypeOK
<1>3. CASE BeginServing(t)
  BY <1>3, ReturnType DEF BeginServing, TypeOK
<1>4. CASE /\ op' = [op EXCEPT ![t] = "boot"]
           /\ idx' = [idx EXCEPT ![t] = 1]
           /\ Goto(t, "refetch")
           /\ UNCHANGED <<change, config, localVars, since>>
  BY <1>4, ConstantTypes DEF TypeOK, Goto, Locations, Handlers, jobVars, localVars
<1>5. QED  BY <1>1, <1>2, <1>3, <1>4 DEF NextKey

LEMMA LookupType ==
    ASSUME TypeOK, NEW t \in Threads, Lookup(t)
    PROVE  TypeOK'
<1> USE Owners, OrderLength, BoundAssumption
<1> DEFINE p == Owner[t]
           read == [config[t] EXCEPT ![Key(t)] = ValueOf(cache[p], Key(t))]
           changed == [k \in Keys |-> IF change[t][k] = Absent
                                      THEN read[k] ELSE change[t][k]]
<1>1. ValueOf(cache[p], Key(t)) \in Values
  BY KeyType, ValuesAssumption DEF TypeOK, ValueOf, Rows
<1>2. read \in Configs  BY <1>1, KeyType DEF TypeOK, Configs
<1>3. changed \in Configs  BY <1>2 DEF TypeOK, Configs, Rows
<1>4. [read EXCEPT ![Secret] = Generated] \in Configs
  BY <1>2, KeysAssumption, ValuesAssumption DEF Configs
<1> HIDE DEF read, changed
<1>5. CASE op[t] = "read" /\ Return(t) /\ UNCHANGED <<since, fileVars, cacheVars, calls>>
  BY <1>5, ReturnType DEF TypeOK, fileVars, cacheVars, jobVars, localVars
<1>6. CASE /\ idx[t] < Len(Order)
           /\ idx' = [idx EXCEPT ![t] = @ + 1]
           /\ config' = [config EXCEPT ![t] = read]
           /\ Goto(t, "version")
           /\ UNCHANGED <<op, change, localVars, since, fileVars, cacheVars, calls>>
  BY <1>6, <1>2 DEF TypeOK, Goto, Locations, fileVars, cacheVars, jobVars, localVars
<1>7. CASE WriteConfig(t, changed) /\ UNCHANGED <<op, localVars, since, fileVars, cacheVars, calls>>
  BY <1>7, <1>3, WriteType DEF TypeOK, fileVars, cacheVars, jobVars, localVars
<1>8. CASE /\ WriteConfig(t, [read EXCEPT ![Secret] = Generated])
           /\ UNCHANGED <<op, localVars, since, fileVars, cacheVars, calls>>
  BY <1>8, <1>4, WriteType DEF TypeOK, fileVars, cacheVars, jobVars, localVars
<1>9. CASE BeginServing(t) /\ UNCHANGED <<fileVars, cacheVars, calls>>
  BY <1>9, ReturnType DEF BeginServing, TypeOK, fileVars, cacheVars, jobVars, localVars
<1>10. QED  BY <1>5, <1>6, <1>7, <1>8, <1>9 DEF Lookup, read, changed, TypeOK

\* The variables hold values of their types (settings_manager.hpp 58-61).
THEOREM TypeCorrect == Spec => []TypeOK
<1> USE Owners, OrderLength, BoundAssumption
<1>1. Init => TypeOK
  BY ConstantTypes, BoundAssumption DEF Init, TypeOK, Locations, Handlers, Rows, Configs, Defaults
<1>2. TypeOK /\ [Next]_vars => TypeOK'
  <2> SUFFICES ASSUME TypeOK, [Next]_vars PROVE TypeOK'
    OBVIOUS
  <2>1. ASSUME NEW q \in Procs, Start(q) PROVE TypeOK'
    BY <2>1 DEF TypeOK, Start, Locations, Handlers, fileVars, cacheVars, jobVars, localVars
  <2>2. ASSUME NEW q \in Procs, Kill(q) PROVE TypeOK'
    BY <2>2, ConstantTypes DEF TypeOK, Kill, Locations, Handlers, fileVars, jobVars, localVars
  <2>3. ASSUME NEW t \in Threads, Get(t) PROVE TypeOK'
    BY <2>3 DEF TypeOK, Get, Call, Goto, Locations, Handlers, fileVars, cacheVars, jobVars, localVars
  <2>4. ASSUME NEW t \in Threads, Reset(t) PROVE TypeOK'
    BY <2>4 DEF TypeOK, Reset, Call, Goto, Locations, Handlers, fileVars, cacheVars, jobVars, localVars
  <2>5. ASSUME NEW t \in Threads, NEW c \in Bodies, Post(t, c) PROVE TypeOK'
    BY <2>5, BodiesAssumption
    DEF TypeOK, Post, Call, Goto, Locations, Handlers, Rows, fileVars, cacheVars, jobVars, localVars
  <2>6. ASSUME NEW t \in Threads, Count(t) PROVE TypeOK'
    BY <2>6, ConstantTypes, WriteType
    DEF TypeOK, Count, Goto, Locations, Handlers, fileVars, cacheVars, jobVars, localVars
  <2>7. ASSUME NEW t \in Threads, Refetch(t) \/ Fetch(t) \/ Mark(t) PROVE TypeOK'
    <3>1. CASE Refetch(t)
      BY <3>1 DEF TypeOK, Refetch, Goto, Locations, fileVars, cacheVars, jobVars, localVars
    <3>2. CASE Fetch(t)
      BY <3>2 DEF TypeOK, Fetch, Goto, Locations, fileVars, cacheVars, jobVars, localVars
    <3>3. CASE Mark(t)
      BY <3>3 DEF TypeOK, Mark, Goto, Locations, fileVars, cacheVars, jobVars, localVars
    <3>4. QED  BY <2>7, <3>1, <3>2, <3>3
  <2>8. ASSUME NEW t \in Threads, Reinstall(t) PROVE TypeOK'
    <3>1. cache' \in [Procs -> Rows] /\ last' \in [Procs -> Nat]
      BY <2>8 DEF Reinstall, TypeOK
    <3>2. CASE op[t] = "reset" /\ Return(t)
      BY <2>8, <3>1, <3>2, ReturnType DEF Reinstall, TypeOK, fileVars
    <3>3. CASE /\ Goto(t, "mark")
               /\ snap' = [snap EXCEPT ![t] = NoRows]
               /\ UNCHANGED <<jobVars, cur>>
      <4>1. UNCHANGED <<fileVars, since, calls>>  BY <2>8 DEF Reinstall
      <4>2. QED
        BY <4>1, <3>1, <3>3, ConstantTypes
        DEF TypeOK, Goto, Locations, fileVars, jobVars
    <3>4. QED  BY <2>8, <3>2, <3>3 DEF Reinstall
  <2>9. ASSUME NEW t \in Threads, ReadVersion(t) \/ Compare(t) \/ Install(t)
        PROVE  TypeOK'
    <3>1. CASE ReadVersion(t)
      BY <3>1 DEF TypeOK, ReadVersion, Goto, Locations, fileVars, cacheVars, jobVars, localVars
    <3>2. CASE Compare(t)
      <4>1. UNCHANGED <<fileVars, cacheVars, jobVars, since, calls>>
        BY <3>2 DEF Compare
      <4>2. CASE Goto(t, "fetch") /\ UNCHANGED localVars
        BY <4>1, <4>2 DEF TypeOK, Goto, Locations, fileVars, cacheVars, jobVars, localVars
      <4>3. CASE Checked(t)
        BY <4>1, <4>3, ConstantTypes
        DEF TypeOK, Checked, Goto, Locations, fileVars, cacheVars, jobVars, localVars
      <4>4. QED  BY <3>2, <4>2, <4>3 DEF Compare
    <3>3. CASE Install(t)
      BY <3>3, ConstantTypes
      DEF TypeOK, Install, Checked, Goto, Locations, fileVars, cacheVars, jobVars, localVars
    <3>4. QED  BY <2>9, <3>1, <3>2, <3>3
  <2>10. ASSUME NEW t \in Threads, Upsert(t) PROVE TypeOK'
    <3>1. rows' \in Rows
      BY <2>10, KeyType DEF TypeOK, Upsert, Commit, Rows, Configs
    <3>2. QED
      BY <2>10, <3>1 DEF TypeOK, Upsert, Commit, Goto, Locations, cacheVars, jobVars, localVars
  <2>11. ASSUME NEW t \in Threads, UpsertFails(t) PROVE TypeOK'
    <3>1. UNCHANGED <<fileVars, cacheVars>> /\ NextKey(t)
      BY <2>11 DEF UpsertFails
    <3>2. calls' \in 0..MaxCalls  BY <2>11 DEF UpsertFails, TypeOK
    <3>3. QED  BY <3>1, <3>2, NextKeyType DEF TypeOK, fileVars, cacheVars
  <2>12. ASSUME NEW t \in Threads, Publish(t) PROVE TypeOK'
    <3>1. [cache[Owner[t]] EXCEPT ![Key(t)] = config[t][Key(t)]] \in Rows
      BY KeyType DEF TypeOK, Rows, Configs
    <3>2. cache' \in [Procs -> Rows] /\ last' \in [Procs -> Nat]
      BY <2>12, <3>1 DEF Publish, TypeOK
    <3>3. QED  BY <2>12, <3>2, NextKeyType DEF Publish, TypeOK, fileVars
  <2>13. ASSUME NEW t \in Threads, Delete(t) \/ Insert(t) PROVE TypeOK'
    <3>1. CASE Delete(t)
      BY <3>1, ConstantTypes
      DEF TypeOK, Delete, OtherConnection, Goto, Locations, fileVars, cacheVars, jobVars, localVars
    <3>2. CASE Insert(t)
      <4>1. UNCHANGED <<cacheVars, since, calls>>  BY <3>2 DEF Insert
      <4>2. CASE /\ OtherConnection(Defaults)
                 /\ Goto(t, "refetch")
                 /\ UNCHANGED <<jobVars, localVars>>
        BY <4>1, <4>2, ConstantTypes
        DEF TypeOK, OtherConnection, Goto, Locations, cacheVars, jobVars, localVars
      <4>3. CASE Return(t) /\ UNCHANGED fileVars
        BY <4>1, <4>3, ReturnType DEF TypeOK, fileVars, cacheVars
      <4>4. QED  BY <3>2, <4>2, <4>3 DEF Insert
    <3>3. QED  BY <2>13, <3>1, <3>2
  <2>14. CASE UNCHANGED vars
    BY <2>14 DEF TypeOK, vars, fileVars, cacheVars, jobVars, localVars
  <2>15. QED
    BY <2>1, <2>2, <2>3, <2>4, <2>5, <2>6, <2>7, <2>8, <2>9, <2>10, <2>11, <2>12,
       <2>13, <2>14, LookupType DEF Next, Step
<1>3. QED  BY <1>1, <1>2, PTL DEF Spec

-----------------------------------------------------------------------------
\* A step of one thread that does not begin to serve.
LEMMA ControlOfStep ==
    ASSUME TypeOK, Control, NEW t \in Threads, NEW l, NEW h,
           pc' = [pc EXCEPT ![t] = l], op' = [op EXCEPT ![t] = h],
           UNCHANGED since, ControlAt(t, l, h)
    PROVE  Control'
<1>1. \A u \in Threads : Serving(Owner[u])' = Serving(Owner[u])  BY DEF Serving
<1>2. ASSUME NEW u \in Threads PROVE ControlAt(u, pc[u], op[u])'
  <2>1. CASE u = t
    BY <2>1, <1>1 DEF TypeOK, ControlAt
  <2>2. CASE u # t
    <3>1. pc'[u] = pc[u] /\ op'[u] = op[u]  BY <2>2 DEF TypeOK
    <3>2. QED  BY <3>1, <1>1 DEF Control, ControlAt
  <2>3. QED  BY <2>1, <2>2
<1>3. QED  BY <1>2 DEF Control

\* Only the thread that starts a process runs before it serves.
LEMMA ControlOfStart ==
    ASSUME TypeOK, Control, NEW t \in Threads, op[t] \in {"seed", "boot"}, BeginServing(t)
    PROVE  Control'
<1> USE Owners
<1> DEFINE p == Owner[t]
<1>1. t = Main[p] /\ ~Serving(p)  BY DEF Control, ControlAt
<1>2. ASSUME NEW u \in Threads PROVE ControlAt(u, pc[u], op[u])'
  <2>1. CASE u = t
    BY <2>1 DEF TypeOK, ControlAt, BeginServing, Return, Goto
  <2>2. CASE u # t
    <3>1. pc'[u] = pc[u] /\ op'[u] = op[u]
      BY <2>2 DEF TypeOK, BeginServing, Return, Goto
    <3>2. CASE Owner[u] = p
      <4>1. op[u] = "none"
        BY <1>1, <2>2, <3>2 DEF Control, ControlAt, TypeOK, Handlers
      <4>2. QED  BY <3>1, <4>1 DEF Control, ControlAt
    <3>3. CASE Owner[u] # p
      <4>1. Serving(Owner[u])' = Serving(Owner[u])
        BY <3>3 DEF Serving, BeginServing, TypeOK
      <4>2. QED  BY <3>1, <4>1 DEF Control, ControlAt
    <3>4. QED  BY <3>2, <3>3
  <2>3. QED  BY <2>1, <2>2
<1>3. QED  BY <1>2 DEF Control

LEMMA ControlOfNextKey ==
    ASSUME TypeOK, Control, NEW t \in Threads, NextKey(t),
           pc[t] \in {"upsert", "publish"}
    PROVE  Control'
<1>1. ControlAt(t, pc[t], op[t])  BY DEF Control
<1>2. CASE Goto(t, "upsert") /\ UNCHANGED <<op, since>>
  <2>1. op' = [op EXCEPT ![t] = op[t]]  BY <1>2 DEF TypeOK
  <2>2. ControlAt(t, "upsert", op[t])  BY <1>1 DEF ControlAt
  <2>3. QED  BY <1>2, <2>1, <2>2, ControlOfStep DEF Goto
<1>3. CASE Return(t) /\ UNCHANGED since
  BY <1>3, ControlOfStep DEF Return, Goto, ControlAt
<1>4. CASE op[t] = "boot" /\ BeginServing(t)
  BY <1>4, ControlOfStart
<1>5. CASE /\ op[t] = "seed"
           /\ op' = [op EXCEPT ![t] = "boot"]
           /\ Goto(t, "refetch")
           /\ UNCHANGED since
  <2>1. ControlAt(t, "refetch", "boot")  BY <1>1, <1>5 DEF ControlAt
  <2>2. QED  BY <1>5, <2>1, ControlOfStep DEF Goto
<1>6. QED  BY <1>2, <1>3, <1>4, <1>5 DEF NextKey

LEMMA ControlOfLookup ==
    ASSUME TypeOK, Control, NEW t \in Threads, Lookup(t)
    PROVE  Control'
<1>1. ControlAt(t, pc[t], op[t]) /\ pc[t] = "lookup"  BY DEF Control, Lookup
<1>2. CASE Return(t) /\ UNCHANGED since
  BY <1>2, ControlOfStep DEF Return, Goto, ControlAt
<1>3. CASE Goto(t, "version") /\ UNCHANGED <<op, since>>
  <2>1. op' = [op EXCEPT ![t] = op[t]]  BY <1>3 DEF TypeOK
  <2>2. ControlAt(t, "version", op[t])  BY <1>1 DEF ControlAt
  <2>3. QED  BY <1>3, <2>1, <2>2, ControlOfStep DEF Goto
<1>4. CASE op[t] \in {"post", "boot"} /\ Goto(t, "upsert") /\ UNCHANGED <<op, since>>
  <2>1. op' = [op EXCEPT ![t] = op[t]]  BY <1>4 DEF TypeOK
  <2>2. ControlAt(t, "upsert", op[t])  BY <1>1, <1>4 DEF ControlAt
  <2>3. QED  BY <1>4, <2>1, <2>2, ControlOfStep DEF Goto
<1>5. CASE op[t] = "boot" /\ BeginServing(t)
  BY <1>5, ControlOfStart
<1>6. QED  BY <1>2, <1>3, <1>4, <1>5 DEF Lookup, WriteConfig

LEMMA ControlOfKill ==
    ASSUME TypeOK, Control, NEW p \in Procs, Kill(p)
    PROVE  Control'
<1> USE Owners
<1>1. ASSUME NEW u \in Threads PROVE ControlAt(u, pc[u], op[u])'
  <2>1. CASE Owner[u] = p
    <3>1. pc'[u] = "idle" /\ op'[u] = "none"  BY <2>1 DEF Kill
    <3>2. QED  BY <3>1 DEF ControlAt
  <2>2. CASE Owner[u] # p
    <3>1. pc'[u] = pc[u] /\ op'[u] = op[u]  BY <2>2 DEF Kill
    <3>2. Serving(Owner[u])' = Serving(Owner[u])  BY <2>2 DEF Kill, Serving, TypeOK
    <3>3. QED  BY <3>1, <3>2 DEF Control, ControlAt
  <2>3. QED  BY <2>1, <2>2
<1>2. QED  BY <1>1 DEF Control

\* A step that leaves the handler alone and moves it from step l to step m.
LEMMA ControlOfMove ==
    ASSUME TypeOK, Control, NEW t \in Threads, NEW m,
           Goto(t, m), UNCHANGED <<op, since>>, ControlAt(t, m, op[t])
    PROVE  Control'
<1>1. op' = [op EXCEPT ![t] = op[t]]  BY DEF TypeOK
<1>2. QED  BY <1>1, ControlOfStep DEF Goto

LEMMA ControlPreserved ==
    ASSUME TypeOK, Control, [Next]_vars
    PROVE  Control'
<1> USE Owners
<1>1. ASSUME NEW q \in Procs, Start(q) PROVE Control'
  <2>1. ControlAt(Main[q], "count", "boot")  BY <1>1 DEF Start, ControlAt
  <2>2. QED  BY <1>1, <2>1, ControlOfStep DEF Start
<1>2. ASSUME NEW q \in Procs, Kill(q) PROVE Control'
  BY <1>2, ControlOfKill
<1>3. ASSUME NEW t \in Threads, Get(t) PROVE Control'
  <2>1. ControlAt(t, "version", "read")  BY <1>3 DEF Get, Call, ControlAt
  <2>2. QED  BY <1>3, <2>1, ControlOfStep DEF Get, Call, Goto
<1>4. ASSUME NEW t \in Threads, Reset(t) PROVE Control'
  <2>1. ControlAt(t, "delete", "reset")  BY <1>4 DEF Reset, Call, ControlAt
  <2>2. QED  BY <1>4, <2>1, ControlOfStep DEF Reset, Call, Goto
<1>5. ASSUME NEW t \in Threads, NEW c \in Bodies, Post(t, c) PROVE Control'
  <2>1. ControlAt(t, "version", "post")  BY <1>5 DEF Post, Call, ControlAt
  <2>2. QED  BY <1>5, <2>1, ControlOfStep DEF Post, Call, Goto
<1>6. ASSUME NEW t \in Threads, Step(t) PROVE Control'
  <2>0. ControlAt(t, pc[t], op[t])  BY DEF Control
  <2>1. CASE Count(t)
    <3>1. UNCHANGED since /\ op[t] = "boot"  BY <2>0, <2>1 DEF Count, ControlAt
    <3>2. CASE op' = [op EXCEPT ![t] = "seed"] /\ WriteConfig(t, Defaults)
      <4>1. ControlAt(t, "upsert", "seed")  BY <2>0, <3>1 DEF ControlAt
      <4>2. QED  BY <3>1, <3>2, <4>1, ControlOfStep DEF WriteConfig, Goto
    <3>3. CASE Goto(t, "refetch") /\ UNCHANGED jobVars
      <4>1. ControlAt(t, "refetch", op[t])  BY <2>0, <3>1 DEF ControlAt
      <4>2. QED  BY <3>1, <3>3, <4>1, ControlOfMove DEF jobVars
    <3>4. QED  BY <2>1, <3>2, <3>3 DEF Count
  <2>2. CASE Refetch(t)
    <3>1. ControlAt(t, "reinstall", op[t])  BY <2>0, <2>2 DEF Refetch, ControlAt
    <3>2. QED  BY <2>2, <3>1, ControlOfMove DEF Refetch, jobVars
  <2>3. CASE Reinstall(t)
    <3>1. UNCHANGED since  BY <2>3 DEF Reinstall
    <3>2. CASE Return(t)
      BY <3>1, <3>2, ControlOfStep DEF Return, Goto, ControlAt
    <3>3. CASE op[t] = "boot" /\ Goto(t, "mark") /\ UNCHANGED op
      <4>1. ControlAt(t, "mark", op[t])  BY <2>0, <3>3 DEF ControlAt
      <4>2. QED  BY <3>1, <3>3, <4>1, ControlOfMove
    <3>4. QED  BY <2>3, <3>2, <3>3 DEF Reinstall, jobVars
  <2>4. CASE Mark(t)
    <3>1. ControlAt(t, "version", op[t])  BY <2>0, <2>4 DEF Mark, ControlAt
    <3>2. QED  BY <2>4, <3>1, ControlOfMove DEF Mark, jobVars
  <2>5. CASE ReadVersion(t)
    <3>1. ControlAt(t, "compare", op[t])  BY <2>0, <2>5 DEF ReadVersion, ControlAt
    <3>2. QED  BY <2>5, <3>1, ControlOfMove DEF ReadVersion, jobVars
  <2>6. CASE Compare(t)
    <3>1. UNCHANGED <<op, since>>  BY <2>6 DEF Compare, jobVars
    <3>2. ControlAt(t, "fetch", op[t]) /\ ControlAt(t, "lookup", op[t])
      BY <2>0, <2>6 DEF Compare, ControlAt
    <3>3. Goto(t, "fetch") \/ Goto(t, "lookup")  BY <2>6 DEF Compare, Checked
    <3>4. QED  BY <3>1, <3>2, <3>3, ControlOfMove
  <2>7. CASE Fetch(t)
    <3>1. ControlAt(t, "install", op[t])  BY <2>0, <2>7 DEF Fetch, ControlAt
    <3>2. QED  BY <2>7, <3>1, ControlOfMove DEF Fetch, jobVars
  <2>8. CASE Install(t)
    <3>1. ControlAt(t, "lookup", op[t])  BY <2>0, <2>8 DEF Install, ControlAt
    <3>2. QED  BY <2>8, <3>1, ControlOfMove DEF Install, Checked, jobVars
  <2>9. CASE Lookup(t)
    BY <2>9, ControlOfLookup
  <2>10. CASE Upsert(t)
    <3>1. ControlAt(t, "publish", op[t])  BY <2>0, <2>10 DEF Upsert, ControlAt
    <3>2. QED  BY <2>10, <3>1, ControlOfMove DEF Upsert, jobVars
  <2>11. CASE UpsertFails(t) \/ Publish(t)
    BY <2>11, ControlOfNextKey DEF UpsertFails, Publish
  <2>12. CASE Delete(t)
    <3>1. ControlAt(t, "insert", op[t])  BY <2>0, <2>12 DEF Delete, ControlAt
    <3>2. QED  BY <2>12, <3>1, ControlOfMove DEF Delete, jobVars
  <2>13. CASE Insert(t)
    <3>1. UNCHANGED since /\ op[t] = "reset"  BY <2>0, <2>13 DEF Insert, ControlAt
    <3>2. CASE Return(t)
      BY <3>1, <3>2, ControlOfStep DEF Return, Goto, ControlAt
    <3>3. CASE Goto(t, "refetch") /\ UNCHANGED jobVars
      <4>1. ControlAt(t, "refetch", op[t])  BY <2>0, <3>1 DEF ControlAt
      <4>2. QED  BY <3>1, <3>3, <4>1, ControlOfMove DEF jobVars
    <3>4. QED  BY <2>13, <3>2, <3>3 DEF Insert
  <2>14. QED
    BY <1>6, <2>1, <2>2, <2>3, <2>4, <2>5, <2>6, <2>7, <2>8, <2>9, <2>10, <2>11,
       <2>12, <2>13 DEF Step
<1>7. CASE UNCHANGED vars
  BY <1>7 DEF vars, Control, ControlAt, Serving, jobVars
<1>8. QED  BY <1>1, <1>2, <1>3, <1>4, <1>5, <1>6, <1>7 DEF Next

-----------------------------------------------------------------------------
\* What a thread has fetched, and what a process knows.
FetchedAt(t) ==
    /\ cur[t] <= ver[Owner[t]]
    /\ pc[t] = "install" /\ Reader(Owner[t]) /\ Serving(Owner[t])
       /\ cur[t] = ver[Owner[t]] => snap[t] = rows

Knows(p) ==
    /\ last[p] <= ver[p] /\ since[p] <= ver[p]
    /\ Serving(p) /\ Reader(p) /\ last[p] = ver[p] /\ ver[p] > since[p]
       => cache[p] = rows

LEMMA Parts ==
    Fetched /\ ReaderKnows <=> /\ \A t \in Threads : FetchedAt(t)
                               /\ \A p \in Procs : Knows(p)
BY DEF Fetched, ReaderKnows, FetchedAt, Knows

\* A step of t that neither commits, nor starts a process, nor reaches "install".
LEMMA LocalStep ==
    ASSUME TypeOK, TypeOK', Fetched, ReaderKnows, NEW t \in Threads,
           \A u \in Threads \ {t} : /\ pc'[u] = pc[u] /\ cur'[u] = cur[u]
                                    /\ snap'[u] = snap[u],
           UNCHANGED <<fileVars, cacheVars, since>>,
           pc'[t] # "install", cur'[t] <= ver[Owner[t]]
    PROVE  Fetched' /\ ReaderKnows'
<1> USE Owners
<1>1. \A u \in Threads : FetchedAt(u)'
  <2> TAKE u \in Threads
  <2>1. FetchedAt(u)  BY Parts
  <2>2. CASE u = t  BY <2>2 DEF FetchedAt, fileVars
  <2>3. CASE u # t  BY <2>1, <2>3 DEF FetchedAt, fileVars, Reader, Serving
  <2>4. QED  BY <2>2, <2>3
<1>2. \A p \in Procs : Knows(p)'
  BY Parts DEF Knows, fileVars, cacheVars, Reader, Serving
<1>3. QED  BY <1>1, <1>2, Parts DEF Fetched, ReaderKnows, FetchedAt, Knows

\* A commit: data_version changes for every process that only reads.
LEMMA CommitStep ==
    ASSUME TypeOK, TypeOK', Fetched, ReaderKnows, NEW t \in Threads, NEW l,
           Goto(t, l), l # "install", UNCHANGED <<cacheVars, localVars, since>>,
           \A q \in Procs : /\ ver[q] <= ver'[q]
                            /\ Serving(q) /\ Reader(q) => ver[q] < ver'[q]
    PROVE  Fetched' /\ ReaderKnows'
<1> USE Owners
<1>1. \A u \in Threads : FetchedAt(u)'
  <2> TAKE u \in Threads
  <2>1. FetchedAt(u) /\ cur'[u] = cur[u] /\ snap'[u] = snap[u] /\ cur[u] \in Nat
    BY Parts DEF localVars, TypeOK
  <2>2. ver[Owner[u]] \in Nat /\ ver'[Owner[u]] \in Nat  BY DEF TypeOK
  <2>3. Serving(Owner[u])' = Serving(Owner[u]) /\ Reader(Owner[u])' = Reader(Owner[u])
    BY DEF Serving, Reader
  <2>4. CASE Serving(Owner[u]) /\ Reader(Owner[u])
    BY <2>1, <2>2, <2>4 DEF FetchedAt
  <2>5. CASE ~(Serving(Owner[u]) /\ Reader(Owner[u]))
    BY <2>1, <2>2, <2>3, <2>5 DEF FetchedAt
  <2>6. QED  BY <2>4, <2>5
<1>2. \A p \in Procs : Knows(p)'
  <2> TAKE p \in Procs
  <2>1. Knows(p) /\ last'[p] = last[p] /\ since'[p] = since[p]
    BY Parts DEF cacheVars
  <2>2. /\ ver[p] \in Nat /\ ver'[p] \in Nat /\ last[p] \in Nat
        /\ since[p] \in Nat \cup {-1}
    BY DEF TypeOK
  <2>3. Serving(p)' = Serving(p) /\ Reader(p)' = Reader(p)  BY DEF Serving, Reader
  <2>4. QED  BY <2>1, <2>2, <2>3 DEF Knows
<1>3. QED  BY <1>1, <1>2 DEF Fetched, ReaderKnows, FetchedAt, Knows

\* A step that changes the cache of a process that is starting or that posts.
LEMMA CacheStep ==
    ASSUME TypeOK, TypeOK', Fetched, ReaderKnows, NEW t \in Threads,
           \A u \in Threads \ {t} : /\ pc'[u] = pc[u] /\ cur'[u] = cur[u]
                                    /\ snap'[u] = snap[u],
           pc'[t] # "install", cur'[t] <= ver[Owner[t]],
           UNCHANGED fileVars,
           \A q \in Procs \ {Owner[t]} : /\ cache'[q] = cache[q]
                                         /\ last'[q] = last[q]
                                         /\ since'[q] = since[q],
           last'[Owner[t]] <= ver[Owner[t]], since'[Owner[t]] <= ver[Owner[t]],
           \/ ~Serving(Owner[t])'
           \/ ~Reader(Owner[t])
           \/ /\ since'[Owner[t]] = ver[Owner[t]]
              /\ \A u \in Threads \ {t} : Owner[u] = Owner[t] => pc[u] # "install"
    PROVE  Fetched' /\ ReaderKnows'
<1> USE Owners
<1>0. \A q \in Procs : Reader(q)' = Reader(q) /\ ver'[q] = ver[q]
  BY DEF Reader, fileVars
<1>1. \A u \in Threads : FetchedAt(u)'
  <2> TAKE u \in Threads
  <2>1. FetchedAt(u)  BY Parts
  <2>2. CASE u = t  BY <2>2, <1>0 DEF FetchedAt
  <2>3. CASE u # t /\ Owner[u] = Owner[t]
    BY <2>1, <2>3, <1>0 DEF FetchedAt
  <2>4. CASE u # t /\ Owner[u] # Owner[t]
    BY <2>1, <2>4, <1>0 DEF FetchedAt, fileVars, Serving
  <2>5. QED  BY <2>2, <2>3, <2>4
<1>2. \A q \in Procs : Knows(q)'
  <2> TAKE q \in Procs
  <2>1. Knows(q)  BY Parts
  <2>2. CASE q = Owner[t]
    <3>1. ver[q] \in Nat  BY DEF TypeOK
    <3>2. QED  BY <2>2, <3>1, <1>0 DEF Knows
  <2>3. CASE q # Owner[t]
    BY <2>1, <2>3, <1>0 DEF Knows, fileVars, Serving
  <2>4. QED  BY <2>2, <2>3
<1>3. QED  BY <1>1, <1>2 DEF Fetched, ReaderKnows, FetchedAt, Knows

LEMMA FetchStep ==
    ASSUME TypeOK, TypeOK', Fetched, ReaderKnows, NEW t \in Threads, Fetch(t)
    PROVE  Fetched' /\ ReaderKnows'
<1> USE Owners
<1>1. \A u \in Threads : FetchedAt(u)'
  <2> TAKE u \in Threads
  <2>1. FetchedAt(u)  BY Parts
  <2>2. CASE u = t
    BY <2>1, <2>2 DEF FetchedAt, Fetch, TypeOK, fileVars
  <2>3. CASE u # t
    <3>1. pc'[u] = pc[u] /\ snap'[u] = snap[u]  BY <2>3 DEF Fetch, Goto, TypeOK
    <3>2. QED  BY <2>1, <3>1 DEF FetchedAt, Fetch, fileVars, Reader, Serving
  <2>4. QED  BY <2>2, <2>3
<1>2. \A q \in Procs : Knows(q)'
  BY Parts DEF Fetch, Knows, fileVars, cacheVars, Reader, Serving
<1>3. QED  BY <1>1, <1>2 DEF Fetched, ReaderKnows, FetchedAt, Knows

\* The heart of the argument: the rows that are installed with the current
\* version are those of the file.
LEMMA InstallStep ==
    ASSUME TypeOK, TypeOK', Fetched, ReaderKnows, NEW t \in Threads, Install(t)
    PROVE  Fetched' /\ ReaderKnows'
<1> USE Owners
<1> DEFINE p == Owner[t]
<1>0. FetchedAt(t) /\ pc[t] = "install"  BY Parts DEF Install
<1>1. \A u \in Threads : FetchedAt(u)'
  <2> TAKE u \in Threads
  <2>1. FetchedAt(u)  BY Parts
  <2>2. CASE u = t
    BY <2>2 DEF FetchedAt, Install, Checked, Goto, TypeOK, fileVars
  <2>3. CASE u # t
    <3>1. pc'[u] = pc[u] /\ snap'[u] = snap[u] /\ cur'[u] = cur[u]
      BY <2>3 DEF Install, Checked, Goto, TypeOK
    <3>2. QED  BY <2>1, <3>1 DEF FetchedAt, Install, fileVars, Reader, Serving
  <2>4. QED  BY <2>2, <2>3
<1>2. \A q \in Procs : Knows(q)'
  <2> TAKE q \in Procs
  <2>1. /\ Knows(q) /\ ver'[q] = ver[q] /\ rows' = rows /\ since'[q] = since[q]
        /\ Serving(q)' = Serving(q) /\ Reader(q)' = Reader(q)
    BY Parts DEF Install, fileVars, Serving, Reader
  <2>2. CASE q = p
    <3>1. cache'[q] = snap[t] /\ last'[q] = cur[t]  BY <2>2 DEF Install, TypeOK
    <3>2. QED  BY <1>0, <2>1, <2>2, <3>1 DEF Knows, FetchedAt
  <2>3. CASE q # p
    <3>1. cache'[q] = cache[q] /\ last'[q] = last[q]  BY <2>3 DEF Install, TypeOK
    <3>2. QED  BY <2>1, <3>1 DEF Knows
  <2>4. QED  BY <2>2, <2>3
<1>3. QED  BY <1>1, <1>2 DEF Fetched, ReaderKnows, FetchedAt, Knows

LEMMA KillStep ==
    ASSUME TypeOK, TypeOK', Fetched, ReaderKnows, NEW p \in Procs, Kill(p)
    PROVE  Fetched' /\ ReaderKnows'
<1> USE Owners
<1>1. \A u \in Threads : FetchedAt(u)'
  <2> TAKE u \in Threads
  <2>1. FetchedAt(u)  BY Parts
  <2>2. CASE Owner[u] = p
    <3>1. pc'[u] = "idle" /\ cur'[u] = 0 /\ ver'[p] \in Nat
      BY <2>2 DEF Kill, TypeOK
    <3>2. QED  BY <2>2, <3>1 DEF FetchedAt
  <2>3. CASE Owner[u] # p
    <3>1. pc'[u] = pc[u] /\ cur'[u] = cur[u] /\ snap'[u] = snap[u]
          /\ since'[Owner[u]] = since[Owner[u]]
      BY <2>3 DEF Kill, TypeOK
    <3>2. QED  BY <2>1, <3>1 DEF FetchedAt, Kill, fileVars, Reader, Serving
  <2>4. QED  BY <2>2, <2>3
<1>2. \A q \in Procs : Knows(q)'
  <2> TAKE q \in Procs
  <2>1. Knows(q) /\ ver'[q] = ver[q] /\ rows' = rows /\ ver[q] \in Nat
    BY Parts DEF Kill, fileVars, TypeOK
  <2>2. CASE q = p
    <3>1. last'[q] = 0 /\ since'[q] = -1  BY <2>2 DEF Kill, TypeOK
    <3>2. QED  BY <2>1, <3>1 DEF Knows, Serving
  <2>3. CASE q # p
    <3>1. cache'[q] = cache[q] /\ last'[q] = last[q] /\ since'[q] = since[q]
      BY <2>3 DEF Kill, TypeOK
    <3>2. QED  BY <2>1, <3>1 DEF Knows, Serving, Reader
  <2>4. QED  BY <2>2, <2>3
<1>3. QED  BY <1>1, <1>2 DEF Fetched, ReaderKnows, FetchedAt, Knows

\* What every step of a thread keeps of the others.
LEMMA OthersKept ==
    ASSUME TypeOK, NEW t \in Threads, NEW l, Goto(t, l),
           UNCHANGED localVars \/ (\E c, s : /\ cur' = [cur EXCEPT ![t] = c]
                                             /\ snap' = [snap EXCEPT ![t] = s])
    PROVE  /\ \A u \in Threads \ {t} : /\ pc'[u] = pc[u] /\ cur'[u] = cur[u]
                                       /\ snap'[u] = snap[u]
           /\ pc'[t] = l
BY DEF TypeOK, Goto, localVars

\* The process of t posts or is starting: it is no reader that serves.
LEMMA WriterStep ==
    ASSUME Control, NEW t \in Threads,
           pc[t] \in {"upsert", "publish", "reinstall", "mark"}
    PROVE  ~(Serving(Owner[t]) /\ Reader(Owner[t]))
BY DEF Control, ControlAt, Reader

\* A thread that starts its process is alone in it.
LEMMA AloneAtStart ==
    ASSUME TypeOK, Control, NEW t \in Threads, op[t] \in {"seed", "boot"},
           NEW u \in Threads \ {t}, Owner[u] = Owner[t]
    PROVE  pc[u] # "install"
BY DEF TypeOK, Handlers, Control, ControlAt

LEMMA ReturnOthers ==
    ASSUME TypeOK, NEW t \in Threads, Return(t)
    PROVE  /\ \A u \in Threads \ {t} : /\ pc'[u] = pc[u] /\ cur'[u] = cur[u]
                                       /\ snap'[u] = snap[u]
           /\ pc'[t] = "idle" /\ cur'[t] = 0
BY DEF TypeOK, Return, Goto

\* The end of a key: of an update, of a post or of the start-up.
LEMMA NextKeyOthers ==
    ASSUME TypeOK, Fetched, NEW t \in Threads, NextKey(t)
    PROVE  /\ \A u \in Threads \ {t} : /\ pc'[u] = pc[u] /\ cur'[u] = cur[u]
                                       /\ snap'[u] = snap[u]
           /\ pc'[t] # "install" /\ cur'[t] <= ver[Owner[t]]
           /\ \/ UNCHANGED since
              \/ /\ op[t] = "boot"
                 /\ since' = [since EXCEPT ![Owner[t]] = ver[Owner[t]]]
<1> USE Owners
<1>0. cur[t] <= ver[Owner[t]] /\ ver[Owner[t]] \in Nat  BY DEF Fetched, TypeOK
<1>1. CASE Goto(t, "upsert") /\ UNCHANGED <<localVars, since>>
  <2>1. cur'[t] = cur[t]  BY <1>1 DEF localVars
  <2>2. QED  BY <1>0, <1>1, <2>1, OthersKept
<1>2. CASE Return(t) /\ UNCHANGED since
  BY <1>0, <1>2, ReturnOthers
<1>3. CASE op[t] = "boot" /\ BeginServing(t)
  BY <1>0, <1>3, ReturnOthers DEF BeginServing
<1>4. CASE Goto(t, "refetch") /\ UNCHANGED <<localVars, since>>
  <2>1. cur'[t] = cur[t]  BY <1>4 DEF localVars
  <2>2. QED  BY <1>0, <1>4, <2>1, OthersKept
<1>5. QED  BY <1>1, <1>2, <1>3, <1>4 DEF NextKey

LEMMA StepKnows ==
    ASSUME TypeOK, TypeOK', Control, Fetched, ReaderKnows, NEW t \in Threads, Step(t)
    PROVE  Fetched' /\ ReaderKnows'
<1> USE Owners
<1> DEFINE p == Owner[t]
<1>0. /\ cur[t] <= ver[p] /\ since[p] <= ver[p] /\ last[p] <= ver[p]
      /\ ver[p] \in Nat
  BY DEF Fetched, TypeOK
<1>1. CASE Count(t)
  <2>1. UNCHANGED <<fileVars, cacheVars, localVars, since>>  BY <1>1 DEF Count
  <2>2. Goto(t, "upsert") \/ Goto(t, "refetch")  BY <1>1 DEF Count, WriteConfig
  <2>3. cur'[t] = cur[t]  BY <2>1 DEF localVars
  <2>4. /\ \A u \in Threads \ {t} : pc'[u] = pc[u] /\ cur'[u] = cur[u] /\ snap'[u] = snap[u]
        /\ pc'[t] # "install"
    BY <2>1, <2>2, OthersKept
  <2>5. QED  BY <1>0, <2>1, <2>3, <2>4, LocalStep
<1>2. CASE Refetch(t)
  <2>1. UNCHANGED <<fileVars, cacheVars, cur, since>>  BY <1>2 DEF Refetch
  <2>2. /\ \A u \in Threads \ {t} : pc'[u] = pc[u] /\ cur'[u] = cur[u] /\ snap'[u] = snap[u]
        /\ pc'[t] # "install" /\ cur'[t] = cur[t]
    BY <1>2 DEF Refetch, Goto, TypeOK
  <2>3. QED  BY <1>0, <2>1, <2>2, LocalStep
<1>3. CASE Reinstall(t)
  <2>1. /\ \A q \in Procs \ {p} : cache'[q] = cache[q] /\ last'[q] = last[q]
        /\ last'[p] = ver[p]
        /\ UNCHANGED <<fileVars, since>>
    BY <1>3 DEF Reinstall, TypeOK
  <2>2. /\ \A u \in Threads \ {t} : pc'[u] = pc[u] /\ cur'[u] = cur[u] /\ snap'[u] = snap[u]
        /\ pc'[t] # "install" /\ cur'[t] <= ver[p]
    <3>1. CASE Return(t)  BY <1>0, <3>1, ReturnOthers
    <3>2. CASE Goto(t, "mark") /\ snap' = [snap EXCEPT ![t] = NoRows] /\ UNCHANGED cur
      BY <1>0, <3>2 DEF Goto, TypeOK
    <3>3. QED  BY <1>3, <3>1, <3>2 DEF Reinstall
  <2>3. ~Serving(p)' \/ ~Reader(p)
    BY <1>3, <2>1, WriterStep DEF Reinstall, Serving
  <2>4. QED  BY <1>0, <2>1, <2>2, <2>3, CacheStep
<1>4. CASE Mark(t)
  <2>1. /\ \A q \in Procs \ {p} : cache'[q] = cache[q] /\ last'[q] = last[q]
        /\ last'[p] = ver[p]
        /\ UNCHANGED <<fileVars, localVars, since>> /\ Goto(t, "version")
    BY <1>4 DEF Mark, TypeOK
  <2>2. cur'[t] = cur[t]  BY <2>1 DEF localVars
  <2>3. /\ \A u \in Threads \ {t} : pc'[u] = pc[u] /\ cur'[u] = cur[u] /\ snap'[u] = snap[u]
        /\ pc'[t] # "install"
    BY <2>1, OthersKept
  <2>4. ~Serving(p)' \/ ~Reader(p)
    BY <1>4, <2>1, WriterStep DEF Mark, Serving
  <2>5. QED  BY <1>0, <2>1, <2>2, <2>3, <2>4, CacheStep
<1>5. CASE ReadVersion(t)
  <2>1. UNCHANGED <<fileVars, cacheVars, since>>  BY <1>5 DEF ReadVersion
  <2>2. /\ \A u \in Threads \ {t} : pc'[u] = pc[u] /\ cur'[u] = cur[u] /\ snap'[u] = snap[u]
        /\ pc'[t] # "install" /\ cur'[t] = ver[p]
    BY <1>5 DEF ReadVersion, Goto, TypeOK
  <2>3. QED  BY <1>0, <2>1, <2>2, LocalStep
<1>6. CASE Compare(t)
  <2>1. UNCHANGED <<fileVars, cacheVars, since>>  BY <1>6 DEF Compare
  <2>2. /\ \A u \in Threads \ {t} : pc'[u] = pc[u] /\ cur'[u] = cur[u] /\ snap'[u] = snap[u]
        /\ pc'[t] # "install" /\ cur'[t] <= ver[p]
    <3>1. CASE Goto(t, "fetch") /\ UNCHANGED localVars
      BY <1>0, <3>1 DEF Goto, TypeOK, localVars
    <3>2. CASE Checked(t)  BY <1>0, <3>2 DEF Checked, Goto, TypeOK
    <3>3. QED  BY <1>6, <3>1, <3>2 DEF Compare
  <2>3. QED  BY <2>1, <2>2, LocalStep
<1>7. CASE Fetch(t)  BY <1>7, FetchStep
<1>8. CASE Install(t)  BY <1>8, InstallStep
<1>9. CASE Lookup(t)
  <2>1. UNCHANGED <<fileVars, cacheVars>>  BY <1>9 DEF Lookup
  <2>2. CASE Return(t) /\ UNCHANGED since
    BY <1>0, <2>1, <2>2, ReturnOthers, LocalStep
  <2>3. CASE (Goto(t, "version") \/ Goto(t, "upsert")) /\ UNCHANGED <<localVars, since>>
    <3>1. cur'[t] = cur[t]  BY <2>3 DEF localVars
    <3>2. /\ \A u \in Threads \ {t} : pc'[u] = pc[u] /\ cur'[u] = cur[u] /\ snap'[u] = snap[u]
          /\ pc'[t] # "install"
      BY <2>3, OthersKept
    <3>3. QED  BY <1>0, <2>1, <2>3, <3>1, <3>2, LocalStep
  <2>4. CASE op[t] = "boot" /\ BeginServing(t)
    <3>1. /\ \A q \in Procs \ {p} : /\ cache'[q] = cache[q] /\ last'[q] = last[q]
                                    /\ since'[q] = since[q]
          /\ since'[p] = ver[p] /\ last'[p] = last[p]
      BY <2>1, <2>4 DEF BeginServing, cacheVars, TypeOK
    <3>2. \A u \in Threads \ {t} : Owner[u] = Owner[t] => pc[u] # "install"
      BY <2>4, AloneAtStart
    <3>3. Return(t)  BY <2>4 DEF BeginServing
    <3>4. QED  BY <1>0, <2>1, <3>1, <3>2, <3>3, ReturnOthers, CacheStep
  <2>5. QED  BY <1>9, <2>2, <2>3, <2>4 DEF Lookup, WriteConfig
<1>10. CASE Upsert(t)
  <2>1. UNCHANGED <<cacheVars, localVars, since>> /\ Goto(t, "publish")
    BY <1>10 DEF Upsert
  <2>2. ~(Serving(p) /\ Reader(p))  BY <1>10, WriterStep DEF Upsert
  <2>3. \A q \in Procs : ver[q] <= ver'[q] /\ (q # p => ver[q] < ver'[q])
    BY <1>10 DEF Upsert, Commit, TypeOK
  <2>4. QED  BY <2>1, <2>2, <2>3, CommitStep
<1>11. CASE UpsertFails(t) \/ Publish(t)
  <2>1. UNCHANGED fileVars /\ NextKey(t) /\ pc[t] \in {"upsert", "publish"}
    BY <1>11 DEF UpsertFails, Publish
  <2>2. /\ \A q \in Procs \ {p} : cache'[q] = cache[q] /\ last'[q] = last[q]
        /\ last'[p] <= ver[p]
    BY <1>0, <1>11 DEF UpsertFails, Publish, TypeOK, cacheVars
  <2>3. ~(Serving(p) /\ Reader(p))  BY <2>1, WriterStep
  <2>4. CASE UNCHANGED since
    <3>1. ~Serving(p)' \/ ~Reader(p)  BY <2>3, <2>4 DEF Serving
    <3>2. QED  BY <1>0, <2>1, <2>2, <2>4, <3>1, NextKeyOthers, CacheStep
  <2>5. CASE op[t] = "boot" /\ since' = [since EXCEPT ![p] = ver[p]]
    <3>1. /\ \A q \in Procs \ {p} : since'[q] = since[q]
          /\ since'[p] = ver[p]
      BY <2>5 DEF TypeOK
    <3>2. \A u \in Threads \ {t} : Owner[u] = Owner[t] => pc[u] # "install"
      BY <2>5, AloneAtStart
    <3>3. QED  BY <1>0, <2>1, <2>2, <3>1, <3>2, NextKeyOthers, CacheStep
  <2>6. QED  BY <2>1, <2>4, <2>5, NextKeyOthers
<1>12. CASE Delete(t)
  <2>1. UNCHANGED <<cacheVars, localVars, since>> /\ Goto(t, "insert")
    BY <1>12 DEF Delete
  <2>2. \A q \in Procs : ver[q] < ver'[q] /\ ver[q] <= ver'[q]
    BY <1>12 DEF Delete, OtherConnection, TypeOK
  <2>3. QED  BY <2>1, <2>2, CommitStep
<1>13. CASE Insert(t)
  <2>1. UNCHANGED <<cacheVars, since>>  BY <1>13 DEF Insert
  <2>2. CASE OtherConnection(Defaults) /\ Goto(t, "refetch") /\ UNCHANGED localVars
    <3>1. \A q \in Procs : ver[q] < ver'[q] /\ ver[q] <= ver'[q]
      BY <2>2 DEF OtherConnection, TypeOK
    <3>2. QED  BY <2>1, <2>2, <3>1, CommitStep
  <2>3. CASE Return(t) /\ UNCHANGED fileVars
    BY <1>0, <2>1, <2>3, ReturnOthers, LocalStep
  <2>4. QED  BY <1>13, <2>2, <2>3 DEF Insert
<1>14. QED
  BY <1>1, <1>2, <1>3, <1>4, <1>5, <1>6, <1>7, <1>8, <1>9, <1>10, <1>11, <1>12,
     <1>13 DEF Step

\* A process that only reads is never wrong without knowing it: check_and_reload
\* stores the version it read before the rows (settings_manager.cpp 24-43), so
\* a current version stands for the rows of the file, for any number of readers.
THEOREM ReaderCorrect == Spec => []ReaderKnows
<1> DEFINE IInv == TypeOK /\ Control /\ Fetched /\ ReaderKnows
<1>1. Init => IInv
  <2> SUFFICES ASSUME Init PROVE IInv
    OBVIOUS
  <2>1. Control  BY DEF Init, Control, ControlAt
  <2>2. Fetched /\ ReaderKnows  BY Owners DEF Init, Fetched, ReaderKnows, Serving
  <2>3. TypeOK
    BY ConstantTypes, BoundAssumption, OrderLength
    DEF Init, TypeOK, Locations, Handlers, Rows, Configs, Defaults
  <2>4. QED  BY <2>1, <2>2, <2>3
<1>2. IInv /\ TypeOK' /\ [Next]_vars => IInv'
  <2> SUFFICES ASSUME IInv, TypeOK', [Next]_vars PROVE IInv'
    OBVIOUS
  <2>1. Control'  BY ControlPreserved
  <2>2. Fetched' /\ ReaderKnows'
    <3> USE Owners
    <3>1. ASSUME NEW q \in Procs, Start(q) PROVE Fetched' /\ ReaderKnows'
      <4>1. /\ Goto(Main[q], "count")
            /\ UNCHANGED <<fileVars, cacheVars, localVars, since>>
        BY <3>1 DEF Start, Goto
      <4>2. cur'[Main[q]] <= ver[Owner[Main[q]]]
        BY <4>1 DEF localVars, Fetched
      <4>3. QED  BY <4>1, <4>2, OthersKept, LocalStep
    <3>2. ASSUME NEW q \in Procs, Kill(q) PROVE Fetched' /\ ReaderKnows'
      BY <3>2, KillStep
    <3>3. ASSUME NEW t \in Threads,
                 Get(t) \/ Reset(t) \/ (\E c \in Bodies : Post(t, c))
          PROVE  Fetched' /\ ReaderKnows'
      <4>1. /\ Goto(t, "version") \/ Goto(t, "delete")
            /\ UNCHANGED <<fileVars, cacheVars, localVars, since>>
        BY <3>3 DEF Get, Reset, Post, Call
      <4>2. cur'[t] <= ver[Owner[t]]  BY <4>1 DEF localVars, Fetched
      <4>3. QED  BY <4>1, <4>2, OthersKept, LocalStep
    <3>4. ASSUME NEW t \in Threads, Step(t) PROVE Fetched' /\ ReaderKnows'
      BY <3>4, StepKnows
    <3>5. CASE UNCHANGED vars
      BY <3>5 DEF vars, fileVars, cacheVars, localVars, Fetched, ReaderKnows,
                  Reader, Serving
    <3>6. QED  BY <3>1, <3>2, <3>3, <3>4, <3>5 DEF Next
  <2>3. QED  BY <2>1, <2>2
<1>3. QED  BY <1>1, <1>2, TypeCorrect, PTL DEF Spec
=============================================================================
