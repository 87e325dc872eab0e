--------------------------- MODULE SettingsCache ---------------------------
(***************************************************************************)
(* The settings of the engine and of the tray: one SQLite file and, in     *)
(* each process, a SettingsManager that caches every row.  A get first     *)
(* asks the connection for its data_version and reads all rows again when  *)
(* that changed; an update writes its row and then its cache entry.        *)
(*                                                                         *)
(* The cache and last_data_version_ change under mutex_, the connection is *)
(* used under a mutex of its own, and nothing is held from one to the      *)
(* other: each critical section is one step.  data_version changes for a   *)
(* connection when another connection commits; ver[p] counts those commits *)
(* for the connection of process p.  A config is a sequence of keys that   *)
(* is read and written key by key.                                         *)
(***************************************************************************)
EXTENDS Integers, Sequences

CONSTANTS
    Procs,      \* the engine and the tray
    Threads,
    Owner,      \* the process a thread belongs to
    Main,       \* the thread that starts a process
    Engine,     \* the process that generates the API secret
    Posters,    \* threads that serve POST /api/settings and its reset
    Order,      \* the keys of a config, in the order they are read and written
    Secret,     \* the key that must not stay at its default
    Bodies,     \* what is posted: a value for some keys
    Values, Default, Generated, Absent, \* Absent: no row, no cache entry
    MaxCalls    \* bound: posts, resets, kills and failed writes

Keys == {Order[i] : i \in DOMAIN Order}

ASSUME KeysAssumption == Order \in Seq(Keys) /\ Len(Order) > 0 /\ Secret \in Keys
ASSUME ThreadsAssumption ==
    /\ Owner \in [Threads -> Procs]
    /\ Main \in [Procs -> Threads]
    /\ \A p \in Procs : Owner[Main[p]] = p
    /\ Posters \subseteq Threads
    /\ \A t \in Posters : Owner[t] # Engine
ASSUME ValuesAssumption ==
    {Default, Generated} \subseteq Values /\ Absent \notin Values
ASSUME BodiesAssumption == Bodies \subseteq [Keys -> Values \cup {Absent}]
ASSUME BoundAssumption == MaxCalls \in Nat

VARIABLES
    rows,   \* system_settings
    ver,    \* data_version as the connection of a process sees it
    cache,  \* cache_
    last,   \* last_data_version_
    pc,
    op,     \* the handler a thread runs
    change, \* what a post changes
    config, \* the config read so far, or to be written
    idx,    \* the position in Order
    cur,    \* cur_ver of check_and_reload
    snap,   \* the rows get_all returned
    since,  \* the data_version with which a process began to serve, -1 before
    calls   \* posts, resets, kills and failed writes so far

fileVars == <<rows, ver>>
cacheVars == <<cache, last>>
jobVars == <<op, change, config, idx>>
localVars == <<cur, snap>>
vars == <<fileVars, cacheVars, pc, jobVars, localVars, since, calls>>

Rows == [Keys -> Values \cup {Absent}]
Configs == [Keys -> Values]
NoRows == [k \in Keys |-> Absent]
Defaults == [k \in Keys |-> Default]
Locations == {"idle", "count", "refetch", "reinstall", "mark", "version",
              "compare", "fetch", "install", "lookup", "upsert", "publish",
              "delete", "insert"}
Handlers == {"none", "seed", "boot", "read", "post", "reset"}

\* Every variable holds what its C++ type can hold.
TypeOK ==
    /\ rows \in Rows
    /\ ver \in [Procs -> Nat]
    /\ cache \in [Procs -> Rows]
    /\ last \in [Procs -> Nat]
    /\ pc \in [Threads -> Locations]
    /\ op \in [Threads -> Handlers]
    /\ change \in [Threads -> Rows]
    /\ config \in [Threads -> Configs]
    /\ idx \in [Threads -> 1..Len(Order)]
    /\ cur \in [Threads -> Nat]
    /\ snap \in [Threads -> Rows]
    /\ since \in [Procs -> Nat \cup {-1}]
    /\ calls \in 0..MaxCalls

Key(t) == Order[idx[t]]
\* What get_string and its kin return for a key.
ValueOf(r, k) == IF r[k] = Absent THEN Default ELSE r[k]
Serving(p) == since[p] # -1

Init ==
    /\ rows \in {NoRows, Defaults}
    /\ ver = [p \in Procs |-> 0]
    /\ cache = [p \in Procs |-> NoRows]
    /\ last = [p \in Procs |-> 0]
    /\ pc = [t \in Threads |-> "idle"]
    /\ op = [t \in Threads |-> "none"]
    /\ change = [t \in Threads |-> NoRows]
    /\ config = [t \in Threads |-> Defaults]
    /\ idx = [t \in Threads |-> 1]
    /\ cur = [t \in Threads |-> 0]
    /\ snap = [t \in Threads |-> NoRows]
    /\ since = [p \in Procs |-> -1]
    /\ calls = 0

-----------------------------------------------------------------------------
(* What a step does to a thread.                                           *)

Goto(t, l) == pc' = [pc EXCEPT ![t] = l]

\* The handler of t returns.
Return(t) ==
    /\ Goto(t, "idle")
    /\ op' = [op EXCEPT ![t] = "none"]
    /\ change' = [change EXCEPT ![t] = NoRows]
    /\ config' = [config EXCEPT ![t] = Defaults]
    /\ idx' = [idx EXCEPT ![t] = 1]
    /\ snap' = [snap EXCEPT ![t] = NoRows]
    /\ cur' = [cur EXCEPT ![t] = 0]

\* check_and_reload returns.
Checked(t) ==
    /\ Goto(t, "lookup")
    /\ cur' = [cur EXCEPT ![t] = 0]
    /\ snap' = [snap EXCEPT ![t] = NoRows]

\* t begins to write config c, key by key.
WriteConfig(t, c) ==
    /\ Goto(t, "upsert")
    /\ config' = [config EXCEPT ![t] = c]
    /\ idx' = [idx EXCEPT ![t] = 1]
    /\ UNCHANGED change

\* The last step of start-up: the process serves requests from here on.
BeginServing(t) ==
    /\ since' = [since EXCEPT ![Owner[t]] = ver[Owner[t]]]
    /\ Return(t)

\* A commit of process p's connection changes data_version for the others.
Commit(p, r) ==
    /\ rows' = r
    /\ ver' = [q \in Procs |-> IF q = p THEN ver[q] ELSE ver[q] + 1]

-----------------------------------------------------------------------------
(* init                                                                    *)

Start(p) ==
    LET t == Main[p] IN
    /\ ~Serving(p) /\ pc[t] = "idle"
    /\ pc' = [pc EXCEPT ![t] = "count"]
    /\ op' = [op EXCEPT ![t] = "boot"]
    /\ UNCHANGED <<fileVars, cacheVars, change, config, idx, localVars, since,
                   calls>>

\* seed_defaults_if_empty
Count(t) ==
    /\ pc[t] = "count"
    /\ IF rows = NoRows
       THEN /\ op' = [op EXCEPT ![t] = "seed"]
            /\ WriteConfig(t, Defaults)
       ELSE Goto(t, "refetch") /\ UNCHANGED jobVars
    /\ UNCHANGED <<fileVars, cacheVars, localVars, since, calls>>

\* reload: all rows, then the cache with the data_version of that moment.
Refetch(t) ==
    /\ pc[t] = "refetch"
    /\ snap' = [snap EXCEPT ![t] = rows]
    /\ Goto(t, "reinstall")
    /\ UNCHANGED <<fileVars, cacheVars, jobVars, cur, since, calls>>

Reinstall(t) ==
    LET p == Owner[t] IN
    /\ pc[t] = "reinstall"
    /\ cache' = [cache EXCEPT ![p] = snap[t]]
    /\ last' = [last EXCEPT ![p] = ver[p]]
    /\ \/ /\ op[t] = "boot"
          /\ Goto(t, "mark")
          /\ snap' = [snap EXCEPT ![t] = NoRows]
          /\ UNCHANGED <<jobVars, cur>>
       \/ op[t] = "reset" /\ Return(t)
    /\ UNCHANGED <<fileVars, since, calls>>

\* init stores the data_version once more and reads the config.
Mark(t) ==
    LET p == Owner[t] IN
    /\ pc[t] = "mark"
    /\ last' = [last EXCEPT ![p] = ver[p]]
    /\ Goto(t, "version")
    /\ UNCHANGED <<fileVars, cache, jobVars, localVars, since, calls>>

-----------------------------------------------------------------------------
(* The handlers.                                                           *)

Call(t, h, l) ==
    /\ Serving(Owner[t]) /\ pc[t] = "idle"
    /\ Goto(t, l)
    /\ op' = [op EXCEPT ![t] = h]

Get(t) ==
    /\ Call(t, "read", "version")
    /\ UNCHANGED <<fileVars, cacheVars, change, config, idx, localVars, since,
                   calls>>

\* POST /api/settings with a value for some keys of a config.
Post(t, body) ==
    /\ t \in Posters /\ calls < MaxCalls
    /\ Call(t, "post", "version")
    /\ change' = [change EXCEPT ![t] = body]
    /\ calls' = calls + 1
    /\ UNCHANGED <<fileVars, cacheVars, config, idx, localVars, since>>

Reset(t) ==
    /\ t \in Posters /\ calls < MaxCalls
    /\ Call(t, "reset", "delete")
    /\ calls' = calls + 1
    /\ UNCHANGED <<fileVars, cacheVars, change, config, idx, localVars, since>>

\* A process ends, wherever its threads are; the file stays.
Kill(p) ==
    LET mine(t) == Owner[t] = p IN
    /\ calls < MaxCalls
    /\ calls' = calls + 1
    /\ Serving(p) \/ pc[Main[p]] # "idle"
    /\ cache' = [cache EXCEPT ![p] = NoRows]
    /\ last' = [last EXCEPT ![p] = 0]
    /\ since' = [since EXCEPT ![p] = -1]
    /\ pc' = [t \in Threads |-> IF mine(t) THEN "idle" ELSE pc[t]]
    /\ op' = [t \in Threads |-> IF mine(t) THEN "none" ELSE op[t]]
    /\ change' = [t \in Threads |-> IF mine(t) THEN NoRows ELSE change[t]]
    /\ config' = [t \in Threads |-> IF mine(t) THEN Defaults ELSE config[t]]
    /\ idx' = [t \in Threads |-> IF mine(t) THEN 1 ELSE idx[t]]
    /\ cur' = [t \in Threads |-> IF mine(t) THEN 0 ELSE cur[t]]
    /\ snap' = [t \in Threads |-> IF mine(t) THEN NoRows ELSE snap[t]]
    /\ UNCHANGED fileVars

-----------------------------------------------------------------------------
(* A get: check_and_reload, then the lookup.                               *)

ReadVersion(t) ==
    /\ pc[t] = "version"
    /\ cur' = [cur EXCEPT ![t] = ver[Owner[t]]]
    /\ Goto(t, "compare")
    /\ UNCHANGED <<fileVars, cacheVars, jobVars, snap, since, calls>>

Compare_Less(t) ==
    /\ pc[t] = "compare"
    /\ IF cur[t] < last[Owner[t]]
       THEN Goto(t, "fetch") /\ UNCHANGED localVars
       ELSE Checked(t)
    /\ UNCHANGED <<fileVars, cacheVars, jobVars, since, calls>>

\* last_data_version_ is read without mutex_.
Compare(t) ==
    /\ pc[t] = "compare"
    /\ IF cur[t] # last[Owner[t]]
       THEN Goto(t, "fetch") /\ UNCHANGED localVars
       ELSE Checked(t)
    /\ UNCHANGED <<fileVars, cacheVars, jobVars, since, calls>>

Fetch(t) ==
    /\ pc[t] = "fetch"
    /\ snap' = [snap EXCEPT ![t] = rows]
    /\ Goto(t, "install")
    /\ UNCHANGED <<fileVars, cacheVars, jobVars, cur, since, calls>>

Install_LateVersion(t) ==
    LET p == Owner[t] IN
    /\ pc[t] = "install"
    /\ cache' = [cache EXCEPT ![p] = snap[t]]
    /\ last' = [last EXCEPT ![p] = ver[p]]
    /\ Checked(t)
    /\ UNCHANGED <<fileVars, jobVars, since, calls>>

\* The version that is stored is the one read before the rows.
Install(t) ==
    LET p == Owner[t] IN
    /\ pc[t] = "install"
    /\ cache' = [cache EXCEPT ![p] = snap[t]]
    /\ last' = [last EXCEPT ![p] = cur[t]]
    /\ Checked(t)
    /\ UNCHANGED <<fileVars, jobVars, since, calls>>

\* The value of one key.  A read is one get, a post and the start-up read a whole
\* config and go on with it after the last key.
Lookup(t) ==
    LET p == Owner[t]
        read == [config[t] EXCEPT ![Key(t)] = ValueOf(cache[p], Key(t))]
        changed == [k \in Keys |-> IF change[t][k] = Absent
                                   THEN read[k] ELSE change[t][k]]
    IN
    /\ pc[t] = "lookup"
    /\ UNCHANGED <<fileVars, cacheVars, calls>>
    /\ \/ op[t] = "read" /\ Return(t) /\ UNCHANGED since
       \/ /\ op[t] # "read" /\ idx[t] < Len(Order)
          /\ idx' = [idx EXCEPT ![t] = @ + 1]
          /\ config' = [config EXCEPT ![t] = read]
          /\ Goto(t, "version")
          /\ UNCHANGED <<op, change, localVars, since>>
       \/ /\ idx[t] = Len(Order)
          /\ \/ /\ op[t] = "post"
                /\ WriteConfig(t, changed)
                /\ UNCHANGED <<op, localVars, since>>
             \/ /\ op[t] = "boot"
                /\ IF p = Engine /\ read[Secret] = Default
                   THEN /\ WriteConfig(t, [read EXCEPT ![Secret] = Generated])
                        /\ UNCHANGED <<op, localVars, since>>
                   ELSE BeginServing(t)

-----------------------------------------------------------------------------
(* An update, and the reset.                                               *)

\* The next key, or what follows set_*_config.
NextKey(t) ==
    IF idx[t] < Len(Order)
    THEN /\ idx' = [idx EXCEPT ![t] = @ + 1]
         /\ Goto(t, "upsert")
         /\ UNCHANGED <<op, change, config, localVars, since>>
    ELSE \/ op[t] = "post" /\ Return(t) /\ UNCHANGED since
         \/ op[t] = "boot" /\ BeginServing(t)
         \/ /\ op[t] = "seed"
            /\ op' = [op EXCEPT ![t] = "boot"]
            /\ idx' = [idx EXCEPT ![t] = 1]
            /\ Goto(t, "refetch")
            /\ UNCHANGED <<change, config, localVars, since>>

Upsert(t) ==
    /\ pc[t] = "upsert"
    /\ Commit(Owner[t], [rows EXCEPT ![Key(t)] = config[t][Key(t)]])
    /\ Goto(t, "publish")
    /\ UNCHANGED <<cacheVars, jobVars, localVars, since, calls>>

\* The file stays locked for longer than the busy timeout.
UpsertFails(t) ==
    /\ pc[t] = "upsert" /\ calls < MaxCalls
    /\ calls' = calls + 1
    /\ NextKey(t)
    /\ UNCHANGED <<fileVars, cacheVars>>

Publish(t) ==
    LET p == Owner[t] IN
    /\ pc[t] = "publish"
    /\ cache' = [cache EXCEPT ![p][Key(t)] = config[t][Key(t)]]
    /\ last' = [last EXCEPT ![p] = ver[p]]
    /\ NextKey(t)
    /\ UNCHANGED <<fileVars, calls>>

\* The reset runs its two statements on a connection of its own, each in a
\* transaction of its own.
OtherConnection(r) ==
    /\ rows' = r
    /\ ver' = [p \in Procs |-> ver[p] + 1]

Delete(t) ==
    /\ pc[t] = "delete"
    /\ OtherConnection(NoRows)
    /\ Goto(t, "insert")
    /\ UNCHANGED <<cacheVars, jobVars, localVars, since, calls>>

\* A row that was written meanwhile fails the INSERT; then nothing is reloaded.
Insert(t) ==
    /\ pc[t] = "insert"
    /\ \/ /\ rows = NoRows
          /\ OtherConnection(Defaults)
          /\ Goto(t, "refetch")
          /\ UNCHANGED <<jobVars, localVars>>
       \/ rows # NoRows /\ Return(t) /\ UNCHANGED fileVars
    /\ UNCHANGED <<cacheVars, since, calls>>

-----------------------------------------------------------------------------
Step(t) ==
    \/ Count(t) \/ Refetch(t) \/ Reinstall(t) \/ Mark(t)
    \/ ReadVersion(t) \/ Compare(t) \/ Fetch(t) \/ Install(t) \/ Lookup(t)
    \/ Upsert(t) \/ UpsertFails(t) \/ Publish(t)
    \/ Delete(t) \/ Insert(t)

Next ==
    \/ \E p \in Procs : Start(p) \/ Kill(p)
    \/ \E t \in Threads :
          \/ Step(t) \/ Get(t) \/ Reset(t)
          \/ \E body \in Bodies : Post(t, body)

Spec == Init /\ [][Next]_vars

\* The threads of both processes are scheduled; nobody has to call them.
FairSpec == Spec /\ \A t \in Threads : WF_vars(Step(t))

-----------------------------------------------------------------------------
(* Properties.                                                             *)

Reader(p) == \A t \in Posters : Owner[t] # p

\* Which handler h may be at step l, on which thread and in which phase.
ControlAt(t, l, h) ==
    /\ h \in {"seed", "boot"} => ~Serving(Owner[t]) /\ t = Main[Owner[t]]
    /\ h \in {"read", "post", "reset"} => Serving(Owner[t])
    /\ h \in {"post", "reset"} => t \in Posters
    /\ h = "none" <=> l = "idle"
    /\ l \in {"upsert", "publish"} => h \in {"seed", "boot", "post"}
    /\ l \in {"refetch", "reinstall"} => h \in {"boot", "reset"}
    /\ l \in {"count", "mark"} => h = "boot"
    /\ l \in {"delete", "insert"} => h = "reset"

Control == \A t \in Threads : ControlAt(t, pc[t], op[t])

\* Versions never run ahead of the file, and rows that were fetched are those of
\* the file as long as the version read before them is current.
Fetched ==
    /\ \A p \in Procs : last[p] <= ver[p] /\ since[p] <= ver[p]
    /\ \A t \in Threads :
        /\ cur[t] <= ver[Owner[t]]
        /\ pc[t] = "install" /\ Reader(Owner[t]) /\ Serving(Owner[t])
           /\ cur[t] = ver[Owner[t]] => snap[t] = rows

\* Once another process has committed a change after p began to serve, a
\* process that only reads is never wrong without knowing it: when
\* last_data_version_ is the current data_version, the cache holds exactly the
\* rows of the file, however the readers of check_and_reload overlap
\* (settings_manager.cpp 24-43).
ReaderKnows ==
    \A p \in Procs :
        /\ Serving(p) /\ Reader(p)
        /\ last[p] = ver[p] /\ ver[p] > since[p]
        => cache[p] = rows

\* If its readers keep calling get, the engine ends with the settings the tray
\* wrote: the last change is not lost for good in a race of two reloads.
EngineCatchesUp ==
    (/\ <>[]Serving(Engine)
     /\ \A t \in Threads : Owner[t] = Engine => []<><<Lookup(t)>>_vars)
    => <>[](ver[Engine] > since[Engine] => cache[Engine] = rows)

\* While no handler of a process runs and its last_data_version_ is current, a
\* get returns what the file holds: what was set last is what is read
\* (settings_manager.cpp 93-105).
SetIsRead ==
    \A p \in Procs :
        /\ Serving(p) /\ last[p] = ver[p]
        /\ \A t \in Threads : Owner[t] = p => pc[t] = "idle"
        => \A k \in Keys : ValueOf(cache[p], k) = ValueOf(rows, k)
=============================================================================
