---------------------------- MODULE SessionCache ----------------------------
(***************************************************************************)
(* SessionKVCacheManager and its callers: request threads that run         *)
(* ModelEngine::infer_local for a session, share the map of at most        *)
(* MaxActive in-memory states and spill the rest to one file per session.  *)
(*                                                                         *)
(* Two kinds of lock are at work: mutex_ over the map, and the state_mutex *)
(* of every SessionKVState.  generate holds a state's mutex for the whole  *)
(* turn; eviction and saving take it while they hold mutex_.  A step is    *)
(* what a thread does between two waits.  What a turn does to the tokens   *)
(* and cells of a state is the subject of SessionTurns; here a state is    *)
(* the number of turns its cells contain, the model that its header names  *)
(* and the model that its cells are sized for.                             *)
(***************************************************************************)
EXTENDS Integers, FiniteSets, FiniteSetsExt, Sequences, SequencesExt

CONSTANTS
    Workers, NoWorker,
    Sessions,       \* session ids, numbered in the order of std::map
    NoSession,      \* the empty session id
    Names, NoName,  \* the model names requests ask for
    Asks,           \* the pairs of session id and model name that requests have
    Accepts,        \* the headers <<by, cells>> of files that each model restores
    Objs, NoObj,    \* SessionKVState objects
    MaxActive,      \* max_active_sessions_
    MaxTurns,       \* bound: turns a state can contain
    Maintenance     \* which of evict(id), evict(id, false), clear_all are called

ASSUME WorkersAssumption ==
    /\ IsFiniteSet(Workers)
    /\ NoWorker \notin Workers
    /\ NoName \notin Names
ASSUME AsksAssumption == Asks \subseteq (Sessions \cup {NoSession}) \X Names
ASSUME AcceptsAssumption == Accepts \in [Names -> SUBSET (Names \X Names)]
ASSUME SessionsAssumption ==
    /\ IsFiniteSet(Sessions)
    /\ Sessions \subseteq Nat
    /\ NoSession \notin Sessions
ASSUME ObjsAssumption ==
    /\ IsFiniteSet(Objs)
    /\ NoObj \notin Objs
    /\ Cardinality(Objs) >= MaxActive + Cardinality(Workers)
\* With max_active_sessions_ = 0 the eviction loop of get_or_create never ends.
ASSUME LimitAssumption == MaxActive \in Nat \ {0} /\ MaxTurns \in Nat
ASSUME MaintenanceAssumption == Maintenance \subseteq {"flush", "drop", "clear"}

VARIABLES
    sessions,   \* sessions_: the object of each session id in the map
    order,      \* the ids in the map by last_accessed_ms, oldest first
    mgr,        \* the worker that holds mutex_
    kv,         \* the contents of each object: see KV
    lock,       \* the worker that holds an object's state_mutex
    disk,       \* what the session's .kv file restores to
    busy,       \* g_concurrent_sessions: the trackers alive per model name
    pc,
    req,        \* the session id and model name of a worker's request
    ref,        \* session_kv: the object the worker's shared_ptr keeps alive
    victim      \* the session a worker evicts

cacheVars == <<sessions, order, mgr>>
workerVars == <<pc, req, ref, victim>>
vars == <<cacheVars, kv, lock, disk, busy, workerVars>>

\* A SessionKVState: is_initialized; the model of its model_hash and identity;
\* the model that k_cache, num_kv_heads and head_dim are sized for; the turns its
\* cells contain.  left is history: turns that the file has were given up, the
\* file having been discarded or cells overwritten since it was last written.
KV == [init : BOOLEAN, by : Names \cup {NoName}, cells : Names \cup {NoName},
       turns : 0..MaxTurns, left : BOOLEAN]
Blank == [init |-> FALSE, by |-> NoName, cells |-> NoName,
          turns |-> 0, left |-> FALSE]
Requests == [s : Sessions \cup {NoSession}, n : Names \cup {NoName}]
NoRequest == [s |-> NoSession, n |-> NoName]
Steps == {"idle", "rejected", "get", "evict", "spill", "ready", "generate",
          "save", "write", "flush"}

Active == {s \in Sessions : sessions[s] # NoObj}
Holders(o) == {w \in Workers : ref[w] = o}

\* Every field holds what its C++ type can hold; the recency order lists the ids
\* of the map once each.
TypeOK ==
    /\ sessions \in [Sessions -> Objs \cup {NoObj}]
    /\ Range(order) = Active /\ IsInjective(order)
    /\ mgr \in Workers \cup {NoWorker}
    /\ kv \in [Objs -> KV]
    /\ lock \in [Objs -> Workers \cup {NoWorker}]
    /\ disk \in [Sessions -> KV]
    /\ busy \in [Names -> Nat]
    /\ pc \in [Workers -> Steps]
    /\ req \in [Workers -> Requests]
    /\ ref \in [Workers -> Objs \cup {NoObj}]
    /\ victim \in [Workers -> Sessions \cup {NoSession}]

Init ==
    /\ sessions = [s \in Sessions |-> NoObj]
    /\ order = << >>
    /\ mgr = NoWorker
    /\ kv = [o \in Objs |-> Blank]
    /\ lock = [o \in Objs |-> NoWorker]
    /\ disk = [s \in Sessions |-> Blank]
    /\ busy = [n \in Names |-> 0]
    /\ pc = [w \in Workers |-> "idle"]
    /\ req = [w \in Workers |-> NoRequest]
    /\ ref = [w \in Workers |-> NoObj]
    /\ victim = [w \in Workers |-> NoSession]

-----------------------------------------------------------------------------
(* Objects live as long as the map or a worker refers to them.              *)

\* Mutant: the request keeps a raw pointer, only the map keeps a state alive.
Live_MapOnly(map, refs) == Range(map)

Live(map, refs) == Range(map) \cup Range(refs)

\* The contents of the objects that nothing refers to are destroyed.
Keep(state, live) == [o \in Objs |-> IF o \in live THEN state[o] ELSE Blank]

Fresh == CHOOSE o \in Objs : o \notin Live(sessions, ref)

Touch(s) == order' = Append(RemoveFirst(order, s), s)

\* sessions_.erase(s); the object goes too unless a worker still uses it.
Erase(s) ==
    /\ sessions' = [sessions EXCEPT ![s] = NoObj]
    /\ order' = RemoveFirst(order, s)
    /\ kv' = Keep(kv, Live(sessions', ref))

Goto(w, step) == pc' = [pc EXCEPT ![w] = step]

\* infer_local returns: the tracker and the shared_ptr go out of scope.
Return(w) ==
    /\ Goto(w, "idle")
    /\ busy' = [busy EXCEPT ![req[w].n] = @ - 1]
    /\ req' = [req EXCEPT ![w] = NoRequest]
    /\ ref' = [ref EXCEPT ![w] = NoObj]
    /\ UNCHANGED victim

-----------------------------------------------------------------------------
(* ConcurrencyTracker and the early returns of infer_local.                 *)

\* Mutant: the limit is off by one.
Request_TwoAtOnce(w, s, n) ==
    /\ pc[w] = "idle"
    /\ busy' = [busy EXCEPT ![n] = @ + 1]
    /\ req' = [req EXCEPT ![w] = [s |-> s, n |-> n]]
    /\ Goto(w, IF busy[n] > 1 THEN "rejected" ELSE "get")
    /\ UNCHANGED <<cacheVars, kv, lock, disk, ref, victim>>

\* The tracker's constructor counts the request and tells how many were there.
Request(w, s, n) ==
    /\ pc[w] = "idle"
    /\ busy' = [busy EXCEPT ![n] = @ + 1]
    /\ req' = [req EXCEPT ![w] = [s |-> s, n |-> n]]
    /\ Goto(w, IF busy[n] >= 1 THEN "rejected" ELSE "get")
    /\ UNCHANGED <<cacheVars, kv, lock, disk, ref, victim>>

\* 429, the model is busy.
Reject(w) ==
    /\ pc[w] = "rejected"
    /\ Return(w)
    /\ UNCHANGED <<cacheVars, kv, lock, disk>>

\* 500, the model is neither loaded nor on disk.
NotFound(w) ==
    /\ pc[w] = "get"
    /\ Return(w)
    /\ UNCHANGED <<cacheVars, kv, lock, disk>>

\* 503, the RAM policy leaves room for less than two tokens; the session that
\* get_or_create has just put in the map stays there.
Refuse(w) ==
    /\ pc[w] = "ready"
    /\ Return(w)
    /\ kv' = Keep(kv, Live(sessions, ref'))
    /\ UNCHANGED <<cacheVars, lock, disk>>

-----------------------------------------------------------------------------
(* get_or_create.                                                           *)

\* Without a session id the state is private to the request.
GetPrivate(w) ==
    /\ pc[w] = "get"
    /\ req[w].s = NoSession
    /\ ref' = [ref EXCEPT ![w] = Fresh]
    /\ kv' = [kv EXCEPT ![Fresh] = Blank]
    /\ Goto(w, "ready")
    /\ UNCHANGED <<cacheVars, lock, disk, busy, req, victim>>

GetHit(w) ==
    /\ pc[w] = "get"
    /\ mgr = NoWorker
    /\ req[w].s \in Active
    /\ Touch(req[w].s)
    /\ ref' = [ref EXCEPT ![w] = sessions[req[w].s]]
    /\ Goto(w, "ready")
    /\ UNCHANGED <<sessions, mgr, kv, lock, disk, busy, req, victim>>

GetMiss(w) ==
    /\ pc[w] = "get"
    /\ mgr = NoWorker
    /\ req[w].s \in Sessions \ Active
    /\ mgr' = w
    /\ Goto(w, "evict")
    /\ UNCHANGED <<sessions, order, kv, lock, disk, busy, req, ref, victim>>

\* evict_oldest_session_locked: the loop takes the first session of the map
\* whatever its use, and after it only sessions nobody refers to, if older.
Candidates ==
    {s \in Active : s = Min(Active) \/ Holders(sessions[s]) = {}}

Oldest(S) ==
    CHOOSE s \in S : \A r \in S \ {s} :
        Min({i \in DOMAIN order : order[i] = s})
            < Min({i \in DOMAIN order : order[i] = r})

\* is_initialized is read before the state's mutex is taken: a state that no
\* turn has begun on is dropped without a file.
EvictPick(w) ==
    /\ pc[w] = "evict"
    /\ Cardinality(Active) >= MaxActive
    /\ LET v == Oldest(Candidates)
       IN  IF kv[sessions[v]].init
           THEN /\ Goto(w, "spill")
                /\ victim' = [victim EXCEPT ![w] = v]
                /\ UNCHANGED <<cacheVars, kv>>
           ELSE /\ Erase(v)
                /\ UNCHANGED <<pc, mgr, victim>>
    /\ UNCHANGED <<lock, disk, busy, req, ref>>

\* save_to_disk_internal writes the object that the map has for the session.
Write(s) == disk' = [disk EXCEPT ![s] = [kv[sessions[s]] EXCEPT !.left = FALSE]]

\* It waits for the state's mutex with mutex_ held.
Spill(w) ==
    /\ pc[w] = "spill"
    /\ lock[sessions[victim[w]]] = NoWorker
    /\ Write(victim[w])
    /\ Erase(victim[w])
    /\ Goto(w, "evict")
    /\ victim' = [victim EXCEPT ![w] = NoSession]
    /\ UNCHANGED <<mgr, lock, busy, req, ref>>

\* What a new state starts with: the session's file, if its header names the
\* request's model and its cells have the model's shape; else nothing.
Restored(s, n) ==
    IF disk[s].init /\ <<disk[s].by, disk[s].cells>> \in Accepts[n]
    THEN [disk[s] EXCEPT !.by = n, !.cells = n]
    ELSE [Blank EXCEPT !.by = n, !.cells = n, !.left = disk[s].turns > 0]

Create(w) ==
    /\ pc[w] = "evict"
    /\ Cardinality(Active) < MaxActive
    /\ LET s == req[w].s
       IN  /\ sessions' = [sessions EXCEPT ![s] = Fresh]
           /\ kv' = [kv EXCEPT ![Fresh] = Restored(s, req[w].n)]
           /\ order' = Append(order, s)
    /\ ref' = [ref EXCEPT ![w] = Fresh]
    /\ mgr' = NoWorker
    /\ Goto(w, "ready")
    /\ UNCHANGED <<lock, disk, busy, req, victim>>

-----------------------------------------------------------------------------
(* generate, then save_to_disk.                                             *)

\* The turn continues the first i of the turns contained: all of them, the ones
\* up to where the prompt differs, or none if the prompt is as long as ctx_len.
Resume(o, i) ==
    /\ kv[o].init
    /\ kv' = [kv EXCEPT ![o] = [kv[o] EXCEPT
           !.turns = i, !.left = kv[o].left \/ i < kv[o].turns]]

\* init_inference_state: the state is new, or has fewer cells than ctx_len.  The
\* header keeps the model it names, whatever model runs the turn.
Restart(o, n) ==
    kv' = [kv EXCEPT ![o] = [kv[o] EXCEPT
        !.init = TRUE, !.cells = n,
        !.turns = 0, !.left = kv[o].left \/ kv[o].turns > 0]]

Begin(w) ==
    /\ pc[w] = "ready"
    /\ lock[ref[w]] = NoWorker
    /\ lock' = [lock EXCEPT ![ref[w]] = w]
    /\ \/ \E i \in 0..kv[ref[w]].turns : Resume(ref[w], i)
       \/ Restart(ref[w], req[w].n)
    /\ Goto(w, "generate")
    /\ UNCHANGED <<cacheVars, disk, busy, req, ref, victim>>

\* A turn without a session id ends the request; the others are saved.
AfterTurn(w) ==
    IF req[w].s = NoSession
    THEN Return(w)
    ELSE Goto(w, "save") /\ UNCHANGED <<busy, req, ref, victim>>

End(w) ==
    /\ pc[w] = "generate"
    /\ kv[ref[w]].turns < MaxTurns
    /\ lock' = [lock EXCEPT ![ref[w]] = NoWorker]
    /\ AfterTurn(w)
    /\ kv' = Keep([kv EXCEPT ![ref[w]].turns = @ + 1], Live(sessions, ref'))
    /\ UNCHANGED <<cacheVars, disk>>

\* Mutant: the error path leaves the state locked.
EndAborted_Locked(w) ==
    /\ pc[w] = "generate"
    /\ AfterTurn(w)
    /\ kv' = Keep(kv, Live(sessions, ref'))
    /\ UNCHANGED <<cacheVars, disk, lock>>

\* forward_pass fails: generate returns early, and infer_local goes on as usual.
EndAborted(w) ==
    /\ pc[w] = "generate"
    /\ lock' = [lock EXCEPT ![ref[w]] = NoWorker]
    /\ AfterTurn(w)
    /\ kv' = Keep(kv, Live(sessions, ref'))
    /\ UNCHANGED <<cacheVars, disk>>

\* save_to_disk finds no such session, or one without an initialized state.
SaveNothing(w) ==
    /\ pc[w] = "save"
    /\ mgr = NoWorker
    /\ req[w].s \in Active => ~kv[sessions[req[w].s]].init
    /\ Return(w)
    /\ kv' = Keep(kv, Live(sessions, ref'))
    /\ UNCHANGED <<cacheVars, lock, disk>>

SaveFound(w) ==
    /\ pc[w] = "save"
    /\ mgr = NoWorker
    /\ req[w].s \in Active
    /\ kv[sessions[req[w].s]].init
    /\ mgr' = w
    /\ Goto(w, "write")
    /\ UNCHANGED <<sessions, order, kv, lock, disk, busy, req, ref, victim>>

\* Mutant: the request writes its own state, in the map or not.
SaveWrite_Own(w) ==
    /\ pc[w] = "write"
    /\ lock[ref[w]] = NoWorker
    /\ disk' = [disk EXCEPT ![req[w].s] = [kv[ref[w]] EXCEPT !.left = FALSE]]
    /\ mgr' = NoWorker
    /\ Return(w)
    /\ kv' = Keep(kv, Live(sessions, ref'))
    /\ UNCHANGED <<sessions, order, lock>>

SaveWrite(w) ==
    /\ pc[w] = "write"
    /\ lock[sessions[req[w].s]] = NoWorker
    /\ Write(req[w].s)
    /\ mgr' = NoWorker
    /\ Return(w)
    /\ kv' = Keep([kv EXCEPT ![sessions[req[w].s]].left = FALSE],
                  Live(sessions, ref'))
    /\ UNCHANGED <<sessions, order, lock>>

-----------------------------------------------------------------------------
(* evict and clear_all, called from outside a request.                      *)

EvictFlush(w, s) ==
    /\ "flush" \in Maintenance
    /\ pc[w] = "idle"
    /\ mgr = NoWorker
    /\ s \in Active
    /\ kv[sessions[s]].init
    /\ mgr' = w
    /\ victim' = [victim EXCEPT ![w] = s]
    /\ Goto(w, "flush")
    /\ UNCHANGED <<sessions, order, kv, lock, disk, busy, req, ref>>

\* Mutant: evict returns with mutex_ held.
FlushWrite_Again(w) ==
    /\ pc[w] = "flush"
    /\ lock[sessions[victim[w]]] = NoWorker
    /\ Write(victim[w])
    /\ UNCHANGED <<cacheVars, kv, lock, busy, workerVars>>

FlushWrite(w) ==
    /\ pc[w] = "flush"
    /\ lock[sessions[victim[w]]] = NoWorker
    /\ Write(victim[w])
    /\ Erase(victim[w])
    /\ mgr' = NoWorker
    /\ victim' = [victim EXCEPT ![w] = NoSession]
    /\ Goto(w, "idle")
    /\ UNCHANGED <<lock, busy, req, ref>>

\* Not persisted on request, or because the state is not initialized.
EvictDrop(w, s) ==
    /\ pc[w] = "idle"
    /\ mgr = NoWorker
    /\ s \in Active
    /\ \/ "drop" \in Maintenance
       \/ "flush" \in Maintenance /\ ~kv[sessions[s]].init
    /\ Erase(s)
    /\ UNCHANGED <<mgr, lock, disk, busy, workerVars>>

ClearAll(w) ==
    /\ "clear" \in Maintenance
    /\ pc[w] = "idle"
    /\ mgr = NoWorker
    /\ Active # {}
    /\ sessions' = [s \in Sessions |-> NoObj]
    /\ order' = << >>
    /\ kv' = Keep(kv, Range(ref))
    /\ UNCHANGED <<mgr, lock, disk, busy, workerVars>>

-----------------------------------------------------------------------------
\* What a thread does once its request, or its call of evict, has begun.
Continue(w) ==
    \/ Reject(w)
    \/ NotFound(w)
    \/ Refuse(w)
    \/ GetPrivate(w)
    \/ GetHit(w)
    \/ GetMiss(w)
    \/ EvictPick(w)
    \/ Spill(w)
    \/ Create(w)
    \/ Begin(w)
    \/ End(w)
    \/ EndAborted(w)
    \/ SaveNothing(w)
    \/ SaveFound(w)
    \/ SaveWrite(w)
    \/ FlushWrite(w)

Call(w) ==
    \/ \E a \in Asks : Request(w, a[1], a[2])
    \/ \E s \in Sessions : EvictFlush(w, s) \/ EvictDrop(w, s)
    \/ ClearAll(w)

Next == \E w \in Workers : Continue(w) \/ Call(w)

Spec == Init /\ [][Next]_vars

\* A thread that can take its next step takes it; nobody is obliged to call.
FairSpec == Spec /\ \A w \in Workers : WF_vars(Continue(w))

-----------------------------------------------------------------------------
\* At most max_active_sessions_ states stay in memory ("maximum active in-RAM KV
\* sessions before LRU disk spill", SessionKVCache.hpp:43), although eviction waits
\* for turns in the middle of its loop.
ActiveBounded == Cardinality(Active) <= MaxActive

InFlight(n) == {w \in Workers : req[w].n = n}

\* Trackers come and go with their requests, and of the requests for one model
\* name at most one gets past its tracker (ModelEngine.cpp:148-177).
OneInferencePerName ==
    \A n \in Names :
        /\ busy[n] = Cardinality(InFlight(n))
        /\ \A w, x \in InFlight(n) :
               pc[w] # "rejected" /\ pc[x] # "rejected" => w = x

\* A state is never seen from two sessions: not while it is in the map, and not
\* after eviction has taken it out of the map under a running request.
StatesArePrivate ==
    /\ \A w, x \in Workers :
           ref[w] = ref[x] /\ ref[w] # NoObj /\ w # x
               => req[w].s = req[x].s /\ req[w].s # NoSession
    /\ \A w \in Workers, s \in Active : ref[w] = sessions[s] => req[w].s = s
    /\ \A r, s \in Active : sessions[r] = sessions[s] => r = s

\* Waiting is only ever for a state_mutex with mutex_ held, never the other way
\* round: a thread in generate holds its state and nothing else.
LockOrder ==
    /\ \A o \in Objs, w \in Workers :
           lock[o] = w <=> pc[w] = "generate" /\ ref[w] = o
    /\ \A w \in Workers :
           mgr = w <=> pc[w] \in {"evict", "spill", "write", "flush"}

\* A session's file loses turns only to the state the map has for the session, and
\* only if that state gave them up: it discarded the file of another model
\* (SessionKVCache.cpp:184-205), or a turn began on fewer (infer.cpp:395-426).  A
\* state that eviction has taken out of the map under a running request never
\* overwrites what its successor has saved.
CheckpointKeepsTurns ==
    [][\A s \in Sessions :
          disk'[s].turns < disk[s].turns
              => s \in Active /\ kv[sessions[s]].left]_vars

\* Whoever takes mutex_ gives it back, even if it must wait for the turn of a
\* session that is being generated (SessionKVCache.cpp:46 under 124, 237, 250).
CacheUnlocks == \A w \in Workers : mgr = w ~> mgr # w

\* "Sessions are checkpointed to denselite_kv_cache/*.kv [...] allowing
\* conversations to resume across server reboots" (CLIENT_INTEGRATION_GUIDE.md):
\* when a request has returned, its turn is in the session's file.
TurnCheckpointed ==
    [][\A w \in Workers :
          pc[w] \in {"save", "write"} /\ pc'[w] = "idle"
              => disk'[req[w].s].turns >= kv[ref[w]].turns]_vars
=============================================================================
