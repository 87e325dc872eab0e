---------------------------- MODULE EngineSession ----------------------------
(***************************************************************************)
(* DenseLiteEngine::process run by several HTTP workers at once: each      *)
(* takes a copy of its session out of active_sessions, works on the copy   *)
(* without a lock and writes it back or erases the session.  On its way it *)
(* registers the request's tools with the SessionToolRegistry or restores  *)
(* them from there; every call of the registry is one section of its       *)
(* mutex.  What the pipeline does in between is RequestPipeline; both are  *)
(* the engine, so no name here is one of that module's.                    *)
(***************************************************************************)
EXTENDS Integers, FiniteSets

CONSTANTS
    Workers,        \* HTTP worker threads
    SessionIds,     \* session ids, in the order of std::map: naturals
    Tools, NoName,  \* tool names; a tool of a request may have none
    Queries,        \* what a request asks: see QueryRecords
    MaxSessions,    \* max_sessions_
    MaxClock,       \* bound: milliseconds
    Overlap         \* the sessions whose clients do not wait for the last answer

\* max_sessions_ is 32 and no caller sets it to zero.
ASSUME SizesAssumption ==
    /\ SessionIds \subseteq Nat /\ SessionIds # {}
    /\ MaxSessions \in Nat \ {0} /\ MaxClock \in Nat
    /\ Overlap \subseteq SessionIds
    /\ NoName \notin Tools

QueryRecords == [tools : SUBSET (Tools \cup {NoName}),
                 wants : BOOLEAN,   \* requires_tools: a tool keyword is in the query
                 chat : BOOLEAN]    \* a short or plain query, with enable_tool_dedup
ASSUME QueriesAssumption == Queries \subseteq QueryRecords

VARIABLES
    active,     \* active_sessions
    catalogs,   \* session_catalogs_
    stamps,     \* access_timestamps_
    clock,
    shown,      \* history: the sessions whose clients have sent their tools
    at, req, copy

registryVars == <<catalogs, stamps>>
engineVars == <<active, registryVars, clock, shown, at, req, copy>>

Statuses == {"CREATED", "INFERRING", "WAITING_FOR_TOOL", "CONTINUING",
             "COMPLETED", "FAILED"}
\* results: the workers that have pushed to iteration_results.
SessionRecords == [status : Statuses, results : SUBSET Workers]
Requests == [id : SessionIds, query : QueryRecords]

\* Every map has keys and values of its C++ type.
EngineTypeOK ==
    /\ DOMAIN active \subseteq SessionIds /\ active \in [DOMAIN active -> SessionRecords]
    /\ DOMAIN catalogs \subseteq SessionIds /\ catalogs \in [DOMAIN catalogs -> SUBSET Tools]
    /\ DOMAIN stamps \subseteq SessionIds /\ stamps \in [DOMAIN stamps -> 0..MaxClock]
    /\ clock \in 0..MaxClock
    /\ shown \subseteq SessionIds
    /\ at \in [Workers -> {"idle", "register", "has_tools", "restore", "run", "finish"}]
    /\ req \in [Workers -> Requests]
    /\ copy \in [Workers -> SessionRecords]

FreshSession == [status |-> "CREATED", results |-> {}]
NoQuery == [tools |-> {}, wants |-> FALSE, chat |-> FALSE]
NoRequest == [id |-> CHOOSE s \in SessionIds : TRUE, query |-> NoQuery]

EngineInit ==
    /\ active = << >> /\ catalogs = << >> /\ stamps = << >>
    /\ clock = 0
    /\ shown = {}
    /\ at = [w \in Workers |-> "idle"]
    /\ req = [w \in Workers |-> NoRequest]
    /\ copy = [w \in Workers |-> FreshSession]

Goto(w, l) == at' = [at EXCEPT ![w] = l]
\* f[k] = v of a std::map, and its erase.
Put(f, k, v) == [x \in DOMAIN f \cup {k} |-> IF x = k THEN v ELSE f[x]]
Erase(f, k) == [x \in DOMAIN f \ {k} |-> f[x]]

Tick ==
    /\ clock < MaxClock
    /\ clock' = clock + 1
    /\ UNCHANGED <<active, registryVars, shown, at, req, copy>>

-----------------------------------------------------------------------------
(* SessionToolRegistry.                                                      *)

\* The session evict_oldest_locked takes out: the first of those with the oldest
\* timestamp, or the first catalog when no catalog has one.
Oldest ==
    LET D == IF DOMAIN stamps # {} THEN DOMAIN stamps ELSE DOMAIN catalogs
    IN CHOOSE s \in D :
         \A t \in D : IF DOMAIN stamps # {}
                      THEN stamps[s] < stamps[t] \/ (stamps[s] = stamps[t] /\ s <= t)
                      ELSE s <= t

\* Mutant: the limit is looked at after the catalog has been added.
register_tools_OneMore(s, tools) ==
    LET full == Cardinality(DOMAIN catalogs) > MaxSessions /\ s \notin DOMAIN catalogs
        cat == IF full THEN Erase(catalogs, Oldest) ELSE catalogs
        sta == IF full THEN Erase(stamps, Oldest) ELSE stamps
    IN /\ catalogs' = Put(cat, s, (IF s \in DOMAIN cat THEN cat[s] ELSE {})
                                   \cup (tools \ {NoName}))
       /\ stamps' = Put(sta, s, clock)

\* The catalog is made even if no tool of the request has a name.
register_tools(s, tools) ==
    LET full == Cardinality(DOMAIN catalogs) >= MaxSessions /\ s \notin DOMAIN catalogs
        cat == IF full THEN Erase(catalogs, Oldest) ELSE catalogs
        sta == IF full THEN Erase(stamps, Oldest) ELSE stamps
    IN /\ catalogs' = Put(cat, s, (IF s \in DOMAIN cat THEN cat[s] ELSE {})
                                   \cup (tools \ {NoName}))
       /\ stamps' = Put(sta, s, clock)

has_tools(s) == s \in DOMAIN catalogs /\ catalogs[s] # {}

\* Finding a catalog counts as using it.
touch(s) == stamps' = IF s \in DOMAIN catalogs THEN Put(stamps, s, clock) ELSE stamps

clear_session(s) ==
    /\ catalogs' = Erase(catalogs, s)
    /\ stamps' = Erase(stamps, s)

-----------------------------------------------------------------------------
(* process.                                                                  *)

InFlight(s) == {w \in Workers : at[w] # "idle" /\ req[w].id = s}

\* get_or_create_session: the session is marked and copied under engine_mutex.
TakeSession(w, s, q) ==
    /\ at[w] = "idle"
    /\ s \in Overlap \/ InFlight(s) = {}
    /\ LET c == IF s \in DOMAIN active
                THEN [active[s] EXCEPT !.status = "CONTINUING"] ELSE FreshSession
       IN /\ active' = Put(active, s, c)
          /\ copy' = [copy EXCEPT ![w] = [c EXCEPT !.status = "INFERRING"]]
    /\ req' = [req EXCEPT ![w] = [id |-> s, query |-> q]]
    /\ Goto(w, "register")
    /\ UNCHANGED <<registryVars, clock, shown>>

\* Tools a request brings are registered; then a chat loses them, and a query that
\* wants tools and brought none looks for the session's.
Register(w) ==
    /\ at[w] = "register"
    /\ LET s == req[w].id
           q == req[w].query
       IN /\ IF q.tools # {} THEN register_tools(s, q.tools) ELSE UNCHANGED registryVars
          /\ shown' = IF q.tools \ {NoName} # {} THEN shown \cup {s} ELSE shown
          /\ req' = [req EXCEPT ![w].query.tools = IF ~q.wants /\ q.chat THEN {} ELSE @]
          /\ Goto(w, IF q.wants /\ q.tools = {} THEN "has_tools" ELSE "run")
    /\ UNCHANGED <<active, clock, copy>>

HasTools(w) ==
    /\ at[w] = "has_tools"
    /\ IF has_tools(req[w].id)
       THEN touch(req[w].id) /\ Goto(w, "restore")
       ELSE UNCHANGED stamps /\ Goto(w, "run")
    /\ UNCHANGED <<active, catalogs, clock, shown, req, copy>>

\* get_all_tools is a section of its own: the catalog may be gone by now.
Restore(w) ==
    /\ at[w] = "restore"
    /\ LET s == req[w].id
       IN /\ req' = [req EXCEPT ![w].query.tools =
                                    IF s \in DOMAIN catalogs THEN catalogs[s] ELSE {}]
          /\ touch(s)
    /\ Goto(w, "run")
    /\ UNCHANGED <<active, catalogs, clock, shown, copy>>

\* The internal turns, on the copy: a request fails with or without a result, is
\* completed without one by a search or a direct answer, and ends otherwise with
\* one.  What was asked is not looked at again.
Run(w) ==
    /\ at[w] = "run"
    /\ \E st \in Statuses \ {"CREATED"}, more \in BOOLEAN :
          /\ more \/ st \in {"FAILED", "COMPLETED"}
          /\ copy' = [copy EXCEPT ![w].status = st,
                                  ![w].results = IF more THEN @ \cup {w} ELSE @]
    /\ req' = [req EXCEPT ![w].query = NoQuery]
    /\ Goto(w, "finish")
    /\ UNCHANGED <<active, registryVars, clock, shown>>

\* Mutant: a failed session's tools stay registered.
Finish_ForgetsTools(w) ==
    /\ at[w] = "finish"
    /\ LET s == req[w].id
       IN IF copy[w].status \in {"COMPLETED", "FAILED"}
          THEN /\ active' = Erase(active, s)
               /\ IF copy[w].status = "COMPLETED" THEN clear_session(s)
                  ELSE UNCHANGED registryVars
          ELSE /\ active' = Put(active, s, copy[w])
               /\ UNCHANGED registryVars
    /\ Goto(w, "idle")
    /\ req' = [req EXCEPT ![w] = NoRequest]
    /\ copy' = [copy EXCEPT ![w] = FreshSession]
    /\ UNCHANGED <<clock, shown>>

\* Mutant: a session that goes on is written back without its results.
Finish_StatusOnly(w) ==
    /\ at[w] = "finish"
    /\ LET s == req[w].id
       IN IF copy[w].status \in {"COMPLETED", "FAILED"}
          THEN /\ active' = Erase(active, s)
               /\ clear_session(s)
          ELSE /\ active' = Put(active, s, [copy[w] EXCEPT !.results = {w}])
               /\ UNCHANGED registryVars
    /\ Goto(w, "idle")
    /\ req' = [req EXCEPT ![w] = NoRequest]
    /\ copy' = [copy EXCEPT ![w] = FreshSession]
    /\ UNCHANGED <<clock, shown>>

\* Under engine_mutex: a session that is over is erased with its tools, any other
\* is overwritten by the copy.
Finish(w) ==
    /\ at[w] = "finish"
    /\ LET s == req[w].id
       IN IF copy[w].status \in {"COMPLETED", "FAILED"}
          THEN /\ active' = Erase(active, s)
               /\ clear_session(s)
          ELSE /\ active' = Put(active, s, copy[w])
               /\ UNCHANGED registryVars
    /\ Goto(w, "idle")
    /\ req' = [req EXCEPT ![w] = NoRequest]
    /\ copy' = [copy EXCEPT ![w] = FreshSession]
    /\ UNCHANGED <<clock, shown>>

EngineNext ==
    \/ Tick
    \/ \E w \in Workers :
          \/ \E s \in SessionIds, q \in Queries : TakeSession(w, s, q)
          \/ Register(w) \/ HasTools(w) \/ Restore(w) \/ Run(w) \/ Finish(w)

EngineSpec == EngineInit /\ [][EngineNext]_engineVars

-----------------------------------------------------------------------------
(* Properties.                                                               *)

\* The registry never holds more catalogs than it may, and each has the timestamp
\* by which evict_oldest_locked finds it (SessionToolRegistry.cpp:44-49): without
\* it the eviction loop would run for ever.
RegistryConsistent ==
    /\ Cardinality(DOMAIN catalogs) <= MaxSessions
    /\ DOMAIN stamps = DOMAIN catalogs

\* Tools are kept for sessions that go on: a catalog belongs to a session that is
\* stored or that a worker is serving, in every interleaving of requests of one
\* session (DenseLiteEngine.cpp:105-111).
CatalogHasSession ==
    \A s \in DOMAIN catalogs : s \in DOMAIN active \/ InFlight(s) # {}

KeepsResults(S) ==
    \A s \in S \cap DOMAIN active \cap DOMAIN active' :
        active[s].results \subseteq active'[s].results

\* Results that are stored stay there as long as the session does, if its client
\* waits for each answer; what the clients of other sessions do is no matter
\* (DenseLiteEngine.cpp:97, 110).
ResultsAreKept == [][KeepsResults(SessionIds \ Overlap)]_engineVars

\* README.md:288: the session maintains state across HTTP boundaries.
StateIsMaintained == [][KeepsResults(SessionIds)]_engineVars

\* CHANGELOG.md:43: tools are cached per chat session on the initial handshake, so
\* that a later turn that wants them and sends none still has them.
ToolsOutliveTurns ==
    \A w \in Workers :
        at[w] = "run" /\ req[w].query.wants /\ req[w].id \in shown
        => req[w].query.tools # {}
=============================================================================
