# A TLA+ verification project for DenseLite

DenseLite is a C++17 inference server: an OpenAI-compatible HTTP gateway in front
of local GGUF models (AVX2 and Vulkan) and of cloud providers, with per-session
KV caches, a memory store, code search and a tray supervisor. This directory
models the parts of it that keep state between requests or share state between
threads, checks them with TLC on small instances and proves the most important
results with TLAPS for every instance.

Paths below are relative to the repository root. Everything the modules model is
under `src/`; `dependencies/` (tree-sitter, Vulkan headers, zvec, SQLite, json)
and `src/httplib.h` are third-party.

## 1. Inventory

| Component | State it keeps | Operations | Shared with / hard behaviour | What makes it correct |
|---|---|---|---|---|
| `ModelManager`, `ModelPool`, `ModelLease` | pool entries (model, placement, bytes, users), leases, `manager_mutex_`, pool `mutex_` | `acquire`, `load`, `unload`, `enforce_budget`; moving and destroying a lease | any number of threads; check and act in two critical sections; a mutex held over a file read | the count is the number of leases; no model freed under a lease; GPU bytes within the ceiling and all given back; the mutex is released |
| `VulkanDevice` | `allocated_bytes_` | `can_admit`, `allocate`, `release` | admission asked before the load, bytes taken after it | the answer is still true when it is used |
| `SessionKVCacheManager` | session map, LRU time stamps, files | `get_or_create`, `save_to_disk`, `evict`, `clear_all` | request threads; map mutex held while waiting for a session's mutex; eviction of sessions in use | bounded map; no state shared by two sessions; no lock cycle; a state that was replaced never overwrites its successor's file; a finished turn reaches its file |
| `ModelEngine::infer_local`, `ConcurrencyTracker` | one counter per model name | one request | overlapping requests, early returns | at most one inference per name |
| `generate`, `forward_pass` | `cached_tokens`, `current_pos`, rows of cells | prefix match, truncation, prefill, token loop | state reused over turns, restarts, models and budgets | positions inside the context and the rows; a skipped position holds the cell of its token |
| `DenseLiteEngine` | `active_sessions` | `process`, `execute_pipeline` | a copy is worked on and written back; three internal turns of three attempts | retries end; sessions are not leaked; two requests of one session do not lose results |
| `SessionToolRegistry` | catalogs and time stamps, at most 32 | register, look up, clear | `has_tools` then `get_all_tools` | bounded; a conversation finds its tools again |
| `RecoveryPolicy`, `CompletionPolicy`, `ResponseAnalyzer` | none | classify | status codes and outputs | every failure has one action; a claim without evidence does not complete a coding task |
| `SQLiteRouter`, `ProviderSync`, `infer_cloud` | keys, model catalog | choose key and model | SQLite shared with the tray process | a model without a key is not asked |
| `ResourceGovernor`, `ResourcePolicy`, `ContextBudgeter` | none of their own: they read the host | ceiling, stages, context budget, plan of a prompt | read now, allocated later, by several requests | the engine stays under its ceiling; less memory never means less pressure; a plan adds up |
| `ModelLoader::load_resident_models` | resident models by role | start-up loading | admission without allocation; roles that share a file | a file is loaded once; optional roles fit |
| `MemoryStore`, `PersistentMemory`, consolidation, recall | SQLite rows, vector index, index file, entries in RAM | put, get, delete, supersede, query, recall, start-up | four copies written one after the other; crashes in between; short writes | row and index agree; a query through the index covers every row |
| `TurboQuantIndex` | slots, positions, file | add, remove, search, save, load | a slot is marked, not freed, and used again | a removed id is never found, an added one is |
| `SettingsManager`, `SettingsDB` | cache and `last_data_version_` | get, set, reload, reset | a second process writes the same file; nothing is held from the version to the rows | a version that is current means rows that are; a committed change is seen eventually |
| `TrayProcess`, tray server, tray app | pid of the engine, menu state | start, stop, restart, status, quit | HTTP handlers, timer, menu and signal handler; child exits, pid reuse | no foreign process signalled; no engine unknown or left behind; stop and quit end |
| `CodeIndexer`, `CodeSymbols`, `CodeChangeTracker` | symbol rows, hashes in RAM | `index_file` | delete, insert and hash under three locks, results ignored | an unchanged hash means current symbols |
| `SearchEngine`, `ResultFusion` | none | `search` | channels find the same thing twice | no duplicates; nothing better is hidden |
| `server.cpp` | resident models | HTTP handlers | thread pool | the components above |
| routing decisions, tokenizers, formatter, CLI, kernels | none that outlives a call | text and arithmetic | | not a matter of state |

`PROJECT.json` lists every component with its sources and status, and under
`hazards` each place where a test would hardly reach.

## 2. Plan

Order: what the requests of every client go through first.

1. `LeasePool`, `ModelLifecycle`: leases, loading, unloading, GPU account. **Done,
   with proofs.**
2. `SessionCache`: request threads, the session map, eviction and files; and
   `SessionTurns`: what turns do to tokens, positions and cells. **Done, with proofs.**
3. `RequestPipeline`: `process` and `execute_pipeline` for one request after another,
   with recovery and completion as operators; and `EngineSession`: several workers over
   `active_sessions` and the tool registry. `RequestPipeline` meets `SessionCache` in the
   outcomes of a local inference, `EngineSession` meets `RequestPipeline` in the statuses a
   request can end with. **Done, with proofs.**
4. `SettingsCache` (cache against a second writer), `TraySupervisor` (the tray and its
   engine). **Done, with proofs.**
5. `MemoryIndex` (rows, vector index, index file and RAM over crashes), `ResourceBudget`
   (ceiling, stages, start-up admission, context budget and plan), `CodeSearch` (index of
   code, search and rank fusion). **Done, with proofs.**

Abstract specifications: `LeasePool`; the memory index has its references inside its module,
what the rows say by the index's score (`Ranked`) and by the scan's (`Scanned`). A model of the
router's keys with their cooldown was planned and dropped: `mark_key_cooldown`
(`src/sqlite_router.cpp:142`) has no caller, so the key table does not change while the engine
runs.

Every safety and action property of the regular runs is the statement of a theorem
(section 6). Still worth proving: that the loops a liveness property relies on end, as safety
properties of a measure that falls (the attempts of `RequestPipeline`, the polls of
`TraySupervisor`); and `ReusedPrefixComputed` under weaker conditions than `Steady`.

## 3. Modules

| Module | Models | |
|---|---|---|
| `LeasePool` | what the pool promises: a model in use is loaded and stays loaded | abstract specification |
| `ModelLifecycle` | `model_manager.cpp`, `model_pool.cpp`, `model_lease.cpp`, the account of `vulkan_device.cpp` | refines `LeasePool` |
| `SessionCache` | `SessionKVCache.cpp` as called by `ModelEngine::infer_local` | |
| `SessionTurns` | `generate` in `infer.cpp` on one `SessionKVState`, its file | |
| `RequestPipeline` | `DenseLiteEngine.cpp`, `RecoveryPolicy.cpp`, `ResponseAnalyzer.cpp`, `CompletionPolicy.cpp`, `ModelEngine::infer` | |
| `EngineSession` | `DenseLiteEngine::process` by several workers, `SessionToolRegistry.cpp` | |
| `SettingsCache` | `settings/settings_manager.cpp`, `settings_db.cpp`, the settings routes and the reset of the tray, in two processes | |
| `MemoryIndex` | `memory_store.cpp`, `vector/turboquant_index.cpp`, `PersistentMemory`, consolidator and recall | |
| `TraySupervisor` | `tray/tray_process.cpp`, the engine routes, menu, timer and signals of `tray/tray_app.cpp` | |
| `ResourceBudget` | `ResourcePolicy.hpp`, `resource_governor.cpp`, `model_loader.cpp`, `context_budgeter.cpp`, the sliding window, the context of a turn | |
| `CodeSearch` | `code_indexer.cpp` with its symbols and hashes, `search_engine.cpp` and its channels, `result_fusion.cpp` | |
| `MC...` | constants and symmetry for TLC | |
| `..._proofs` | theorems and lemmas | |

Two modules that count or queue the same kind of thing share their proofs, so they are
extended together and have no name in common: `EngineSession` calls its specification
`EngineSpec` (with `EngineInit`, `EngineNext`, `EngineTypeOK`, `engineVars`) beside
`RequestPipeline`'s, `ResourceBudget` calls its own `HostSpec` (with `HostInit`, `HostNext`,
`HostTypeOK`, `hostVars`, `at` for the place of a request and `resident_models` for what is
loaded) beside `ModelLifecycle`'s.

### ModelLifecycle

A step is one critical section of the pool's mutex or of the device's account;
`manager_mutex_` is the variable `mutex`, because `load` and `unload` hold it over
several sections. `resident`, `users`, `onGpu`, `memory` and `stale` are the fields of
`ModelEntry`; `stale` says that the idle timeout has passed. Each thread has two lease
objects, the variable it keeps and the temporary that `acquire` returns, so that the
move assignment of a `ModelLease` (which releases what it held) is a step of its own.
`LoadStub` is the branch for descriptors that are not GGUF, `LoadFileFails` the failed
read. `load` decides the placement in `LoadAdmit` and takes the bytes in
`LoadAllocate`, without looking at the result, as the code does.
`EnforceBudget` ends in a step that waits for the mutex its own thread holds.

### SessionCache

A step is what a thread does between two waits for a lock. A state is the number of
turns its cells contain, whether it is initialized, the model its header names (`by`) and
the one its cells are sized for (`cells`); `order` is `last_accessed_ms` as an order. `ref` is
the `shared_ptr` a request holds, so `use_count() == 1` is "no `ref` points here". The session
ids are numbers because eviction prefers the first of the `std::map` in a way of its own
(`SessionKVCache.cpp:102`). Objects live while the map or a `ref` refers to them; `Fresh`
reuses objects that are gone.

`Restored` discards the file of another model (`SessionKVCache.cpp:184-205`); which headers
a model accepts is the constant `Accepts`. `Begin` continues some of the turns of a state
(`Resume`) or re-initialises it when the context has grown (`Restart`, `infer.cpp:395-401`).
Either way the next save may leave fewer turns in the file. That is what the code means to
do; `left` records it, and `CheckpointKeepsTurns` says it is the only way a file loses turns.

### SessionTurns

One session. A cell is the pair of the model and the token it was computed for;
`NoCell` is a row nothing was written to. `cells` has the length of the rows as first
allocated, `ctx` is `max_context_allocated`, `cached` is `cached_tokens`. `Begin` is
everything from the lock to the prefill loop, `Prefill` and `GenerateToken` one
iteration each, `Abort` the return when `forward_pass` fails, `Save`, `Evict`, `Restart`
and `TornFile` the ways into and out of the file. `Hash` and `Identity` are what the
header compares. All models have the same geometry; two models of different geometry
that meet in one in-memory state read outside their rows, which is undefined
behaviour and is not modelled beyond the finding about models below.

### RequestPipeline

One session, one request at a time. `env` is chosen once: the providers that have a key,
whether there is a network, whether the machine is calm (no other request holds a local
model and RAM is free), and the model files on disk. A body is known by its kind, one for
each way the analyzer and the completion policy can tell answers apart; a status that is
not 200 comes with the kind of message that `determine_action` looks for. `Receive` is the
whole way from `get_or_create_session` to the compiled prompt; a prompt is its template and
whether it was reduced or continued. `Attempt` is one call of `infer`, `Recover` what the
retry loop does after a failure, `Analyze` one pass through the decisions after a success,
`Save` the end of `process`. `Switched`, `GivesUp`, `NextRetry` and `NextTurn` are the
pieces of the two loops. `get_provider_for_model` returns "local", never the empty string,
for a model it does not know; the test for emptiness in the offload (192) therefore always
succeeds, and `Target` says so.

### EngineSession

A step is one section of `engine_mutex` or of the registry's mutex, or the work between
two of them. `active`, `catalogs` and `stamps` are the three maps with their domains; `copy`
is a worker's `InferenceSession`. `Run` is all of `RequestPipeline` seen from outside: a
status, and whether a result was added. `Overlap` says whether a client may send a request
of a session before the last one is answered. Session ids are numbers because ties between
time stamps go to the first of the `std::map`; `clock` is in milliseconds, and equal
stamps are the common case.

### SettingsCache

Two processes, the engine that reads and the tray that also writes, on one SQLite file. A
step is one critical section: a statement on the connection, or one use of `cache_` and
`last_data_version_`. `ver[p]` counts the commits other connections made, which is what
`PRAGMA data_version` tells the connection of `p`. `Count` to `Mark` are `init`,
`ReadVersion` to `Install` are `check_and_reload`, `Lookup` the read of a key,
`Upsert` and `Publish` are `update_setting`, `Delete` and `Insert` the reset, which
works on a connection of its own. A config is read and written key by key, so a post
that arrives in the middle is a case of the model. `Kill` is the end of a process, which
loses its cache and its step, `UpsertFails` a statement that fails. `since` is the version
with which a process began to serve.

### MemoryIndex

`rows` is the table, `slots` with `index_by_id` the index in RAM, `file` its file, `entries`
the copy of `PersistentMemory`. A write takes `mutex_` and goes row, index, file: `WriteRow`
or `Supersede`, `WriteIndex`, `save`; consolidation does that for every fact, then for the copy,
then writes its archive row. `Restart` may come between any two steps and rebuilds index
and copy from what is on disk. `SaveFails` is the file that was cut short and renamed all
the same. A removed slot keeps its place with its mark cleared and is used again by the next
`add` of its id. Queries are operators: `query_indexed` follows the heap and the mask of
`search` (a function of how many slots were looked at). A query is two tables of scores:
`index`, the cosine of the rotated, 4-bit quantised vectors that `search` compares, and
`cosine`, from which `cosine_similarity` makes `(sim + 1) * 0.5` for the scan. The two need
not agree, and both are compared with one threshold. `Ranked` is what the rows say by the
index's scores, `Scanned` what the scan answers; the scan runs only without an index path
(the default of `MemoryEngine::init`, used by tests; `DenseLiteEngine.cpp:37` passes one).
`lost`, `unsaved` and `wiped` record what faults have done, so that the invariants can say
what they may have done.

### TraySupervisor

A pid is free, forked, running, a zombie or another program's. `mutex` is who has `mutex_`.
Every section of it, in `is_running`, in the fork of `start` and in `stop`, is a step that
locks (`Lock`), one that calls `waitpid` or `fork` (`WaitPid`, `Fork`) and one that notes the
outcome and unlocks (`Toggle`, `Status`, `Check`, `Parent`), so a signal may come in the middle
of each. `start` asks and forks in two sections, which `raced` records. `Terminate`, `Poll`,
`Kill`, `Wait` are `stop`, whose 30 looks are the constant `Polls`. The main thread runs the
menu and the timer; the signal handler runs on its stack, so it freezes the main thread
wherever it is, also inside a section, and then waits for a mutex that its own thread has
(`SelfLocked`). A signal during the menu's own quit makes the handler join the control thread
a second time, which may throw out of the handler (`Abort`). `Exec`, `End`, `Killed` and `Reuse`
are the operating system's.

Assumed: signals arrive on the main thread. Left out: a second, different signal while the
handler runs; the locks of the C library (memory, streams), which a handler may find taken by
the thread it interrupted; an interruption inside `httplib`'s own `stop`.

### ResourceBudget

Loading visits the roles by priority: a role is skipped, shares a file that is loaded,
loads it or fails to. A request is `Compile` (context by stage, plan, sliding window), then
`infer_local`: the model is there (`Found`), is mapped on demand (`LoadLazily`,
`ModelEngine.cpp:185-216`, which asks nobody for memory) or is not to be had (`NotLoaded`);
`GetState`, `SizeContext` (the governor's answer), `Allocate` (the rows) and `Finish`.

A file is mapped `MAP_SHARED` and not read (`gguf_parser.cpp:31`). `Private` is the memory of
the engine's own, `Paged` the part of the mapped files that is in memory, `Rss` the two
together, which is what the governor reads; `Available` leaves `Paged` out, because the kernel
counts clean file pages as available. `share`, the part in percent, is changed by `PagesChange`
at any time: pages come in when a turn touches the weights and go when the host needs room.
It is one number for all files, and all models have one `TokenSize`. A reading is as old as
the step that took it; `seen` is what the last one that gave room saw of `Paged`.
`HostChanges` is every other process. `calculate_budget` is integer arithmetic with the
subtractions guarded as in the code; `Minus` is the guarded one. The contexts the run meets
(2048 to 8192) never have a reserve that fills them; only the theorem covers that case.

### CodeSearch

`index_file` is `Start` (the hash), `RemoveSymbols`, `InsertChunks`, `update_hash`, any of which
may meet those of another thread; `StatementFails` is a statement whose result is
ignored, `Restart` keeps the rows and loses the hashes. `Candidates` are the hits of the
channels in the order they are gathered; `fuse` is the merge, the score and the cut. The
order of results with equal scores is not fixed by the code (`std::sort`), so `fuse` is the
set of all allowed answers.

## 4. Runs

| Run | Instance | Result |
|---|---|---|
| `lifecycle` | 2 threads; two GPU models of 2 units against a ceiling of 3, one stub, one unregistered name; fair | 324 000 states; counts, admission, account, refinement of `LeasePool` (no model freed under a lease); `load` and `unload` give `manager_mutex_` back |
| `sessions` | 2 workers, 2 sessions, 2 model names, room for 1 session, 2 turns, session 1 used with both models, all maintenance calls; fair | 548 000 states; exclusion, privacy, lock order; a file loses turns only to a state that gave them up; `mutex_` is always released; no deadlock |
| `turns` | 2 tokens, 2 models (one fails), contexts 2 and 3, prompts up to 3, limits 1 and 2, eviction, restart, torn file | 258 000 states; positions and files inside the context, every position has its token |
| `turns_prefix` | 1 model, one budget, turns that end by themselves | skipped positions hold the right cells |
| `turns_limit` | as above, turns that end at the limit | **violation**: the last token of the turn has no cell and is skipped |
| `pipeline` | 2 cloud models of 2 providers, 2 local models, a body for each decision, 3 errors, every set of keys and files, two requests of a session; fair | 1.4 million states; offline requests, failures, kept sessions, local answers; every request is answered |
| `engine` | 2 workers, 2 sessions, one with overlapping requests, room for 1 catalog, 2 instants | 2.5 million states; the registry is consistent, no catalog outlives its session, a client that waits keeps its results |
| `settings` | engine with 2 threads, tray with 1, 2 keys, 2 values, 1 post, reset, kill or failed write; fair | 804 000 states; a reader whose version is current has the rows of the file; an engine that keeps reading ends with the last change |
| `memory` | 2 threads, 3 keys of which one is over-long, 2 values, 3 workspaces, 3 writes, 2 faults | 409 000 states; the index follows the rows but for the keys a crash caught; a fault costs at most one key or, with a torn or refused file, the index; a query through the index finds the best of all rows |
| `tray` | 1 control call at a time, 2 pids, 2 polls, a signal between any two steps; fair | 219 000 states; own children only, every engine known, stop and quit end unless the main thread waits for itself, the menu follows |
| `resources` | host of 16 GB, 4 roles, 4 models in 3 files, 6 bindings, one model named by requests, a tenth or all of the mapped pages in memory, 2 symmetric sessions, 2 turns | 361 000 states; files loaded once, optional roles fit, plans add up, turns apart fit the ceiling beside what their reading saw, stages are monotone |
| `search` | 2 threads, 2 files, 2 contents, 2 words, 3 results, 3 calls, symmetric | 67 000 states; a call that ran alone repairs its file; results distinct; nothing better hidden |

More configurations, not part of the regular runs, reproduce further disagreements
(section 5): TLC refutes each of their properties in seconds. Those called `..._claims` list
several properties for one instance, of which one is active and the others are to be put in
its place.
`sessions_three` is the larger instance of `sessions` without fairness (3 workers, symmetric,
5.8 million states, passes): an evictor, a running turn and a second request of the evicted session
at the same time. It also checks `ActiveBounded` (the map never exceeds its limit) and `TypeOK`.

The type invariants of all modules are proved (section 6), which is more than a run shows,
and only `search` lists its own, because its bound on the length of an answer is part of it.
`WithinCeiling` and `LeasedIsResident` of `ModelLifecycle` and `ActiveBounded` of
`SessionCache` are proved too.

Bounds. Two threads are enough to separate the check from the act in the lifecycle; a
ceiling of 3 with models of 2 makes one admission exclude the other. `MaxTurns = 2` lets an
orphaned state and its successor both save. `MaxPrompt = 3` with contexts of 2 and 3 reaches a
prompt shorter than, equal to and longer than the context. The bounds `MaxTurns` and `MaxPrompt`
only limit inputs. The pipeline's loops are bounded by the code (3 turns of 3 attempts), so
one request is explored completely; `MaxResults = 2` lets a session that waits for a tool take a
second request. Two providers are enough: the one a request is offloaded to and the one the
engine switches to. A registry with room for one catalog and two sessions makes every
registration of the other an eviction; two instants give equal and different stamps.

In `settings` one change is enough for a slow reload to meet a newer one, because starting
the two processes writes too (the seed and the secret), and two keys let a change fall between
two reads of a config. In `memory` three writes are put, delete, put of one key with a fault
at each place; the over-long key makes a file that `save` writes and `load` refuses. In
`tray` two pids let an engine be replaced while the old one ends and a pid be taken by a
stranger; two polls separate an engine that obeys from one that must be killed. The numbers of
`resources` put the loader over the ceiling or under it by the binding; other processes move
the host from no pressure to the last stage; the model that requests name is mapped at
start-up under some bindings and on demand under the others. `TopK = 3` with up to six hits makes the cut
matter.

`lifecycle` says CHECK_DEADLOCK FALSE because of the self-deadlock that
`lifecycle_budget` is about, and `ManagerUnlocks` leaves that call out. `tray` says it because
the tray may exit.

Fairness. `FairSpec` of `RequestPipeline` is weak fairness of the steps inside a request:
connections and reads of a provider time out (`ModelEngine.cpp:52`), and generation is
bounded. `FairSpec` of `ModelLifecycle`, `SessionCache` and `SettingsCache` is weak fairness of
each thread's steps: a thread inside a call runs on when it can. That is what the operating
system's scheduler gives; nothing forces a client to call. A `std::mutex` promises no
order among waiters, so nothing stronger is assumed there, and the properties only speak of
giving a lock back, never of getting it. `EngineCatchesUp` assumes, in the property, that the
engine's threads keep reading.

`TraySupervisor` needs more, because quit has to get `mutex_` while calls come and go: strong
fairness of a thread's step, that is, a thread waiting for a mutex that is free again and again
gets it, between signals if need be. The standard does not promise this, the Linux mutex gives
it in practice; it is an assumption of `StopEnds`, `QuitEnds` and `MenuFollows`. Further: the
timer fires again and again and a main loop that was told to quit ends (strong fairness,
`g_timeout_add`, `gtk_main_quit`), the kernel runs a forked child and ends a killed one (weak),
and the child's `setpgid` precedes a SIGKILL three seconds later. An engine that got SIGTERM is
not assumed to obey it.

## 5. What the violations show

`turns_limit`: `generate` records a token before its cell exists (`src/infer.cpp:545`), so the
next turn skips a position that was never computed. It is recorded under `findings` with
the line quoted.

The further configurations:

| Configuration | Property refuted | Code | Against |
|---|---|---|---|
| `lifecycle_budget` | `IdleModelUnloaded` | `enforce_budget` calls `unload` with `manager_mutex_` held (`src/model_manager.cpp:194`); it has no caller yet | `src/model_manager.hpp:37` on what it unloads |
| `sessions_lost` | `TurnCheckpointed` | `evict_oldest_session_locked` takes the first session of the map even if it is in use (`src/SessionKVCache.cpp:102`) | `docs/CLIENT_INTEGRATION_GUIDE.md:135` on checkpoints |
| `turns_restart` | `ReusedPrefixComputed` | the file keeps `current_pos` cells but all tokens (`src/SessionKVCache.cpp:87`) | `CHANGELOG.md:46` "enabling instant session resumption across server reboots" |
| `turns_growth` | `KVWithinAllocation` | `init_inference_state` leaves existing rows as they are (`src/infer.cpp:81`) | `src/infer.cpp:441` on what the prefill processes |
| `turns_models` | `RestoredCellsAreOurs` | a hit in the map compares no model, and the header keeps the identity of the model that created the state (`src/SessionKVCache.cpp:127`) | `README.md:30` on validating a file's model |
| `pipeline_claims` | `ExhaustedIsLocal` | with no key left, `infer` answers 429, which means "switch key" and hence another cloud model, never a local one (`src/ModelEngine.cpp:33`) | `README.md:108` on exhausted keys |
| `pipeline_claims` | `ErrorBlocksCompletion` | `unresolved_error` is never set (`src/DenseLiteEngine.cpp:319`) | `src/CompletionPolicy.cpp:16` "Unresolved error blocks completion" |
| `pipeline_claims` | `ReductionIsSent` | a cloud model's payload is built from the messages, not from the reduced prompt (`src/DenseLiteEngine.cpp:279`) | `src/RecoveryPolicy.hpp:9` "Context window exceeded (400/413)" |
| `pipeline_claims` | `PromptFitsModel` | the prompt is not compiled again when the model is switched (`src/DenseLiteEngine.cpp:285`) | `src/context_engine.cpp:55` "Compile into model-appropriate prompt template" |
| `engine_tools` | `ToolsOutliveTurns` | a completed request clears the tools of its conversation (`src/DenseLiteEngine.cpp:108`) | `CHANGELOG.md:43` on tools cached per chat session |
| `engine_overlap` | `StateIsMaintained` | a session's copy is written back over a newer one (`src/DenseLiteEngine.cpp:110`) | `README.md:288` "the session maintains state across HTTP boundaries" |
| `settings_race` | `SetIsRead` | two posts of one process write a row in one order and their cache entries in the other, and `update_setting` marks the version as read (`src/settings/settings_manager.cpp:103`) | `tests/settings_tests.cpp:87` "Mutate and check cache + DB" |
| `settings_stale` | `SetIsRead` | `init` reads the rows and then the version (`src/settings/settings_manager.cpp:17`): a commit in between is taken for read | as above |
| `memory_recall` | `RecallFollowsRows` | recall reads the entries in RAM, which no delete or supersede changes (`src/memory_recall.cpp:50`) | `tests/test_memory_quality.cpp:114` "verified completely removed" |
| `memory_crash` | `RowsAreFound` | a crash between row and index, or a short index file renamed over the good one (`src/memory_store.cpp:203`, `src/vector/turboquant_index.cpp:262`); nothing rebuilds the index | `README.md:322` "Durable SQLite canonical storage" with semantic recall |
| `memory_private` | `QueryFindsBest` | the allowlist of the index lets private rows in that the later filter drops, so they use up the limit (`src/memory_store.cpp:338`) | the scan over the rows in the same function |
| `memory_recall` | `ScanAgrees` | the index compares the cosine of quantised vectors with the threshold (`src/vector/turboquant_index.cpp:191`), the scan `(sim + 1) * 0.5` with the same one (`src/vector_search.cpp:24`) | the two branches of one function; `README.md:322` concedes that the index approximates |
| `tray_claims` | `NoEngineOutlivesTray` | two starts between `is_running` and `fork` (`src/tray/tray_process.cpp:37`); the first child is forgotten | `README.md:25` "guarantees engine termination on tray exit" |
| `tray_claims` | `SignalEndsTray` | the handler calls `quit`, hence `stop`, on the thread that may already hold `mutex_` in `is_running`, `start` or `stop` (`src/tray/tray_app.cpp:133`, `src/tray/tray_process.cpp:17,39,76`) | the same line: a signal is to quit |
| `resources_claims` | `RamWithinCeiling` | a role of high priority and a model named by a request are loaded whatever is left, pages of mapped weights come in after the reading, and two turns can be promised the same memory (`src/model_loader.cpp:122`, `src/ModelEngine.cpp:204`, `src/gguf_parser.cpp:31`, `src/ModelEngine.cpp:235`) | `README.md:41` "Strict memory allocation boundaries (50% max host RAM" |
| `resources_claims` | `GpuWithinCeiling` | the loader asks for admission and takes nothing (`src/model_loader.cpp:143`) | `README.md:39` "will never use the GPU above a strict ResourcePolicy VRAM ceiling" |
| `resources_claims` | `PromptFits` | the prompt is planned for one context and the turn gets another (`src/context_engine.cpp:37`) | `src/context_engine.cpp:36` "ensuring generation reserve and system prompt are protected" |
| `search_claims` | `IndexFollowsFile` | two calls for one file interleave delete, insert and hash (`src/code_indexer.cpp:20`) | `tests/code_indexer_tests.cpp:113` "Modified content must reparse" |
| `search_claims` | `MemoryOnce` | the lexical channel knows a memory by its key, the vector channel by its id (`src/search_engine.cpp`), so the fusion does not see they are the same | `src/search_engine.cpp:128` "deduplicate and rank" |

Where a configuration refutes a property, the regular run checks what does hold: for
instance `KnownEngines` unless two starts raced, `QuitEnds` unless the signal came while the
main thread had `mutex_`, `KvWithinReading` beside the pages the reading saw, for turns that do
not overlap and are not restored, `CheckpointKeepsTurns` unless a state gave turns up,
`QueryFindsBest` by the index's own score, `SettledIndex` after a call that ran alone,
`ReaderKnows` for processes that do not post.

Not a run, but met on the way: `tests/session_kv_tests.cpp:63` asserts that a fresh state
is initialized, which `get_or_create` never sets; the assertion is compiled out under
NDEBUG.

## 6. Proofs

All theorems hold for every value of the constants that satisfies the modules' named
assumptions. Every invariant and every action property of the regular runs is proved; two
theorems have a hypothesis of their own, `ReuseSound` and `QueryCorrect`, and say below why.

Some of the properties are about what a loop over a sequence or a sum over a set computes.
The loops are recursive functions of the number of steps (`heap`, `KeepIn`, `deduplicated`) and
the sums are the folds of the community modules. Induction over them takes the set of numbers
the statement holds of as its parameter, never an operator: `LeastNatural` (a set of naturals
has a least element, from the well-foundedness of `<`), `NatSetInduction` from it, and
`RecursionExists`: a recursion over `0..N` whose steps stay in a set has a solution, so that the
`CHOOSE` behind a recursive function is one.

`ModelLifecycle_proofs`

* `LeaseInvariant`: the inductive invariant `LeaseInv`. `UsersCountLeases` and
  `LeasedIsResident` are not inductive alone: `add_model` overwrites an entry with a count
  of zero, which is harmless only because a model being loaded is absent
  (`LoadingIsAbsent`), which needs that one thread at a time is between lock and unlock
  (`MutexOwned`); and the temporary of `acquire` is empty outside `acquire`
  (`ReturnSlotFree`). From it: `TypeCorrect`, `UsersCorrect`, `LeaseSafe`. Counting uses
  the cardinality theorems of `FiniteSetTheorems`.
* `AdmissionSafe`: `WithinCeiling` and `AdmissionStillHolds` together; the second is what
  makes the first inductive, since `allocate`'s answer is ignored.
* `PoolImplemented`: every step of the lifecycle is a step of `LeasePool` or leaves its
  variables alone.

* `VramCorrect`: `VramAccounted` says that the device account is the sum of the bytes of the
  entries on the GPU and of the call in flight. `AccountInv` adds the admission facts and
  `ReadEntry` (what `unload` remembers of an entry is still in the entry when it gives the
  bytes back), without which an entry could be replaced between the two. `OneChange`: a sum
  over a finite set follows the one value that changes.

  For `ResourceBudget`:
* `LoadedOnceCorrect`: a published name stands for a file that was loaded once; `OptionalCorrect`:
  the loader's `available_ram` is the ceiling less what the engine uses (`Account`), a file
  that passes the test with a headroom factor of at least 1 (`HeadroomPct >= 100`) fits, and
  roles of high priority come first (`InOrder`); `PlanCorrect`: the plan adds up for every context
  and request, by the arithmetic of `calculate_budget`.
* `KvCorrect`: `KvWithinReading`, for whatever is mapped on demand and paged in or out at any
  step. It speaks of the pages the last reading saw and not of those in memory now, which no
  step of the engine bounds. The invariant (`Room`) says, for a request between the governor's
  answer and its allocation, that what was promised still fits beside them, which holds
  because no other request is in between. `StageCorrect`: the eviction stage is a monotone
  function of what is free. `HostTypeCorrect`: no difference of sizes is negative.

`SessionCache_proofs`

* `CacheInv` is inductive: the types; `OrderInv`, the order by `last_accessed_ms` lists the ids of
  the map once each; `ControlInv`, what each place in the code says of the request (a session
  that is being created is not in the map, one that is being evicted or saved stays there
  while its mutex is waited for); `LockOrder`, `StatesArePrivate`, `OneInferencePerName`,
  `ActiveBounded`; and `FileInv`, the state in the map has every turn of its file unless it gave
  some up. From it:
  `TypeCorrect`, `Bounded`, `OneInference`, `PrivateStates`, `LocksInOrder`.
* `CheckpointsKeepTurns`: the three places that write a file write the state in the map, so by
  `FileInv` a checkpoint loses turns of an earlier one only if that state discarded the file of
  another model or began a turn on fewer. The orphaned state of an evicted session is the case
  that makes this worth proving: its request finds another object, or none, in the map when
  it saves, and never writes its own.

`SessionTurns_proofs`

* `TypeCorrect`, `ContextSafe`, `CellsNamed` from `TurnInv`: what a request carries, that
  only a loaded state is in use, where the two loops of `generate` stand
  (`pos + 1 = Len(cached)` while generating), and the same facts of the file.
* `ReuseSound`: `ReusedPrefixComputed` assuming `Steady` (one model that works, one budget,
  no unloading, answers that end before a limit): exactly the conditions that the runs
  `turns_limit`, `turns_restart`, `turns_growth` and `turns_models` each drop. The prefix
  match is a `CHOOSE` of a least stop; `LeastNatural` and `CommonPrefix` show it exists and
  that the two sequences agree up to it.

`RequestPipeline_proofs`

* `Typing`; `LocalEnds`, from an invariant that says where in the loop the last result can be
  a local one; `FailuresExplained`.
* `OfflineRequests`: the invariant bounds, for each place the request can be in, how many
  attempts are left against how many models can still fail: a cloud model costs one attempt
  and leads to the OpenRouter model or the general one, the OpenRouter model costs one and leads to
  the general one, and the general one answers.
* `KeptCorrect`: `KeptInv` says that the turn a request is in counts the outputs at the end of the
  session's results that led nowhere (`EndsSpent`), so that three of them end the loop.

  For `EngineSession`:
* `EngineInv` is inductive: the types, `RegistryInv` (same keys in both maps, a finite set of
  at most `MaxSessions`), `CatalogHasSession`, and `WaitingInv`: a client that waits has one
  request in flight, whose copy has every stored result. From it: `EngineTypeCorrect`,
  `RegistrySafe`, `CatalogsOwned`, `ResultsSafe`. The eviction needs `OldestFound`: the
  `CHOOSE` of the least stamp and, among equals, the least id has a witness in the registry,
  so one eviction makes room for one catalog and the loop of `register_tools` ends.

`SettingsCache_proofs`

* `TypeCorrect`, `ReaderCorrect`. `ReaderKnows` says that the version is current only if the
  cache is; what makes it inductive is `Control` (which handler can be at which place, so
  that a process without posters publishes nothing after it began to serve) and `Fetched`: a
  thread's version is never ahead of the file's, and rows fetched after a version was read are
  the file's while that version is current. The second is why `check_and_reload` must ask for
  the version first.

`MemoryIndex_proofs`

* `TypeCorrect`: with the types, that `index_by_id` and `slots` are inverse to each other,
  which is what `add`, `remove` and `load` rely on. `IndexCorrect`: for every key outside `lost`
  that is not being written, an active slot with the row's value exactly when there is a row.
  Across a restart this needs the same of the file for the keys saved since (`FileFollowsRows`).
  `DamageCorrect`: each fault costs at most one key unless a start found an unreadable file,
  because one writer at a time holds `mutex_`.
* `QueryCorrect`: `QueryFindsBest` for every limit, threshold and table of the index's scores.
  By induction over the slots the heap holds the best of those it was offered (`SearchBest`;
  `OfferBest` for one slot, `LowestExists` for the top of the heap); cutting at the threshold
  afterwards is the same as before (`CutBest`); and the mask lets through exactly the slots of
  the rows that match (`OfferedMatch`, from `IndexFollowsRows`). The hypothesis `FiltersSeeAll`
  says that no filter leaves out a visibility that callers store: without it the limit may be
  used up by rows that are dropped later, which is what `memory_private` shows.

`TraySupervisor_proofs`

* `TypeCorrect`; `SignalsCorrect`: `child_pid_` is a process that the kernel keeps for the tray
  until it waits for it, so a pid that was used again is never signalled; `EnginesCorrect`:
  without a race of two starts, and unless the process was aborted, a live engine is `child_pid_`
  or the one just forked, from the invariant that a thread between check and fork is alone
  there and there is no child (`ForkAlone`). The signal handler takes part as a thread that
  may stand beside the main thread inside any section.

`CodeSearch_proofs`

* `IndexCorrect`: `IndexInv` is inductive: the types (every row is one of a parsed content), where
  the calls are (`Calling`), and `Alone`: what a call that no other met has done to the rows of
  its file so far. Rows of other files are untouched because `RemoveSymbols` keeps the others
  in their order (lemmas about `KeepIn`).
* `DistinctCorrect`, `NothingHiddenCorrect`, `TypeCorrect`: by induction over the candidates,
  `deduplicated` has no two duplicates and each candidate is a duplicate of an element that
  scores at least as high; the cut then keeps `top_k` elements with none better left out, for
  every answer that `fuse` allows.

Model-checked only: liveness (`ManagerUnlocks`, `CacheUnlocks`, `Answered`, `EngineCatchesUp`,
`StopEnds`, `QuitEnds`, `MenuFollows`), which needs fairness and ENABLED, and the absence of
deadlock in the runs that check it.

## 7. Not modelled

* Floating point arithmetic (layers, sampling, quantisation, distances), GGUF and JSON
  decoding, SQL itself, HTTP itself and the driver probe: their outcomes are choices or
  constants.
* The text work of prompts and routing (`DecisionEngine`, ModernBERT, NLI,
  `RequestAnalyzer`), tokenizers, formatter, command line tools: functions of text without
  state.
* Model registry and discovery: SQL statements and directory scans whose result is the
  constants `Registered`, `Gguf` and `Bindings`.
* The multimodal engine: stubs around optional binaries.
* Code nothing calls: key cooldowns (`src/sqlite_router.cpp:142`), the paged store of
  `src/kv_cache.cpp`, `TurboQuantIVF`, `ProviderErrorAnalyzer`, custom chunks of the search engine.
  `ModelManager` (beyond a null pointer in the multimodal engine) and
  `CodeIndexer::index_file` have no caller in `src/src` either, only tests:
  `ModelLifecycle` and `CodeSearch` model them as what they promise to several threads.
* The `LIMIT 50` of `find_by_symbol` (`src/symbol_index.cpp:120`): no property depends on it.
* `check_single_instance` of the tray (`src/tray/tray_app.cpp:21`) reads a pid file and then writes
  it; two trays started at once are outside `TraySupervisor`, which has one.
* `SessionMemory` and `WorkingMemory`: lists of one request's text; a session's turns are saved in
  one transaction.
* The web console and everything vendored.
