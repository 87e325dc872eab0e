--------------------------- MODULE ResourceBudget ---------------------------
(***************************************************************************)
(* Host memory: the ceiling of ResourcePolicy, what the start-up loader    *)
(* takes of it (ModelLoader::load_resident_models), and the two places     *)
(* where a request is sized by what is left: the engine compiles a prompt  *)
(* for a context it chooses by the eviction stage, and infer_local later   *)
(* asks the governor how many tokens of K/V cache there is memory for and  *)
(* generate allocates them.  Requests of different sessions run            *)
(* concurrently; each step below is one reading of the host's memory or    *)
(* one allocation.                                                         *)
(*                                                                         *)
(* A model's file is mapped, not read: its pages come into memory when a   *)
(* turn touches them, and may go again.  infer_local maps further files on *)
(* demand.  Both may happen between any two steps of a request.            *)
(*                                                                         *)
(* Memory is counted in KB, text in tokens.  A session has one request at  *)
(* a time, and the K/V cache of a token has one size.  Search hits,        *)
(* deduplication and the tokens of the prompt template are left out.       *)
(***************************************************************************)
EXTENDS Integers, Sequences, FiniteSets, SequencesExt

CONSTANTS
    Total,        \* MemTotal
    Others,       \* what other processes may use
    Base,         \* what the engine uses before it loads a model
    BudgetPct,    \* ram_budget_percent
    HeadroomPct,  \* headroom_safety_multiplier, 110 for 1.10
    Vram,         \* safe_ceiling_bytes - allocated_bytes of the loader's device
    Roles, Priority, Router,
    OnDemand,     \* roles the loader never loads (audio, image)
    ModelIds, NoModelId,
    File,         \* the file of a model
    Size,         \* the size of a file
    NoFile,
    Bindings,     \* the role bindings the registry may hold at start-up
    Named,        \* the models of the registry that requests name
    Shares,       \* how much of the mapped files may be in memory, in percent
    Sessions,
    Shapes,       \* requests: tokens of the system prompt, the task, the history
    Window,       \* context_window of the inference settings
    TokenSize,    \* K/V cache of one token
    MaxTurns      \* bound: requests

MB == 1024
GB == 1024 * MB
Files == {File[m] : m \in ModelIds}

ASSUME HostAssumption ==
    /\ Total \in Nat /\ Others \subseteq Nat /\ Base \in Nat /\ Vram \in Nat
    /\ BudgetPct \in 1..100 /\ HeadroomPct \in Nat /\ HeadroomPct >= 100
ASSUME FilesAssumption ==
    /\ Priority \in [Roles -> Nat] /\ Router \in Roles /\ OnDemand \subseteq Roles
    /\ NoModelId \notin ModelIds /\ Bindings \subseteq [Roles -> ModelIds \cup {NoModelId}]
    /\ Roles \cap ModelIds = {}
    /\ Size \in [Files -> Nat \ {0}] /\ NoFile \notin Files
    /\ Named \subseteq ModelIds /\ Shares \subseteq 0..100
ASSUME RequestsAssumption ==
    /\ IsFiniteSet(Sessions)
    /\ Shapes \subseteq [system : Nat, task : Nat, history : Seq(Nat)]
    /\ Window \in Nat \ {0} /\ TokenSize \in Nat \ {0} /\ MaxTurns \in Nat

VARIABLES
    bindings,  \* role_bindings: the verified model of a role
    todo,      \* roles the loader has not looked at
    resident_models, \* the file a role or model name stands for
    available, \* available_ram of the loader
    loads,     \* how often each file was loaded
    weights,   \* size of the files the loader mapped
    spared,    \* the loader loaded a file for a role of low priority
    gpu,       \* files assigned to the GPU
    lazy, extra, \* models infer_local loaded on demand, and the size of their files
    share,     \* how much of all mapped files is in memory, in percent
    others,    \* memory other processes use now
    at,
    shape, plan, \* the request of a session and its budget plan
    ctx,       \* context_budget of its turn
    rows,      \* tokens its K/V rows have room for, 0 without a state
    grown,     \* max_context_allocated
    disk,      \* max_context_allocated in its .kv file, 0 without a file
    overlap,   \* two requests were between their reading and their allocation
    restored,  \* a state was restored from its file
    seen,      \* what was in memory of the files at the last reading that gave room
    turns

loadVars == <<todo, resident_models, available, loads, weights, spared, gpu>>
fileVars == <<lazy, extra, share>>
turnVars == <<at, shape, plan, ctx, rows, grown, disk, overlap, restored, seen, turns>>
hostVars == <<bindings, loadVars, fileVars, others, turnVars>>

Smaller(a, b) == IF a < b THEN a ELSE b
Larger(a, b) == IF a > b THEN a ELSE b
Minus(a, b) == IF a > b THEN a - b ELSE 0

(***************************************************************************)
(* ResourcePolicy and ResourceGovernor.                                    *)
(***************************************************************************)
compute_safe_ram_ceiling == (Total * Smaller(BudgetPct, 50)) \div 100
Ceiling == compute_safe_ram_ceiling

\* get_process_rss_bytes counts pages that are in memory, those of mapped files
\* too; get_host_available_ram_bytes counts the latter as available, because the
\* kernel can drop them.
KvTokens == SumFunction(rows)
Private == Base + KvTokens * TokenSize
Paged == ((weights + extra) * share) \div 100
Rss == Private + Paged
Available == Minus(Total, others + Private)

\* The condition of each stage: DISCARD_SCRATCH (1), SHRINK_CONTEXT,
\* EVICT_RETRIEVAL, UNLOAD_WARM, REJECT_OPTIONAL, ROUTE_CLOUD (6).
Limits == <<<<25, 3072>>, <<20, 2560>>, <<16, 2048>>, <<12, 1536>>, <<8, 1024>>, <<5, 512>>>>
Below(avail, i) ==
    100 * avail < Limits[i][1] * Total \/ avail < Limits[i][2] * MB
Reached(s, avail, rss) ==
    s = 0 \/ (s > 0 /\ Below(avail, s)) \/ (s = 6 /\ rss > Ceiling)
assess_eviction_stage_Ascending(avail, rss) ==
    LET reached == {s \in 1..6 : Reached(s, avail, rss)}
    IN  IF reached = {} THEN 0 ELSE CHOOSE s \in reached : \A u \in reached : s <= u
assess_eviction_stage(avail, rss) ==
    CHOOSE s \in 0..6 :
       Reached(s, avail, rss) /\ \A u \in (s + 1)..6 : ~Reached(u, avail, rss)

KvBudget_HostOnly(avail, rss) == (Minus(avail, GB) * 9) \div 10
KvBudget(avail, rss) == (Smaller(Minus(Ceiling, rss), Minus(avail, GB)) * 9) \div 10
calculate_dynamic_context_tokens(avail, rss) ==
    LET budget == KvBudget(avail, rss)
        large == {n \in {65536, 32768, 16384} : budget >= n * TokenSize}
    IN  IF large # {} THEN CHOOSE n \in large : \A k \in large : k <= n
        ELSE Smaller(((budget \div TokenSize) \div 1024) * 1024, 8192)

(***************************************************************************)
(* ContextBudgeter and ContextCompressor.                                  *)
(***************************************************************************)
\* The smallest reserve and the limits of the sections.
Reserve(total) ==
    LET least == Larger(1024, total \div 4)
    IN  IF least >= total THEN total \div 2 ELSE least
Divide(total, fixed, left) ==
    LET history == Smaller(left \div 2, 2048)
        aux == left - history
        code == Smaller((aux * 5) \div 10, 2500)
        memory == Smaller((aux * 3) \div 10, 800)
    IN  [total |-> total, reserve |-> Reserve(total), max_input |-> total - Reserve(total),
         history |-> history, code |-> code, memory |-> memory,
         working |-> aux - code - memory, allocated |-> fixed + left]
calculate_budget_Whole(total, system, task) ==
    Divide(total, system + task, total - Reserve(total))
calculate_budget(total, system, task) ==
    Divide(total, system + task, Minus(total - Reserve(total), system + task))

Newest(s, n) == SubSeq(s, Len(s) - n + 1, Len(s))

\* sliding_window: the system prompt, the task, and the newest messages that
\* fit; the first two are kept whatever their size.
compress(q, max_input) ==
    LET fixed == q.system + q.task
        fits(n) == fixed + SumFunction(Newest(q.history, n)) <= max_input
        kept == IF fits(0)
                  THEN CHOOSE n \in 0..Len(q.history) :
                         fits(n) /\ (n = Len(q.history) \/ ~fits(n + 1))
                  ELSE 0
    IN  fixed + SumFunction(Newest(q.history, kept))

(***************************************************************************)
(* The start-up loader.                                                    *)
(***************************************************************************)
NoPlan == calculate_budget(Window, 0, 0)
NoShape == [system |-> 0, task |-> 0, history |-> <<>>]

HostInit ==
    /\ bindings \in Bindings
    /\ others \in Others
    /\ todo = Roles
    /\ resident_models = [k \in Roles \cup ModelIds |-> NoFile]
    /\ available = Minus(Ceiling, Base)
    /\ loads = [f \in Files |-> 0] /\ weights = 0 /\ spared = FALSE /\ gpu = {}
    /\ lazy = {} /\ extra = 0 /\ share \in Shares
    /\ at = [s \in Sessions |-> "idle"]
    /\ shape = [s \in Sessions |-> NoShape] /\ plan = [s \in Sessions |-> NoPlan]
    /\ ctx = [s \in Sessions |-> 0] /\ rows = [s \in Sessions |-> 0]
    /\ grown = [s \in Sessions |-> 0] /\ disk = [s \in Sessions |-> 0]
    /\ overlap = FALSE /\ restored = FALSE /\ seen = 0 /\ turns = 0

\* The roles come in the order of their priority, equal ones in any order.
Turn(r) ==
    /\ r \in todo /\ \A u \in todo : Priority[r] <= Priority[u]
    /\ todo' = todo \ {r}
    /\ UNCHANGED <<bindings, fileVars, others, turnVars>>

Optional(r) == Priority[r] >= 5
Path(r) == File[bindings[r]]
Required(f) == (Size[f] * HeadroomPct) \div 100
Held_Never(r) == FALSE
Held(r) == Optional(r) /\ (r \in OnDemand \/ available < Required(Path(r)))

Wanted(r) == bindings[r] # NoModelId /\ r # Router /\ ~Held(r)

\* No verified model, the router, or a role that is held for later.
SkipRole(r) ==
    /\ Turn(r) /\ ~Wanted(r)
    /\ UNCHANGED <<resident_models, available, loads, weights, spared, gpu>>

Publish(r) == resident_models' = [resident_models EXCEPT ![r] = Path(r), ![bindings[r]] = Path(r)]

ShareRole_Reloads(r) ==
    /\ Turn(r) /\ Wanted(r) /\ \E u \in Roles : resident_models[u] = Path(r)
    /\ Publish(r)
    /\ loads' = [loads EXCEPT ![Path(r)] = @ + 1]
    /\ weights' = weights + Size[Path(r)]
    /\ UNCHANGED <<available, spared, gpu>>
ShareRole(r) ==
    /\ Turn(r) /\ Wanted(r) /\ \E u \in Roles : resident_models[u] = Path(r)
    /\ Publish(r)
    /\ UNCHANGED <<available, loads, weights, spared, gpu>>

can_admit_gpu_vram(f) == Vram >= Size[f] + (IF Size[f] < 3 * GB THEN 200 * MB ELSE 300 * MB)

LoadRole(r) ==
    LET f == Path(r) IN
    /\ Turn(r) /\ Wanted(r) /\ \A u \in Roles : resident_models[u] # f
    /\ Publish(r)
    /\ loads' = [loads EXCEPT ![f] = @ + 1]
    /\ available' = Minus(available, Size[f])
    /\ weights' = weights + Size[f]
    /\ spared' = (spared \/ Optional(r))
    /\ gpu' = IF can_admit_gpu_vram(f) THEN gpu \cup {f} ELSE gpu

\* The file is missing or cannot be parsed.
LoadFails(r) ==
    /\ Turn(r) /\ Wanted(r) /\ \A u \in Roles : resident_models[u] # Path(r)
    /\ UNCHANGED <<resident_models, available, loads, weights, spared, gpu>>

(***************************************************************************)
(* A request.                                                              *)
(***************************************************************************)
Serving == todo = {}
Move(s, l) == at' = [at EXCEPT ![s] = l]

\* The request returns, and with it what it had computed.
Respond(s) ==
    /\ Move(s, "idle")
    /\ shape' = [shape EXCEPT ![s] = NoShape] /\ plan' = [plan EXCEPT ![s] = NoPlan]
    /\ ctx' = [ctx EXCEPT ![s] = 0]

\* execute_pipeline: the context the prompt is compiled for.
ContextCap(simple) ==
    LET cap == IF assess_eviction_stage(Available, Rss) >= 2
                 THEN Smaller(4096, Window) ELSE Window
    IN  IF simple THEN Smaller(2048, cap) ELSE cap

Compile(s) ==
    /\ Serving /\ at[s] = "idle" /\ turns < MaxTurns
    /\ \E q \in Shapes, simple \in BOOLEAN :
          /\ shape' = [shape EXCEPT ![s] = q]
          /\ plan' = [plan EXCEPT ![s] =
                        calculate_budget(ContextCap(simple), q.system, q.task)]
    /\ turns' = turns + 1
    /\ Move(s, "load")
    /\ UNCHANGED <<bindings, loadVars, fileVars, others, ctx, rows, grown, disk,
                   overlap, restored, seen>>

\* infer_local looks for the model the request names.
Found(s) ==
    /\ at[s] = "load"
    /\ lazy # {} \/ \E k \in Roles \cup ModelIds : resident_models[k] # NoFile
    /\ Move(s, "get")
    /\ UNCHANGED <<bindings, loadVars, fileVars, others, shape, plan, ctx, rows, grown,
                   disk, overlap, restored, seen, turns>>

\* It maps the file of a model that is not there, whatever else shares the file
\* and however little memory is left.
LoadLazily(s) ==
    /\ at[s] = "load"
    /\ \E m \in Named \ lazy :
          /\ resident_models[m] = NoFile
          /\ lazy' = lazy \cup {m}
          /\ extra' = extra + Size[File[m]]
    /\ Move(s, "get")
    /\ UNCHANGED <<bindings, loadVars, share, others, shape, plan, ctx, rows, grown,
                   disk, overlap, restored, seen, turns>>

\* 500: there is no such file, or it cannot be parsed.
NotLoaded(s) ==
    /\ at[s] = "load"
    /\ Respond(s)
    /\ UNCHANGED <<bindings, loadVars, fileVars, others, rows, grown, disk, overlap,
                   restored, seen, turns>>

\* get_or_create: a file brings back as many rows as it was written for, unless
\* it was written with another model.
GetState(s) ==
    /\ at[s] = "get"
    /\ \/ /\ rows[s] = 0 /\ disk[s] > 0
          /\ rows' = [rows EXCEPT ![s] = disk[s]]
          /\ grown' = [grown EXCEPT ![s] = disk[s]]
          /\ restored' = TRUE
       \/ UNCHANGED <<rows, grown, restored>>
    /\ Move(s, "size")
    /\ UNCHANGED <<bindings, loadVars, fileVars, others, shape, plan, ctx, disk, overlap,
                   seen, turns>>

\* infer_local reads what there is memory for, and may refuse the request.
SizeContext(s) ==
    LET budget == Smaller(calculate_dynamic_context_tokens(Available, Rss), Window) IN
    /\ at[s] = "size"
    /\ IF budget < 2
         THEN Respond(s) /\ UNCHANGED <<overlap, seen>>
         ELSE /\ ctx' = [ctx EXCEPT ![s] = budget]
              /\ seen' = Paged
              /\ overlap' = (overlap \/ \E u \in Sessions : at[u] = "alloc")
              /\ Move(s, "alloc")
              /\ UNCHANGED <<shape, plan>>
    /\ UNCHANGED <<bindings, loadVars, fileVars, others, rows, grown, disk, restored, turns>>

\* generate: rows that exist are not made longer.
Allocate(s) ==
    /\ at[s] = "alloc"
    /\ rows' = [rows EXCEPT ![s] = IF @ = 0 THEN ctx[s] ELSE @]
    /\ grown' = [grown EXCEPT ![s] = Larger(@, ctx[s])]
    /\ Move(s, "run")
    /\ UNCHANGED <<bindings, loadVars, fileVars, others, shape, plan, ctx, disk, overlap,
                   restored, seen, turns>>

\* The turn ends and is saved.
Finish(s) ==
    /\ at[s] = "run"
    /\ disk' = [disk EXCEPT ![s] = grown[s]]
    /\ Respond(s)
    /\ UNCHANGED <<bindings, loadVars, fileVars, others, rows, grown, overlap, restored,
                   seen, turns>>

\* The session cache needs the place.
Evict(s) ==
    /\ at[s] = "idle" /\ rows[s] > 0
    /\ rows' = [rows EXCEPT ![s] = 0] /\ grown' = [grown EXCEPT ![s] = 0]
    /\ UNCHANGED <<bindings, loadVars, fileVars, others, at, shape, plan, ctx, disk,
                   overlap, restored, seen, turns>>

\* Other processes take or give back memory; turns and other readers bring pages
\* of the files into memory, and the kernel drops them.
HostChanges ==
    /\ others' \in Others
    /\ UNCHANGED <<bindings, loadVars, fileVars, turnVars>>
PagesChange ==
    /\ share' \in Shares
    /\ UNCHANGED <<bindings, loadVars, lazy, extra, others, turnVars>>

Load == \E r \in Roles : SkipRole(r) \/ ShareRole(r) \/ LoadRole(r) \/ LoadFails(r)
Serve ==
    \E s \in Sessions : \/ Compile(s) \/ Found(s) \/ LoadLazily(s) \/ NotLoaded(s)
                        \/ GetState(s) \/ SizeContext(s) \/ Allocate(s)
                        \/ Finish(s) \/ Evict(s)
HostNext == Load \/ Serve \/ HostChanges \/ PagesChange

HostSpec == HostInit /\ [][HostNext]_hostVars

(***************************************************************************)
(* Properties.                                                             *)
(***************************************************************************)
Plan == [total : Nat, reserve : Nat, max_input : Nat, history : Nat, code : Nat,
         memory : Nat, working : Nat, allocated : Nat]

\* TypeOK: every variable has its type; sizes are never negative.
HostTypeOK ==
    /\ bindings \in [Roles -> ModelIds \cup {NoModelId}]
    /\ todo \subseteq Roles
    /\ resident_models \in [Roles \cup ModelIds -> Files \cup {NoFile}]
    /\ available \in Nat /\ loads \in [Files -> Nat] /\ weights \in Nat
    /\ spared \in BOOLEAN /\ gpu \subseteq Files /\ others \in Others
    /\ lazy \subseteq ModelIds /\ extra \in Nat /\ share \in Shares
    /\ at \in [Sessions -> {"idle", "load", "get", "size", "alloc", "run"}]
    /\ shape \in [Sessions -> Shapes \cup {NoShape}] /\ plan \in [Sessions -> Plan]
    /\ ctx \in [Sessions -> Nat] /\ rows \in [Sessions -> Nat]
    /\ grown \in [Sessions -> Nat] /\ disk \in [Sessions -> Nat]
    /\ overlap \in BOOLEAN /\ restored \in BOOLEAN /\ seen \in Nat /\ turns \in 0..MaxTurns

\* The loader maps a file once, however many roles and names share it
\* (model_loader.cpp:128-131), and every name it publishes stands for a loaded file.
LoadedOnce ==
    /\ \A f \in Files : loads[f] <= 1
    /\ \A k \in Roles \cup ModelIds : resident_models[k] # NoFile => loads[resident_models[k]] = 1

\* A role of low priority never takes the loader over the ceiling
\* (model_loader.cpp:122-126, 154): when one was loaded, everything it mapped fits
\* whole, whatever the roles of high priority took before.
OptionalFits == spared => Base + weights <= Ceiling

\* The plan of a request adds up (context_budgeter.cpp:9-44): at least a quarter
\* of the context is kept for the answer, and the sections fill exactly what
\* system prompt and task leave of the input, at every size of context.
AddsUp(p, fixed) ==
    /\ p.total = p.reserve + p.max_input
    /\ p.reserve < p.total /\ 4 * p.reserve >= p.total - 3
    /\ p.allocated = fixed + (p.history + p.code + p.memory + p.working)
    /\ p.allocated <= Larger(p.max_input, fixed)
PlanAddsUp == \A s \in Sessions : AddsUp(plan[s], shape[s].system + shape[s].task)

\* The K/V rows of all states, the engine's own memory and what was in memory of
\* the files at the last reading fit the ceiling together
\* (resource_governor.cpp:168-199), whatever other processes, evictions, loads on
\* demand and page faults do meanwhile, as long as no two requests read the
\* headroom before either allocated, and no state came from a file.  Pages that
\* come in after the reading are on top of it.
KvWithinReading ==
    ~overlap /\ ~restored /\ KvTokens > 0 => Private + seen <= Ceiling

\* Less memory never means less pressure: when nothing is freed the stage does
\* not fall (resource_governor.cpp:134-158).
Stage == assess_eviction_stage(Available, Rss)
StageMonotone ==
    [][others' >= others /\ Private' >= Private /\ Rss' >= Rss => Stage' >= Stage]_hostVars

\* "Strict memory allocation boundaries (50% max host RAM)" (README.md:41).
RamWithinCeiling == Rss <= Ceiling

\* "DenseLite will never use the GPU above a strict ResourcePolicy VRAM ceiling"
\* (README.md:39): the files assigned to the GPU fit it together.
GpuWithinCeiling ==
    SumFunctionOnSet(Size, gpu) <= Vram

\* "Compute budget ensuring generation reserve and system prompt are protected"
\* (context_engine.cpp:36): the compiled prompt is shorter than the context of
\* its turn, so that generate cuts nothing off its front (infer.cpp:419-421).
PromptFits ==
    \A s \in Sessions :
       at[s] \in {"alloc", "run"} => compress(shape[s], plan[s].max_input) < ctx[s]
=============================================================================
