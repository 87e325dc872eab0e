---------------------------- MODULE SessionTurns ----------------------------
(***************************************************************************)
(* What the turns of one session do to its SessionKVState and to its .kv   *)
(* file: generate matches the prompt with the cached tokens, skips the     *)
(* common prefix, computes the rest of the K/V cells one forward pass at a *)
(* time and remembers the tokens; save_to_disk writes the state and        *)
(* get_or_create restores it after an eviction or a restart.               *)
(*                                                                         *)
(* generate holds the state's mutex, so the turns of a session follow one  *)
(* another (SessionCache models how requests get there).  A cell is the    *)
(* token at one position and the model that computed its K/V; NoCell is    *)
(* memory that no forward pass has written (zeros).  All models have the   *)
(* same number of layers and K/V heads and the same head size.             *)
(***************************************************************************)
EXTENDS Integers, Sequences

CONSTANTS
    Tokens,         \* token ids (end of sequence is not one of them)
    Models, NoModel,
    Hash,           \* compute_model_hash of a model's config
    Identity, NoId, \* config.model_id; NoId is the empty string
    Broken,         \* models on which forward_pass fails
    Budgets,        \* context budgets the resource governor hands out
    MaxOutputs,     \* values of max_tokens
    MaxPrompt,      \* bound: length of a prompt
    NoCell, NoFile,
    EosInTime,      \* the model ends its answers before a limit does
    Unloads         \* what may take the state out of memory

ASSUME TokensAssumption == NoCell \notin Models \X Tokens
ASSUME ModelsAssumption ==
    /\ NoModel \notin Models
    /\ Broken \subseteq Models
    /\ DOMAIN Hash = Models
    /\ DOMAIN Identity = Models
\* infer_local refuses budgets below two; max_tokens is positive.
ASSUME BudgetAssumption ==
    /\ Budgets \subseteq Nat \ {0, 1}
    /\ MaxOutputs \subseteq Nat \ {0}
    /\ MaxPrompt \in Nat
ASSUME SwitchAssumption ==
    /\ EosInTime \in BOOLEAN
    /\ Unloads \subseteq {"evict", "restart", "torn"}

VARIABLES
    loaded,     \* the session has a SessionKVState in the map
    hdr,        \* the model whose hash and identity the state carries
    init,       \* is_initialized
    cached,     \* cached_tokens
    pos,        \* state.current_pos
    ctx,        \* max_context_allocated
    cells,      \* the rows of k_cache and v_cache; their length is the capacity
    file,       \* the session's .kv file
    pc,
    turn        \* the arguments of the request being served

stateVars == <<hdr, init, cached, pos, ctx, cells>>
vars == <<loaded, stateVars, file, pc, turn>>

Cells == (Models \X Tokens) \cup {NoCell}
Prompts == UNION {[1..n -> Tokens] : n \in 1..MaxPrompt}
Turns == [model : Models \cup {NoModel}, prompt : Seq(Tokens), ctx_len : Nat,
          left : Nat]
NoTurn == [model |-> NoModel, prompt |-> << >>, ctx_len |-> 0, left |-> 0]
Files == [hdr : Models, cached : Seq(Tokens), pos : Nat, ctx : Nat,
          cells : Seq(Cells)]

\* Every field holds what its C++ type can hold.
TypeOK ==
    /\ loaded \in BOOLEAN
    /\ hdr \in Models \cup {NoModel}
    /\ init \in BOOLEAN
    /\ cached \in Seq(Tokens)
    /\ pos \in Nat
    /\ ctx \in Nat
    /\ cells \in Seq(Cells)
    /\ file \in Files \cup {NoFile}
    /\ pc \in {"idle", "get", "begin", "prefill", "generate", "save"}
    /\ turn \in Turns

\* A SessionKVState as make_shared leaves it.
BlankState ==
    /\ init' = FALSE
    /\ cached' = << >>
    /\ pos' = 0
    /\ ctx' = 0
    /\ cells' = << >>

Init ==
    /\ loaded = FALSE
    /\ hdr = NoModel
    /\ init = FALSE
    /\ cached = << >>
    /\ pos = 0
    /\ ctx = 0
    /\ cells = << >>
    /\ file = NoFile
    /\ pc = "idle"
    /\ turn = NoTurn

Blanks(n) == [q \in 1..n |-> NoCell]

-----------------------------------------------------------------------------
(* infer_local asks for the session's state.                                *)

Request(m, prompt, budget, max_tokens) ==
    /\ pc = "idle"
    /\ turn' = [model |-> m, prompt |-> prompt, ctx_len |-> budget,
                left |-> max_tokens]
    /\ pc' = "get"
    /\ UNCHANGED <<loaded, stateVars, file>>

GetHit ==
    /\ pc = "get"
    /\ loaded
    /\ pc' = "begin"
    /\ UNCHANGED <<loaded, stateVars, file, turn>>

\* The checks on the header; an empty model_id switches the last one off.
Compatible(f, m) ==
    /\ Hash[f.hdr] = Hash[m]
    /\ Identity[m] # NoId => Identity[f.hdr] = Identity[m]

\* The file holds the cells below its current_pos; the others start as zeros.
GetRestored ==
    /\ pc = "get"
    /\ ~loaded
    /\ file # NoFile
    /\ Compatible(file, turn.model)
    /\ loaded' = TRUE
    /\ hdr' = turn.model
    /\ init' = TRUE
    /\ cached' = file.cached
    /\ pos' = file.pos
    /\ ctx' = file.ctx
    /\ cells' = [q \in 1..file.ctx |->
                     IF q <= Len(file.cells) THEN file.cells[q] ELSE NoCell]
    /\ pc' = "begin"
    /\ UNCHANGED <<file, turn>>

GetNew ==
    /\ pc = "get"
    /\ ~loaded
    /\ file # NoFile => ~Compatible(file, turn.model)
    /\ loaded' = TRUE
    /\ hdr' = turn.model
    /\ BlankState
    /\ pc' = "begin"
    /\ UNCHANGED <<file, turn>>

-----------------------------------------------------------------------------
(* generate.                                                                *)

\* Mutant: the last token of the prompt may be skipped as well.
MatchStops_Last(old, prompt, n) ==
    \/ n >= Len(old)
    \/ n >= Len(prompt)
    \/ old[n + 1] # prompt[n + 1]

\* The loop that skips tokens stops at the end of what is cached, before the last
\* token of the prompt, or at the first difference.
MatchStops(old, prompt, n) ==
    \/ n >= Len(old)
    \/ n >= Len(prompt) - 1
    \/ old[n + 1] # prompt[n + 1]

CommonLen(old, prompt) ==
    CHOOSE n \in 0..Len(old) :
        /\ MatchStops(old, prompt, n)
        /\ \A k \in 0..(n - 1) : ~MatchStops(old, prompt, k)

\* A prompt that does not fit keeps its last ctx_len - 1 tokens.
TooLong == Len(turn.prompt) >= turn.ctx_len
Kept == SubSeq(turn.prompt, Len(turn.prompt) - turn.ctx_len + 2, Len(turn.prompt))

\* init_inference_state resizes the vector of layers, which leaves the rows of
\* the layers it already has as they are.
InitRows(n) == IF cells = << >> THEN Blanks(n) ELSE cells

Begin ==
    /\ pc = "begin"
    /\ LET fresh == ~init \/ ctx < turn.ctx_len
           common == IF fresh THEN 0 ELSE CommonLen(cached, turn.prompt)
       IN  /\ cells' = IF fresh THEN InitRows(turn.ctx_len) ELSE cells
           /\ ctx' = IF fresh THEN turn.ctx_len ELSE ctx
           /\ cached' = IF fresh \/ TooLong THEN << >> ELSE cached
           /\ pos' = IF TooLong THEN 0 ELSE common
    /\ init' = TRUE
    /\ turn' = [turn EXCEPT !.prompt = IF TooLong THEN Kept ELSE @]
    /\ pc' = "prefill"
    /\ UNCHANGED <<loaded, hdr, file>>

\* forward_pass stores the cell only if it fits the row.
forward_pass(token) ==
    /\ turn.model \notin Broken
    /\ cells' = IF pos < Len(cells)
                THEN [cells EXCEPT ![pos + 1] = <<turn.model, token>>]
                ELSE cells

\* The index of the prefill loop is current_pos: both start at the common prefix.
PrefillMore == pos < Len(turn.prompt) - 1 /\ pos < turn.ctx_len - 1

Prefill ==
    /\ pc = "prefill"
    /\ PrefillMore
    /\ forward_pass(turn.prompt[pos + 1])
    /\ pos' = pos + 1
    /\ UNCHANGED <<loaded, hdr, init, cached, ctx, file, pc, turn>>

PrefillDone ==
    /\ pc = "prefill"
    /\ ~PrefillMore
    /\ cached' = turn.prompt
    /\ pc' = "generate"
    /\ UNCHANGED <<loaded, hdr, init, pos, ctx, cells, file, turn>>

\* Mutant: the context limit is off by one.
GenerateMore_OneMore == turn.left > 0 /\ pos < turn.ctx_len

GenerateMore == turn.left > 0 /\ pos < turn.ctx_len - 1

\* current_token is the last of cached_tokens.
CurrentToken == cached[Len(cached)]

\* Mutant: the token is not added to cached_tokens.
GenerateToken_Unrecorded(token) ==
    /\ pc = "generate"
    /\ GenerateMore
    /\ EosInTime => turn.left > 1 /\ pos + 1 < turn.ctx_len - 1
    /\ forward_pass(CurrentToken)
    /\ pos' = pos + 1
    /\ turn' = [turn EXCEPT !.left = @ - 1]
    /\ UNCHANGED <<loaded, hdr, init, cached, ctx, file, pc>>

GenerateToken(token) ==
    /\ pc = "generate"
    /\ GenerateMore
    /\ EosInTime => turn.left > 1 /\ pos + 1 < turn.ctx_len - 1
    /\ forward_pass(CurrentToken)
    /\ cached' = Append(cached, token)
    /\ pos' = pos + 1
    /\ turn' = [turn EXCEPT !.left = @ - 1]
    /\ UNCHANGED <<loaded, hdr, init, ctx, file, pc>>

GenerateEos ==
    /\ pc = "generate"
    /\ GenerateMore
    /\ forward_pass(CurrentToken)
    /\ pc' = "save"
    /\ UNCHANGED <<loaded, hdr, init, cached, pos, ctx, file, turn>>

GenerateLimit ==
    /\ pc = "generate"
    /\ ~GenerateMore
    /\ pc' = "save"
    /\ UNCHANGED <<loaded, stateVars, file, turn>>

\* The forward pass fails in either loop and generate returns.
Abort ==
    /\ \/ pc = "prefill" /\ PrefillMore
       \/ pc = "generate" /\ GenerateMore
    /\ turn.model \in Broken
    /\ pc' = "save"
    /\ UNCHANGED <<loaded, stateVars, file, turn>>

-----------------------------------------------------------------------------
(* The file.                                                                *)

\* save_to_disk_internal writes the cells below current_pos.
SavedState ==
    [hdr |-> hdr, cached |-> cached, pos |-> pos, ctx |-> ctx,
     cells |-> [q \in 1..pos |-> IF q <= Len(cells) THEN cells[q] ELSE NoCell]]

Save ==
    /\ pc = "save"
    /\ file' = SavedState
    /\ pc' = "idle"
    /\ turn' = NoTurn
    /\ UNCHANGED <<loaded, stateVars>>

\* Another session takes the place in memory.
Evict ==
    /\ "evict" \in Unloads
    /\ pc = "idle"
    /\ loaded
    /\ file' = IF init THEN SavedState ELSE file
    /\ loaded' = FALSE
    /\ hdr' = NoModel
    /\ BlankState
    /\ UNCHANGED <<pc, turn>>

\* The file is cut off in the header, which restores nothing, or in the K/V part:
\* rows are written layer by layer, so the last layers of every cell are missing
\* and read back as zeros.
TornFile ==
    \/ file' = NoFile
    \/ file' = [SavedState EXCEPT !.cells = Blanks(pos)]

\* The process ends, perhaps while it writes.
Restart ==
    /\ loaded
    /\ \/ "restart" \in Unloads /\ UNCHANGED file
       \/ "torn" \in Unloads /\ pc = "save" /\ TornFile
    /\ loaded' = FALSE
    /\ hdr' = NoModel
    /\ BlankState
    /\ pc' = "idle"
    /\ turn' = NoTurn

-----------------------------------------------------------------------------
Next ==
    \/ \E m \in Models, p \in Prompts, b \in Budgets, k \in MaxOutputs :
           Request(m, p, b, k)
    \/ GetHit
    \/ GetRestored
    \/ GetNew
    \/ Begin
    \/ Prefill
    \/ PrefillDone
    \/ \E t \in Tokens : GenerateToken(t)
    \/ GenerateEos
    \/ GenerateLimit
    \/ Abort
    \/ Save
    \/ Evict
    \/ Restart

Spec == Init /\ [][Next]_vars

-----------------------------------------------------------------------------
\* A turn never computes at or past its context limit, and what is remembered of
\* the conversation never outgrows the context that was allocated for it, over
\* changing budgets, truncated prompts, restores and aborted turns
\* (infer.cpp:395-462).
WithinContext ==
    /\ pc \in {"prefill", "generate"} => pos < turn.ctx_len
    /\ init => pos < ctx /\ Len(cached) <= ctx
    /\ file # NoFile => file.pos < file.ctx /\ Len(file.cached) <= file.ctx

\* Between turns every position below current_pos has its token in cached_tokens,
\* in memory and in the file: the prefix match never stops short of a cell that
\* is still read (infer.cpp:411, 452, 545).
CellsAreNamed ==
    /\ pc = "idle" /\ init => pos <= Len(cached)
    /\ file # NoFile => file.pos <= Len(file.cached)

Sent == IF pc = "prefill" THEN turn.prompt ELSE cached

\* "prefix delta matching (0 -> L skipped, delta prefill strictly L -> N)"
\* (README.md:29): every position before the one being computed holds the K/V of
\* the conversation's token at that position, computed by the model in use.
ReusedPrefixComputed ==
    pc \in {"prefill", "generate"} =>
        \A q \in 1..pos : q <= Len(cells) /\ cells[q] = <<turn.model, Sent[q]>>

\* "process only un-cached prompt tokens within allocated KV bounds"
\* (infer.cpp:441): a forward pass runs at a position its rows have room for.
KVWithinAllocation ==
    \/ pc = "prefill" /\ PrefillMore
    \/ pc = "generate" /\ GenerateMore
    => pos < Len(cells)

\* "validating multi-model architectures upon restoration to prevent cross-model
\* memory corruption" (README.md:30): what a model restores it has computed.
RestoredCellsAreOurs ==
    [][pc = "get" /\ ~loaded =>
          \A q \in 1..pos' : cells'[q] = NoCell \/ cells'[q][1] = turn.model]_vars
=============================================================================
