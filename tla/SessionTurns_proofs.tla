------------------------- MODULE SessionTurns_proofs -------------------------
(***************************************************************************)
(* Proofs about SessionTurns, for every vocabulary, every set of models    *)
(* and budgets and prompts of every length.                                *)
(***************************************************************************)
EXTENDS SessionTurns, SequenceTheorems, WellFoundedInduction, TLAPS

\* The request being served, as infer_local hands it to generate.
RequestInv ==
    pc # "idle" =>
        /\ turn.model \in Models
        /\ turn.ctx_len \in Budgets
        /\ turn.left \in Nat
        /\ turn.prompt # << >>

\* Only a loaded state is initialized or in use, and it has a header.
LoadedInv ==
    /\ init => loaded
    /\ loaded => hdr \in Models
    /\ pc \notin {"idle", "get"} => loaded
    /\ pc \in {"prefill", "generate", "save"} => init

\* Where the two loops of generate stand.  A broken model never gets past the
\* prefix it has matched.
LoopInv ==
    /\ pc \in {"prefill", "generate"} =>
           turn.ctx_len <= ctx /\ Len(turn.prompt) < turn.ctx_len
    /\ pc = "prefill" =>
           /\ pos < Len(turn.prompt)
           /\ turn.model \in Broken => pos <= Len(cached)
    /\ pc = "generate" => pos + 1 = Len(cached)

\* CellsAreNamed, from the end of generate on.
NamedInv ==
    /\ pc \notin {"prefill", "generate"} /\ init => pos <= Len(cached)
    /\ file # NoFile => file.pos <= Len(file.cached)

TurnInv ==
    /\ TypeOK
    /\ RequestInv
    /\ LoadedInv
    /\ LoopInv
    /\ NamedInv
    /\ WithinContext

-----------------------------------------------------------------------------
\* A nonempty set of naturals has a least element.
LEMMA LeastNatural ==
    ASSUME NEW T \in SUBSET Nat, T # {}
    PROVE  \E x \in T : \A y \in T : x <= y
<1>1. PICK x \in T : \A y \in T : ~ (<<y, x>> \in OpToRel(<, Nat))
  BY NatLessThanWellFounded, WFMin
<1>2. \A y \in T : ~(y < x)  BY <1>1 DEF OpToRel
<1>3. QED  BY <1>2

\* The prefix match returns a common prefix that leaves a token to compute.
LEMMA CommonPrefix ==
    ASSUME NEW old \in Seq(Tokens), NEW prompt \in Seq(Tokens), prompt # << >>
    PROVE  /\ CommonLen(old, prompt) \in 0..Len(old)
           /\ CommonLen(old, prompt) < Len(prompt)
           /\ \A i \in 1..CommonLen(old, prompt) : old[i] = prompt[i]
<1> DEFINE T == {n \in Nat : MatchStops(old, prompt, n)}
           Good(n) == /\ MatchStops(old, prompt, n)
                      /\ \A k \in 0..(n - 1) : ~MatchStops(old, prompt, k)
<1>1. Len(old) \in T  BY DEF MatchStops
<1>2. PICK n \in T : \A k \in T : n <= k  BY <1>1, LeastNatural
<1>3. n \in 0..Len(old) /\ Good(n)  BY <1>1, <1>2
<1>4. CommonLen(old, prompt) \in 0..Len(old) /\ Good(CommonLen(old, prompt))
  BY <1>3 DEF CommonLen
<1> DEFINE c == CommonLen(old, prompt)
<1>5. \A k \in 0..(c - 1) :
          k < Len(old) /\ k < Len(prompt) - 1 /\ old[k + 1] = prompt[k + 1]
  BY <1>4 DEF MatchStops
<1> HIDE DEF c
<1>6. Len(prompt) \in Nat \ {0}  OBVIOUS
<1>7. c < Len(prompt)
  <2>1. CASE c = 0  BY <2>1, <1>6
  <2>2. CASE c # 0
    <3>1. c - 1 \in 0..(c - 1)  BY <2>2, <1>4 DEF c
    <3>2. QED  BY <3>1, <1>5, <1>6, <1>4 DEF c
  <2>3. QED  BY <2>1, <2>2
<1>8. ASSUME NEW i \in 1..c PROVE old[i] = prompt[i]
  <2>1. i - 1 \in 0..(c - 1)  BY <1>4 DEF c
  <2>2. old[(i - 1) + 1] = prompt[(i - 1) + 1]  BY <2>1, <1>5
  <2>3. QED  BY <2>2, <1>4 DEF c
<1>9. QED  BY <1>4, <1>7, <1>8 DEF c

\* A function on 1..n is a sequence of length n.
LEMMA FunctionIsSeq ==
    ASSUME NEW S, NEW n \in Nat, NEW f \in [1..n -> S]
    PROVE  f \in Seq(S) /\ Len(f) = n
<1>1. f \in Seq(S)  BY SeqDef
<1>2. QED  BY <1>1, LenProperties

\* The prompts of the requests are sequences of tokens, never empty.
LEMMA PromptType ==
    ASSUME NEW p \in Prompts
    PROVE  p \in Seq(Tokens) /\ p # << >>
<1>1. PICK n \in 1..MaxPrompt : p \in [1..n -> Tokens]  BY DEF Prompts
<1>2. p \in Seq(Tokens) /\ Len(p) = n
  BY <1>1, FunctionIsSeq, BudgetAssumption
<1>3. QED  BY <1>2, EmptySeq

\* What truncation keeps: one token less than the context.
LEMMA KeptLength ==
    ASSUME turn \in Turns, TooLong, turn.ctx_len >= 2
    PROVE  Kept \in Seq(Tokens) /\ Len(Kept) = turn.ctx_len - 1
<1> DEFINE n == Len(turn.prompt)
           m == n - turn.ctx_len + 2
<1>1. turn.prompt \in Seq(Tokens) /\ turn.ctx_len \in Nat  BY DEF Turns
<1>2. n \in Nat /\ m \in 2..n  BY <1>1 DEF TooLong
<1>3. \A i \in m..n : turn.prompt[i] \in Tokens  BY <1>1, <1>2, ElementOfSeq
<1>4. /\ SubSeq(turn.prompt, m, n) \in Seq(Tokens)
      /\ Len(SubSeq(turn.prompt, m, n)) = n - m + 1
  BY <1>2, <1>3, SubSeqProperties
<1>5. QED  BY <1>1, <1>2, <1>4 DEF Kept

\* A forward pass leaves the rows a sequence of cells of the same length.
LEMMA ForwardRows ==
    ASSUME TypeOK, turn.model \in Models, NEW t \in Tokens, forward_pass(t)
    PROVE  cells' \in Seq(Cells) /\ Len(cells') = Len(cells)
<1>1. <<turn.model, t>> \in Cells  BY DEF Cells
<1>2. CASE pos < Len(cells)
  <2>1. pos + 1 \in 1..Len(cells)  BY <1>2 DEF TypeOK
  <2>2. cells' = [cells EXCEPT ![pos + 1] = <<turn.model, t>>]
    BY <1>2 DEF forward_pass
  <2>3. QED  BY <1>1, <2>1, <2>2, ExceptSeq DEF TypeOK
<1>3. CASE ~(pos < Len(cells))  BY <1>3 DEF forward_pass, TypeOK
<1>4. QED  BY <1>2, <1>3

\* What is saved has the type of a file, and carries the state's bounds over.
LEMMA SavedIsFile ==
    ASSUME TypeOK, hdr \in Models
    PROVE  /\ SavedState \in Files
           /\ [SavedState EXCEPT !.cells = Blanks(pos)] \in Files
<1> DEFINE row == [q \in 1..pos |-> IF q <= Len(cells) THEN cells[q] ELSE NoCell]
<1>1. \A q \in 1..pos : q <= Len(cells) => cells[q] \in Cells
  <2>1. ASSUME NEW q \in 1..pos, q <= Len(cells) PROVE cells[q] \in Cells
    BY <2>1, ElementOfSeq DEF TypeOK
  <2>2. QED  BY <2>1
<1>2. row \in [1..pos -> Cells]  BY <1>1 DEF Cells
<1>3. row \in Seq(Cells)  BY <1>2, FunctionIsSeq DEF TypeOK
<1>4. Blanks(pos) \in [1..pos -> Cells]  BY DEF Blanks, Cells
<1>5. Blanks(pos) \in Seq(Cells)  BY <1>4, FunctionIsSeq DEF TypeOK
<1> HIDE DEF row
<1>6. SavedState = [hdr |-> hdr, cached |-> cached, pos |-> pos, ctx |-> ctx,
                    cells |-> row]
  BY DEF SavedState, row
<1>7. QED  BY <1>3, <1>5, <1>6 DEF Files, TypeOK

-----------------------------------------------------------------------------
\* Every step keeps TurnInv, one action at a time.
LEMMA TurnStep ==
    ASSUME TurnInv, [Next]_vars
    PROVE  TurnInv'
<1> USE DEF TurnInv, RequestInv, LoadedInv, LoopInv, NamedInv, WithinContext
<1>0. /\ \A b \in Budgets : b \in Nat /\ b >= 2
      /\ \A k \in MaxOutputs : k \in Nat /\ k >= 1
  BY BudgetAssumption
<1>1. ASSUME NEW m \in Models, NEW p \in Prompts, NEW b \in Budgets,
             NEW k \in MaxOutputs, Request(m, p, b, k)
      PROVE  TurnInv'
  <2>1. p \in Seq(Tokens) /\ p # << >>  BY PromptType
  <2>2. turn' \in Turns  BY <1>0, <1>1, <2>1 DEF Request, Turns
  <2>3. QED  BY <1>0, <1>1, <2>1, <2>2 DEF Request, TypeOK, stateVars
<1>2. CASE GetHit
  BY <1>2 DEF GetHit, TypeOK, stateVars
<1>3. CASE GetRestored
  <2>1. file \in Files  BY <1>3 DEF GetRestored, TypeOK
  <2>2. cells' \in [1..file.ctx -> Cells]
    <3>1. ASSUME NEW q \in 1..file.ctx, q <= Len(file.cells)
          PROVE  file.cells[q] \in Cells
      BY <2>1, <3>1, ElementOfSeq DEF Files
    <3>2. QED  BY <1>3, <3>1 DEF GetRestored, Cells
  <2>3. cells' \in Seq(Cells)  BY <2>1, <2>2, FunctionIsSeq DEF Files
  <2>4. QED  BY <1>3, <2>1, <2>3 DEF GetRestored, TypeOK, Files
<1>4. CASE GetNew
  BY <1>4, EmptySeq DEF GetNew, BlankState, TypeOK
<1>5. CASE Begin
  <2>1. /\ turn \in Turns /\ turn.prompt \in Seq(Tokens) /\ turn.ctx_len \in Nat
        /\ turn.ctx_len >= 2 /\ turn.prompt # << >> /\ Len(turn.prompt) \in Nat \ {0}
        /\ cached \in Seq(Tokens) /\ Len(cached) \in Nat /\ ctx \in Nat
    BY <1>0, <1>5, EmptySeq DEF Begin, TypeOK, Turns
  <2> DEFINE common == CommonLen(cached, turn.prompt)
  <2>2. common \in 0..Len(cached) /\ common < Len(turn.prompt)
    BY <2>1, CommonPrefix
  <2> HIDE DEF common
  <2>3. cells' \in Seq(Cells)
    <3>1. Blanks(turn.ctx_len) \in [1..turn.ctx_len -> Cells]  BY DEF Blanks, Cells
    <3>2. Blanks(turn.ctx_len) \in Seq(Cells)  BY <2>1, <3>1, FunctionIsSeq
    <3>3. QED  BY <1>5, <3>2 DEF Begin, InitRows, TypeOK
  <2>4. /\ turn' \in Turns /\ turn'.model = turn.model /\ turn'.left = turn.left
        /\ turn'.ctx_len = turn.ctx_len
        /\ turn'.prompt \in Seq(Tokens) /\ Len(turn'.prompt) < turn.ctx_len
        /\ Len(turn'.prompt) >= 1
        /\ ~TooLong => turn'.prompt = turn.prompt
    <3>1. CASE TooLong
      <4>1. Kept \in Seq(Tokens) /\ Len(Kept) = turn.ctx_len - 1
        BY <2>1, <3>1, KeptLength
      <4>2. turn' = [turn EXCEPT !.prompt = Kept]  BY <1>5, <3>1 DEF Begin
      <4>3. QED  BY <2>1, <3>1, <4>1, <4>2 DEF Turns
    <3>2. CASE ~TooLong
      <4>1. turn' = turn  BY <1>5, <2>1, <3>2 DEF Begin, Turns
      <4>2. QED  BY <2>1, <3>2, <4>1 DEF TooLong
    <3>3. QED  BY <3>1, <3>2
  <2>5. /\ pos' \in Nat /\ pos' < Len(turn'.prompt) /\ pos' <= Len(cached')
        /\ cached' \in Seq(Tokens) /\ Len(cached') <= ctx'
        /\ ctx' \in Nat /\ ctx' >= turn.ctx_len
    <3>1. CASE TooLong
      BY <1>5, <2>1, <2>4, <3>1, EmptySeq DEF Begin
    <3>2. CASE ~TooLong /\ (~init \/ ctx < turn.ctx_len)
      BY <1>5, <2>1, <2>4, <3>2, EmptySeq DEF Begin
    <3>3. CASE ~TooLong /\ init /\ ~(ctx < turn.ctx_len)
      <4>1. pos' = common /\ cached' = cached /\ ctx' = ctx
        BY <1>5, <3>3 DEF Begin, common
      <4>2. QED  BY <2>1, <2>2, <2>4, <3>3, <4>1
    <3>4. QED  BY <3>1, <3>2, <3>3
  <2>6. turn'.prompt # << >>  BY <2>4
  <2>7. pc' = "prefill" /\ init' = TRUE /\ UNCHANGED <<loaded, hdr, file>>
    BY <1>5 DEF Begin
  <2>8. loaded /\ turn.model \in Models /\ turn.ctx_len \in Budgets /\ turn.left \in Nat
    BY <1>5 DEF Begin
  <2>9. QED  BY <2>1, <2>3, <2>4, <2>5, <2>6, <2>7, <2>8 DEF TypeOK
<1>6. CASE Prefill
  <2>1. pos + 1 \in 1..Len(turn.prompt) /\ turn.prompt \in Seq(Tokens)
    BY <1>6 DEF Prefill, PrefillMore, TypeOK, Turns
  <2>2. turn.prompt[pos + 1] \in Tokens  BY <2>1, ElementOfSeq
  <2>3. cells' \in Seq(Cells)  BY <1>6, <2>2, ForwardRows DEF Prefill
  <2>4. turn.model \notin Broken  BY <1>6 DEF Prefill, forward_pass
  <2>5. QED  BY <1>6, <2>1, <2>3, <2>4 DEF Prefill, PrefillMore, TypeOK, Turns
<1>7. CASE PrefillDone
  BY <1>7 DEF PrefillDone, PrefillMore, TypeOK, Turns
<1>8. ASSUME NEW t \in Tokens, GenerateToken(t)
      PROVE  TurnInv'
  <2>1. cached \in Seq(Tokens) /\ Len(cached) \in 1..Len(cached)
    BY <1>8 DEF GenerateToken, TypeOK
  <2>2. CurrentToken \in Tokens  BY <2>1, ElementOfSeq DEF CurrentToken
  <2>3. cells' \in Seq(Cells)  BY <1>8, <2>2, ForwardRows DEF GenerateToken
  <2>4. cached' \in Seq(Tokens) /\ Len(cached') = Len(cached) + 1
    BY <1>8, <2>1, AppendProperties DEF GenerateToken
  <2>5. /\ turn' \in Turns /\ turn'.left \in Nat
        /\ turn'.model = turn.model /\ turn'.prompt = turn.prompt
        /\ turn'.ctx_len = turn.ctx_len /\ turn.ctx_len \in Nat
    BY <1>8 DEF GenerateToken, GenerateMore, TypeOK, Turns
  <2>6. QED  BY <1>8, <2>3, <2>4, <2>5 DEF GenerateToken, GenerateMore, TypeOK
<1>9. CASE GenerateEos
  <2>1. cached \in Seq(Tokens) /\ Len(cached) \in 1..Len(cached)
    BY <1>9 DEF GenerateEos, TypeOK
  <2>2. CurrentToken \in Tokens  BY <2>1, ElementOfSeq DEF CurrentToken
  <2>3. cells' \in Seq(Cells)  BY <1>9, <2>2, ForwardRows DEF GenerateEos
  <2>4. QED  BY <1>9, <2>3 DEF GenerateEos, TypeOK
<1>10. CASE GenerateLimit
  BY <1>10 DEF GenerateLimit, TypeOK, stateVars
<1>11. CASE Abort
  BY <1>11 DEF Abort, TypeOK, stateVars
<1>12. CASE Save
  <2>1. SavedState \in Files  BY <1>12, SavedIsFile DEF Save
  <2>2. NoTurn \in Turns  BY EmptySeq DEF NoTurn, Turns
  <2>3. QED  BY <1>12, <2>1, <2>2 DEF Save, SavedState, TypeOK, stateVars
<1>13. CASE Evict
  <2>1. SavedState \in Files  BY <1>13, SavedIsFile DEF Evict
  <2>2. QED  BY <1>13, <2>1, EmptySeq DEF Evict, SavedState, BlankState, TypeOK
<1>14. CASE Restart
  <2>1. /\ file' \in Files \cup {NoFile}
        /\ file' # NoFile => /\ file'.pos < file'.ctx
                             /\ Len(file'.cached) <= file'.ctx
                             /\ file'.pos <= Len(file'.cached)
    <3>1. CASE UNCHANGED file  BY <3>1 DEF TypeOK
    <3>2. CASE pc = "save" /\ TornFile
      <4>1. [SavedState EXCEPT !.cells = Blanks(pos)] \in Files
        BY <3>2, SavedIsFile
      <4>2. QED  BY <3>2, <4>1 DEF TornFile, SavedState
    <3>3. QED  BY <1>14, <3>1, <3>2 DEF Restart
  <2>2. NoTurn \in Turns  BY EmptySeq DEF NoTurn, Turns
  <2>3. QED  BY <1>14, <2>1, <2>2, EmptySeq DEF Restart, BlankState, TypeOK
<1>15. CASE UNCHANGED vars
  BY <1>15 DEF vars, stateVars, TypeOK
<1>16. QED
  BY <1>1, <1>2, <1>3, <1>4, <1>5, <1>6, <1>7, <1>8, <1>9, <1>10, <1>11, <1>12,
     <1>13, <1>14, <1>15 DEF Next

\* TurnInv holds of every reachable state.
LEMMA TurnInvariant == Spec => []TurnInv
<1>1. Init => TurnInv
  <2>1. NoTurn \in Turns  BY EmptySeq DEF NoTurn, Turns
  <2>2. << >> \in Seq(Tokens) /\ << >> \in Seq(Cells)  BY EmptySeq
  <2>3. Init => TypeOK
    <3>1. SUFFICES ASSUME Init PROVE TypeOK  OBVIOUS
    <3>2. loaded \in BOOLEAN /\ init \in BOOLEAN  BY <3>1, Zenon DEF Init
    <3>3. /\ cached \in Seq(Tokens) /\ cells \in Seq(Cells) /\ turn \in Turns
          /\ pos \in Nat /\ ctx \in Nat
      BY <2>1, <2>2, <3>1 DEF Init
    <3>4. QED  BY <3>1, <3>2, <3>3 DEF Init, TypeOK
  <2>4. QED
    BY <2>3 DEF Init, TurnInv, RequestInv, LoadedInv, LoopInv, NamedInv, WithinContext
<1>2. QED  BY <1>1, TurnStep, PTL DEF Spec

\* Types, for every constant.
THEOREM TypeCorrect == Spec => []TypeOK
<1>1. TurnInv => TypeOK  BY DEF TurnInv
<1>2. QED  BY <1>1, TurnInvariant, PTL

\* No forward pass at or past the context limit, and no conversation longer than
\* the context allocated for it, whatever the budgets, prompts, aborted turns,
\* evictions, restarts and torn files.
THEOREM ContextSafe == Spec => []WithinContext
<1>1. TurnInv => WithinContext  BY DEF TurnInv
<1>2. QED  BY <1>1, TurnInvariant, PTL

\* Between turns every position below current_pos has its token, in memory and
\* in the file.
THEOREM CellsNamed == Spec => []CellsAreNamed
<1>1. TurnInv => CellsAreNamed  BY DEF TurnInv, NamedInv, CellsAreNamed
<1>2. QED  BY <1>1, TurnInvariant, PTL

-----------------------------------------------------------------------------
(* Reuse of the prefix is right for a session that stays in memory, keeps its *)
(* working model and its budget, and whose answers end before a limit does.   *)
(* The conditions are needed: the runs turns_limit, turns_restart,            *)
(* turns_growth and turns_models each drop one of them.                       *)

Steady ==
    /\ EosInTime
    /\ Unloads = {}
    /\ Broken = {}
    /\ \A m, n \in Models : m = n
    /\ \A b, c \in Budgets : b = c

\* The rows have room for the one context budget there is.
RowsInv ==
    /\ ~loaded => file = NoFile
    /\ init => ctx \in Budgets /\ Len(cells) = ctx
    /\ ~init => cells = << >>
    /\ pc # "idle" /\ pc # "save" => turn.left > 0

\* The cells a turn will find; the generation loop leaves through EOS only.
ReuseInv ==
    /\ pc = "prefill" =>
           \A q \in 1..pos : cells[q] = <<turn.model, turn.prompt[q]>>
    /\ pc = "generate" =>
           /\ GenerateMore
           /\ \A q \in 1..pos : cells[q] = <<turn.model, cached[q]>>
    /\ pc \notin {"prefill", "generate"} /\ init =>
           \A m \in Models : \A q \in 1..Len(cached) : cells[q] = <<m, cached[q]>>

\* A forward pass at a position of the rows writes that cell and no other.
LEMMA ForwardWrites ==
    ASSUME TypeOK, turn.model \in Models, NEW t \in Tokens, forward_pass(t),
           pos < Len(cells)
    PROVE  /\ Len(cells') = Len(cells)
           /\ cells'[pos + 1] = <<turn.model, t>>
           /\ \A q \in 1..pos : cells'[q] = cells[q]
<1>1. <<turn.model, t>> \in Cells  BY DEF Cells
<1>2. pos + 1 \in 1..Len(cells) /\ cells \in Seq(Cells)  BY DEF TypeOK
<1>3. cells' = [cells EXCEPT ![pos + 1] = <<turn.model, t>>]  BY DEF forward_pass
<1>4. /\ Len(cells') = Len(cells)
      /\ \A j \in 1..Len(cells) :
             cells'[j] = IF j = pos + 1 THEN <<turn.model, t>> ELSE cells[j]
  BY <1>1, <1>2, <1>3, ExceptSeq
<1>5. QED  BY <1>2, <1>4 DEF TypeOK

LEMMA ReuseStep ==
    ASSUME Steady, TurnInv, RowsInv, ReuseInv, [Next]_vars
    PROVE  RowsInv' /\ ReuseInv'
<1> USE DEF RowsInv
<1>0. /\ \A b \in Budgets : b \in Nat /\ b >= 2
      /\ \A k \in MaxOutputs : k \in Nat /\ k >= 1
      /\ TypeOK
      /\ RequestInv /\ LoadedInv /\ LoopInv
      /\ pos \in Nat /\ ctx \in Nat /\ turn \in Turns
      /\ Len(cached) \in Nat /\ Len(cells) \in Nat
  BY BudgetAssumption DEF TurnInv, TypeOK
<1>a. \A b, c \in Budgets : b = c  BY DEF Steady
<1>b. \A m, n \in Models : m = n  BY DEF Steady
<1>1. ASSUME NEW m \in Models, NEW p \in Prompts, NEW b \in Budgets,
             NEW k \in MaxOutputs, Request(m, p, b, k)
      PROVE  RowsInv' /\ ReuseInv'
  BY <1>0, <1>1 DEF Request, stateVars, ReuseInv
<1>2. CASE GetHit
  BY <1>2 DEF GetHit, stateVars, ReuseInv
<1>3. CASE GetRestored
  BY <1>3 DEF GetRestored
<1>4. CASE GetNew
  BY <1>4 DEF GetNew, BlankState, ReuseInv
<1>5. CASE Begin
  <2>1. /\ turn.prompt \in Seq(Tokens) /\ turn.prompt # << >>
        /\ cached \in Seq(Tokens) /\ turn.ctx_len \in Budgets
        /\ turn.model \in Models /\ turn.ctx_len \in Nat /\ turn.left > 0
    BY <1>0, <1>5 DEF Begin, RequestInv, TypeOK, Turns
  <2> DEFINE common == CommonLen(cached, turn.prompt)
  <2>2. /\ common \in 0..Len(cached)
        /\ \A i \in 1..common : cached[i] = turn.prompt[i]
    BY <2>1, CommonPrefix
  <2> HIDE DEF common
  <2>3. /\ turn'.model = turn.model /\ turn'.left = turn.left
        /\ ~TooLong => turn'.prompt = turn.prompt
        /\ pc' = "prefill" /\ init' = TRUE /\ loaded /\ UNCHANGED <<loaded, file>>
    BY <1>0, <1>5 DEF Begin, Turns, LoadedInv
  <2>4. Len(cells') = ctx' /\ ctx' \in Budgets
    <3>1. CASE init
      <4>1. ~(ctx < turn.ctx_len)  BY <1>0, <1>a, <2>1, <3>1
      <4>2. QED  BY <1>5, <3>1, <4>1 DEF Begin
    <3>2. CASE ~init
      <4>1. Blanks(turn.ctx_len) \in [1..turn.ctx_len -> Cells]
        BY DEF Blanks, Cells
      <4>2. Len(Blanks(turn.ctx_len)) = turn.ctx_len
        BY <2>1, <4>1, FunctionIsSeq
      <4>3. QED  BY <1>5, <2>1, <3>2, <4>2 DEF Begin, InitRows
    <3>3. QED  BY <3>1, <3>2
  <2>5. \A q \in 1..pos' : cells'[q] = <<turn'.model, turn'.prompt[q]>>
    <3>1. CASE TooLong \/ ~init
      <4>1. pos' = 0  BY <1>5, <3>1 DEF Begin
      <4>2. QED  BY <4>1
    <3>2. CASE ~TooLong /\ init
      <4>1. ~(ctx < turn.ctx_len)  BY <1>0, <1>a, <2>1, <3>2
      <4>2. pos' = common /\ cells' = cells
        BY <1>5, <3>2, <4>1 DEF Begin, common
      <4>3. \A q \in 1..Len(cached) : cells[q] = <<turn.model, cached[q]>>
        BY <1>5, <2>1, <3>2 DEF Begin, ReuseInv
      <4>4. QED  BY <1>0, <2>2, <2>3, <3>2, <4>2, <4>3
    <3>3. QED  BY <3>1, <3>2
  <2>6. RowsInv'  BY <2>1, <2>3, <2>4
  <2>7. ReuseInv'  BY <2>3, <2>5 DEF ReuseInv
  <2>8. QED  BY <2>6, <2>7
<1>6. CASE Prefill
  <2>1. /\ pos + 1 \in 1..Len(turn.prompt) /\ turn.prompt \in Seq(Tokens)
        /\ turn.model \in Models /\ pos < turn.ctx_len /\ init
        /\ turn.ctx_len <= ctx /\ turn.ctx_len \in Nat
    BY <1>0, <1>6 DEF Prefill, PrefillMore, Turns, RequestInv, LoadedInv, LoopInv
  <2>2. turn.prompt[pos + 1] \in Tokens  BY <2>1, ElementOfSeq
  <2>3. pos < Len(cells)  BY <1>0, <2>1
  <2>4. /\ Len(cells') = Len(cells)
        /\ cells'[pos + 1] = <<turn.model, turn.prompt[pos + 1]>>
        /\ \A q \in 1..pos : cells'[q] = cells[q]
    BY <1>0, <1>6, <2>1, <2>2, <2>3, ForwardWrites DEF Prefill
  <2>5. \A q \in 1..pos : cells[q] = <<turn.model, turn.prompt[q]>>
    BY <1>6 DEF Prefill, ReuseInv
  <2>6. /\ pos' = pos + 1 /\ UNCHANGED <<loaded, init, cached, ctx, file, pc, turn>>
        /\ pc = "prefill"
    BY <1>6 DEF Prefill
  <2>7. \A q \in 1..pos' : cells'[q] = <<turn.model, turn.prompt[q]>>
    BY <1>0, <2>4, <2>5, <2>6
  <2>8. RowsInv'  BY <2>1, <2>4, <2>6
  <2>9. ReuseInv'  BY <2>6, <2>7 DEF ReuseInv
  <2>10. QED  BY <2>8, <2>9
<1>7. CASE PrefillDone
  <2>1. /\ pos < Len(turn.prompt) /\ Len(turn.prompt) < turn.ctx_len
        /\ turn.ctx_len \in Nat /\ Len(turn.prompt) \in Nat
    BY <1>0, <1>7 DEF PrefillDone, LoopInv, Turns
  <2>2. pos = Len(turn.prompt) - 1  BY <1>0, <1>7, <2>1 DEF PrefillDone, PrefillMore
  <2>3. turn.left > 0 /\ pos < turn.ctx_len - 1
    BY <1>0, <1>7, <2>1, <2>2 DEF PrefillDone
  <2>4. QED  BY <1>0, <1>7, <2>2, <2>3 DEF PrefillDone, ReuseInv, GenerateMore
<1>8. ASSUME NEW t \in Tokens, GenerateToken(t)
      PROVE  RowsInv' /\ ReuseInv'
  <2>1. /\ cached \in Seq(Tokens) /\ Len(cached) \in 1..Len(cached)
        /\ pos + 1 = Len(cached) /\ turn.model \in Models /\ init
        /\ turn.ctx_len <= ctx /\ turn.ctx_len \in Nat /\ turn.left \in Nat
        /\ pc = "generate"
    BY <1>0, <1>8
    DEF GenerateToken, TypeOK, RequestInv, LoadedInv, LoopInv, Turns
  <2>2. CurrentToken \in Tokens  BY <2>1, ElementOfSeq DEF CurrentToken
  <2>3. pos < Len(cells)  BY <1>0, <1>8, <2>1 DEF GenerateToken, GenerateMore
  <2>4. /\ Len(cells') = Len(cells)
        /\ cells'[pos + 1] = <<turn.model, CurrentToken>>
        /\ \A q \in 1..pos : cells'[q] = cells[q]
    BY <1>0, <1>8, <2>1, <2>2, <2>3, ForwardWrites DEF GenerateToken
  <2>5. /\ \A i \in 1..Len(cached) : cached'[i] = cached[i]
        /\ pos' = pos + 1
        /\ UNCHANGED <<loaded, init, ctx, file, pc>>
    BY <1>8, <2>1, AppendProperties DEF GenerateToken
  <2>6. \A q \in 1..pos : cells[q] = <<turn.model, cached[q]>>
    BY <2>1 DEF ReuseInv
  <2>7. turn'.model = turn.model /\ turn'.ctx_len = turn.ctx_len /\ turn'.left = turn.left - 1
    BY <1>0, <1>8 DEF GenerateToken, Turns
  <2>8. \A q \in 1..pos' : cells'[q] = <<turn'.model, cached'[q]>>
    BY <1>0, <2>1, <2>4, <2>5, <2>6, <2>7 DEF CurrentToken
  <2>9. turn'.left > 0 /\ pos' < turn'.ctx_len - 1
    BY <1>8, <2>1, <2>5, <2>7 DEF GenerateToken, Steady
  <2>10. RowsInv'  BY <2>1, <2>4, <2>5, <2>9
  <2>11. ReuseInv'  BY <2>1, <2>5, <2>8, <2>9 DEF ReuseInv, GenerateMore
  <2>12. QED  BY <2>10, <2>11
<1>9. CASE GenerateEos
  <2>1. /\ cached \in Seq(Tokens) /\ Len(cached) \in 1..Len(cached)
        /\ pos + 1 = Len(cached) /\ turn.model \in Models /\ init
        /\ turn.ctx_len <= ctx /\ turn.ctx_len \in Nat
        /\ pc = "generate"
    BY <1>0, <1>9
    DEF GenerateEos, TypeOK, RequestInv, LoadedInv, LoopInv, Turns
  <2>2. CurrentToken \in Tokens  BY <2>1, ElementOfSeq DEF CurrentToken
  <2>3. pos < Len(cells)  BY <1>0, <1>9, <2>1 DEF GenerateEos, GenerateMore
  <2>4. /\ Len(cells') = Len(cells)
        /\ cells'[pos + 1] = <<turn.model, CurrentToken>>
        /\ \A q \in 1..pos : cells'[q] = cells[q]
    BY <1>0, <1>9, <2>1, <2>2, <2>3, ForwardWrites DEF GenerateEos
  <2>5. pc' = "save" /\ UNCHANGED <<loaded, init, cached, pos, ctx, file, turn>>
    BY <1>9 DEF GenerateEos
  <2>6. \A q \in 1..pos : cells[q] = <<turn.model, cached[q]>>
    BY <2>1 DEF ReuseInv
  <2>7. \A q \in 1..Len(cached) : cells'[q] = <<turn.model, cached[q]>>
    BY <1>0, <2>1, <2>4, <2>6 DEF CurrentToken
  <2>8. \A m \in Models : m = turn.model  BY <1>b, <2>1
  <2>9. RowsInv'  BY <2>1, <2>4, <2>5
  <2>10. ReuseInv'  BY <2>5, <2>7, <2>8 DEF ReuseInv
  <2>11. QED  BY <2>9, <2>10
<1>10. CASE GenerateLimit
  BY <1>10 DEF GenerateLimit, ReuseInv
<1>11. CASE Abort
  BY <1>11 DEF Abort, Steady
<1>12. CASE Save
  <2>1. loaded /\ init  BY <1>0, <1>12 DEF Save, LoadedInv
  <2>2. QED  BY <1>12, <2>1 DEF Save, stateVars, ReuseInv
<1>13. CASE Evict
  BY <1>13 DEF Evict, Steady
<1>14. CASE Restart
  BY <1>14 DEF Restart, Steady
<1>15. CASE UNCHANGED vars
  BY <1>15 DEF vars, stateVars, ReuseInv, GenerateMore
<1>16. QED
  BY <1>1, <1>2, <1>3, <1>4, <1>5, <1>6, <1>7, <1>8, <1>9, <1>10, <1>11, <1>12,
     <1>13, <1>14, <1>15 DEF Next

\* In a steady session every skipped position holds the K/V of its own token: the
\* delta prefill is right for conversations of any length.
THEOREM ReuseSound ==
    ASSUME Steady
    PROVE  Spec => []ReusedPrefixComputed
<1>1. Init => RowsInv /\ ReuseInv
  BY EmptySeq DEF Init, RowsInv, ReuseInv
<1>2. TurnInv /\ RowsInv /\ ReuseInv /\ [Next]_vars => RowsInv' /\ ReuseInv'
  BY ReuseStep
<1>3. TurnInv /\ RowsInv /\ ReuseInv => ReusedPrefixComputed
  <2>1. SUFFICES ASSUME TurnInv, RowsInv, ReuseInv, pc \in {"prefill", "generate"},
                        NEW q \in 1..pos
                 PROVE  q <= Len(cells) /\ cells[q] = <<turn.model, Sent[q]>>
    BY DEF ReusedPrefixComputed
  <2>2. q <= Len(cells)
    BY <2>1 DEF TurnInv, TypeOK, WithinContext, LoadedInv, RowsInv
  <2>3. cells[q] = <<turn.model, Sent[q]>>  BY <2>1 DEF ReuseInv, Sent
  <2>4. QED  BY <2>2, <2>3
<1>4. QED  BY <1>1, <1>2, <1>3, TurnInvariant, PTL DEF Spec
=============================================================================
