---------------------------- MODULE MemoryIndex ----------------------------
(***************************************************************************)
(* Persistent memory: the rows of the memories table, the TurboQuant index *)
(* over their embeddings with the file it is saved to, and the entries     *)
(* PersistentMemory keeps in RAM.  MemoryStore writes a row, then the      *)
(* index, then the index file, all under its mutex_; the process may die   *)
(* between any two of these.  On start the index comes from its file and   *)
(* the RAM entries from the rows; neither is compared with the other.      *)
(*                                                                         *)
(* An embedding is the value it was made from.  A query vector gives every *)
(* value two scores: the index computes one from rotated components that   *)
(* are quantised to four bits, the scan over the rows converts the cosine  *)
(* to another.  Neither determines the other.  The session scope, the      *)
(* confidence, the access count and the times of an entry do not decide    *)
(* what is stored or found and are left out.                               *)
(***************************************************************************)
EXTENDS Integers, Sequences, FiniteSets

CONSTANTS
    Threads,
    Keys, Values, Workspaces, Visibilities,
    LongKeys,         \* keys of more than 4096 bytes
    AnyWorkspace,     \* the empty workspace_id of a filter
    DefaultWorkspace, \* "default"
    Public,           \* "public"
    Shared,           \* "workspace", the visibility of a new entry
    Filters,          \* the scopes that are asked for
    Queries,          \* some query vectors that are not zero
    One,              \* the score 1.0; scores are counted in parts of it
    Threshold, Limit, \* arguments of query_memories_vector
    Entries,          \* what callers of put_memory store
    Facts,            \* the facts of the sessions that are consolidated
    None, Torn,       \* no thread; an index file that was cut short
    MaxWrites,        \* bound: calls that write
    MaxFaults         \* bound: crashes, failed saves and failed statements

Statuses == {"active", "superseded"}
Entry == [value : Values, workspace : Workspaces, visibility : Visibilities,
          status : Statuses]
Slot == [id : Keys, value : Values, active : BOOLEAN]
Filter == [workspace : Workspaces \cup {AnyWorkspace},
           visible : SUBSET Visibilities]
Fact == [key : Keys, entry : Entry]
\* What the index computes for every value, and the cosine of its embedding.
Query == [index : [Values -> Int], cosine : [Values -> Int]]

ASSUME NamesAssumption ==
    /\ DefaultWorkspace \in Workspaces /\ AnyWorkspace \notin Workspaces
    /\ {Public, Shared} \subseteq Visibilities
    /\ LongKeys \subseteq Keys /\ Values # {}
    /\ None \notin Threads /\ Torn \notin Seq(Slot)
ASSUME EntriesAssumption == Entries \subseteq Entry
ASSUME FactsAssumption == Facts \subseteq Seq([key : Keys, value : Values])
ASSUME QueriesAssumption ==
    /\ Queries \subseteq Query /\ Threshold \in Int /\ One \in Nat \ {0}
    /\ Filters \subseteq Filter
ASSUME BoundsAssumption == MaxWrites \in Nat /\ MaxFaults \in Nat /\ Limit \in Nat

VARIABLES
    rows,        \* memories: the entry of every key that has a row
    slots,       \* vectors_ with id_by_index_
    index_by_id, \* index_by_id_
    file,        \* the slots in the index file
    entries,     \* entries_ of PersistentMemory
    mutex,       \* mutex_ of the store: the thread inside a write
    pc,          \* where each thread is
    op,          \* the call it makes
    todo,        \* the keys and entries it has yet to write
    archives,    \* rows of consolidated_archives
    lost,        \* keys whose slot was left behind by a crash
    unsaved,     \* keys written since the index file was
    wiped,       \* a start found an index file it could not read
    writes, faults

indexVars == <<slots, index_by_id>>
storeVars == <<rows, indexVars, file>>
callVars == <<mutex, pc, op, todo>>
historyVars == <<lost, unsaved, wiped>>
vars == <<storeVars, entries, callVars, archives, historyVars, writes, faults>>

With(f, k, v) == [x \in DOMAIN f \cup {k} |-> IF x = k THEN v ELSE f[x]]
Without(f, k) == [x \in DOMAIN f \ {k} |-> f[x]]

(***************************************************************************)
(* The index: an id keeps its slot for good, remove only marks it.         *)
(***************************************************************************)
add_Appends(k, v) ==
    /\ slots' = Append(slots, [id |-> k, value |-> v, active |-> TRUE])
    /\ index_by_id' = With(index_by_id, k, Len(slots) + 1)
add_KeepsMark(k, v) ==
    IF k \in DOMAIN index_by_id
      THEN slots' = [slots EXCEPT ![index_by_id[k]].value = v] /\ UNCHANGED index_by_id
      ELSE add_Appends(k, v)
add(k, v) ==
    LET slot == [id |-> k, value |-> v, active |-> TRUE]
    IN  IF k \in DOMAIN index_by_id
          THEN /\ slots' = [slots EXCEPT ![index_by_id[k]] = slot]
               /\ UNCHANGED index_by_id
          ELSE /\ slots' = Append(slots, slot)
               /\ index_by_id' = With(index_by_id, k, Len(slots) + 1)

remove(k) ==
    /\ slots' = IF k \in DOMAIN index_by_id
                  THEN [slots EXCEPT ![index_by_id[k]].active = FALSE]
                  ELSE slots
    /\ UNCHANGED index_by_id

\* A file that is cut short, or holds a key that is too long, is not loaded
\* at all.
Readable(f) == f # Torn /\ \A i \in DOMAIN f : f[i].id \notin LongKeys
load(f) == IF Readable(f) THEN f ELSE <<>>
PositionsOf(s) == [k \in {s[i].id : i \in DOMAIN s} |->
                     CHOOSE i \in DOMAIN s : s[i].id = k]

(***************************************************************************)
(* Queries.                                                                *)
(***************************************************************************)
InWorkspace(f, e) ==
    \/ f.workspace \in {AnyWorkspace, e.workspace}
    \/ e.workspace = DefaultWorkspace
    \/ e.visibility = Public
matches(f, e) ==
    e.status = "active" /\ InWorkspace(f, e) /\ e.visibility \in f.visible

\* The keys the allowlist is built from: the visibility is not looked at.
Allowed(f) ==
    {k \in DOMAIN rows : rows[k].status = "active" /\ InWorkspace(f, rows[k])}
build_allowlist_mask(ids) == {index_by_id[k] : k \in ids \cap DOMAIN index_by_id}

\* The heap of search after slot j was offered to it; q is what the index computes.
Better(q, i, j) ==
    \/ q[slots[i].value] > q[slots[j].value]
    \/ q[slots[i].value] = q[slots[j].value] /\ i > j
Offer(q, heap, j) ==
    LET top == CHOOSE i \in heap : \A h \in heap \ {i} : Better(q, h, i)
    IN  CASE Cardinality(heap) < Limit -> heap \cup {j}
          [] OTHER -> IF q[slots[j].value] > q[slots[top].value]
                        THEN (heap \ {top}) \cup {j} ELSE heap
search_Unmasked(q, mask) ==
    LET heap[n \in 0..Len(slots)] ==
          IF n = 0 THEN {}
          ELSE IF slots[n].active THEN Offer(q, heap[n - 1], n) ELSE heap[n - 1]
    IN  IF Limit = 0 THEN {} ELSE heap[Len(slots)]
\* heap[n] is the heap after the first n slots were looked at.
search(q, mask) ==
    LET heap[n \in 0..Len(slots)] ==
          IF n = 0 THEN {}
          ELSE IF n \in mask /\ slots[n].active THEN Offer(q, heap[n - 1], n)
               ELSE heap[n - 1]
    IN  IF Limit = 0 THEN {} ELSE heap[Len(slots)]

\* query_memories_vector with an index, as a set of keys and scores.
query_indexed(q, f) ==
    LET hits == search(q.index, build_allowlist_mask(Allowed(f)))
    IN  {<<slots[j].id, q.index[slots[j].value]>> :
           j \in {i \in hits : /\ q.index[slots[i].value] >= Threshold
                               /\ slots[i].id \in DOMAIN rows
                               /\ matches(f, rows[slots[i].id])}}

\* The scan without an index (an empty zvec_path): the rows it scores, before it
\* keeps the best.  It moves a cosine from -1..1 to 0..1 and compares that with
\* the same threshold.
cosine_similarity(c) ==
    LET s == (c + One) \div 2
    IN  IF s < 0 THEN 0 ELSE IF s > One THEN One ELSE s
Scanned(q, f) ==
    LET score == [v \in Values |-> cosine_similarity(q.cosine[v])]
    IN  {<<k, score[rows[k].value]>> :
           k \in {x \in DOMAIN rows : /\ matches(f, rows[x])
                                      /\ score[rows[x].value] >= Threshold}}

\* recall, for a text every memory contains: the RAM entries first, then the
\* rows query_memories_keyword finds.
query_keyword(f) ==
    {k \in DOMAIN rows : /\ f.workspace \in {AnyWorkspace, rows[k].workspace}
                         /\ matches(f, rows[k])}
recall(f) ==
    {k \in DOMAIN entries : matches(f, entries[k])} \cup query_keyword(f)

(***************************************************************************)
(* Calls.                                                                  *)
(***************************************************************************)
DefaultFilter == [workspace |-> AnyWorkspace, visible |-> {Public, Shared}]

\* load_all_persistent into PersistentMemory.
LoadEntries ==
    [k \in {x \in DOMAIN rows : matches(DefaultFilter, rows[x])} |-> rows[k]]

Init ==
    /\ rows = [k \in {} |-> k] /\ slots = <<>> /\ index_by_id = [k \in {} |-> k]
    /\ file = <<>> /\ entries = [k \in {} |-> k]
    /\ mutex = None
    /\ pc = [t \in Threads |-> "idle"] /\ op = [t \in Threads |-> "none"]
    /\ todo = [t \in Threads |-> <<>>]
    /\ archives = 0
    /\ lost = {} /\ unsaved = {} /\ wiped = FALSE
    /\ writes = 0 /\ faults = 0

Begin(t, call, facts) ==
    /\ pc[t] = "idle" /\ writes < MaxWrites
    /\ op' = [op EXCEPT ![t] = call]
    /\ todo' = [todo EXCEPT ![t] = facts]
    /\ pc' = [pc EXCEPT ![t] = IF facts = <<>> THEN "archive" ELSE "row"]
    /\ writes' = writes + 1
    /\ UNCHANGED <<storeVars, entries, mutex, archives, historyVars, faults>>

put_memory(t) ==
    \E k \in Keys, e \in Entries : Begin(t, "put", <<[key |-> k, entry |-> e]>>)

\* What extract_facts makes of a fact.
FactEntry(v) ==
    [value |-> v, workspace |-> DefaultWorkspace, visibility |-> Shared,
     status |-> "active"]

\* Two calls that use the key only.
NoEntry == FactEntry(CHOOSE v \in Values : TRUE)
delete_memory(t) ==
    \E k \in Keys : Begin(t, "delete", <<[key |-> k, entry |-> NoEntry]>>)
supersede_memory(t) ==
    \E k \in Keys : Begin(t, "supersede", <<[key |-> k, entry |-> NoEntry]>>)

consolidate(t) ==
    \E s \in Facts :
       Begin(t, "consolidate",
             [i \in DOMAIN s |-> [key |-> s[i].key, entry |-> FactEntry(s[i].value)]])

Key(t) == Head(todo[t]).key
New(t) == Head(todo[t]).entry
Goto(t, l) ==
    /\ pc' = [pc EXCEPT ![t] = l]
    /\ op' = [op EXCEPT ![t] = IF l = "idle" THEN "none" ELSE @]
    /\ todo' = [todo EXCEPT ![t] = IF l = "idle" THEN <<>> ELSE @]

\* The call of the store returns, to the consolidator or to the caller.
Return(t) == Goto(t, IF op[t] = "consolidate" THEN "entry" ELSE "idle")

\* The statements.  An upsert keeps the scope the row already has.
Upsert(k, e) ==
    IF k \in DOMAIN rows
      THEN [rows EXCEPT ![k].value = e.value, ![k].status = e.status]
      ELSE With(rows, k, e)

WriteRow(t) ==
    /\ pc[t] = "row" /\ mutex = None /\ op[t] # "supersede"
    /\ rows' = IF op[t] = "delete" THEN Without(rows, Key(t)) ELSE Upsert(Key(t), New(t))
    /\ mutex' = t
    /\ Goto(t, "index")
    /\ unsaved' = unsaved \cup {Key(t)}
    /\ UNCHANGED <<indexVars, file, entries, archives, lost, wiped, writes, faults>>

Supersede(t) ==
    /\ pc[t] = "row" /\ mutex = None /\ op[t] = "supersede"
    /\ rows' = IF Key(t) \in DOMAIN rows
                 THEN [rows EXCEPT ![Key(t)].status = "superseded"] ELSE rows
    /\ Return(t)
    /\ UNCHANGED <<indexVars, file, entries, mutex, archives, historyVars, writes, faults>>

StatementFails(t) ==
    /\ pc[t] = "row" /\ mutex = None /\ faults < MaxFaults
    /\ faults' = faults + 1
    /\ Return(t)
    /\ UNCHANGED <<storeVars, entries, mutex, archives, historyVars, writes>>

WriteIndex(t) ==
    /\ pc[t] = "index"
    /\ IF op[t] = "delete" THEN remove(Key(t)) ELSE add(Key(t), New(t).value)
    /\ Goto(t, "save")
    /\ lost' = lost \ {Key(t)}
    /\ UNCHANGED <<rows, file, entries, mutex, archives, unsaved, wiped, writes, faults>>

\* save: to a temporary file that is renamed.
save_Skipped(t) ==
    /\ pc[t] = "save"
    /\ mutex' = None /\ Return(t)
    /\ UNCHANGED <<storeVars, entries, archives, historyVars, writes, faults>>
save(t) ==
    /\ pc[t] = "save"
    /\ file' = slots /\ unsaved' = {}
    /\ mutex' = None /\ Return(t)
    /\ UNCHANGED <<rows, indexVars, entries, archives, lost, wiped, writes, faults>>

\* The temporary file cannot be opened, or it is cut short and renamed all
\* the same; put_memory and delete_memory look at neither.
SaveFails(t) ==
    /\ pc[t] = "save" /\ faults < MaxFaults
    /\ file' \in {file, Torn}
    /\ faults' = faults + 1
    /\ mutex' = None /\ Return(t)
    /\ UNCHANGED <<rows, indexVars, entries, archives, historyVars, writes>>

\* set_entry, and on to the next fact.
SetEntry(t) ==
    /\ pc[t] = "entry"
    /\ entries' = With(entries, Key(t), New(t))
    /\ todo' = [todo EXCEPT ![t] = Tail(@)]
    /\ pc' = [pc EXCEPT ![t] = IF Tail(todo[t]) = <<>> THEN "archive" ELSE "row"]
    /\ UNCHANGED <<storeVars, op, mutex, archives, historyVars, writes, faults>>

save_archive(t) ==
    /\ pc[t] = "archive" /\ mutex = None
    /\ archives' = archives + 1
    /\ Goto(t, "idle")
    /\ UNCHANGED <<storeVars, entries, mutex, historyVars, writes, faults>>

\* get_memory, the queries and touch_memory take mutex_ and write nothing that
\* is modelled.
Ask(t) == pc[t] = "idle" /\ mutex = None /\ UNCHANGED vars

\* The process ends at any point and a new one runs init.
Restart ==
    /\ faults < MaxFaults
    /\ slots' = load(file) /\ index_by_id' = PositionsOf(load(file))
    /\ entries' = LoadEntries
    /\ mutex' = None
    /\ pc' = [t \in Threads |-> "idle"] /\ op' = [t \in Threads |-> "none"]
    /\ todo' = [t \in Threads |-> <<>>]
    /\ lost' = IF Readable(file) THEN lost \cup unsaved ELSE Keys
    /\ wiped' = (wiped \/ ~Readable(file))
    /\ unsaved' = {}
    /\ faults' = faults + 1
    /\ UNCHANGED <<rows, file, archives, writes>>

Call(t) ==
    \/ put_memory(t) \/ delete_memory(t) \/ supersede_memory(t) \/ consolidate(t)
    \/ Ask(t)
Step(t) ==
    \/ WriteRow(t) \/ Supersede(t) \/ StatementFails(t) \/ WriteIndex(t)
    \/ save(t) \/ SaveFails(t) \/ SetEntry(t) \/ save_archive(t)
Next == Restart \/ \E t \in Threads : Call(t) \/ Step(t)

Spec == Init /\ [][Next]_vars

(***************************************************************************)
(* Properties.                                                             *)
(***************************************************************************)
\* TypeOK: every variable has its type, index_by_id_ is the inverse of id_by_index_
\* (no id has two slots, turboquant_index.cpp:110), and mutex_ is held by
\* exactly the thread that is between its row and its save.
RowsOK ==
    /\ DOMAIN rows \subseteq Keys /\ rows \in [DOMAIN rows -> Entry]
    /\ DOMAIN entries \subseteq Keys /\ entries \in [DOMAIN entries -> Entry]
    /\ archives \in Nat
SlotsOK ==
    /\ slots \in Seq(Slot)
    /\ DOMAIN index_by_id \subseteq Keys
    /\ index_by_id \in [DOMAIN index_by_id -> 1..Len(slots)]
    /\ \A k \in DOMAIN index_by_id : slots[index_by_id[k]].id = k
    /\ \A i \in 1..Len(slots) :
          slots[i].id \in DOMAIN index_by_id /\ index_by_id[slots[i].id] = i
    /\ file \in Seq(Slot) \cup {Torn}
CallsOK ==
    /\ pc \in [Threads -> {"idle", "row", "index", "save", "entry", "archive"}]
    /\ op \in [Threads -> {"none", "put", "delete", "supersede", "consolidate"}]
    /\ todo \in [Threads -> Seq(Fact)]
    /\ \A t \in Threads : pc[t] \in {"row", "index", "save", "entry"} => todo[t] # <<>>
    /\ mutex \in Threads \cup {None}
    /\ \A t \in Threads : mutex = t <=> pc[t] \in {"index", "save"}
HistoryOK ==
    /\ lost \subseteq Keys /\ unsaved \subseteq Keys /\ wiped \in BOOLEAN
    /\ writes \in 0..MaxWrites /\ faults \in 0..MaxFaults
TypeOK == RowsOK /\ SlotsOK /\ CallsOK /\ HistoryOK

\* The slots s, with the positions p, say of key k what its row says.
Agrees(s, p, k) ==
    IF k \in DOMAIN rows
      THEN k \in DOMAIN p /\ s[p[k]].active /\ s[p[k]].value = rows[k].value
      ELSE k \in DOMAIN p => ~s[p[k]].active

\* Outside a write, the index holds exactly the embeddings of the rows, except
\* for keys a crash caught between the commit of their row and the save of the
\* index (memory_store.cpp:203-206, 243-246) and that were not written since;
\* a delete followed by a new put of the same key included
\* (turboquant_index.cpp:112).
IndexFollowsRows ==
    \A k \in Keys \ lost :
       \/ \E t \in Threads : pc[t] = "index" /\ Key(t) = k
       \/ Agrees(slots, index_by_id, k)

\* A crash or a failed save costs one key at most, however many writes came
\* before it, until a start finds an index file it cannot read.
DamageBounded ==
    wiped \/ Cardinality(lost \cup unsaved) <= faults + (IF mutex = None THEN 0 ELSE 1)

\* The rows in the scope of f that score Threshold or more by what the index is to
\* compute for their values.
Ranked(q, f) ==
    {<<k, q.index[rows[k].value]>> :
       k \in {x \in DOMAIN rows : /\ matches(f, rows[x])
                                  /\ q.index[rows[x].value] >= Threshold}}

\* got are the best of all: as many as the limit allows, and none left out is better.
BestOf(got, all) ==
    /\ got \subseteq all
    /\ Cardinality(got) = IF Cardinality(all) < Limit THEN Cardinality(all) ELSE Limit
    /\ \A r \in got, x \in all \ got : r[2] >= x[2]

\* With no key lost, a query through the index (memory_store.cpp:333-393) covers
\* every row: slots, mask, heap, threshold and the second filter together lose no
\* row in scope that the index scores higher than one it returns, and return none
\* that is deleted, superseded, out of scope or scored by an old value.
QueryFindsBest ==
    mutex = None /\ lost = {} =>
       \A q \in Queries, f \in Filters : BestOf(query_indexed(q, f), Ranked(q, f))

\* The index and the scan (memory_store.cpp:333-393, 395-429) find the same rows
\* for the same threshold, as far as the limit allows.
ScanAgrees ==
    mutex = None /\ lost = {} =>
       \A q \in Queries, f \in Filters :
          LET found(answer) == {r[1] : r \in answer}
              all == found(Scanned(q, f))
          IN  /\ found(query_indexed(q, f)) \subseteq all
              /\ Cardinality(query_indexed(q, f)) =
                    IF Cardinality(all) < Limit THEN Cardinality(all) ELSE Limit

\* What recall finds is in the store and active there: a memory that was
\* deleted or superseded is not recalled from RAM (memory_recall.cpp:50-63).
RecallFollowsRows ==
    (\A t \in Threads : pc[t] = "idle") =>
       \A f \in Filters, k \in Keys :
          k \in recall(f) => k \in DOMAIN rows /\ rows[k].status = "active"

\* Every active row is found by a query that matches its value and asks for as
\* many results as there are rows.
RowsAreFound ==
    mutex = None /\ Cardinality(DOMAIN rows) <= Limit =>
       \A q \in Queries, f \in Filters :
          {r[1] : r \in Ranked(q, f)} \subseteq {r[1] : r \in query_indexed(q, f)}
====
