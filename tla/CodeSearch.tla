----------------------------- MODULE CodeSearch -----------------------------
(***************************************************************************)
(* The code index and the search over it.  CodeIndexer::index_file skips a *)
(* file whose hash it knows, deletes the file's symbols, inserts the new   *)
(* ones and then records the hash: four steps under different mutexes,     *)
(* with the symbols in SQLite and the hashes in RAM.  The results of the   *)
(* two statements are ignored.  SearchEngine::search gathers what several  *)
(* channels find and ResultFusion merges, ranks and cuts it.               *)
(*                                                                         *)
(* A content stands for its hash (no collisions), a query is one word, and *)
(* what the parser makes of a content is the constant Chunks.  Memories do *)
(* not change here (MemoryIndex has them); the engine's own vector index   *)
(* of code is filled by nothing in the program and is left out.  Signals   *)
(* and weights are in percent.                                             *)
(***************************************************************************)
EXTENDS Integers, Sequences, FiniteSets, SequencesExt

CONSTANTS
    Threads, Files, NoFile, Contents, NoContent,
    Chunks,    \* the chunks of a content, in source order
    Words,     \* queries and tasks
    NamesWith, \* the symbol names a query is a part of
    Notes,     \* the memories: key, id, text, and the words they are similar to
    NoName,
    TopK,
    MaxCalls   \* bound: calls of index_file

Text == [size : Nat, words : SUBSET Words]
ASSUME ChunksAssumption ==
    \A c \in Contents :
       /\ Chunks[c] \in Seq(Range(Chunks[c]))
       /\ \A k \in Range(Chunks[c]) :
             k.first \in Nat /\ k.last \in Nat /\ k.first <= k.last /\ k.text \in Text
ASSUME NotesAssumption ==
    Notes \in Seq(Range(Notes)) /\ \A n \in Range(Notes) : n.text \in Text
ASSUME BoundsAssumption ==
    TopK \in Nat \ {0} /\ MaxCalls \in Nat /\ NoContent \notin Contents
    /\ NoFile \notin Files

VARIABLES
    symbols,     \* code_symbols: the rows, oldest first
    file_hashes, \* the content last recorded for a file
    pc, file, content, \* a thread's step and its call's arguments
    bad,         \* a thread's call overlapped another of its file, or a statement failed
    mixed,       \* the last call that ended on a file was bad
    calls

vars == <<symbols, file_hashes, pc, file, content, bad, mixed, calls>>

Init ==
    /\ symbols = <<>>
    /\ file_hashes = [f \in Files |-> NoContent]
    /\ pc = [t \in Threads |-> "idle"]
    /\ file = [t \in Threads |-> NoFile] /\ content = [t \in Threads |-> NoContent]
    /\ bad = [t \in Threads |-> FALSE] /\ mixed = [f \in Files |-> FALSE]
    /\ calls = 0

(***************************************************************************)
(* index_file.                                                             *)
(***************************************************************************)
Goto(t, l) == pc' = [pc EXCEPT ![t] = l]
Busy(f) == {t \in Threads : file[t] = f}
has_changed(f, c) == file_hashes[f] # c

\* The members of a sequence that are in S, or that pass a test, in their order.
KeepIn(s, S) ==
    LET kept[n \in 0..Len(s)] ==
          IF n = 0 THEN <<>>
          ELSE IF s[n] \in S THEN Append(kept[n - 1], s[n]) ELSE kept[n - 1]
    IN  kept[Len(s)]
Select(s, Test(_)) == KeepIn(s, {x \in Range(s) : Test(x)})

RowsOf(f, rows) == Select(rows, LAMBDA r : r.file = f)
Row(f, chunk) == [file |-> f, chunk |-> chunk]
Rows(f, c) == [i \in DOMAIN Chunks[c] |-> Row(f, Chunks[c][i])]

\* A call that finds the file unchanged returns at once.
Start(t, f, c, force) ==
    /\ pc[t] = "idle" /\ calls < MaxCalls
    /\ force \/ has_changed(f, c)
    /\ file' = [file EXCEPT ![t] = f] /\ content' = [content EXCEPT ![t] = c]
    /\ bad' = [u \in Threads |->
                 IF u = t THEN Busy(f) # {} ELSE bad[u] \/ u \in Busy(f)]
    /\ calls' = calls + 1
    /\ Goto(t, "remove")
    /\ UNCHANGED <<symbols, file_hashes, mixed>>

RemoveSymbols_Nothing(t) ==
    /\ pc[t] = "remove" /\ Goto(t, "insert")
    /\ UNCHANGED <<symbols, file_hashes, file, content, bad, mixed, calls>>
RemoveSymbols(t) ==
    /\ pc[t] = "remove"
    /\ symbols' = Select(symbols, LAMBDA r : r.file # file[t])
    /\ Goto(t, "insert")
    /\ UNCHANGED <<file_hashes, file, content, bad, mixed, calls>>

\* insert_chunks runs one transaction; a content without chunks needs none.
InsertChunks(t) ==
    /\ pc[t] = "insert"
    /\ symbols' = symbols \o Rows(file[t], content[t])
    /\ Goto(t, "record")
    /\ UNCHANGED <<file_hashes, file, content, bad, mixed, calls>>

\* The rows of the chunks at some places.
Inserted(f, c, kept) ==
    LET places == KeepIn([i \in DOMAIN Chunks[c] |-> i], kept)
    IN  [i \in DOMAIN places |-> Row(f, Chunks[c][places[i]])]

\* The DELETE is refused, or the INSERT of some chunks is.
StatementFails(t) ==
    /\ bad' = [bad EXCEPT ![t] = TRUE]
    /\ \/ pc[t] = "remove" /\ Goto(t, "insert") /\ UNCHANGED symbols
       \/ /\ pc[t] = "insert" /\ Goto(t, "record")
          /\ \E kept \in SUBSET (DOMAIN Chunks[content[t]]) :
                /\ kept # DOMAIN Chunks[content[t]]
                /\ symbols' = symbols \o Inserted(file[t], content[t], kept)
    /\ UNCHANGED <<file_hashes, file, content, mixed, calls>>

update_hash(t) ==
    /\ pc[t] = "record"
    /\ file_hashes' = [file_hashes EXCEPT ![file[t]] = content[t]]
    /\ mixed' = [mixed EXCEPT ![file[t]] = bad[t]]
    /\ bad' = [bad EXCEPT ![t] = FALSE]
    /\ file' = [file EXCEPT ![t] = NoFile] /\ content' = [content EXCEPT ![t] = NoContent]
    /\ Goto(t, "idle")
    /\ UNCHANGED <<symbols, calls>>

\* The engine stops and starts again: the hashes are gone, the rows are not.
Restart ==
    /\ file_hashes' = [f \in Files |-> NoContent]
    /\ pc' = [t \in Threads |-> "idle"] /\ bad' = [t \in Threads |-> FALSE]
    /\ file' = [t \in Threads |-> NoFile] /\ content' = [t \in Threads |-> NoContent]
    /\ UNCHANGED <<symbols, mixed, calls>>

Index(t) ==
    \/ \E f \in Files, c \in Contents, force \in BOOLEAN : Start(t, f, c, force)
    \/ RemoveSymbols(t) \/ InsertChunks(t) \/ StatementFails(t) \/ update_hash(t)
Next == Restart \/ \E t \in Threads : Index(t)

Spec == Init /\ [][Next]_vars

(***************************************************************************)
(* search: the candidates of each channel.                                 *)
(***************************************************************************)
find_by_symbol(w) == Select(symbols, LAMBDA r : r.chunk.symbol \in NamesWith[w])
score_content(w, text) == IF w \in text.words THEN 100 ELSE 0

Hit(r, lexical, structural, match) ==
    [id |-> <<r.file, r.chunk.first>>, file |-> r.file, first |-> r.chunk.first,
     last |-> r.chunk.last, text |-> r.chunk.text, semantic |-> 0,
     lexical |-> lexical, structural |-> structural, match |-> match, task |-> 0]
NoteHit(id, n, semantic, lexical) ==
    [id |-> <<id, 0>>, file |-> NoName, first |-> 0, last |-> 0, text |-> n.text,
     semantic |-> semantic, lexical |-> lexical, structural |-> 0, match |-> 0,
     task |-> 0]
Map(s, Op(_)) == [i \in DOMAIN s |-> Op(s[i])]
IsClass(k) == k.parent \in {NoName, k.symbol}

ExactCode(w, rows) ==
    LET symbol(k) == w \in {k.symbol, k.parent}
        part(k) == w \in k.text.words
    IN  Map(Select(rows, LAMBDA r : symbol(r.chunk) \/ part(r.chunk)),
            LAMBDA r : Hit(r, IF part(r.chunk) THEN 70 ELSE 0,
                              IF IsClass(r.chunk) THEN 100 ELSE 80,
                              IF symbol(r.chunk) THEN 100 ELSE 50))
LexicalCode(w, rows) ==
    Map(Select(rows, LAMBDA r : score_content(w, r.chunk.text) >= 10),
        LAMBDA r : Hit(r, score_content(w, r.chunk.text),
                       IF IsClass(r.chunk) THEN 90 ELSE 70, 0))
StructuralCode(w, rows) ==
    Map(Select(rows, LAMBDA r : {r.chunk.symbol, r.chunk.parent} \cap NamesWith[w] # {}),
        LAMBDA r : Hit(r, 50, IF IsClass(r.chunk) THEN 100 ELSE 75,
                       IF r.chunk.symbol = w THEN 100 ELSE 60))
\* A memory is named by its key in one channel and by its id in the other.
LexicalNotes(w) ==
    Map(Select(Notes, LAMBDA n : w \in n.text.words),
        LAMBDA n : NoteHit(n.key, n, 0, score_content(w, n.text)))
VectorNotes(w) ==
    Map(Select(Notes, LAMBDA n : w \in n.similar),
        LAMBDA n : NoteHit(IF n.id = NoName THEN n.key ELSE n.id, n, 80, 0))

Candidates(w, task) ==
    LET rows == find_by_symbol(w)
        all == ExactCode(w, rows) \o LexicalCode(w, rows) \o LexicalNotes(w)
                 \o StructuralCode(w, rows) \o VectorNotes(w)
    IN  Map(all, LAMBDA r : [r EXCEPT !.task = score_content(task, r.text)])

(***************************************************************************)
(* ResultFusion.                                                           *)
(***************************************************************************)
compute_score(r) ==
    25 * r.semantic + 25 * r.lexical + 15 * r.structural + 20 * r.match + 10 * r.task
is_duplicate(a, b) ==
    \/ a.id = b.id
    \/ a.file # NoName /\ a.file = b.file /\ a.first <= b.last /\ b.first <= a.last
Greater(a, b) == IF a > b THEN a ELSE b
merge_results_Latest(a, b) ==
    [b EXCEPT !.id = a.id, !.first = a.first, !.last = a.last,
              !.text = IF a.text.size < b.text.size THEN b.text ELSE a.text]
merge_results(a, b) ==
    [a EXCEPT !.text = IF @.size < b.text.size THEN b.text ELSE @,
              !.semantic = Greater(@, b.semantic), !.lexical = Greater(@, b.lexical),
              !.structural = Greater(@, b.structural), !.match = Greater(@, b.match),
              !.task = Greater(@, b.task)]

Fold_Last(done, r) ==
    IF done # <<>> /\ is_duplicate(done[Len(done)], r)
      THEN [done EXCEPT ![Len(done)] = merge_results(@, r)]
      ELSE Append(done, r)
Fold(done, r) ==
    LET same == {i \in DOMAIN done : is_duplicate(done[i], r)}
    IN  IF same = {} THEN Append(done, r)
        ELSE LET i == CHOOSE i \in same : \A j \in same : i <= j
             IN  [done EXCEPT ![i] = merge_results(@, r)]
deduplicated(hits) ==
    LET done[n \in 0..Len(hits)] == IF n = 0 THEN <<>> ELSE Fold(done[n - 1], hits[n])
    IN  done[Len(hits)]

\* The answers the sort and the cut can give: equal scores come in any order.
\* An answer is a part of what was deduplicated; its order is left out.
fuse_Uncut(hits) == {deduplicated(hits)}
fuse(hits) ==
    LET found == deduplicated(hits)
        best == {kept \in kSubset(IF Len(found) > TopK THEN TopK ELSE Len(found), DOMAIN found) :
                   \A i \in kept, j \in DOMAIN found \ kept :
                      compute_score(found[i]) >= compute_score(found[j])}
    IN  {Restrict(found, kept) : kept \in best}
search(w, task) == fuse(Candidates(w, task))

(***************************************************************************)
(* Properties.                                                             *)
(***************************************************************************)

\* TypeOK: every variable has its type, and no answer is longer than top_k.
TypeOK ==
    /\ \A i \in DOMAIN symbols :
          symbols[i] \in UNION {Range(Rows(f, c)) : f \in Files, c \in Contents}
    /\ file_hashes \in [Files -> Contents \cup {NoContent}]
    /\ pc \in [Threads -> {"idle", "remove", "insert", "record"}]
    /\ file \in [Threads -> Files \cup {NoFile}]
    /\ content \in [Threads -> Contents \cup {NoContent}]
    /\ bad \in [Threads -> BOOLEAN] /\ mixed \in [Files -> BOOLEAN]
    /\ calls \in 0..MaxCalls
    /\ \A w, task \in Words : \A found \in search(w, task) :
          Cardinality(DOMAIN found) <= TopK

\* The rows of a file are the chunks of the content whose hash is recorded, so
\* that skipping an unchanged file is sound (code_indexer.cpp:20-23): whatever
\* crashes, overlaps and failed statements came before, one call that ran alone
\* and was not skipped repairs the file.
SettledIndex ==
    \A f \in Files :
       file_hashes[f] # NoContent /\ ~mixed[f] /\ Busy(f) = {}
          => RowsOf(f, symbols) = Rows(f, file_hashes[f])

\* No two results of a search are duplicates of each other, whatever the order
\* in which the channels found them: merging keeps the place of the first
\* (result_fusion.cpp:46-59).
ResultsDistinct ==
    \A w, task \in Words : \A found \in search(w, task) :
       \A i, j \in DOMAIN found : i # j => ~is_duplicate(found[i], found[j])

\* What a channel found is in the answer, inside a result that scores at least as
\* high, or the answer is full of results that do (result_fusion.cpp:24-73).
NothingBetterHidden ==
    \A w, task \in Words :
       LET hits == Candidates(w, task) IN
       \A found \in fuse(hits), h \in Range(hits) :
          \/ \E i \in DOMAIN found :
                is_duplicate(found[i], h) /\ compute_score(found[i]) >= compute_score(h)
          \/ Cardinality(DOMAIN found) = TopK
             /\ \A i \in DOMAIN found : compute_score(found[i]) >= compute_score(h)

\* "Modified content must reparse" (tests/code_indexer_tests.cpp:113): once a call
\* recorded a content, its symbols are the ones that are found.
IndexFollowsFile ==
    \A f \in Files : file_hashes[f] # NoContent /\ Busy(f) = {}
       => RowsOf(f, symbols) = Rows(f, file_hashes[f])

\* "ResultFusion: deduplicate and rank" (search_engine.cpp:128): a memory is at
\* most one result.
MemoryOnce ==
    \A w, task \in Words : \A found \in search(w, task), k \in DOMAIN Notes :
       Cardinality({i \in DOMAIN found : found[i].id[1] \in {Notes[k].key, Notes[k].id}}) <= 1
=============================================================================
