------------------------ MODULE MemoryIndex_proofs ------------------------
(***************************************************************************)
(* Proofs about MemoryIndex.  IInv adds to the type invariant that no id   *)
(* is twice in the index file, that a thread inside a write has announced  *)
(* its key in unsaved and written its row, and that the file too agrees with the rows on every *)
(* key that is neither lost nor unsaved: a restart makes the file the      *)
(* index, so this is what keeps IndexFollowsRows true across it.           *)
(***************************************************************************)
EXTENDS MemoryIndex, FiniteSetTheorems, WellFoundedInduction, TLAPS

FileUnique ==
    file # Torn =>
      \A i, j \in 1..Len(file) : file[i].id = file[j].id => i = j
Announced ==
    \A t \in Threads : pc[t] \in {"index", "save"} => Key(t) \in unsaved
RowWritten ==
    \A t \in Threads : pc[t] = "index" =>
       IF op[t] = "delete" THEN Key(t) \notin DOMAIN rows
       ELSE Key(t) \in DOMAIN rows /\ rows[Key(t)].value = New(t).value
FileFollowsRows ==
    Readable(file) =>
      \A k \in Keys \ (lost \cup unsaved) : Agrees(file, PositionsOf(file), k)
IInv == /\ TypeOK /\ FileUnique /\ Announced /\ RowWritten
        /\ FileFollowsRows /\ IndexFollowsRows

\* A function on 1..n is a sequence, and a sequence is one.
LEMMA FunctionIsSeq ==
  ASSUME NEW S, NEW n \in Nat, NEW f \in [1..n -> S]
  PROVE  f \in Seq(S)
  OBVIOUS
LEMMA ElementOfSeq ==
  ASSUME NEW S, NEW s \in Seq(S)
  PROVE  \A i \in 1..Len(s) : s[i] \in S
  OBVIOUS

\* Induction over the naturals: G is the set of what the statement holds of.
LEMMA LeastNatural ==
  ASSUME NEW T \in SUBSET Nat, T # {}
  PROVE  \E x \in T : \A y \in T : x <= y
<1>1. PICK x \in T : \A y \in T : ~ (<<y, x>> \in OpToRel(<, Nat))
  BY NatLessThanWellFounded, WFMin
<1>2. \A y \in T : ~(y < x)  BY <1>1 DEF OpToRel
<1>3. QED  BY <1>2

LEMMA NatSetInduction ==
  ASSUME NEW G, 0 \in G, \A n \in Nat : n \in G => n + 1 \in G
  PROVE  \A n \in Nat : n \in G
<1> DEFINE T == {n \in Nat : n \notin G}
<1>1. SUFFICES ASSUME T # {} PROVE FALSE  OBVIOUS
<1>2. PICK x \in T : \A y \in T : x <= y
  <2>1. T \in SUBSET Nat  OBVIOUS
  <2>2. QED  BY <1>1, <2>1, LeastNatural
<1>3. x \in Nat /\ x # 0  OBVIOUS
<1>4. x - 1 \in Nat /\ ~(x <= x - 1) /\ x = (x - 1) + 1  BY <1>3
<1>5. x - 1 \in G  BY <1>2, <1>4
<1>6. QED  BY <1>4, <1>5

Solves(k, N, A, base, F) ==
    k \in [0..N -> A] /\ k[0] = base /\ \A n \in 1..N : k[n] = F[n][k[n - 1]]

\* A recursion over 0..N that stays in A has a solution.
LEMMA RecursionExists ==
    ASSUME NEW N \in Nat, NEW A, NEW base \in A,
           NEW F, \A n \in 1..N, a \in A : F[n][a] \in A
    PROVE  \E k : Solves(k, N, A, base, F)
<1> DEFINE Upto(m) == \E k \in [0..m -> A] : k[0] = base /\ \A n \in 1..m : k[n] = F[n][k[n - 1]]
           G == {m \in Nat : m <= N => Upto(m)}
<1>1. 0 \in G
  <2> DEFINE k == [n \in 0..0 |-> base]
  <2>1. k \in [0..0 -> A] /\ k[0] = base /\ \A n \in 1..0 : k[n] = F[n][k[n - 1]]
    OBVIOUS
  <2>2. Upto(0)  BY <2>1
  <2>3. QED  BY <2>2
<1>2. ASSUME NEW m \in Nat, m \in G PROVE m + 1 \in G
  <2> SUFFICES ASSUME m + 1 <= N PROVE Upto(m + 1)  OBVIOUS
  <2>1. PICK k \in [0..m -> A] : k[0] = base /\ \A n \in 1..m : k[n] = F[n][k[n - 1]]
    BY <1>2
  <2> DEFINE j == [n \in 0..(m + 1) |-> IF n = m + 1 THEN F[n][k[m]] ELSE k[n]]
  <2>2. m + 1 \in 1..N /\ k[m] \in A  OBVIOUS
  <2>3. F[m + 1][k[m]] \in A  BY <2>2
  <2>4. j \in [0..(m + 1) -> A]  BY <2>3
  <2>5. j[0] = base  BY <2>1
  <2>6. \A n \in 1..(m + 1) : j[n] = F[n][j[n - 1]]  BY <2>1
  <2>7. QED  BY <2>4, <2>5, <2>6
<1>3. \A m \in Nat : m \in G
  <2> HIDE DEF G
  <2>1. QED  BY <1>1, <1>2, NatSetInduction
<1>4. N \in G  BY <1>3
<1>5. QED  BY <1>4 DEF Solves

USE NamesAssumption, EntriesAssumption, FactsAssumption, BoundsAssumption

\* The entry made of a fact, and the one that stands for no entry, are entries.
LEMMA FactEntryType == /\ \A v \in Values : FactEntry(v) \in Entry
                       /\ NoEntry \in Entry
  BY DEF FactEntry, NoEntry, Entry, Statuses

\* The key and the entry of a call are typed.
LEMMA CallType ==
  ASSUME CallsOK, NEW t \in Threads, todo[t] # <<>>
  PROVE  /\ Key(t) \in Keys /\ New(t) \in Entry
         /\ Tail(todo[t]) \in Seq(Fact)
<1>1. todo[t] \in Seq(Fact) /\ todo[t] # <<>>
  BY DEF CallsOK
<1>2. Head(todo[t]) \in Fact /\ Tail(todo[t]) \in Seq(Fact)
  BY <1>1
<1> QED
  BY <1>2 DEF Key, New, Fact

\* index_by_id_ is what load would rebuild from the slots.
LEMMA Rebuilt == SlotsOK => PositionsOf(slots) = index_by_id
<1> SUFFICES ASSUME SlotsOK PROVE PositionsOf(slots) = index_by_id
  OBVIOUS
<1>1. DOMAIN slots = 1..Len(slots)
  BY DEF SlotsOK
<1>2. {slots[i].id : i \in DOMAIN slots} = DOMAIN index_by_id
  <2>1. \A k \in DOMAIN index_by_id : \E i \in DOMAIN slots : slots[i].id = k
    <3> SUFFICES ASSUME NEW k \in DOMAIN index_by_id
                 PROVE  \E i \in DOMAIN slots : slots[i].id = k
      OBVIOUS
    <3>1. index_by_id[k] \in DOMAIN slots /\ slots[index_by_id[k]].id = k
      BY <1>1 DEF SlotsOK
    <3> QED
      BY <3>1
  <2>2. \A i \in DOMAIN slots : slots[i].id \in DOMAIN index_by_id
    BY <1>1 DEF SlotsOK
  <2> QED
    BY <2>1, <2>2
<1>3. \A k \in DOMAIN index_by_id :
         (CHOOSE i \in DOMAIN slots : slots[i].id = k) = index_by_id[k]
  <2> SUFFICES ASSUME NEW k \in DOMAIN index_by_id
               PROVE  (CHOOSE i \in DOMAIN slots : slots[i].id = k) = index_by_id[k]
    OBVIOUS
  <2>1. index_by_id[k] \in DOMAIN slots /\ slots[index_by_id[k]].id = k
    BY <1>1 DEF SlotsOK
  <2>2. \A i \in DOMAIN slots : slots[i].id = k => i = index_by_id[k]
    BY <1>1 DEF SlotsOK
  <2> QED
    BY <2>1, <2>2
<1> QED
  BY <1>2, <1>3 DEF PositionsOf, SlotsOK

\* load gives slots whose rebuilt positions are the inverse of their ids.
LEMMA Loaded ==
  ASSUME file \in Seq(Slot) \cup {Torn}, FileUnique,
         slots' = load(file), index_by_id' = PositionsOf(load(file)), file' = file
  PROVE  SlotsOK'
<1> DEFINE s == load(file)
           p == PositionsOf(s)
<1>1. /\ s \in Seq(Slot)
      /\ \A i, j \in 1..Len(s) : s[i].id = s[j].id => i = j
  BY DEF load, Readable, FileUnique
<1>2. DOMAIN s = 1..Len(s)
  BY <1>1
<1>3. DOMAIN p = {s[i].id : i \in 1..Len(s)}
  BY <1>2 DEF PositionsOf
<1>4. \A k \in DOMAIN p : p[k] \in 1..Len(s) /\ s[p[k]].id = k
  <2> SUFFICES ASSUME NEW k \in DOMAIN p PROVE p[k] \in 1..Len(s) /\ s[p[k]].id = k
    OBVIOUS
  <2>1. p[k] = CHOOSE i \in DOMAIN s : s[i].id = k
    BY <1>2, <1>3 DEF PositionsOf
  <2>2. \E i \in DOMAIN s : s[i].id = k
    BY <1>2, <1>3
  <2> QED
    BY <1>2, <2>1, <2>2
<1>5. DOMAIN p \subseteq Keys
  <2>1. \A i \in 1..Len(s) : s[i] \in Slot
    BY <1>1
  <2>2. \A i \in 1..Len(s) : s[i].id \in Keys
    BY <2>1 DEF Slot
  <2> HIDE DEF p, s
  <2> QED
    BY <1>3, <2>2
<1>6. p \in [DOMAIN p -> 1..Len(s)]
  <2>1. p = [k \in DOMAIN p |-> p[k]]
    BY DEF PositionsOf
  <2> HIDE DEF p, s
  <2> QED
    BY <1>4, <2>1
<1>7. \A i \in 1..Len(s) : s[i].id \in DOMAIN p /\ p[s[i].id] = i
  BY <1>1, <1>3, <1>4
<1> HIDE DEF p, s
<1>8. slots' = s /\ index_by_id' = p
  BY DEF p, s
<1> QED
  BY <1>1, <1>4, <1>5, <1>6, <1>7, <1>8 DEF SlotsOK

\* add keeps the index consistent, gives k an active slot with value v and
\* leaves the other ids alone.
LEMMA AddSlot ==
  ASSUME SlotsOK, NEW k \in Keys, NEW v \in Values, add(k, v), file' = file
  PROVE  /\ SlotsOK'
         /\ k \in DOMAIN index_by_id'
         /\ slots'[index_by_id'[k]].active /\ slots'[index_by_id'[k]].value = v
         /\ \A x \in Keys \ {k} :
              /\ x \in DOMAIN index_by_id' <=> x \in DOMAIN index_by_id
              /\ x \in DOMAIN index_by_id =>
                   slots'[index_by_id'[x]] = slots[index_by_id[x]]
<1> DEFINE slot == [id |-> k, value |-> v, active |-> TRUE]
<1>0. slot \in Slot /\ slot.id = k /\ slot.value = v /\ slot.active
  BY DEF Slot
<1>1. CASE k \in DOMAIN index_by_id
  <2>1. slots' = [slots EXCEPT ![index_by_id[k]] = slot] /\ index_by_id' = index_by_id
    BY <1>1 DEF add
  <2>2. index_by_id[k] \in 1..Len(slots) /\ slots[index_by_id[k]].id = k
    BY <1>1 DEF SlotsOK
  <2> HIDE DEF slot
  <2>3. /\ slots' \in Seq(Slot) /\ Len(slots') = Len(slots)
        /\ slots'[index_by_id[k]] = slot
        /\ \A i \in 1..Len(slots) : i # index_by_id[k] => slots'[i] = slots[i]
    BY <1>0, <2>1, <2>2 DEF SlotsOK
  <2>4. \A i \in 1..Len(slots) : slots'[i].id = slots[i].id
    BY <1>0, <2>2, <2>3
  <2>5. SlotsOK'
    BY <2>1, <2>3, <2>4 DEF SlotsOK
  <2>6. \A x \in Keys \ {k} : x \in DOMAIN index_by_id => index_by_id[x] # index_by_id[k]
    BY <2>2 DEF SlotsOK
  <2>7. \A x \in DOMAIN index_by_id : index_by_id[x] \in 1..Len(slots)
    BY DEF SlotsOK
  <2> QED
    BY <1>0, <1>1, <2>1, <2>3, <2>5, <2>6, <2>7
<1>2. CASE k \notin DOMAIN index_by_id
  <2> DEFINE n == Len(slots) + 1
  <2>1. slots' = Append(slots, slot) /\ index_by_id' = With(index_by_id, k, n)
    BY <1>2 DEF add
  <2> HIDE DEF slot
  <2>2. /\ slots' \in Seq(Slot) /\ Len(slots') = n /\ slots'[n] = slot
        /\ \A i \in 1..Len(slots) : slots'[i] = slots[i]
        /\ Len(slots) \in Nat
    BY <1>0, <2>1 DEF SlotsOK
  <2>3. /\ DOMAIN index_by_id' = DOMAIN index_by_id \cup {k}
        /\ index_by_id'[k] = n
        /\ \A x \in DOMAIN index_by_id : index_by_id'[x] = index_by_id[x]
        /\ index_by_id' \in [DOMAIN index_by_id' -> 1..n]
    BY <1>2, <2>1, <2>2 DEF With, SlotsOK
  <2>4. \A x \in DOMAIN index_by_id : index_by_id[x] \in 1..Len(slots)
    BY DEF SlotsOK
  <2>5. \A i \in 1..n : i = n \/ i \in 1..Len(slots)
    BY <2>2
  <2>6. SlotsOK'
    <3>1. \A x \in DOMAIN index_by_id' : slots'[index_by_id'[x]].id = x
      <4>1. \A x \in DOMAIN index_by_id : slots[index_by_id[x]].id = x
        BY DEF SlotsOK
      <4> HIDE DEF n
      <4> QED
        BY <1>0, <2>2, <2>3, <2>4, <4>1
    <3>2. \A i \in 1..Len(slots') :
             slots'[i].id \in DOMAIN index_by_id' /\ index_by_id'[slots'[i].id] = i
      BY <1>0, <2>2, <2>3, <2>5 DEF SlotsOK
    <3> HIDE DEF n
    <3> QED
      BY <2>2, <2>3, <3>1, <3>2 DEF SlotsOK
  <2> QED
    BY <1>0, <2>2, <2>3, <2>4, <2>6
<1> QED
  BY <1>1, <1>2

\* remove keeps the index consistent, deactivates the slot of k, if any, and
\* leaves the other ids alone.
LEMMA RemoveSlot ==
  ASSUME SlotsOK, NEW k \in Keys, remove(k), file' = file
  PROVE  /\ SlotsOK'
         /\ k \in DOMAIN index_by_id' => ~slots'[index_by_id'[k]].active
         /\ \A x \in Keys \ {k} :
              /\ x \in DOMAIN index_by_id' <=> x \in DOMAIN index_by_id
              /\ x \in DOMAIN index_by_id =>
                   slots'[index_by_id'[x]] = slots[index_by_id[x]]
<1>0. index_by_id' = index_by_id
  BY DEF remove
<1>1. CASE k \in DOMAIN index_by_id
  <2>1. slots' = [slots EXCEPT ![index_by_id[k]].active = FALSE]
    BY <1>1 DEF remove
  <2>2. index_by_id[k] \in 1..Len(slots) /\ slots[index_by_id[k]].id = k
    BY <1>1 DEF SlotsOK
  <2> DEFINE slot == [slots[index_by_id[k]] EXCEPT !.active = FALSE]
  <2>3. slot \in Slot /\ slot.id = k /\ slot.active = FALSE
    <3>1. slots[index_by_id[k]] \in Slot
      BY <2>2 DEF SlotsOK
    <3> QED
      BY <2>2, <3>1 DEF Slot
  <2>4. slots' = [slots EXCEPT ![index_by_id[k]] = slot]
    BY <2>1
  <2> HIDE DEF slot
  <2>5. /\ slots' \in Seq(Slot) /\ Len(slots') = Len(slots)
        /\ slots'[index_by_id[k]] = slot
        /\ \A i \in 1..Len(slots) : i # index_by_id[k] => slots'[i] = slots[i]
    BY <2>2, <2>3, <2>4 DEF SlotsOK
  <2>6. \A i \in 1..Len(slots) : slots'[i].id = slots[i].id
    BY <2>2, <2>3, <2>5
  <2>7. SlotsOK'
    BY <1>0, <2>5, <2>6 DEF SlotsOK
  <2>8. \A x \in Keys \ {k} : x \in DOMAIN index_by_id => index_by_id[x] # index_by_id[k]
    BY <2>2 DEF SlotsOK
  <2>9. \A x \in DOMAIN index_by_id : index_by_id[x] \in 1..Len(slots)
    BY DEF SlotsOK
  <2> QED
    BY <1>0, <2>3, <2>5, <2>7, <2>8, <2>9
<1>2. CASE k \notin DOMAIN index_by_id
  <2>1. slots' = slots
    BY <1>2 DEF remove
  <2> QED
    BY <1>0, <1>2, <2>1 DEF SlotsOK
<1> QED
  BY <1>1, <1>2

Labels == {"idle", "row", "index", "save", "entry", "archive"}

\* A thread that goes to l with something left to write, or without need of it.
LEMMA Moved ==
  ASSUME CallsOK, NEW t \in Threads, NEW l \in Labels, Goto(t, l), todo[t] # <<>> \/ l = "idle"
  PROVE  /\ pc' \in [Threads -> Labels] /\ pc'[t] = l
         /\ op' \in [Threads -> {"none", "put", "delete", "supersede", "consolidate"}]
         /\ todo' \in [Threads -> Seq(Fact)]
         /\ \A u \in Threads \ {t} : pc'[u] = pc[u] /\ todo'[u] = todo[u] /\ op'[u] = op[u]
         /\ l # "idle" => todo'[t] = todo[t] /\ op'[t] = op[t]
         /\ \A u \in Threads :
               pc'[u] \in {"row", "index", "save", "entry"} => todo'[u] # <<>>
<1>1. <<>> \in Seq(Fact)
  OBVIOUS
<1>2. /\ pc \in [Threads -> Labels]
      /\ op \in [Threads -> {"none", "put", "delete", "supersede", "consolidate"}]
      /\ todo \in [Threads -> Seq(Fact)]
      /\ \A u \in Threads : pc[u] \in {"row", "index", "save", "entry"} => todo[u] # <<>>
  BY DEF CallsOK, Labels
<1>3. /\ pc' = [pc EXCEPT ![t] = l]
      /\ op' = [op EXCEPT ![t] = IF l = "idle" THEN "none" ELSE op[t]]
      /\ todo' = [todo EXCEPT ![t] = IF l = "idle" THEN <<>> ELSE todo[t]]
  BY DEF Goto
<1>4. pc' \in [Threads -> Labels] /\ pc'[t] = l
  BY <1>2, <1>3
<1>5. /\ op' \in [Threads -> {"none", "put", "delete", "supersede", "consolidate"}]
      /\ l # "idle" => op'[t] = op[t]
  BY <1>2, <1>3
<1>6. todo' \in [Threads -> Seq(Fact)] /\ (l # "idle" => todo'[t] = todo[t])
  BY <1>1, <1>2, <1>3
<1>7. \A u \in Threads \ {t} : pc'[u] = pc[u] /\ todo'[u] = todo[u] /\ op'[u] = op[u]
  BY <1>2, <1>3
<1>8. \A u \in Threads :
         pc'[u] \in {"row", "index", "save", "entry"} => todo'[u] # <<>>
  BY <1>2, <1>4, <1>6, <1>7
<1> QED
  BY <1>4, <1>5, <1>6, <1>7, <1>8

\* CallsOK after a step of thread t that goes to l and leaves mutex_ held by
\* nobody, or by t inside a write.
LEMMA MovedOK ==
  ASSUME CallsOK, NEW t \in Threads, NEW l \in Labels, Goto(t, l), todo[t] # <<>> \/ l = "idle",
         mutex \in {None, t},
         mutex' = IF l \in {"index", "save"} THEN t ELSE None
  PROVE  CallsOK'
<1>1. \A u \in Threads \ {t} : pc[u] \notin {"index", "save"}
  BY DEF CallsOK
<1>2. /\ pc' \in [Threads -> Labels] /\ pc'[t] = l
      /\ op' \in [Threads -> {"none", "put", "delete", "supersede", "consolidate"}]
      /\ todo' \in [Threads -> Seq(Fact)]
      /\ \A u \in Threads \ {t} : pc'[u] = pc[u]
      /\ \A u \in Threads :
            pc'[u] \in {"row", "index", "save", "entry"} => todo'[u] # <<>>
  BY Moved
<1>3. mutex' \in Threads \cup {None}
  OBVIOUS
<1>4. \A u \in Threads : mutex' = u <=> pc'[u] \in {"index", "save"}
  BY <1>1, <1>2
<1> QED
  BY <1>2, <1>3, <1>4 DEF CallsOK, Labels

\* The same for a step that is not of the thread that holds mutex_.
LEMMA MovedAside ==
  ASSUME CallsOK, NEW t \in Threads, NEW l \in Labels \ {"index", "save"}, Goto(t, l),
         todo[t] # <<>> \/ l = "idle", pc[t] \notin {"index", "save"}, mutex' = mutex
  PROVE  CallsOK'
<1>2. /\ pc' \in [Threads -> Labels] /\ pc'[t] = l
      /\ op' \in [Threads -> {"none", "put", "delete", "supersede", "consolidate"}]
      /\ todo' \in [Threads -> Seq(Fact)]
      /\ \A u \in Threads \ {t} : pc'[u] = pc[u]
      /\ \A u \in Threads :
            pc'[u] \in {"row", "index", "save", "entry"} => todo'[u] # <<>>
  BY Moved
<1>4. \A u \in Threads : mutex' = u <=> pc'[u] \in {"index", "save"}
  BY <1>2 DEF CallsOK
<1> QED
  BY <1>2, <1>4 DEF CallsOK, Labels

\* Return goes to a label outside a write.
LEMMA Returns ==
  ASSUME NEW t \in Threads, Return(t)
  PROVE  \E l \in {"idle", "entry"} : Goto(t, l)
  BY DEF Return

\* What is said of a key carries over when neither its row nor its slot changes.
LEMMA AgreesKept ==
  ASSUME NEW s, NEW p, NEW s2, NEW p2, NEW k,
         k \in DOMAIN rows' <=> k \in DOMAIN rows,
         k \in DOMAIN rows => rows'[k].value = rows[k].value,
         k \in DOMAIN p2 <=> k \in DOMAIN p,
         k \in DOMAIN p => s2[p2[k]] = s[p[k]],
         Agrees(s, p, k)
  PROVE  IF k \in DOMAIN rows'
           THEN k \in DOMAIN p2 /\ s2[p2[k]].active /\ s2[p2[k]].value = rows'[k].value
           ELSE k \in DOMAIN p2 => ~s2[p2[k]].active
  BY DEF Agrees

\* A step that leaves the store alone, and the threads inside a write where
\* they are.
LEMMA Quiet ==
  ASSUME IInv, UNCHANGED <<storeVars, historyVars>>,
         \A u \in Threads : pc[u] = "index" => pc'[u] = "index" /\ todo'[u] = todo[u],
         \A u \in Threads : pc'[u] \in {"index", "save"} =>
            pc[u] = pc'[u] /\ todo'[u] = todo[u] /\ op'[u] = op[u]
  PROVE  /\ SlotsOK' /\ FileUnique' /\ Announced' /\ RowWritten'
         /\ FileFollowsRows' /\ IndexFollowsRows'
<1>1. /\ rows' = rows /\ slots' = slots /\ index_by_id' = index_by_id /\ file' = file
      /\ lost' = lost /\ unsaved' = unsaved
  BY DEF storeVars, indexVars, historyVars
<1>2. SlotsOK' /\ FileUnique'
  BY <1>1 DEF IInv, TypeOK, SlotsOK, FileUnique
<1>3. Announced' /\ RowWritten'
  BY <1>1 DEF IInv, Announced, RowWritten, Key, New
<1>4. FileFollowsRows'
  <2>1. Readable(file)' = Readable(file) /\ PositionsOf(file)' = PositionsOf(file)
    BY <1>1 DEF Readable, PositionsOf
  <2>2. \A k \in Keys : Agrees(file, PositionsOf(file), k)' = Agrees(file, PositionsOf(file), k)
    BY <1>1, <2>1 DEF Agrees
  <2> QED
    BY <1>1, <2>1, <2>2 DEF IInv, FileFollowsRows
<1>5. IndexFollowsRows'
  <2> SUFFICES ASSUME NEW k \in Keys \ lost,
                      ~\E t \in Threads : pc'[t] = "index" /\ Key(t)' = k
               PROVE  Agrees(slots, index_by_id, k)'
    BY <1>1 DEF IndexFollowsRows
  <2>1. ~\E t \in Threads : pc[t] = "index" /\ Key(t) = k
    BY DEF Key
  <2>2. Agrees(slots, index_by_id, k)
    BY <2>1 DEF IInv, IndexFollowsRows
  <2> QED
    BY <1>1, <2>2 DEF Agrees
<1> QED
  BY <1>2, <1>3, <1>4, <1>5

\* A thread that is not inside a write, and does not begin one, leaves the
\* others where they are.
LEMMA Aside ==
  ASSUME CallsOK, NEW t \in Threads, NEW l \in Labels \ {"index", "save"}, Goto(t, l),
         todo[t] # <<>> \/ l = "idle", pc[t] # "index"
  PROVE  /\ \A u \in Threads : pc[u] = "index" => pc'[u] = "index" /\ todo'[u] = todo[u]
         /\ \A u \in Threads : pc'[u] \in {"index", "save"} =>
               pc[u] = pc'[u] /\ todo'[u] = todo[u] /\ op'[u] = op[u]
  BY Moved

\* The calls begin.
LEMMA BeginStep ==
  ASSUME IInv, NEW t \in Threads, NEW call \in {"put", "delete", "supersede", "consolidate"},
         NEW facts \in Seq(Fact), Begin(t, call, facts)
  PROVE  IInv'
<1> USE DEF Begin
<1>1. /\ pc \in [Threads -> Labels]
      /\ op \in [Threads -> {"none", "put", "delete", "supersede", "consolidate"}]
      /\ todo \in [Threads -> Seq(Fact)]
      /\ \A u \in Threads : pc[u] \in {"row", "index", "save", "entry"} => todo[u] # <<>>
      /\ \A u \in Threads : mutex = u <=> pc[u] \in {"index", "save"}
      /\ mutex \in Threads \cup {None}
  BY DEF IInv, TypeOK, CallsOK, Labels
<1>2. /\ \A u \in Threads \ {t} : pc'[u] = pc[u] /\ todo'[u] = todo[u] /\ op'[u] = op[u]
      /\ pc'[t] = IF facts = <<>> THEN "archive" ELSE "row"
      /\ todo'[t] = facts
      /\ pc[t] = "idle" /\ mutex' = mutex
  BY <1>1
<1>3. /\ pc' \in [Threads -> Labels]
      /\ op' \in [Threads -> {"none", "put", "delete", "supersede", "consolidate"}]
      /\ todo' \in [Threads -> Seq(Fact)]
  BY <1>1 DEF Labels
<1>4. CallsOK'
  <2>1. \A u \in Threads :
           pc'[u] \in {"row", "index", "save", "entry"} => todo'[u] # <<>>
    BY <1>1, <1>2
  <2>2. \A u \in Threads : mutex' = u <=> pc'[u] \in {"index", "save"}
    BY <1>1, <1>2
  <2> QED
    BY <1>1, <1>2, <1>3, <2>1, <2>2 DEF CallsOK, Labels
<1>5. RowsOK' /\ HistoryOK'
  <2>1. writes' \in 0..MaxWrites
    BY DEF IInv, TypeOK, HistoryOK
  <2> QED
    BY <2>1 DEF IInv, TypeOK, RowsOK, HistoryOK, storeVars, historyVars
<1>6. /\ SlotsOK' /\ FileUnique' /\ Announced' /\ RowWritten'
      /\ FileFollowsRows' /\ IndexFollowsRows'
  BY <1>2, Quiet
<1> QED
  BY <1>4, <1>5, <1>6 DEF IInv, TypeOK

LEMMA CallStep ==
  ASSUME IInv, NEW t \in Threads, Call(t)
  PROVE  IInv'
<1>1. CASE put_memory(t)
  <2>1. PICK k \in Keys, e \in Entries : Begin(t, "put", <<[key |-> k, entry |-> e]>>)
    BY <1>1 DEF put_memory
  <2>2. <<[key |-> k, entry |-> e]>> \in Seq(Fact)
    BY DEF Fact
  <2> QED
    BY <2>1, <2>2, BeginStep
<1>2. CASE delete_memory(t)
  <2>1. PICK k \in Keys : Begin(t, "delete", <<[key |-> k, entry |-> NoEntry]>>)
    BY <1>2 DEF delete_memory
  <2>2. <<[key |-> k, entry |-> NoEntry]>> \in Seq(Fact)
    BY FactEntryType DEF Fact
  <2> QED
    BY <2>1, <2>2, BeginStep
<1>3. CASE supersede_memory(t)
  <2>1. PICK k \in Keys : Begin(t, "supersede", <<[key |-> k, entry |-> NoEntry]>>)
    BY <1>3 DEF supersede_memory
  <2>2. <<[key |-> k, entry |-> NoEntry]>> \in Seq(Fact)
    BY FactEntryType DEF Fact
  <2> QED
    BY <2>1, <2>2, BeginStep
<1>4. CASE consolidate(t)
  <2> DEFINE Made(s) == [i \in DOMAIN s |-> [key |-> s[i].key, entry |-> FactEntry(s[i].value)]]
  <2>1. PICK s \in Facts : Begin(t, "consolidate", Made(s))
    BY <1>4 DEF consolidate
  <2>2. s \in Seq([key : Keys, value : Values])
    OBVIOUS
  <2>3. \A i \in 1..Len(s) : s[i].key \in Keys /\ s[i].value \in Values
    <3>1. \A i \in 1..Len(s) : s[i] \in [key : Keys, value : Values]
      BY <2>2, ElementOfSeq
    <3> QED
      BY <3>1
  <2>4. \A i \in 1..Len(s) : [key |-> s[i].key, entry |-> FactEntry(s[i].value)] \in Fact
    BY <2>3, FactEntryType DEF Fact
  <2>5. Made(s) = [i \in 1..Len(s) |-> [key |-> s[i].key, entry |-> FactEntry(s[i].value)]]
    BY <2>2
  <2>6. Made(s) \in Seq(Fact)
    <3>1. Len(s) \in Nat
      BY <2>2
    <3>2. Made(s) \in [1..Len(s) -> Fact]
      BY <2>4, <2>5
    <3> HIDE DEF Made
    <3> QED
      BY <3>1, <3>2, FunctionIsSeq
  <2> HIDE DEF Made
  <2> QED
    BY <2>1, <2>6, BeginStep
<1>5. CASE Ask(t)
  <2>1. UNCHANGED vars
    BY <1>5 DEF Ask
  <2>2. TypeOK'
    BY <2>1 DEF IInv, TypeOK, RowsOK, SlotsOK, CallsOK, HistoryOK,
                vars, storeVars, indexVars, callVars, historyVars
  <2>3. /\ SlotsOK' /\ FileUnique' /\ Announced' /\ RowWritten'
        /\ FileFollowsRows' /\ IndexFollowsRows'
    BY <2>1, Quiet DEF vars, callVars
  <2> QED
    BY <2>2, <2>3 DEF IInv
<1> QED
  BY <1>1, <1>2, <1>3, <1>4, <1>5 DEF Call

\* The statements keep rows typed; an upsert sets the value of its key only, and
\* a delete takes its key out.
LEMMA UpsertRow ==
  ASSUME RowsOK, NEW k \in Keys, NEW e \in Entry, rows' = Upsert(k, e), UNCHANGED <<entries, archives>>
  PROVE  /\ RowsOK' /\ k \in DOMAIN rows' /\ rows'[k].value = e.value
         /\ \A x \in Keys \ {k} : /\ x \in DOMAIN rows' <=> x \in DOMAIN rows
                                  /\ x \in DOMAIN rows => rows'[x] = rows[x]
<1>1. CASE k \in DOMAIN rows
  <2> DEFINE r == [rows[k] EXCEPT !.value = e.value, !.status = e.status]
  <2>1. rows' = [rows EXCEPT ![k] = r]
    BY <1>1 DEF Upsert
  <2>2. r \in Entry /\ r.value = e.value
    <3>1. rows[k] \in Entry
      BY <1>1 DEF RowsOK
    <3> QED
      BY <3>1 DEF Entry
  <2> HIDE DEF r
  <2> QED
    BY <1>1, <2>1, <2>2 DEF RowsOK
<1>2. CASE k \notin DOMAIN rows
  <2>1. rows' = With(rows, k, e)
    BY <1>2 DEF Upsert
  <2>2. DOMAIN rows \subseteq Keys /\ rows \in [DOMAIN rows -> Entry]
    BY DEF RowsOK
  <2>3. /\ DOMAIN rows' = DOMAIN rows \cup {k} /\ DOMAIN rows' \subseteq Keys
        /\ rows' \in [DOMAIN rows' -> Entry] /\ rows'[k] = e
        /\ \A x \in DOMAIN rows \ {k} : rows'[x] = rows[x]
    BY <2>1, <2>2 DEF With
  <2> QED
    BY <1>2, <2>3 DEF RowsOK
<1> QED
  BY <1>1, <1>2

LEMMA WriteRowStep ==
  ASSUME IInv, NEW t \in Threads, WriteRow(t)
  PROVE  IInv'
<1> DEFINE k == Key(t)
<1>1. /\ RowsOK /\ SlotsOK /\ CallsOK /\ HistoryOK
      /\ pc[t] = "row" /\ mutex = None /\ mutex' = t /\ Goto(t, "index")
      /\ unsaved' = unsaved \cup {k} /\ lost' = lost /\ wiped' = wiped
      /\ slots' = slots /\ index_by_id' = index_by_id /\ file' = file
      /\ entries' = entries /\ archives' = archives /\ writes' = writes /\ faults' = faults
  BY DEF IInv, TypeOK, WriteRow, indexVars
<1>2. todo[t] # <<>> /\ k \in Keys /\ New(t) \in Entry
  BY <1>1, CallType DEF CallsOK
<1>3. /\ RowsOK'
      /\ \A x \in Keys \ {k} : /\ x \in DOMAIN rows' <=> x \in DOMAIN rows
                               /\ x \in DOMAIN rows => rows'[x] = rows[x]
      /\ IF op[t] = "delete" THEN k \notin DOMAIN rows'
         ELSE k \in DOMAIN rows' /\ rows'[k].value = New(t).value
  <2>1. CASE op[t] = "delete"
    <3>1. rows' = Without(rows, k)
      BY <2>1 DEF WriteRow
    <3> HIDE DEF k
    <3>2. DOMAIN rows \subseteq Keys /\ rows \in [DOMAIN rows -> Entry]
      BY <1>1 DEF RowsOK
    <3>3. /\ DOMAIN rows' = DOMAIN rows \ {k} /\ DOMAIN rows' \subseteq Keys
          /\ rows' \in [DOMAIN rows' -> Entry]
          /\ \A x \in DOMAIN rows \ {k} : rows'[x] = rows[x]
      BY <3>1, <3>2 DEF Without
    <3>4. RowsOK'
      BY <1>1, <3>3 DEF RowsOK
    <3> QED
      BY <2>1, <3>3, <3>4
  <2>2. CASE op[t] # "delete"
    <3>1. rows' = Upsert(k, New(t))
      BY <2>2 DEF WriteRow
    <3> QED
      BY <1>1, <1>2, <2>2, <3>1, UpsertRow
  <2> QED
    BY <2>1, <2>2
<1>4. CallsOK'
  BY <1>1, <1>2, MovedOK DEF Labels
<1>5. /\ pc'[t] = "index" /\ todo'[t] = todo[t] /\ op'[t] = op[t]
      /\ \A u \in Threads \ {t} : pc'[u] = pc[u] /\ todo'[u] = todo[u]
  BY <1>1, <1>2, Moved DEF Labels
<1>6. Key(t)' = k /\ New(t)' = New(t)
  BY <1>5 DEF Key, New
<1>7. \A u \in Threads : pc[u] \notin {"index", "save"}
  BY <1>1 DEF CallsOK
<1>8. SlotsOK' /\ FileUnique' /\ HistoryOK'
  BY <1>1, <1>2 DEF IInv, SlotsOK, FileUnique, HistoryOK
<1>9. Announced' /\ RowWritten'
  <2>1. Announced'
    BY <1>1, <1>5, <1>6, <1>7 DEF Announced
  <2>2. RowWritten'
    BY <1>3, <1>5, <1>6, <1>7 DEF RowWritten
  <2> QED
    BY <2>1, <2>2
<1>10. FileFollowsRows'
  <2>1. Readable(file)' = Readable(file) /\ PositionsOf(file)' = PositionsOf(file)
    BY <1>1 DEF Readable, PositionsOf
  <2>2. ASSUME NEW x \in Keys \ (lost \cup unsaved \cup {k}), Readable(file)
        PROVE  Agrees(file, PositionsOf(file), x)'
    <3>1. Agrees(file, PositionsOf(file), x)
      BY <2>2 DEF IInv, FileFollowsRows
    <3> QED
      BY <1>1, <1>3, <2>1, <3>1 DEF Agrees
  <2> QED
    BY <1>1, <2>1, <2>2 DEF FileFollowsRows
<1>11. IndexFollowsRows'
  <2> SUFFICES ASSUME NEW x \in Keys \ lost, x # k
               PROVE  Agrees(slots, index_by_id, x)'
    BY <1>1, <1>5, <1>6 DEF IndexFollowsRows
  <2>1. Agrees(slots, index_by_id, x)
    BY <1>7 DEF IInv, IndexFollowsRows
  <2> QED
    BY <1>1, <1>3, <2>1 DEF Agrees
<1> QED
  BY <1>3, <1>4, <1>8, <1>9, <1>10, <1>11 DEF IInv, TypeOK

LEMMA SupersedeStep ==
  ASSUME IInv, NEW t \in Threads, Supersede(t)
  PROVE  IInv'
<1> DEFINE k == Key(t)
<1>1. /\ RowsOK /\ SlotsOK /\ CallsOK /\ HistoryOK
      /\ pc[t] = "row" /\ mutex' = mutex /\ Return(t)
      /\ unsaved' = unsaved /\ lost' = lost /\ wiped' = wiped
      /\ slots' = slots /\ index_by_id' = index_by_id /\ file' = file
      /\ entries' = entries /\ archives' = archives /\ writes' = writes /\ faults' = faults
  BY DEF IInv, TypeOK, Supersede, indexVars, historyVars
<1>2. todo[t] # <<>> /\ k \in Keys
  BY <1>1, CallType DEF CallsOK
<1>3. /\ RowsOK' /\ DOMAIN rows' = DOMAIN rows
      /\ \A x \in DOMAIN rows : rows'[x].value = rows[x].value
  <2>1. CASE k \in DOMAIN rows
    <3> DEFINE r == [rows[k] EXCEPT !.status = "superseded"]
    <3>1. rows' = [rows EXCEPT ![k] = r]
      BY <2>1 DEF Supersede
    <3>2. rows[k] \in Entry
      BY <1>1, <2>1 DEF RowsOK
    <3>3. r \in Entry /\ r.value = rows[k].value
      BY <3>2 DEF Entry, Statuses
    <3> HIDE DEF r
    <3> QED
      BY <1>1, <2>1, <3>1, <3>3 DEF RowsOK
  <2>2. CASE k \notin DOMAIN rows
    BY <1>1, <2>2 DEF Supersede, RowsOK
  <2> QED
    BY <2>1, <2>2
<1>4. PICK l \in {"idle", "entry"} : Goto(t, l)
  BY <1>1, Returns
<1>5. CallsOK'
  BY <1>1, <1>2, <1>4, MovedAside DEF Labels
<1>6. /\ \A u \in Threads : pc[u] = "index" => pc'[u] = "index" /\ todo'[u] = todo[u]
      /\ \A u \in Threads : pc'[u] \in {"index", "save"} =>
            pc[u] = pc'[u] /\ todo'[u] = todo[u] /\ op'[u] = op[u]
  BY <1>1, <1>2, <1>4, Aside DEF Labels
<1>7. SlotsOK' /\ FileUnique' /\ HistoryOK' /\ Announced' /\ RowWritten'
  <2>1. SlotsOK' /\ FileUnique' /\ HistoryOK' /\ Announced'
    BY <1>1, <1>6 DEF IInv, SlotsOK, FileUnique, HistoryOK, Announced, Key
  <2>2. RowWritten'
    BY <1>3, <1>6 DEF IInv, RowWritten, Key, New
  <2> QED
    BY <2>1, <2>2
<1>8. FileFollowsRows'
  <2>1. Readable(file)' = Readable(file) /\ PositionsOf(file)' = PositionsOf(file)
    BY <1>1 DEF Readable, PositionsOf
  <2>2. ASSUME NEW x \in Keys \ (lost \cup unsaved), Readable(file)
        PROVE  Agrees(file, PositionsOf(file), x)'
    <3>1. Agrees(file, PositionsOf(file), x)
      BY <2>2 DEF IInv, FileFollowsRows
    <3> QED
      BY <1>1, <1>3, <2>1, <3>1 DEF Agrees
  <2> QED
    BY <1>1, <2>1, <2>2 DEF FileFollowsRows
<1>9. IndexFollowsRows'
  <2> SUFFICES ASSUME NEW x \in Keys \ lost,
                      ~\E u \in Threads : pc'[u] = "index" /\ Key(u)' = x
               PROVE  Agrees(slots, index_by_id, x)'
    BY <1>1 DEF IndexFollowsRows
  <2>1. Agrees(slots, index_by_id, x)
    BY <1>6 DEF IInv, IndexFollowsRows, Key
  <2> QED
    BY <1>1, <1>3, <2>1 DEF Agrees
<1> QED
  BY <1>3, <1>5, <1>7, <1>8, <1>9 DEF IInv, TypeOK

LEMMA WriteIndexStep ==
  ASSUME IInv, NEW t \in Threads, WriteIndex(t)
  PROVE  IInv'
<1>0. PICK k : k = Key(t)
  OBVIOUS
<1>1. /\ RowsOK /\ SlotsOK /\ CallsOK /\ HistoryOK
      /\ pc[t] = "index" /\ mutex' = mutex /\ Goto(t, "save")
      /\ rows' = rows /\ file' = file /\ entries' = entries /\ archives' = archives
      /\ lost' = lost \ {k} /\ unsaved' = unsaved /\ wiped' = wiped
      /\ writes' = writes /\ faults' = faults
  BY <1>0 DEF IInv, TypeOK, WriteIndex
<1>2. todo[t] # <<>> /\ k \in Keys /\ New(t) \in Entry /\ New(t).value \in Values
  BY <1>0, <1>1, CallType DEF CallsOK, Entry
<1>3. mutex = t /\ \A u \in Threads \ {t} : pc[u] \notin {"index", "save"}
  BY <1>1 DEF CallsOK
<1>4. CallsOK'
  BY <1>1, <1>2, <1>3, MovedOK DEF Labels
<1>5. /\ pc'[t] = "save" /\ todo'[t] = todo[t]
      /\ \A u \in Threads \ {t} : pc'[u] = pc[u] /\ todo'[u] = todo[u]
  BY <1>1, <1>2, Moved DEF Labels
<1>6. /\ SlotsOK'
      /\ \A x \in Keys \ {k} :
           /\ x \in DOMAIN index_by_id' <=> x \in DOMAIN index_by_id
           /\ x \in DOMAIN index_by_id =>
                slots'[index_by_id'[x]] = slots[index_by_id[x]]
      /\ Agrees(slots, index_by_id, k)'
  <2>1. CASE op[t] = "delete"
    <3>1. remove(k) /\ k \notin DOMAIN rows
      BY <1>0, <1>1, <2>1 DEF WriteIndex, IInv, RowWritten
    <3>2. /\ SlotsOK'
          /\ k \in DOMAIN index_by_id' => ~slots'[index_by_id'[k]].active
          /\ \A x \in Keys \ {k} :
               /\ x \in DOMAIN index_by_id' <=> x \in DOMAIN index_by_id
               /\ x \in DOMAIN index_by_id =>
                    slots'[index_by_id'[x]] = slots[index_by_id[x]]
      BY <1>1, <1>2, <3>1, RemoveSlot
    <3>3. Agrees(slots, index_by_id, k)'
      BY <1>1, <3>1, <3>2 DEF Agrees
    <3> QED
      BY <3>2, <3>3
  <2>2. CASE op[t] # "delete"
    <3>1. add(k, New(t).value) /\ k \in DOMAIN rows /\ rows[k].value = New(t).value
      BY <1>0, <1>1, <2>2 DEF WriteIndex, IInv, RowWritten
    <3>2. /\ SlotsOK' /\ k \in DOMAIN index_by_id'
          /\ slots'[index_by_id'[k]].active
          /\ slots'[index_by_id'[k]].value = New(t).value
          /\ \A x \in Keys \ {k} :
               /\ x \in DOMAIN index_by_id' <=> x \in DOMAIN index_by_id
               /\ x \in DOMAIN index_by_id =>
                    slots'[index_by_id'[x]] = slots[index_by_id[x]]
      BY <1>1, <1>2, <3>1, AddSlot
    <3>3. Agrees(slots, index_by_id, k)'
      BY <1>1, <3>1, <3>2 DEF Agrees
    <3> QED
      BY <3>2, <3>3
  <2> QED
    BY <2>1, <2>2
<1>7. RowsOK' /\ FileUnique' /\ HistoryOK'
  BY <1>1 DEF IInv, RowsOK, FileUnique, HistoryOK
<1>8. Announced' /\ RowWritten'
  BY <1>1, <1>3, <1>5 DEF IInv, Announced, RowWritten, Key
<1>9. FileFollowsRows'
  <2>1. Readable(file)' = Readable(file) /\ PositionsOf(file)' = PositionsOf(file)
    BY <1>1 DEF Readable, PositionsOf
  <2>2. k \in unsaved
    BY <1>0, <1>1 DEF IInv, Announced
  <2>3. ASSUME NEW x \in Keys \ (lost \cup unsaved), Readable(file)
        PROVE  Agrees(file, PositionsOf(file), x)'
    <3>1. Agrees(file, PositionsOf(file), x)
      BY <2>3 DEF IInv, FileFollowsRows
    <3> QED
      BY <1>1, <2>1, <3>1 DEF Agrees
  <2> QED
    BY <1>1, <2>1, <2>2, <2>3 DEF FileFollowsRows
<1>10. IndexFollowsRows'
  <2> SUFFICES ASSUME NEW x \in Keys \ lost'
               PROVE  Agrees(slots, index_by_id, x)'
    BY DEF IndexFollowsRows
  <2>1. CASE x = k
    BY <1>6, <2>1
  <2>2. CASE x # k
    <3>1. Agrees(slots, index_by_id, x)
      BY <1>0, <1>1, <1>3, <2>2 DEF IInv, IndexFollowsRows
    <3> QED
      BY <1>1, <1>6, <2>2, <3>1 DEF Agrees
  <2> QED
    BY <2>1, <2>2
<1> QED
  BY <1>4, <1>6, <1>7, <1>8, <1>9, <1>10 DEF IInv, TypeOK

LEMMA SaveStep ==
  ASSUME IInv, NEW t \in Threads, save(t)
  PROVE  IInv'
<1>1. /\ RowsOK /\ SlotsOK /\ CallsOK /\ HistoryOK
      /\ pc[t] = "save" /\ mutex' = None /\ Return(t)
      /\ file' = slots /\ unsaved' = {} /\ lost' = lost /\ wiped' = wiped
      /\ rows' = rows /\ slots' = slots /\ index_by_id' = index_by_id
      /\ entries' = entries /\ archives' = archives /\ writes' = writes /\ faults' = faults
  BY DEF IInv, TypeOK, save, indexVars
<1>2. todo[t] # <<>> /\ mutex = t /\ \A u \in Threads \ {t} : pc[u] \notin {"index", "save"}
  BY <1>1 DEF CallsOK
<1>3. PICK l \in {"idle", "entry"} : Goto(t, l)
  BY <1>1, Returns
<1>4. CallsOK'
  BY <1>1, <1>2, <1>3, MovedOK DEF Labels
<1>5. \A u \in Threads : pc'[u] \notin {"index", "save"}
  BY <1>1, <1>2, <1>3, Moved DEF Labels
<1>6. RowsOK' /\ HistoryOK'
  BY <1>1 DEF RowsOK, HistoryOK
<1>7. SlotsOK' /\ FileUnique'
  BY <1>1 DEF SlotsOK, FileUnique
<1>8. Announced' /\ RowWritten'
  BY <1>5 DEF Announced, RowWritten
<1>9. \A x \in Keys \ lost : Agrees(slots, index_by_id, x)
  BY <1>1, <1>2 DEF IInv, IndexFollowsRows
<1>10. IndexFollowsRows'
  BY <1>1, <1>9 DEF IndexFollowsRows, Agrees
<1>11. FileFollowsRows'
  <2>1. PositionsOf(file)' = index_by_id
    <3>1. PositionsOf(slots) = index_by_id
      BY <1>1, Rebuilt
    <3> QED
      BY <1>1, <3>1 DEF PositionsOf
  <2>2. \A x \in Keys \ lost : Agrees(file, PositionsOf(file), x)'
    BY <1>1, <1>9, <2>1 DEF Agrees
  <2> QED
    BY <1>1, <2>2 DEF FileFollowsRows
<1> QED
  BY <1>4, <1>6, <1>7, <1>8, <1>10, <1>11 DEF IInv, TypeOK

LEMMA SaveFailsStep ==
  ASSUME IInv, NEW t \in Threads, SaveFails(t)
  PROVE  IInv'
<1>1. /\ RowsOK /\ SlotsOK /\ CallsOK /\ HistoryOK
      /\ pc[t] = "save" /\ mutex' = None /\ Return(t)
      /\ file' \in {file, Torn} /\ unsaved' = unsaved /\ lost' = lost /\ wiped' = wiped
      /\ rows' = rows /\ slots' = slots /\ index_by_id' = index_by_id
      /\ entries' = entries /\ archives' = archives /\ writes' = writes
      /\ faults < MaxFaults /\ faults' = faults + 1
  BY DEF IInv, TypeOK, SaveFails, indexVars, historyVars
<1>2. todo[t] # <<>> /\ mutex = t /\ \A u \in Threads \ {t} : pc[u] \notin {"index", "save"}
  BY <1>1 DEF CallsOK
<1>3. PICK l \in {"idle", "entry"} : Goto(t, l)
  BY <1>1, Returns
<1>4. CallsOK'
  BY <1>1, <1>2, <1>3, MovedOK DEF Labels
<1>5. \A u \in Threads : pc'[u] \notin {"index", "save"}
  BY <1>1, <1>2, <1>3, Moved DEF Labels
<1>6. RowsOK' /\ HistoryOK'
  BY <1>1 DEF RowsOK, HistoryOK
<1>7. SlotsOK' /\ FileUnique'
  BY <1>1 DEF IInv, SlotsOK, FileUnique
<1>8. Announced' /\ RowWritten'
  BY <1>5 DEF Announced, RowWritten
<1>9. \A x \in Keys \ lost : Agrees(slots, index_by_id, x)
  BY <1>1, <1>2 DEF IInv, IndexFollowsRows
<1>10. IndexFollowsRows'
  BY <1>1, <1>9 DEF IndexFollowsRows, Agrees
<1>11. FileFollowsRows'
  <2>1. CASE file' = Torn
    BY <2>1 DEF FileFollowsRows, Readable
  <2>2. CASE file' = file
    <3>1. Readable(file)' = Readable(file) /\ PositionsOf(file)' = PositionsOf(file)
      BY <2>2 DEF Readable, PositionsOf
    <3>2. \A x \in Keys : Agrees(file, PositionsOf(file), x)' = Agrees(file, PositionsOf(file), x)
      BY <1>1, <2>2, <3>1 DEF Agrees
    <3> QED
      BY <1>1, <3>1, <3>2 DEF IInv, FileFollowsRows
  <2> QED
    BY <1>1, <2>1, <2>2
<1> QED
  BY <1>4, <1>6, <1>7, <1>8, <1>10, <1>11 DEF IInv, TypeOK

LEMMA StatementFailsStep ==
  ASSUME IInv, NEW t \in Threads, StatementFails(t)
  PROVE  IInv'
<1>1. /\ RowsOK /\ CallsOK /\ HistoryOK
      /\ pc[t] = "row" /\ mutex' = mutex /\ Return(t)
      /\ UNCHANGED <<storeVars, historyVars>>
      /\ entries' = entries /\ archives' = archives /\ writes' = writes
      /\ faults < MaxFaults /\ faults' = faults + 1
  BY DEF IInv, TypeOK, StatementFails
<1>2. todo[t] # <<>>
  BY <1>1 DEF CallsOK
<1>3. PICK l \in {"idle", "entry"} : Goto(t, l)
  BY <1>1, Returns
<1>4. CallsOK'
  BY <1>1, <1>2, <1>3, MovedAside DEF Labels
<1>5. /\ \A u \in Threads : pc[u] = "index" => pc'[u] = "index" /\ todo'[u] = todo[u]
      /\ \A u \in Threads : pc'[u] \in {"index", "save"} =>
            pc[u] = pc'[u] /\ todo'[u] = todo[u] /\ op'[u] = op[u]
  BY <1>1, <1>2, <1>3, Aside DEF Labels
<1>6. RowsOK' /\ HistoryOK'
  BY <1>1 DEF RowsOK, HistoryOK, storeVars, historyVars
<1>7. /\ SlotsOK' /\ FileUnique' /\ Announced' /\ RowWritten'
      /\ FileFollowsRows' /\ IndexFollowsRows'
  BY <1>1, <1>5, Quiet
<1> QED
  BY <1>4, <1>6, <1>7 DEF IInv, TypeOK

LEMMA SetEntryStep ==
  ASSUME IInv, NEW t \in Threads, SetEntry(t)
  PROVE  IInv'
<1>1. /\ RowsOK /\ CallsOK /\ HistoryOK
      /\ pc[t] = "entry" /\ mutex' = mutex /\ op' = op
      /\ entries' = With(entries, Key(t), New(t))
      /\ todo' = [todo EXCEPT ![t] = Tail(todo[t])]
      /\ pc' = [pc EXCEPT ![t] = IF Tail(todo[t]) = <<>> THEN "archive" ELSE "row"]
      /\ UNCHANGED <<storeVars, historyVars>>
      /\ archives' = archives /\ writes' = writes /\ faults' = faults
  BY DEF IInv, TypeOK, SetEntry
<1>2. /\ todo[t] # <<>> /\ Key(t) \in Keys /\ New(t) \in Entry
      /\ Tail(todo[t]) \in Seq(Fact)
  BY <1>1, CallType DEF CallsOK
<1>3. /\ pc'[t] = IF Tail(todo[t]) = <<>> THEN "archive" ELSE "row"
      /\ todo'[t] = Tail(todo[t])
      /\ \A u \in Threads \ {t} : pc'[u] = pc[u] /\ todo'[u] = todo[u]
      /\ pc' \in [Threads -> Labels] /\ todo' \in [Threads -> Seq(Fact)]
  BY <1>1, <1>2 DEF CallsOK, Labels
<1>4. CallsOK'
  BY <1>1, <1>3 DEF CallsOK, Labels
<1>5. RowsOK'
  <2>1. DOMAIN entries \subseteq Keys /\ entries \in [DOMAIN entries -> Entry]
    BY <1>1 DEF RowsOK
  <2>2. DOMAIN entries' \subseteq Keys /\ entries' \in [DOMAIN entries' -> Entry]
    BY <1>1, <1>2, <2>1 DEF With
  <2> QED
    BY <1>1, <2>2 DEF RowsOK, storeVars
<1>6. HistoryOK'
  BY <1>1 DEF HistoryOK, historyVars
<1>7. /\ SlotsOK' /\ FileUnique' /\ Announced' /\ RowWritten'
      /\ FileFollowsRows' /\ IndexFollowsRows'
  BY <1>1, <1>3, Quiet
<1> QED
  BY <1>4, <1>5, <1>6, <1>7 DEF IInv, TypeOK

LEMMA ArchiveStep ==
  ASSUME IInv, NEW t \in Threads, save_archive(t)
  PROVE  IInv'
<1>1. /\ RowsOK /\ CallsOK /\ HistoryOK
      /\ pc[t] = "archive" /\ mutex' = mutex /\ Goto(t, "idle")
      /\ UNCHANGED <<storeVars, historyVars>>
      /\ entries' = entries /\ archives' = archives + 1
      /\ writes' = writes /\ faults' = faults
  BY DEF IInv, TypeOK, save_archive
<1>2. CallsOK'
  BY <1>1, MovedAside DEF Labels
<1>3. /\ \A u \in Threads : pc[u] = "index" => pc'[u] = "index" /\ todo'[u] = todo[u]
      /\ \A u \in Threads : pc'[u] \in {"index", "save"} =>
            pc[u] = pc'[u] /\ todo'[u] = todo[u] /\ op'[u] = op[u]
  BY <1>1, Aside DEF Labels
<1>4. RowsOK' /\ HistoryOK'
  BY <1>1 DEF RowsOK, HistoryOK, storeVars, historyVars
<1>5. /\ SlotsOK' /\ FileUnique' /\ Announced' /\ RowWritten'
      /\ FileFollowsRows' /\ IndexFollowsRows'
  BY <1>1, <1>3, Quiet
<1> QED
  BY <1>2, <1>4, <1>5 DEF IInv, TypeOK

LEMMA RestartStep ==
  ASSUME IInv, Restart
  PROVE  IInv'
<1>1. /\ RowsOK /\ SlotsOK /\ HistoryOK
      /\ slots' = load(file) /\ index_by_id' = PositionsOf(load(file))
      /\ entries' = LoadEntries /\ mutex' = None
      /\ pc' = [t \in Threads |-> "idle"] /\ op' = [t \in Threads |-> "none"]
      /\ todo' = [t \in Threads |-> <<>>]
      /\ lost' = (IF Readable(file) THEN lost \cup unsaved ELSE Keys)
      /\ wiped' = (wiped \/ ~Readable(file)) /\ unsaved' = {}
      /\ faults < MaxFaults /\ faults' = faults + 1
      /\ rows' = rows /\ file' = file /\ archives' = archives /\ writes' = writes
  BY DEF IInv, TypeOK, Restart
<1>2. RowsOK'
  <2>1. DOMAIN LoadEntries \subseteq Keys /\ LoadEntries \in [DOMAIN LoadEntries -> Entry]
    BY <1>1 DEF LoadEntries, RowsOK
  <2> QED
    BY <1>1, <2>1 DEF RowsOK
<1>3. SlotsOK'
  BY <1>1, Loaded DEF IInv, SlotsOK
<1>4. CallsOK'
  BY <1>1 DEF CallsOK
<1>5. HistoryOK'
  BY <1>1 DEF HistoryOK
<1>6. FileUnique' /\ Announced' /\ RowWritten'
  BY <1>1 DEF IInv, FileUnique, Announced, RowWritten
<1>7. Readable(file)' = Readable(file) /\ PositionsOf(file)' = PositionsOf(file)
  BY <1>1 DEF Readable, PositionsOf
<1>8. ASSUME NEW x \in Keys \ lost'
      PROVE  /\ Readable(file) /\ Agrees(file, PositionsOf(file), x)'
             /\ Agrees(slots, index_by_id, x)'
  <2>1. Readable(file) /\ x \in Keys \ (lost \cup unsaved)
    BY <1>1, <1>8
  <2>2. Agrees(file, PositionsOf(file), x)
    BY <2>1 DEF IInv, FileFollowsRows
  <2>3. slots' = file /\ index_by_id' = PositionsOf(file)
    BY <1>1, <2>1 DEF load
  <2> QED
    BY <1>1, <1>7, <2>1, <2>2, <2>3 DEF Agrees
<1>9. FileFollowsRows'
  <2>1. \A x \in Keys \ lost' : Agrees(file, PositionsOf(file), x)'
    BY <1>8
  <2> QED
    BY <1>1, <2>1 DEF FileFollowsRows
<1>10. IndexFollowsRows'
  BY <1>8 DEF IndexFollowsRows
<1> QED
  BY <1>2, <1>3, <1>4, <1>5, <1>6, <1>9, <1>10 DEF IInv, TypeOK

LEMMA InitInv == Init => IInv
<1> SUFFICES ASSUME Init PROVE IInv
  OBVIOUS
<1> USE DEF Init
<1>1. RowsOK /\ HistoryOK
  <2>1. DOMAIN rows = {} /\ rows \in [{} -> Entry]
    OBVIOUS
  <2>2. DOMAIN entries = {} /\ entries \in [{} -> Entry]
    OBVIOUS
  <2>3. RowsOK
    BY <2>1, <2>2 DEF RowsOK
  <2>4. HistoryOK
    <3>1. wiped \in BOOLEAN /\ lost \subseteq Keys /\ unsaved \subseteq Keys
      OBVIOUS
    <3>2. writes \in 0..MaxWrites /\ faults \in 0..MaxFaults
      OBVIOUS
    <3> QED
      BY <3>1, <3>2 DEF HistoryOK
  <2> QED
    BY <2>3, <2>4
<1>2. SlotsOK /\ FileUnique
  BY DEF SlotsOK, FileUnique
<1>3. CallsOK /\ Announced /\ RowWritten
  BY DEF CallsOK, Announced, RowWritten
<1>4. \A k \in Keys : Agrees(slots, index_by_id, k)
  BY DEF Agrees
<1>5. \A k \in Keys : Agrees(file, PositionsOf(file), k)
  BY DEF Agrees, PositionsOf
<1> QED
  BY <1>1, <1>2, <1>3, <1>4, <1>5
     DEF IInv, TypeOK, FileFollowsRows, IndexFollowsRows

LEMMA NextInv == IInv /\ [Next]_vars => IInv'
<1> SUFFICES ASSUME IInv, [Next]_vars PROVE IInv'
  OBVIOUS
<1>1. CASE Restart
  BY <1>1, RestartStep
<1>2. ASSUME NEW t \in Threads, Call(t) PROVE IInv'
  BY <1>2, CallStep
<1>3. ASSUME NEW t \in Threads, Step(t) PROVE IInv'
  <2>1. CASE WriteRow(t)
    BY <2>1, WriteRowStep
  <2>2. CASE Supersede(t)
    BY <2>2, SupersedeStep
  <2>3. CASE StatementFails(t)
    BY <2>3, StatementFailsStep
  <2>4. CASE WriteIndex(t)
    BY <2>4, WriteIndexStep
  <2>5. CASE save(t)
    BY <2>5, SaveStep
  <2>6. CASE SaveFails(t)
    BY <2>6, SaveFailsStep
  <2>7. CASE SetEntry(t)
    BY <2>7, SetEntryStep
  <2>8. CASE save_archive(t)
    BY <2>8, ArchiveStep
  <2> QED
    BY <1>3, <2>1, <2>2, <2>3, <2>4, <2>5, <2>6, <2>7, <2>8 DEF Step
<1>4. CASE UNCHANGED vars
  <2>1. TypeOK'
    BY <1>4 DEF IInv, TypeOK, RowsOK, SlotsOK, CallsOK, HistoryOK,
                vars, storeVars, indexVars, callVars, historyVars
  <2>2. /\ SlotsOK' /\ FileUnique' /\ Announced' /\ RowWritten'
        /\ FileFollowsRows' /\ IndexFollowsRows'
    BY <1>4, Quiet DEF vars, callVars
  <2> QED
    BY <2>1, <2>2 DEF IInv
<1> QED
  BY <1>1, <1>2, <1>3, <1>4 DEF Next

\* The store and its index are well formed in every reachable state: no id has
\* two slots, the positions are the inverse of the ids, and mutex_ is held by
\* the one thread inside a write.
THEOREM TypeCorrect == Spec => []TypeOK
<1>1. Spec => []IInv
  BY InitInv, NextInv, PTL DEF Spec
<1>2. IInv => TypeOK
  BY DEF IInv
<1> QED
  BY <1>1, <1>2, PTL

\* Whatever calls, failures and restarts came before, the index agrees with the
\* rows on every key that was not lost by a restart between its row and a save.
THEOREM IndexCorrect == Spec => []IndexFollowsRows
<1>1. Spec => []IInv
  BY InitInv, NextInv, PTL DEF Spec
<1>2. IInv => IndexFollowsRows
  BY DEF IInv
<1> QED
  BY <1>1, <1>2, PTL

(***************************************************************************)
(* The bound on the damage: a thread whose slot is written but not saved   *)
(* has its key in unsaved and not in lost, so that a save takes it out of  *)
(* both.                                                                   *)
(***************************************************************************)
Within(S, n) == IsFiniteSet(S) /\ Cardinality(S) <= n
Allowance == IF mutex = None THEN faults ELSE faults + 1
Bounded == wiped \/ Within(lost \cup unsaved, Allowance)
Healed == \A t \in Threads : pc[t] = "save" => Key(t) \notin lost
DInv == IInv /\ Healed /\ Bounded

LEMMA WithinMore ==
  ASSUME NEW S, NEW n \in Nat, NEW m \in Nat, Within(S, n), n <= m
  PROVE  Within(S, m)
<1>1. IsFiniteSet(S) /\ Cardinality(S) <= n
  BY DEF Within
<1>2. Cardinality(S) \in Nat
  BY <1>1, FS_CardinalityType
<1> QED
  BY <1>1, <1>2 DEF Within

LEMMA WithinAdd ==
  ASSUME NEW S, NEW x, NEW n \in Nat, Within(S, n)
  PROVE  Within(S \cup {x}, n + 1)
<1>1. IsFiniteSet(S) /\ Cardinality(S) <= n
  BY DEF Within
<1>2. Cardinality(S) \in Nat
  BY <1>1, FS_CardinalityType
<1>3. /\ IsFiniteSet(S \cup {x})
      /\ Cardinality(S \cup {x}) = IF x \in S THEN Cardinality(S) ELSE Cardinality(S) + 1
  BY <1>1, FS_AddElement
<1> QED
  BY <1>1, <1>2, <1>3 DEF Within

LEMMA WithinLess ==
  ASSUME NEW S, NEW x \in S, NEW n \in Nat, Within(S, n + 1), NEW T \in SUBSET (S \ {x})
  PROVE  Within(T, n)
<1>1. IsFiniteSet(S) /\ Cardinality(S) <= n + 1
  BY DEF Within
<1>2. Cardinality(S) \in Nat
  BY <1>1, FS_CardinalityType
<1>3. IsFiniteSet(S \ {x}) /\ Cardinality(S \ {x}) = Cardinality(S) - 1
  BY <1>1, FS_RemoveElement
<1>4. IsFiniteSet(T) /\ Cardinality(T) <= Cardinality(S \ {x})
  BY <1>3, FS_Subset
<1>5. Cardinality(T) \in Nat
  BY <1>4, FS_CardinalityType
<1> QED
  BY <1>1, <1>2, <1>3, <1>4, <1>5 DEF Within

LEMMA AllowanceType == ASSUME TypeOK PROVE faults \in Nat /\ Allowance \in Nat
<1>1. faults \in Nat
  BY BoundsAssumption DEF TypeOK, HistoryOK
<1> QED
  BY <1>1 DEF Allowance

LEMMA AllowanceNextType == ASSUME NEW n \in Nat, faults' = n PROVE Allowance' \in Nat
<1>1. n + 1 \in Nat
  OBVIOUS
<1> QED
  BY <1>1, Zenon DEF Allowance

\* Nothing is damaged by a step that leaves lost, unsaved and wiped alone and
\* either keeps mutex_ or counts a fault.
LEMMA Undamaged ==
  ASSUME IInv, IInv', Healed, Bounded, UNCHANGED historyVars,
         \/ mutex' = mutex /\ faults' = faults
         \/ faults' = faults + 1,
         \A u \in Threads : pc'[u] \in {"index", "save"} => pc[u] = pc'[u] /\ todo'[u] = todo[u]
  PROVE  Healed' /\ Bounded'
<1>1. lost' = lost /\ unsaved' = unsaved /\ wiped' = wiped
  BY DEF historyVars
<1>2. Healed'
  BY <1>1 DEF Healed, Key
<1>3. faults \in Nat /\ Allowance \in Nat /\ Allowance' \in Nat
  <2>1. faults \in Nat /\ Allowance \in Nat
    BY AllowanceType DEF IInv
  <2>2. faults' \in Nat
    BY <2>1
  <2> QED
    BY <2>1, <2>2, AllowanceNextType
<1>4. Allowance <= Allowance'
  BY <1>3 DEF Allowance
<1>5. ASSUME NEW S, Within(S, Allowance) PROVE Within(S, Allowance')
  BY <1>3, <1>4, <1>5, WithinMore
<1> QED
  BY <1>1, <1>2, <1>5, Zenon DEF Bounded

LEMMA DamageStep ==
  ASSUME IInv, Healed, Bounded, [Next]_vars
  PROVE  Healed' /\ Bounded'
<1>0. TypeOK /\ CallsOK /\ faults \in Nat /\ IInv' /\ Announced
  <2>1. IInv'
    BY NextInv
  <2>2. TypeOK /\ Announced
    BY DEF IInv
  <2> QED
    BY <2>1, <2>2, AllowanceType DEF TypeOK
<1>1. ASSUME NEW t \in Threads, WriteRow(t) PROVE Healed' /\ Bounded'
  <2>1. /\ pc[t] = "row" /\ mutex = None /\ mutex' = t /\ Goto(t, "index")
        /\ unsaved' = unsaved \cup {Key(t)} /\ lost' = lost /\ wiped' = wiped
        /\ faults' = faults
    BY <1>1 DEF WriteRow
  <2>2. pc'[t] = "index" /\ \A u \in Threads \ {t} : pc'[u] = pc[u]
    <3>1. todo[t] # <<>>
      BY <1>0, <2>1 DEF CallsOK
    <3> QED
      BY <1>0, <2>1, <3>1, Moved DEF Labels
  <2>3. \A u \in Threads : pc[u] # "save"
    BY <1>0, <2>1, NamesAssumption DEF CallsOK
  <2>4. Healed'
    BY <2>2, <2>3 DEF Healed
  <2>5. Allowance = faults /\ Allowance' = faults + 1
    BY <1>0, <2>1, NamesAssumption DEF Allowance
  <2>6. (lost \cup unsaved)' = (lost \cup unsaved) \cup {Key(t)}
    BY <2>1
  <2>7. ASSUME Within(lost \cup unsaved, Allowance)
        PROVE  Within((lost \cup unsaved)', Allowance')
    <3>1. Within(lost \cup unsaved, faults)
      BY <2>5, <2>7
    <3>2. Within((lost \cup unsaved) \cup {Key(t)}, faults + 1)
      BY <1>0, <3>1, WithinAdd
    <3> QED
      BY <2>5, <2>6, <3>2
  <2>8. Bounded'
    BY <2>1, <2>7 DEF Bounded
  <2> QED
    BY <2>4, <2>8
<1>2. ASSUME NEW t \in Threads, WriteIndex(t) PROVE Healed' /\ Bounded'
  <2>1. /\ pc[t] = "index" /\ mutex' = mutex /\ Goto(t, "save")
        /\ lost' = lost \ {Key(t)} /\ unsaved' = unsaved /\ wiped' = wiped
        /\ faults' = faults
    BY <1>2 DEF WriteIndex
  <2>2. todo[t] # <<>> /\ Key(t) \in unsaved
    BY <1>0, <2>1 DEF Announced, CallsOK
  <2>3. /\ pc'[t] = "save" /\ todo'[t] = todo[t]
        /\ \A u \in Threads \ {t} : pc'[u] = pc[u] /\ todo'[u] = todo[u]
    BY <1>0, <2>1, <2>2, Moved DEF Labels
  <2>4. Healed'
    BY <2>1, <2>3 DEF Healed, Key
  <2>5. (lost \cup unsaved)' = lost \cup unsaved /\ Allowance' = Allowance
    BY <2>1, <2>2 DEF Allowance
  <2> QED
    BY <2>1, <2>4, <2>5 DEF Bounded
<1>3. ASSUME NEW t \in Threads, save(t) PROVE Healed' /\ Bounded'
  <2>1. /\ pc[t] = "save" /\ mutex' = None /\ Return(t)
        /\ unsaved' = {} /\ lost' = lost /\ wiped' = wiped /\ faults' = faults
    BY <1>3 DEF save
  <2>2. todo[t] # <<>> /\ mutex = t
    BY <1>0, <2>1 DEF CallsOK
  <2>3. Key(t) \in unsaved /\ Key(t) \notin lost
    BY <1>0, <2>1 DEF Announced, Healed
  <2>4. \A u \in Threads : pc'[u] # "save"
    <3>1. IInv' /\ mutex' = None
      BY <1>0, <2>1
    <3> QED
      BY <3>1, NamesAssumption DEF IInv, TypeOK, CallsOK
  <2>5. Healed'
    BY <2>4 DEF Healed
  <2>6. Allowance = faults + 1 /\ Allowance' = faults
    BY <1>0, <2>1, <2>2, NamesAssumption DEF Allowance
  <2>7. /\ Key(t) \in lost \cup unsaved
        /\ (lost \cup unsaved)' = lost
        /\ lost \in SUBSET ((lost \cup unsaved) \ {Key(t)})
    BY <2>1, <2>3
  <2>8. ASSUME Within(lost \cup unsaved, Allowance)
        PROVE  Within((lost \cup unsaved)', Allowance')
    <3>1. Within(lost \cup unsaved, faults + 1)
      BY <2>6, <2>8
    <3>2. Within(lost, faults)
      BY <1>0, <2>7, <3>1, WithinLess
    <3> QED
      BY <2>6, <2>7, <3>2
  <2>9. Bounded'
    BY <2>1, <2>8 DEF Bounded
  <2> QED
    BY <2>5, <2>9
<1>4. CASE Restart
  <2>1. /\ mutex' = None /\ unsaved' = {} /\ faults' = faults + 1
        /\ lost' = (IF Readable(file) THEN lost \cup unsaved ELSE Keys)
        /\ wiped' = (wiped \/ ~Readable(file))
        /\ pc' = [t \in Threads |-> "idle"]
    BY <1>4 DEF Restart
  <2>2. Healed'
    BY <2>1 DEF Healed
  <2>3. CASE wiped \/ ~Readable(file)
    BY <2>1, <2>2, <2>3, Zenon DEF Bounded
  <2>4. CASE ~wiped /\ Readable(file)
    <3>1. Within(lost \cup unsaved, Allowance)
      BY <2>4 DEF Bounded
    <3>2. (lost \cup unsaved)' = lost \cup unsaved
      BY <2>1, <2>4
    <3>3. Allowance \in Nat /\ Allowance' \in Nat /\ Allowance <= Allowance'
      BY <1>0, <2>1 DEF Allowance
    <3>4. Within(lost \cup unsaved, Allowance')
      BY <3>1, <3>3, WithinMore
    <3> QED
      BY <2>2, <3>2, <3>4 DEF Bounded
  <2> QED
    BY <2>3, <2>4
<1>5. ASSUME NEW t \in Threads, Call(t) PROVE Healed' /\ Bounded'
  <2>1. ASSUME NEW call, NEW facts, Begin(t, call, facts) PROVE Healed' /\ Bounded'
    <3>1. /\ UNCHANGED historyVars /\ mutex' = mutex /\ faults' = faults
          /\ pc[t] = "idle" /\ todo' = [todo EXCEPT ![t] = facts]
          /\ pc' = [pc EXCEPT ![t] = IF facts = <<>> THEN "archive" ELSE "row"]
      BY <2>1 DEF Begin
    <3>2. \A u \in Threads :
             pc'[u] \in {"index", "save"} => pc[u] = pc'[u] /\ todo'[u] = todo[u]
      BY <1>0, <3>1 DEF CallsOK
    <3> QED
      BY <1>0, <3>1, <3>2, Undamaged
  <2>2. CASE Ask(t)
    <3>1. /\ UNCHANGED historyVars /\ mutex' = mutex /\ faults' = faults
          /\ pc' = pc /\ todo' = todo
      BY <2>2 DEF Ask, vars, callVars
    <3> QED
      BY <1>0, <3>1, Undamaged
  <2> QED
    BY <1>5, <2>1, <2>2 DEF Call, put_memory, delete_memory, supersede_memory, consolidate
<1>6. ASSUME NEW t \in Threads, Supersede(t) \/ StatementFails(t) \/ SaveFails(t)
      PROVE  Healed' /\ Bounded'
  <2>1. /\ UNCHANGED historyVars /\ Return(t) /\ pc[t] \in {"row", "save"}
        /\ ((mutex' = mutex /\ faults' = faults) \/ faults' = faults + 1)
    BY <1>6 DEF Supersede, StatementFails, SaveFails
  <2>2. PICK l \in {"entry", "idle"} : Goto(t, l)
    BY <2>1 DEF Return
  <2>3. todo[t] # <<>>
    BY <1>0, <2>1 DEF CallsOK
  <2>4. \A u \in Threads :
           pc'[u] \in {"index", "save"} => pc[u] = pc'[u] /\ todo'[u] = todo[u]
    BY <1>0, <2>1, <2>2, <2>3, Aside DEF Labels
  <2> QED
    BY <1>0, <2>1, <2>4, Undamaged
<1>7. ASSUME NEW t \in Threads, SetEntry(t) PROVE Healed' /\ Bounded'
  <2>1. /\ UNCHANGED historyVars /\ mutex' = mutex /\ faults' = faults
        /\ pc[t] = "entry" /\ todo' = [todo EXCEPT ![t] = Tail(@)]
        /\ pc' = [pc EXCEPT ![t] = IF Tail(todo[t]) = <<>> THEN "archive" ELSE "row"]
    BY <1>7 DEF SetEntry
  <2>2. \A u \in Threads :
           pc'[u] \in {"index", "save"} => pc[u] = pc'[u] /\ todo'[u] = todo[u]
    BY <1>0, <2>1 DEF CallsOK
  <2> QED
    BY <1>0, <2>1, <2>2, Undamaged
<1>8. ASSUME NEW t \in Threads, save_archive(t) PROVE Healed' /\ Bounded'
  <2>1. /\ UNCHANGED historyVars /\ mutex' = mutex /\ faults' = faults
        /\ pc[t] = "archive" /\ Goto(t, "idle")
    BY <1>8 DEF save_archive
  <2>2. \A u \in Threads :
           pc'[u] \in {"index", "save"} => pc[u] = pc'[u] /\ todo'[u] = todo[u]
    BY <1>0, <2>1, Aside DEF Labels
  <2> QED
    BY <1>0, <2>1, <2>2, Undamaged
<1>9. CASE UNCHANGED vars
  <2>1. /\ UNCHANGED historyVars /\ mutex' = mutex /\ faults' = faults
        /\ pc' = pc /\ todo' = todo
    BY <1>9 DEF vars, callVars
  <2> QED
    BY <1>0, <2>1, Undamaged
<1> QED
  BY <1>1, <1>2, <1>3, <1>4, <1>5, <1>6, <1>7, <1>8, <1>9 DEF Next, Step

\* A crash, a failed statement or a failed save costs the index one key at
\* most, however many writes came before it, until a start finds an index file
\* it cannot read.
THEOREM DamageCorrect == Spec => []DamageBounded
<1>1. Init => DInv
  <2> SUFFICES ASSUME Init PROVE DInv
    OBVIOUS
  <2>1. IInv
    BY InitInv
  <2>2. /\ lost = {} /\ unsaved = {} /\ faults = 0 /\ mutex = None
        /\ pc = [t \in Threads |-> "idle"]
    BY DEF Init
  <2>3. Healed
    BY <2>2 DEF Healed
  <2>4. Within({}, 0)
    BY FS_EmptySet DEF Within
  <2>5. lost \cup unsaved = {} /\ Allowance = 0
    BY <2>2 DEF Allowance
  <2> QED
    BY <2>1, <2>3, <2>4, <2>5 DEF DInv, Bounded
<1>2. DInv /\ [Next]_vars => DInv'
  BY NextInv, DamageStep DEF DInv
<1>3. DInv => DamageBounded
  <2>1. DInv => faults \in Nat
    BY AllowanceType DEF DInv, IInv
  <2> QED
    BY <2>1 DEF DInv, Bounded, Within, Allowance, DamageBounded
<1> QED
  BY <1>1, <1>2, <1>3, PTL DEF Spec

(***************************************************************************)
(* The heap of search holds the best of the slots offered to it, by        *)
(* induction over the slots.                                               *)
(***************************************************************************)
\* The score a query gives each slot.
Score(q) == [j \in 1..Len(slots) |-> q[slots[j].value]]

LEMMA ScoreType ==
  ASSUME slots \in Seq(Slot), NEW q \in [Values -> Int]
  PROVE  Score(q) \in [1..Len(slots) -> Int]
<1>1. \A j \in 1..Len(slots) : slots[j] \in Slot  BY ElementOfSeq
<1>2. QED  BY <1>1 DEF Score, Slot

\* Any set of slots has a lowest one, the top of the heap.
LEMMA LowestExists ==
  ASSUME NEW L \in Nat, NEW sc \in [1..L -> Int], NEW T \in SUBSET (1..L), T # {}
  PROVE  \E i \in T : \A h \in T \ {i} : sc[h] > sc[i] \/ (sc[h] = sc[i] /\ h > i)
<1> DEFINE Lowest(S, i) == \A h \in S \ {i} : sc[h] > sc[i] \/ (sc[h] = sc[i] /\ h > i)
           G == {n \in Nat : \A S \in SUBSET (1..n) : n <= L /\ S # {} =>
                                \E i \in S : Lowest(S, i)}
<1>1. 0 \in G
  <2>1. 1..0 = {}  OBVIOUS
  <2>2. QED  BY <2>1
<1>2. ASSUME NEW n \in Nat, n \in G PROVE n + 1 \in G
  <2> SUFFICES ASSUME NEW S \in SUBSET (1..(n + 1)), n + 1 <= L, S # {}
               PROVE  \E i \in S : Lowest(S, i)
    OBVIOUS
  <2> DEFINE R == S \ {n + 1}
  <2>1. R \in SUBSET (1..n) /\ n <= L  OBVIOUS
  <2>2. CASE R = {}
    <3>1. n + 1 \in S /\ S \ {n + 1} = {}  BY <2>2
    <3>2. QED  BY <3>1
  <2>3. CASE R # {}
    <3>1. PICK i \in R : Lowest(R, i)  BY <1>2, <2>1, <2>3
    <3>2. i \in 1..n /\ sc[i] \in Int  BY <2>1
    <3>3. CASE n + 1 \notin S
      <4>1. R = S  BY <3>3
      <4>2. QED  BY <3>1, <4>1
    <3>4. CASE n + 1 \in S /\ sc[n + 1] < sc[i]
      <4>1. ASSUME NEW h \in S \ {n + 1} PROVE sc[h] > sc[n + 1]
        <5>1. h \in R /\ h \in 1..L /\ n + 1 \in 1..L  BY <2>1
        <5>2. sc[h] \in Int /\ sc[n + 1] \in Int  BY <5>1
        <5>3. h = i \/ sc[h] >= sc[i]  BY <3>1, <5>1, <5>2, <3>2
        <5>4. QED  BY <3>2, <3>4, <5>2, <5>3
      <4>2. QED  BY <3>4, <4>1
    <3>5. CASE n + 1 \in S /\ ~(sc[n + 1] < sc[i])
      <4>1. n + 1 \in 1..L /\ sc[n + 1] \in Int  OBVIOUS
      <4>2. sc[n + 1] > sc[i] \/ (sc[n + 1] = sc[i] /\ n + 1 > i)
        BY <3>2, <3>5, <4>1
      <4>3. ASSUME NEW h \in S \ {i} PROVE sc[h] > sc[i] \/ (sc[h] = sc[i] /\ h > i)
        BY <3>1, <4>2
      <4>4. QED  BY <4>3
    <3>6. QED  BY <3>3, <3>4, <3>5
  <2>4. QED  BY <2>2, <2>3
<1>3. \A n \in Nat : n \in G
  <2> HIDE DEF G
  <2>1. QED  BY <1>1, <1>2, NatSetInduction
<1>4. \E i \in T : Lowest(T, i)
  <2>1. L \in G /\ L <= L  BY <1>3
  <2>2. QED  BY <2>1
<1>5. QED  BY <1>4

\* h holds the Limit best elements of C, or all of it.
Best(sc, h, C) ==
  /\ h \subseteq C
  /\ Cardinality(h) = IF Cardinality(C) < Limit THEN Cardinality(C) ELSE Limit
  /\ \A a \in h, c \in C \ h : sc[a] >= sc[c]

\* A slot that is offered to the heap leaves it the best of one more.
LEMMA OfferBest ==
  ASSUME slots \in Seq(Slot), NEW q \in [Values -> Int], Limit # 0,
         NEW j \in 1..Len(slots), NEW C \in SUBSET (1..Len(slots)), j \notin C,
         NEW h, Best(Score(q), h, C)
  PROVE  Best(Score(q), Offer(q, h, j), C \cup {j})
<1> DEFINE L == Len(slots)
           sc == Score(q)
<1>1. L \in Nat /\ sc \in [1..L -> Int]  BY ScoreType
<1>2. \A i \in 1..L : sc[i] = q[slots[i].value]  BY DEF Score
<1>3. IsFiniteSet(1..L)  BY <1>1, FS_Interval
<1>4. IsFiniteSet(C) /\ h \subseteq C /\ h \in SUBSET (1..L)
  BY <1>3, FS_Subset DEF Best
<1>5. IsFiniteSet(h) /\ Cardinality(h) \in Nat /\ Cardinality(C) \in Nat
  BY <1>4, FS_Subset, FS_CardinalityType
<1>6. Cardinality(C \cup {j}) = Cardinality(C) + 1  BY <1>4, FS_AddElement
<1>7. j \notin h  BY <1>4
<1>8. Cardinality(h \cup {j}) = Cardinality(h) + 1  BY <1>5, <1>7, FS_AddElement
<1> HIDE DEF L, sc
<1>9. CASE Cardinality(h) < Limit
  <2>1. Offer(q, h, j) = h \cup {j}  BY <1>9 DEF Offer
  <2>2. Cardinality(h) = Cardinality(C)  BY <1>5, <1>9 DEF Best
  <2>3. h = C  BY <1>4, <2>2, FS_Subset
  <2>4. (C \cup {j}) \ (h \cup {j}) = {}  BY <2>3
  <2>5. QED  BY <1>5, <1>6, <1>9, <2>1, <2>2, <2>3, <2>4 DEF Best
<1>10. CASE ~(Cardinality(h) < Limit)
  <2>1. Cardinality(h) = Limit /\ Limit <= Cardinality(C)  BY <1>5, <1>10 DEF Best
  <2>2. h # {}  BY <2>1, FS_EmptySet
  <2> DEFINE Top(i) == \A x \in h \ {i} : Better(q, x, i)
             top == CHOOSE i \in h : Top(i)
  <2>3. \E i \in h : Top(i)
    <3>1. PICK i \in h : \A x \in h \ {i} : sc[x] > sc[i] \/ (sc[x] = sc[i] /\ x > i)
      BY <1>1, <1>4, <2>2, LowestExists
    <3>2. \A x \in h \ {i} : Better(q, x, i)  BY <1>2, <1>4, <3>1 DEF Better
    <3>3. QED  BY <3>2
  <2>4. top \in h /\ Top(top)  BY <2>3
  <2>5. Offer(q, h, j) = IF q[slots[j].value] > q[slots[top].value]
                           THEN (h \ {top}) \cup {j} ELSE h
    BY <1>10 DEF Offer
  <2> HIDE DEF top
  <2>6. top \in 1..L /\ j \in 1..L  BY <1>4, <2>4 DEF L
  <2>7. \A x \in h : sc[x] >= sc[top]
    <3>1. ASSUME NEW x \in h PROVE sc[x] >= sc[top]
      <4>1. sc[x] \in Int /\ sc[top] \in Int /\ x \in 1..L  BY <1>1, <1>4, <2>6
      <4>2. CASE x = top  BY <4>1, <4>2
      <4>3. CASE x # top
        <5>1. Better(q, x, top)  BY <2>4, <4>3
        <5>2. sc[x] > sc[top] \/ sc[x] = sc[top]
          BY <1>2, <2>6, <4>1, <5>1 DEF Better
        <5>3. QED  BY <4>1, <5>2
      <4>4. QED  BY <4>2, <4>3
    <3>2. QED  BY <3>1
  <2> HIDE DEF Top
  <2>8. CASE sc[j] > sc[top]
    <3>1. Offer(q, h, j) = (h \ {top}) \cup {j}  BY <1>2, <2>5, <2>6, <2>8
    <3>2. Cardinality((h \ {top}) \cup {j}) = Limit
      <4>1. IsFiniteSet(h \ {top}) /\ Cardinality(h \ {top}) = Cardinality(h) - 1
        BY <1>5, <2>4, FS_RemoveElement
      <4>2. j \notin h \ {top}  BY <1>7
      <4>3. Cardinality((h \ {top}) \cup {j}) = Cardinality(h \ {top}) + 1
        BY <4>1, <4>2, FS_AddElement
      <4>4. QED  BY <1>5, <2>1, <4>1, <4>3
    <3>3. (h \ {top}) \cup {j} \subseteq C \cup {j}  BY <1>4
    <3>4. ASSUME NEW a \in (h \ {top}) \cup {j},
                 NEW c \in (C \cup {j}) \ ((h \ {top}) \cup {j})
          PROVE  sc[a] >= sc[c]
      <4>1. c \in C /\ (c = top \/ c \in C \ h)  OBVIOUS
      <4>2. a \in 1..L /\ c \in 1..L  BY <1>4, <2>6, <4>1 DEF L
      <4>3. sc[a] \in Int /\ sc[c] \in Int /\ sc[top] \in Int /\ sc[j] \in Int
        BY <1>1, <2>6, <4>2
      <4>4. sc[top] >= sc[c]
        BY <2>4, <4>1, <4>3 DEF Best, sc
      <4>5. sc[a] >= sc[top]  BY <2>7, <2>8, <4>3
      <4>6. QED  BY <4>3, <4>4, <4>5
    <3>5. ~(Cardinality(C \cup {j}) < Limit)  BY <1>5, <1>6, <2>1
    <3>6. Best(sc, (h \ {top}) \cup {j}, C \cup {j})
      BY <3>2, <3>3, <3>4, <3>5 DEF Best
    <3>7. QED  BY <3>1, <3>6 DEF sc
  <2>9. CASE ~(sc[j] > sc[top])
    <3>1. Offer(q, h, j) = h  BY <1>2, <2>5, <2>6, <2>9
    <3>2. ASSUME NEW a \in h, NEW c \in (C \cup {j}) \ h PROVE sc[a] >= sc[c]
      <4>1. c = j \/ c \in C \ h  OBVIOUS
      <4>2. CASE c = j
        <5>1. sc[a] \in Int /\ sc[j] \in Int /\ sc[top] \in Int  BY <1>1, <1>4, <2>6
        <5>2. QED  BY <2>7, <2>9, <4>2, <5>1
      <4>3. CASE c \in C \ h  BY <4>3 DEF Best, sc
      <4>4. QED  BY <4>1, <4>2, <4>3
    <3>3. h \subseteq C \cup {j}  BY <1>4
    <3>4. ~(Cardinality(C \cup {j}) < Limit)  BY <1>5, <1>6, <2>1
    <3>5. Best(sc, h, C \cup {j})  BY <2>1, <3>2, <3>3, <3>4 DEF Best
    <3>6. QED  BY <3>1, <3>5 DEF sc
  <2>10. QED  BY <2>8, <2>9
<1>11. QED  BY <1>9, <1>10

\* The slots among the first n that the mask lets through.
Offered(mask, n) == {j \in 1..n : j \in mask /\ slots[j].active}

Scan(heap, q, mask) ==
  heap = [n \in 0..Len(slots) |->
            IF n = 0 THEN {}
            ELSE IF n \in mask /\ slots[n].active THEN Offer(q, heap[n - 1], n)
                 ELSE heap[n - 1]]

LEMMA ScanExists ==
  ASSUME slots \in Seq(Slot), NEW q, NEW mask
  PROVE  \E heap : Scan(heap, q, mask)
<1> DEFINE N == Len(slots)
           A == SUBSET (1..N)
           base == {}
           F == [n \in 1..N |-> [a \in A |->
                   IF n \in mask /\ slots[n].active THEN Offer(q, a, n) ELSE a]]
<1>1. N \in Nat /\ base \in A  OBVIOUS
<1>2. ASSUME NEW n \in 1..N, NEW a \in A PROVE F[n][a] \in A
  <2>1. Offer(q, a, n) \in A  BY DEF Offer
  <2>2. QED  BY <2>1
<1>3. \E k : Solves(k, N, A, base, F)
  <2> HIDE DEF N, A, base, F
  <2>1. QED  BY <1>1, <1>2, RecursionExists
<1>4. PICK k : Solves(k, N, A, base, F)  BY <1>3
<1>5. k \in [0..N -> A] /\ k[0] = {} /\ \A n \in 1..N : k[n] = F[n][k[n - 1]]
  BY <1>4 DEF Solves
<1>6. ASSUME NEW n \in 0..N, n # 0
      PROVE  k[n] = IF n \in mask /\ slots[n].active THEN Offer(q, k[n - 1], n)
                    ELSE k[n - 1]
  <2>1. n \in 1..N /\ n - 1 \in 0..N  BY <1>1, <1>6
  <2>2. k[n - 1] \in A  BY <1>5, <2>1
  <2>3. QED  BY <1>5, <2>1, <2>2
<1>7. Scan(k, q, mask)  BY <1>5, <1>6 DEF Scan
<1>8. QED  BY <1>7

\* search returns the best of the slots the mask lets through.
LEMMA SearchBest ==
  ASSUME slots \in Seq(Slot), NEW q \in [Values -> Int], NEW mask
  PROVE  Best(Score(q), search(q, mask), Offered(mask, Len(slots)))
<1> DEFINE L == Len(slots)
           c == CHOOSE g : Scan(g, q, mask)
<1>1. L \in Nat  OBVIOUS
<1>2. search(q, mask) = IF Limit = 0 THEN {} ELSE c[L]  BY DEF search, Scan
<1>3. Scan(c, q, mask)  BY ScanExists
<1> HIDE DEF c
<1>4. \A n \in 0..L : c[n] = IF n = 0 THEN {}
                    ELSE IF n \in mask /\ slots[n].active THEN Offer(q, c[n - 1], n)
                         ELSE c[n - 1]
  BY <1>3 DEF Scan
<1>5. IsFiniteSet({}) /\ Cardinality({}) = 0  BY FS_EmptySet
<1>6. CASE Limit = 0
  <2>1. Offered(mask, L) \subseteq 1..L  BY DEF Offered
  <2>2. IsFiniteSet(1..L)  BY <1>1, FS_Interval
  <2>3. IsFiniteSet(Offered(mask, L))  BY <2>1, <2>2, FS_Subset
  <2>4. Cardinality(Offered(mask, L)) \in Nat  BY <2>3, FS_CardinalityType
  <2>5. QED  BY <1>2, <1>5, <1>6, <2>4 DEF Best
<1>7. CASE Limit # 0
  <2> DEFINE G == {n \in Nat : n <= L => Best(Score(q), c[n], Offered(mask, n))}
  <2>1. 0 \in G
    <3>1. 1..0 = {}  OBVIOUS
    <3>2. Offered(mask, 0) = {}  BY <3>1 DEF Offered
    <3>3. c[0] = {}  BY <1>1, <1>4
    <3>4. Best(Score(q), {}, {})  BY <1>5, <1>7 DEF Best
    <3>5. QED  BY <3>2, <3>3, <3>4
  <2>2. ASSUME NEW n \in Nat, n \in G PROVE n + 1 \in G
    <3> SUFFICES ASSUME n + 1 <= L
                 PROVE  Best(Score(q), c[n + 1], Offered(mask, n + 1))
      OBVIOUS
    <3>1. Best(Score(q), c[n], Offered(mask, n))  BY <1>1, <2>2
    <3>2. n + 1 \in 0..L /\ n + 1 # 0 /\ (n + 1) - 1 = n /\ n + 1 \in 1..L  BY <1>1
    <3>3. Offered(mask, n) \in SUBSET (1..L) /\ n + 1 \notin Offered(mask, n)
      BY <1>1 DEF Offered
    <3>4. CASE n + 1 \in mask /\ slots[n + 1].active
      <4>1. Offered(mask, n + 1) = Offered(mask, n) \cup {n + 1}
        BY <3>4 DEF Offered
      <4>2. c[n + 1] = Offer(q, c[n], n + 1)  BY <1>4, <3>2, <3>4
      <4>3. Best(Score(q), Offer(q, c[n], n + 1), Offered(mask, n) \cup {n + 1})
        BY <1>7, <3>1, <3>2, <3>3, OfferBest
      <4>4. QED  BY <4>1, <4>2, <4>3
    <3>5. CASE ~(n + 1 \in mask /\ slots[n + 1].active)
      <4>1. Offered(mask, n + 1) = Offered(mask, n)  BY <3>5 DEF Offered
      <4>2. c[n + 1] = c[n]  BY <1>4, <3>2, <3>5
      <4>3. QED  BY <3>1, <4>1, <4>2
    <3>6. QED  BY <3>4, <3>5
  <2>3. \A n \in Nat : n \in G
    <3> HIDE DEF G
    <3>1. QED  BY <2>1, <2>2, NatSetInduction
  <2>4. Best(Score(q), c[L], Offered(mask, L))
    <3>1. L \in G /\ L <= L  BY <1>1, <2>3
    <3>2. QED  BY <3>1
  <2>5. QED  BY <1>2, <1>7, <2>4
<1>8. QED  BY <1>6, <1>7

AtLeast(sc, S, th) == {j \in S : sc[j] >= th}

\* Cutting at a threshold after the best were taken is taking the best of what
\* reaches the threshold.
LEMMA CutBest ==
  ASSUME NEW L \in Nat, NEW sc \in [1..L -> Int], NEW C \in SUBSET (1..L), NEW h,
         Best(sc, h, C), NEW th \in Int
  PROVE  Best(sc, AtLeast(sc, h, th), AtLeast(sc, C, th))
<1> DEFINE H == {j \in h : sc[j] >= th}
           D == {j \in C : sc[j] >= th}
<1> SUFFICES Best(sc, H, D)  BY DEF AtLeast
<1>1. h \subseteq C /\ H \subseteq D /\ H \subseteq h /\ D \subseteq C  BY DEF Best
<1>2. IsFiniteSet(C)
  <2>1. IsFiniteSet(1..L)  BY FS_Interval
  <2>2. QED  BY <2>1, FS_Subset
<1>3. IsFiniteSet(D) /\ IsFiniteSet(h) /\ IsFiniteSet(H)  BY <1>1, <1>2, FS_Subset
<1>4. /\ Cardinality(C) \in Nat /\ Cardinality(D) \in Nat
      /\ Cardinality(h) \in Nat /\ Cardinality(H) \in Nat
  BY <1>2, <1>3, FS_CardinalityType
<1>5. \A a \in H, d \in D \ H : sc[a] >= sc[d]  BY DEF Best
<1>6. CASE H = h
  <2>1. Cardinality(h) <= Cardinality(D)  BY <1>1, <1>3, <1>6, FS_Subset
  <2>2. Cardinality(D) <= Cardinality(C)  BY <1>1, <1>2, FS_Subset
  <2>3. Cardinality(h) = IF Cardinality(C) < Limit THEN Cardinality(C) ELSE Limit
    BY DEF Best
  <2>4. Cardinality(H) = IF Cardinality(D) < Limit THEN Cardinality(D) ELSE Limit
    <3> HIDE DEF H, D
    <3>1. QED  BY <1>4, <1>6, <2>1, <2>2, <2>3
  <2>5. QED  BY <1>1, <1>5, <2>4 DEF Best
<1>7. CASE H # h
  <2>1. PICK x \in h : ~(sc[x] >= th)  BY <1>1, <1>7
  <2>2. ASSUME NEW d \in D PROVE d \in H
    <3>1. d \in 1..L /\ x \in 1..L  BY <1>1
    <3>2. sc[d] \in Int /\ sc[x] \in Int /\ sc[d] >= th  BY <3>1
    <3>3. ~(sc[x] >= sc[d])  BY <2>1, <3>2
    <3>4. d \in h  BY <3>3 DEF Best
    <3>5. QED  BY <3>2, <3>4
  <2>3. H = D  BY <1>1, <2>2
  <2>4. H \subseteq h \ {x}  BY <1>1, <2>1
  <2>5. IsFiniteSet(h \ {x}) /\ Cardinality(h \ {x}) = Cardinality(h) - 1
    BY <1>3, FS_RemoveElement
  <2>6. Cardinality(H) <= Cardinality(h) - 1  BY <2>4, <2>5, FS_Subset
  <2>7. Cardinality(h) <= Limit  BY <1>4 DEF Best
  <2>8. Cardinality(D) < Limit
    <3> HIDE DEF H, D
    <3>1. QED  BY <1>4, <2>3, <2>6, <2>7
  <2>9. QED  BY <1>1, <1>5, <2>3, <2>8 DEF Best
<1>8. QED  BY <1>6, <1>7

(***************************************************************************)
(* QueryFindsBest.  The allowlist does not look at the visibility, so the  *)
(* limit may be used up by entries that matches then drops; the theorem is *)
(* about callers whose filters see every visibility that is stored.        *)
(***************************************************************************)
Usual == {Shared} \cup {e.visibility : e \in Entries}
UsualEntry == {e \in Entry : e.visibility \in Usual}
UsualFact == [key : Keys, entry : UsualEntry]
UsualInv ==
  /\ \A k \in DOMAIN rows : rows[k].visibility \in Usual
  /\ \A t \in Threads : todo[t] \in Seq(UsualFact)

\* No filter that is asked for leaves out what a caller stores.
FiltersSeeAll == \A f \in Filters : Usual \subseteq f.visible

LEMMA UsualEntries ==
  /\ Entries \subseteq UsualEntry /\ NoEntry \in UsualEntry
  /\ \A v \in Values : FactEntry(v) \in UsualEntry
<1>1. \A v : FactEntry(v).visibility \in Usual  BY DEF FactEntry, Usual
<1>2. NoEntry.visibility \in Usual  BY DEF NoEntry, FactEntry, Usual
<1>3. \A e \in Entries : e.visibility \in Usual  BY DEF Usual
<1> QED  BY <1>1, <1>2, <1>3, FactEntryType DEF UsualEntry

\* What a call that begins has to write.
LEMMA BeginsUsual ==
  ASSUME NEW t \in Threads, Call(t)
  PROVE  \/ UNCHANGED vars
         \/ \E call, facts : facts \in Seq(UsualFact) /\ Begin(t, call, facts)
<1>1. \A k \in Keys, e \in UsualEntry : <<[key |-> k, entry |-> e]>> \in Seq(UsualFact)
  BY DEF UsualFact
<1>2. CASE put_memory(t)
  <2>1. PICK k \in Keys, e \in Entries : Begin(t, "put", <<[key |-> k, entry |-> e]>>)
    BY <1>2 DEF put_memory
  <2> QED  BY <1>1, <2>1, UsualEntries
<1>3. CASE delete_memory(t)
  <2>1. PICK k \in Keys : Begin(t, "delete", <<[key |-> k, entry |-> NoEntry]>>)
    BY <1>3 DEF delete_memory
  <2> QED  BY <1>1, <2>1, UsualEntries
<1>4. CASE supersede_memory(t)
  <2>1. PICK k \in Keys : Begin(t, "supersede", <<[key |-> k, entry |-> NoEntry]>>)
    BY <1>4 DEF supersede_memory
  <2> QED  BY <1>1, <2>1, UsualEntries
<1>5. CASE consolidate(t)
  <2> DEFINE Made(s) == [i \in DOMAIN s |-> [key |-> s[i].key, entry |-> FactEntry(s[i].value)]]
  <2>1. PICK s \in Facts : Begin(t, "consolidate", Made(s))
    BY <1>5 DEF consolidate
  <2>2. s \in Seq([key : Keys, value : Values])
    OBVIOUS
  <2>3. Len(s) \in Nat /\ DOMAIN s = 1..Len(s)
    BY <2>2
  <2>4. \A i \in 1..Len(s) : s[i] \in [key : Keys, value : Values]
    BY <2>2, ElementOfSeq
  <2>5. \A i \in 1..Len(s) : [key |-> s[i].key, entry |-> FactEntry(s[i].value)] \in UsualFact
    BY <2>4, UsualEntries DEF UsualFact
  <2>6. Made(s) \in [1..Len(s) -> UsualFact]  BY <2>3, <2>5
  <2> HIDE DEF Made
  <2>7. Made(s) \in Seq(UsualFact)  BY <2>3, <2>6, FunctionIsSeq
  <2> QED  BY <2>1, <2>7
<1>6. CASE Ask(t)  BY <1>6 DEF Ask
<1> QED  BY <1>2, <1>3, <1>4, <1>5, <1>6 DEF Call

\* Every step but the beginning of a call leaves what is still to be written.
LEMMA TodoShrinks ==
  ASSUME IInv, UsualInv, NEW t \in Threads, Step(t)
  PROVE  \A u \in Threads : todo'[u] \in Seq(UsualFact)
<1>1. todo \in [Threads -> Seq(Fact)]  BY DEF IInv, TypeOK, CallsOK
<1>2. <<>> \in Seq(UsualFact)  OBVIOUS
<1>3. CASE \E l : Goto(t, l)
  <2>1. \A u \in Threads : todo'[u] \in {todo[u], <<>>}  BY <1>1, <1>3 DEF Goto
  <2> QED  BY <1>2, <2>1 DEF UsualInv
<1>4. CASE SetEntry(t)
  <2>1. todo[t] # <<>> /\ todo[t] \in Seq(UsualFact)
    BY <1>4 DEF SetEntry, IInv, TypeOK, CallsOK, UsualInv
  <2>2. Tail(todo[t]) \in Seq(UsualFact)  BY <2>1
  <2>3. \A u \in Threads : todo'[u] = IF u = t THEN Tail(todo[t]) ELSE todo[u]
    BY <1>1, <1>4 DEF SetEntry
  <2> QED  BY <2>2, <2>3 DEF UsualInv
<1>5. SetEntry(t) \/ \E l : Goto(t, l)
  BY DEF Step, WriteRow, Supersede, StatementFails, WriteIndex, save, SaveFails,
         save_archive, Return
<1> QED  BY <1>3, <1>4, <1>5

LEMMA RowsStayUsual ==
  ASSUME IInv, UsualInv, NEW t \in Threads, Step(t)
  PROVE  \A k \in DOMAIN rows' : rows'[k].visibility \in Usual
<1>1. DOMAIN rows \subseteq Keys /\ rows \in [DOMAIN rows -> Entry]
  BY DEF IInv, TypeOK, RowsOK
<1>2. CASE WriteRow(t)
  <2>1. todo[t] # <<>> /\ todo[t] \in Seq(UsualFact)
    BY <1>2 DEF WriteRow, IInv, TypeOK, CallsOK, UsualInv
  <2>2. Head(todo[t]) \in UsualFact  BY <2>1
  <2>3. New(t) \in UsualEntry  BY <2>2 DEF New, UsualFact
  <2>4. New(t).visibility \in Usual  BY <2>3 DEF UsualEntry
  <2> DEFINE k == Key(t)
             e == New(t)
  <2>5. CASE rows' = Without(rows, k)
    BY <2>5 DEF Without, UsualInv
  <2>6. CASE rows' = With(rows, k, e)
    BY <2>4, <2>6 DEF With, UsualInv
  <2>7. CASE k \in DOMAIN rows /\ rows' = [rows EXCEPT ![k].value = e.value,
                                                       ![k].status = e.status]
    <3> HIDE DEF k, e
    <3>1. rows[k] \in Entry  BY <1>1, <2>7
    <3>2. DOMAIN rows' = DOMAIN rows  BY <2>7
    <3>3. rows'[k].visibility = rows[k].visibility  BY <1>1, <2>7, <3>1 DEF Entry
    <3>4. \A x \in DOMAIN rows \ {k} : rows'[x] = rows[x]  BY <2>7
    <3> QED  BY <3>2, <3>3, <3>4 DEF UsualInv
  <2> QED  BY <1>2, <2>5, <2>6, <2>7 DEF WriteRow, Upsert
<1>3. CASE Supersede(t)
  <2> DEFINE k == Key(t)
  <2>1. rows' = IF k \in DOMAIN rows THEN [rows EXCEPT ![k].status = "superseded"]
                ELSE rows
    BY <1>3 DEF Supersede
  <2> HIDE DEF k
  <2>2. DOMAIN rows' = DOMAIN rows /\ \A x \in DOMAIN rows \ {k} : rows'[x] = rows[x]
    BY <2>1
  <2>3. k \in DOMAIN rows => rows'[k].visibility = rows[k].visibility
    BY <1>1, <2>1 DEF Entry
  <2> QED  BY <2>2, <2>3 DEF UsualInv
<1>4. WriteRow(t) \/ Supersede(t) \/ rows' = rows
  BY DEF Step, StatementFails, WriteIndex, save, SaveFails, SetEntry, save_archive,
         storeVars
<1> QED  BY <1>2, <1>3, <1>4 DEF UsualInv

LEMMA UsualStep == IInv /\ UsualInv /\ [Next]_vars => UsualInv'
<1> SUFFICES ASSUME IInv, UsualInv, [Next]_vars PROVE UsualInv'
  OBVIOUS
<1>1. CASE UNCHANGED vars
  BY <1>1 DEF vars, storeVars, callVars, UsualInv
<1>2. CASE Restart
  <2>1. rows' = rows /\ \A t \in Threads : todo'[t] = <<>>  BY <1>2 DEF Restart
  <2>2. <<>> \in Seq(UsualFact)  OBVIOUS
  <2> QED  BY <2>1, <2>2 DEF UsualInv
<1>3. ASSUME NEW t \in Threads, Call(t) PROVE UsualInv'
  <2>1. CASE UNCHANGED vars  BY <1>1, <2>1
  <2>2. CASE \E call, facts : facts \in Seq(UsualFact) /\ Begin(t, call, facts)
    <3>1. PICK call, facts : facts \in Seq(UsualFact) /\ Begin(t, call, facts)
      BY <2>2
    <3>2. rows' = rows /\ todo' = [todo EXCEPT ![t] = facts]
      BY <3>1 DEF Begin, storeVars
    <3>3. todo \in [Threads -> Seq(Fact)]  BY DEF IInv, TypeOK, CallsOK
    <3> QED  BY <3>1, <3>2, <3>3 DEF UsualInv
  <2> QED  BY <1>3, <2>1, <2>2, BeginsUsual
<1>4. ASSUME NEW t \in Threads, Step(t) PROVE UsualInv'
  BY <1>4, TodoShrinks, RowsStayUsual DEF UsualInv
<1> QED  BY <1>1, <1>2, <1>3, <1>4 DEF Next

\* With no write under way and no key lost, the slots the mask lets through are
\* those of the rows that match, with the values of the rows.
LEMMA OfferedMatch ==
  ASSUME IInv, UsualInv, mutex = None, lost = {}, FiltersSeeAll, NEW f \in Filters
  PROVE  LET C == Offered(build_allowlist_mask(Allowed(f)), Len(slots))
             R == {k \in DOMAIN rows : matches(f, rows[k])}
         IN  /\ \A j \in C : slots[j].id \in R
             /\ \A k \in R : /\ k \in DOMAIN index_by_id /\ index_by_id[k] \in C
                             /\ slots[index_by_id[k]].id = k
                             /\ slots[index_by_id[k]].value = rows[k].value
<1> DEFINE R == {k \in DOMAIN rows : matches(f, rows[k])}
<1>1. \A k \in DOMAIN rows : rows[k].visibility \in f.visible
  BY DEF UsualInv, FiltersSeeAll
<1>2. R = Allowed(f)  BY <1>1 DEF Allowed, matches
<1>3. \A k \in Keys : Agrees(slots, index_by_id, k)
  <2>1. \A t \in Threads : pc[t] # "index"  BY DEF IInv, TypeOK, CallsOK
  <2> QED  BY <2>1 DEF IInv, IndexFollowsRows
<1>4. R \subseteq Keys /\ R \subseteq DOMAIN rows  BY DEF IInv, TypeOK, RowsOK
<1> HIDE DEF R
<1>5. \A k \in R : /\ k \in DOMAIN index_by_id /\ slots[index_by_id[k]].active
                   /\ slots[index_by_id[k]].value = rows[k].value
  BY <1>3, <1>4 DEF Agrees
<1>6. \A k \in DOMAIN index_by_id :
         index_by_id[k] \in 1..Len(slots) /\ slots[index_by_id[k]].id = k
  BY DEF IInv, TypeOK, SlotsOK
<1> DEFINE mask == build_allowlist_mask(Allowed(f))
           C == Offered(mask, Len(slots))
<1>7. mask = {index_by_id[k] : k \in R}
  BY <1>2, <1>5 DEF build_allowlist_mask
<1> HIDE DEF mask
<1>8. \A j \in C : slots[j].id \in R  BY <1>5, <1>6, <1>7 DEF Offered
<1>9. \A k \in R : index_by_id[k] \in C  BY <1>5, <1>6, <1>7 DEF Offered
<1> QED  BY <1>5, <1>6, <1>8, <1>9 DEF mask, R

ImageOf(g, S) == {g[x] : x \in S}

\* A one-to-one image has as many elements.
LEMMA ImageCardinality ==
  ASSUME NEW S, IsFiniteSet(S), NEW X, S \subseteq X, NEW g,
         \A x, y \in X : g[x] = g[y] => x = y
  PROVE  Cardinality(ImageOf(g, S)) = Cardinality(S)
<1> DEFINE T == {g[x] : x \in S}
           b == [x \in S |-> g[x]]
<1>1. b \in Bijection(S, T)
  <2>1. b \in [S -> T]  OBVIOUS
  <2>2. \A x, y \in S : b[x] = b[y] => x = y  OBVIOUS
  <2>3. \A z \in T : \E x \in S : b[x] = z  OBVIOUS
  <2> HIDE DEF b, T
  <2> QED  BY <2>1, <2>2, <2>3 DEF Bijection, Injection, Surjection, IsInjective
<1> HIDE DEF b, T
<1>2. Cardinality(T) = Cardinality(S)
  <2>1. ExistsBijection(S, T)  BY <1>1 DEF ExistsBijection
  <2> QED  BY <2>1, FS_Bijection
<1> QED  BY <1>2 DEF T, ImageOf

\* A result is known by its slot: ids and slots are one to one.
LEMMA QueryRight ==
  ASSUME IInv, UsualInv, mutex = None, lost = {}, FiltersSeeAll,
         NEW q \in Queries, NEW f \in Filters
  PROVE  BestOf(query_indexed(q, f), Ranked(q, f))
<1> DEFINE L == Len(slots)
           sc == Score(q.index)
           mask == build_allowlist_mask(Allowed(f))
           C == Offered(mask, L)
           hits == search(q.index, mask)
           R == {k \in DOMAIN rows : matches(f, rows[k])}
           H == {j \in hits : sc[j] >= Threshold}
           D == {j \in C : sc[j] >= Threshold}
           got == query_indexed(q, f)
           all == Ranked(q, f)
           P == [j \in 1..L |-> <<slots[j].id, sc[j]>>]
<1>1. slots \in Seq(Slot) /\ L \in Nat  BY DEF IInv, TypeOK, SlotsOK
<1>2. q.index \in [Values -> Int] /\ Threshold \in Int  BY QueriesAssumption DEF Query
<1>3. sc \in [1..L -> Int]  BY <1>1, <1>2, ScoreType
<1>4. \A j \in 1..L : sc[j] = q.index[slots[j].value]  BY DEF Score
<1>5. Best(sc, hits, C)  BY <1>1, <1>2, SearchBest
<1>6. C \in SUBSET (1..L)  BY DEF Offered
<1>7. /\ \A j \in C : slots[j].id \in R
      /\ \A k \in R : /\ k \in DOMAIN index_by_id /\ index_by_id[k] \in C
                      /\ slots[index_by_id[k]].id = k
                      /\ slots[index_by_id[k]].value = rows[k].value
  BY OfferedMatch
<1>8. hits \subseteq C  BY <1>5 DEF Best
<1>9. \A i, j \in 1..L : slots[i].id = slots[j].id => i = j
  BY DEF IInv, TypeOK, SlotsOK
<1>10. got = {<<slots[j].id, q.index[slots[j].value]>> :
                j \in {i \in hits : /\ q.index[slots[i].value] >= Threshold
                                    /\ slots[i].id \in DOMAIN rows
                                    /\ matches(f, rows[slots[i].id])}}
  BY DEF query_indexed
<1>11. all = {<<k, q.index[rows[k].value]>> :
                k \in {x \in DOMAIN rows : /\ matches(f, rows[x])
                                           /\ q.index[rows[x].value] >= Threshold}}
  BY DEF Ranked
<1> HIDE DEF sc, mask, C, hits, got, all
<1>12. Best(sc, H, D)
  <2> HIDE DEF L, H, D
  <2>1. H = AtLeast(sc, hits, Threshold) /\ D = AtLeast(sc, C, Threshold)
    BY DEF AtLeast, H, D
  <2>2. Best(sc, AtLeast(sc, hits, Threshold), AtLeast(sc, C, Threshold))
    BY <1>1, <1>2, <1>3, <1>5, <1>6, CutBest
  <2> QED  BY <2>1, <2>2
<1>13. \A j \in 1..L : P[j] = <<slots[j].id, sc[j]>>  OBVIOUS
<1>14. H \subseteq D /\ D \subseteq 1..L  BY <1>6, <1>8
<1>15. got = {P[j] : j \in H}
  <2>1. \A j \in hits : j \in 1..L /\ slots[j].id \in R  BY <1>6, <1>7, <1>8
  <2>2. {i \in hits : /\ q.index[slots[i].value] >= Threshold
                      /\ slots[i].id \in DOMAIN rows
                      /\ matches(f, rows[slots[i].id])} = H
    BY <1>4, <2>1
  <2>3. \A j \in H : P[j] = <<slots[j].id, q.index[slots[j].value]>>  BY <1>4, <1>13, <1>14
  <2> HIDE DEF P, H
  <2> QED  BY <1>10, <2>2, <2>3
<1>16. all = {P[j] : j \in D}
  <2>1. ASSUME NEW x \in all PROVE \E j \in D : x = P[j]
    <3>1. PICK k \in R : q.index[rows[k].value] >= Threshold /\ x = <<k, q.index[rows[k].value]>>
      BY <1>11
    <3>2. index_by_id[k] \in C /\ index_by_id[k] \in 1..L  BY <1>6, <1>7
    <3>3. sc[index_by_id[k]] = q.index[rows[k].value] /\ slots[index_by_id[k]].id = k
      BY <1>4, <1>7, <3>2
    <3>4. index_by_id[k] \in D /\ x = P[index_by_id[k]]
      BY <1>13, <3>1, <3>2, <3>3
    <3> QED  BY <3>4
  <2>2. ASSUME NEW j \in D PROVE P[j] \in all
    <3>1. j \in C /\ j \in 1..L /\ slots[j].id \in R  BY <1>6, <1>7
    <3> DEFINE k == slots[j].id
    <3>2. index_by_id[k] \in 1..L /\ slots[index_by_id[k]].id = k
          /\ slots[index_by_id[k]].value = rows[k].value
      BY <1>6, <1>7, <3>1
    <3>3. index_by_id[k] = j  BY <1>9, <3>1, <3>2
    <3>4. sc[j] = q.index[rows[k].value]  BY <1>4, <3>1, <3>2, <3>3
    <3>5. P[j] = <<k, q.index[rows[k].value]>> /\ q.index[rows[k].value] >= Threshold
      BY <1>13, <3>1, <3>4
    <3> QED  BY <1>11, <3>1, <3>5
  <2> HIDE DEF P, D
  <2> QED  BY <2>1, <2>2
<1>17. \A i, j \in 1..L : P[i] = P[j] => i = j  BY <1>9, <1>13
<1> HIDE DEF P, H, D
<1>18. IsFiniteSet(D) /\ IsFiniteSet(H)
  <2>1. IsFiniteSet(1..L)  BY <1>1, FS_Interval
  <2> QED  BY <1>14, <2>1, FS_Subset
<1>19. Cardinality(got) = Cardinality(H)
  <2> HIDE DEF L
  <2>1. H \subseteq 1..L  BY <1>14
  <2>2. Cardinality(ImageOf(P, H)) = Cardinality(H)
    BY <1>17, <1>18, <2>1, ImageCardinality
  <2> QED  BY <1>15, <2>2 DEF ImageOf
<1>20. Cardinality(all) = Cardinality(D)
  <2> HIDE DEF L
  <2>1. Cardinality(ImageOf(P, D)) = Cardinality(D)
    BY <1>14, <1>17, <1>18, ImageCardinality
  <2> QED  BY <1>16, <2>1 DEF ImageOf
<1>21. got \subseteq all  BY <1>14, <1>15, <1>16
<1>22. ASSUME NEW r \in got, NEW x \in all \ got PROVE r[2] >= x[2]
  <2>1. PICK a \in H : r = P[a]  BY <1>15
  <2>2. PICK c \in D : x = P[c]  BY <1>16
  <2>3. c \notin H  BY <1>15, <2>2
  <2>4. sc[a] >= sc[c]  BY <1>12, <2>3 DEF Best
  <2>5. r[2] = sc[a] /\ x[2] = sc[c]  BY <1>13, <1>14, <2>1, <2>2
  <2> QED  BY <2>4, <2>5
<1>23. Cardinality(H) = IF Cardinality(D) < Limit THEN Cardinality(D) ELSE Limit
  BY <1>12 DEF Best
<1> QED  BY <1>19, <1>20, <1>21, <1>22, <1>23 DEF got, all, BestOf

\* When no filter that is asked for leaves out a visibility that is stored, a query
\* through the index returns the best of the rows by what the index computes for
\* their values: the heap, the mask and the threshold lose nothing
\* (turboquant_index.cpp:129-211, memory_store.cpp:333-393), for every query, limit
\* and threshold.
THEOREM QueryCorrect ==
  ASSUME FiltersSeeAll
  PROVE  Spec => []QueryFindsBest
<1>1. Init => IInv /\ UsualInv
  <2> SUFFICES ASSUME Init PROVE UsualInv  BY InitInv
  <2>1. DOMAIN rows = {} /\ \A t \in Threads : todo[t] = <<>>  BY DEF Init
  <2>2. <<>> \in Seq(UsualFact)  OBVIOUS
  <2> QED  BY <2>1, <2>2 DEF UsualInv
<1>2. IInv /\ UsualInv /\ [Next]_vars => (IInv /\ UsualInv)'
  BY NextInv, UsualStep
<1>3. IInv /\ UsualInv => QueryFindsBest
  BY FiltersSeeAll, QueryRight DEF QueryFindsBest
<1> QED  BY <1>1, <1>2, <1>3, PTL DEF Spec
====
