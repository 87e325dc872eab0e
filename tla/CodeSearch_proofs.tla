-------------------------- MODULE CodeSearch_proofs --------------------------
(***************************************************************************)
(* Proofs about CodeSearch, for every set of files, contents, threads and  *)
(* memories: what a call that ran alone leaves in the index, and what      *)
(* deduplication, ranking and the cut make of the candidates of a search.  *)
(***************************************************************************)
EXTENDS CodeSearch, SequenceTheorems, FiniteSetTheorems, WellFoundedInduction, TLAPS

(***************************************************************************)
(* Induction: G is the set of what the statement holds of.                 *)
(***************************************************************************)
LEMMA LeastNatural ==
    ASSUME NEW T \in SUBSET Nat, T # {}
    PROVE  \E x \in T : \A y \in T : x <= y
<1>1. PICK x \in T : \A y \in T : ~ (<<y, x>> \in OpToRel(<, Nat))
  BY NatLessThanWellFounded, WFMin
<1>2. \A y \in T : ~(y < x)  BY <1>1 DEF OpToRel
<1>3. QED  BY <1>2

LEMMA NatSetInduction ==
    ASSUME NEW G, 0 \in G, \A n \in Nat : n \in G => n + 1 \in G
    PROVE  \A n \in Nat : n \in G
<1> DEFINE T == {n \in Nat : n \notin G}
<1>1. SUFFICES ASSUME T # {} PROVE FALSE  OBVIOUS
<1>2. PICK x \in T : \A y \in T : x <= y
  <2>1. T \in SUBSET Nat  OBVIOUS
  <2>2. QED  BY <1>1, <2>1, LeastNatural
<1>3. x \in Nat /\ x # 0  OBVIOUS
<1>4. x - 1 \in Nat /\ ~(x <= x - 1) /\ x = (x - 1) + 1  BY <1>3
<1>5. x - 1 \in G  BY <1>2, <1>4
<1>6. QED  BY <1>4, <1>5

LEMMA SeqSetInduction ==
    ASSUME NEW X, NEW G, <<>> \in G,
           \A s \in Seq(X), x \in X : s \in G => Append(s, x) \in G
    PROVE  \A s \in Seq(X) : s \in G
<1> DEFINE H == {n \in Nat : \A s \in Seq(X) : Len(s) = n => s \in G}
<1>1. 0 \in H
  <2>1. ASSUME NEW s \in Seq(X), Len(s) = 0 PROVE s \in G
    BY <2>1, EmptySeq
  <2>2. QED  BY <2>1
<1>2. ASSUME NEW n \in Nat, n \in H PROVE n + 1 \in H
  <2>1. ASSUME NEW s \in Seq(X), Len(s) = n + 1 PROVE s \in G
    <3>1. s # <<>>  BY <2>1, EmptySeq
    <3>2. PICK r \in Seq(X), x \in X : s = Append(r, x)  BY <3>1, SequenceEmptyOrAppend
    <3>3. Len(r) = n  BY <2>1, <3>2, AppendProperties, LenProperties
    <3>4. r \in G  BY <1>2, <3>3
    <3>5. QED  BY <3>2, <3>4
  <2>2. QED  BY <2>1
<1>3. \A n \in Nat : n \in H
  <2> HIDE DEF H
  <2>1. QED  BY <1>1, <1>2, NatSetInduction
<1>4. QED  BY <1>3, LenProperties

Solves(k, N, A, base, F) ==
    k \in [0..N -> A] /\ k[0] = base /\ \A n \in 1..N : k[n] = F[n][k[n - 1]]

\* A recursion over 0..N that stays in A has a solution.
LEMMA RecursionExists ==
    ASSUME NEW N \in Nat, NEW A, NEW base \in A,
           NEW F, \A n \in 1..N, a \in A : F[n][a] \in A
    PROVE  \E k : Solves(k, N, A, base, F)
<1> DEFINE Upto(m) == \E k \in [0..m -> A] : k[0] = base /\ \A n \in 1..m : k[n] = F[n][k[n - 1]]
           G == {m \in Nat : m <= N => Upto(m)}
<1>1. 0 \in G
  <2> DEFINE k == [n \in 0..0 |-> base]
  <2>1. k \in [0..0 -> A] /\ k[0] = base /\ \A n \in 1..0 : k[n] = F[n][k[n - 1]]
    OBVIOUS
  <2>2. Upto(0)  BY <2>1
  <2>3. QED  BY <2>2
<1>2. ASSUME NEW m \in Nat, m \in G PROVE m + 1 \in G
  <2> SUFFICES ASSUME m + 1 <= N PROVE Upto(m + 1)  OBVIOUS
  <2>1. PICK k \in [0..m -> A] : k[0] = base /\ \A n \in 1..m : k[n] = F[n][k[n - 1]]
    BY <1>2
  <2> DEFINE j == [n \in 0..(m + 1) |-> IF n = m + 1 THEN F[n][k[m]] ELSE k[n]]
  <2>2. m + 1 \in 1..N /\ k[m] \in A  OBVIOUS
  <2>3. F[m + 1][k[m]] \in A  BY <2>2
  <2>4. j \in [0..(m + 1) -> A]  BY <2>3
  <2>5. j[0] = base  BY <2>1
  <2>6. \A n \in 1..(m + 1) : j[n] = F[n][j[n - 1]]  BY <2>1
  <2>7. QED  BY <2>4, <2>5, <2>6
<1>3. \A m \in Nat : m \in G
  <2> HIDE DEF G
  <2>1. QED  BY <1>1, <1>2, NatSetInduction
<1>4. N \in G  BY <1>3
<1>5. QED  BY <1>4 DEF Solves

(***************************************************************************)
(* KeepIn.                                                                 *)
(***************************************************************************)
Keeps(k, s, S) ==
    k = [n \in 0..Len(s) |-> IF n = 0 THEN <<>>
                             ELSE IF s[n] \in S THEN Append(k[n - 1], s[n]) ELSE k[n - 1]]

LEMMA KeepRecursion ==
    ASSUME NEW X, NEW s \in Seq(X), NEW S
    PROVE  \E k \in [0..Len(s) -> Seq(X)] : Keeps(k, s, S) /\ KeepIn(s, S) = k[Len(s)]
<1>0. Len(s) \in Nat /\ \A n \in 1..Len(s) : s[n] \in X  BY LenProperties, ElementOfSeq
<1> DEFINE F == [n \in 1..Len(s) |-> [a \in Seq(X) |->
                    IF s[n] \in S THEN Append(a, s[n]) ELSE a]]
<1>1. \A n \in 1..Len(s), a \in Seq(X) : F[n][a] \in Seq(X)
  <2>1. \A n \in 1..Len(s) : \A a \in Seq(X) : Append(a, s[n]) \in Seq(X)
    BY <1>0, AppendProperties
  <2>2. QED  BY <2>1
<1>2. <<>> \in Seq(X)  BY EmptySeq
<1>3. PICK k \in [0..Len(s) -> Seq(X)] :
          k[0] = <<>> /\ \A n \in 1..Len(s) : k[n] = F[n][k[n - 1]]
  <2> DEFINE N == Len(s)
             A == Seq(X)
             base == <<>>
  <2>1. N \in Nat /\ base \in A /\ \A n \in 1..N, a \in A : F[n][a] \in A
    BY <1>0, <1>1, <1>2
  <2> HIDE DEF F, N, A, base
  <2>2. \E k : Solves(k, N, A, base, F)
    BY <2>1, RecursionExists
  <2>3. QED  BY <2>2 DEF N, A, base, Solves
<1>4. Keeps(k, s, S)
  <2>1. ASSUME NEW n \in 0..Len(s), n # 0
        PROVE  k[n] = IF s[n] \in S THEN Append(k[n - 1], s[n]) ELSE k[n - 1]
    <3>1. n \in 1..Len(s) /\ n - 1 \in 0..Len(s)  BY <1>0, <2>1
    <3>2. QED  BY <1>3, <3>1
  <2>2. QED  BY <1>3, <2>1 DEF Keeps
<1> DEFINE c == CHOOSE g : Keeps(g, s, S)
<1>5. Keeps(c, s, S)  BY <1>4
<1>6. KeepIn(s, S) = c[Len(s)]  BY DEF KeepIn, Keeps
<1> HIDE DEF c
<1>7. \A n \in 0..Len(s) : c[n] = IF n = 0 THEN <<>>
             ELSE IF s[n] \in S THEN Append(c[n - 1], s[n]) ELSE c[n - 1]
  BY <1>5 DEF Keeps
<1> DEFINE G == {n \in Nat : n \in 0..Len(s) => c[n] \in Seq(X)}
<1>8. 0 \in G  BY <1>0, <1>2, <1>7
<1>9. ASSUME NEW n \in Nat, n \in G PROVE n + 1 \in G
  <2> SUFFICES ASSUME n + 1 \in 0..Len(s) PROVE c[n + 1] \in Seq(X)  OBVIOUS
  <2>1. n \in 0..Len(s) /\ n + 1 \in 1..Len(s) /\ (n + 1) - 1 = n /\ n + 1 # 0  BY <1>0
  <2>2. c[n] \in Seq(X) /\ s[n + 1] \in X  BY <1>0, <1>9, <2>1
  <2>3. Append(c[n], s[n + 1]) \in Seq(X)  BY <2>2, AppendProperties
  <2>4. c[n + 1] = IF s[n + 1] \in S THEN Append(c[n], s[n + 1]) ELSE c[n]  BY <1>7, <2>1
  <2>5. QED  BY <2>2, <2>3, <2>4
<1>10. \A n \in Nat : n \in G
  <2> HIDE DEF G
  <2>1. QED  BY <1>8, <1>9, NatSetInduction
<1>11. c \in [0..Len(s) -> Seq(X)]
  <2>1. \A n \in 0..Len(s) : c[n] \in Seq(X)  BY <1>0, <1>10
  <2>2. c = [n \in 0..Len(s) |-> c[n]]  BY <1>5 DEF Keeps
  <2>3. QED  BY <2>1, <2>2
<1>12. QED  BY <1>5, <1>6, <1>11

LEMMA KeepType ==
    ASSUME NEW X, NEW s \in Seq(X), NEW S
    PROVE  KeepIn(s, S) \in Seq(X)
BY KeepRecursion, LenProperties

LEMMA KeepEmpty == \A S : KeepIn(<<>>, S) = <<>>
<1> SUFFICES ASSUME NEW S PROVE KeepIn(<<>>, S) = <<>>  OBVIOUS
<1>1. <<>> \in Seq({}) /\ Len(<<>>) = 0  BY EmptySeq
<1>2. PICK k \in [0..Len(<<>>) -> Seq({})] : Keeps(k, <<>>, S) /\ KeepIn(<<>>, S) = k[Len(<<>>)]
  BY <1>1, KeepRecursion
<1>3. k[0] = <<>>  BY <1>1, <1>2 DEF Keeps
<1>4. QED  BY <1>1, <1>2, <1>3

LEMMA KeepAppend ==
    ASSUME NEW X, NEW s \in Seq(X), NEW x \in X, NEW S
    PROVE  KeepIn(Append(s, x), S) = IF x \in S THEN Append(KeepIn(s, S), x) ELSE KeepIn(s, S)
<1> DEFINE r == Append(s, x)
<1>1. /\ r \in Seq(X) /\ Len(r) = Len(s) + 1 /\ Len(s) \in Nat /\ r[Len(s) + 1] = x
      /\ \A i \in 1..Len(s) : r[i] = s[i]
  BY AppendProperties, LenProperties
<1> HIDE DEF r
<1>2. PICK k : Keeps(k, s, S) /\ KeepIn(s, S) = k[Len(s)]  BY KeepRecursion
<1>3. PICK j : Keeps(j, r, S) /\ KeepIn(r, S) = j[Len(r)]  BY <1>1, KeepRecursion
<1>4. \A n \in 0..Len(s) : k[n] = IF n = 0 THEN <<>>
             ELSE IF s[n] \in S THEN Append(k[n - 1], s[n]) ELSE k[n - 1]
  BY <1>2 DEF Keeps
<1>5. \A n \in 0..Len(r) : j[n] = IF n = 0 THEN <<>>
             ELSE IF r[n] \in S THEN Append(j[n - 1], r[n]) ELSE j[n - 1]
  BY <1>3 DEF Keeps
<1> DEFINE G == {n \in Nat : n \in 0..Len(s) => j[n] = k[n]}
<1>6. 0 \in G  BY <1>1, <1>4, <1>5
<1>7. ASSUME NEW n \in Nat, n \in G PROVE n + 1 \in G
  <2> SUFFICES ASSUME n + 1 \in 0..Len(s) PROVE j[n + 1] = k[n + 1]  OBVIOUS
  <2>1. /\ n \in 0..Len(s) /\ n + 1 \in 1..Len(s) /\ (n + 1) - 1 = n /\ n + 1 # 0
        /\ n + 1 \in 0..Len(r)
    BY <1>1
  <2>2. j[n] = k[n] /\ r[n + 1] = s[n + 1]  BY <1>1, <1>7, <2>1
  <2>3. j[n + 1] = IF r[n + 1] \in S THEN Append(j[n], r[n + 1]) ELSE j[n]  BY <1>5, <2>1
  <2>4. k[n + 1] = IF s[n + 1] \in S THEN Append(k[n], s[n + 1]) ELSE k[n]  BY <1>4, <2>1
  <2>5. QED  BY <2>2, <2>3, <2>4
<1>8. \A n \in Nat : n \in G
  <2> HIDE DEF G
  <2>1. QED  BY <1>6, <1>7, NatSetInduction
<1>9. j[Len(s)] = k[Len(s)]  BY <1>1, <1>8
<1>10. Len(r) \in 0..Len(r) /\ Len(r) # 0 /\ Len(r) - 1 = Len(s)  BY <1>1
<1>11. j[Len(r)] = IF r[Len(r)] \in S THEN Append(j[Len(r) - 1], r[Len(r)]) ELSE j[Len(r) - 1]
  BY <1>5, <1>10
<1>12. QED  BY <1>1, <1>2, <1>3, <1>9, <1>10, <1>11 DEF r

\* Only what S says of the members of the sequence matters.
LEMMA KeepAgrees ==
    ASSUME NEW X, NEW S, NEW T, \A x \in X : x \in S <=> x \in T
    PROVE  \A s \in Seq(X) : KeepIn(s, S) = KeepIn(s, T)
<1> DEFINE G == {s \in Seq(X) : KeepIn(s, S) = KeepIn(s, T)}
<1>1. <<>> \in G  BY KeepEmpty, EmptySeq
<1>2. ASSUME NEW s \in Seq(X), NEW x \in X, s \in G PROVE Append(s, x) \in G
  <2>1. Append(s, x) \in Seq(X)  BY AppendProperties
  <2>2. KeepIn(Append(s, x), S) = IF x \in S THEN Append(KeepIn(s, S), x) ELSE KeepIn(s, S)
    BY KeepAppend
  <2>3. KeepIn(Append(s, x), T) = IF x \in T THEN Append(KeepIn(s, T), x) ELSE KeepIn(s, T)
    BY KeepAppend
  <2>4. KeepIn(s, S) = KeepIn(s, T) /\ (x \in S <=> x \in T)  BY <1>2
  <2>5. KeepIn(Append(s, x), S) = KeepIn(Append(s, x), T)  BY <2>2, <2>3, <2>4
  <2>6. QED  BY <2>1, <2>5
<1>3. \A s \in Seq(X) : s \in G
  <2> HIDE DEF G
  <2>1. QED  BY <1>1, <1>2, SeqSetInduction
<1>4. QED  BY <1>3

LEMMA KeepAll ==
    ASSUME NEW X, NEW S, X \subseteq S
    PROVE  \A s \in Seq(X) : KeepIn(s, S) = s
<1> DEFINE G == {s \in Seq(X) : KeepIn(s, S) = s}
<1>1. <<>> \in G  BY KeepEmpty, EmptySeq
<1>2. ASSUME NEW s \in Seq(X), NEW x \in X, s \in G PROVE Append(s, x) \in G
  <2>1. Append(s, x) \in Seq(X)  BY AppendProperties
  <2>2. KeepIn(Append(s, x), S) = IF x \in S THEN Append(KeepIn(s, S), x) ELSE KeepIn(s, S)
    BY KeepAppend
  <2>3. QED  BY <1>2, <2>1, <2>2
<1>3. \A s \in Seq(X) : s \in G
  <2> HIDE DEF G
  <2>1. QED  BY <1>1, <1>2, SeqSetInduction
<1>4. QED  BY <1>3

LEMMA KeepNone ==
    ASSUME NEW X, NEW S, X \cap S = {}
    PROVE  \A s \in Seq(X) : KeepIn(s, S) = <<>>
<1> DEFINE G == {s \in Seq(X) : KeepIn(s, S) = <<>>}
<1>1. <<>> \in G  BY KeepEmpty, EmptySeq
<1>2. ASSUME NEW s \in Seq(X), NEW x \in X, s \in G PROVE Append(s, x) \in G
  <2>1. Append(s, x) \in Seq(X)  BY AppendProperties
  <2>2. KeepIn(Append(s, x), S) = IF x \in S THEN Append(KeepIn(s, S), x) ELSE KeepIn(s, S)
    BY KeepAppend
  <2>3. QED  BY <1>2, <2>1, <2>2
<1>3. \A s \in Seq(X) : s \in G
  <2> HIDE DEF G
  <2>1. QED  BY <1>1, <1>2, SeqSetInduction
<1>4. QED  BY <1>3

LEMMA KeepTwice ==
    ASSUME NEW X, NEW S, NEW T
    PROVE  \A s \in Seq(X) : KeepIn(KeepIn(s, S), T) = KeepIn(s, S \cap T)
<1> DEFINE G == {s \in Seq(X) : KeepIn(KeepIn(s, S), T) = KeepIn(s, S \cap T)}
<1>1. <<>> \in G  BY KeepEmpty, EmptySeq
<1>2. ASSUME NEW s \in Seq(X), NEW x \in X, s \in G PROVE Append(s, x) \in G
  <2>1. Append(s, x) \in Seq(X) /\ KeepIn(s, S) \in Seq(X)  BY AppendProperties, KeepType
  <2>2. KeepIn(Append(s, x), S) = IF x \in S THEN Append(KeepIn(s, S), x) ELSE KeepIn(s, S)
    BY KeepAppend
  <2>3. KeepIn(Append(KeepIn(s, S), x), T)
          = IF x \in T THEN Append(KeepIn(KeepIn(s, S), T), x) ELSE KeepIn(KeepIn(s, S), T)
    BY <2>1, KeepAppend
  <2>4. KeepIn(Append(s, x), S \cap T)
          = IF x \in S \cap T THEN Append(KeepIn(s, S \cap T), x) ELSE KeepIn(s, S \cap T)
    BY KeepAppend
  <2>5. KeepIn(KeepIn(s, S), T) = KeepIn(s, S \cap T)  BY <1>2
  <2>6. KeepIn(KeepIn(Append(s, x), S), T) = KeepIn(Append(s, x), S \cap T)
    <3>1. CASE x \in S /\ x \in T  BY <2>2, <2>3, <2>4, <2>5, <3>1
    <3>2. CASE x \in S /\ x \notin T  BY <2>2, <2>3, <2>4, <2>5, <3>2
    <3>3. CASE x \notin S  BY <2>2, <2>4, <2>5, <3>3
    <3>4. QED  BY <3>1, <3>2, <3>3
  <2>7. QED  BY <2>1, <2>6
<1>3. \A s \in Seq(X) : s \in G
  <2> HIDE DEF G
  <2>1. QED  BY <1>1, <1>2, SeqSetInduction
<1>4. QED  BY <1>3

LEMMA KeepConcat ==
    ASSUME NEW X, NEW S, NEW r \in Seq(X)
    PROVE  \A s \in Seq(X) : KeepIn(r \o s, S) = KeepIn(r, S) \o KeepIn(s, S)
<1> DEFINE G == {s \in Seq(X) : KeepIn(r \o s, S) = KeepIn(r, S) \o KeepIn(s, S)}
<1>0. KeepIn(r, S) \in Seq(X)  BY KeepType
<1>1. <<>> \in G
  <2>1. r \o <<>> = r /\ KeepIn(r, S) \o <<>> = KeepIn(r, S)  BY <1>0, ConcatEmptySeq
  <2>2. QED  BY <2>1, KeepEmpty, EmptySeq
<1>2. ASSUME NEW s \in Seq(X), NEW x \in X, s \in G PROVE Append(s, x) \in G
  <2>1. /\ Append(s, x) \in Seq(X) /\ KeepIn(s, S) \in Seq(X) /\ r \o s \in Seq(X)
        /\ <<x>> \in Seq(X)
    BY AppendProperties, KeepType, ConcatProperties
  <2>2. r \o Append(s, x) = Append(r \o s, x)
    BY <2>1, AppendIsConcat, ConcatAssociative
  <2>3. KeepIn(r, S) \o Append(KeepIn(s, S), x) = Append(KeepIn(r, S) \o KeepIn(s, S), x)
    <3>1. KeepIn(r, S) \o KeepIn(s, S) \in Seq(X)  BY <1>0, <2>1, ConcatProperties
    <3>2. QED  BY <1>0, <2>1, <3>1, AppendIsConcat, ConcatAssociative
  <2>4. KeepIn(Append(r \o s, x), S)
          = IF x \in S THEN Append(KeepIn(r \o s, S), x) ELSE KeepIn(r \o s, S)
    BY <2>1, KeepAppend
  <2>5. KeepIn(Append(s, x), S) = IF x \in S THEN Append(KeepIn(s, S), x) ELSE KeepIn(s, S)
    BY KeepAppend
  <2>6. QED  BY <1>2, <2>1, <2>2, <2>3, <2>4, <2>5
<1>3. \A s \in Seq(X) : s \in G
  <2> HIDE DEF G
  <2>1. QED  BY <1>1, <1>2, SeqSetInduction
<1>4. QED  BY <1>3

(***************************************************************************)
(* The index.                                                              *)
(***************************************************************************)
AllRows == UNION {Range(Rows(f, c)) : f \in Files, c \in Contents}
FileRows(f) == {r \in AllRows : r.file = f}

IndexType ==
    /\ symbols \in Seq(AllRows)
    /\ file_hashes \in [Files -> Contents \cup {NoContent}]
    /\ pc \in [Threads -> {"idle", "remove", "insert", "record"}]
    /\ file \in [Threads -> Files \cup {NoFile}]
    /\ content \in [Threads -> Contents \cup {NoContent}]
    /\ bad \in [Threads -> BOOLEAN] /\ mixed \in [Files -> BOOLEAN]
    /\ calls \in 0..MaxCalls

\* A thread has a file and a content while it is in a call.
Calling ==
    \A t \in Threads :
        /\ pc[t] = "idle" => file[t] = NoFile
        /\ pc[t] # "idle" => file[t] \in Files /\ content[t] \in Contents

\* A call that is not bad has its file to itself, and has done its work so far.
Alone ==
    \A t \in Threads : pc[t] # "idle" /\ ~bad[t] =>
        /\ \A u \in Threads : file[u] = file[t] => u = t
        /\ pc[t] = "insert" => RowsOf(file[t], symbols) = <<>>
        /\ pc[t] = "record" => RowsOf(file[t], symbols) = Rows(file[t], content[t])

IndexInv == IndexType /\ Calling /\ Alone /\ SettledIndex

LEMMA RowsFacts ==
    ASSUME NEW f \in Files, NEW c \in Contents
    PROVE  /\ Rows(f, c) \in Seq(AllRows)
           /\ Rows(f, c) \in Seq(FileRows(f))
<1>1. Chunks[c] \in Seq(Range(Chunks[c]))  BY ChunksAssumption
<1>2. Len(Chunks[c]) \in Nat /\ DOMAIN Chunks[c] = 1..Len(Chunks[c])  BY <1>1, LenProperties
<1>3. Rows(f, c) = [i \in 1..Len(Chunks[c]) |-> Row(f, Chunks[c][i])]  BY <1>2 DEF Rows
<1>4. \A i \in 1..Len(Chunks[c]) : Row(f, Chunks[c][i]) \in Range(Rows(f, c))
  BY <1>3 DEF Range
<1>5. \A i \in 1..Len(Chunks[c]) : Row(f, Chunks[c][i]) \in AllRows
  BY <1>4 DEF AllRows
<1>6. \A i \in 1..Len(Chunks[c]) : Row(f, Chunks[c][i]) \in FileRows(f)
  BY <1>5 DEF FileRows, Row
<1>7. QED  BY <1>2, <1>3, <1>5, <1>6, SeqDef

\* The rows an INSERT that partly fails adds are rows of its file.
LEMMA InsertedFacts ==
    ASSUME NEW f \in Files, NEW c \in Contents, NEW kept
    PROVE  /\ Inserted(f, c, kept) \in Seq(AllRows)
           /\ Inserted(f, c, kept) \in Seq(FileRows(f))
<1>1. Chunks[c] \in Seq(Range(Chunks[c]))  BY ChunksAssumption
<1> DEFINE D == 1..Len(Chunks[c])
           places == KeepIn([i \in DOMAIN Chunks[c] |-> i], kept)
<1>2. Len(Chunks[c]) \in Nat /\ DOMAIN Chunks[c] = D  BY <1>1, LenProperties
<1>3. [i \in DOMAIN Chunks[c] |-> i] \in Seq(D)  BY <1>2, SeqDef
<1>4. places \in Seq(D)  BY <1>3, KeepType
<1>5. Len(places) \in Nat /\ DOMAIN places = 1..Len(places) /\ \A i \in 1..Len(places) : places[i] \in D
  BY <1>4, LenProperties, ElementOfSeq
<1>6. \A i \in D : Row(f, Chunks[c][i]) \in AllRows /\ Row(f, Chunks[c][i]) \in FileRows(f)
  <2>1. Rows(f, c) = [i \in D |-> Row(f, Chunks[c][i])]  BY <1>2 DEF Rows
  <2>2. Len(Rows(f, c)) = Len(Chunks[c])  BY <1>2, <2>1
  <2>3. QED  BY <2>1, <2>2, RowsFacts, ElementOfSeq
<1> HIDE DEF D, places
<1>7. Inserted(f, c, kept) = [i \in 1..Len(places) |-> Row(f, Chunks[c][places[i]])]
  BY <1>5 DEF Inserted, places
<1>8. QED  BY <1>5, <1>6, <1>7, SeqDef

\* RowsOf with a set that does not depend on the table.
LEMMA RowsOfIs ==
    ASSUME NEW f \in Files, NEW s \in Seq(AllRows)
    PROVE  RowsOf(f, s) = KeepIn(s, FileRows(f))
<1>1. s \in Seq(Range(s)) /\ Range(s) \subseteq AllRows  BY SeqOfRange, RangeOfSeq
<1>2. \A r \in Range(s) : r \in {x \in Range(s) : x.file = f} <=> r \in FileRows(f)
  BY <1>1 DEF FileRows
<1>3. KeepIn(s, {x \in Range(s) : x.file = f}) = KeepIn(s, FileRows(f))
  BY <1>1, <1>2, KeepAgrees
<1>4. QED  BY <1>3 DEF RowsOf, Select

\* Rows of one file that are added do not show in another.
LEMMA AddRows ==
    ASSUME NEW f \in Files, NEW s \in Seq(AllRows), NEW new \in Seq(FileRows(f)),
           new \in Seq(AllRows)
    PROVE  /\ s \o new \in Seq(AllRows)
           /\ RowsOf(f, s \o new) = RowsOf(f, s) \o new
           /\ \A g \in Files \ {f} : RowsOf(g, s \o new) = RowsOf(g, s)
<1>1. s \o new \in Seq(AllRows)  BY ConcatProperties
<1>2. \A g \in Files : KeepIn(s \o new, FileRows(g)) = KeepIn(s, FileRows(g)) \o KeepIn(new, FileRows(g))
  BY KeepConcat
<1>3. KeepIn(new, FileRows(f)) = new  BY KeepAll
<1>4. ASSUME NEW g \in Files \ {f} PROVE KeepIn(new, FileRows(g)) = <<>>
  <2>1. FileRows(f) \cap FileRows(g) = {}  BY <1>4 DEF FileRows
  <2>2. QED  BY <2>1, KeepNone
<1>5. \A g \in Files : KeepIn(s, FileRows(g)) \o <<>> = KeepIn(s, FileRows(g))
  BY KeepType, ConcatEmptySeq
<1>6. \A g \in Files : RowsOf(g, s) = KeepIn(s, FileRows(g))
                       /\ RowsOf(g, s \o new) = KeepIn(s \o new, FileRows(g))
  BY <1>1, RowsOfIs
<1>7. QED  BY <1>1, <1>2, <1>3, <1>4, <1>5, <1>6

\* The DELETE takes the rows of one file and leaves those of every other.
LEMMA DeleteRows ==
    ASSUME NEW f \in Files, NEW s \in Seq(AllRows), NEW rest,
           rest = Select(s, LAMBDA r : r.file # f)
    PROVE  /\ rest \in Seq(AllRows)
           /\ RowsOf(f, rest) = <<>>
           /\ \A g \in Files \ {f} : RowsOf(g, rest) = RowsOf(g, s)
<1> DEFINE Other == {x \in Range(s) : x.file # f}
<1>1. rest = KeepIn(s, Other)  BY DEF Select
<1>2. rest \in Seq(AllRows)  BY <1>1, KeepType
<1>3. s \in Seq(Range(s)) /\ Range(s) \subseteq AllRows  BY SeqOfRange, RangeOfSeq
<1>4. \A g \in Files : RowsOf(g, rest) = KeepIn(s, Other \cap FileRows(g))
  <2> TAKE g \in Files
  <2>1. RowsOf(g, rest) = KeepIn(rest, FileRows(g))  BY <1>2, RowsOfIs
  <2> HIDE DEF Other
  <2>2. QED  BY <1>1, <2>1, KeepTwice
<1>5. RowsOf(f, rest) = <<>>
  <2>1. Range(s) \cap (Other \cap FileRows(f)) = {}  BY DEF FileRows
  <2> HIDE DEF Other
  <2>2. KeepIn(s, Other \cap FileRows(f)) = <<>>  BY <1>3, <2>1, KeepNone
  <2>3. QED  BY <1>4, <2>2
<1>6. ASSUME NEW g \in Files \ {f} PROVE RowsOf(g, rest) = RowsOf(g, s)
  <2>1. \A x \in Range(s) : x \in Other \cap FileRows(g) <=> x \in FileRows(g)
    BY <1>6 DEF FileRows
  <2> HIDE DEF Other
  <2>2. KeepIn(s, Other \cap FileRows(g)) = KeepIn(s, FileRows(g))  BY <1>3, <2>1, KeepAgrees
  <2>3. QED  BY <1>4, <2>2, RowsOfIs
<1>7. QED  BY <1>2, <1>5, <1>6

LEMMA IndexInvInit == Init => IndexInv
<1> SUFFICES ASSUME Init PROVE IndexInv  OBVIOUS
<1>1. symbols \in Seq(AllRows)  BY EmptySeq DEF Init
<1>2. IndexType  BY <1>1, BoundsAssumption DEF Init, IndexType
<1>3. Calling /\ Alone /\ SettledIndex  BY DEF Init, Calling, Alone, SettledIndex
<1>4. QED  BY <1>2, <1>3 DEF IndexInv

\* A step of t that changes rows of its own file only, and moves on.
LEMMA OwnRows ==
    ASSUME IndexInv, NEW t \in Threads, pc[t] # "idle",
           NEW step \in {"insert", "record"}, pc' = [pc EXCEPT ![t] = step],
           symbols' \in Seq(AllRows),
           \A g \in Files \ {file[t]} : RowsOf(g, symbols') = RowsOf(g, symbols),
           UNCHANGED <<file_hashes, file, content, mixed, calls>>,
           bad' \in [Threads -> BOOLEAN],
           \A u \in Threads : bad[u] => bad'[u],
           ~bad'[t] /\ step = "insert" => RowsOf(file[t], symbols') = <<>>,
           ~bad'[t] /\ step = "record" => RowsOf(file[t], symbols') = Rows(file[t], content[t])
    PROVE  IndexInv'
<1> USE DEF IndexInv
<1>1. /\ pc'[t] = step /\ \A u \in Threads \ {t} : pc'[u] = pc[u]  BY DEF IndexType
<1>2. IndexType'  BY DEF IndexType
<1>3. Calling'  BY <1>1 DEF Calling
<1>4. Alone'
  <2> SUFFICES ASSUME NEW u \in Threads, pc'[u] # "idle", ~bad'[u]
               PROVE  /\ \A w \in Threads : file'[w] = file'[u] => w = u
                      /\ pc'[u] = "insert" => RowsOf(file'[u], symbols') = <<>>
                      /\ pc'[u] = "record" => RowsOf(file'[u], symbols') = Rows(file'[u], content'[u])
    BY DEF Alone
  <2>1. pc[u] # "idle" /\ ~bad[u]  BY <1>1
  <2>2. \A w \in Threads : file[w] = file[u] => w = u  BY <2>1 DEF Alone
  <2>3. CASE u = t  BY <1>1, <2>2, <2>3
  <2>4. CASE u # t
    <3>1. file[u] # file[t] /\ file[u] \in Files  BY <2>1, <2>2, <2>4 DEF Calling
    <3>2. RowsOf(file[u], symbols') = RowsOf(file[u], symbols)  BY <3>1
    <3>3. QED  BY <1>1, <2>1, <2>2, <2>4, <3>2 DEF Alone
  <2>5. QED  BY <2>3, <2>4
<1>5. SettledIndex'
  <2> SUFFICES ASSUME NEW f \in Files, file_hashes[f] # NoContent, ~mixed[f], Busy(f)' = {}
               PROVE  RowsOf(f, symbols') = Rows(f, file_hashes[f])
    BY DEF SettledIndex
  <2>1. Busy(f) = {} /\ f # file[t]  BY DEF Busy
  <2>2. RowsOf(f, symbols) = Rows(f, file_hashes[f])  BY <2>1 DEF SettledIndex
  <2>3. QED  BY <2>1, <2>2
<1>6. QED  BY <1>2, <1>3, <1>4, <1>5

LEMMA StartStep ==
    ASSUME IndexInv, NEW t \in Threads, NEW f \in Files, NEW c \in Contents, NEW force,
           Start(t, f, c, force)
    PROVE  IndexInv'
<1> USE DEF IndexInv, Start, Goto
<1>0. /\ pc'[t] = "remove" /\ file'[t] = f /\ content'[t] = c
      /\ \A u \in Threads \ {t} : pc'[u] = pc[u] /\ file'[u] = file[u] /\ content'[u] = content[u]
      /\ pc[t] = "idle" /\ file[t] = NoFile
  BY DEF IndexType, Calling
<1>1. IndexType'
  <2>1. bad' \in [Threads -> BOOLEAN]  BY DEF IndexType
  <2>2. calls' \in 0..MaxCalls  BY BoundsAssumption DEF IndexType
  <2>3. QED  BY <2>1, <2>2 DEF IndexType
<1>2. Calling'  BY <1>0 DEF Calling
<1>3. Alone'
  <2> SUFFICES ASSUME NEW u \in Threads, pc'[u] # "idle", ~bad'[u]
               PROVE  /\ \A w \in Threads : file'[w] = file'[u] => w = u
                      /\ pc'[u] = "insert" => RowsOf(file'[u], symbols') = <<>>
                      /\ pc'[u] = "record" => RowsOf(file'[u], symbols') = Rows(file'[u], content'[u])
    BY DEF Alone
  <2>1. CASE u = t
    <3>1. Busy(f) = {}  BY <2>1
    <3>2. \A w \in Threads : file[w] # f  BY <3>1 DEF Busy
    <3>3. QED  BY <1>0, <2>1, <3>2
  <2>2. CASE u # t
    <3>1. ~bad[u] /\ u \notin Busy(f) /\ pc[u] # "idle"  BY <1>0, <2>2
    <3>2. file[u] # f  BY <3>1 DEF Busy
    <3>3. QED  BY <1>0, <2>2, <3>1, <3>2 DEF Alone
  <2>3. QED  BY <2>1, <2>2
<1>4. SettledIndex'
  <2> SUFFICES ASSUME NEW g \in Files, file_hashes[g] # NoContent, ~mixed[g], Busy(g)' = {}
               PROVE  RowsOf(g, symbols) = Rows(g, file_hashes[g])
    BY DEF SettledIndex
  <2>1. Busy(g) = {}  BY <1>0, BoundsAssumption DEF Busy
  <2>2. QED  BY <2>1 DEF SettledIndex
<1>5. QED  BY <1>1, <1>2, <1>3, <1>4

LEMMA RemoveStep ==
    ASSUME IndexInv, NEW t \in Threads, RemoveSymbols(t)
    PROVE  IndexInv'
<1>1. /\ pc[t] = "remove" /\ pc' = [pc EXCEPT ![t] = "insert"]
      /\ UNCHANGED <<file_hashes, file, content, bad, mixed, calls>>
      /\ file[t] \in Files /\ symbols \in Seq(AllRows) /\ bad \in [Threads -> BOOLEAN]
      /\ symbols' = Select(symbols, LAMBDA r : r.file # file[t])
  BY DEF RemoveSymbols, Goto, IndexInv, IndexType, Calling
<1>2. /\ symbols' \in Seq(AllRows) /\ RowsOf(file[t], symbols') = <<>>
      /\ \A g \in Files \ {file[t]} : RowsOf(g, symbols') = RowsOf(g, symbols)
  BY <1>1, DeleteRows
<1>3. QED  BY <1>1, <1>2, OwnRows

LEMMA InsertStep ==
    ASSUME IndexInv, NEW t \in Threads, InsertChunks(t)
    PROVE  IndexInv'
<1>1. /\ pc[t] = "insert" /\ pc' = [pc EXCEPT ![t] = "record"]
      /\ UNCHANGED <<file_hashes, file, content, bad, mixed, calls>>
      /\ file[t] \in Files /\ content[t] \in Contents /\ symbols \in Seq(AllRows)
      /\ bad \in [Threads -> BOOLEAN]
      /\ symbols' = symbols \o Rows(file[t], content[t])
  BY DEF InsertChunks, Goto, IndexInv, IndexType, Calling
<1>2. Rows(file[t], content[t]) \in Seq(AllRows) /\ Rows(file[t], content[t]) \in Seq(FileRows(file[t]))
  BY <1>1, RowsFacts
<1>3. /\ symbols' \in Seq(AllRows)
      /\ RowsOf(file[t], symbols') = RowsOf(file[t], symbols) \o Rows(file[t], content[t])
      /\ \A g \in Files \ {file[t]} : RowsOf(g, symbols') = RowsOf(g, symbols)
  BY <1>1, <1>2, AddRows
<1>4. ASSUME ~bad[t] PROVE RowsOf(file[t], symbols') = Rows(file[t], content[t])
  <2>1. RowsOf(file[t], symbols) = <<>>  BY <1>1, <1>4 DEF IndexInv, Alone
  <2>2. QED  BY <1>2, <1>3, <2>1, ConcatEmptySeq
<1>5. QED  BY <1>1, <1>3, <1>4, OwnRows

LEMMA FailsStep ==
    ASSUME IndexInv, NEW t \in Threads, StatementFails(t)
    PROVE  IndexInv'
<1>1. /\ UNCHANGED <<file_hashes, file, content, mixed, calls>>
      /\ bad' = [bad EXCEPT ![t] = TRUE]
      /\ pc[t] \in {"remove", "insert"}
  BY DEF StatementFails
<1>2. /\ file[t] \in Files /\ content[t] \in Contents /\ symbols \in Seq(AllRows)
      /\ bad \in [Threads -> BOOLEAN] /\ pc[t] # "idle"
  BY <1>1 DEF IndexInv, IndexType, Calling
<1>3. bad' \in [Threads -> BOOLEAN] /\ bad'[t] /\ \A u \in Threads : bad[u] => bad'[u]
  BY <1>1, <1>2
<1>4. CASE pc[t] = "remove" /\ pc' = [pc EXCEPT ![t] = "insert"] /\ UNCHANGED symbols
  BY <1>1, <1>2, <1>3, <1>4, OwnRows
<1>5. CASE pc' = [pc EXCEPT ![t] = "record"]
           /\ \E kept : symbols' = symbols \o Inserted(file[t], content[t], kept)
  <2>1. PICK kept : symbols' = symbols \o Inserted(file[t], content[t], kept)  BY <1>5
  <2>2. /\ Inserted(file[t], content[t], kept) \in Seq(AllRows)
        /\ Inserted(file[t], content[t], kept) \in Seq(FileRows(file[t]))
    BY <1>2, InsertedFacts
  <2>3. /\ symbols' \in Seq(AllRows)
        /\ \A g \in Files \ {file[t]} : RowsOf(g, symbols') = RowsOf(g, symbols)
    BY <1>2, <2>1, <2>2, AddRows
  <2>4. QED  BY <1>1, <1>2, <1>3, <1>5, <2>3, OwnRows
<1>6. QED  BY <1>4, <1>5 DEF StatementFails, Goto

LEMMA RecordStep ==
    ASSUME IndexInv, NEW t \in Threads, update_hash(t)
    PROVE  IndexInv'
<1> USE DEF IndexInv
<1>0. /\ pc[t] = "record" /\ file[t] \in Files /\ content[t] \in Contents
      /\ pc' = [pc EXCEPT ![t] = "idle"]
      /\ file_hashes' = [file_hashes EXCEPT ![file[t]] = content[t]]
      /\ mixed' = [mixed EXCEPT ![file[t]] = bad[t]] /\ bad' = [bad EXCEPT ![t] = FALSE]
      /\ file' = [file EXCEPT ![t] = NoFile] /\ content' = [content EXCEPT ![t] = NoContent]
      /\ UNCHANGED <<symbols, calls>>
  BY DEF update_hash, Goto, Calling
<1>1. /\ pc'[t] = "idle" /\ file'[t] = NoFile
      /\ \A u \in Threads \ {t} : /\ pc'[u] = pc[u] /\ file'[u] = file[u]
                                  /\ content'[u] = content[u] /\ bad'[u] = bad[u]
  BY <1>0 DEF IndexType
<1>2. IndexType'  BY <1>0 DEF IndexType
<1>3. Calling'  BY <1>1 DEF Calling
<1>4. Alone'
  <2> SUFFICES ASSUME NEW u \in Threads, pc'[u] # "idle", ~bad'[u]
               PROVE  /\ \A w \in Threads : file'[w] = file'[u] => w = u
                      /\ pc'[u] = "insert" => RowsOf(file'[u], symbols') = <<>>
                      /\ pc'[u] = "record" => RowsOf(file'[u], symbols') = Rows(file'[u], content'[u])
    BY DEF Alone
  <2>1. u # t /\ pc[u] # "idle" /\ ~bad[u]  BY <1>1
  <2>2. file[u] # NoFile  BY <2>1, BoundsAssumption DEF Calling
  <2>3. QED  BY <1>0, <1>1, <2>1, <2>2 DEF Alone
<1>5. SettledIndex'
  <2> SUFFICES ASSUME NEW f \in Files, file_hashes'[f] # NoContent, ~mixed'[f], Busy(f)' = {}
               PROVE  RowsOf(f, symbols) = Rows(f, file_hashes'[f])
    BY <1>0 DEF SettledIndex
  <2>1. CASE f = file[t]
    <3>1. ~bad[t] /\ file_hashes'[f] = content[t]  BY <1>0, <2>1 DEF IndexType
    <3>2. QED  BY <1>0, <2>1, <3>1 DEF Alone
  <2>2. CASE f # file[t]
    <3>1. file_hashes'[f] = file_hashes[f] /\ mixed'[f] = mixed[f]  BY <1>0, <2>2 DEF IndexType
    <3>2. Busy(f) = {}  BY <1>1, <2>2 DEF Busy
    <3>3. QED  BY <3>1, <3>2 DEF SettledIndex
  <2>3. QED  BY <2>1, <2>2
<1>6. QED  BY <1>2, <1>3, <1>4, <1>5

LEMMA IndexInvNext == IndexInv /\ [Next]_vars => IndexInv'
<1> SUFFICES ASSUME IndexInv, [Next]_vars PROVE IndexInv'  OBVIOUS
<1>1. CASE Restart
  <2>1. IndexType'  BY <1>1 DEF IndexInv, IndexType, Restart
  <2>2. Calling' /\ Alone' /\ SettledIndex'
    BY <1>1 DEF Restart, Calling, Alone, SettledIndex
  <2>3. QED  BY <2>1, <2>2 DEF IndexInv
<1>2. CASE UNCHANGED vars
  BY <1>2 DEF vars, IndexInv, IndexType, Calling, Alone, SettledIndex, Busy
<1>3. QED
  BY <1>1, <1>2, StartStep, RemoveStep, InsertStep, FailsStep, RecordStep DEF Next, Index

LEMMA IndexInvAlways == Spec => []IndexInv
BY IndexInvInit, IndexInvNext, PTL DEF Spec

\* A file whose last call ran alone and without a failed statement has exactly
\* the rows of the content whose hash is recorded, so that skipping it while the
\* hash is unchanged is sound, for any number of threads and files
\* (code_indexer.cpp:20-38).
THEOREM IndexCorrect == Spec => []SettledIndex
<1>1. IndexInv => SettledIndex  BY DEF IndexInv
<1>2. QED  BY <1>1, IndexInvAlways, PTL

(***************************************************************************)
(* ResultFusion.                                                           *)
(***************************************************************************)
Ids == {<<r.file, r.chunk.first>> : r \in AllRows}
         \cup {<<n.key, 0>> : n \in Range(Notes)} \cup {<<n.id, 0>> : n \in Range(Notes)}
Hits == [id : Ids, file : Files \cup {NoName}, first : Nat, last : Nat, text : Text,
         semantic : Nat, lexical : Nat, structural : Nat, match : Nat, task : Nat]

\* No two members are duplicates.
Distinct(found) == \A i, j \in DOMAIN found : i # j => ~is_duplicate(found[i], found[j])

\* A result that stands for h and scores at least as high.
Covers(found, h) ==
    \E i \in DOMAIN found :
        is_duplicate(found[i], h) /\ compute_score(found[i]) >= compute_score(h)

LEMMA ScoreType == \A h \in Hits : compute_score(h) \in Nat
BY DEF Hits, compute_score

\* A merged result keeps the place of the first and scores at least as high as
\* either.
LEMMA MergeFacts ==
    ASSUME NEW a \in Hits, NEW b \in Hits
    PROVE  /\ merge_results(a, b) \in Hits
           /\ merge_results(a, b).id = a.id /\ merge_results(a, b).file = a.file
           /\ merge_results(a, b).first = a.first /\ merge_results(a, b).last = a.last
           /\ compute_score(merge_results(a, b)) >= compute_score(a)
           /\ compute_score(merge_results(a, b)) >= compute_score(b)
<1> DEFINE m == merge_results(a, b)
<1>1. /\ m.id = a.id /\ m.file = a.file /\ m.first = a.first /\ m.last = a.last
      /\ m.text \in {a.text, b.text}
      /\ m.semantic = Greater(a.semantic, b.semantic) /\ m.lexical = Greater(a.lexical, b.lexical)
      /\ m.structural = Greater(a.structural, b.structural)
      /\ m.match = Greater(a.match, b.match) /\ m.task = Greater(a.task, b.task)
  BY DEF merge_results, Hits
<1>2. \A x, y \in Nat : Greater(x, y) \in Nat /\ Greater(x, y) >= x /\ Greater(x, y) >= y
  BY DEF Greater
<1>3. m \in Hits  BY <1>2 DEF merge_results, Hits
<1> HIDE DEF m
<1>4. /\ m.semantic >= a.semantic /\ m.lexical >= a.lexical /\ m.structural >= a.structural
      /\ m.match >= a.match /\ m.task >= a.task
  BY <1>1, <1>2 DEF Hits
<1>5. /\ m.semantic >= b.semantic /\ m.lexical >= b.lexical /\ m.structural >= b.structural
      /\ m.match >= b.match /\ m.task >= b.task
  BY <1>1, <1>2 DEF Hits
<1>6. ASSUME NEW h \in Hits,
             m.semantic >= h.semantic, m.lexical >= h.lexical, m.structural >= h.structural,
             m.match >= h.match, m.task >= h.task
      PROVE  compute_score(m) >= compute_score(h)
  BY <1>3, <1>6 DEF Hits, compute_score
<1>7. QED  BY <1>1, <1>3, <1>4, <1>5, <1>6 DEF m

LEMMA DuplicateSymmetric == \A a, b : is_duplicate(a, b) <=> is_duplicate(b, a)
BY DEF is_duplicate

LEMMA MergedDuplicate ==
    ASSUME NEW a \in Hits, NEW b \in Hits, NEW h
    PROVE  is_duplicate(merge_results(a, b), h) <=> is_duplicate(a, h)
BY MergeFacts DEF is_duplicate

\* One more hit: the results stay distinct, nothing that was covered is lost, and
\* the hit is covered.
LEMMA FoldFacts ==
    ASSUME NEW done \in Seq(Hits), Distinct(done), NEW r \in Hits
    PROVE  /\ Fold(done, r) \in Seq(Hits) /\ Distinct(Fold(done, r)) /\ Covers(Fold(done, r), r)
           /\ \A h \in Hits : Covers(done, h) => Covers(Fold(done, r), h)
<1> DEFINE same == {i \in DOMAIN done : is_duplicate(done[i], r)}
<1>0. /\ Len(done) \in Nat /\ DOMAIN done = 1..Len(done) /\ \A i \in DOMAIN done : done[i] \in Hits
  BY LenProperties, ElementOfSeq
<1>1. CASE same = {}
  <2>1. Fold(done, r) = Append(done, r)  BY <1>1 DEF Fold
  <2> DEFINE new == Append(done, r)
  <2>2. /\ new \in Seq(Hits) /\ Len(new) = Len(done) + 1 /\ DOMAIN new = 1..(Len(done) + 1)
        /\ \A i \in 1..Len(done) : new[i] = done[i]
        /\ new[Len(done) + 1] = r
    BY AppendProperties, LenProperties
  <2> HIDE DEF new
  <2>3. \A i \in 1..Len(done) : ~is_duplicate(done[i], r)  BY <1>0, <1>1
  <2>4. Distinct(new)
    <3> SUFFICES ASSUME NEW i \in 1..(Len(done) + 1), NEW j \in 1..(Len(done) + 1), i # j
                 PROVE  ~is_duplicate(new[i], new[j])
      BY <2>2 DEF Distinct
    <3>1. CASE i \in 1..Len(done) /\ j \in 1..Len(done)
      BY <1>0, <2>2, <3>1 DEF Distinct
    <3>2. CASE i = Len(done) + 1 /\ j \in 1..Len(done)
      BY <2>2, <2>3, <3>2, DuplicateSymmetric
    <3>3. CASE j = Len(done) + 1 /\ i \in 1..Len(done)
      BY <2>2, <2>3, <3>3
    <3>4. QED  BY <1>0, <3>1, <3>2, <3>3
  <2>5. Covers(new, r)
    <3>1. is_duplicate(r, r)  BY DEF is_duplicate
    <3>2. compute_score(r) >= compute_score(r)  BY ScoreType
    <3>3. Len(done) + 1 \in DOMAIN new  BY <1>0, <2>2
    <3>4. QED  BY <2>2, <3>1, <3>2, <3>3 DEF Covers
  <2>6. \A h \in Hits : Covers(done, h) => Covers(new, h)
    <3> SUFFICES ASSUME NEW h \in Hits, NEW i \in DOMAIN done, is_duplicate(done[i], h),
                        compute_score(done[i]) >= compute_score(h)
                 PROVE  Covers(new, h)
      BY DEF Covers
    <3>1. i \in DOMAIN new /\ new[i] = done[i]  BY <1>0, <2>2
    <3>2. QED  BY <3>1 DEF Covers
  <2>7. QED  BY <2>1, <2>2, <2>4, <2>5, <2>6 DEF new
<1>2. CASE same # {}
  <2> DEFINE i == CHOOSE k \in same : \A j \in same : k <= j
  <2>1. i \in same
    <3>1. same \in SUBSET Nat  BY <1>0
    <3>2. \E k \in same : \A j \in same : k <= j
      <4> HIDE DEF same
      <4>1. QED  BY <1>2, <3>1, LeastNatural
    <3>3. QED  BY <3>2
  <2>2. Fold(done, r) = [done EXCEPT ![i] = merge_results(done[i], r)]  BY <1>2 DEF Fold
  <2>3. i \in DOMAIN done /\ is_duplicate(done[i], r) /\ done[i] \in Hits  BY <1>0, <2>1
  <2> HIDE DEF i, same
  <2> DEFINE m == merge_results(done[i], r)
             new == [done EXCEPT ![i] = m]
  <2>4. /\ m \in Hits /\ compute_score(m) >= compute_score(done[i])
        /\ compute_score(m) >= compute_score(r)
        /\ \A h : is_duplicate(m, h) <=> is_duplicate(done[i], h)
    BY <2>3, MergeFacts, MergedDuplicate
  <2>5. /\ new \in Seq(Hits) /\ DOMAIN new = DOMAIN done /\ new[i] = m
        /\ \A j \in DOMAIN done : j # i => new[j] = done[j]
    <3> HIDE DEF m
    <3>1. QED  BY <1>0, <2>3, <2>4, ExceptSeq
  <2> HIDE DEF new, m
  <2>6. Distinct(new)
    <3> SUFFICES ASSUME NEW j \in DOMAIN done, NEW k \in DOMAIN done, j # k
                 PROVE  ~is_duplicate(new[j], new[k])
      BY <2>5 DEF Distinct
    <3>1. ~is_duplicate(done[j], done[k])  BY DEF Distinct
    <3>2. CASE j = i  BY <2>4, <2>5, <3>1, <3>2
    <3>3. CASE k = i  BY <2>4, <2>5, <3>1, <3>3, DuplicateSymmetric
    <3>4. CASE j # i /\ k # i  BY <2>5, <3>1, <3>4
    <3>5. QED  BY <3>2, <3>3, <3>4
  <2>7. Covers(new, r)  BY <2>3, <2>4, <2>5 DEF Covers
  <2>8. \A h \in Hits : Covers(done, h) => Covers(new, h)
    <3> SUFFICES ASSUME NEW h \in Hits, NEW k \in DOMAIN done, is_duplicate(done[k], h),
                        compute_score(done[k]) >= compute_score(h)
                 PROVE  Covers(new, h)
      BY DEF Covers
    <3>1. CASE k # i  BY <2>5, <3>1 DEF Covers
    <3>2. CASE k = i
      <4>1. compute_score(m) >= compute_score(h)
        <5>1. compute_score(m) \in Nat /\ compute_score(done[i]) \in Nat /\ compute_score(h) \in Nat
          BY <2>3, <2>4, ScoreType
        <5>2. QED  BY <2>4, <3>2, <5>1
      <4>2. is_duplicate(m, h)  BY <2>4, <3>2
      <4>3. QED  BY <2>5, <3>2, <4>1, <4>2 DEF Covers
    <3>3. QED  BY <3>1, <3>2
  <2>9. QED  BY <2>2, <2>5, <2>6, <2>7, <2>8 DEF new, m
<1>3. QED  BY <1>1, <1>2

Folds(k, hits) ==
    k = [n \in 0..Len(hits) |-> IF n = 0 THEN <<>> ELSE Fold(k[n - 1], hits[n])]

LEMMA FoldTypes ==
    \A done \in Seq(Hits), r \in Hits : Fold(done, r) \in Seq(Hits)
<1> SUFFICES ASSUME NEW done \in Seq(Hits), NEW r \in Hits PROVE Fold(done, r) \in Seq(Hits)
  OBVIOUS
<1> DEFINE same == {i \in DOMAIN done : is_duplicate(done[i], r)}
<1>0. /\ Len(done) \in Nat /\ DOMAIN done = 1..Len(done) /\ \A i \in DOMAIN done : done[i] \in Hits
  BY LenProperties, ElementOfSeq
<1>1. CASE same = {}
  <2>1. Fold(done, r) = Append(done, r)  BY <1>1 DEF Fold
  <2>2. QED  BY <2>1, AppendProperties
<1>2. CASE same # {}
  <2> DEFINE i == CHOOSE k \in same : \A j \in same : k <= j
  <2>1. i \in same
    <3>1. same \in SUBSET Nat  BY <1>0
    <3>2. \E k \in same : \A j \in same : k <= j
      <4> HIDE DEF same
      <4>1. QED  BY <1>2, <3>1, LeastNatural
    <3>3. QED  BY <3>2
  <2>2. Fold(done, r) = [done EXCEPT ![i] = merge_results(done[i], r)]  BY <1>2 DEF Fold
  <2>3. i \in 1..Len(done) /\ done[i] \in Hits  BY <1>0, <2>1
  <2> HIDE DEF i, same
  <2>4. merge_results(done[i], r) \in Hits  BY <2>3, MergeFacts
  <2>5. QED  BY <2>2, <2>3, <2>4, ExceptSeq
<1>3. QED  BY <1>1, <1>2

\* After all hits, the results are distinct and every hit is covered.
LEMMA DeduplicatedFacts ==
    ASSUME NEW hits \in Seq(Hits)
    PROVE  /\ deduplicated(hits) \in Seq(Hits) /\ Distinct(deduplicated(hits))
           /\ \A h \in Range(hits) : Covers(deduplicated(hits), h)
<1>0. Len(hits) \in Nat /\ DOMAIN hits = 1..Len(hits) /\ \A n \in 1..Len(hits) : hits[n] \in Hits
  BY LenProperties, ElementOfSeq
<1>1. \E k : Folds(k, hits)
  <2> DEFINE N == Len(hits)
             A == Seq(Hits)
             base == <<>>
             F == [n \in 1..N |-> [a \in A |-> Fold(a, hits[n])]]
  <2>1. N \in Nat /\ base \in A /\ \A n \in 1..N, a \in A : F[n][a] \in A
    BY <1>0, EmptySeq, FoldTypes
  <2>2. \E k : Solves(k, N, A, base, F)
    <3> HIDE DEF F, N, A, base
    <3>1. QED  BY <2>1, RecursionExists
  <2>3. PICK k : Solves(k, N, A, base, F)  BY <2>2
  <2>4. ASSUME NEW n \in 0..Len(hits), n # 0 PROVE k[n] = Fold(k[n - 1], hits[n])
    <3>1. n \in 1..Len(hits) /\ n - 1 \in 0..Len(hits)  BY <1>0, <2>4
    <3>2. QED  BY <2>3, <3>1 DEF Solves
  <2>5. k[0] = <<>> /\ k = [n \in 0..Len(hits) |-> k[n]]  BY <2>3 DEF Solves
  <2>6. Folds(k, hits)
    <3> HIDE DEF F, N, A, base
    <3>1. QED  BY <2>4, <2>5 DEF Folds
  <2>7. QED  BY <2>6
<1> DEFINE k == CHOOSE g : Folds(g, hits)
<1>2. Folds(k, hits)  BY <1>1
<1>3. deduplicated(hits) = k[Len(hits)]  BY DEF deduplicated, Folds
<1> HIDE DEF k
<1>4. \A n \in 0..Len(hits) : k[n] = IF n = 0 THEN <<>> ELSE Fold(k[n - 1], hits[n])
  BY <1>2 DEF Folds
<1> DEFINE G == {n \in Nat : n \in 0..Len(hits) =>
                    /\ k[n] \in Seq(Hits) /\ Distinct(k[n])
                    /\ \A m \in 1..n : Covers(k[n], hits[m])}
<1>5. 0 \in G
  <2>1. k[0] = <<>>  BY <1>0, <1>4
  <2>2. <<>> \in Seq(Hits) /\ Distinct(<<>>)  BY EmptySeq DEF Distinct
  <2>3. \A m \in 1..0 : Covers(k[0], hits[m])  OBVIOUS
  <2>4. QED  BY <2>1, <2>2, <2>3
<1>6. ASSUME NEW n \in Nat, n \in G PROVE n + 1 \in G
  <2> SUFFICES ASSUME n + 1 \in 0..Len(hits)
               PROVE  /\ k[n + 1] \in Seq(Hits) /\ Distinct(k[n + 1])
                      /\ \A m \in 1..(n + 1) : Covers(k[n + 1], hits[m])
    OBVIOUS
  <2>1. n \in 0..Len(hits) /\ n + 1 \in 1..Len(hits) /\ (n + 1) - 1 = n /\ n + 1 # 0  BY <1>0
  <2>2. /\ k[n] \in Seq(Hits) /\ Distinct(k[n]) /\ \A m \in 1..n : Covers(k[n], hits[m])
        /\ hits[n + 1] \in Hits
    BY <1>0, <1>6, <2>1
  <2>3. k[n + 1] = Fold(k[n], hits[n + 1])  BY <1>4, <2>1
  <2>4. /\ k[n + 1] \in Seq(Hits) /\ Distinct(k[n + 1]) /\ Covers(k[n + 1], hits[n + 1])
        /\ \A h \in Hits : Covers(k[n], h) => Covers(k[n + 1], h)
    BY <2>2, <2>3, FoldFacts
  <2>5. ASSUME NEW m \in 1..(n + 1) PROVE Covers(k[n + 1], hits[m])
    <3>1. CASE m = n + 1  BY <2>4, <3>1
    <3>2. CASE m # n + 1
      <4>1. m \in 1..n /\ m \in 1..Len(hits)  BY <1>0, <2>1, <3>2
      <4>2. QED  BY <1>0, <2>2, <2>4, <4>1
    <3>3. QED  BY <3>1, <3>2
  <2>6. QED  BY <2>4, <2>5
<1>7. \A n \in Nat : n \in G
  <2> HIDE DEF G
  <2>1. QED  BY <1>5, <1>6, NatSetInduction
<1>8. /\ k[Len(hits)] \in Seq(Hits) /\ Distinct(k[Len(hits)])
      /\ \A m \in 1..Len(hits) : Covers(k[Len(hits)], hits[m])
  BY <1>0, <1>7
<1>9. QED  BY <1>0, <1>3, <1>8 DEF Range

\* What an answer promises of the hits it was made from.
Answers(found, hits) ==
    /\ Cardinality(DOMAIN found) <= TopK
    /\ Distinct(found)
    /\ \A h \in Range(hits) :
          \/ Covers(found, h)
          \/ /\ Cardinality(DOMAIN found) = TopK
             /\ \A i \in DOMAIN found : compute_score(found[i]) >= compute_score(h)

\* The cut drops a result only for TopK that score at least as high.
LEMMA FuseFacts ==
    ASSUME NEW hits \in Seq(Hits)
    PROVE  \A found \in fuse(hits) : Answers(found, hits)
<1> DEFINE all == deduplicated(hits)
           size == IF Len(all) > TopK THEN TopK ELSE Len(all)
<1>1. /\ all \in Seq(Hits) /\ Distinct(all) /\ \A h \in Range(hits) : Covers(all, h)
      /\ Range(hits) \subseteq Hits
  BY DeduplicatedFacts, RangeOfSeq
<1>2. Len(all) \in Nat /\ DOMAIN all = 1..Len(all) /\ TopK \in Nat
      /\ \A i \in DOMAIN all : all[i] \in Hits
  BY <1>1, LenProperties, ElementOfSeq, BoundsAssumption
<1> SUFFICES ASSUME NEW found \in fuse(hits) PROVE Answers(found, hits)  OBVIOUS
<1>3. PICK kept \in SUBSET (DOMAIN all) :
          /\ Cardinality(kept) = size /\ found = Restrict(all, kept)
          /\ \A i \in kept, j \in DOMAIN all \ kept : compute_score(all[i]) >= compute_score(all[j])
  BY DEF fuse, kSubset
<1> HIDE DEF all
<1>4. DOMAIN found = kept /\ \A i \in kept : found[i] = all[i]  BY <1>3 DEF Restrict
<1>5. Cardinality(DOMAIN found) <= TopK  BY <1>2, <1>3, <1>4
<1>6. Distinct(found)  BY <1>1, <1>3, <1>4 DEF Distinct
<1>7. ASSUME NEW h \in Range(hits)
      PROVE  \/ Covers(found, h)
             \/ /\ Cardinality(DOMAIN found) = TopK
                /\ \A i \in DOMAIN found : compute_score(found[i]) >= compute_score(h)
  <2>1. PICK j \in DOMAIN all : is_duplicate(all[j], h) /\ compute_score(all[j]) >= compute_score(h)
    BY <1>1 DEF Covers
  <2>2. CASE j \in kept  BY <1>4, <2>1, <2>2 DEF Covers
  <2>3. CASE j \notin kept
    <3>1. IsFiniteSet(DOMAIN all) /\ Cardinality(DOMAIN all) = Len(all)
      <4>1. /\ IsFiniteSet(1..Len(all))
            /\ Cardinality(1..Len(all)) = IF 1 > Len(all) THEN 0 ELSE Len(all) - 1 + 1
        BY <1>2, FS_Interval
      <4>2. QED  BY <1>2, <4>1
    <3>2. Cardinality(kept) < Len(all)
      BY <1>3, <2>3, <3>1, FS_Subset
    <3>3. Cardinality(DOMAIN found) = TopK  BY <1>2, <1>3, <1>4, <3>2
    <3>4. ASSUME NEW i \in DOMAIN found PROVE compute_score(found[i]) >= compute_score(h)
      <4>1. compute_score(found[i]) >= compute_score(all[j])  BY <1>3, <1>4, <2>3
      <4>2. /\ compute_score(found[i]) \in Nat /\ compute_score(all[j]) \in Nat
            /\ compute_score(h) \in Nat
        BY <1>1, <1>2, <1>4, ScoreType
      <4>3. QED  BY <2>1, <4>1, <4>2
    <3>5. QED  BY <3>3, <3>4
  <2>4. QED  BY <2>2, <2>3
<1>8. QED  BY <1>5, <1>6, <1>7 DEF Answers

(***************************************************************************)
(* The candidates, and the search in every state.                          *)
(***************************************************************************)
LEMMA RowFields ==
    \A r \in AllRows : /\ r.file \in Files /\ r.chunk.first \in Nat /\ r.chunk.last \in Nat
                       /\ r.chunk.text \in Text
<1> SUFFICES ASSUME NEW f \in Files, NEW c \in Contents, NEW r \in Range(Rows(f, c))
             PROVE  /\ r.file \in Files /\ r.chunk.first \in Nat /\ r.chunk.last \in Nat
                    /\ r.chunk.text \in Text
  BY DEF AllRows
<1>1. PICK i \in DOMAIN Chunks[c] : r = Row(f, Chunks[c][i])  BY DEF Range, Rows
<1>2. Chunks[c][i] \in Range(Chunks[c])  BY DEF Range
<1>3. /\ Chunks[c][i].first \in Nat /\ Chunks[c][i].last \in Nat /\ Chunks[c][i].text \in Text
  BY <1>2, ChunksAssumption
<1>4. r.file = f /\ r.chunk = Chunks[c][i]  BY <1>1 DEF Row
<1>5. QED  BY <1>3, <1>4

LEMMA HitType ==
    ASSUME NEW r \in AllRows, NEW a \in Nat, NEW b \in Nat, NEW c \in Nat
    PROVE  Hit(r, a, b, c) \in Hits
<1>1. <<r.file, r.chunk.first>> \in Ids  BY DEF Ids
<1>2. QED  BY <1>1, RowFields DEF Hit, Hits

LEMMA NoteHitType ==
    ASSUME NEW n \in Range(Notes), NEW id \in {n.key, n.id}, NEW a \in Nat, NEW b \in Nat
    PROVE  NoteHit(id, n, a, b) \in Hits
<1>1. <<id, 0>> \in Ids  BY DEF Ids
<1>2. n.text \in Text  BY NotesAssumption
<1>3. QED  BY <1>1, <1>2 DEF NoteHit, Hits

LEMMA ContentScore == \A w, text : score_content(w, text) \in Nat
BY DEF score_content

LEMMA CodeTypes ==
    ASSUME NEW w, NEW rows \in Seq(AllRows)
    PROVE  /\ ExactCode(w, rows) \in Seq(Hits)
           /\ LexicalCode(w, rows) \in Seq(Hits)
           /\ StructuralCode(w, rows) \in Seq(Hits)
<1>1. ExactCode(w, rows) \in Seq(Hits)
  <2> DEFINE kept == KeepIn(rows, {x \in Range(rows) :
                        w \in {x.chunk.symbol, x.chunk.parent} \/ w \in x.chunk.text.words})
             hit(r) == Hit(r, IF w \in r.chunk.text.words THEN 70 ELSE 0,
                              IF IsClass(r.chunk) THEN 100 ELSE 80,
                              IF w \in {r.chunk.symbol, r.chunk.parent} THEN 100 ELSE 50)
  <2>1. kept \in Seq(AllRows)  BY KeepType
  <2>2. ExactCode(w, rows) = [i \in DOMAIN kept |-> hit(kept[i])]
    BY DEF ExactCode, Map, Select
  <2>3. \A r \in AllRows : hit(r) \in Hits  BY HitType
  <2> HIDE DEF kept, hit
  <2>4. /\ Len(kept) \in Nat /\ DOMAIN kept = 1..Len(kept)
        /\ \A i \in 1..Len(kept) : hit(kept[i]) \in Hits
    BY <2>1, <2>3, LenProperties, ElementOfSeq
  <2>5. QED  BY <2>2, <2>4, SeqDef
<1>2. LexicalCode(w, rows) \in Seq(Hits)
  <2> DEFINE kept == KeepIn(rows, {x \in Range(rows) : score_content(w, x.chunk.text) >= 10})
             hit(r) == Hit(r, score_content(w, r.chunk.text),
                           IF IsClass(r.chunk) THEN 90 ELSE 70, 0)
  <2>1. kept \in Seq(AllRows)  BY KeepType
  <2>2. LexicalCode(w, rows) = [i \in DOMAIN kept |-> hit(kept[i])]
    BY DEF LexicalCode, Map, Select
  <2>3. \A r \in AllRows : hit(r) \in Hits  BY HitType, ContentScore
  <2> HIDE DEF kept, hit
  <2>4. /\ Len(kept) \in Nat /\ DOMAIN kept = 1..Len(kept)
        /\ \A i \in 1..Len(kept) : hit(kept[i]) \in Hits
    BY <2>1, <2>3, LenProperties, ElementOfSeq
  <2>5. QED  BY <2>2, <2>4, SeqDef
<1>3. StructuralCode(w, rows) \in Seq(Hits)
  <2> DEFINE kept == KeepIn(rows, {x \in Range(rows) :
                        {x.chunk.symbol, x.chunk.parent} \cap NamesWith[w] # {}})
             hit(r) == Hit(r, 50, IF IsClass(r.chunk) THEN 100 ELSE 75,
                           IF r.chunk.symbol = w THEN 100 ELSE 60)
  <2>1. kept \in Seq(AllRows)  BY KeepType
  <2>2. StructuralCode(w, rows) = [i \in DOMAIN kept |-> hit(kept[i])]
    BY DEF StructuralCode, Map, Select
  <2>3. \A r \in AllRows : hit(r) \in Hits  BY HitType
  <2> HIDE DEF kept, hit
  <2>4. /\ Len(kept) \in Nat /\ DOMAIN kept = 1..Len(kept)
        /\ \A i \in 1..Len(kept) : hit(kept[i]) \in Hits
    BY <2>1, <2>3, LenProperties, ElementOfSeq
  <2>5. QED  BY <2>2, <2>4, SeqDef
<1>4. QED  BY <1>1, <1>2, <1>3

LEMMA NoteTypes ==
    ASSUME NEW w
    PROVE  LexicalNotes(w) \in Seq(Hits) /\ VectorNotes(w) \in Seq(Hits)
<1>0. Notes \in Seq(Range(Notes))  BY NotesAssumption
<1>1. LexicalNotes(w) \in Seq(Hits)
  <2> DEFINE kept == KeepIn(Notes, {n \in Range(Notes) : w \in n.text.words})
             hit(n) == NoteHit(n.key, n, 0, score_content(w, n.text))
  <2>1. kept \in Seq(Range(Notes))  BY <1>0, KeepType
  <2>2. LexicalNotes(w) = [i \in DOMAIN kept |-> hit(kept[i])]
    BY DEF LexicalNotes, Map, Select
  <2>3. \A n \in Range(Notes) : hit(n) \in Hits  BY NoteHitType, ContentScore
  <2> HIDE DEF kept, hit
  <2>4. /\ Len(kept) \in Nat /\ DOMAIN kept = 1..Len(kept)
        /\ \A i \in 1..Len(kept) : hit(kept[i]) \in Hits
    BY <2>1, <2>3, LenProperties, ElementOfSeq
  <2>5. QED  BY <2>2, <2>4, SeqDef
<1>2. VectorNotes(w) \in Seq(Hits)
  <2> DEFINE kept == KeepIn(Notes, {n \in Range(Notes) : w \in n.similar})
             hit(n) == NoteHit(IF n.id = NoName THEN n.key ELSE n.id, n, 80, 0)
  <2>1. kept \in Seq(Range(Notes))  BY <1>0, KeepType
  <2>2. VectorNotes(w) = [i \in DOMAIN kept |-> hit(kept[i])]
    BY DEF VectorNotes, Map, Select
  <2>3. \A n \in Range(Notes) : hit(n) \in Hits  BY NoteHitType
  <2> HIDE DEF kept, hit
  <2>4. /\ Len(kept) \in Nat /\ DOMAIN kept = 1..Len(kept)
        /\ \A i \in 1..Len(kept) : hit(kept[i]) \in Hits
    BY <2>1, <2>3, LenProperties, ElementOfSeq
  <2>5. QED  BY <2>2, <2>4, SeqDef
<1>3. QED  BY <1>1, <1>2

LEMMA CandidatesType ==
    ASSUME symbols \in Seq(AllRows), NEW w, NEW task
    PROVE  Candidates(w, task) \in Seq(Hits)
<1> DEFINE rows == find_by_symbol(w)
           all == ExactCode(w, rows) \o LexicalCode(w, rows) \o LexicalNotes(w)
                    \o StructuralCode(w, rows) \o VectorNotes(w)
           scored(r) == [r EXCEPT !.task = score_content(task, r.text)]
<1>1. rows \in Seq(AllRows)  BY KeepType DEF find_by_symbol, Select
<1>2. Candidates(w, task) = [i \in DOMAIN all |-> scored(all[i])]
  BY DEF Candidates, Map
<1> HIDE DEF rows
<1>3. all \in Seq(Hits)  BY <1>1, CodeTypes, NoteTypes, ConcatProperties
<1>4. \A r \in Hits : scored(r) \in Hits  BY ContentScore DEF Hits
<1> HIDE DEF all, scored
<1>5. /\ Len(all) \in Nat /\ DOMAIN all = 1..Len(all)
      /\ \A i \in 1..Len(all) : scored(all[i]) \in Hits
  BY <1>3, <1>4, LenProperties, ElementOfSeq
<1>6. QED  BY <1>2, <1>5, SeqDef

\* In every state, every answer to every query is an answer.
LEMMA SearchFacts ==
    IndexInv => \A w, task \in Words :
                   \A found \in fuse(Candidates(w, task)) : Answers(found, Candidates(w, task))
BY CandidatesType, FuseFacts DEF IndexInv, IndexType

\* The results of a search are never duplicates of each other, for every state of
\* the index, every set of memories and every query (result_fusion.cpp:46-59).
THEOREM DistinctCorrect == Spec => []ResultsDistinct
<1>1. IndexInv => ResultsDistinct
  BY SearchFacts DEF ResultsDistinct, search, Answers, Distinct
<1>2. QED  BY <1>1, IndexInvAlways, PTL

\* What a channel found is in the answer, in a result that scores at least as
\* high, or the answer is full of results that do (result_fusion.cpp:24-73).
THEOREM NothingHiddenCorrect == Spec => []NothingBetterHidden
<1>1. IndexInv => NothingBetterHidden
  BY SearchFacts DEF NothingBetterHidden, Answers, Covers
<1>2. QED  BY <1>1, IndexInvAlways, PTL

\* Every reachable state is well typed: the table holds rows of parsed contents
\* only, and no answer is longer than top_k.
THEOREM TypeCorrect == Spec => []TypeOK
<1>1. ASSUME IndexInv PROVE TypeOK
  <2>1. \A i \in DOMAIN symbols : symbols[i] \in AllRows
    BY <1>1, LenProperties, ElementOfSeq DEF IndexInv, IndexType
  <2>2. \A w, task \in Words : \A found \in search(w, task) : Cardinality(DOMAIN found) <= TopK
    BY <1>1, SearchFacts DEF search, Answers
  <2>3. QED  BY <1>1, <2>1, <2>2 DEF TypeOK, AllRows, IndexInv, IndexType
<1>2. IndexInv => TypeOK  BY <1>1
<1>3. QED  BY <1>2, IndexInvAlways, PTL
=============================================================================
