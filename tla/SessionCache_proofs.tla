------------------------- MODULE SessionCache_proofs -------------------------
(***************************************************************************)
(* Proofs about SessionCache, for any number of workers, sessions, model   *)
(* names and places in memory.                                             *)
(***************************************************************************)
EXTENDS SessionCache, FiniteSetTheorems, SequenceTheorems, WellFoundedInduction, TLAPS

Types ==
    /\ sessions \in [Sessions -> Objs \cup {NoObj}]
    /\ mgr \in Workers \cup {NoWorker}
    /\ kv \in [Objs -> KV]
    /\ lock \in [Objs -> Workers \cup {NoWorker}]
    /\ disk \in [Sessions -> KV]
    /\ busy \in [Names -> Nat]
    /\ pc \in [Workers -> Steps]
    /\ req \in [Workers -> Requests]
    /\ ref \in [Workers -> Objs \cup {NoObj}]
    /\ victim \in [Workers -> Sessions \cup {NoSession}]

\* The recency order lists the ids of the map once each.
OrderInv ==
    /\ order \in Seq(Sessions)
    /\ Range(order) = Active
    /\ IsInjective(order)

\* What a worker's place in the code says of its request: it has a state from
\* the end of get_or_create on, the session it creates is not in the map, and
\* the one it evicts or saves stays there while it waits for the state's mutex.
ControlInv ==
    \A w \in Workers :
        /\ ref[w] = NoObj
               <=> pc[w] \in {"idle", "rejected", "get", "evict", "spill", "flush"}
        /\ req[w].n = NoName <=> pc[w] \in {"idle", "flush"}
        /\ pc[w] \in {"evict", "spill", "save", "write"} => req[w].s \in Sessions
        /\ pc[w] \in {"evict", "spill"} => req[w].s \notin Active
        /\ pc[w] = "write" => req[w].s \in Active
        /\ pc[w] \in {"spill", "flush"} => victim[w] \in Active

\* The state in the map contains every turn that the session's file does, unless it
\* has given some of them up since it was made from the file or last written to it.
FileInv ==
    \A s \in Active : kv[sessions[s]].left \/ kv[sessions[s]].turns >= disk[s].turns

CacheInv ==
    /\ Types
    /\ OrderInv
    /\ ControlInv
    /\ LockOrder
    /\ StatesArePrivate
    /\ OneInferencePerName
    /\ ActiveBounded
    /\ FileInv

-----------------------------------------------------------------------------
\* A nonempty set of naturals has a least element, and Min is it.
LEMMA MinFacts ==
    ASSUME NEW T \in SUBSET Nat, T # {}
    PROVE  Min(T) \in T /\ \A y \in T : Min(T) <= y
<1>1. PICK x \in T : \A y \in T : ~ (<<y, x>> \in OpToRel(<, Nat))
  BY NatLessThanWellFounded, WFMin
<1>2. \A y \in T : ~(y < x)  BY <1>1 DEF OpToRel
<1>3. \A y \in T : x <= y  BY <1>2
<1>4. QED  BY <1>3 DEF Min

\* Taking an element out of a sequence that lists it once at most.
LEMMA RemoveFirstFacts ==
    ASSUME NEW S, NEW q \in Seq(S), NEW e, IsInjective(q)
    PROVE  /\ RemoveFirst(q, e) \in Seq(S)
           /\ Range(RemoveFirst(q, e)) = Range(q) \ {e}
           /\ IsInjective(RemoveFirst(q, e))
<1> DEFINE r == RemoveFirst(q, e)
<1>0. Len(q) \in Nat /\ DOMAIN q = 1..Len(q) /\ \A i \in 1..Len(q) : q[i] \in S
  OBVIOUS
<1>1. CASE ~ \E i \in 1..Len(q) : q[i] = e
  <2>1. r = q  BY <1>1 DEF RemoveFirst
  <2>2. e \notin Range(q)  BY <1>0, <1>1 DEF Range
  <2>3. QED  BY <2>1, <2>2
<1>2. CASE \E i \in 1..Len(q) : q[i] = e
  <2> DEFINE I == {i \in 1..Len(q) : q[i] = e}
             k == Min(I)
  <2>1. I \in SUBSET Nat /\ I # {}  BY <1>2
  <2>2. k \in 1..Len(q) /\ q[k] = e  BY <2>1, MinFacts
  <2>3. r = RemoveAt(q, k)  BY <1>2, <2>1 DEF RemoveFirst, SelectInSeq
  <2> DEFINE a == SubSeq(q, 1, k - 1)
             b == SubSeq(q, k + 1, Len(q))
             n == Len(q)
  <2> HIDE DEF k, I
  <2>4. a \in Seq(S) /\ Len(a) = k - 1 /\ \A i \in 1..(k - 1) : a[i] = q[i]
    BY <1>0, <2>2
  <2>5. b \in Seq(S) /\ Len(b) = n - k /\ \A i \in 1..(n - k) : b[i] = q[k + i]
    <3>1. k \in 1..n /\ n \in Nat  BY <1>0, <2>2
    <3>2. \A i \in (k + 1)..n : q[i] \in S  BY <1>0, <2>2
    <3>3. /\ b \in Seq(S)
          /\ Len(b) = IF k + 1 <= n THEN n - (k + 1) + 1 ELSE 0
          /\ \A i \in 1..(n - (k + 1) + 1) : b[i] = q[(k + 1) + i - 1]
      BY <3>1, <3>2, SubSeqProperties
    <3>4. n - (k + 1) + 1 = n - k  BY <3>1
    <3>5. Len(b) = n - k  BY <3>1, <3>3
    <3>6. ASSUME NEW i \in 1..(n - k) PROVE b[i] = q[k + i]
      <4>1. i \in 1..(n - (k + 1) + 1) /\ (k + 1) + i - 1 = k + i
        BY <3>1, <3>4
      <4>2. QED  BY <4>1, <3>3
    <3>7. QED  BY <3>3, <3>5, <3>6
  <2>6. r = a \o b  BY <2>3 DEF RemoveAt
  <2> HIDE DEF a, b, r
  <2>7. /\ r \in Seq(S) /\ Len(r) = n - 1 /\ DOMAIN r = 1..(n - 1)
        /\ \A i \in 1..(n - 1) : r[i] = IF i < k THEN q[i] ELSE q[i + 1]
    <3>1. r \in Seq(S) /\ Len(r) = n - 1 /\ DOMAIN r = 1..(n - 1)
      BY <2>2, <2>4, <2>5, <2>6, <1>0
    <3>2. ASSUME NEW i \in 1..(n - 1)
          PROVE  r[i] = IF i < k THEN q[i] ELSE q[i + 1]
      <4>1. CASE i < k  BY <4>1, <2>2, <2>4, <2>5, <2>6, <1>0
      <4>2. CASE ~(i < k)
        <5>1. r[i] = b[i - (k - 1)]  BY <4>2, <2>2, <2>4, <2>5, <2>6, <1>0
        <5>2. i - (k - 1) \in 1..(n - k)  BY <4>2, <2>2, <1>0
        <5>3. k + (i - (k - 1)) = i + 1  BY <2>2, <1>0
        <5>4. QED  BY <5>1, <5>2, <5>3, <4>2, <2>5
      <4>3. QED  BY <4>1, <4>2
    <3>3. QED  BY <3>1, <3>2
  <2>8. \A i, j \in 1..n : q[i] = q[j] => i = j  BY <1>0 DEF IsInjective
  <2>9. IsInjective(r)  BY <2>2, <2>7, <2>8, <1>0 DEF IsInjective
  <2>10. ASSUME NEW i \in 1..n, i # k PROVE q[i] \in Range(r)
    <3>1. CASE i < k
      <4>1. i \in 1..(n - 1) /\ r[i] = q[i]  BY <3>1, <2>2, <2>7, <1>0
      <4>2. QED  BY <4>1, <2>7 DEF Range
    <3>2. CASE i > k
      <4>1. i - 1 \in 1..(n - 1) /\ r[i - 1] = q[i]  BY <3>2, <2>2, <2>7, <1>0
      <4>2. QED  BY <4>1, <2>7 DEF Range
    <3>3. QED  BY <3>1, <3>2, <2>10, <2>2, <1>0
  <2>11. \A i \in 1..(n - 1) : r[i] \in Range(q) \ {e}
    <3> TAKE i \in 1..(n - 1)
    <3>1. PICK j \in 1..n : j # k /\ r[i] = q[j]  BY <2>2, <2>7, <1>0
    <3>2. QED  BY <3>1, <2>2, <2>8, <1>0 DEF Range
  <2>12. Range(r) = Range(q) \ {e}
    BY <2>2, <2>7, <2>10, <2>11, <1>0 DEF Range
  <2>13. QED  BY <2>7, <2>9, <2>12 DEF r
<1>3. QED  BY <1>1, <1>2

\* Putting an element the sequence does not list at its end.
LEMMA AppendFacts ==
    ASSUME NEW S, NEW q \in Seq(S), NEW e \in S, IsInjective(q), e \notin Range(q)
    PROVE  /\ Append(q, e) \in Seq(S)
           /\ Range(Append(q, e)) = Range(q) \cup {e}
           /\ IsInjective(Append(q, e))
<1> DEFINE r == Append(q, e)
           n == Len(q)
<1>1. n \in Nat /\ DOMAIN q = 1..n  OBVIOUS
<1>2. /\ r \in Seq(S) /\ Len(r) = n + 1 /\ DOMAIN r = 1..(n + 1)
      /\ r[n + 1] = e /\ \A i \in 1..n : r[i] = q[i]
  OBVIOUS
<1> HIDE DEF r
<1>3. \A i \in 1..n : q[i] # e  BY <1>1 DEF Range
<1>4. IsInjective(r)  BY <1>1, <1>2, <1>3 DEF IsInjective
<1>5. 1..(n + 1) = 1..n \cup {n + 1}  BY <1>1
<1>6. Range(r) = Range(q) \cup {e}  BY <1>1, <1>2, <1>5 DEF Range
<1>7. QED  BY <1>2, <1>4, <1>6 DEF r

-----------------------------------------------------------------------------
\* Finitely many sessions are in the map.
LEMMA ActiveFinite ==
    IsFiniteSet(Active) /\ Cardinality(Active) \in Nat
<1>1. IsFiniteSet(Active)  BY SessionsAssumption, FS_Subset DEF Active
<1>2. QED  BY <1>1, FS_CardinalityType

\* evict_oldest_session_locked finds a session of the map whenever there is one.
LEMMA OldestFound ==
    ASSUME Types, OrderInv, Active # {}
    PROVE  Oldest(Candidates) \in Active
<1> DEFINE D == DOMAIN order
           At(s) == Min({i \in D : order[i] = s})
           P == {At(s) : s \in Candidates}
<1>1. D \subseteq Nat /\ Active \subseteq Nat
  <2>1. Active \subseteq Nat  BY SessionsAssumption DEF Active
  <2>2. order \in Seq(Sessions)  BY DEF OrderInv
  <2>3. D = 1..Len(order) /\ Len(order) \in Nat  BY <2>2
  <2>4. QED  BY <2>1, <2>3
<1>2. Min(Active) \in Candidates /\ Candidates \subseteq Active
  BY <1>1, MinFacts DEF Candidates
<1>3. ASSUME NEW s \in Active PROVE At(s) \in Nat /\ order[At(s)] = s
  <2>1. {i \in D : order[i] = s} # {}  BY DEF OrderInv, Range
  <2>2. {i \in D : order[i] = s} \in SUBSET Nat  BY <1>1
  <2>3. At(s) \in {i \in D : order[i] = s}  BY <2>1, <2>2, MinFacts
  <2>4. QED  BY <2>3, <1>1
<1> HIDE DEF At
<1>4. P \in SUBSET Nat /\ P # {}  BY <1>2, <1>3
<1>5. Min(P) \in P /\ \A y \in P : Min(P) <= y  BY <1>4, MinFacts
<1>6. PICK s \in Candidates : Min(P) = At(s)  BY <1>5
<1>7. ASSUME NEW r \in Candidates \ {s} PROVE At(s) < At(r)
  <2>1. At(r) \in P /\ At(s) <= At(r)  BY <1>5, <1>6
  <2>2. At(s) # At(r)  BY <1>2, <1>3
  <2>3. QED  BY <2>1, <2>2, <1>2, <1>3
<1>8. \E c \in Candidates : \A r \in Candidates \ {c} : At(c) < At(r)
  BY <1>7
<1>9. Oldest(Candidates)
          = CHOOSE c \in Candidates : \A r \in Candidates \ {c} : At(c) < At(r)
  BY DEF Oldest, At
<1>10. QED  BY <1>2, <1>8, <1>9

\* A function has no more values than arguments.
LEMMA ImageFacts ==
    ASSUME NEW S, IsFiniteSet(S), NEW f
    PROVE  LET T == {f[x] : x \in S}
           IN  IsFiniteSet(T) /\ Cardinality(T) <= Cardinality(S)
<1> DEFINE T == {f[x] : x \in S}
           g == [x \in S |-> f[x]]
<1>1. g \in Surjection(S, T)  BY DEF Surjection
<1>2. QED  BY <1>1, FS_Surjection

\* There is always an object for a worker that has none: the map holds
\* MaxActive at most, and every other worker one.
LEMMA FreshFound ==
    ASSUME Types, ActiveBounded, NEW w \in Workers, ref[w] = NoObj
    PROVE  /\ Fresh \in Objs
           /\ \A s \in Sessions : sessions[s] # Fresh
           /\ \A x \in Workers : ref[x] # Fresh
<1> DEFINE A == {sessions[s] : s \in Active}
           B == {ref[x] : x \in Workers \ {w}}
<1>1. IsFiniteSet(A) /\ Cardinality(A) <= Cardinality(Active)
  BY ActiveFinite, ImageFacts
<1>2. /\ IsFiniteSet(Workers \ {w})
      /\ Cardinality(Workers \ {w}) = Cardinality(Workers) - 1
  BY WorkersAssumption, FS_RemoveElement
<1>3. IsFiniteSet(B) /\ Cardinality(B) <= Cardinality(Workers) - 1
  BY <1>2, ImageFacts
<1>4. /\ Cardinality(A) \in Nat /\ Cardinality(B) \in Nat
      /\ Cardinality(Workers) \in Nat /\ Cardinality(Objs) \in Nat
      /\ Cardinality(A \cap B) \in Nat
  BY <1>1, <1>3, WorkersAssumption, ObjsAssumption, FS_CardinalityType, FS_Intersection
<1>5. /\ IsFiniteSet(A \cup B)
      /\ Cardinality(A \cup B) = Cardinality(A) + Cardinality(B) - Cardinality(A \cap B)
  BY <1>1, <1>3, FS_Union
<1>6. Cardinality(A \cup B) < Cardinality(Objs)
  BY <1>1, <1>3, <1>4, <1>5, ActiveFinite, ObjsAssumption, LimitAssumption
  DEF ActiveBounded
<1>7. ~(Objs \subseteq A \cup B)
  <2>1. SUFFICES ASSUME Objs \subseteq A \cup B PROVE FALSE  OBVIOUS
  <2>2. Cardinality(Objs) <= Cardinality(A \cup B)  BY <2>1, <1>5, FS_Subset
  <2>3. Cardinality(A \cup B) \in Nat  BY <1>5, FS_CardinalityType
  <2>4. QED  BY <2>2, <2>3, <1>4, <1>6
<1>8. PICK o \in Objs : o \notin A /\ o \notin B  BY <1>7
<1>9. o # NoObj  BY ObjsAssumption
<1>10. o \notin Live(sessions, ref)
  <2>1. ASSUME NEW s \in Sessions PROVE sessions[s] # o
    BY <1>8, <1>9 DEF Active
  <2>2. ASSUME NEW x \in Workers PROVE ref[x] # o  BY <1>8, <1>9
  <2>3. DOMAIN sessions = Sessions /\ DOMAIN ref = Workers  BY DEF Types
  <2>4. QED  BY <2>1, <2>2, <2>3 DEF Live, Range
<1>11. Fresh \in Objs /\ Fresh \notin Live(sessions, ref)  BY <1>10 DEF Fresh
<1>12. QED  BY <1>11 DEF Live, Range, Types

\* A state whose fields are assigned values of their types is a state.
LEMMA KVFacts ==
    ASSUME NEW b \in KV, NEW n \in Names \cup {NoName}, NEW i \in 0..MaxTurns,
           NEW l \in BOOLEAN
    PROVE  /\ [b EXCEPT !.turns = i, !.left = l] \in KV
           /\ [b EXCEPT !.init = TRUE, !.cells = n, !.turns = i, !.left = l] \in KV
           /\ [b EXCEPT !.by = n, !.cells = n] \in KV
           /\ [b EXCEPT !.by = n, !.cells = n].turns = b.turns
           /\ [Blank EXCEPT !.by = n, !.cells = n, !.left = l] \in KV
<1>1. Blank \in KV  BY LimitAssumption DEF KV, Blank
<1>2. QED  BY <1>1 DEF KV, Blank

\* What is destroyed is of no one's interest: the states that are left have the
\* contents they had.
LEMMA KeepFacts ==
    ASSUME NEW state \in [Objs -> KV], NEW live
    PROVE  /\ Keep(state, live) \in [Objs -> KV]
           /\ \A o \in Objs \cap live : Keep(state, live)[o] = state[o]
BY LimitAssumption DEF Keep, Blank, KV

\* sessions_.erase takes one session out of the map and the recency order.
LEMMA Erased ==
    ASSUME Types, OrderInv, ActiveBounded, FileInv, NEW s \in Active, Erase(s)
    PROVE  /\ sessions' \in [Sessions -> Objs \cup {NoObj}]
           /\ \A r \in Sessions : sessions'[r] = IF r = s THEN NoObj ELSE sessions[r]
           /\ Active' = Active \ {s}
           /\ OrderInv'
           /\ ActiveBounded'
           /\ kv' \in [Objs -> KV]
           /\ \A r \in Active' : kv'[sessions'[r]] = kv[sessions[r]]
<1>1. /\ sessions' \in [Sessions -> Objs \cup {NoObj}]
      /\ \A r \in Sessions : sessions'[r] = IF r = s THEN NoObj ELSE sessions[r]
  BY DEF Types, Erase, Active
<1>2. Active' = Active \ {s}  BY <1>1 DEF Active
<1>3. OrderInv'
  BY <1>2, RemoveFirstFacts DEF OrderInv, Erase
<1>4. ActiveBounded'
  <2>1. Cardinality(Active \ {s}) = Cardinality(Active) - 1
    BY ActiveFinite, FS_RemoveElement
  <2>2. QED  BY <1>2, <2>1, ActiveFinite, LimitAssumption DEF ActiveBounded
<1>5. kv' \in [Objs -> KV]
  BY KeepFacts DEF Types, Erase
<1>6. ASSUME NEW r \in Active' PROVE kv'[sessions'[r]] = kv[sessions[r]]
  <2>1. sessions'[r] = sessions[r] /\ sessions'[r] \in Objs /\ r \in DOMAIN sessions'
    BY <1>1, <1>2 DEF Active
  <2>2. sessions'[r] \in Live(sessions', ref)  BY <2>1 DEF Live, Range
  <2>3. kv' = Keep(kv, Live(sessions', ref))  BY DEF Erase
  <2>4. QED  BY <2>1, <2>2, <2>3, KeepFacts DEF Types
<1>7. QED  BY <1>1, <1>2, <1>3, <1>4, <1>5, <1>6

-----------------------------------------------------------------------------
\* The end of a request takes its tracker away.
LEMMA Returned ==
    ASSUME CacheInv, NEW w \in Workers, pc[w] \notin {"idle", "flush"}, Return(w)
    PROVE  /\ busy' \in [Names -> Nat]
           /\ pc' \in [Workers -> Steps]
           /\ req' \in [Workers -> Requests]
           /\ ref' \in [Workers -> Objs \cup {NoObj}]
           /\ OneInferencePerName'
<1> DEFINE n == req[w].n
<1>1. n \in Names /\ req[w] \in Requests
  BY DEF CacheInv, Types, ControlInv, Requests
<1>2. /\ pc' \in [Workers -> Steps]
      /\ req' \in [Workers -> Requests]
      /\ ref' \in [Workers -> Objs \cup {NoObj}]
  BY DEF CacheInv, Types, Return, Goto, Steps, Requests, NoRequest
<1>3. \A m \in Names : IsFiniteSet(InFlight(m)) /\ Cardinality(InFlight(m)) \in Nat
  BY WorkersAssumption, FS_Subset, FS_CardinalityType DEF InFlight
<1>4. \A m \in Names : InFlight(m)' = IF m = n THEN InFlight(m) \ {w} ELSE InFlight(m)
  BY <1>1, WorkersAssumption DEF CacheInv, Types, InFlight, Return, NoRequest
<1>5. w \in InFlight(n)  BY DEF InFlight
<1>6. Cardinality(InFlight(n) \ {w}) = Cardinality(InFlight(n)) - 1
  BY <1>1, <1>3, <1>5, FS_RemoveElement
<1>7. Cardinality(InFlight(n)) # 0  BY <1>1, <1>3, <1>5, FS_EmptySet
<1>8. \A m \in Names : busy[m] = Cardinality(InFlight(m))
  BY DEF CacheInv, OneInferencePerName
<1>9. \A m \in Names : busy'[m] = IF m = n THEN busy[m] - 1 ELSE busy[m]
  BY <1>1 DEF CacheInv, Types, Return
<1>10. busy' \in [Names -> Nat]
  <2>1. busy[n] - 1 \in Nat  BY <1>1, <1>3, <1>7, <1>8
  <2>2. QED  BY <2>1 DEF CacheInv, Types, Return
<1>11. OneInferencePerName'
  <2>1. ASSUME NEW m \in Names PROVE busy'[m] = Cardinality(InFlight(m)')
    BY <1>4, <1>6, <1>8, <1>9
  <2>2. ASSUME NEW m \in Names, NEW x \in InFlight(m)', NEW y \in InFlight(m)',
               pc'[x] # "rejected", pc'[y] # "rejected"
        PROVE  x = y
    <3>1. x \in InFlight(m) /\ y \in InFlight(m) /\ x # w /\ y # w
      BY <1>4, <2>2, <1>1 DEF InFlight
    <3>2. pc[x] # "rejected" /\ pc[y] # "rejected"
      BY <3>1, <2>2 DEF CacheInv, Types, Return, Goto, InFlight
    <3>3. QED  BY <3>1, <3>2 DEF CacheInv, OneInferencePerName
  <2>3. QED  BY <2>1, <2>2 DEF OneInferencePerName
<1>12. QED  BY <1>2, <1>10, <1>11

\* Trackers stay as they are while a request goes from one step to the next.
LEMMA Moved ==
    ASSUME CacheInv, NEW w \in Workers, NEW step, pc[w] # "rejected",
           Goto(w, step), UNCHANGED <<busy, req>>
    PROVE  OneInferencePerName'
<1>1. \A n \in Names : InFlight(n)' = InFlight(n)  BY DEF InFlight
<1>2. \A x \in Workers : pc'[x] # "rejected" => pc[x] # "rejected"
  BY DEF CacheInv, Types, Goto
<1>3. QED  BY <1>1, <1>2 DEF CacheInv, OneInferencePerName, InFlight

\* A request that starts is counted, and goes on only if it is alone.
LEMMA RequestStep ==
    ASSUME CacheInv, NEW w \in Workers, NEW s \in Sessions \cup {NoSession}, NEW n \in Names, Request(w, s, n)
    PROVE  CacheInv'
<1>1. Types'
  BY DEF CacheInv, Request, Goto, cacheVars, Types, Steps, Requests
<1>2. OrderInv'
  BY DEF CacheInv, Request, Goto, cacheVars, OrderInv, Active
<1>3. ControlInv'
  BY ObjsAssumption, WorkersAssumption, SessionsAssumption
    DEF CacheInv, Request, Goto, cacheVars, Types, ControlInv, LockOrder,
    Active, Requests
<1>4. LockOrder'
  BY ObjsAssumption, WorkersAssumption
    DEF CacheInv, Request, Goto, cacheVars, Types, ControlInv, LockOrder
<1>5. StatesArePrivate'
  BY ObjsAssumption DEF CacheInv, Request, Goto, cacheVars, Types,
    ControlInv, StatesArePrivate, Active
<1>6. OneInferencePerName'
  <2>1. \A m \in Names : IsFiniteSet(InFlight(m)) /\ Cardinality(InFlight(m)) \in Nat
    BY WorkersAssumption, FS_Subset, FS_CardinalityType DEF InFlight
  <2>2. \A m \in Names : InFlight(m)' = IF m = n THEN InFlight(m) \cup {w} ELSE InFlight(m)
    BY WorkersAssumption DEF CacheInv, Types, ControlInv, InFlight, Request
  <2>3. w \notin InFlight(n)
    BY WorkersAssumption DEF CacheInv, ControlInv, InFlight, Request
  <2>4. Cardinality(InFlight(n) \cup {w}) = Cardinality(InFlight(n)) + 1
    BY <2>1, <2>3, FS_AddElement
  <2>5. \A m \in Names : busy[m] = Cardinality(InFlight(m))
    BY DEF CacheInv, OneInferencePerName
  <2>6. ASSUME NEW m \in Names PROVE busy'[m] = Cardinality(InFlight(m)')
    BY <2>2, <2>4, <2>5 DEF CacheInv, Types, Request
  <2>7. busy[n] = 0 => InFlight(n) = {}  BY <2>1, <2>5, FS_EmptySet
  <2>8. \A x \in Workers : x # w => pc'[x] = pc[x]
    BY DEF CacheInv, Types, Request, Goto
  <2>9. pc'[w] # "rejected" => busy[n] = 0
    BY DEF CacheInv, Types, Request, Goto
  <2>10. ASSUME NEW m \in Names, NEW x \in InFlight(m)', NEW y \in InFlight(m)',
                pc'[x] # "rejected", pc'[y] # "rejected"
         PROVE  x = y
    <3>1. CASE x = w \/ y = w
      <4>1. m = n /\ InFlight(m) = {}
        BY <3>1, <2>2, <2>3, <2>7, <2>9, <2>10 DEF CacheInv, ControlInv, InFlight, Request
      <4>2. QED  BY <4>1, <2>2
    <3>2. CASE x # w /\ y # w
      <4>1. /\ x \in InFlight(m) /\ y \in InFlight(m)
            /\ pc[x] # "rejected" /\ pc[y] # "rejected"
        BY <3>2, <2>2, <2>8, <2>10 DEF InFlight
      <4>2. QED  BY <4>1 DEF CacheInv, OneInferencePerName
    <3>3. QED  BY <3>1, <3>2
  <2>11. QED  BY <2>6, <2>10 DEF OneInferencePerName
<1>7. ActiveBounded'
  BY DEF CacheInv, Request, Goto, cacheVars, ActiveBounded, Active
<1>8. FileInv'
  BY DEF CacheInv, Request, Goto, cacheVars, Types, FileInv, Active
<1>9. QED  BY <1>1, <1>2, <1>3, <1>4, <1>5, <1>6, <1>7, <1>8 DEF CacheInv

\* 429.
LEMMA RejectStep ==
    ASSUME CacheInv, NEW w \in Workers, Reject(w)
    PROVE  CacheInv'
<1>1. Types'
  BY Returned DEF CacheInv, Reject, Return, Goto, cacheVars, Types
<1>2. OrderInv'
  BY DEF CacheInv, Reject, Return, Goto, cacheVars, OrderInv, Active
<1>3. ControlInv'
  BY ObjsAssumption, WorkersAssumption, SessionsAssumption
    DEF CacheInv, Reject, Return, Goto, cacheVars, Types, ControlInv,
    LockOrder, Active, NoRequest
<1>4. LockOrder'
  BY ObjsAssumption, WorkersAssumption
    DEF CacheInv, Reject, Return, Goto, cacheVars, Types, ControlInv, LockOrder
<1>5. StatesArePrivate'
  BY ObjsAssumption DEF CacheInv, Reject, Return, Goto, cacheVars, Types,
    ControlInv, StatesArePrivate, Active, NoRequest
<1>6. OneInferencePerName'
  BY Returned DEF Reject
<1>7. ActiveBounded'
  BY DEF CacheInv, Reject, Return, Goto, cacheVars, ActiveBounded, Active
<1>8. FileInv'
  BY DEF CacheInv, Reject, Return, Goto, cacheVars, Types, FileInv, Active
<1>9. QED  BY <1>1, <1>2, <1>3, <1>4, <1>5, <1>6, <1>7, <1>8 DEF CacheInv

\* 500.
LEMMA NotFoundStep ==
    ASSUME CacheInv, NEW w \in Workers, NotFound(w)
    PROVE  CacheInv'
<1>1. Types'
  BY Returned DEF CacheInv, NotFound, Return, Goto, cacheVars, Types
<1>2. OrderInv'
  BY DEF CacheInv, NotFound, Return, Goto, cacheVars, OrderInv, Active
<1>3. ControlInv'
  BY ObjsAssumption, WorkersAssumption, SessionsAssumption
    DEF CacheInv, NotFound, Return, Goto, cacheVars, Types, ControlInv,
    LockOrder, Active, NoRequest
<1>4. LockOrder'
  BY ObjsAssumption, WorkersAssumption
    DEF CacheInv, NotFound, Return, Goto, cacheVars, Types, ControlInv,
    LockOrder
<1>5. StatesArePrivate'
  BY ObjsAssumption DEF CacheInv, NotFound, Return, Goto, cacheVars, Types,
    ControlInv, StatesArePrivate, Active, NoRequest
<1>6. OneInferencePerName'
  BY Returned DEF NotFound
<1>7. ActiveBounded'
  BY DEF CacheInv, NotFound, Return, Goto, cacheVars, ActiveBounded, Active
<1>8. FileInv'
  BY DEF CacheInv, NotFound, Return, Goto, cacheVars, Types, FileInv, Active
<1>9. QED  BY <1>1, <1>2, <1>3, <1>4, <1>5, <1>6, <1>7, <1>8 DEF CacheInv

\* 503.
LEMMA RefuseStep ==
    ASSUME CacheInv, NEW w \in Workers, Refuse(w)
    PROVE  CacheInv'
<1>1. Types'
  BY Returned, KeepFacts DEF CacheInv, Refuse, Return, Goto, cacheVars, Types
<1>2. OrderInv'
  BY DEF CacheInv, Refuse, Return, Goto, cacheVars, OrderInv, Active
<1>3. ControlInv'
  BY ObjsAssumption, WorkersAssumption, SessionsAssumption
    DEF CacheInv, Refuse, Return, Goto, cacheVars, Types, ControlInv,
    LockOrder, Active, NoRequest
<1>4. LockOrder'
  BY ObjsAssumption, WorkersAssumption
    DEF CacheInv, Refuse, Return, Goto, cacheVars, Types, ControlInv, LockOrder
<1>5. StatesArePrivate'
  BY ObjsAssumption DEF CacheInv, Refuse, Return, Goto, cacheVars, Types,
    ControlInv, StatesArePrivate, Active, NoRequest
<1>6. OneInferencePerName'
  BY Returned DEF Refuse
<1>7. ActiveBounded'
  BY DEF CacheInv, Refuse, Return, Goto, cacheVars, ActiveBounded, Active
<1>8. FileInv'
  BY KeepFacts DEF CacheInv, Refuse, Return, Goto, cacheVars, Types, FileInv,
    Active, Live, Range
<1>9. QED  BY <1>1, <1>2, <1>3, <1>4, <1>5, <1>6, <1>7, <1>8 DEF CacheInv

\* A request without a session gets an object of its own.
LEMMA GetPrivateStep ==
    ASSUME CacheInv, NEW w \in Workers, GetPrivate(w)
    PROVE  CacheInv'
<1>0. /\ Fresh \in Objs
      /\ \A s \in Sessions : sessions[s] # Fresh
      /\ \A x \in Workers : ref[x] # Fresh
  BY FreshFound DEF CacheInv, ControlInv, GetPrivate
<1>1. Types'
  BY <1>0, LimitAssumption DEF CacheInv, GetPrivate, Goto, cacheVars, Types, Steps, KV, Blank
<1>2. OrderInv'
  BY DEF CacheInv, GetPrivate, Goto, cacheVars, OrderInv, Active
<1>3. ControlInv'
  BY <1>0, ObjsAssumption, WorkersAssumption, SessionsAssumption
    DEF CacheInv, GetPrivate, Goto, cacheVars, Types, ControlInv, LockOrder,
    Active
<1>4. LockOrder'
  BY ObjsAssumption, WorkersAssumption
    DEF CacheInv, GetPrivate, Goto, cacheVars, Types, ControlInv, LockOrder
<1>5. StatesArePrivate'
  BY <1>0 DEF CacheInv, GetPrivate, Goto, cacheVars, Types, StatesArePrivate, Active
<1>6. OneInferencePerName'
  BY Moved DEF GetPrivate
<1>7. ActiveBounded'
  BY DEF CacheInv, GetPrivate, Goto, cacheVars, ActiveBounded, Active
<1>8. FileInv'
  BY <1>0 DEF CacheInv, GetPrivate, cacheVars, Types, FileInv, Active
<1>9. QED  BY <1>1, <1>2, <1>3, <1>4, <1>5, <1>6, <1>7, <1>8 DEF CacheInv

\* A session of the map is moved to the end of the recency order.
LEMMA GetHitStep ==
    ASSUME CacheInv, NEW w \in Workers, GetHit(w)
    PROVE  CacheInv'
<1> DEFINE s == req[w].s
<1>0. s \in Active /\ s \in Sessions /\ sessions[s] \in Objs
  BY DEF CacheInv, GetHit, Types, Active
<1>1. Types'
  BY <1>0 DEF CacheInv, GetHit, Goto, Types, Steps
<1>2. OrderInv'
  <2>1. /\ RemoveFirst(order, s) \in Seq(Sessions)
        /\ Range(RemoveFirst(order, s)) = Active \ {s}
        /\ IsInjective(RemoveFirst(order, s))
    BY RemoveFirstFacts DEF CacheInv, OrderInv
  <2>2. /\ Append(RemoveFirst(order, s), s) \in Seq(Sessions)
        /\ Range(Append(RemoveFirst(order, s), s)) = (Active \ {s}) \cup {s}
        /\ IsInjective(Append(RemoveFirst(order, s), s))
    BY <1>0, <2>1, AppendFacts
  <2>3. order' = Append(RemoveFirst(order, s), s) /\ Active' = Active
    BY DEF GetHit, Touch, Active
  <2>4. QED  BY <1>0, <2>2, <2>3 DEF OrderInv
<1>3. ControlInv'
  BY ObjsAssumption, WorkersAssumption, SessionsAssumption
    DEF CacheInv, GetHit, Goto, Types, ControlInv, LockOrder, Active
<1>4. LockOrder'
  BY ObjsAssumption, WorkersAssumption
    DEF CacheInv, GetHit, Goto, Types, ControlInv, LockOrder
<1>5. StatesArePrivate'
  <2>1. \A x \in Workers : ref'[x] = IF x = w THEN sessions[s] ELSE ref[x]
    BY DEF CacheInv, Types, GetHit
  <2>2. sessions' = sessions /\ req' = req /\ Active' = Active /\ s # NoSession
    BY <1>0, SessionsAssumption DEF GetHit, Active
  <2>3. QED  BY <1>0, <2>1, <2>2 DEF CacheInv, StatesArePrivate
<1>6. OneInferencePerName'
  BY Moved DEF GetHit
<1>7. ActiveBounded'
  BY DEF CacheInv, GetHit, Goto, ActiveBounded, Active
<1>8. FileInv'
  BY DEF CacheInv, GetHit, Goto, Types, FileInv, Active
<1>9. QED  BY <1>1, <1>2, <1>3, <1>4, <1>5, <1>6, <1>7, <1>8 DEF CacheInv

\* A session that is not in the map: the worker takes mutex_.
LEMMA GetMissStep ==
    ASSUME CacheInv, NEW w \in Workers, GetMiss(w)
    PROVE  CacheInv'
<1>1. Types'
  BY DEF CacheInv, GetMiss, Goto, Types, Steps
<1>2. OrderInv'
  BY DEF CacheInv, GetMiss, Goto, OrderInv, Active
<1>3. ControlInv'
  BY ObjsAssumption, WorkersAssumption, SessionsAssumption
    DEF CacheInv, GetMiss, Goto, Types, ControlInv, LockOrder, Active
<1>4. LockOrder'
  BY ObjsAssumption, WorkersAssumption
    DEF CacheInv, GetMiss, Goto, Types, ControlInv, LockOrder
<1>5. StatesArePrivate'
  BY ObjsAssumption DEF CacheInv, GetMiss, Goto, Types, ControlInv,
    StatesArePrivate, Active
<1>6. OneInferencePerName'
  BY Moved DEF GetMiss
<1>7. ActiveBounded'
  BY DEF CacheInv, GetMiss, Goto, ActiveBounded, Active
<1>8. FileInv'
  BY DEF CacheInv, GetMiss, Goto, Types, FileInv, Active
<1>9. QED  BY <1>1, <1>2, <1>3, <1>4, <1>5, <1>6, <1>7, <1>8 DEF CacheInv

\* The victim is a session of the map; without a turn it goes at once.
LEMMA EvictPickStep ==
    ASSUME CacheInv, NEW w \in Workers, EvictPick(w)
    PROVE  CacheInv'
<1> DEFINE v == Oldest(Candidates)
<1>a. v \in Active
  <2>1. Active # {}
    BY ActiveFinite, FS_EmptySet, LimitAssumption DEF EvictPick
  <2>2. QED  BY <2>1, OldestFound DEF CacheInv
<1> HIDE DEF v
<1>b. CASE kv[sessions[v]].init
  <2>0. /\ Goto(w, "spill")
        /\ victim' = [victim EXCEPT ![w] = v]
        /\ pc[w] = "evict" /\ UNCHANGED <<sessions, order, mgr, kv, lock, disk, busy, req, ref>>
    BY <1>b DEF EvictPick, cacheVars, v
  <2>1. Types'  BY <1>a, <2>0 DEF CacheInv, Goto, Types, Steps, Active
  <2>2. OrderInv'  BY <2>0 DEF CacheInv, OrderInv, Active
  <2>3. ControlInv'
    BY <1>a, <2>0 DEF CacheInv, Goto, Types, ControlInv, Active
  <2>4. LockOrder'
    BY <2>0 DEF CacheInv, Goto, Types, LockOrder
  <2>5. StatesArePrivate'  BY <2>0 DEF CacheInv, StatesArePrivate, Active
  <2>6. OneInferencePerName'  BY <2>0, Moved
  <2>7. ActiveBounded' /\ FileInv'
    BY <2>0 DEF CacheInv, ActiveBounded, FileInv, Active
  <2>8. QED  BY <2>1, <2>2, <2>3, <2>4, <2>5, <2>6, <2>7 DEF CacheInv
<1>c. CASE ~kv[sessions[v]].init
  <2>0. Erase(v) /\ UNCHANGED <<mgr, lock, disk, busy, req, ref, pc, victim>>
    BY <1>c DEF EvictPick, v
  <2>a. /\ sessions' \in [Sessions -> Objs \cup {NoObj}]
        /\ \A r \in Sessions : sessions'[r] = IF r = v THEN NoObj ELSE sessions[r]
        /\ Active' = Active \ {v}
        /\ OrderInv'
        /\ ActiveBounded'
        /\ kv' \in [Objs -> KV]
        /\ \A r \in Active' : kv'[sessions'[r]] = kv[sessions[r]]
    BY <1>a, <2>0, Erased DEF CacheInv
  <2>1. Types'  BY <2>0, <2>a DEF CacheInv, Types
  <2>2. ControlInv'
    BY <2>0, <2>a, WorkersAssumption DEF CacheInv, Types, ControlInv, LockOrder, EvictPick
  <2>3. LockOrder'  BY <2>0 DEF CacheInv, LockOrder
  <2>4. StatesArePrivate'
    BY <2>0, <2>a DEF CacheInv, StatesArePrivate, Active
  <2>5. OneInferencePerName'
    BY <2>0 DEF CacheInv, OneInferencePerName, InFlight
  <2>6. FileInv'  BY <2>0, <2>a DEF CacheInv, FileInv
  <2>7. QED  BY <2>a, <2>1, <2>2, <2>3, <2>4, <2>5, <2>6 DEF CacheInv
<1>d. QED  BY <1>b, <1>c

\* The victim goes to its file, and out of the map.
LEMMA SpillStep ==
    ASSUME CacheInv, NEW w \in Workers, Spill(w)
    PROVE  CacheInv'
<1> DEFINE v == victim[w]
<1>0. v \in Active /\ v \in Sessions /\ pc[w] = "spill"
  BY DEF CacheInv, ControlInv, Spill, Active
<1>a. /\ sessions' \in [Sessions -> Objs \cup {NoObj}]
      /\ \A r \in Sessions : sessions'[r] = IF r = v THEN NoObj ELSE sessions[r]
      /\ Active' = Active \ {v}
      /\ OrderInv'
      /\ ActiveBounded'
      /\ kv' \in [Objs -> KV]
      /\ \A r \in Active' : kv'[sessions'[r]] = kv[sessions[r]]
  BY <1>0, Erased DEF CacheInv, Spill
<1>b. [kv[sessions[v]] EXCEPT !.left = FALSE] \in KV
  <2>1. kv[sessions[v]] \in KV  BY <1>0 DEF CacheInv, Types, Active
  <2>2. QED  BY <2>1 DEF KV
<1>1. Types'
  BY <1>0, <1>a, <1>b DEF CacheInv, Spill, Write, Goto, Types, Steps
<1>2. OrderInv'  BY <1>a
<1>3. ControlInv'
  BY <1>0, <1>a, SessionsAssumption DEF CacheInv, Spill, Goto, Types, ControlInv, LockOrder
<1>4. LockOrder'
  BY <1>0, WorkersAssumption DEF CacheInv, Spill, Goto, workerVars, Types, ControlInv, LockOrder
<1>5. StatesArePrivate'
  BY <1>a DEF CacheInv, Spill, Goto, workerVars, Types, StatesArePrivate, Active
<1>6. OneInferencePerName'
  BY Moved DEF Spill
<1>7. ActiveBounded'  BY <1>a
<1>8. FileInv'
  <2>1. \A r \in Active' : disk'[r] = disk[r]
    BY <1>0, <1>a DEF CacheInv, Spill, Write, Types, Active
  <2>2. QED  BY <1>a, <2>1 DEF CacheInv, FileInv
<1>9. QED  BY <1>1, <1>2, <1>3, <1>4, <1>5, <1>6, <1>7, <1>8 DEF CacheInv

\* The new state contains what the file restores to.
LEMMA CreateStep ==
    ASSUME CacheInv, NEW w \in Workers, Create(w)
    PROVE  CacheInv'
<1> DEFINE s == req[w].s
<1>0. /\ Fresh \in Objs
      /\ \A r \in Sessions : sessions[r] # Fresh
      /\ \A x \in Workers : ref[x] # Fresh
  BY FreshFound DEF CacheInv, ControlInv, Create
<1>a. s \in Sessions /\ s \notin Active /\ pc[w] = "evict"
  BY DEF CacheInv, ControlInv, Create
<1>b. /\ \A r \in Sessions : sessions'[r] = IF r = s THEN Fresh ELSE sessions[r]
      /\ \A x \in Workers : ref'[x] = IF x = w THEN Fresh ELSE ref[x]
      /\ Active' = Active \cup {s}
  BY <1>0, <1>a, ObjsAssumption DEF CacheInv, Types, Create, Active
<1>c. /\ Restored(s, req[w].n) \in KV
      /\ \/ Restored(s, req[w].n).left
         \/ Restored(s, req[w].n).turns >= disk[s].turns
  <2>1. disk[s] \in KV /\ disk[s].turns \in Nat
    BY <1>a, LimitAssumption DEF CacheInv, Types, KV
  <2>2. req[w].n \in Names \cup {NoName}  BY DEF CacheInv, Types, Requests
  <2> DEFINE l == disk[s].turns > 0
  <2>3. l \in BOOLEAN /\ (l \/ 0 >= disk[s].turns)  BY <2>1
  <2>4. Restored(s, req[w].n) =
            IF disk[s].init /\ <<disk[s].by, disk[s].cells>> \in Accepts[req[w].n]
            THEN [disk[s] EXCEPT !.by = req[w].n, !.cells = req[w].n]
            ELSE [Blank EXCEPT !.by = req[w].n, !.cells = req[w].n, !.left = l]
    BY DEF Restored
  <2> HIDE DEF l
  <2> DEFINE n == req[w].n
             a == [disk[s] EXCEPT !.by = n, !.cells = n]
             b == [Blank EXCEPT !.by = n, !.cells = n, !.left = l]
  <2>5. 0 \in 0..MaxTurns  BY LimitAssumption
  <2>6. a \in KV /\ a.turns = disk[s].turns  BY <2>1, <2>2, <2>5, KVFacts
  <2>7. b \in KV /\ b.left = l
    <3>1. b \in KV  BY <2>1, <2>2, <2>3, <2>5, KVFacts, Zenon
    <3>2. b.left = l  BY Zenon DEF Blank
    <3>3. QED  BY <3>1, <3>2
  <2>8. Restored(s, req[w].n) = a \/ Restored(s, req[w].n) = b  BY <2>4
  <2> HIDE DEF a, b
  <2>9. CASE Restored(s, req[w].n) = a  BY <2>9, <2>1, <2>6
  <2>10. CASE Restored(s, req[w].n) = b
    <3>1. CASE l  BY <2>10, <2>7, <3>1
    <3>2. CASE ~l
      <4>1. disk[s].turns = 0  BY <3>2, <2>1, <2>3
      <4>2. b.turns = 0  BY DEF b, Blank
      <4>3. QED  BY <4>1, <4>2, <2>7, <2>10
    <3>3. QED  BY <3>1, <3>2
  <2>11. QED  BY <2>8, <2>9, <2>10
<1>1. Types'
  BY <1>0, <1>a, <1>c DEF CacheInv, Create, Goto, Types, Steps
<1>2. OrderInv'
  BY <1>a, <1>b, AppendFacts DEF CacheInv, OrderInv, Create
<1>3. ControlInv'
  BY <1>0, <1>a, <1>b, ObjsAssumption DEF CacheInv, Create, Goto, Types, ControlInv, LockOrder
<1>4. LockOrder'
  BY ObjsAssumption, WorkersAssumption
    DEF CacheInv, Create, Goto, Types, ControlInv, LockOrder
<1>5. StatesArePrivate'
  <2>1. req' = req  BY DEF Create
  <2>2. QED  BY <1>0, <1>a, <1>b, <2>1 DEF CacheInv, StatesArePrivate, Active
<1>6. OneInferencePerName'
  BY Moved DEF Create
<1>7. ActiveBounded'
  <2>1. Cardinality(Active \cup {s}) = Cardinality(Active) + 1
    BY <1>a, ActiveFinite, FS_AddElement
  <2>2. QED  BY <1>b, <2>1, ActiveFinite, LimitAssumption DEF Create, ActiveBounded
<1>8. FileInv'
  <2>1. disk' = disk /\ kv' = [kv EXCEPT ![Fresh] = Restored(s, req[w].n)]
    BY DEF Create
  <2>2. QED  BY <1>0, <1>a, <1>b, <1>c, <2>1 DEF CacheInv, Types, FileInv, Active
<1>9. QED  BY <1>1, <1>2, <1>3, <1>4, <1>5, <1>6, <1>7, <1>8 DEF CacheInv

\* A turn that begins with fewer turns than the state contains marks it.
LEMMA Begun ==
    ASSUME CacheInv, NEW o \in Objs, NEW n \in Names \cup {NoName},
           (\E i \in 0..kv[o].turns : Resume(o, i)) \/ Restart(o, n)
    PROVE  /\ kv' \in [Objs -> KV]
           /\ \A p \in Objs :
                  kv'[p].left \/ (kv'[p].turns >= kv[p].turns /\ ~kv[p].left)
<1>1. /\ kv \in [Objs -> KV] /\ kv[o] \in KV
      /\ kv[o].turns \in 0..MaxTurns
      /\ \A p \in Objs : kv[p].turns \in Nat
  BY LimitAssumption DEF CacheInv, Types, KV
<1>2. \A p \in Objs : kv[p].left \in BOOLEAN  BY <1>1 DEF KV
<1>3. ASSUME NEW b \in KV, kv' = [kv EXCEPT ![o] = b],
             b.left \/ (b.turns >= kv[o].turns /\ ~kv[o].left)
      PROVE  /\ kv' \in [Objs -> KV]
             /\ \A p \in Objs :
                    kv'[p].left \/ (kv'[p].turns >= kv[p].turns /\ ~kv[p].left)
  <2>1. kv' \in [Objs -> KV]  BY <1>1, <1>3
  <2>2. ASSUME NEW p \in Objs
        PROVE  kv'[p].left \/ (kv'[p].turns >= kv[p].turns /\ ~kv[p].left)
    <3>1. CASE p = o  BY <3>1, <1>1, <1>3
    <3>2. CASE p # o
      <4>1. kv'[p] = kv[p]  BY <3>2, <1>1, <1>3
      <4>2. kv[p].turns >= kv[p].turns  BY <1>1
      <4>3. QED  BY <4>1, <4>2, <1>2
    <3>3. QED  BY <3>1, <3>2
  <2>3. QED  BY <2>1, <2>2
<1>4. ASSUME NEW i \in 0..kv[o].turns, Resume(o, i)
      PROVE  \E b \in KV : /\ kv' = [kv EXCEPT ![o] = b]
                           /\ b.left \/ (b.turns >= kv[o].turns /\ ~kv[o].left)
  <2> DEFINE l == kv[o].left \/ i < kv[o].turns
  <2>1. i \in 0..MaxTurns  BY <1>1, LimitAssumption
  <2>2. l \in BOOLEAN /\ (l \/ (i >= kv[o].turns /\ ~kv[o].left))  BY <1>1, <1>2
  <2>3. kv' = [kv EXCEPT ![o] = [kv[o] EXCEPT !.turns = i, !.left = l]]
    BY <1>4 DEF Resume
  <2> HIDE DEF l
  <2> DEFINE b == [kv[o] EXCEPT !.turns = i, !.left = l]
  <2>4. b \in KV /\ b.left = l /\ b.turns = i
    <3>1. b \in KV  BY <1>1, <2>1, <2>2, KVFacts, Zenon
    <3>2. b.left = l  BY <1>1, Zenon DEF KV
    <3>3. b.turns = i  BY <1>1, Zenon DEF KV
    <3>4. QED  BY <3>1, <3>2, <3>3
  <2> HIDE DEF b
  <2>5. b.left \/ (b.turns >= kv[o].turns /\ ~kv[o].left)  BY <2>2, <2>4
  <2>6. kv' = [kv EXCEPT ![o] = b]  BY <2>3 DEF b
  <2>7. QED  BY <2>4, <2>5, <2>6
<1>5. ASSUME Restart(o, n)
      PROVE  \E b \in KV : /\ kv' = [kv EXCEPT ![o] = b]
                           /\ b.left \/ (b.turns >= kv[o].turns /\ ~kv[o].left)
  <2> DEFINE l == kv[o].left \/ kv[o].turns > 0
  <2>1. 0 \in 0..MaxTurns  BY LimitAssumption
  <2>2. l \in BOOLEAN /\ (l \/ (0 >= kv[o].turns /\ ~kv[o].left))  BY <1>1, <1>2
  <2>3. kv' = [kv EXCEPT ![o] = [kv[o] EXCEPT !.init = TRUE, !.cells = n,
                                              !.turns = 0, !.left = l]]
    BY <1>5 DEF Restart
  <2> HIDE DEF l
  <2> DEFINE b == [kv[o] EXCEPT !.init = TRUE, !.cells = n,
                             !.turns = 0, !.left = l]
  <2>4. b \in KV /\ b.left = l /\ b.turns = 0
    <3>1. b \in KV  BY <1>1, <2>1, <2>2, KVFacts, Zenon
    <3>2. b.left = l  BY <1>1, Zenon DEF KV
    <3>3. b.turns = 0  BY <1>1, Zenon DEF KV
    <3>4. QED  BY <3>1, <3>2, <3>3
  <2> HIDE DEF b
  <2>5. b.left \/ (b.turns >= kv[o].turns /\ ~kv[o].left)  BY <2>2, <2>4
  <2>6. kv' = [kv EXCEPT ![o] = b]  BY <2>3 DEF b
  <2>7. QED  BY <2>4, <2>5, <2>6
<1>6. QED  BY <1>3, <1>4, <1>5

\* The turn begins: the state is initialized and locked.
LEMMA BeginStep ==
    ASSUME CacheInv, NEW w \in Workers, Begin(w)
    PROVE  CacheInv'
<1>0. ref[w] \in Objs
  BY DEF CacheInv, Begin, Types, ControlInv
<1>a. /\ kv' \in [Objs -> KV]
      /\ \A p \in Objs :
             kv'[p].left \/ (kv'[p].turns >= kv[p].turns /\ ~kv[p].left)
  <2>1. req[w].n \in Names \cup {NoName}  BY DEF CacheInv, Types, Requests
  <2>2. QED  BY <1>0, <2>1, Begun DEF Begin
<1>1. Types'
  BY <1>0, <1>a DEF CacheInv, Begin, Goto, cacheVars, Types, Steps
<1>2. OrderInv'
  BY DEF CacheInv, Begin, Goto, cacheVars, OrderInv, Active
<1>3. ControlInv'
  BY ObjsAssumption, WorkersAssumption, SessionsAssumption
    DEF CacheInv, Begin, Goto, cacheVars, Types, ControlInv, LockOrder, Active
<1>4. LockOrder'
  BY ObjsAssumption, WorkersAssumption
    DEF CacheInv, Begin, Goto, cacheVars, Types, ControlInv, LockOrder
<1>5. StatesArePrivate'
  BY ObjsAssumption DEF CacheInv, Begin, Goto, cacheVars, Types, ControlInv,
    StatesArePrivate, Active
<1>6. OneInferencePerName'
  BY Moved DEF Begin
<1>7. ActiveBounded'
  BY DEF CacheInv, Begin, Goto, cacheVars, ActiveBounded, Active
<1>8. FileInv'
  <2>1. sessions' = sessions /\ disk' = disk /\ Active' = Active
    BY DEF Begin, cacheVars, Active
  <2>2. \A p \in Objs : kv[p].turns \in Int /\ kv'[p].turns \in Int
    BY <1>a, LimitAssumption DEF CacheInv, Types, KV
  <2>3. \A r \in Active : sessions[r] \in Objs /\ disk[r].turns \in Int
    BY LimitAssumption DEF CacheInv, Types, KV, Active
  <2>4. QED  BY <1>a, <2>1, <2>2, <2>3 DEF CacheInv, FileInv
<1>9. QED  BY <1>1, <1>2, <1>3, <1>4, <1>5, <1>6, <1>7, <1>8 DEF CacheInv

\* However generate ends, its state is unlocked and the request goes on to its
\* checkpoint, or returns.
LEMMA TurnEnds ==
    ASSUME CacheInv, NEW w \in Workers, pc[w] = "generate", ref[w] \in Objs,
           NEW turned \in [Objs -> KV],
           \A o \in Objs : turned[o].turns >= kv[o].turns /\ turned[o].left = kv[o].left,
           AfterTurn(w), lock' = [lock EXCEPT ![ref[w]] = NoWorker],
           kv' = Keep(turned, Live(sessions, ref')),
           UNCHANGED <<sessions, order, mgr, disk>>
    PROVE  CacheInv'
<1>a. OrderInv' /\ ActiveBounded'  BY DEF CacheInv, OrderInv, ActiveBounded, Active
<1>b. FileInv'
  <2>1. \A r \in Active : sessions[r] \in Objs /\ sessions[r] \in Live(sessions, ref')
    BY DEF CacheInv, Types, Active, Live, Range
  <2>2. \A r \in Active : kv'[sessions[r]] = turned[sessions[r]]
    BY <2>1, KeepFacts
  <2>3. \A o \in Objs : turned[o].turns \in Int /\ kv[o].turns \in Int
    BY LimitAssumption DEF CacheInv, Types, KV
  <2>4. \A r \in Active : disk[r].turns \in Int
    BY LimitAssumption DEF CacheInv, Types, KV, Active
  <2>5. QED  BY <2>1, <2>2, <2>3, <2>4 DEF CacheInv, FileInv, Active
<1>0. OrderInv' /\ ActiveBounded' /\ FileInv'  BY <1>a, <1>b
<1>1. CASE Return(w)
  <2>1. Types'  BY <1>1, Returned, KeepFacts DEF CacheInv, Return, Types
  <2>2. ControlInv'
    BY <1>1, WorkersAssumption, ObjsAssumption
    DEF CacheInv, Return, Goto, NoRequest, Types, ControlInv, Active
  <2>3. LockOrder'
    BY <1>1, WorkersAssumption, ObjsAssumption
    DEF CacheInv, Return, Goto, Types, ControlInv, LockOrder
  <2>4. StatesArePrivate'
    BY <1>1, ObjsAssumption DEF CacheInv, Return, NoRequest, Types, StatesArePrivate, Active
  <2>5. OneInferencePerName'  BY <1>1, Returned
  <2>6. QED  BY <2>1, <2>2, <2>3, <2>4, <2>5, <1>0 DEF CacheInv
<1>2. CASE req[w].s # NoSession /\ Goto(w, "save") /\ UNCHANGED <<busy, req, ref, victim>>
  <2>1. Types'  BY <1>2, KeepFacts DEF CacheInv, Goto, Types, Steps
  <2>2. ControlInv'
    BY <1>2, ObjsAssumption
    DEF CacheInv, Goto, Types, Requests, ControlInv, Active
  <2>3. LockOrder'
    BY <1>2, WorkersAssumption
    DEF CacheInv, Goto, Types, LockOrder
  <2>4. StatesArePrivate'  BY <1>2 DEF CacheInv, StatesArePrivate, Active
  <2>5. OneInferencePerName'  BY <1>2, Moved
  <2>6. QED  BY <2>1, <2>2, <2>3, <2>4, <2>5, <1>0 DEF CacheInv
<1>3. QED  BY <1>1, <1>2 DEF AfterTurn


\* A turn is added to the state.
LEMMA EndStep ==
    ASSUME CacheInv, NEW w \in Workers, End(w)
    PROVE  CacheInv'
<1> DEFINE turned == [kv EXCEPT ![ref[w]].turns = @ + 1]
<1>0. pc[w] = "generate" /\ ref[w] \in Objs
  BY DEF CacheInv, End, Types, ControlInv
<1>1. /\ turned \in [Objs -> KV]
      /\ \A o \in Objs : turned[o].turns >= kv[o].turns /\ turned[o].left = kv[o].left
  <2>1. kv[ref[w]] \in KV /\ \A o \in Objs : kv[o].turns \in Nat
    BY <1>0, LimitAssumption DEF CacheInv, Types, KV
  <2>2. [kv[ref[w]] EXCEPT !.turns = @ + 1] \in KV
    BY <2>1, LimitAssumption DEF KV, End
  <2>3. turned = [kv EXCEPT ![ref[w]] = [kv[ref[w]] EXCEPT !.turns = @ + 1]]
    OBVIOUS
  <2>4. turned \in [Objs -> KV]  BY <2>2, <2>3 DEF CacheInv, Types
  <2>5. ASSUME NEW o \in Objs
        PROVE  turned[o].turns >= kv[o].turns /\ turned[o].left = kv[o].left
    BY <2>1, <2>3, <1>0 DEF CacheInv, Types, KV
  <2>6. QED  BY <2>4, <2>5
<1> HIDE DEF turned
<1>2. /\ AfterTurn(w)
      /\ lock' = [lock EXCEPT ![ref[w]] = NoWorker]
      /\ kv' = Keep(turned, Live(sessions, ref'))
      /\ UNCHANGED <<sessions, order, mgr, disk>>
  BY DEF End, cacheVars, turned
<1>3. QED  BY <1>0, <1>1, <1>2, TurnEnds

\* A failed turn adds nothing.
LEMMA EndAbortedStep ==
    ASSUME CacheInv, NEW w \in Workers, EndAborted(w)
    PROVE  CacheInv'
<1> DEFINE turned == kv
<1>0. pc[w] = "generate" /\ ref[w] \in Objs
  BY DEF CacheInv, EndAborted, Types, ControlInv
<1>1. /\ turned \in [Objs -> KV]
      /\ \A o \in Objs : turned[o].turns >= kv[o].turns /\ turned[o].left = kv[o].left
  BY LimitAssumption DEF CacheInv, Types, KV
<1> HIDE DEF turned
<1>2. /\ AfterTurn(w)
      /\ lock' = [lock EXCEPT ![ref[w]] = NoWorker]
      /\ kv' = Keep(turned, Live(sessions, ref'))
      /\ UNCHANGED <<sessions, order, mgr, disk>>
  BY DEF EndAborted, cacheVars, turned
<1>3. QED  BY <1>0, <1>1, <1>2, TurnEnds

\* The session is gone from the map, or has no initialized state.
LEMMA SaveNothingStep ==
    ASSUME CacheInv, NEW w \in Workers, SaveNothing(w)
    PROVE  CacheInv'
<1>1. Types'
  BY Returned, KeepFacts
    DEF CacheInv, SaveNothing, Return, Goto, cacheVars, Types
<1>2. OrderInv'
  BY DEF CacheInv, SaveNothing, Return, Goto, cacheVars, OrderInv, Active
<1>3. ControlInv'
  BY ObjsAssumption, WorkersAssumption, SessionsAssumption
    DEF CacheInv, SaveNothing, Return, Goto, cacheVars, Types, ControlInv,
    LockOrder, Active, NoRequest
<1>4. LockOrder'
  BY ObjsAssumption, WorkersAssumption
    DEF CacheInv, SaveNothing, Return, Goto, cacheVars, Types, ControlInv,
    LockOrder
<1>5. StatesArePrivate'
  BY ObjsAssumption DEF CacheInv, SaveNothing, Return, Goto, cacheVars,
    Types, ControlInv, StatesArePrivate, Active, NoRequest
<1>6. OneInferencePerName'
  BY Returned DEF SaveNothing
<1>7. ActiveBounded'
  BY DEF CacheInv, SaveNothing, Return, Goto, cacheVars, ActiveBounded, Active
<1>8. FileInv'
  BY KeepFacts DEF CacheInv, SaveNothing, Return, Goto, cacheVars, Types,
    FileInv, Active, Live, Range
<1>9. QED  BY <1>1, <1>2, <1>3, <1>4, <1>5, <1>6, <1>7, <1>8 DEF CacheInv

LEMMA SaveFoundStep ==
    ASSUME CacheInv, NEW w \in Workers, SaveFound(w)
    PROVE  CacheInv'
<1>1. Types'
  BY DEF CacheInv, SaveFound, Goto, Types, Steps
<1>2. OrderInv'
  BY DEF CacheInv, SaveFound, Goto, OrderInv, Active
<1>3. ControlInv'
  BY ObjsAssumption, WorkersAssumption, SessionsAssumption
    DEF CacheInv, SaveFound, Goto, Types, ControlInv, LockOrder, Active
<1>4. LockOrder'
  BY ObjsAssumption, WorkersAssumption
    DEF CacheInv, SaveFound, Goto, Types, ControlInv, LockOrder
<1>5. StatesArePrivate'
  BY ObjsAssumption DEF CacheInv, SaveFound, Goto, Types, ControlInv,
    StatesArePrivate, Active
<1>6. OneInferencePerName'
  BY Moved DEF SaveFound
<1>7. ActiveBounded'
  BY DEF CacheInv, SaveFound, Goto, ActiveBounded, Active
<1>8. FileInv'
  BY DEF CacheInv, SaveFound, Goto, Types, FileInv, Active
<1>9. QED  BY <1>1, <1>2, <1>3, <1>4, <1>5, <1>6, <1>7, <1>8 DEF CacheInv

\* The session's file is written from the state in the map.
LEMMA SaveWriteStep ==
    ASSUME CacheInv, NEW w \in Workers, SaveWrite(w)
    PROVE  CacheInv'
<1> DEFINE s == req[w].s
<1>0. s \in Active /\ s \in Sessions /\ pc[w] = "write"
  BY DEF CacheInv, SaveWrite, Types, ControlInv, Active
<1> DEFINE o == sessions[s]
           file == [kv[o] EXCEPT !.left = FALSE]
           saved == [kv EXCEPT ![o] = file]
<1>a. /\ o \in Objs /\ file \in KV /\ file.turns \in Nat
      /\ saved \in [Objs -> KV]
      /\ \A p \in Objs : saved[p] = IF p = o THEN file ELSE kv[p]
  <2>1. o \in Objs /\ kv[o] \in KV  BY <1>0 DEF CacheInv, Types, Active
  <2>2. file \in KV  BY <2>1 DEF KV
  <2>3. file.turns \in Nat  BY <2>2, LimitAssumption DEF KV
  <2>4. QED  BY <2>1, <2>2, <2>3 DEF CacheInv, Types
<1>b. disk' = [disk EXCEPT ![s] = file] /\ kv' = Keep(saved, Live(sessions, ref'))
  BY DEF SaveWrite, Write
<1> HIDE DEF file, saved
<1>1. Types'
  <2>1. kv' \in [Objs -> KV]  BY <1>a, <1>b, KeepFacts
  <2>2. disk' \in [Sessions -> KV]  BY <1>0, <1>a, <1>b DEF CacheInv, Types
  <2>3. QED
    BY <1>0, <2>1, <2>2, Returned DEF CacheInv, SaveWrite, Return, Types
<1>2. OrderInv'
  BY DEF CacheInv, SaveWrite, Return, Goto, OrderInv, Active
<1>3. ControlInv'
  BY ObjsAssumption, WorkersAssumption, SessionsAssumption
    DEF CacheInv, SaveWrite, Return, Goto, Types, ControlInv, LockOrder,
    Active, NoRequest
<1>4. LockOrder'
  BY ObjsAssumption, WorkersAssumption
    DEF CacheInv, SaveWrite, Return, Goto, Types, ControlInv, LockOrder
<1>5. StatesArePrivate'
  BY ObjsAssumption DEF CacheInv, SaveWrite, Return, Goto, Types, ControlInv,
    StatesArePrivate, Active, NoRequest
<1>6. OneInferencePerName'
  BY Returned DEF SaveWrite
<1>7. ActiveBounded'
  BY DEF CacheInv, SaveWrite, Return, Goto, ActiveBounded, Active
<1>8. FileInv'
  <2>1. \A r \in Active : sessions[r] \in Objs /\ sessions[r] \in Live(sessions, ref')
    BY DEF CacheInv, Types, Active, Live, Range
  <2>2. \A r \in Active : kv'[sessions[r]] = saved[sessions[r]]
    BY <1>a, <1>b, <2>1, KeepFacts
  <2>3. \A r \in Sessions : disk'[r] = IF r = s THEN file ELSE disk[r]
    BY <1>0, <1>b DEF CacheInv, Types
  <2>4. sessions' = sessions /\ Active' = Active  BY DEF SaveWrite, Active
  <2>5. \A r \in Active : sessions[r] = o => r = s
    BY <1>0 DEF CacheInv, StatesArePrivate
  <2>6. QED
    BY <1>0, <1>a, <2>1, <2>2, <2>3, <2>4, <2>5 DEF CacheInv, FileInv, Active
<1>9. QED  BY <1>1, <1>2, <1>3, <1>4, <1>5, <1>6, <1>7, <1>8 DEF CacheInv

LEMMA EvictFlushStep ==
    ASSUME CacheInv, NEW w \in Workers, NEW s \in Sessions, EvictFlush(w, s)
    PROVE  CacheInv'
<1>1. Types'
  BY DEF CacheInv, EvictFlush, Goto, Types, Steps
<1>2. OrderInv'
  BY DEF CacheInv, EvictFlush, Goto, OrderInv, Active
<1>3. ControlInv'
  BY ObjsAssumption, WorkersAssumption, SessionsAssumption
    DEF CacheInv, EvictFlush, Goto, Types, ControlInv, LockOrder, Active
<1>4. LockOrder'
  BY ObjsAssumption, WorkersAssumption
    DEF CacheInv, EvictFlush, Goto, Types, ControlInv, LockOrder
<1>5. StatesArePrivate'
  BY ObjsAssumption DEF CacheInv, EvictFlush, Goto, Types, ControlInv,
    StatesArePrivate, Active
<1>6. OneInferencePerName'
  BY Moved DEF EvictFlush
<1>7. ActiveBounded'
  BY DEF CacheInv, EvictFlush, Goto, ActiveBounded, Active
<1>8. FileInv'
  BY DEF CacheInv, EvictFlush, Goto, Types, FileInv, Active
<1>9. QED  BY <1>1, <1>2, <1>3, <1>4, <1>5, <1>6, <1>7, <1>8 DEF CacheInv

\* evict(id) writes the file and erases the session.
LEMMA FlushWriteStep ==
    ASSUME CacheInv, NEW w \in Workers, FlushWrite(w)
    PROVE  CacheInv'
<1> DEFINE v == victim[w]
<1>0. v \in Active /\ v \in Sessions /\ pc[w] = "flush"
  BY DEF CacheInv, ControlInv, FlushWrite, Active
<1>a. /\ sessions' \in [Sessions -> Objs \cup {NoObj}]
      /\ \A r \in Sessions : sessions'[r] = IF r = v THEN NoObj ELSE sessions[r]
      /\ Active' = Active \ {v}
      /\ OrderInv'
      /\ ActiveBounded'
      /\ kv' \in [Objs -> KV]
      /\ \A r \in Active' : kv'[sessions'[r]] = kv[sessions[r]]
  BY <1>0, Erased DEF CacheInv, FlushWrite
<1>b. [kv[sessions[v]] EXCEPT !.left = FALSE] \in KV
  <2>1. kv[sessions[v]] \in KV  BY <1>0 DEF CacheInv, Types, Active
  <2>2. QED  BY <2>1 DEF KV
<1>1. Types'
  BY <1>0, <1>a, <1>b DEF CacheInv, FlushWrite, Write, Goto, Types, Steps
<1>2. OrderInv'  BY <1>a
<1>3. ControlInv'
  BY <1>0, <1>a, SessionsAssumption DEF CacheInv, FlushWrite, Goto, Types, ControlInv, LockOrder
<1>4. LockOrder'
  BY <1>0, WorkersAssumption DEF CacheInv, FlushWrite, Goto, workerVars, Types, ControlInv, LockOrder
<1>5. StatesArePrivate'
  BY <1>a DEF CacheInv, FlushWrite, Goto, workerVars, Types, StatesArePrivate, Active
<1>6. OneInferencePerName'
  BY Moved DEF FlushWrite
<1>7. ActiveBounded'  BY <1>a
<1>8. FileInv'
  <2>1. \A r \in Active' : disk'[r] = disk[r]
    BY <1>0, <1>a DEF CacheInv, FlushWrite, Write, Types, Active
  <2>2. QED  BY <1>a, <2>1 DEF CacheInv, FileInv
<1>9. QED  BY <1>1, <1>2, <1>3, <1>4, <1>5, <1>6, <1>7, <1>8 DEF CacheInv

\* evict(id, false) erases the session.
LEMMA EvictDropStep ==
    ASSUME CacheInv, NEW w \in Workers, NEW s \in Sessions, EvictDrop(w, s)
    PROVE  CacheInv'
<1>0. s \in Active /\ pc[w] = "idle"
  BY DEF EvictDrop
<1>a. /\ sessions' \in [Sessions -> Objs \cup {NoObj}]
      /\ \A r \in Sessions : sessions'[r] = IF r = s THEN NoObj ELSE sessions[r]
      /\ Active' = Active \ {s}
      /\ OrderInv'
      /\ ActiveBounded'
      /\ kv' \in [Objs -> KV]
      /\ \A r \in Active' : kv'[sessions'[r]] = kv[sessions[r]]
  BY <1>0, Erased DEF CacheInv, EvictDrop
<1>1. Types'
  BY <1>a DEF CacheInv, EvictDrop, workerVars, Types
<1>2. OrderInv'  BY <1>a
<1>3. ControlInv'
  BY <1>0, <1>a, WorkersAssumption DEF CacheInv, EvictDrop, workerVars, Types, ControlInv, LockOrder
<1>4. LockOrder'
  BY <1>0, WorkersAssumption DEF CacheInv, EvictDrop, Goto, workerVars, Types, ControlInv, LockOrder
<1>5. StatesArePrivate'
  BY <1>a DEF CacheInv, EvictDrop, Goto, workerVars, Types, StatesArePrivate, Active
<1>6. OneInferencePerName'
  BY DEF CacheInv, EvictDrop, workerVars, OneInferencePerName, InFlight
<1>7. ActiveBounded'  BY <1>a
<1>8. FileInv'
  BY <1>a DEF CacheInv, EvictDrop, FileInv
<1>9. QED  BY <1>1, <1>2, <1>3, <1>4, <1>5, <1>6, <1>7, <1>8 DEF CacheInv

\* clear_all empties the map; requests keep their states.
LEMMA ClearAllStep ==
    ASSUME CacheInv, NEW w \in Workers, ClearAll(w)
    PROVE  CacheInv'
<1>1. Types'
  BY KeepFacts DEF CacheInv, ClearAll, workerVars, Types, Steps
<1>2. OrderInv'
  <2>1. Active' = {}  BY DEF ClearAll, Active
  <2>2. order' = << >> /\ order' \in Seq(Sessions) /\ DOMAIN order' = {}
    BY DEF ClearAll
  <2>3. QED  BY <2>1, <2>2 DEF OrderInv, Range, IsInjective
<1>3. ControlInv'
  BY ObjsAssumption, WorkersAssumption, SessionsAssumption
    DEF CacheInv, ClearAll, workerVars, Types, ControlInv, LockOrder, Active
<1>4. LockOrder'
  BY ObjsAssumption, WorkersAssumption
    DEF CacheInv, ClearAll, workerVars, Types, ControlInv, LockOrder
<1>5. StatesArePrivate'
  BY ObjsAssumption DEF CacheInv, ClearAll, workerVars, Types, ControlInv,
    StatesArePrivate, Active
<1>6. OneInferencePerName'
  BY DEF CacheInv, ClearAll, workerVars, OneInferencePerName, InFlight
<1>7. ActiveBounded'
  <2>1. Active' = {}  BY DEF ClearAll, Active
  <2>2. QED  BY <2>1, FS_EmptySet, LimitAssumption DEF ActiveBounded
<1>8. FileInv'
  BY KeepFacts DEF CacheInv, ClearAll, workerVars, Types, FileInv, Active,
    Live, Range
<1>9. QED  BY <1>1, <1>2, <1>3, <1>4, <1>5, <1>6, <1>7, <1>8 DEF CacheInv

-----------------------------------------------------------------------------
LEMMA InitiallyInv == Init => CacheInv
<1> SUFFICES ASSUME Init PROVE CacheInv  OBVIOUS
<1>0. Active = {}  BY DEF Init, Active
<1>1. Types
  BY LimitAssumption DEF Init, Types, KV, Blank, Steps, Requests, NoRequest
<1>2. OrderInv
  <2>1. order = << >> /\ order \in Seq(Sessions) /\ DOMAIN order = {}  BY DEF Init
  <2>2. QED  BY <2>1, <1>0 DEF OrderInv, Range, IsInjective
<1>3. ControlInv /\ LockOrder
  BY WorkersAssumption, ObjsAssumption DEF Init, ControlInv, LockOrder, NoRequest
<1>4. StatesArePrivate /\ FileInv
  BY <1>0 DEF Init, StatesArePrivate, FileInv
<1>5. OneInferencePerName
  <2>1. \A n \in Names : InFlight(n) = {}
    BY WorkersAssumption DEF Init, InFlight, NoRequest
  <2>2. QED  BY <2>1, FS_EmptySet DEF Init, OneInferencePerName
<1>6. ActiveBounded  BY <1>0, FS_EmptySet, LimitAssumption DEF ActiveBounded
<1>7. QED  BY <1>1, <1>2, <1>3, <1>4, <1>5, <1>6 DEF CacheInv

LEMMA StepKeepsInv == CacheInv /\ [Next]_vars => CacheInv'
<1> SUFFICES ASSUME CacheInv, [Next]_vars PROVE CacheInv'  OBVIOUS
<1>1. CASE Next
  <2>1. PICK w \in Workers : Continue(w) \/ Call(w)  BY <1>1 DEF Next
  <2>2. CASE Continue(w)
    BY <2>2, RejectStep, NotFoundStep, RefuseStep, GetPrivateStep, GetHitStep,
       GetMissStep, EvictPickStep, SpillStep, CreateStep, BeginStep, EndStep,
       EndAbortedStep, SaveNothingStep, SaveFoundStep, SaveWriteStep, FlushWriteStep
    DEF Continue
  <2>3. CASE Call(w)
    <3>1. ASSUME NEW a \in Asks, Request(w, a[1], a[2]) PROVE CacheInv'
      <4>1. a[1] \in Sessions \cup {NoSession} /\ a[2] \in Names  BY AsksAssumption
      <4>2. QED  BY <3>1, <4>1, RequestStep
    <3>2. QED  BY <2>3, <3>1, EvictFlushStep, EvictDropStep, ClearAllStep DEF Call
  <2>4. QED  BY <2>1, <2>2, <2>3
<1>2. CASE UNCHANGED vars
  <2>1. Active' = Active /\ \A n \in Names : InFlight(n)' = InFlight(n)
    BY <1>2 DEF vars, cacheVars, workerVars, Active, InFlight
  <2>2. Types' /\ OrderInv' /\ ControlInv' /\ LockOrder'
    BY <1>2, <2>1 DEF vars, cacheVars, workerVars, CacheInv, Types, OrderInv,
       ControlInv, LockOrder
  <2>3. StatesArePrivate' /\ OneInferencePerName' /\ ActiveBounded' /\ FileInv'
    BY <1>2, <2>1 DEF vars, cacheVars, workerVars, CacheInv, StatesArePrivate,
       OneInferencePerName, ActiveBounded, FileInv
  <2>4. QED  BY <2>2, <2>3 DEF CacheInv
<1>3. QED  BY <1>1, <1>2

\* CacheInv is an invariant of the session cache and its callers.
THEOREM Inductive == Spec => []CacheInv
BY InitiallyInv, StepKeepsInv, PTL DEF Spec

\* Every field holds what its type can hold, and the order by last_accessed_ms
\* lists the sessions of the map once each.
THEOREM TypeCorrect == Spec => []TypeOK
<1>1. CacheInv => TypeOK  BY DEF CacheInv, Types, OrderInv, TypeOK
<1>2. QED  BY <1>1, Inductive, PTL

\* However many requests run and whatever they wait for, get_or_create leaves at
\* most max_active_sessions_ states in the map.
THEOREM Bounded == Spec => []ActiveBounded
<1>1. CacheInv => ActiveBounded  BY DEF CacheInv
<1>2. QED  BY <1>1, Inductive, PTL

\* The trackers count the requests of each model name, and at most one of them
\* is past its tracker.
THEOREM OneInference == Spec => []OneInferencePerName
<1>1. CacheInv => OneInferencePerName  BY DEF CacheInv
<1>2. QED  BY <1>1, Inductive, PTL

\* No state is seen from two sessions, not even one that eviction has taken out
\* of the map under a running request.
THEOREM PrivateStates == Spec => []StatesArePrivate
<1>1. CacheInv => StatesArePrivate  BY DEF CacheInv
<1>2. QED  BY <1>1, Inductive, PTL

\* A state_mutex is waited for with mutex_ held and never the other way round.
THEOREM LocksInOrder == Spec => []LockOrder
<1>1. CacheInv => LockOrder  BY DEF CacheInv
<1>2. QED  BY <1>1, Inductive, PTL

\* The three places that write a session's file write the state in the map, which
\* contains every turn the file has unless it has given some up: a checkpoint loses
\* turns of an earlier one only if the file was discarded for another model or a
\* turn has begun on fewer.
THEOREM CheckpointsKeepTurns == Spec => CheckpointKeepsTurns
<1>1. CacheInv /\ [Next]_vars
          => [\A s \in Sessions : disk'[s].turns < disk[s].turns
                  => s \in Active /\ kv[sessions[s]].left]_vars
  <2> SUFFICES ASSUME CacheInv, Next, NEW s \in Sessions,
                      disk'[s].turns < disk[s].turns
               PROVE  s \in Active /\ kv[sessions[s]].left
    BY DEF vars
  <2>1. PICK w \in Workers : Continue(w) \/ Call(w)  BY DEF Next
  <2>2. disk[s].turns \in Nat  BY LimitAssumption DEF CacheInv, Types, KV
  <2>3. ASSUME NEW r \in Active, Write(r) PROVE s \in Active /\ kv[sessions[s]].left
    <3>1. s = r /\ disk'[s].turns = kv[sessions[s]].turns
      <4>1. r \in Sessions /\ kv[sessions[r]] \in KV  BY DEF CacheInv, Types, Active
      <4>2. disk'[s] = IF s = r THEN [kv[sessions[r]] EXCEPT !.left = FALSE] ELSE disk[s]
        BY <2>3 DEF CacheInv, Types, Write
      <4>3. QED  BY <4>1, <4>2, <2>2 DEF KV
    <3>2. kv[sessions[s]].turns \in Nat
      BY <3>1, LimitAssumption DEF CacheInv, Types, KV, Active
    <3>3. QED  BY <3>1, <3>2, <2>2 DEF CacheInv, FileInv
  <2>4. CASE Spill(w) \/ FlushWrite(w)
    <3>1. victim[w] \in Active /\ Write(victim[w])
      BY <2>4 DEF CacheInv, ControlInv, Spill, FlushWrite
    <3>2. QED  BY <3>1, <2>3
  <2>5. CASE SaveWrite(w)
    <3>1. req[w].s \in Active /\ Write(req[w].s)
      BY <2>5 DEF CacheInv, ControlInv, SaveWrite
    <3>2. QED  BY <3>1, <2>3
  <2>6. CASE Reject(w) \/ NotFound(w) \/ Refuse(w) \/ GetPrivate(w) \/ GetHit(w)
          \/ GetMiss(w) \/ EvictPick(w) \/ Create(w) \/ Begin(w) \/ End(w)
          \/ EndAborted(w) \/ SaveNothing(w) \/ SaveFound(w) \/ Call(w)
    <3>1. disk' = disk
      BY <2>6 DEF Reject, NotFound, Refuse, GetPrivate, GetHit, GetMiss, EvictPick,
         Create, Begin, End, EndAborted, SaveNothing, SaveFound, Call, Request,
         EvictFlush, EvictDrop, ClearAll
    <3>2. QED  BY <3>1, <2>2
  <2>7. QED  BY <2>1, <2>4, <2>5, <2>6 DEF Continue
<1>2. QED  BY <1>1, Inductive, PTL DEF Spec, CheckpointKeepsTurns
=============================================================================
