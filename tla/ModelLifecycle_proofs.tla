----------------------- MODULE ModelLifecycle_proofs -----------------------
(***************************************************************************)
(* Proofs about memory.  ModelLifecycle: leases, entries and the account   *)
(* of the device agree, for every finite set of threads and models and     *)
(* every device size.  ResourceBudget: the start-up loader, the plans and  *)
(* the K/V rows of requests stay within the host's ceiling, for every      *)
(* host, registry and request.  Both count bytes with sums over functions, *)
(* whose lemmas come first.                                                *)
(***************************************************************************)
EXTENDS ModelLifecycle, ResourceBudget, FiniteSetTheorems, WellFoundedInduction, TLAPS

(***************************************************************************)
(* Sums.                                                                   *)
(***************************************************************************)

\* Some member of a set, the one the fold takes first.
First(s) == CHOOSE x \in s : TRUE

\* The partial sums of f over the subsets of I, as the fold computes them.
Partial(f, I, it) ==
    it = [s \in SUBSET I |-> IF s = {} THEN 0 ELSE f[First(s)] + it[s \ {First(s)}]]

\* What sums of naturals are.
Summed(f, I, it) ==
    /\ it[{}] = 0
    /\ \A s \in SUBSET I : it[s] \in Nat
    /\ \A s \in SUBSET I : \A x \in s : it[s] = f[x] + it[s \ {x}]

\* A nonempty set of naturals has a least element.
LEMMA LeastNatural ==
    ASSUME NEW T \in SUBSET Nat, T # {}
    PROVE  \E x \in T : \A y \in T : x <= y
<1>1. PICK x \in T : \A y \in T : ~ (<<y, x>> \in OpToRel(<, Nat))
  BY NatLessThanWellFounded, WFMin
<1>2. \A y \in T : ~(y < x)  BY <1>1 DEF OpToRel
<1>3. QED  BY <1>2

\* What holds of the empty set, and of a set if it does without its first member,
\* holds of all finite sets: G are the subsets it holds of.
LEMMA SubsetInduction ==
    ASSUME NEW I, IsFiniteSet(I), NEW G,
           \A s \in SUBSET I :
               (s # {} => \A x \in s : s \ {x} \in G) => s \in G
    PROVE  \A s \in SUBSET I : s \in G
<1> DEFINE T == {Cardinality(s) : s \in {t \in SUBSET I : t \notin G}}
<1>1. \A s \in SUBSET I : IsFiniteSet(s) /\ Cardinality(s) \in Nat
  BY FS_Subset, FS_CardinalityType
<1>2. SUFFICES ASSUME T # {} PROVE FALSE  OBVIOUS
<1>3. PICK n \in T : \A m \in T : n <= m
  <2>1. T \in SUBSET Nat  BY <1>1
  <2>2. QED  BY <1>2, <2>1, LeastNatural
<1>4. PICK s \in SUBSET I : s \notin G /\ n = Cardinality(s)  BY <1>3
<1>5. ASSUME NEW x \in s PROVE s \ {x} \in G
  <2>1. s \ {x} \in SUBSET I /\ Cardinality(s \ {x}) = Cardinality(s) - 1
    BY <1>1, FS_RemoveElement
  <2>2. ~(Cardinality(s) <= Cardinality(s) - 1)  BY <1>1
  <2>3. Cardinality(s \ {x}) \notin T  BY <1>3, <1>4, <2>1, <2>2
  <2>4. s \ {x} \notin G => Cardinality(s \ {x}) \in T  BY <2>1
  <2>5. QED  BY <2>3, <2>4
<1>6. QED  BY <1>4, <1>5

\* The recursion of the fold has a solution.
LEMMA PartialExists ==
    ASSUME NEW I, IsFiniteSet(I), NEW f
    PROVE  \E it : Partial(f, I, it)
<1> DEFINE D(n) == {s \in SUBSET I : Cardinality(s) <= n}
           Eq(g, n) == g = [s \in D(n) |-> IF s = {} THEN 0
                                           ELSE f[First(s)] + g[s \ {First(s)}]]
           T == {n \in Nat : ~ \E g : Eq(g, n)}
<1>1. \A s \in SUBSET I : IsFiniteSet(s) /\ Cardinality(s) \in Nat
  BY FS_Subset, FS_CardinalityType
<1>2. T = {}
  <2>1. SUFFICES ASSUME T # {} PROVE FALSE  OBVIOUS
  <2>2. PICK n \in T : \A m \in T : n <= m
    <3>1. T \in SUBSET Nat  OBVIOUS
    <3>2. QED  BY <2>1, <3>1, LeastNatural
  <2>3. CASE n = 0
    <3> DEFINE g == [s \in D(0) |-> 0]
    <3>1. \A s \in D(0) : s = {}
      <4> TAKE s \in D(0)
      <4>1. s \in SUBSET I /\ Cardinality(s) <= 0  OBVIOUS
      <4>2. Cardinality(s) = 0  BY <4>1, <1>1
      <4>3. QED  BY <4>1, <4>2, <1>1, FS_EmptySet
    <3>2. Eq(g, 0)  BY <3>1
    <3>3. QED  BY <2>3, <3>2
  <2>4. CASE n # 0
    <3>1. n \in Nat /\ n - 1 \in Nat /\ ~(n <= n - 1)  BY <2>4
    <3>2. PICK g : Eq(g, n - 1)  BY <2>2, <3>1
    <3> DEFINE h == [s \in D(n) |-> IF s = {} THEN 0
                                    ELSE f[First(s)] + g[s \ {First(s)}]]
    <3>3. ASSUME NEW s \in D(n - 1) PROVE s \in D(n) /\ h[s] = g[s]
      <4>1. s \in SUBSET I /\ Cardinality(s) <= n - 1  OBVIOUS
      <4>2. s \in D(n)  BY <4>1, <1>1, <3>1
      <4>3. g[s] = IF s = {} THEN 0 ELSE f[First(s)] + g[s \ {First(s)}]  BY <3>2
      <4>4. QED  BY <4>2, <4>3
    <3>4. ASSUME NEW s \in D(n), s # {} PROVE s \ {First(s)} \in D(n - 1)
      <4>1. s \in SUBSET I /\ Cardinality(s) <= n /\ First(s) \in s  BY <3>4 DEF First
      <4>2. Cardinality(s \ {First(s)}) = Cardinality(s) - 1
        BY <4>1, <1>1, FS_RemoveElement
      <4>3. QED  BY <4>1, <4>2, <1>1, <3>1
    <3>5. h = [s \in D(n) |-> IF s = {} THEN 0 ELSE f[First(s)] + h[s \ {First(s)}]]
      <4> HIDE DEF D, h
      <4>1. \A s \in D(n) : s # {} => h[s \ {First(s)}] = g[s \ {First(s)}]
        BY <3>3, <3>4
      <4>2. QED  BY <4>1 DEF h
    <3>6. QED  BY <3>5, <2>2
  <2>5. QED  BY <2>3, <2>4
<1>3. Cardinality(I) \in Nat /\ D(Cardinality(I)) = SUBSET I
  <2>1. \A s \in SUBSET I : Cardinality(s) <= Cardinality(I)  BY FS_Subset
  <2>2. QED  BY <2>1, <1>1
<1>4. PICK g : Eq(g, Cardinality(I))  BY <1>2, <1>3
<1>5. QED  BY <1>3, <1>4 DEF Partial

LEMMA SumIsPartial ==
    ASSUME NEW I, IsFiniteSet(I), NEW f
    PROVE  \E it : Partial(f, I, it) /\ SumFunctionOnSet(f, I) = it[I]
<1> DEFINE it == CHOOSE g : Partial(f, I, g)
<1>1. Partial(f, I, it)  BY PartialExists
<1>2. SumFunctionOnSet(f, I) = it[I]
  BY DEF SumFunctionOnSet, FoldFunctionOnSet, MapThenFoldSet, Partial, First
<1>3. QED  BY <1>1, <1>2

\* Sums of naturals are naturals, and it does not matter which member is taken
\* first.
LEMMA PartialFacts ==
    ASSUME NEW I, IsFiniteSet(I), NEW f, \A x \in I : f[x] \in Nat,
           NEW it, Partial(f, I, it)
    PROVE  Summed(f, I, it)
<1>1. \A s \in SUBSET I :
          it[s] = IF s = {} THEN 0 ELSE f[First(s)] + it[s \ {First(s)}]
  BY DEF Partial
<1>2. \A s \in SUBSET I : s # {} => First(s) \in s  BY DEF First
<1> DEFINE G == {s \in SUBSET I : it[s] \in Nat}
           H == {s \in SUBSET I : \A x \in s : it[s] = f[x] + it[s \ {x}]}
<1>3. \A s \in SUBSET I : s \in G
  <2>1. ASSUME NEW s \in SUBSET I, s # {} => \A x \in s : s \ {x} \in G
        PROVE  s \in G
    <3>1. CASE s = {}
      <4>1. it[s] = 0  BY <1>1, <3>1
      <4>2. QED  BY <4>1
    <3>2. CASE s # {}
      <4>1. First(s) \in s /\ f[First(s)] \in Nat  BY <1>2, <3>2
      <4>2. it[s \ {First(s)}] \in Nat  BY <2>1, <3>2, <4>1
      <4>3. it[s] \in Nat  BY <1>1, <3>2, <4>1, <4>2
      <4>4. QED  BY <4>3
    <3>3. QED  BY <3>1, <3>2
  <2> HIDE DEF G
  <2>2. QED  BY <2>1, SubsetInduction
<1>4. \A s \in SUBSET I : s \in H
  <2>1. ASSUME NEW s \in SUBSET I, s # {} => \A x \in s : s \ {x} \in H,
               NEW x \in s
        PROVE  it[s] = f[x] + it[s \ {x}]
    <3> DEFINE c == First(s)
    <3>1. c \in s /\ it[s] = f[c] + it[s \ {c}]  BY <1>1, <1>2
    <3> HIDE DEF c
    <3>2. CASE x = c  BY <3>1, <3>2
    <3>3. CASE x # c
      <4>1. s \ {c} \in H /\ s \ {x} \in H /\ x \in s \ {c} /\ c \in s \ {x}
        BY <2>1, <3>1, <3>3
      <4>2. it[s \ {c}] = f[x] + it[(s \ {c}) \ {x}]  BY <4>1
      <4>3. it[s \ {x}] = f[c] + it[(s \ {x}) \ {c}]  BY <4>1
      <4>4. (s \ {c}) \ {x} = (s \ {x}) \ {c}  OBVIOUS
      <4>5. (s \ {x}) \ {c} \in SUBSET I  OBVIOUS
      <4>6. f[x] \in Nat /\ f[c] \in Nat /\ it[(s \ {x}) \ {c}] \in Nat
        BY <3>1, <4>5, <1>3
      <4>7. PICK r \in Nat, p \in Nat, q \in Nat :
                r = it[(s \ {x}) \ {c}] /\ p = f[x] /\ q = f[c]
        BY <4>6, Zenon
      <4>8. it[s] = q + (p + r) /\ it[s \ {x}] = q + r
        BY <3>1, <4>2, <4>3, <4>4, <4>7
      <4>9. QED  BY <4>7, <4>8
    <3>4. QED  BY <3>2, <3>3
  <2>2. ASSUME NEW s \in SUBSET I, s # {} => \A x \in s : s \ {x} \in H
        PROVE  s \in H
    BY <2>1, <2>2
  <2> HIDE DEF H
  <2>3. QED  BY <2>2, SubsetInduction
<1>5. it[{}] = 0  BY <1>1
<1>6. QED  BY <1>3, <1>4, <1>5 DEF Summed

\* The sum of a function over a finite set, one value changed at a time.
LEMMA SumFacts ==
    ASSUME NEW I, IsFiniteSet(I), NEW f, \A x \in I : f[x] \in Nat
    PROVE  /\ SumFunctionOnSet(f, I) \in Nat
           /\ (\A x \in I : f[x] = 0) => SumFunctionOnSet(f, I) = 0
           /\ \A x \in I : f[x] <= SumFunctionOnSet(f, I)
<1>1. PICK it : Partial(f, I, it) /\ SumFunctionOnSet(f, I) = it[I]  BY SumIsPartial
<1>2. Summed(f, I, it)  BY <1>1, PartialFacts
<1>3. ASSUME \A x \in I : f[x] = 0 PROVE it[I] = 0
  <2> DEFINE G == {s \in SUBSET I : it[s] = 0}
  <2>1. ASSUME NEW s \in SUBSET I, s # {} => \A x \in s : s \ {x} \in G
        PROVE  s \in G
    <3>1. CASE s = {}  BY <1>2, <3>1 DEF Summed
    <3>2. CASE s # {}
      <4>1. PICK x \in s : TRUE  BY <3>2
      <4>2. it[s] = f[x] + it[s \ {x}] /\ it[s \ {x}] = 0 /\ f[x] = 0
        BY <1>2, <1>3, <2>1, <4>1, <3>2 DEF Summed
      <4>3. QED  BY <4>2
    <3>3. QED  BY <3>1, <3>2
  <2>2. \A s \in SUBSET I : s \in G
    <3> HIDE DEF G
    <3>1. QED  BY <2>1, SubsetInduction
  <2>3. QED  BY <2>2
<1>4. ASSUME NEW x \in I PROVE f[x] <= it[I]
  <2>1. it[I] = f[x] + it[I \ {x}] /\ it[I \ {x}] \in Nat  BY <1>2 DEF Summed
  <2>2. QED  BY <2>1
<1>5. QED  BY <1>1, <1>2, <1>3, <1>4 DEF Summed

LEMMA SumChanges ==
    ASSUME NEW I, IsFiniteSet(I), NEW f, \A x \in I : f[x] \in Nat,
           NEW g, \A x \in I : g[x] \in Nat,
           NEW a \in I, \A x \in I \ {a} : g[x] = f[x]
    PROVE  SumFunctionOnSet(g, I) + f[a] = SumFunctionOnSet(f, I) + g[a]
<1>1. PICK i : Partial(f, I, i) /\ SumFunctionOnSet(f, I) = i[I]  BY SumIsPartial
<1>2. PICK j : Partial(g, I, j) /\ SumFunctionOnSet(g, I) = j[I]  BY SumIsPartial
<1>3. Summed(f, I, i)  BY <1>1, PartialFacts
<1>4. Summed(g, I, j)  BY <1>2, PartialFacts
<1> DEFINE G == {s \in SUBSET I : a \notin s => i[s] = j[s]}
<1>5. ASSUME NEW s \in SUBSET I, s # {} => \A x \in s : s \ {x} \in G
      PROVE  s \in G
  <2>1. CASE s = {}  BY <2>1, <1>3, <1>4 DEF Summed
  <2>2. CASE s # {} /\ a \notin s
    <3>1. PICK x \in s : TRUE  BY <2>2
    <3>2. i[s \ {x}] = j[s \ {x}] /\ f[x] = g[x]  BY <1>5, <2>2, <3>1
    <3>3. i[s] = f[x] + i[s \ {x}] /\ j[s] = g[x] + j[s \ {x}]  BY <1>3, <1>4, <3>1 DEF Summed
    <3>4. QED  BY <3>2, <3>3
  <2>3. CASE a \in s  BY <2>3
  <2>4. QED  BY <2>1, <2>2, <2>3
<1>6. \A s \in SUBSET I : s \in G
  <2> HIDE DEF G
  <2>1. QED  BY <1>5, SubsetInduction
<1>7. i[I \ {a}] = j[I \ {a}]  BY <1>6
<1>8. /\ i[I] = f[a] + i[I \ {a}] /\ j[I] = g[a] + j[I \ {a}]
      /\ i[I \ {a}] \in Nat /\ f[a] \in Nat /\ g[a] \in Nat
  BY <1>3, <1>4 DEF Summed
<1>9. QED  BY <1>1, <1>2, <1>7, <1>8

\* A thread between lock and unlock of manager_mutex_ owns it.
MutexOwned ==
    \A t \in Threads :
        pc[t] \in {"load_file", "load_add", "unload_remove", "unload_free",
                   "budget_unload"} => mutex = t

\* The model a load is about to add is not in the pool.
LoadingIsAbsent ==
    \A t \in Threads :
        pc[t] \in {"load_file", "load_add"} =>
            job[t] \in Models /\ job[t] \notin resident

\* The temporary of acquire carries a lease only until it is assigned.
ReturnSlotFree ==
    \A t \in Threads : pc[t] # "assign" => lease[<<t, "ret">>] = NoModel

LeaseInv ==
    /\ TypeOK
    /\ MutexOwned
    /\ LoadingIsAbsent
    /\ ReturnSlotFree
    /\ UsersCountLeases
    /\ LeasedIsResident

-----------------------------------------------------------------------------
\* The lease slots are finite, so leases can be counted.
LEMMA SlotsFinite == IsFiniteSet(Slots)
<1>1. IsFiniteSet({"held"})  BY FS_Singleton
<1>2. IsFiniteSet({"held"} \cup {"ret"})  BY <1>1, FS_AddElement
<1>3. {"held"} \cup {"ret"} = {"held", "ret"}  OBVIOUS
<1>4. IsFiniteSet({"held", "ret"})  BY <1>2, <1>3
<1>5. QED  BY <1>4, FS_Product, ThreadsAssumption DEF Slots

\* What it takes to keep count: a slot set that gains, loses or keeps a slot.
LEMMA CountSlots ==
    ASSUME NEW S \in SUBSET Slots
    PROVE  /\ Cardinality(S) \in Nat
           /\ \A s : s \notin S => Cardinality(S \cup {s}) = Cardinality(S) + 1
           /\ \A s : s \in S => Cardinality(S \ {s}) = Cardinality(S) - 1
           /\ \A s, r : s \in S /\ r \notin S
                 => Cardinality((S \ {s}) \cup {r}) = Cardinality(S)
<1>1. IsFiniteSet(S)  BY SlotsFinite, FS_Subset
<1>2. Cardinality(S) \in Nat  BY <1>1, FS_CardinalityType
<1>3. ASSUME NEW s, s \notin S
      PROVE  Cardinality(S \cup {s}) = Cardinality(S) + 1
  BY <1>1, <1>3, FS_AddElement
<1>4. ASSUME NEW s, s \in S
      PROVE  IsFiniteSet(S \ {s}) /\ Cardinality(S \ {s}) = Cardinality(S) - 1
  BY <1>1, <1>4, FS_RemoveElement
<1>5. ASSUME NEW s, NEW r, s \in S, r \notin S
      PROVE  Cardinality((S \ {s}) \cup {r}) = Cardinality(S)
  <2>1. IsFiniteSet(S \ {s}) /\ Cardinality(S \ {s}) = Cardinality(S) - 1
    BY <1>4, <1>5
  <2>2. r \notin S \ {s}  BY <1>5
  <2>3. Cardinality((S \ {s}) \cup {r}) = Cardinality(S \ {s}) + 1
    BY <2>1, <2>2, FS_AddElement
  <2>4. QED  BY <1>2, <2>1, <2>3
<1>6. QED  BY <1>2, <1>3, <1>4, <1>5

-----------------------------------------------------------------------------
\* The bookkeeping of calls keeps its types.
LEMMA CallSteps ==
    ASSUME CallType, NEW t \in Threads, NEW step \in Steps
    PROVE  /\ Proceed(t, step) => CallType'
           /\ Leave(t, step) => CallType'
           /\ \A ok \in BOOLEAN : LoadReturn(t, ok) => CallType'
           /\ \A who \in {"acquire", "load"}, m \in Models :
                 Enter(t, step, who, m) => CallType'
<1> USE DEF CallType, Goto, Locals, NoLocal, callVars
<1>1. ASSUME NEW s \in Steps, Proceed(t, s) PROVE CallType'
  BY <1>1 DEF Proceed
<1>2. ASSUME NEW s \in Steps, Leave(t, s) PROVE CallType'
  BY <1>2 DEF Leave
<1>3. ASSUME NEW ok \in BOOLEAN, LoadReturn(t, ok) PROVE CallType'
  <2>1. {"idle", "retry", "assign"} \subseteq Steps  BY DEF Steps
  <2>2. QED  BY <1>1, <1>2, <1>3, <2>1 DEF LoadReturn
<1>4. ASSUME NEW who \in {"acquire", "load"}, NEW m \in Models,
             Enter(t, step, who, m)
      PROVE  CallType'
  BY <1>4 DEF Enter
<1>5. QED  BY <1>1, <1>2, <1>3, <1>4

\* The critical sections of the pool keep its types.
LEMMA EntrySteps ==
    ASSUME EntryType, LeaseType,
           NEW m \in Models \cup {NoModel}
    PROVE  /\ release_lease(m) => EntryType'
           /\ remove_model(m) => EntryType'
           /\ \A s \in Slots : acquire_lease(s, m) =>
                 EntryType' /\ LeaseType'
           /\ \A place \in BOOLEAN, bytes \in Nat :
                 m \in Models /\ add_model(m, place, bytes) => EntryType'
<1> USE DEF EntryType, LeaseType, entryVars
<1>1. ASSUME release_lease(m) PROVE EntryType'
  <2>1. CASE m \in resident
    <3>1. /\ users' = [users EXCEPT ![m] = @ - 1]
          /\ stale' = [stale EXCEPT ![m] = FALSE]
          /\ UNCHANGED <<resident, onGpu, memory>>
      BY <1>1, <2>1 DEF release_lease
    <3>2. QED  BY <2>1, <3>1
  <2>2. CASE m \notin resident
    <3>1. UNCHANGED <<resident, users, onGpu, memory, stale>>
      BY <1>1, <2>2 DEF release_lease
    <3>2. QED  BY <3>1
  <2>3. QED  BY <2>1, <2>2
<1>2. remove_model(m) => EntryType'  BY DEF remove_model, can_remove
<1>3. ASSUME NEW s \in Slots, acquire_lease(s, m)
      PROVE  EntryType' /\ LeaseType'
  BY <1>3 DEF acquire_lease
<1>4. ASSUME NEW place \in BOOLEAN, NEW bytes \in Nat, m \in Models,
             add_model(m, place, bytes)
      PROVE  EntryType'
  BY <1>4 DEF add_model
<1>5. QED  BY <1>1, <1>2, <1>3, <1>4

\* Every step keeps the types; only LoadAdd needs more than the types, that the
\* model it adds is one.
LEMMA TypeStep ==
    ASSUME TypeOK, LoadingIsAbsent, [Next]_vars
    PROVE  TypeOK'
<1>0. /\ EntryType /\ LeaseType /\ CallType
      /\ allocated \in Nat /\ mutex \in Threads \cup {NoThread}
      /\ \A t \in Threads : <<t, "held">> \in Slots /\ <<t, "ret">> \in Slots
  BY DEF TypeOK, Slots
<1> USE DEF Steps
<1>1. ASSUME NEW t \in Threads, NEW m \in Models, AcquireHit(t, m)
      PROVE  TypeOK'
  BY <1>0, <1>1, CallSteps, EntrySteps DEF AcquireHit, TypeOK
<1>2. ASSUME NEW t \in Threads, NEW m \in Models,
             AcquireMiss(t, m) \/ LoadCall(t, m) \/ UnloadCall(t, m)
      PROVE  TypeOK'
  <2>1. CallType'
    BY <1>0, <1>2, CallSteps DEF AcquireMiss, LoadCall, UnloadCall
  <2>2. UNCHANGED <<entryVars, lease, allocated, mutex>>
    BY <1>2 DEF AcquireMiss, LoadCall, UnloadCall
  <2>3. QED  BY <1>0, <2>1, <2>2 DEF TypeOK, EntryType, LeaseType, entryVars
<1>3. ASSUME NEW t \in Threads, AcquireRetry(t)
      PROVE  TypeOK'
  <2>1. CallType'  BY <1>0, <1>3, CallSteps DEF AcquireRetry
  <2>2. EntryType' /\ LeaseType'
    <3>1. CASE acquire_lease(<<t, "ret">>, job[t])
      BY <1>0, <3>1, EntrySteps DEF CallType
    <3>2. CASE UNCHANGED <<entryVars, lease>>
      BY <1>0, <3>2 DEF EntryType, LeaseType, entryVars
    <3>3. QED  BY <1>3, <3>1, <3>2 DEF AcquireRetry
  <2>3. QED  BY <1>0, <1>3, <2>1, <2>2 DEF AcquireRetry, TypeOK
<1>4. ASSUME NEW t \in Threads, AssignLease(t) \/ DropLease(t)
      PROVE  TypeOK'
  <2>1. lease[<<t, "held">>] \in Models \cup {NoModel}
        /\ lease[<<t, "ret">>] \in Models \cup {NoModel}
    BY <1>0 DEF LeaseType
  <2>2. EntryType'
    BY <1>0, <1>4, <2>1, EntrySteps DEF AssignLease, DropLease
  <2>3. LeaseType'
    BY <1>0, <1>4, <2>1 DEF AssignLease, DropLease, LeaseType
  <2>4. CallType'
    BY <1>0, <1>4, CallSteps DEF AssignLease, DropLease, CallType, callVars
  <2>5. QED
    BY <1>0, <1>4, <2>2, <2>3, <2>4 DEF AssignLease, DropLease, TypeOK
<1>5. ASSUME NEW t \in Threads, LoadResident(t) \/ LoadUnregistered(t) \/ LoadFileFails(t)
      PROVE  TypeOK'
  <2>1. CallType'
    BY <1>0, <1>5, CallSteps DEF LoadResident, LoadUnregistered, LoadFileFails
  <2>2. /\ UNCHANGED <<entryVars, lease, allocated>>
        /\ mutex' \in {mutex, NoThread}
    BY <1>5 DEF LoadResident, LoadUnregistered, LoadFileFails
  <2>3. QED  BY <1>0, <2>1, <2>2 DEF TypeOK, EntryType, LeaseType, entryVars
<1>6. ASSUME NEW t \in Threads, LoadStub(t)
      PROVE  TypeOK'
  <2>1. CallType'  BY <1>0, <1>6, CallSteps DEF LoadStub
  <2>2. EntryType'
    BY <1>0, <1>6, EntrySteps, ModelsAssumption DEF LoadStub
  <2>3. QED  BY <1>0, <1>6, <2>1, <2>2 DEF LoadStub, TypeOK, LeaseType
<1>7. ASSUME NEW t \in Threads, LoadAdmit(t)
      PROVE  TypeOK'
  <2>1. [gpu |-> job[t] \in GpuPreferred /\ can_admit(Bytes[job[t]]),
         bytes |-> Bytes[job[t]]] \in Locals
    BY <1>0, <1>7, ModelsAssumption, DeviceAssumption
    DEF LoadAdmit, Locals, can_admit
  <2>2. CallType'
    BY <1>0, <1>7, <2>1 DEF LoadAdmit, CallType, Goto
  <2>3. QED
    BY <1>0, <1>7, <2>2 DEF LoadAdmit, TypeOK, EntryType, LeaseType, entryVars
<1>8. ASSUME NEW t \in Threads, LoadAllocate(t)
      PROVE  TypeOK'
  <2>1. CallType'  BY <1>0, <1>8, CallSteps DEF LoadAllocate
  <2>2. allocated' \in Nat
    BY <1>0, <1>8 DEF LoadAllocate, allocate, CallType, Locals
  <2>3. QED
    BY <1>0, <1>8, <2>1, <2>2 DEF LoadAllocate, TypeOK, EntryType, LeaseType, entryVars
<1>9. ASSUME NEW t \in Threads, LoadAdd(t)
      PROVE  TypeOK'
  <2>1. CallType'  BY <1>0, <1>9, CallSteps DEF LoadAdd
  <2>2. job[t] \in Models /\ local[t].gpu \in BOOLEAN /\ local[t].bytes \in Nat
    BY <1>0, <1>9 DEF LoadAdd, LoadingIsAbsent, CallType, Locals
  <2>3. EntryType'  BY <1>0, <1>9, <2>2, EntrySteps DEF LoadAdd
  <2>4. QED  BY <1>0, <1>9, <2>1, <2>3 DEF LoadAdd, TypeOK, LeaseType
<1>10. ASSUME NEW t \in Threads, UnloadInUse(t) \/ UnloadRefused(t)
       PROVE  TypeOK'
  <2>1. CallType'
    BY <1>0, <1>10, CallSteps DEF UnloadInUse, UnloadRefused
  <2>2. /\ UNCHANGED <<entryVars, lease, allocated>>
        /\ mutex' \in {mutex, NoThread}
    BY <1>10 DEF UnloadInUse, UnloadRefused
  <2>3. QED  BY <1>0, <2>1, <2>2 DEF TypeOK, EntryType, LeaseType, entryVars
<1>11. ASSUME NEW t \in Threads, UnloadChecked(t)
       PROVE  TypeOK'
  <2>1. local'[t] \in Locals /\ local' = [local EXCEPT ![t] = local'[t]]
    BY <1>0, <1>11 DEF UnloadChecked, EntryType, CallType, Locals, NoLocal
  <2>2. CallType'
    BY <1>0, <1>11, <2>1 DEF UnloadChecked, CallType, Goto
  <2>3. QED
    BY <1>0, <1>11, <2>2 DEF UnloadChecked, TypeOK, EntryType, LeaseType, entryVars
<1>12. ASSUME NEW t \in Threads, UnloadRemove(t)
       PROVE  TypeOK'
  <2>1. CallType'  BY <1>0, <1>12, CallSteps DEF UnloadRemove
  <2>2. EntryType'  BY <1>0, <1>12, EntrySteps DEF UnloadRemove, CallType
  <2>3. QED  BY <1>0, <1>12, <2>1, <2>2 DEF UnloadRemove, TypeOK, LeaseType
<1>13. ASSUME NEW t \in Threads, UnloadFree(t)
       PROVE  TypeOK'
  <2>1. CallType'  BY <1>0, <1>13, CallSteps DEF UnloadFree
  <2>2. allocated' \in Nat
    BY <1>0, <1>13 DEF UnloadFree, release, CallType, Locals
  <2>3. QED
    BY <1>0, <1>13, <2>1, <2>2 DEF UnloadFree, TypeOK, EntryType, LeaseType, entryVars
<1>14. ASSUME NEW t \in Threads, EnforceBudget(t)
       PROVE  TypeOK'
  BY <1>0, <1>14
  DEF EnforceBudget, Goto, TypeOK, EntryType, LeaseType, CallType, entryVars, callVars
<1>15. ASSUME NEW m \in Models, IdleTimeout(m)
       PROVE  TypeOK'
  BY <1>0, <1>15
  DEF IdleTimeout, TypeOK, EntryType, LeaseType, CallType, callVars
<1>16. CASE UNCHANGED vars
  BY <1>0, <1>16 DEF vars, TypeOK, EntryType, LeaseType, CallType, entryVars, callVars
<1>17. QED
  BY <1>1, <1>2, <1>3, <1>4, <1>5, <1>6, <1>7, <1>8, <1>9, <1>10, <1>11,
     <1>12, <1>13, <1>14, <1>15, <1>16
  DEF Next, Continue, Call

-----------------------------------------------------------------------------
\* What an action does to the mutex and to the loads in flight.
LEMMA MutexStep ==
    ASSUME TypeOK, MutexOwned, LoadingIsAbsent, [Next]_vars
    PROVE  MutexOwned' /\ LoadingIsAbsent'
<1> USE DEF MutexOwned, LoadingIsAbsent, Goto
<1>0. /\ pc \in [Threads -> Steps] /\ job \in [Threads -> Models \cup {NoModel}]
      /\ by \in [Threads -> {"acquire", "load"}]
      /\ NoThread \notin Threads
  BY ThreadsAssumption DEF TypeOK, CallType
<1>1. ASSUME NEW t \in Threads, NEW m \in Models, AcquireHit(t, m)
      PROVE  MutexOwned' /\ LoadingIsAbsent'
  BY <1>0, <1>1 DEF AcquireHit, acquire_lease, Proceed, callVars
<1>2. ASSUME NEW t \in Threads, NEW m \in Models,
             AcquireMiss(t, m) \/ LoadCall(t, m) \/ UnloadCall(t, m)
      PROVE  MutexOwned' /\ LoadingIsAbsent'
  <2>1. PICK step \in {"load_lock", "unload_lock"} :
           /\ pc' = [pc EXCEPT ![t] = step]
           /\ job' = [job EXCEPT ![t] = m]
           /\ UNCHANGED <<resident, mutex>>
    BY <1>2 DEF AcquireMiss, LoadCall, UnloadCall, Enter, entryVars
  <2>2. QED  BY <1>0, <2>1
<1>3. ASSUME NEW t \in Threads, AcquireRetry(t)
      PROVE  MutexOwned' /\ LoadingIsAbsent'
  <2>1. UNCHANGED <<resident, mutex>>
    BY <1>3 DEF AcquireRetry, acquire_lease, entryVars
  <2>2. QED  BY <1>0, <1>3, <2>1 DEF AcquireRetry, Leave
<1>4. ASSUME NEW t \in Threads, AssignLease(t) \/ DropLease(t)
      PROVE  MutexOwned' /\ LoadingIsAbsent'
  <2>1. UNCHANGED <<resident, mutex, job>>
    BY <1>4 DEF AssignLease, DropLease, release_lease, Proceed, entryVars, callVars
  <2>2. pc' = [pc EXCEPT ![t] = "idle"] \/ UNCHANGED pc
    BY <1>4 DEF AssignLease, DropLease, Proceed
  <2>3. QED  BY <1>0, <2>1, <2>2
\* A load that returns is no longer in flight.
<1>5. ASSUME NEW t \in Threads, NEW ok \in BOOLEAN, LoadReturn(t, ok)
      PROVE  \E step \in {"idle", "retry", "assign"}, id \in Models \cup {NoModel} :
                 /\ pc' = [pc EXCEPT ![t] = step]
                 /\ job' = [job EXCEPT ![t] = id]
  <2>1. CASE Leave(t, "idle") \/ Leave(t, "assign")
    BY <2>1 DEF Leave
  <2>2. CASE Proceed(t, "retry")
    <3>1. job' = [job EXCEPT ![t] = job[t]] /\ job[t] \in Models \cup {NoModel}
      BY <1>0, <2>2 DEF Proceed, callVars
    <3>2. QED  BY <2>2, <3>1 DEF Proceed
  <2>3. QED  BY <1>5, <2>1, <2>2 DEF LoadReturn
<1>6. ASSUME NEW t \in Threads, LoadResident(t) \/ LoadUnregistered(t)
      PROVE  MutexOwned' /\ LoadingIsAbsent'
  <2>1. UNCHANGED <<resident, mutex>>
    BY <1>6 DEF LoadResident, LoadUnregistered, entryVars
  <2>2. PICK step \in {"idle", "retry", "assign"}, id \in Models \cup {NoModel} :
                 /\ pc' = [pc EXCEPT ![t] = step]
                 /\ job' = [job EXCEPT ![t] = id]
    BY <1>5, <1>6 DEF LoadResident, LoadUnregistered
  <2>3. QED  BY <1>0, <2>1, <2>2
\* The stub's id is added while the mutex is free, so no load is in flight.
<1>7. ASSUME NEW t \in Threads, LoadStub(t)
      PROVE  MutexOwned' /\ LoadingIsAbsent'
  <2>1. UNCHANGED mutex /\ mutex = NoThread  BY <1>7 DEF LoadStub, Locked
  <2>2. PICK step \in {"idle", "retry", "assign"}, id \in Models \cup {NoModel} :
                 /\ pc' = [pc EXCEPT ![t] = step]
                 /\ job' = [job EXCEPT ![t] = id]
    BY <1>5, <1>7 DEF LoadStub
  <2>3. QED  BY <1>0, <2>1, <2>2
<1>8. ASSUME NEW t \in Threads, LoadAdmit(t)
      PROVE  MutexOwned' /\ LoadingIsAbsent'
  BY <1>0, <1>8, ModelsAssumption DEF LoadAdmit, Locked, entryVars
<1>9. ASSUME NEW t \in Threads, LoadFileFails(t)
      PROVE  MutexOwned' /\ LoadingIsAbsent'
  <2>1. mutex = t /\ mutex' = NoThread /\ UNCHANGED resident
    BY <1>9 DEF LoadFileFails, entryVars
  <2>2. PICK step \in {"idle", "retry", "assign"}, id \in Models \cup {NoModel} :
                 /\ pc' = [pc EXCEPT ![t] = step]
                 /\ job' = [job EXCEPT ![t] = id]
    BY <1>5, <1>9 DEF LoadFileFails
  <2>3. QED  BY <1>0, <2>1, <2>2
<1>10. ASSUME NEW t \in Threads, LoadAllocate(t)
       PROVE  MutexOwned' /\ LoadingIsAbsent'
  BY <1>0, <1>10 DEF LoadAllocate, Proceed, entryVars, callVars
<1>11. ASSUME NEW t \in Threads, LoadAdd(t)
       PROVE  MutexOwned' /\ LoadingIsAbsent'
  <2>1. mutex = t /\ mutex' = NoThread  BY <1>11 DEF LoadAdd
  <2>2. PICK step \in {"idle", "retry", "assign"}, id \in Models \cup {NoModel} :
                 /\ pc' = [pc EXCEPT ![t] = step]
                 /\ job' = [job EXCEPT ![t] = id]
    BY <1>5, <1>11 DEF LoadAdd
  <2>3. QED  BY <1>0, <2>1, <2>2
<1>12. ASSUME NEW t \in Threads, UnloadInUse(t) \/ UnloadRefused(t) \/ UnloadFree(t)
       PROVE  MutexOwned' /\ LoadingIsAbsent'
  <2>1. /\ UNCHANGED resident
        /\ pc' = [pc EXCEPT ![t] = "idle"]
        /\ job' = [job EXCEPT ![t] = NoModel]
        /\ mutex' = NoThread
        /\ mutex \in {t, NoThread}
    BY <1>12 DEF UnloadInUse, UnloadRefused, UnloadFree, Locked, Leave, entryVars
  <2>2. QED  BY <1>0, <2>1
<1>13. ASSUME NEW t \in Threads, UnloadChecked(t)
       PROVE  MutexOwned' /\ LoadingIsAbsent'
  BY <1>0, <1>13 DEF UnloadChecked, Locked, entryVars
<1>14. ASSUME NEW t \in Threads, UnloadRemove(t)
       PROVE  MutexOwned' /\ LoadingIsAbsent'
  BY <1>0, <1>14 DEF UnloadRemove, remove_model, Proceed, callVars
<1>15. ASSUME NEW t \in Threads, EnforceBudget(t)
       PROVE  MutexOwned' /\ LoadingIsAbsent'
  BY <1>0, <1>15 DEF EnforceBudget, entryVars, callVars
<1>16. ASSUME NEW m \in Models, IdleTimeout(m)
       PROVE  MutexOwned' /\ LoadingIsAbsent'
  BY <1>16 DEF IdleTimeout, callVars
<1>17. CASE UNCHANGED vars
  BY <1>17 DEF vars, entryVars, callVars
<1>18. QED
  BY <1>1, <1>2, <1>3, <1>4, <1>6, <1>7, <1>8, <1>9, <1>10, <1>11, <1>12,
     <1>13, <1>14, <1>15, <1>16, <1>17
  DEF Next, Continue, Call

-----------------------------------------------------------------------------
\* A lease granted into an empty slot is counted.
LEMMA GrantCounts ==
    ASSUME TypeOK, UsersCountLeases, LeasedIsResident,
           NEW s \in Slots, NEW m \in Models,
           lease[s] = NoModel, acquire_lease(s, m)
    PROVE  UsersCountLeases' /\ LeasedIsResident'
<1>0. /\ lease \in [Slots -> Models \cup {NoModel}] /\ users \in [Models -> Int]
      /\ NoModel \notin Models /\ resident \subseteq Models
  BY ModelsAssumption DEF TypeOK, EntryType, LeaseType
<1>1. /\ m \in resident /\ resident' = resident
      /\ users' = [users EXCEPT ![m] = @ + 1]
      /\ lease' = [lease EXCEPT ![s] = m]
  BY DEF acquire_lease
<1>2. LeasedIsResident'  BY <1>0, <1>1 DEF LeasedIsResident
<1>3. ASSUME NEW n \in resident PROVE users'[n] = Cardinality(Leases(n)')
  <2>1. Leases(n) \in SUBSET Slots  BY DEF Leases
  <2>2. users[n] = Cardinality(Leases(n))  BY <1>3 DEF UsersCountLeases
  <2>3. CASE n = m
    <3>1. s \notin Leases(n)  BY <1>0 DEF Leases
    <3>2. Leases(n)' = Leases(n) \cup {s}  BY <1>0, <1>1, <2>3 DEF Leases
    <3>3. QED  BY <1>0, <1>1, <2>1, <2>2, <2>3, <3>1, <3>2, CountSlots
  <2>4. CASE n # m
    <3>1. Leases(n)' = Leases(n)  BY <1>0, <1>1, <1>3, <2>4 DEF Leases
    <3>2. QED  BY <1>0, <1>1, <1>3, <2>2, <2>4, <3>1
  <2>5. QED  BY <2>3, <2>4
<1>4. QED  BY <1>1, <1>2, <1>3 DEF UsersCountLeases

\* Giving a slot's lease back is counted, whatever then takes its place.
LEMMA AssignCounts ==
    ASSUME TypeOK, UsersCountLeases, LeasedIsResident,
           NEW t \in Threads, AssignLease(t)
    PROVE  UsersCountLeases' /\ LeasedIsResident'
<1> DEFINE h == <<t, "held">>
           r == <<t, "ret">>
<1>0. /\ lease \in [Slots -> Models \cup {NoModel}] /\ users \in [Models -> Int]
      /\ NoModel \notin Models /\ resident \subseteq Models
      /\ h \in Slots /\ r \in Slots /\ h # r
  BY ModelsAssumption DEF TypeOK, EntryType, LeaseType, Slots
<1>1. lease' = [lease EXCEPT ![h] = lease[r], ![r] = NoModel]
  BY DEF AssignLease
<1>2. resident' = resident
  BY DEF AssignLease, release_lease, entryVars
<1>3. \A n \in resident :
         users'[n] = IF n = lease[h] THEN users[n] - 1 ELSE users[n]
  BY <1>0 DEF AssignLease, release_lease, entryVars
<1>4. LeasedIsResident'
  BY <1>0, <1>1, <1>2 DEF LeasedIsResident
<1>5. ASSUME NEW n \in resident PROVE users'[n] = Cardinality(Leases(n)')
  <2>1. Leases(n) \in SUBSET Slots /\ n # NoModel  BY <1>0, <1>5 DEF Leases
  <2>2. users[n] = Cardinality(Leases(n))  BY <1>5 DEF UsersCountLeases
  <2>3. CASE n = lease[h] /\ n = lease[r]
    <3>1. Leases(n)' = Leases(n) \ {r} /\ r \in Leases(n)
      BY <1>0, <1>1, <2>1, <2>3 DEF Leases
    <3>2. QED  BY <1>3, <1>5, <2>1, <2>2, <2>3, <3>1, CountSlots
  <2>4. CASE n = lease[h] /\ n # lease[r]
    <3>1. Leases(n)' = Leases(n) \ {h} /\ h \in Leases(n)
      BY <1>0, <1>1, <2>1, <2>4 DEF Leases
    <3>2. QED  BY <1>3, <1>5, <2>1, <2>2, <2>4, <3>1, CountSlots
  <2>5. CASE n # lease[h] /\ n = lease[r]
    <3>1. /\ Leases(n)' = (Leases(n) \ {r}) \cup {h}
          /\ r \in Leases(n) /\ h \notin Leases(n)
      BY <1>0, <1>1, <2>1, <2>5 DEF Leases
    <3>2. QED  BY <1>3, <1>5, <2>1, <2>2, <2>5, <3>1, CountSlots
  <2>6. CASE n # lease[h] /\ n # lease[r]
    <3>1. Leases(n)' = Leases(n)
      BY <1>0, <1>1, <2>1, <2>6 DEF Leases
    <3>2. QED  BY <1>3, <1>5, <2>2, <2>6, <3>1
  <2>7. QED  BY <2>3, <2>4, <2>5, <2>6
<1>6. QED  BY <1>2, <1>4, <1>5 DEF UsersCountLeases

LEMMA DropCounts ==
    ASSUME TypeOK, UsersCountLeases, LeasedIsResident,
           NEW t \in Threads, DropLease(t)
    PROVE  UsersCountLeases' /\ LeasedIsResident'
<1> DEFINE h == <<t, "held">>
<1>0. /\ lease \in [Slots -> Models \cup {NoModel}] /\ users \in [Models -> Int]
      /\ NoModel \notin Models /\ resident \subseteq Models /\ h \in Slots
  BY ModelsAssumption DEF TypeOK, EntryType, LeaseType, Slots
<1>1. lease' = [lease EXCEPT ![h] = NoModel] /\ lease[h] # NoModel
  BY DEF DropLease
<1>2. resident' = resident
  BY DEF DropLease, release_lease, entryVars
<1>3. \A n \in resident :
         users'[n] = IF n = lease[h] THEN users[n] - 1 ELSE users[n]
  BY <1>0 DEF DropLease, release_lease, entryVars
<1>4. LeasedIsResident'  BY <1>0, <1>1, <1>2 DEF LeasedIsResident
<1>5. ASSUME NEW n \in resident PROVE users'[n] = Cardinality(Leases(n)')
  <2>1. Leases(n) \in SUBSET Slots /\ n # NoModel  BY <1>0, <1>5 DEF Leases
  <2>2. users[n] = Cardinality(Leases(n))  BY <1>5 DEF UsersCountLeases
  <2>3. CASE n = lease[h]
    <3>1. Leases(n)' = Leases(n) \ {h} /\ h \in Leases(n)
      BY <1>0, <1>1, <2>1, <2>3 DEF Leases
    <3>2. QED  BY <1>3, <1>5, <2>1, <2>2, <2>3, <3>1, CountSlots
  <2>4. CASE n # lease[h]
    <3>1. Leases(n)' = Leases(n)  BY <1>0, <1>1, <2>1, <2>4 DEF Leases
    <3>2. QED  BY <1>3, <1>5, <2>2, <2>4, <3>1
  <2>5. QED  BY <2>3, <2>4
<1>6. QED  BY <1>2, <1>4, <1>5 DEF UsersCountLeases

\* A fresh entry starts at zero users, and it has none: it was not resident.
LEMMA AddCounts ==
    ASSUME TypeOK, UsersCountLeases, LeasedIsResident,
           NEW m \in Models, m \notin resident, NEW place, NEW bytes,
           add_model(m, place, bytes), UNCHANGED lease
    PROVE  UsersCountLeases' /\ LeasedIsResident'
<1>0. users \in [Models -> Int] /\ NoModel \notin Models /\ resident \subseteq Models
  BY ModelsAssumption DEF TypeOK, EntryType
<1>1. resident' = resident \cup {m} /\ users' = [users EXCEPT ![m] = 0]
  BY DEF add_model
<1>2. LeasedIsResident'  BY <1>1 DEF LeasedIsResident
<1>3. \A n : Leases(n)' = Leases(n)  BY DEF Leases
<1>4. Leases(m) = {}  BY <1>0 DEF Leases, LeasedIsResident
<1>5. Cardinality(Leases(m)) = 0  BY <1>4, FS_EmptySet
<1>6. QED  BY <1>0, <1>1, <1>2, <1>3, <1>5 DEF UsersCountLeases

\* An entry without users has no lease, so removing it strands none.
LEMMA RemoveCounts ==
    ASSUME TypeOK, UsersCountLeases, LeasedIsResident,
           NEW m, remove_model(m), UNCHANGED lease
    PROVE  /\ UsersCountLeases' /\ LeasedIsResident'
           /\ \A s \in Slots : lease[s] # m
<1>0. users \in [Models -> Int] /\ resident \subseteq Models
  BY DEF TypeOK, EntryType
<1>1. /\ m \in resident /\ ~(users[m] > 0) /\ resident' = resident \ {m}
      /\ users' = [users EXCEPT ![m] = 0]
  BY DEF remove_model, can_remove
<1>2. \A n : Leases(n)' = Leases(n)  BY DEF Leases
<1>3. Leases(m) \in SUBSET Slots  BY DEF Leases
<1>4. Cardinality(Leases(m)) = 0
  BY <1>0, <1>1, <1>3, CountSlots DEF UsersCountLeases
<1>5. IsFiniteSet(Leases(m))  BY <1>3, SlotsFinite, FS_Subset
<1>6. Leases(m) = {}  BY <1>4, <1>5, FS_EmptySet
<1>7. \A s \in Slots : lease[s] # m  BY <1>6 DEF Leases
<1>8. LeasedIsResident'  BY <1>1, <1>7 DEF LeasedIsResident
<1>9. QED  BY <1>0, <1>1, <1>2, <1>7, <1>8 DEF UsersCountLeases

-----------------------------------------------------------------------------
\* The steps that leave the pool's entries and the leases alone.
Quiet(t) ==
    \/ \E m \in Models : AcquireMiss(t, m) \/ LoadCall(t, m) \/ UnloadCall(t, m)
    \/ LoadResident(t) \/ LoadUnregistered(t) \/ LoadAdmit(t)
    \/ LoadFileFails(t) \/ LoadAllocate(t)
    \/ UnloadInUse(t) \/ UnloadChecked(t) \/ UnloadRefused(t) \/ UnloadFree(t)
    \/ EnforceBudget(t)

LEMMA QuietFrame ==
    ASSUME NEW t \in Threads, Quiet(t)
    PROVE  UNCHANGED <<resident, users, lease>>
BY DEF Quiet, AcquireMiss, LoadCall, UnloadCall, LoadResident, LoadUnregistered,
       LoadAdmit, LoadFileFails, LoadAllocate, UnloadInUse, UnloadChecked,
       UnloadRefused, UnloadFree, EnforceBudget, entryVars

\* One critical section after the other, the count follows the leases.
LEMMA CountStep ==
    ASSUME LeaseInv, [Next]_vars
    PROVE  UsersCountLeases' /\ LeasedIsResident'
<1> USE DEF LeaseInv
<1>0. \A t \in Threads : <<t, "held">> \in Slots /\ <<t, "ret">> \in Slots
  BY DEF Slots
<1>1. ASSUME UNCHANGED <<resident, users, lease>>
      PROVE  UsersCountLeases' /\ LeasedIsResident'
  BY <1>1 DEF UsersCountLeases, LeasedIsResident, Leases
<1>2. ASSUME NEW t \in Threads, NEW m \in Models, AcquireHit(t, m)
      PROVE  UsersCountLeases' /\ LeasedIsResident'
  <2>1. lease[<<t, "ret">>] = NoModel  BY <1>2 DEF AcquireHit, ReturnSlotFree
  <2>2. acquire_lease(<<t, "ret">>, m)  BY <1>2 DEF AcquireHit
  <2>3. QED  BY <1>0, <2>1, <2>2, GrantCounts
<1>3. ASSUME NEW t \in Threads, AcquireRetry(t)
      PROVE  UsersCountLeases' /\ LeasedIsResident'
  <2>1. CASE acquire_lease(<<t, "ret">>, job[t])
    <3>1. lease[<<t, "ret">>] = NoModel
      BY <1>3 DEF AcquireRetry, ReturnSlotFree
    <3>2. job[t] \in Models
      BY <2>1 DEF acquire_lease, TypeOK, EntryType
    <3>3. QED  BY <1>0, <2>1, <3>1, <3>2, GrantCounts
  <2>2. CASE UNCHANGED <<entryVars, lease>>
    BY <1>1, <2>2 DEF entryVars
  <2>3. QED  BY <1>3, <2>1, <2>2 DEF AcquireRetry
<1>4. ASSUME NEW t \in Threads, LoadStub(t)
      PROVE  UsersCountLeases' /\ LeasedIsResident'
  BY <1>4, AddCounts, ModelsAssumption DEF LoadStub
<1>5. ASSUME NEW t \in Threads, LoadAdd(t)
      PROVE  UsersCountLeases' /\ LeasedIsResident'
  BY <1>5, AddCounts DEF LoadAdd, LoadingIsAbsent
<1>6. ASSUME NEW t \in Threads, UnloadRemove(t)
      PROVE  UsersCountLeases' /\ LeasedIsResident'
  BY <1>6, RemoveCounts DEF UnloadRemove
<1>7. ASSUME NEW m \in Models, IdleTimeout(m)
      PROVE  UsersCountLeases' /\ LeasedIsResident'
  BY <1>1, <1>7 DEF IdleTimeout
<1>8. CASE UNCHANGED vars
  BY <1>1, <1>8 DEF vars, entryVars
<1>9. ASSUME NEW t \in Threads, Quiet(t)
      PROVE  UsersCountLeases' /\ LeasedIsResident'
  BY <1>1, <1>9, QuietFrame
<1>10. QED
  BY <1>2, <1>3, <1>4, <1>5, <1>6, <1>7, <1>8, <1>9, AssignCounts, DropCounts
  DEF Next, Continue, Call, Quiet

\* Only acquire fills a temporary, and on its way to the assignment.
LEMMA ReturnStep ==
    ASSUME TypeOK, ReturnSlotFree, [Next]_vars
    PROVE  ReturnSlotFree'
<1> USE DEF ReturnSlotFree, Goto
<1>0. /\ pc \in [Threads -> Steps] /\ lease \in [Slots -> Models \cup {NoModel}]
      /\ \A t \in Threads : <<t, "held">> \in Slots /\ <<t, "ret">> \in Slots
  BY DEF TypeOK, CallType, LeaseType, Slots
<1>1. ASSUME NEW t \in Threads, NEW m \in Models, AcquireHit(t, m)
      PROVE  ReturnSlotFree'
  BY <1>0, <1>1 DEF AcquireHit, acquire_lease, Proceed
<1>2. ASSUME NEW t \in Threads, AcquireRetry(t)
      PROVE  ReturnSlotFree'
  <2>1. pc' = [pc EXCEPT ![t] = "assign"]  BY <1>2 DEF AcquireRetry, Leave
  <2>2. \A u \in Threads : u # t => lease'[<<u, "ret">>] = lease[<<u, "ret">>]
    BY <1>0, <1>2 DEF AcquireRetry, acquire_lease
  <2>3. QED  BY <1>0, <2>1, <2>2
<1>3. ASSUME NEW t \in Threads, AssignLease(t)
      PROVE  ReturnSlotFree'
  BY <1>0, <1>3 DEF AssignLease, Proceed
<1>4. ASSUME NEW t \in Threads, DropLease(t)
      PROVE  ReturnSlotFree'
  BY <1>0, <1>4 DEF DropLease
\* Every other step leaves the leases alone and does not start at "assign".
<1>5. ASSUME NEW t \in Threads, pc[t] # "assign", UNCHANGED lease,
             NEW step, pc' = [pc EXCEPT ![t] = step]
      PROVE  ReturnSlotFree'
  BY <1>0, <1>5
<1>6. ASSUME NEW t \in Threads, Quiet(t)
      PROVE  ReturnSlotFree'
  <2>1. /\ pc[t] # "assign"
        /\ \E step \in Steps : pc' = [pc EXCEPT ![t] = step]
    BY <1>6 DEF Quiet, AcquireMiss, LoadCall, UnloadCall, LoadResident,
       LoadUnregistered, LoadAdmit, LoadFileFails, LoadAllocate, UnloadInUse,
       UnloadChecked, UnloadRefused, UnloadFree, EnforceBudget, Enter, Leave,
       Proceed, LoadReturn, Locked, Steps
  <2>2. QED  BY <1>5, <1>6, <2>1, QuietFrame
<1>7. ASSUME NEW t \in Threads, LoadStub(t) \/ LoadAdd(t) \/ UnloadRemove(t)
      PROVE  ReturnSlotFree'
  <2>1. /\ pc[t] # "assign" /\ UNCHANGED lease
        /\ \E step \in Steps : pc' = [pc EXCEPT ![t] = step]
    BY <1>7 DEF LoadStub, LoadAdd, UnloadRemove, LoadReturn, Leave, Proceed,
       Locked, Steps
  <2>2. QED  BY <1>5, <2>1
<1>8. ASSUME NEW m \in Models, IdleTimeout(m)
      PROVE  ReturnSlotFree'
  BY <1>8 DEF IdleTimeout
<1>9. CASE UNCHANGED vars
  BY <1>9 DEF vars
<1>10. QED
  BY <1>1, <1>2, <1>3, <1>4, <1>6, <1>7, <1>8, <1>9
  DEF Next, Continue, Call, Quiet

-----------------------------------------------------------------------------
LEMMA LeaseInvInit == Init => LeaseInv
<1> SUFFICES ASSUME Init PROVE LeaseInv  OBVIOUS
<1>1. TypeOK
  BY DEF Init, TypeOK, EntryType, LeaseType, CallType, Locals, NoLocal, Steps
<1>2. MutexOwned /\ LoadingIsAbsent
  BY DEF Init, MutexOwned, LoadingIsAbsent
<1>3. ReturnSlotFree  BY DEF Init, ReturnSlotFree, Slots
<1>4. UsersCountLeases /\ LeasedIsResident
  BY DEF Init, UsersCountLeases, LeasedIsResident
<1>5. QED  BY <1>1, <1>2, <1>3, <1>4 DEF LeaseInv

LEMMA LeaseInvStep == LeaseInv /\ [Next]_vars => LeaseInv'
<1> SUFFICES ASSUME LeaseInv, [Next]_vars PROVE LeaseInv'  OBVIOUS
<1>1. TypeOK'  BY TypeStep DEF LeaseInv
<1>2. MutexOwned' /\ LoadingIsAbsent'  BY MutexStep DEF LeaseInv
<1>3. ReturnSlotFree'  BY ReturnStep DEF LeaseInv
<1>4. UsersCountLeases' /\ LeasedIsResident'  BY CountStep
<1>5. QED  BY <1>1, <1>2, <1>3, <1>4 DEF LeaseInv

\* The inductive invariant of the lease protocol.
THEOREM LeaseInvariant == Spec => []LeaseInv
BY LeaseInvInit, LeaseInvStep, PTL DEF Spec

\* Every variable keeps its type, for any set of threads and models.
THEOREM TypeCorrect == Spec => []TypeOK
<1>1. LeaseInv => TypeOK  BY DEF LeaseInv
<1>2. QED  BY <1>1, LeaseInvariant, PTL

\* active_users is exactly the number of live leases of a resident model.
THEOREM UsersCorrect == Spec => []UsersCountLeases
<1>1. LeaseInv => UsersCountLeases  BY DEF LeaseInv
<1>2. QED  BY <1>1, LeaseInvariant, PTL

\* A lease always points at resident weights, however unload interleaves.
THEOREM LeaseSafe == Spec => []LeasedIsResident
<1>1. LeaseInv => LeasedIsResident  BY DEF LeaseInv
<1>2. QED  BY <1>1, LeaseInvariant, PTL

-----------------------------------------------------------------------------
\* Only a load that allocates and an unload that gives back move the account,
\* and both own the mutex, so an admitted load finds its room untouched.
LEMMA CeilingStep ==
    ASSUME LeaseInv, WithinCeiling, AdmissionStillHolds, [Next]_vars
    PROVE  WithinCeiling' /\ AdmissionStillHolds'
<1>0. /\ pc \in [Threads -> Steps] /\ local \in [Threads -> Locals]
      /\ allocated \in Nat /\ SafeCeiling \in Nat /\ MutexOwned
  BY DeviceAssumption DEF LeaseInv, TypeOK, CallType
<1> USE DEF WithinCeiling, AdmissionStillHolds, can_admit, Goto
\* A step of t that moves nothing but t's own call, and not into load_file.
<1>1. ASSUME NEW t \in Threads, UNCHANGED allocated,
             NEW step, pc' = [pc EXCEPT ![t] = step], step # "load_file",
             \A u \in Threads : u # t => local'[u] = local[u]
      PROVE  WithinCeiling' /\ AdmissionStillHolds'
  BY <1>0, <1>1
<1>2. ASSUME NEW t \in Threads, NEW m \in Models,
             \/ AcquireHit(t, m) \/ AcquireMiss(t, m)
             \/ LoadCall(t, m) \/ UnloadCall(t, m)
      PROVE  WithinCeiling' /\ AdmissionStillHolds'
  <2>1. \E step \in Steps \ {"load_file"} : pc' = [pc EXCEPT ![t] = step]
    BY <1>2 DEF AcquireHit, AcquireMiss, LoadCall, UnloadCall, Enter, Proceed, Steps
  <2>2. UNCHANGED <<allocated, local>>
    BY <1>2 DEF AcquireHit, AcquireMiss, LoadCall, UnloadCall, Enter, Proceed, callVars
  <2>3. QED  BY <1>1, <2>1, <2>2
<1>3. ASSUME NEW t \in Threads,
             \/ AcquireRetry(t) \/ AssignLease(t)
             \/ LoadResident(t) \/ LoadUnregistered(t) \/ LoadStub(t)
             \/ LoadFileFails(t) \/ LoadAdd(t)
             \/ UnloadInUse(t) \/ UnloadRefused(t) \/ UnloadRemove(t)
             \/ EnforceBudget(t)
      PROVE  WithinCeiling' /\ AdmissionStillHolds'
  <2>1. \E step \in Steps \ {"load_file"} : pc' = [pc EXCEPT ![t] = step]
    BY <1>3 DEF AcquireRetry, AssignLease, LoadResident, LoadUnregistered,
       LoadStub, LoadFileFails, LoadAdd, UnloadInUse, UnloadRefused,
       UnloadRemove, EnforceBudget, LoadReturn, Leave, Proceed, Steps
  <2>2. UNCHANGED allocated
    BY <1>3 DEF AcquireRetry, AssignLease, LoadResident, LoadUnregistered,
       LoadStub, LoadFileFails, LoadAdd, UnloadInUse, UnloadRefused,
       UnloadRemove, EnforceBudget
  <2>3. UNCHANGED local \/ local' = [local EXCEPT ![t] = NoLocal]
    BY <1>3 DEF AcquireRetry, AssignLease, LoadResident, LoadUnregistered,
       LoadStub, LoadFileFails, LoadAdd, UnloadInUse, UnloadRefused,
       UnloadRemove, EnforceBudget, LoadReturn, Leave, Proceed, callVars
  <2>4. QED  BY <1>0, <1>1, <2>1, <2>2, <2>3
<1>4. ASSUME NEW t \in Threads, DropLease(t)
      PROVE  WithinCeiling' /\ AdmissionStillHolds'
  BY <1>4 DEF DropLease, callVars
<1>5. ASSUME NEW t \in Threads, LoadAdmit(t)
      PROVE  WithinCeiling' /\ AdmissionStillHolds'
  <2>1. /\ UNCHANGED allocated
        /\ pc' = [pc EXCEPT ![t] = "load_file"]
        /\ local' = [local EXCEPT ![t] = local'[t]]
        /\ local'[t].gpu => can_admit(local'[t].bytes)
    BY <1>0, <1>5 DEF LoadAdmit
  <2>2. QED  BY <1>0, <2>1
<1>6. ASSUME NEW t \in Threads, LoadAllocate(t)
      PROVE  WithinCeiling' /\ AdmissionStillHolds'
  <2>1. mutex = t  BY <1>0, <1>6 DEF LoadAllocate, MutexOwned
  <2>2. \A u \in Threads : pc'[u] # "load_file"
    BY <1>0, <1>6, <2>1 DEF LoadAllocate, MutexOwned, Proceed
  <2>3. WithinCeiling'
    BY <1>0, <1>6 DEF LoadAllocate, allocate
  <2>4. QED  BY <2>2, <2>3
<1>7. ASSUME NEW t \in Threads, UnloadChecked(t)
      PROVE  WithinCeiling' /\ AdmissionStillHolds'
  <2>1. /\ UNCHANGED allocated /\ pc' = [pc EXCEPT ![t] = "unload_remove"]
        /\ \A u \in Threads : u # t => local'[u] = local[u]
    BY <1>0, <1>7 DEF UnloadChecked
  <2>2. QED  BY <1>1, <2>1
<1>8. ASSUME NEW t \in Threads, UnloadFree(t)
      PROVE  WithinCeiling' /\ AdmissionStillHolds'
  <2>1. mutex = t  BY <1>0, <1>8 DEF UnloadFree, MutexOwned
  <2>2. \A u \in Threads : pc'[u] # "load_file"
    BY <1>0, <1>8, <2>1 DEF UnloadFree, MutexOwned, Leave
  <2>3. local[t].bytes \in Nat  BY <1>0 DEF Locals
  <2>4. WithinCeiling'
    BY <1>0, <1>8, <2>3 DEF UnloadFree, release
  <2>5. QED  BY <2>2, <2>4
<1>9. ASSUME NEW m \in Models, IdleTimeout(m)
      PROVE  WithinCeiling' /\ AdmissionStillHolds'
  BY <1>9 DEF IdleTimeout, callVars
<1>10. CASE UNCHANGED vars
  BY <1>10 DEF vars, callVars
<1>11. QED
  BY <1>2, <1>3, <1>4, <1>5, <1>6, <1>7, <1>8, <1>9, <1>10
  DEF Next, Continue, Call

\* The admission gate is still right when load acts on it, so ignoring the result
\* of allocate is safe and the account never passes the ceiling.
THEOREM AdmissionSafe == Spec => [](WithinCeiling /\ AdmissionStillHolds)
<1>1. Init => WithinCeiling /\ AdmissionStillHolds
  BY DeviceAssumption DEF Init, WithinCeiling, AdmissionStillHolds
<1>2. LeaseInv /\ WithinCeiling /\ AdmissionStillHolds /\ [Next]_vars
      => WithinCeiling' /\ AdmissionStillHolds'
  BY CeilingStep
<1>3. QED  BY <1>1, <1>2, LeaseInvariant, PTL DEF Spec

-----------------------------------------------------------------------------
(* The account of the device.                                               *)

\* What unload has read of the entry it is about to remove is still true.
ReadEntry ==
    \A t \in Threads :
        pc[t] = "unload_remove" /\ job[t] \in resident
        => local[t] = [gpu |-> onGpu[job[t]], bytes |-> memory[job[t]]]

AccountInv == LeaseInv /\ WithinCeiling /\ AdmissionStillHolds /\ ReadEntry /\ VramAccounted

\* A sum follows the one value that changes.
LEMMA OneChange ==
    ASSUME NEW I, IsFiniteSet(I), NEW f \in [I -> Nat], NEW g \in [I -> Nat],
           NEW a \in I, \A x \in I \ {a} : g[x] = f[x]
    PROVE  /\ SumFunction(f) \in Nat /\ SumFunction(g) \in Nat /\ f[a] <= SumFunction(f)
           /\ SumFunction(g) + f[a] = SumFunction(f) + g[a]
<1>1. SumFunction(f) = SumFunctionOnSet(f, I) /\ SumFunction(g) = SumFunctionOnSet(g, I)
  BY DEF SumFunction
<1>2. \A x \in I : f[x] \in Nat /\ g[x] \in Nat  OBVIOUS
<1>3. SumFunctionOnSet(f, I) \in Nat /\ f[a] <= SumFunctionOnSet(f, I)  BY <1>2, SumFacts
<1>4. SumFunctionOnSet(g, I) \in Nat  BY <1>2, SumFacts
<1>5. SumFunctionOnSet(g, I) + f[a] = SumFunctionOnSet(f, I) + g[a]  BY <1>2, SumChanges
<1>6. QED  BY <1>1, <1>3, <1>4, <1>5

LEMMA BytesTypes ==
    LeaseInv => EntryBytes \in [Models -> Nat] /\ FlightBytes \in [Threads -> Nat]
<1>1. ASSUME TypeOK
      PROVE  EntryBytes \in [Models -> Nat] /\ FlightBytes \in [Threads -> Nat]
  <2>1. \A m \in Models : memory[m] \in Nat  BY <1>1 DEF TypeOK, EntryType
  <2>2. \A t \in Threads : local[t].bytes \in Nat  BY <1>1 DEF TypeOK, CallType, Locals
  <2>3. QED  BY <2>1, <2>2 DEF EntryBytes, FlightBytes
<1>2. QED  BY <1>1 DEF LeaseInv

LEMMA BytesTypesNext ==
    LeaseInv' => EntryBytes' \in [Models -> Nat] /\ FlightBytes' \in [Threads -> Nat]
<1>1. (LeaseInv => EntryBytes \in [Models -> Nat] /\ FlightBytes \in [Threads -> Nat])'
  BY BytesTypes, PTL
<1>2. QED  BY <1>1

\* A step of t that moves neither bytes of an entry nor bytes in flight.
LEMMA SameBytes ==
    ASSUME AccountInv, UNCHANGED <<resident, onGpu, memory, allocated>>,
           NEW t \in Threads, NEW step \in Steps, pc' = [pc EXCEPT ![t] = step],
           pc[t] \notin {"load_add", "unload_free"} \/ ~local[t].gpu,
           step \notin {"load_add", "unload_free"} \/ ~local'[t].gpu,
           \A u \in Threads \ {t} : local'[u] = local[u] /\ job'[u] = job[u],
           step # "unload_remove"
    PROVE  VramAccounted' /\ ReadEntry'
<1>1. pc \in [Threads -> Steps]  BY DEF AccountInv, LeaseInv, TypeOK, CallType
<1>2. EntryBytes' = EntryBytes  BY DEF EntryBytes
<1>3. \A u \in Threads : u # t => pc'[u] = pc[u] /\ local'[u] = local[u]  BY <1>1
<1>4. pc'[t] = step  BY <1>1
<1>5. FlightBytes' = FlightBytes  BY <1>3, <1>4 DEF FlightBytes
<1>6. VramAccounted'  BY <1>2, <1>5 DEF AccountInv, VramAccounted
<1>7. ReadEntry'  BY <1>3, <1>4 DEF AccountInv, ReadEntry
<1>8. QED  BY <1>6, <1>7

LEMMA CallAccount ==
    ASSUME AccountInv, NEW t \in Threads, NEW m \in Models,
           AcquireHit(t, m) \/ AcquireMiss(t, m) \/ LoadCall(t, m) \/ UnloadCall(t, m)
    PROVE  VramAccounted' /\ ReadEntry'
<1>0. /\ pc \in [Threads -> Steps] /\ job \in [Threads -> Models \cup {NoModel}]
  BY DEF AccountInv, LeaseInv, TypeOK, CallType
<1>1. /\ UNCHANGED <<resident, onGpu, memory, allocated, local>> /\ pc[t] = "idle"
      /\ \A u \in Threads \ {t} : job'[u] = job[u]
  BY <1>0 DEF AcquireHit, AcquireMiss, LoadCall, UnloadCall, Enter, Proceed, acquire_lease,
     entryVars, callVars
<1>2. PICK step \in {"assign", "load_lock", "unload_lock"} : pc' = [pc EXCEPT ![t] = step]
  BY DEF AcquireHit, AcquireMiss, LoadCall, UnloadCall, Enter, Proceed, Goto
<1>3. step \in Steps  BY DEF Steps
<1>4. QED  BY <1>1, <1>2, <1>3, SameBytes

\* The steps of a call that leave entries and account alone.
LEMMA QuietAccount ==
    ASSUME AccountInv, NEW t \in Threads,
           \/ AcquireRetry(t) \/ AssignLease(t) \/ LoadResident(t) \/ LoadUnregistered(t)
           \/ LoadFileFails(t) \/ UnloadInUse(t) \/ UnloadRefused(t) \/ EnforceBudget(t)
           \/ LoadAdmit(t)
    PROVE  VramAccounted' /\ ReadEntry'
<1>0. /\ pc \in [Threads -> Steps] /\ job \in [Threads -> Models \cup {NoModel}]
      /\ local \in [Threads -> Locals]
  BY DEF AccountInv, LeaseInv, TypeOK, CallType
<1>1. UNCHANGED <<resident, onGpu, memory, allocated>>
  BY DEF AcquireRetry, AssignLease, LoadResident, LoadUnregistered, LoadFileFails,
     UnloadInUse, UnloadRefused, EnforceBudget, LoadAdmit, acquire_lease, release_lease,
     entryVars
<1>2. pc[t] \notin {"load_add", "unload_free"}
  BY DEF AcquireRetry, AssignLease, LoadResident, LoadUnregistered, LoadFileFails,
     UnloadInUse, UnloadRefused, EnforceBudget, LoadAdmit, Locked
<1>3. PICK step \in {"idle", "assign", "retry", "load_file", "budget_unload"} :
          pc' = [pc EXCEPT ![t] = step]
  BY DEF AcquireRetry, AssignLease, LoadResident, LoadUnregistered, LoadFileFails,
     UnloadInUse, UnloadRefused, EnforceBudget, LoadAdmit, LoadReturn, Leave, Proceed, Goto
<1>4. \A u \in Threads \ {t} : local'[u] = local[u] /\ job'[u] = job[u]
  BY <1>0 DEF AcquireRetry, AssignLease, LoadResident, LoadUnregistered, LoadFileFails,
     UnloadInUse, UnloadRefused, EnforceBudget, LoadAdmit, LoadReturn, Leave, Proceed, callVars
<1>5. step \in Steps  BY DEF Steps
<1>6. QED  BY <1>1, <1>2, <1>3, <1>4, <1>5, SameBytes

\* A stub takes no memory: its entry adds nothing to the sum.
LEMMA StubAccount ==
    ASSUME AccountInv, NEW t \in Threads, LoadStub(t)
    PROVE  VramAccounted' /\ ReadEntry'
<1>0. /\ pc \in [Threads -> Steps] /\ job \in [Threads -> Models \cup {NoModel}]
      /\ local \in [Threads -> Locals] /\ onGpu \in [Models -> BOOLEAN]
      /\ memory \in [Models -> Nat] /\ resident \subseteq Models
  BY DEF AccountInv, LeaseInv, TypeOK, CallType, EntryType
<1>1. /\ add_model(job[t], FALSE, 0) /\ UNCHANGED <<allocated, mutex>>
      /\ mutex = NoThread /\ pc[t] = "load_lock" /\ LoadReturn(t, TRUE)
      /\ job[t] \in Models /\ job[t] \notin resident
  BY ModelsAssumption DEF LoadStub, Locked
<1>2. PICK step \in {"idle", "assign", "retry"} : pc' = [pc EXCEPT ![t] = step]
  BY <1>1 DEF LoadReturn, Leave, Proceed, Goto
<1>3. \A u \in Threads \ {t} : local'[u] = local[u] /\ pc'[u] = pc[u]
  BY <1>0, <1>1, <1>2 DEF LoadReturn, Leave, Proceed, callVars
<1>4. pc'[t] = step  BY <1>0, <1>2
<1>5. FlightBytes' = FlightBytes  BY <1>1, <1>3, <1>4 DEF FlightBytes
<1>6. EntryBytes' = EntryBytes  BY <1>0, <1>1 DEF EntryBytes, add_model
<1>7. \A u \in Threads : pc'[u] # "unload_remove"
  BY <1>1, <1>3, <1>4, ThreadsAssumption DEF AccountInv, LeaseInv, MutexOwned
<1>8. QED  BY <1>1, <1>5, <1>6, <1>7 DEF AccountInv, VramAccounted, ReadEntry

\* Whoever owns the mutex is the only call with bytes to account for.
LEMMA OwnerAlone ==
    ASSUME AccountInv, NEW t \in Threads, mutex = t
    PROVE  \A u \in Threads \ {t} :
              pc[u] \notin {"load_file", "load_add", "unload_remove", "unload_free"}
BY DEF AccountInv, LeaseInv, MutexOwned

\* allocate does not fail, because the admission still holds.
LEMMA AllocateAccount ==
    ASSUME AccountInv, LeaseInv', NEW t \in Threads, LoadAllocate(t)
    PROVE  VramAccounted' /\ ReadEntry'
<1>0. /\ pc \in [Threads -> Steps] /\ local \in [Threads -> Locals] /\ allocated \in Nat
  BY DEF AccountInv, LeaseInv, TypeOK, CallType
<1>1. /\ pc[t] = "load_file" /\ pc' = [pc EXCEPT ![t] = "load_add"]
      /\ UNCHANGED <<entryVars, callVars>>
      /\ IF local[t].gpu THEN allocate(local[t].bytes) ELSE UNCHANGED allocated
  BY DEF LoadAllocate, Proceed, Goto
<1>2. /\ pc'[t] = "load_add" /\ \A u \in Threads \ {t} : pc'[u] = pc[u]
      /\ UNCHANGED <<resident, onGpu, memory, job, local>>
  BY <1>0, <1>1 DEF entryVars, callVars
<1>3. EntryBytes' = EntryBytes  BY <1>2 DEF EntryBytes
<1>4. /\ EntryBytes \in [Models -> Nat] /\ FlightBytes \in [Threads -> Nat]
      /\ FlightBytes' \in [Threads -> Nat]
  BY BytesTypes, BytesTypesNext DEF AccountInv
<1>5. /\ FlightBytes[t] = 0
      /\ FlightBytes'[t] = IF local[t].gpu THEN local[t].bytes ELSE 0
      /\ \A u \in Threads \ {t} : FlightBytes'[u] = FlightBytes[u]
  BY <1>1, <1>2 DEF FlightBytes
<1>6. SumFunction(FlightBytes') = SumFunction(FlightBytes) + FlightBytes'[t]
  <2>1. /\ SumFunction(FlightBytes) \in Nat /\ SumFunction(FlightBytes') \in Nat
        /\ SumFunction(FlightBytes') + FlightBytes[t] = SumFunction(FlightBytes) + FlightBytes'[t]
    BY <1>4, <1>5, OneChange, ThreadsAssumption
  <2>2. QED  BY <1>5, <2>1
<1>7. allocated' = allocated + FlightBytes'[t]
  BY <1>0, <1>1, <1>5 DEF AccountInv, AdmissionStillHolds, allocate
<1>8. SumFunction(EntryBytes) \in Nat /\ SumFunction(FlightBytes) \in Nat /\ FlightBytes'[t] \in Nat
  <2>1. SumFunction(EntryBytes) = SumFunctionOnSet(EntryBytes, Models)
    BY <1>4 DEF SumFunction
  <2>2. SumFunction(FlightBytes) = SumFunctionOnSet(FlightBytes, Threads)
    BY <1>4 DEF SumFunction
  <2>3. QED  BY <1>4, <2>1, <2>2, SumFacts, ModelsAssumption, ThreadsAssumption
<1>9. VramAccounted'
  BY <1>3, <1>6, <1>7, <1>8 DEF AccountInv, VramAccounted
<1>10. ReadEntry'  BY <1>2 DEF AccountInv, ReadEntry
<1>11. QED  BY <1>9, <1>10

\* The bytes in flight become the bytes of the entry.
LEMMA AddAccount ==
    ASSUME AccountInv, LeaseInv', NEW t \in Threads, LoadAdd(t)
    PROVE  VramAccounted' /\ ReadEntry'
<1>0. /\ pc \in [Threads -> Steps] /\ job \in [Threads -> Models \cup {NoModel}]
      /\ local \in [Threads -> Locals] /\ onGpu \in [Models -> BOOLEAN]
      /\ memory \in [Models -> Nat] /\ resident \subseteq Models
  BY DEF AccountInv, LeaseInv, TypeOK, CallType, EntryType
<1>1. /\ pc[t] = "load_add" /\ add_model(job[t], local[t].gpu, local[t].bytes)
      /\ LoadReturn(t, TRUE) /\ UNCHANGED allocated
      /\ mutex = t /\ job[t] \in Models /\ job[t] \notin resident
  BY DEF LoadAdd, AccountInv, LeaseInv, MutexOwned, LoadingIsAbsent
<1>2. PICK step \in {"idle", "assign", "retry"} : pc' = [pc EXCEPT ![t] = step]
  BY <1>1 DEF LoadReturn, Leave, Proceed, Goto
<1>3. \A u \in Threads \ {t} : local'[u] = local[u] /\ pc'[u] = pc[u]
  BY <1>0, <1>1, <1>2 DEF LoadReturn, Leave, Proceed, callVars
<1>4. pc'[t] = step  BY <1>0, <1>2
<1>5. /\ EntryBytes \in [Models -> Nat] /\ FlightBytes \in [Threads -> Nat]
      /\ EntryBytes' \in [Models -> Nat] /\ FlightBytes' \in [Threads -> Nat]
  BY BytesTypes, BytesTypesNext DEF AccountInv
<1> DEFINE b == IF local[t].gpu THEN local[t].bytes ELSE 0
<1>6. /\ FlightBytes[t] = b /\ FlightBytes'[t] = 0
      /\ \A u \in Threads \ {t} : FlightBytes'[u] = FlightBytes[u]
  BY <1>1, <1>3, <1>4 DEF FlightBytes
<1>7. /\ EntryBytes[job[t]] = 0 /\ EntryBytes'[job[t]] = b
      /\ \A m \in Models \ {job[t]} : EntryBytes'[m] = EntryBytes[m]
  BY <1>0, <1>1 DEF EntryBytes, add_model
<1> HIDE DEF b
<1>8. /\ SumFunction(FlightBytes) \in Nat /\ SumFunction(FlightBytes') \in Nat
      /\ SumFunction(FlightBytes') + b = SumFunction(FlightBytes) + 0
  BY <1>5, <1>6, OneChange, ThreadsAssumption
<1>9. /\ SumFunction(EntryBytes) \in Nat /\ SumFunction(EntryBytes') \in Nat
      /\ SumFunction(EntryBytes') + 0 = SumFunction(EntryBytes) + b
  BY <1>1, <1>5, <1>7, OneChange, ModelsAssumption
<1>10. b \in Nat  BY <1>1, <1>5, <1>7
<1>11. VramAccounted'  BY <1>1, <1>8, <1>9, <1>10 DEF AccountInv, VramAccounted
<1>12. \A u \in Threads : pc'[u] # "unload_remove"
  BY <1>1, <1>3, <1>4, OwnerAlone
<1>13. QED  BY <1>11, <1>12 DEF ReadEntry

\* unload reads placement and size of the entry.
LEMMA CheckedAccount ==
    ASSUME AccountInv, NEW t \in Threads, UnloadChecked(t)
    PROVE  VramAccounted' /\ ReadEntry'
<1>0. /\ pc \in [Threads -> Steps] /\ local \in [Threads -> Locals]
  BY DEF AccountInv, LeaseInv, TypeOK, CallType
<1>1. /\ pc[t] = "unload_lock" /\ mutex = NoThread /\ pc' = [pc EXCEPT ![t] = "unload_remove"]
      /\ UNCHANGED <<resident, onGpu, memory, allocated, job>>
      /\ local' = [local EXCEPT ![t] =
                      IF job[t] \in resident
                      THEN [gpu |-> onGpu[job[t]], bytes |-> memory[job[t]]]
                      ELSE NoLocal]
  BY DEF UnloadChecked, Locked, Goto, entryVars
<1>2. /\ pc'[t] = "unload_remove"
      /\ \A u \in Threads \ {t} : pc'[u] = pc[u] /\ local'[u] = local[u]
      /\ job[t] \in resident => local'[t] = [gpu |-> onGpu[job[t]], bytes |-> memory[job[t]]]
  BY <1>0, <1>1
<1>3. EntryBytes' = EntryBytes  BY <1>1 DEF EntryBytes
<1>4. FlightBytes' = FlightBytes  BY <1>1, <1>2 DEF FlightBytes
<1>5. QED  BY <1>1, <1>2, <1>3, <1>4 DEF AccountInv, VramAccounted, ReadEntry

\* The bytes of the removed entry are in flight until they are given back.
LEMMA RemoveAccount ==
    ASSUME AccountInv, LeaseInv', NEW t \in Threads, UnloadRemove(t)
    PROVE  VramAccounted' /\ ReadEntry'
<1>0. /\ pc \in [Threads -> Steps] /\ local \in [Threads -> Locals]
      /\ onGpu \in [Models -> BOOLEAN] /\ memory \in [Models -> Nat] /\ resident \subseteq Models
  BY DEF AccountInv, LeaseInv, TypeOK, CallType, EntryType
<1>1. /\ pc[t] = "unload_remove" /\ remove_model(job[t]) /\ job[t] \in resident
      /\ pc' = [pc EXCEPT ![t] = "unload_free"] /\ UNCHANGED <<local, job, allocated>>
      /\ mutex = t /\ job[t] \in Models
  BY <1>0 DEF UnloadRemove, remove_model, can_remove, Proceed, Goto, callVars, AccountInv, LeaseInv,
     MutexOwned
<1>2. pc'[t] = "unload_free" /\ \A u \in Threads \ {t} : pc'[u] = pc[u]
  BY <1>0, <1>1
<1>3. local[t] = [gpu |-> onGpu[job[t]], bytes |-> memory[job[t]]]
  BY <1>1 DEF AccountInv, ReadEntry
<1>5. /\ EntryBytes \in [Models -> Nat] /\ FlightBytes \in [Threads -> Nat]
      /\ EntryBytes' \in [Models -> Nat] /\ FlightBytes' \in [Threads -> Nat]
  BY BytesTypes, BytesTypesNext DEF AccountInv
<1> DEFINE b == IF onGpu[job[t]] THEN memory[job[t]] ELSE 0
<1>6. /\ FlightBytes[t] = 0 /\ FlightBytes'[t] = b
      /\ \A u \in Threads \ {t} : FlightBytes'[u] = FlightBytes[u]
  BY <1>1, <1>2, <1>3 DEF FlightBytes
<1>7. /\ EntryBytes[job[t]] = b /\ EntryBytes'[job[t]] = 0
      /\ \A m \in Models \ {job[t]} : EntryBytes'[m] = EntryBytes[m]
  BY <1>0, <1>1 DEF EntryBytes, remove_model
<1> HIDE DEF b
<1>8. /\ SumFunction(FlightBytes) \in Nat /\ SumFunction(FlightBytes') \in Nat
      /\ SumFunction(FlightBytes') + 0 = SumFunction(FlightBytes) + b
  BY <1>5, <1>6, OneChange, ThreadsAssumption
<1>9. /\ SumFunction(EntryBytes) \in Nat /\ SumFunction(EntryBytes') \in Nat
      /\ SumFunction(EntryBytes') + b = SumFunction(EntryBytes) + 0
  BY <1>1, <1>5, <1>7, OneChange, ModelsAssumption
<1>10. b \in Nat  BY <1>1, <1>5, <1>7
<1>11. VramAccounted'  BY <1>1, <1>8, <1>9, <1>10 DEF AccountInv, VramAccounted
<1>12. \A u \in Threads : pc'[u] # "unload_remove"
  BY <1>1, <1>2, OwnerAlone
<1>13. QED  BY <1>11, <1>12 DEF ReadEntry

\* release never meets more bytes than the account holds.
LEMMA FreeAccount ==
    ASSUME AccountInv, LeaseInv', NEW t \in Threads, UnloadFree(t)
    PROVE  VramAccounted' /\ ReadEntry'
<1>0. /\ pc \in [Threads -> Steps] /\ job \in [Threads -> Models \cup {NoModel}]
      /\ local \in [Threads -> Locals] /\ allocated \in Nat
  BY DEF AccountInv, LeaseInv, TypeOK, CallType
<1>1. /\ pc[t] = "unload_free" /\ pc' = [pc EXCEPT ![t] = "idle"]
      /\ local' = [local EXCEPT ![t] = NoLocal] /\ UNCHANGED <<resident, onGpu, memory>>
      /\ IF local[t].gpu THEN release(local[t].bytes) ELSE UNCHANGED allocated
      /\ mutex = t
  BY DEF UnloadFree, Leave, Goto, entryVars, AccountInv, LeaseInv, MutexOwned
<1>2. /\ pc'[t] = "idle"
      /\ \A u \in Threads \ {t} : pc'[u] = pc[u] /\ local'[u] = local[u]
  BY <1>0, <1>1
<1>3. EntryBytes' = EntryBytes  BY <1>1 DEF EntryBytes
<1>4. /\ EntryBytes \in [Models -> Nat] /\ FlightBytes \in [Threads -> Nat]
      /\ FlightBytes' \in [Threads -> Nat]
  BY BytesTypes, BytesTypesNext DEF AccountInv
<1> DEFINE b == IF local[t].gpu THEN local[t].bytes ELSE 0
<1>5. /\ FlightBytes[t] = b /\ FlightBytes'[t] = 0
      /\ \A u \in Threads \ {t} : FlightBytes'[u] = FlightBytes[u]
  BY <1>1, <1>2 DEF FlightBytes
<1>6. /\ SumFunction(FlightBytes) \in Nat /\ SumFunction(FlightBytes') \in Nat
      /\ b <= SumFunction(FlightBytes)
      /\ SumFunction(FlightBytes') + b = SumFunction(FlightBytes) + 0
  <2> HIDE DEF b
  <2>1. QED  BY <1>4, <1>5, OneChange, ThreadsAssumption
<1>7. SumFunction(EntryBytes) \in Nat
  <2>1. SumFunction(EntryBytes) = SumFunctionOnSet(EntryBytes, Models)
    BY <1>4 DEF SumFunction
  <2>2. QED  BY <1>4, <2>1, SumFacts, ModelsAssumption
<1>8. b \in Nat  BY <1>4, <1>5
<1>9. allocated = SumFunction(EntryBytes) + SumFunction(FlightBytes)
  BY DEF AccountInv, VramAccounted
<1>10. allocated' = allocated - b
  <2>1. b <= allocated  BY <1>6, <1>7, <1>8, <1>9
  <2>2. CASE local[t].gpu
    BY <1>0, <1>1, <1>8, <2>1, <2>2 DEF release
  <2>3. CASE ~local[t].gpu  BY <1>0, <1>1, <2>3
  <2>4. QED  BY <2>2, <2>3
<1> HIDE DEF b
<1>11. VramAccounted'  BY <1>3, <1>6, <1>7, <1>8, <1>9, <1>10 DEF VramAccounted
<1>12. \A u \in Threads : pc'[u] # "unload_remove"  BY <1>1, <1>2, OwnerAlone
<1>13. QED  BY <1>11, <1>12 DEF ReadEntry

LEMMA AccountStep ==
    ASSUME AccountInv, LeaseInv', [Next]_vars
    PROVE  VramAccounted' /\ ReadEntry'
<1>1. ASSUME UNCHANGED <<resident, onGpu, memory, allocated, pc, local, job>>
      PROVE  VramAccounted' /\ ReadEntry'
  BY <1>1 DEF AccountInv, VramAccounted, ReadEntry, EntryBytes, FlightBytes
<1>2. ASSUME NEW t \in Threads, DropLease(t) PROVE VramAccounted' /\ ReadEntry'
  BY <1>1, <1>2 DEF DropLease, release_lease, entryVars, callVars
<1>3. ASSUME NEW m \in Models, IdleTimeout(m) PROVE VramAccounted' /\ ReadEntry'
  BY <1>1, <1>3 DEF IdleTimeout, callVars
<1>4. CASE UNCHANGED vars
  BY <1>1, <1>4 DEF vars, entryVars, callVars
<1>5. QED
  BY <1>2, <1>3, <1>4, CallAccount, QuietAccount, StubAccount, AllocateAccount, AddAccount,
     CheckedAccount, RemoveAccount, FreeAccount DEF Next, Continue, Call

\* Over any number of loads and unloads by any number of threads, the device
\* account is what the entries on the GPU and the call in flight take: no byte is
\* leaked, given back twice or kept for a model that is gone (model_manager.cpp).
THEOREM VramCorrect == Spec => []VramAccounted
<1>1. Init => VramAccounted /\ ReadEntry
  <2> SUFFICES ASSUME Init PROVE VramAccounted /\ ReadEntry  OBVIOUS
  <2>1. LeaseInv  BY LeaseInvInit
  <2>2. EntryBytes \in [Models -> Nat] /\ FlightBytes \in [Threads -> Nat]
    BY <2>1, BytesTypes
  <2>3. /\ \A m \in Models : EntryBytes[m] = 0
        /\ \A t \in Threads : FlightBytes[t] = 0
    BY DEF Init, EntryBytes, FlightBytes
  <2>4. /\ SumFunction(EntryBytes) = SumFunctionOnSet(EntryBytes, Models)
        /\ SumFunction(FlightBytes) = SumFunctionOnSet(FlightBytes, Threads)
    BY <2>2 DEF SumFunction
  <2>5. SumFunction(EntryBytes) = 0
    BY <2>2, <2>3, <2>4, SumFacts, ModelsAssumption
  <2>6. SumFunction(FlightBytes) = 0
    BY <2>2, <2>3, <2>4, SumFacts, ThreadsAssumption
  <2>7. QED  BY <2>5, <2>6 DEF Init, VramAccounted, ReadEntry
<1>2. LeaseInv /\ WithinCeiling /\ AdmissionStillHolds /\ VramAccounted /\ ReadEntry
      /\ LeaseInv' /\ [Next]_vars
      => VramAccounted' /\ ReadEntry'
  BY AccountStep DEF AccountInv
<1>3. QED  BY <1>1, <1>2, LeaseInvariant, AdmissionSafe, PTL DEF Spec

-----------------------------------------------------------------------------
\* Under the invariant every step is a step of the abstract pool, or none.
LEMMA PoolStep ==
    ASSUME LeaseInv, LeaseInv', [Next]_vars
    PROVE  [Pool!Next]_(Pool!vars)
<1> USE DEF LeaseInv
<1>0. /\ \A t \in Threads : <<t, "held">> \in Slots /\ <<t, "ret">> \in Slots
      /\ Pool!Slots = Slots
      /\ resident \subseteq Models
  BY DEF Slots, Pool!Slots, TypeOK, EntryType
<1>1. ASSUME UNCHANGED <<resident, lease>> PROVE UNCHANGED Pool!vars
  BY <1>1 DEF Pool!vars
<1>2. ASSUME NEW t \in Threads, NEW m \in Models, AcquireHit(t, m)
      PROVE  Pool!Next
  <2>1. lease[<<t, "ret">>] = NoModel  BY <1>2 DEF AcquireHit, ReturnSlotFree
  <2>2. Pool!Grant(<<t, "ret">>, m)
    BY <1>2, <2>1 DEF AcquireHit, acquire_lease, Pool!Grant
  <2>3. QED  BY <1>0, <2>2 DEF Pool!Next
<1>3. ASSUME NEW t \in Threads, AcquireRetry(t)
      PROVE  [Pool!Next]_(Pool!vars)
  <2>1. CASE acquire_lease(<<t, "ret">>, job[t])
    <3>1. lease[<<t, "ret">>] = NoModel
      BY <1>3 DEF AcquireRetry, ReturnSlotFree
    <3>2. Pool!Grant(<<t, "ret">>, job[t]) /\ job[t] \in Models
      BY <1>0, <2>1, <3>1 DEF acquire_lease, Pool!Grant
    <3>3. QED  BY <1>0, <3>2 DEF Pool!Next
  <2>2. CASE UNCHANGED <<entryVars, lease>>
    BY <1>1, <2>2 DEF entryVars
  <2>3. QED  BY <1>3, <2>1, <2>2 DEF AcquireRetry
<1>4. ASSUME NEW t \in Threads, AssignLease(t)
      PROVE  Pool!Next
  <2>1. resident' = resident  BY <1>4 DEF AssignLease, release_lease, entryVars
  <2>2. Pool!Move(t)  BY <1>4, <2>1 DEF AssignLease, Pool!Move
  <2>3. QED  BY <2>2 DEF Pool!Next
<1>5. ASSUME NEW t \in Threads, DropLease(t)
      PROVE  Pool!Next
  <2>1. resident' = resident  BY <1>5 DEF DropLease, release_lease, entryVars
  <2>2. Pool!Drop(t)  BY <1>5, <2>1 DEF DropLease, Pool!Drop
  <2>3. QED  BY <2>2 DEF Pool!Next
<1>6. ASSUME NEW t \in Threads, LoadStub(t) \/ LoadAdd(t)
      PROVE  Pool!Next
  <2>1. /\ job[t] \in Models /\ job[t] \notin resident
        /\ resident' = resident \cup {job[t]} /\ UNCHANGED lease
    BY <1>6, ModelsAssumption DEF LoadStub, LoadAdd, LoadingIsAbsent, add_model
  <2>2. Pool!Load(job[t])  BY <2>1 DEF Pool!Load
  <2>3. QED  BY <2>1, <2>2 DEF Pool!Next
<1>7. ASSUME NEW t \in Threads, UnloadRemove(t)
      PROVE  Pool!Next
  <2>1. /\ remove_model(job[t]) /\ UNCHANGED lease  BY <1>7 DEF UnloadRemove
  <2>2. \A s \in Slots : lease[s] # job[t]  BY <2>1, RemoveCounts
  <2>3. Pool!Unload(job[t]) /\ job[t] \in Models
    BY <1>0, <2>1, <2>2 DEF remove_model, can_remove, Pool!Unload, Pool!Leased
  <2>4. QED  BY <2>3 DEF Pool!Next
<1>8. ASSUME NEW t \in Threads, Quiet(t)
      PROVE  UNCHANGED Pool!vars
  BY <1>1, <1>8, QuietFrame
<1>9. ASSUME NEW m \in Models, IdleTimeout(m)
      PROVE  UNCHANGED Pool!vars
  BY <1>1, <1>9 DEF IdleTimeout
<1>10. CASE UNCHANGED vars
  BY <1>1, <1>10 DEF vars, entryVars
<1>11. QED
  BY <1>2, <1>3, <1>4, <1>5, <1>6, <1>7, <1>8, <1>9, <1>10
  DEF Next, Continue, Call, Quiet

\* The manager, the pool and the RAII leases implement the abstract lease pool.
THEOREM PoolImplemented == Spec => ImplementsLeasePool
<1>1. Init => Pool!Init
  BY DEF Init, Pool!Init, Slots, Pool!Slots
<1>2. LeaseInv /\ LeaseInv' /\ [Next]_vars => [Pool!Next]_(Pool!vars)
  BY PoolStep
<1>3. QED
  BY <1>1, <1>2, LeaseInvariant, PTL DEF Spec, ImplementsLeasePool, Pool!Spec

(***************************************************************************)
(* ResourceBudget.                                                         *)
(***************************************************************************)
USE DEF MB, GB

(***************************************************************************)
(* Arithmetic.                                                             *)
(***************************************************************************)

\* compute_safe_ram_ceiling is a size.
LEMMA CeilingType == Ceiling \in Nat
<1>1. Smaller(BudgetPct, 50) \in Nat
  BY HostAssumption DEF Smaller
<1>2. Total * Smaller(BudgetPct, 50) \in Nat
  BY <1>1, HostAssumption
<1>. QED
  BY <1>2 DEF Ceiling, compute_safe_ram_ceiling

\* The headroom multiplier never asks for less than the file.
LEMMA RequiredCovers ==
  ASSUME NEW f \in Files
  PROVE  Size[f] \in Nat \ {0} /\ Required(f) \in Nat /\ Required(f) >= Size[f]
<1>1. Size[f] \in Nat \ {0}
  BY FilesAssumption
<1>2. PICK n \in Nat : n = Size[f]
  BY <1>1
<1>3. n * HeadroomPct \in Nat /\ n * HeadroomPct >= n * 100
  BY HostAssumption, <1>2
<1>4. (n * HeadroomPct) \div 100 \in Nat /\ (n * HeadroomPct) \div 100 >= n
  BY <1>3
<1>. QED
  BY <1>1, <1>2, <1>4 DEF Required

\* Taking away twice is taking away the sum.
LEMMA MinusTwice ==
  ASSUME NEW a \in Nat, NEW b \in Nat, NEW c \in Nat
  PROVE  Minus(Minus(a, b), c) = Minus(a, b + c)
BY DEF Minus

(***************************************************************************)
(* The loader.  available is exactly what the loaded files leave of the    *)
(* ceiling, a file was loaded as often as some role stands for it, and     *)
(* once a role of low priority was loaded only such roles are left.        *)
(***************************************************************************)
LoaderType ==
    /\ bindings \in [Roles -> ModelIds \cup {NoModelId}] /\ todo \subseteq Roles
    /\ resident_models \in [Roles \cup ModelIds -> Files \cup {NoFile}]
    /\ loads \in [Files -> Nat] /\ weights \in Nat /\ spared \in BOOLEAN
Account == available = Minus(Ceiling, Base + weights)
Standing ==
    /\ \A f \in Files : loads[f] <= 1
    /\ \A f \in Files : loads[f] = 1 <=> \E u \in Roles : resident_models[u] = f
    /\ \A m \in ModelIds : resident_models[m] # NoFile => loads[resident_models[m]] = 1
InOrder ==
    /\ spared => \A u \in todo : Optional(u)
    /\ \A u \in todo : resident_models[u] = NoFile
LInv == LoaderType /\ Account /\ Standing /\ InOrder /\ OptionalFits

\* A role that is wanted has a file.
LEMMA WantedFile ==
  ASSUME LoaderType, NEW r \in Roles, Wanted(r)
  PROVE  bindings[r] \in ModelIds /\ Path(r) \in Files /\ Path(r) # NoFile
BY FilesAssumption DEF LoaderType, Wanted, Path, Files

LEMMA LInvInit == HostInit => LInv
<1>. SUFFICES ASSUME HostInit PROVE LInv
  OBVIOUS
<1>1. LoaderType
  BY FilesAssumption DEF HostInit, LoaderType
<1>2. Account
  BY CeilingType, HostAssumption DEF HostInit, Account
<1>3. Standing
  BY FilesAssumption DEF HostInit, Standing
<1>. QED
  BY <1>1, <1>2, <1>3 DEF HostInit, LInv, InOrder, OptionalFits

\* Publishing a role under its own and its model's name changes no other name.
LEMMA PublishKeeps ==
  ASSUME LoaderType, NEW r \in Roles, Wanted(r), Publish(r)
  PROVE  /\ resident_models' \in [Roles \cup ModelIds -> Files \cup {NoFile}]
         /\ resident_models'[r] = Path(r) /\ resident_models'[bindings[r]] = Path(r)
         /\ \A u \in Roles : u # r => resident_models'[u] = resident_models[u]
         /\ \A m \in ModelIds : m # bindings[r] => resident_models'[m] = resident_models[m]
BY WantedFile, FilesAssumption DEF LoaderType, Publish

LEMMA SkipRoleL ==
  ASSUME LInv, NEW r \in Roles, SkipRole(r) \/ LoadFails(r)
  PROVE  LInv'
<1>1. todo' \subseteq todo
  BY DEF SkipRole, LoadFails, Turn
<1>2. UNCHANGED <<bindings, resident_models, available, loads, weights, spared>>
  BY DEF SkipRole, LoadFails, Turn
<1>. QED
  BY <1>1, <1>2 DEF LInv, LoaderType, Account, Standing, InOrder, OptionalFits, Optional

LEMMA ShareRoleL ==
  ASSUME LInv, NEW r \in Roles, ShareRole(r)
  PROVE  LInv'
<1>1. LoaderType /\ Wanted(r) /\ Publish(r)
  BY DEF LInv, ShareRole
<1>2. /\ todo' \subseteq todo /\ bindings' = bindings
      /\ UNCHANGED <<available, loads, weights, spared>>
  BY DEF ShareRole, Turn
<1>3. /\ resident_models' \in [Roles \cup ModelIds -> Files \cup {NoFile}]
      /\ resident_models'[r] = Path(r) /\ resident_models'[bindings[r]] = Path(r)
      /\ \A u \in Roles : u # r => resident_models'[u] = resident_models[u]
      /\ \A m \in ModelIds : m # bindings[r] => resident_models'[m] = resident_models[m]
  BY <1>1, PublishKeeps
<1>4. LoaderType' /\ Account' /\ OptionalFits'
  BY <1>2, <1>3 DEF LInv, LoaderType, Account, OptionalFits
<1>5. r \in todo /\ todo' = todo \ {r} /\ resident_models[r] = NoFile
  BY DEF ShareRole, Turn, LInv, InOrder
<1>6. InOrder'
  BY <1>2, <1>3, <1>5 DEF LInv, LoaderType, InOrder, Optional
<1>7. Path(r) \in Files /\ loads[Path(r)] = 1
  BY <1>1, WantedFile DEF LInv, Standing, ShareRole
<1>8. \A f \in Files : loads'[f] = 1 <=> \E u \in Roles : resident_models'[u] = f
  BY <1>2, <1>3, <1>5, <1>7, FilesAssumption DEF LInv, Standing
<1>9. \A m \in ModelIds : resident_models'[m] # NoFile => loads'[resident_models'[m]] = 1
  BY <1>2, <1>3, <1>7 DEF LInv, Standing
<1>. QED
  BY <1>2, <1>4, <1>6, <1>8, <1>9 DEF LInv, Standing

LEMMA LoadRoleL ==
  ASSUME LInv, NEW r \in Roles, LoadRole(r)
  PROVE  LInv'
<1>. DEFINE f == Path(r)
<1>1. LoaderType /\ Wanted(r) /\ Publish(r)
  BY DEF LInv, LoadRole
<1>2. /\ r \in todo /\ todo' = todo \ {r} /\ bindings' = bindings
      /\ \A u \in todo : Priority[r] <= Priority[u]
      /\ \A u \in Roles : resident_models[u] # f
      /\ loads' = [loads EXCEPT ![f] = @ + 1]
      /\ available' = Minus(available, Size[f])
      /\ weights' = weights + Size[f]
      /\ spared' = (spared \/ Optional(r))
  BY DEF LoadRole, Turn
<1>3. /\ resident_models' \in [Roles \cup ModelIds -> Files \cup {NoFile}]
      /\ resident_models'[r] = f /\ resident_models'[bindings[r]] = f
      /\ \A u \in Roles : u # r => resident_models'[u] = resident_models[u]
      /\ \A m \in ModelIds : m # bindings[r] => resident_models'[m] = resident_models[m]
  BY <1>1, PublishKeeps
<1>4. f \in Files /\ bindings[r] \in ModelIds
  BY <1>1, WantedFile
<1>5. Size[f] \in Nat \ {0} /\ Required(f) \in Nat /\ Required(f) >= Size[f]
  BY <1>4, RequiredCovers
<1>6. loads[f] = 0
  <2>1. loads[f] \in Nat /\ loads[f] <= 1 /\ loads[f] # 1
    BY <1>1, <1>2, <1>4 DEF LInv, Standing, LoaderType
  <2>. QED
    BY <2>1
<1>7. loads' \in [Files -> Nat] /\ loads'[f] = 1
      /\ \A g \in Files : g # f => loads'[g] = loads[g]
  BY <1>1, <1>2, <1>4, <1>6 DEF LoaderType
<1>8. LoaderType'
  BY <1>1, <1>2, <1>3, <1>5, <1>7 DEF LoaderType, Optional
<1>9. Account'
  <2>0. Base + weights \in Nat
    BY <1>1, HostAssumption DEF LoaderType
  <2>. PICK a \in Nat, b \in Nat, c \in Nat :
            a = Ceiling /\ b = Base + weights /\ c = Size[f]
    BY <2>0, <1>5, CeilingType, Zenon
  <2>1. Minus(Minus(a, b), c) = Minus(a, b + c)
    BY MinusTwice
  <2>2. (Base + weights) + Size[f] = Base + weights'
    BY <1>1, <1>2, <1>5, HostAssumption DEF LoaderType
  <2>3. available = Minus(Ceiling, Base + weights)
    BY DEF LInv, Account
  <2>4. available' = Minus(Ceiling, Base + weights')
    BY <2>1, <2>2, <2>3, <1>2
  <2>. QED
    BY <2>4 DEF Account
<1>10. Standing'
  <2>1. resident_models[r] = NoFile /\ f # NoFile
    BY <1>1, <1>2, WantedFile DEF LInv, InOrder
  <2>2. \A g \in Files : loads'[g] <= 1
    BY <1>7 DEF LInv, Standing
  <2>3. \A g \in Files : loads'[g] = 1 <=> \E u \in Roles : resident_models'[u] = g
    BY <1>2, <1>3, <1>7, <2>1, FilesAssumption DEF LInv, Standing
  <2>4. \A m \in ModelIds : resident_models'[m] # NoFile => loads'[resident_models'[m]] = 1
    <3>. SUFFICES ASSUME NEW m \in ModelIds, resident_models'[m] # NoFile
                  PROVE  loads'[resident_models'[m]] = 1
      OBVIOUS
    <3>1. CASE m = bindings[r]
      BY <3>1, <1>3, <1>7
    <3>2. CASE m # bindings[r]
      <4>1. resident_models'[m] = resident_models[m] /\ loads[resident_models[m]] = 1 /\ resident_models[m] \in Files
        BY <3>2, <1>1, <1>3 DEF LInv, Standing, LoaderType
      <4>. QED
        BY <4>1, <1>7
    <3>. QED
      BY <3>1, <3>2
  <2>. QED
    BY <2>2, <2>3, <2>4 DEF Standing
<1>11. Optional(r) => \A u \in todo : Optional(u)
  BY <1>1, <1>2, FilesAssumption DEF Optional, LoaderType
<1>12. InOrder'
  BY <1>1, <1>2, <1>3, <1>11 DEF LInv, LoaderType, InOrder, Optional
<1>13. OptionalFits'
  <2>1. spared' => Optional(r)
    BY <1>2 DEF LInv, InOrder
  <2>2. ASSUME Optional(r) PROVE Base + weights' <= Ceiling
    <3>1. available >= Size[f] /\ available = Minus(Ceiling, Base + weights)
      BY <1>1, <1>5, <2>2, CeilingType, HostAssumption
         DEF Wanted, Held, LInv, Account, LoaderType, Minus
    <3>. QED
      BY <3>1, <1>1, <1>2, <1>5, CeilingType, HostAssumption DEF LoaderType, Minus
  <2>. QED
    BY <2>1, <2>2 DEF OptionalFits
<1>. QED
  BY <1>8, <1>9, <1>10, <1>12, <1>13 DEF LInv

\* Requests and other processes do not touch the loader's state.
LEMMA ServeL ==
  ASSUME LInv, Serve \/ HostChanges \/ PagesChange \/ UNCHANGED hostVars
  PROVE  LInv'
<1>1. UNCHANGED <<bindings, loadVars>>
  BY DEF Serve, HostChanges, PagesChange, hostVars, Compile, Found, LoadLazily, NotLoaded,
         GetState, SizeContext, Allocate, Finish, Evict
<1>. QED
  BY <1>1 DEF loadVars, LInv, LoaderType, Account, Standing, InOrder, OptionalFits, Optional

LEMMA LInvNext == LInv /\ [HostNext]_hostVars => LInv'
<1>. SUFFICES ASSUME LInv, [HostNext]_hostVars PROVE LInv'
  OBVIOUS
<1>1. CASE Load
  BY <1>1, SkipRoleL, ShareRoleL, LoadRoleL DEF Load
<1>2. CASE Serve \/ HostChanges \/ PagesChange \/ UNCHANGED hostVars
  BY <1>2, ServeL
<1>. QED
  BY <1>1, <1>2 DEF HostNext

LEMMA LInvAlways == HostSpec => []LInv
<1>. QED
  BY LInvInit, LInvNext, PTL DEF HostSpec

\* The weights of a file are loaded once whatever the registry binds to it, and
\* every name the loader publishes stands for a loaded file (model_loader.cpp:125-173).
THEOREM LoadedOnceCorrect == HostSpec => []LoadedOnce
<1>1. LInv => LoadedOnce
  <2>. SUFFICES ASSUME LInv, NEW k \in Roles \cup ModelIds, resident_models[k] # NoFile
                PROVE  (\A f \in Files : loads[f] <= 1) /\ loads[resident_models[k]] = 1
    BY DEF LInv, Standing, LoadedOnce
  <2>1. resident_models[k] \in Files
    BY DEF LInv, LoaderType
  <2>. QED
    BY <2>1 DEF LInv, Standing
<1>. QED
  BY <1>1, LInvAlways, PTL

\* No role of low priority takes the engine over its ceiling, for every order of
\* roles of equal priority and every file that fails to load (model_loader.cpp:107-155).
THEOREM OptionalCorrect == HostSpec => []OptionalFits
<1>1. LInv => OptionalFits
  BY DEF LInv
<1>. QED
  BY <1>1, LInvAlways, PTL

(***************************************************************************)
(* The plan of a request.                                                  *)
(***************************************************************************)

\* The reserve is a part of the context, and a quarter of it up to rounding.
LEMMA ReserveFacts ==
  ASSUME NEW total \in Nat \ {0}
  PROVE  /\ Reserve(total) \in Nat /\ Reserve(total) < total
         /\ 4 * Reserve(total) >= total - 3
<1>1. PICK q \in Nat : q = total \div 4 /\ 4 * q <= total /\ total <= 4 * q + 3
  OBVIOUS
<1>2. PICK h \in Nat : h = total \div 2 /\ 2 * h <= total /\ total <= 2 * h + 1
  OBVIOUS
<1>. QED
  BY <1>1, <1>2 DEF Reserve, Larger

\* What is divided is divided completely.
LEMMA DivideFacts ==
  ASSUME NEW total, NEW fixed, NEW left \in Nat, NEW d, d = Divide(total, fixed, left)
  PROVE  /\ d.history \in Nat /\ d.code \in Nat /\ d.memory \in Nat /\ d.working \in Nat
         /\ left = d.history + d.code + d.memory + d.working
<1>. DEFINE history == Smaller(left \div 2, 2048)
            aux == left - history
            code == Smaller((aux * 5) \div 10, 2500)
            recall == Smaller((aux * 3) \div 10, 800)
<1>1. left \div 2 \in Nat /\ left \div 2 <= left
  OBVIOUS
<1>2. history \in Nat /\ aux \in Nat
  BY <1>1 DEF Smaller
<1>. HIDE DEF history, aux
<1>3. (aux * 5) \div 10 \in Nat /\ 2 * ((aux * 5) \div 10) <= aux
  BY <1>2
<1>4. (aux * 3) \div 10 \in Nat /\ 10 * ((aux * 3) \div 10) <= 3 * aux
  BY <1>2
<1>5. code \in Nat /\ recall \in Nat /\ 2 * code <= aux /\ 10 * recall <= 3 * aux
  BY <1>2, <1>3, <1>4 DEF Smaller
<1>. HIDE DEF code, recall
<1>6. aux - code - recall \in Nat
  BY <1>2, <1>5
<1>7. left = history + code + recall + (aux - code - recall)
  BY <1>2, <1>5 DEF aux
<1>8. /\ d.history = history /\ d.code = code /\ d.memory = recall
      /\ d.working = aux - code - recall
  BY DEF Divide, history, aux, code, recall
<1>. QED
  BY <1>2, <1>5, <1>6, <1>7, <1>8

\* calculate_budget for every context, system prompt and task.
LEMMA BudgetFacts ==
  ASSUME NEW total \in Nat \ {0}, NEW system \in Nat, NEW task \in Nat
  PROVE  /\ calculate_budget(total, system, task) \in Plan
         /\ AddsUp(calculate_budget(total, system, task), system + task)
<1>. DEFINE fixed == system + task
            left == Minus(total - Reserve(total), fixed)
            p == calculate_budget(total, system, task)
<1>1. /\ Reserve(total) \in Nat /\ Reserve(total) < total
      /\ 4 * Reserve(total) >= total - 3
  BY ReserveFacts
<1>2. /\ total - Reserve(total) \in Nat /\ fixed \in Nat /\ left \in Nat
      /\ fixed + left = Larger(total - Reserve(total), fixed)
  BY <1>1 DEF Minus, Larger
<1>. HIDE DEF left
<1>3. p = Divide(total, fixed, left)
  BY DEF calculate_budget, left
<1>4. /\ p.total = total /\ p.reserve = Reserve(total)
      /\ p.max_input = total - Reserve(total) /\ p.allocated = fixed + left
  BY <1>3 DEF Divide
<1>5. /\ p.history \in Nat /\ p.code \in Nat /\ p.memory \in Nat /\ p.working \in Nat
      /\ left = p.history + p.code + p.memory + p.working
  BY <1>2, <1>3, DivideFacts
<1>6. p \in Plan
  BY <1>1, <1>2, <1>3, <1>4, <1>5 DEF Divide, Plan
<1>7. AddsUp(p, fixed)
  BY <1>1, <1>2, <1>4, <1>5 DEF AddsUp
<1>. QED
  BY <1>6, <1>7

PInv ==
    /\ shape \in [Sessions -> [system : Nat, task : Nat, history : Seq(Nat)]]
    /\ plan \in [Sessions -> Plan] /\ PlanAddsUp

\* The engine never compiles for an empty context, whatever the stage.
LEMMA CapFacts == \A simple \in BOOLEAN : ContextCap(simple) \in Nat \ {0}
BY RequestsAssumption DEF ContextCap, Smaller

\* The plan of no request adds up too.
LEMMA NoPlanFacts ==
  /\ NoPlan \in Plan /\ AddsUp(NoPlan, NoShape.system + NoShape.task)
  /\ NoShape \in [system : Nat, task : Nat, history : Seq(Nat)]
<1>1. NoPlan \in Plan /\ AddsUp(NoPlan, 0 + 0)
  BY BudgetFacts, RequestsAssumption DEF NoPlan
<1>2. NoShape \in [system : Nat, task : Nat, history : Seq(Nat)]
  BY DEF NoShape
<1>3. NoShape.system = 0 /\ NoShape.task = 0
  BY DEF NoShape
<1>. QED
  BY <1>1, <1>2, <1>3

LEMMA PInvInit == HostInit => PInv
BY NoPlanFacts DEF HostInit, PInv, PlanAddsUp

LEMMA RespondP ==
  ASSUME PInv, NEW s \in Sessions, Respond(s)
  PROVE  PInv'
<1>1. shape' = [shape EXCEPT ![s] = NoShape] /\ plan' = [plan EXCEPT ![s] = NoPlan]
  BY DEF Respond
<1>2. /\ shape' \in [Sessions -> [system : Nat, task : Nat, history : Seq(Nat)]]
      /\ plan' \in [Sessions -> Plan]
  BY <1>1, NoPlanFacts DEF PInv
<1>3. ASSUME NEW u \in Sessions PROVE AddsUp(plan'[u], shape'[u].system + shape'[u].task)
  <2>1. CASE u = s
    <3>1. plan'[u] = NoPlan /\ shape'[u] = NoShape
      BY <2>1, <1>1 DEF PInv
    <3>. QED
      BY <3>1, NoPlanFacts
  <2>2. CASE u # s
    <3>1. plan'[u] = plan[u] /\ shape'[u] = shape[u]
      BY <2>2, <1>1 DEF PInv
    <3>. QED
      BY <3>1 DEF PInv, PlanAddsUp
  <2>. QED
    BY <2>1, <2>2
<1>. QED
  BY <1>2, <1>3 DEF PInv, PlanAddsUp

LEMMA CompileP ==
  ASSUME PInv, NEW s \in Sessions, Compile(s)
  PROVE  PInv'
<1>1. PICK q \in Shapes, simple \in BOOLEAN :
        /\ shape' = [shape EXCEPT ![s] = q]
        /\ plan' = [plan EXCEPT ![s] = calculate_budget(ContextCap(simple), q.system, q.task)]
  BY DEF Compile
<1>2. /\ q \in [system : Nat, task : Nat, history : Seq(Nat)]
      /\ q.system \in Nat /\ q.task \in Nat
  BY RequestsAssumption
<1>3. PICK c \in Nat \ {0}, y \in Nat, t \in Nat :
        c = ContextCap(simple) /\ y = q.system /\ t = q.task
  BY <1>2, CapFacts, Zenon
<1>b. PICK p : p = calculate_budget(c, y, t)
  OBVIOUS
<1>4. p \in Plan /\ AddsUp(p, y + t)
  BY <1>b, BudgetFacts
<1>5. /\ shape' = [shape EXCEPT ![s] = q]
      /\ plan' = [plan EXCEPT ![s] = p]
  BY <1>1, <1>3, <1>b
<1>6. /\ shape' \in [Sessions -> [system : Nat, task : Nat, history : Seq(Nat)]]
      /\ plan' \in [Sessions -> Plan]
  BY <1>2, <1>4, <1>5 DEF PInv
<1>7. ASSUME NEW u \in Sessions PROVE AddsUp(plan'[u], shape'[u].system + shape'[u].task)
  <2>1. CASE u = s
    <3>1. plan'[u] = p /\ shape'[u] = q
      BY <2>1, <1>5 DEF PInv
    <3>. QED
      BY <3>1, <1>3, <1>4
  <2>2. CASE u # s
    <3>1. plan'[u] = plan[u] /\ shape'[u] = shape[u]
      BY <2>2, <1>5 DEF PInv
    <3>. QED
      BY <3>1 DEF PInv, PlanAddsUp
  <2>. QED
    BY <2>1, <2>2
<1>. QED
  BY <1>6, <1>7 DEF PInv, PlanAddsUp

LEMMA PInvNext == PInv /\ [HostNext]_hostVars => PInv'
<1>. SUFFICES ASSUME PInv, [HostNext]_hostVars PROVE PInv'
  OBVIOUS
<1>1. ASSUME NEW s \in Sessions, Compile(s) PROVE PInv'
  BY <1>1, CompileP
<1>2. CASE UNCHANGED <<shape, plan>>
  BY <1>2 DEF PInv, PlanAddsUp
<1>3. Load \/ HostChanges \/ PagesChange \/ UNCHANGED hostVars => UNCHANGED <<shape, plan>>
  BY DEF Load, HostChanges, PagesChange, hostVars, turnVars, SkipRole, ShareRole, LoadRole,
         LoadFails, Turn
<1>4. ASSUME NEW s \in Sessions,
             Found(s) \/ LoadLazily(s) \/ GetState(s) \/ Allocate(s) \/ Evict(s)
      PROVE  UNCHANGED <<shape, plan>>
  BY <1>4 DEF Found, LoadLazily, GetState, Allocate, Evict
<1>5. ASSUME NEW s \in Sessions, NotLoaded(s) \/ SizeContext(s) \/ Finish(s)
      PROVE  Respond(s) \/ UNCHANGED <<shape, plan>>
  BY <1>5 DEF NotLoaded, SizeContext, Finish
<1>. QED
  BY <1>1, <1>2, <1>3, <1>4, <1>5, RespondP DEF HostNext, Serve

\* The plan of a request adds up for every context window, eviction stage, system
\* prompt and task (context_budgeter.cpp:4-47, context_engine.cpp:26-39).
THEOREM PlanCorrect == HostSpec => []PlanAddsUp
<1>1. PInv => PlanAddsUp
  BY DEF PInv
<1>. QED
  BY <1>1, PInvInit, PInvNext, PTL DEF HostSpec

(***************************************************************************)
(* The K/V cache.                                                          *)
(***************************************************************************)

\* A whole part times its size is within the whole.
LEMMA DivFits ==
  ASSUME NEW b \in Nat, NEW t \in Nat \ {0}
  PROVE  b \div t \in Nat /\ (b \div t) * t <= b
OBVIOUS

LEMMA TimesNat == \A x, y \in Nat : x * y \in Nat
OBVIOUS

LEMMA MinusMonotone ==
  ASSUME NEW a \in Nat, NEW b \in Nat, NEW c \in Nat, b <= c
  PROVE  Minus(a, b) \in Nat /\ Minus(a, c) \in Nat /\ Minus(a, c) <= Minus(a, b)
BY DEF Minus

LEMMA TimesMonotone ==
  ASSUME NEW a \in Nat, NEW b \in Nat, NEW t \in Nat, a <= b
  PROVE  a * t \in Nat /\ a * t <= b * t
OBVIOUS

\* Nine tenths of the smaller headroom are within the headroom of the ceiling.
LEMMA BudgetWithin ==
  ASSUME NEW avail \in Nat, NEW rss \in Nat
  PROVE  KvBudget(avail, rss) \in Nat /\ KvBudget(avail, rss) <= Minus(Ceiling, rss)
<1>1. Minus(Ceiling, rss) \in Nat /\ Minus(avail, GB) \in Nat
  BY CeilingType DEF Minus
<1>2. PICK n \in Nat : /\ n = Smaller(Minus(Ceiling, rss), Minus(avail, GB))
                       /\ n <= Minus(Ceiling, rss)
  BY <1>1 DEF Smaller
<1>3. (n * 9) \div 10 \in Nat /\ (n * 9) \div 10 <= n
  BY <1>2
<1>. QED
  BY <1>1, <1>2, <1>3 DEF KvBudget

\* The tokens calculate_dynamic_context_tokens answers fit the budget it computed.
LEMMA TokensFit ==
  ASSUME NEW avail \in Nat, NEW rss \in Nat,
         NEW n, n = calculate_dynamic_context_tokens(avail, rss)
  PROVE  n \in Nat /\ n * TokenSize <= Minus(Ceiling, rss)
<1>. DEFINE large == {k \in {65536, 32768, 16384} : KvBudget(avail, rss) >= k * TokenSize}
<1>1. PICK b \in Nat : b = KvBudget(avail, rss) /\ b <= Minus(Ceiling, rss)
  BY BudgetWithin
<1>2. Minus(Ceiling, rss) \in Nat /\ TokenSize \in Nat \ {0}
  BY CeilingType, RequestsAssumption DEF Minus
<1>3. CASE large # {}
  <2>1. n = CHOOSE k \in large : \A j \in large : j <= k
    BY <1>3 DEF calculate_dynamic_context_tokens
  <2>2. \E k \in large : \A j \in large : j <= k
    <3>1. large \subseteq {65536, 32768, 16384}
      OBVIOUS
    <3>. HIDE DEF large
    <3>2. CASE 65536 \in large
      BY <3>1, <3>2
    <3>3. CASE 65536 \notin large /\ 32768 \in large
      BY <3>1, <3>3
    <3>4. CASE 65536 \notin large /\ 32768 \notin large
      <4>1. \A k \in large : k = 16384
        BY <3>1, <3>4
      <4>. QED
        BY <4>1, <1>3
    <3>. QED
      BY <3>2, <3>3, <3>4
  <2>3. n \in large
    BY <2>1, <2>2
  <2>4. n \in Nat /\ n * TokenSize <= b
    BY <2>3, <1>1, <1>2
  <2>. QED
    BY <2>4, <1>1, <1>2
<1>4. CASE large = {}
  <2>1. PICK q \in Nat : q = b \div TokenSize /\ q * TokenSize <= b
    BY <1>1, <1>2, DivFits
  <2>2. PICK k \in Nat : k = (q \div 1024) * 1024 /\ k <= q
    BY <2>1
  <2>3. n = Smaller(k, 8192)
    BY <1>1, <1>4, <2>1, <2>2 DEF calculate_dynamic_context_tokens
  <2>4. n \in Nat /\ n <= q
    BY <2>2, <2>3 DEF Smaller
  <2>5. n * TokenSize \in Nat /\ n * TokenSize <= q * TokenSize
    BY <2>1, <2>4, <1>2, TimesMonotone
  <2>. QED
    BY <2>1, <2>4, <2>5, <1>1, <1>2
<1>. QED
  BY <1>3, <1>4

RowsType ==
    /\ todo \subseteq Roles /\ weights \in Nat /\ others \in Others
    /\ lazy \subseteq ModelIds /\ extra \in Nat /\ share \in Shares /\ seen \in Nat
    /\ at \in [Sessions -> {"idle", "load", "get", "size", "alloc", "run"}]
    /\ ctx \in [Sessions -> Nat] /\ rows \in [Sessions -> Nat]
    /\ grown \in [Sessions -> Nat] /\ disk \in [Sessions -> Nat]
    /\ overlap \in BOOLEAN /\ restored \in BOOLEAN

\* Between its reading and its allocation a request has its memory to itself.
Room ==
    ~overlap /\ ~restored =>
       /\ KvTokens > 0 => Private + seen <= Ceiling
       /\ \A s \in Sessions :
             at[s] = "alloc" /\ rows[s] = 0 => Private + seen + ctx[s] * TokenSize <= Ceiling
       /\ \A s, u \in Sessions : at[s] = "alloc" /\ at[u] = "alloc" => s = u
KInv == RowsType /\ Room

\* What the engine uses is a size.
LEMMA PrivateFacts ==
  ASSUME rows \in [Sessions -> Nat]
  PROVE  /\ KvTokens \in Nat /\ Private \in Nat
         /\ (\A s \in Sessions : rows[s] = 0) => KvTokens = 0
<1>1. KvTokens = SumFunctionOnSet(rows, Sessions)
  BY DEF KvTokens, SumFunction
<1>2. /\ KvTokens \in Nat
      /\ (\A s \in Sessions : rows[s] = 0) => KvTokens = 0
  BY <1>1, RequestsAssumption, SumFacts
<1>3. KvTokens * TokenSize \in Nat
  BY <1>2, RequestsAssumption
<1>. QED
  BY <1>2, <1>3, HostAssumption DEF Private

LEMMA RssFacts ==
  ASSUME weights \in Nat, extra \in Nat, share \in Shares, rows \in [Sessions -> Nat]
  PROVE  Paged \in Nat /\ Rss \in Nat
<1>1. PICK f \in Nat, p \in Nat : f = weights + extra /\ p = share
  BY FilesAssumption
<1>2. f * p \in Nat
  BY TimesNat
<1>3. (f * p) \div 100 \in Nat
  BY <1>2
<1>4. Paged \in Nat
  BY <1>1, <1>3 DEF Paged
<1>. QED
  BY <1>4, PrivateFacts DEF Rss

\* What a change of one session's rows does to it.
LEMMA PrivateChanges ==
  ASSUME rows \in [Sessions -> Nat],
         NEW s \in Sessions, NEW n \in Nat, rows' = [rows EXCEPT ![s] = n]
  PROVE  /\ KvTokens \in Nat /\ KvTokens' \in Nat /\ KvTokens' + rows[s] = KvTokens + n
         /\ Private \in Nat /\ Private' \in Nat
         /\ Private' + rows[s] * TokenSize = Private + n * TokenSize
<1>1. rows' \in [Sessions -> Nat] /\ rows'[s] = n
      /\ \A u \in Sessions \ {s} : rows'[u] = rows[u]
  OBVIOUS
<1>2. KvTokens = SumFunctionOnSet(rows, Sessions) /\ KvTokens' = SumFunctionOnSet(rows', Sessions)
  BY <1>1 DEF KvTokens, SumFunction
<1>3. SumFunctionOnSet(rows', Sessions) + rows[s] = SumFunctionOnSet(rows, Sessions) + rows'[s]
  <2>1. PICK g : g = rows'
    OBVIOUS
  <2>2. /\ \A u \in Sessions : rows[u] \in Nat /\ g[u] \in Nat
        /\ \A u \in Sessions \ {s} : g[u] = rows[u]
    BY <2>1, <1>1
  <2>3. SumFunctionOnSet(g, Sessions) + rows[s] = SumFunctionOnSet(rows, Sessions) + g[s]
    BY <2>2, RequestsAssumption, SumChanges
  <2>. QED
    BY <2>1, <2>3
<1>4. KvTokens \in Nat /\ KvTokens' \in Nat
  BY <1>1, <1>2, RequestsAssumption, SumFacts
<1>5. PICK k \in Nat, j \in Nat, r \in Nat, t \in Nat :
        k = KvTokens /\ j = KvTokens' /\ r = rows[s] /\ t = TokenSize
  <2>1. rows[s] \in Nat /\ TokenSize \in Nat
    BY RequestsAssumption
  <2>. QED
    BY <1>4, <2>1, Zenon
<1>6. j + r = k + n
  BY <1>1, <1>2, <1>3, <1>5
<1>7. j * t + r * t = k * t + n * t
  <2>1. (j + r) * t = j * t + r * t /\ (k + n) * t = k * t + n * t
    BY <1>5
  <2>. QED
    BY <1>6, <2>1
<1>8. Private = Base + k * t /\ Private' = Base + j * t
  BY <1>5 DEF Private
<1>9. k * t \in Nat /\ j * t \in Nat /\ r * t \in Nat /\ n * t \in Nat
  BY <1>5, TimesNat
<1>10. PICK x \in Nat, y \in Nat : x = Private /\ y = Private' /\ x = Base + k * t /\ y = Base + j * t
  <2>1. Base + k * t \in Nat /\ Base + j * t \in Nat
    BY <1>9, HostAssumption
  <2>. QED
    BY <1>8, <2>1, Zenon
<1>11. y + r * t = x + n * t
  BY <1>7, <1>9, <1>10, HostAssumption
<1>12. Private \in Nat /\ Private' \in Nat
  BY <1>10, Zenon
<1>13. Private' + rows[s] * TokenSize = Private + n * TokenSize
  BY <1>5, <1>10, <1>11, Zenon
<1>14. KvTokens' + rows[s] = KvTokens + n
  BY <1>5, <1>6, Zenon
<1>. QED
  BY <1>4, <1>12, <1>13, <1>14, Zenon

\* A request that changes neither memory nor enters the allocation.
LEMMA KInvQuiet ==
  ASSUME KInv, RowsType', UNCHANGED <<rows, overlap, restored, seen>>,
         \A s \in Sessions : at'[s] = "alloc" => at[s] = "alloc" /\ ctx'[s] = ctx[s]
  PROVE  KInv'
<1>1. Private' = Private /\ KvTokens' = KvTokens
  BY DEF Private, KvTokens
<1>2. Room'
  BY <1>1 DEF KInv, Room
<1>. QED
  BY <1>2 DEF KInv

LEMMA KInvInit == HostInit => KInv
<1>. SUFFICES ASSUME HostInit PROVE KInv
  OBVIOUS
<1>1. RowsType
  BY DEF HostInit, RowsType
<1>2. KvTokens = 0
  BY <1>1, PrivateFacts DEF RowsType, HostInit
<1>3. Room
  BY <1>2 DEF HostInit, Room
<1>. QED
  BY <1>1, <1>3 DEF KInv

\* The loader's steps, and the host's: they take pages, not rows.
LEMMA OutsideK ==
  ASSUME KInv, LoaderType, Load \/ HostChanges \/ PagesChange \/ UNCHANGED hostVars
  PROVE  KInv'
<1>1. ASSUME NEW r \in Roles, LoadRole(r) PROVE KInv'
  <2>1. /\ todo' \subseteq todo /\ weights' = weights + Size[Path(r)]
        /\ UNCHANGED <<others, lazy, extra, share, at, ctx, rows, grown, disk, overlap,
                       restored, seen>>
    BY <1>1 DEF LoadRole, Turn, turnVars, fileVars
  <2>2. Size[Path(r)] \in Nat
    BY <1>1, WantedFile, RequiredCovers DEF LoadRole
  <2>3. RowsType'
    BY <2>1, <2>2 DEF KInv, RowsType
  <2>. QED
    BY <2>1, <2>3, KInvQuiet
<1>2. ASSUME NEW r \in Roles, SkipRole(r) \/ ShareRole(r) \/ LoadFails(r) PROVE KInv'
  <2>1. /\ todo' \subseteq todo
        /\ UNCHANGED <<weights, others, lazy, extra, share, at, ctx, rows, grown, disk,
                       overlap, restored, seen>>
    BY <1>2 DEF SkipRole, ShareRole, LoadFails, Turn, turnVars, fileVars
  <2>2. RowsType'
    BY <2>1 DEF KInv, RowsType
  <2>. QED
    BY <2>1, <2>2, KInvQuiet
<1>3. CASE HostChanges \/ PagesChange \/ UNCHANGED hostVars
  <2>1. /\ others' \in Others /\ share' \in Shares
        /\ UNCHANGED <<todo, weights, lazy, extra, at, ctx, rows, grown, disk, overlap,
                       restored, seen>>
    BY <1>3 DEF HostChanges, PagesChange, hostVars, loadVars, fileVars, turnVars, KInv, RowsType
  <2>2. RowsType'
    BY <2>1 DEF KInv, RowsType
  <2>. QED
    BY <2>1, <2>2, KInvQuiet
<1>. QED
  BY <1>1, <1>2, <1>3 DEF Load

\* The steps of a request that neither read nor allocate.
LEMMA OtherK ==
  ASSUME KInv, NEW s \in Sessions,
         Compile(s) \/ Found(s) \/ LoadLazily(s) \/ NotLoaded(s) \/ Finish(s)
  PROVE  KInv'
<1>1. CASE Compile(s) \/ Found(s)
  <2>1. /\ at' = [at EXCEPT ![s] = "load"] \/ at' = [at EXCEPT ![s] = "get"]
        /\ UNCHANGED <<todo, weights, others, lazy, extra, share, ctx, rows, grown, disk,
                       overlap, restored, seen>>
    BY <1>1 DEF Compile, Found, Move, loadVars, fileVars
  <2>2. RowsType'
    BY <2>1 DEF KInv, RowsType
  <2>3. \A u \in Sessions : at'[u] = "alloc" => at[u] = "alloc"
    BY <2>1 DEF KInv, RowsType
  <2>. QED
    BY <2>1, <2>2, <2>3, KInvQuiet
<1>2. CASE LoadLazily(s)
  <2>1. PICK m \in Named : lazy' = lazy \cup {m} /\ extra' = extra + Size[File[m]]
    BY <1>2 DEF LoadLazily
  <2>2. /\ at' = [at EXCEPT ![s] = "get"]
        /\ UNCHANGED <<todo, weights, others, share, ctx, rows, grown, disk, overlap,
                       restored, seen>>
    BY <1>2 DEF LoadLazily, Move, loadVars
  <2>3. m \in ModelIds /\ Size[File[m]] \in Nat
    BY FilesAssumption DEF Files
  <2>4. RowsType'
    BY <2>1, <2>2, <2>3 DEF KInv, RowsType
  <2>5. \A u \in Sessions : at'[u] = "alloc" => at[u] = "alloc"
    BY <2>2 DEF KInv, RowsType
  <2>. QED
    BY <2>2, <2>4, <2>5, KInvQuiet
<1>3. CASE NotLoaded(s) \/ Finish(s)
  <2>1. /\ at' = [at EXCEPT ![s] = "idle"] /\ ctx' = [ctx EXCEPT ![s] = 0]
        /\ disk' = disk \/ disk' = [disk EXCEPT ![s] = grown[s]]
        /\ UNCHANGED <<todo, weights, others, lazy, extra, share, rows, grown, overlap,
                       restored, seen>>
    BY <1>3 DEF NotLoaded, Finish, Respond, Move, loadVars, fileVars
  <2>2. RowsType'
    BY <2>1 DEF KInv, RowsType
  <2>3. \A u \in Sessions : at'[u] = "alloc" => at[u] = "alloc" /\ ctx'[u] = ctx[u]
    BY <2>1 DEF KInv, RowsType
  <2>. QED
    BY <2>1, <2>2, <2>3, KInvQuiet
<1>. QED
  BY <1>1, <1>2, <1>3

LEMMA GetStateK ==
  ASSUME KInv, NEW s \in Sessions, GetState(s)
  PROVE  KInv'
<1>1. /\ at[s] = "get" /\ at' = [at EXCEPT ![s] = "size"]
      /\ UNCHANGED <<todo, weights, others, lazy, extra, share, ctx, disk, overlap, seen>>
  BY DEF GetState, Move, loadVars, fileVars
<1>2. CASE /\ rows' = [rows EXCEPT ![s] = disk[s]] /\ grown' = [grown EXCEPT ![s] = disk[s]]
           /\ restored' = TRUE
  BY <1>1, <1>2 DEF KInv, RowsType, Room
<1>3. CASE UNCHANGED <<rows, grown, restored>>
  <2>1. RowsType'
    BY <1>1, <1>3 DEF KInv, RowsType
  <2>2. \A u \in Sessions : at'[u] = "alloc" => at[u] = "alloc"
    BY <1>1 DEF KInv, RowsType
  <2>. QED
    BY <1>1, <1>3, <2>1, <2>2, KInvQuiet
<1>. QED
  BY <1>2, <1>3 DEF GetState

\* A reading that gives room gives it beside everything the reading saw.
LEMMA SizeContextK ==
  ASSUME KInv, NEW s \in Sessions, SizeContext(s)
  PROVE  KInv'
<1>. DEFINE budget == Smaller(calculate_dynamic_context_tokens(Available, Rss), Window)
<1>1. /\ at[s] = "size"
      /\ UNCHANGED <<todo, weights, others, lazy, extra, share, rows, grown, disk, restored>>
  BY DEF SizeContext, loadVars, fileVars
<1>2. /\ Rss \in Nat /\ Private \in Nat /\ Paged \in Nat /\ Rss = Private + Paged
      /\ Private' = Private /\ KvTokens' = KvTokens
  BY <1>1, RssFacts, PrivateFacts DEF KInv, RowsType, Rss, Private, KvTokens
<1>3. Available \in Nat
  BY <1>2, HostAssumption DEF Available, Minus, KInv, RowsType
<1>4. PICK n \in Nat : /\ n = calculate_dynamic_context_tokens(Available, Rss)
                       /\ n * TokenSize <= Minus(Ceiling, Rss)
  BY <1>2, <1>3, TokensFit
<1>5. budget \in Nat /\ budget <= n
  BY <1>4, RequestsAssumption DEF Smaller
<1>. HIDE DEF budget
<1>6. budget * TokenSize \in Nat /\ budget * TokenSize <= n * TokenSize
  BY <1>5, RequestsAssumption, TimesMonotone
<1>7. CASE budget < 2
  <2>1. /\ at' = [at EXCEPT ![s] = "idle"] /\ ctx' = [ctx EXCEPT ![s] = 0]
        /\ UNCHANGED <<overlap, seen>>
    BY <1>7 DEF SizeContext, Respond, Move, budget
  <2>2. RowsType'
    BY <1>1, <2>1 DEF KInv, RowsType
  <2>3. \A u \in Sessions : at'[u] = "alloc" => at[u] = "alloc" /\ ctx'[u] = ctx[u]
    BY <2>1 DEF KInv, RowsType
  <2>. QED
    BY <1>1, <2>1, <2>2, <2>3, KInvQuiet
<1>8. CASE ~(budget < 2)
  <2>1. /\ ctx' = [ctx EXCEPT ![s] = budget] /\ seen' = Paged
        /\ overlap' = (overlap \/ \E u \in Sessions : at[u] = "alloc")
        /\ at' = [at EXCEPT ![s] = "alloc"]
    BY <1>8 DEF SizeContext, Move, budget
  <2>2. RowsType'
    BY <1>1, <1>2, <1>5, <2>1 DEF KInv, RowsType
  <2>3. Private + Paged + budget * TokenSize <= Ceiling
    <3>1. PICK c \in Nat, b \in Nat, t \in Nat : c = Ceiling /\ b = budget /\ t = TokenSize /\ t >= 1
      BY <1>5, CeilingType, RequestsAssumption
    <3>2. b * t >= 1
      BY <1>8, <3>1
    <3>3. budget * TokenSize >= 1
      BY <3>1, <3>2
    <3>4. budget * TokenSize <= Minus(Ceiling, Rss)
      BY <1>2, <1>4, <1>6, CeilingType, RequestsAssumption DEF Minus
    <3>. QED
      BY <3>3, <3>4, <1>2, <1>6, CeilingType DEF Minus
  <2>4. ASSUME ~overlap', ~restored' PROVE
           /\ Private' + seen' <= Ceiling
           /\ Private' + seen' + ctx'[s] * TokenSize <= Ceiling
           /\ \A u \in Sessions : at'[u] = "alloc" => u = s
    <3>1. ctx'[s] = budget /\ \A u \in Sessions : at'[u] = "alloc" => u = s
      BY <2>1, <2>4 DEF KInv, RowsType
    <3>. QED
      BY <1>2, <1>6, <2>1, <2>3, <3>1, CeilingType
  <2>. QED
    BY <2>2, <2>4 DEF KInv, Room
<1>. QED
  BY <1>7, <1>8

LEMMA AllocateK ==
  ASSUME KInv, NEW s \in Sessions, Allocate(s)
  PROVE  KInv'
<1>1. /\ at[s] = "alloc" /\ at' = [at EXCEPT ![s] = "run"]
      /\ rows' = [rows EXCEPT ![s] = IF @ = 0 THEN ctx[s] ELSE @]
      /\ grown' = [grown EXCEPT ![s] = Larger(@, ctx[s])]
      /\ UNCHANGED <<todo, weights, others, lazy, extra, share, ctx, disk, overlap,
                     restored, seen>>
  BY DEF Allocate, Move, loadVars, fileVars
<1>2. RowsType'
  BY <1>1 DEF KInv, RowsType, Larger
<1>3. ASSUME ~overlap, ~restored PROVE
         /\ KvTokens' > 0 => Private' + seen <= Ceiling
         /\ \A u \in Sessions : at'[u] # "alloc"
  <2>1. \A u \in Sessions : at'[u] # "alloc"
    BY <1>1, <1>3 DEF KInv, RowsType, Room
  <2>2. CASE rows[s] = 0
    <3>1. rows' = [rows EXCEPT ![s] = ctx[s]] /\ ctx[s] \in Nat
      BY <1>1, <2>2 DEF KInv, RowsType
    <3>2. /\ Private' + rows[s] * TokenSize = Private + ctx[s] * TokenSize
          /\ Private \in Nat /\ Private' \in Nat
      BY <3>1, PrivateChanges DEF KInv, RowsType
    <3>3. rows[s] * TokenSize = 0 /\ ctx[s] * TokenSize \in Nat /\ seen \in Nat
      BY <2>2, <3>1, RequestsAssumption DEF KInv, RowsType
    <3>4. Private + seen + ctx[s] * TokenSize <= Ceiling
      BY <1>1, <1>3, <2>2 DEF KInv, Room
    <3>. QED
      BY <2>1, <3>2, <3>3, <3>4, CeilingType
  <2>3. CASE rows[s] # 0
    <3>1. rows' = rows
      BY <1>1, <2>3 DEF KInv, RowsType
    <3>2. Private' = Private /\ KvTokens' = KvTokens
      BY <3>1 DEF Private, KvTokens
    <3>. QED
      BY <2>1, <3>2, <1>3 DEF KInv, Room
  <2>. QED
    BY <2>2, <2>3
<1>4. Room'
  BY <1>1, <1>3 DEF Room
<1>. QED
  BY <1>2, <1>4 DEF KInv

LEMMA EvictK ==
  ASSUME KInv, NEW s \in Sessions, Evict(s)
  PROVE  KInv'
<1>1. /\ at[s] = "idle" /\ rows[s] > 0
      /\ rows' = [rows EXCEPT ![s] = 0] /\ grown' = [grown EXCEPT ![s] = 0]
      /\ UNCHANGED <<todo, weights, others, lazy, extra, share, at, ctx, disk, overlap,
                     restored, seen>>
  BY DEF Evict, loadVars, fileVars
<1>2. RowsType'
  BY <1>1 DEF KInv, RowsType
<1>3. /\ KvTokens \in Nat /\ KvTokens' \in Nat /\ KvTokens' + rows[s] = KvTokens + 0
      /\ Private \in Nat /\ Private' \in Nat
      /\ Private' + rows[s] * TokenSize = Private + 0 * TokenSize
  BY <1>1, PrivateChanges DEF KInv, RowsType
<1>4. Private' <= Private /\ (KvTokens' > 0 => KvTokens > 0)
  <2>1. rows[s] \in Nat /\ rows[s] * TokenSize \in Nat /\ 0 * TokenSize = 0
    BY RequestsAssumption DEF KInv, RowsType
  <2>. QED
    BY <1>3, <2>1
<1>5. Room'
  <2>. SUFFICES ASSUME ~overlap, ~restored
       PROVE /\ KvTokens' > 0 => Private' + seen <= Ceiling
             /\ \A u \in Sessions : at[u] = "alloc" /\ rows'[u] = 0 =>
                   Private' + seen + ctx[u] * TokenSize <= Ceiling
             /\ \A v, u \in Sessions : at[v] = "alloc" /\ at[u] = "alloc" => v = u
    BY <1>1 DEF Room
  <2>1. PICK c \in Nat, p \in Nat, q \in Nat, e \in Nat :
          c = Ceiling /\ p = Private /\ q = Private' /\ e = seen /\ q <= p
    BY <1>3, <1>4, CeilingType DEF KInv, RowsType
  <2>2. KvTokens' > 0 => q + e <= c
    <3>1. KvTokens' > 0 => p + e <= c
      BY <1>4, <2>1 DEF KInv, Room
    <3>2. \A i, j, k, l \in Nat : i <= j /\ j + k <= l => i + k <= l
      OBVIOUS
    <3>3. p + e <= c => q + e <= c
      BY <2>1, <3>2, Zenon
    <3>. QED
      BY <3>1, <3>3, Zenon
  <2>3. ASSUME NEW u \in Sessions, at[u] = "alloc", rows'[u] = 0
        PROVE  q + e + ctx[u] * TokenSize <= c
    <3>1. rows[u] = 0
      BY <2>3, <1>1 DEF KInv, RowsType
    <3>2. p + e + ctx[u] * TokenSize <= c
      BY <2>1, <2>3, <3>1 DEF KInv, Room
    <3>3. ctx[u] * TokenSize \in Nat
      BY RequestsAssumption DEF KInv, RowsType
    <3>. QED
      BY <2>1, <3>2, <3>3
  <2>4. \A v, u \in Sessions : at[v] = "alloc" /\ at[u] = "alloc" => v = u
    BY DEF KInv, Room
  <2>. QED
    BY <2>1, <2>2, <2>3, <2>4
<1>. QED
  BY <1>2, <1>5 DEF KInv

LEMMA KInvNext == LInv /\ KInv /\ [HostNext]_hostVars => KInv'
<1>. SUFFICES ASSUME LInv, KInv, [HostNext]_hostVars PROVE KInv'
  OBVIOUS
<1>1. CASE Load \/ HostChanges \/ PagesChange \/ UNCHANGED hostVars
  BY <1>1, OutsideK DEF LInv
<1>2. CASE Serve
  BY <1>2, OtherK, GetStateK, SizeContextK, AllocateK, EvictK DEF Serve
<1>. QED
  BY <1>1, <1>2 DEF HostNext

LEMMA KInvAlways == HostSpec => []KInv
<1>. QED
  BY KInvInit, KInvNext, LInvAlways, PTL DEF HostSpec

\* The K/V cache fits the ceiling beside what the last reading saw, for every host,
\* number of sessions, size of token, order of requests, and however files are
\* mapped and paged meanwhile, unless two requests overlapped or a state came from a
\* file (resource_governor.cpp:168-199, ModelEngine.cpp:181-235, infer.cpp:395-401).
THEOREM KvCorrect == HostSpec => []KvWithinReading
<1>1. KInv => KvWithinReading
  BY DEF KInv, Room, KvWithinReading
<1>. QED
  BY <1>1, KInvAlways, PTL

(***************************************************************************)
(* The eviction stage.                                                     *)
(***************************************************************************)

\* Less memory and more use reach every stage that was reached before.
LEMMA ReachedMonotone ==
  ASSUME NEW a \in Nat, NEW b \in Nat, NEW r \in Nat, NEW q \in Nat, b <= a, r <= q,
         NEW i \in 0..6, Reached(i, a, r)
  PROVE  Reached(i, b, q)
<1>1. ASSUME i # 0, Below(a, i) PROVE Below(b, i)
  <2>1. i \in 1..6
    BY <1>1
  <2>2. Limits[i][1] \in Nat /\ Limits[i][2] \in Nat
    BY <2>1 DEF Limits
  <2>3. Limits[i][1] * Total \in Nat /\ Limits[i][2] * MB \in Nat
    BY <2>2, TimesNat, HostAssumption
  <2>4. PICK x \in Nat, y \in Nat : x = Limits[i][1] * Total /\ y = Limits[i][2] * MB
    BY <2>3, Zenon
  <2>. QED
    BY <1>1, <2>4 DEF Below
<1>. QED
  BY <1>1, CeilingType DEF Reached

\* There is a last stage that is reached.
LEMMA StageFacts ==
  ASSUME NEW a, NEW r, NEW s, s = assess_eviction_stage(a, r)
  PROVE  s \in 0..6 /\ Reached(s, a, r) /\ \A u \in (s + 1)..6 : ~Reached(u, a, r)
<1>0. Reached(0, a, r)
  BY DEF Reached
<1>. DEFINE R(u) == Reached(u, a, r)
            P(u) == R(u) /\ \A v \in (u + 1)..6 : ~R(v)
<1>. HIDE DEF R
<1>1. \E u \in 0..6 : P(u)
  <2>1. R(0)
    BY <1>0 DEF R
  <2>2. R(6) \/ (~R(6) /\ R(5)) \/ (~R(6) /\ ~R(5) /\ R(4)) \/ (~R(6) /\ ~R(5) /\ ~R(4) /\ R(3))
        \/ (~R(6) /\ ~R(5) /\ ~R(4) /\ ~R(3) /\ R(2))
        \/ (~R(6) /\ ~R(5) /\ ~R(4) /\ ~R(3) /\ ~R(2) /\ R(1))
        \/ (~R(6) /\ ~R(5) /\ ~R(4) /\ ~R(3) /\ ~R(2) /\ ~R(1) /\ R(0))
    BY <2>1
  <2>3. /\ 7..6 = {} /\ 6..6 = {6} /\ 5..6 = {5, 6} /\ 4..6 = {4, 5, 6} /\ 3..6 = {3, 4, 5, 6}
        /\ 2..6 = {2, 3, 4, 5, 6} /\ 1..6 = {1, 2, 3, 4, 5, 6}
    OBVIOUS
  <2>4. P(6) \/ P(5) \/ P(4) \/ P(3) \/ P(2) \/ P(1) \/ P(0)
    BY <2>2, <2>3
  <2>. QED
    BY <2>4
<1>2. s = CHOOSE u \in 0..6 : P(u)
  BY DEF assess_eviction_stage, R
<1>3. s \in 0..6 /\ P(s)
  BY <1>1, <1>2, Zenon
<1>. QED
  BY <1>3 DEF R

LEMMA StageGrows ==
  ASSUME NEW a \in Nat, NEW b \in Nat, NEW r \in Nat, NEW q \in Nat, b <= a, r <= q
  PROVE  assess_eviction_stage(b, q) >= assess_eviction_stage(a, r)
<1>1. PICK s : s = assess_eviction_stage(a, r)
  OBVIOUS
<1>2. PICK t : t = assess_eviction_stage(b, q)
  OBVIOUS
<1>3. s \in 0..6 /\ Reached(s, a, r)
  BY <1>1, StageFacts
<1>4. t \in 0..6 /\ \A u \in (t + 1)..6 : ~Reached(u, b, q)
  BY <1>2, StageFacts
<1>5. Reached(s, b, q)
  BY <1>3, ReachedMonotone
<1>6. ~(s \in (t + 1)..6)
  BY <1>4, <1>5
<1>. QED
  BY <1>1, <1>2, <1>3, <1>4, <1>6

\* The pressure never falls while nothing is freed, on every host and whatever the
\* engine holds (resource_governor.cpp:134-158).
THEOREM StageCorrect == HostSpec => StageMonotone
<1>1. ASSUME KInv, KInv', others' >= others, Private' >= Private, Rss' >= Rss
      PROVE  Stage' >= Stage
  <2>1. Rss \in Nat /\ Private \in Nat /\ others \in Nat
    BY <1>1, RssFacts, PrivateFacts, HostAssumption DEF KInv, RowsType
  <2>2. KvTokens' \in Nat /\ others' \in Nat
    <3>1. KvTokens' = SumFunctionOnSet(rows', Sessions)
      BY <1>1 DEF KvTokens, SumFunction, KInv, RowsType
    <3>2. KvTokens' \in Nat
      BY <3>1, <1>1, RequestsAssumption, SumFacts DEF KInv, RowsType
    <3>. QED
      BY <3>2, <1>1, HostAssumption DEF KInv, RowsType
  <2>3. Private' \in Nat /\ Rss' \in Nat
    <3>1. KvTokens' * TokenSize \in Nat
      BY <2>2, TimesNat, RequestsAssumption
    <3>2. Private' \in Nat
      BY <3>1, HostAssumption DEF Private
    <3>a. weights' \in Nat /\ extra' \in Nat /\ share' \in Nat
      BY <1>1, FilesAssumption DEF KInv, RowsType
    <3>b. PICK w \in Nat, e \in Nat, p \in Nat : w = weights' /\ e = extra' /\ p = share'
      BY <3>a, Zenon
    <3>c. w + e \in Nat
      OBVIOUS
    <3>3. PICK f \in Nat : f = weights' + extra' /\ p = share'
      BY <3>b, <3>c, Zenon
    <3>4. f * p \in Nat
      BY TimesNat
    <3>5. (f * p) \div 100 \in Nat
      BY <3>4
    <3>6. Paged' \in Nat
      BY <3>3, <3>5 DEF Paged
    <3>7. PICK x \in Nat, y \in Nat : x = Private' /\ y = Paged'
      BY <3>2, <3>6, Zenon
    <3>8. x + y \in Nat
      OBVIOUS
    <3>9. Rss' \in Nat
      BY <3>7, <3>8, Zenon DEF Rss
    <3>. QED
      BY <3>2, <3>9, Zenon
  <2>4. Available \in Nat /\ Available' \in Nat /\ Available' <= Available
    <3>1. PICK x \in Nat, y \in Nat : x = others + Private /\ y = others' + Private' /\ x <= y
      <4>1. PICK o \in Nat, p \in Nat, r \in Nat, q \in Nat :
              o = others /\ p = others' /\ r = Private /\ q = Private'
        BY <2>1, <2>2, <2>3, Zenon
      <4>2. o <= p /\ r <= q
        BY <1>1, <4>1
      <4>3. o + r \in Nat /\ p + q \in Nat /\ o + r <= p + q
        BY <4>2
      <4>. QED
        BY <4>1, <4>3, Zenon
    <3>2. Available = Minus(Total, x) /\ Available' = Minus(Total, y)
      BY <3>1 DEF Available
    <3>. QED
      BY <3>1, <3>2, HostAssumption, MinusMonotone
  <2>. QED
    BY <1>1, <2>1, <2>3, <2>4, StageGrows DEF Stage
<1>2. KInv /\ KInv' =>
        [others' >= others /\ Private' >= Private /\ Rss' >= Rss => Stage' >= Stage]_hostVars
  BY <1>1
<1>. QED
  BY <1>2, KInvAlways, PTL DEF StageMonotone

(***************************************************************************)
(* Types.                                                                  *)
(***************************************************************************)
RestType ==
    /\ gpu \subseteq Files /\ turns \in 0..MaxTurns
    /\ shape \in [Sessions -> Shapes \cup {NoShape}]

LEMMA RestInit == HostInit => RestType
BY RequestsAssumption DEF HostInit, RestType

LEMMA RestNext == LInv /\ RestType /\ [HostNext]_hostVars => RestType'
<1>. SUFFICES ASSUME LInv, RestType, [HostNext]_hostVars PROVE RestType'
  OBVIOUS
<1>1. ASSUME NEW r \in Roles, LoadRole(r) PROVE RestType'
  <2>1. UNCHANGED <<turns, shape>> /\ gpu' \subseteq gpu \cup {Path(r)}
    BY <1>1 DEF LoadRole, Turn, turnVars
  <2>2. Path(r) \in Files
    BY <1>1, WantedFile DEF LInv, LoadRole
  <2>. QED
    BY <2>1, <2>2 DEF RestType
<1>2. ASSUME NEW s \in Sessions, Compile(s) PROVE RestType'
  <2>1. PICK q \in Shapes : shape' = [shape EXCEPT ![s] = q]
    BY <1>2 DEF Compile
  <2>2. gpu' = gpu /\ turns' = turns + 1 /\ turns < MaxTurns
    BY <1>2 DEF Compile, loadVars
  <2>. QED
    BY <2>1, <2>2, RequestsAssumption DEF RestType
<1>3. CASE UNCHANGED <<gpu, turns, shape>>
  BY <1>3 DEF RestType
<1>4. ASSUME NEW r \in Roles, SkipRole(r) \/ ShareRole(r) \/ LoadFails(r)
      PROVE  UNCHANGED <<gpu, turns, shape>>
  BY <1>4 DEF SkipRole, ShareRole, LoadFails, Turn, turnVars
<1>5. ASSUME NEW s \in Sessions,
             Found(s) \/ LoadLazily(s) \/ GetState(s) \/ Allocate(s) \/ Evict(s)
      PROVE  UNCHANGED <<gpu, turns, shape>>
  BY <1>5 DEF Found, LoadLazily, GetState, Allocate, Evict, loadVars
<1>6. ASSUME NEW s \in Sessions, NotLoaded(s) \/ SizeContext(s) \/ Finish(s)
      PROVE  RestType'
  <2>1. UNCHANGED <<gpu, turns>>
    BY <1>6 DEF NotLoaded, SizeContext, Finish, loadVars
  <2>2. shape' = shape \/ shape' = [shape EXCEPT ![s] = NoShape]
    BY <1>6 DEF NotLoaded, SizeContext, Finish, Respond
  <2>. QED
    BY <2>1, <2>2 DEF RestType
<1>7. HostChanges \/ PagesChange \/ UNCHANGED hostVars => UNCHANGED <<gpu, turns, shape>>
  BY DEF HostChanges, PagesChange, hostVars, loadVars, turnVars
<1>. QED
  BY <1>1, <1>2, <1>3, <1>4, <1>5, <1>6, <1>7 DEF HostNext, Load, Serve

\* Every variable has its type: no size of the policy, the loader or the budgeter is
\* ever negative, although each is a difference.
THEOREM HostTypeCorrect == HostSpec => []HostTypeOK
<1>1. LInv /\ PInv /\ KInv /\ RestType => HostTypeOK
  <2>. SUFFICES ASSUME LInv, PInv, KInv, RestType PROVE HostTypeOK
    OBVIOUS
  <2>1. available \in Nat
    BY CeilingType, HostAssumption DEF LInv, Account, LoaderType, Minus
  <2>. QED
    BY <2>1 DEF HostTypeOK, LInv, LoaderType, PInv, KInv, RowsType, RestType
<1>2. HostSpec => []RestType
  BY RestInit, RestNext, LInvAlways, PTL DEF HostSpec
<1>3. HostSpec => []PInv
  BY PInvInit, PInvNext, PTL DEF HostSpec
<1>. QED
  BY <1>1, <1>2, <1>3, LInvAlways, KInvAlways, PTL
=============================================================================
