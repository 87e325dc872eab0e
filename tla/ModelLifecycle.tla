--------------------------- MODULE ModelLifecycle ---------------------------
(***************************************************************************)
(* ModelPool, ModelLease, ModelManager and the VRAM account of             *)
(* VulkanDevice, called by several threads.                                *)
(*                                                                         *)
(* A step is one critical section of the pool's mutex (or of the device's  *)
(* account), because that is where threads interleave: unload asks the     *)
(* pool "in use?" and removes the entry under two separate locks, and a    *)
(* lease may be taken in between.  manager_mutex_ is a variable, because   *)
(* load, unload and enforce_budget hold it across several such sections.   *)
(***************************************************************************)
EXTENDS Integers, FiniteSets, Functions

CONSTANTS
    Threads, NoThread,
    Models, NoModel,
    Registered,     \* ids with a descriptor in ModelRegistry
    Gguf,           \* registered ids whose descriptor says is_gguf
    GpuPreferred,   \* registered ids with PlacementPolicy::GPU_PREFERRED
    BudgetRoles,    \* registered ids with a role that enforce_budget evicts
    Bytes,          \* estimated_weight_bytes + estimated_scratch_bytes
    SafeCeiling,    \* VulkanDevice::safe_ceiling_bytes_
    GpuAvailable    \* VulkanDevice::available_

ASSUME ThreadsAssumption == IsFiniteSet(Threads) /\ NoThread \notin Threads
ASSUME ModelsAssumption ==
    /\ IsFiniteSet(Models) /\ NoModel \notin Models
    /\ Registered \subseteq Models
    /\ Gguf \subseteq Registered
    /\ BudgetRoles \subseteq Registered
ASSUME DeviceAssumption ==
    /\ Bytes \in [Models -> Nat]
    /\ SafeCeiling \in Nat
    /\ GpuAvailable \in BOOLEAN

VARIABLES
    resident,   \* keys of ModelPool::entries_ (an entry's state is always HOT)
    users,      \* ModelEntry::active_users
    onGpu,      \* ModelEntry::placement = VULKAN_GPU
    memory,     \* ModelEntry::memory_bytes
    stale,      \* the idle timeout has passed since last_accessed
    lease,      \* the model of each ModelLease object
    allocated,  \* VulkanDevice::allocated_bytes_
    mutex,      \* the thread that holds ModelManager::manager_mutex_
    pc,         \* where each thread is
    by,         \* who called load: "acquire" or "load"
    job,        \* the model id a thread's current call is about
    local       \* the placement and the size a call has read or decided

entryVars == <<resident, users, onGpu, memory, stale>>
callVars == <<by, job, local>>
vars == <<entryVars, lease, allocated, mutex, pc, callVars>>

Slots == Threads \X {"held", "ret"}
Locals == [gpu : BOOLEAN, bytes : Nat]
NoLocal == [gpu |-> FALSE, bytes |-> 0]
Steps == {"idle", "load_lock", "load_file", "load_add", "retry", "assign",
          "unload_lock", "unload_remove", "unload_free", "budget_unload"}

EntryType ==
    /\ resident \subseteq Models
    /\ users \in [Models -> Int]
    /\ onGpu \in [Models -> BOOLEAN]
    /\ memory \in [Models -> Nat]
    /\ stale \in [Models -> BOOLEAN]

LeaseType == lease \in [Slots -> Models \cup {NoModel}]

CallType ==
    /\ pc \in [Threads -> Steps]
    /\ by \in [Threads -> {"acquire", "load"}]
    /\ job \in [Threads -> Models \cup {NoModel}]
    /\ local \in [Threads -> Locals]

\* Entries, leases and calls hold what their fields can hold.
TypeOK ==
    /\ EntryType
    /\ LeaseType
    /\ CallType
    /\ allocated \in Nat
    /\ mutex \in Threads \cup {NoThread}

Init ==
    /\ resident = {}
    /\ users = [m \in Models |-> 0]
    /\ onGpu = [m \in Models |-> FALSE]
    /\ memory = [m \in Models |-> 0]
    /\ stale = [m \in Models |-> FALSE]
    /\ lease = [s \in Slots |-> NoModel]
    /\ allocated = 0
    /\ mutex = NoThread
    /\ pc = [t \in Threads |-> "idle"]
    /\ by = [t \in Threads |-> "load"]
    /\ job = [t \in Threads |-> NoModel]
    /\ local = [t \in Threads |-> NoLocal]

-----------------------------------------------------------------------------
(* VulkanDevice: the account behind alloc_mutex_.                           *)

can_admit(bytes) == GpuAvailable /\ allocated + bytes <= SafeCeiling

\* allocate checks the ceiling again; load ignores its result.
allocate(bytes) ==
    allocated' = IF can_admit(bytes) THEN allocated + bytes ELSE allocated

release(bytes) ==
    allocated' = IF bytes >= allocated THEN 0 ELSE allocated - bytes

-----------------------------------------------------------------------------
(* ModelPool: each operator is one critical section of the pool's mutex.    *)

is_in_use(m) == m \in resident /\ users[m] > 0

acquire_lease(s, m) ==
    /\ m \in resident
    /\ users' = [users EXCEPT ![m] = @ + 1]
    /\ stale' = [stale EXCEPT ![m] = FALSE]
    /\ lease' = [lease EXCEPT ![s] = m]
    /\ UNCHANGED <<resident, onGpu, memory>>

\* release_lease(m) on the counters; nothing happens without an entry.
release_lease(m) ==
    IF m \in resident
    THEN /\ users' = [users EXCEPT ![m] = @ - 1]
         /\ stale' = [stale EXCEPT ![m] = FALSE]
         /\ UNCHANGED <<resident, onGpu, memory>>
    ELSE UNCHANGED entryVars

\* add_model overwrites whatever entry the id had with a fresh one.
add_model(m, gpu, bytes) ==
    /\ resident' = resident \cup {m}
    /\ users' = [users EXCEPT ![m] = 0]
    /\ onGpu' = [onGpu EXCEPT ![m] = gpu]
    /\ memory' = [memory EXCEPT ![m] = bytes]
    /\ stale' = [stale EXCEPT ![m] = FALSE]

\* Mutant: remove_model without its eviction guard.
can_remove_leased(m) == m \in resident

can_remove(m) == m \in resident /\ ~(users[m] > 0)

\* The entry is erased; the values of its fields are forgotten with it.
remove_model(m) ==
    /\ can_remove(m)
    /\ resident' = resident \ {m}
    /\ users' = [users EXCEPT ![m] = 0]
    /\ onGpu' = [onGpu EXCEPT ![m] = FALSE]
    /\ memory' = [memory EXCEPT ![m] = 0]
    /\ stale' = [stale EXCEPT ![m] = FALSE]

evictable == {m \in resident : users[m] = 0 /\ stale[m]}

-----------------------------------------------------------------------------
(* ModelManager::acquire and the life of the lease it returns.              *)

Goto(t, step) == pc' = [pc EXCEPT ![t] = step]

\* A call begins, moves on, ends and forgets its locals.
Enter(t, step, who, m) ==
    /\ pc[t] = "idle"
    /\ Goto(t, step)
    /\ by' = [by EXCEPT ![t] = who]
    /\ job' = [job EXCEPT ![t] = m]
    /\ UNCHANGED local

Proceed(t, step) ==
    /\ Goto(t, step)
    /\ UNCHANGED callVars

Leave(t, step) ==
    /\ Goto(t, step)
    /\ by' = [by EXCEPT ![t] = "load"]
    /\ job' = [job EXCEPT ![t] = NoModel]
    /\ local' = [local EXCEPT ![t] = NoLocal]

AcquireHit(t, m) ==
    /\ pc[t] = "idle"
    /\ acquire_lease(<<t, "ret">>, m)
    /\ Proceed(t, "assign")
    /\ UNCHANGED <<allocated, mutex>>

AcquireMiss(t, m) ==
    /\ m \notin resident
    /\ Enter(t, "load_lock", "acquire", m)
    /\ UNCHANGED <<entryVars, lease, allocated, mutex>>

\* The second try after load; the model may be gone again.
AcquireRetry(t) ==
    /\ pc[t] = "retry"
    /\ \/ acquire_lease(<<t, "ret">>, job[t])
       \/ job[t] \notin resident /\ UNCHANGED <<entryVars, lease>>
    /\ Leave(t, "assign")
    /\ UNCHANGED <<allocated, mutex>>

\* Mutant: move assignment forgets to give back what the variable held.
AssignLease_Leaks(t) ==
    /\ pc[t] = "assign"
    /\ lease' = [lease EXCEPT ![<<t, "held">>] = lease[<<t, "ret">>],
                              ![<<t, "ret">>] = NoModel]
    /\ Proceed(t, "idle")
    /\ UNCHANGED <<entryVars, allocated, mutex>>

\* The caller stores the result: ModelLease::operator=(ModelLease&&) gives
\* back what the variable held, then takes over the temporary.
AssignLease(t) ==
    /\ pc[t] = "assign"
    /\ release_lease(lease[<<t, "held">>])
    /\ lease' = [lease EXCEPT ![<<t, "held">>] = lease[<<t, "ret">>],
                              ![<<t, "ret">>] = NoModel]
    /\ Proceed(t, "idle")
    /\ UNCHANGED <<allocated, mutex>>

\* ~ModelLease.
DropLease(t) ==
    /\ pc[t] = "idle"
    /\ lease[<<t, "held">>] # NoModel
    /\ release_lease(lease[<<t, "held">>])
    /\ lease' = [lease EXCEPT ![<<t, "held">>] = NoModel]
    /\ UNCHANGED <<allocated, mutex, pc, callVars>>

-----------------------------------------------------------------------------
(* ModelManager::load.                                                      *)

LoadCall(t, m) ==
    /\ Enter(t, "load_lock", "load", m)
    /\ UNCHANGED <<entryVars, lease, allocated, mutex>>

\* load returns ok to its caller; a failed load makes acquire return an
\* invalid lease, a successful one makes it try the pool again.
LoadReturn(t, ok) ==
    \/ by[t] = "load" /\ Leave(t, "idle")
    \/ by[t] = "acquire" /\ ok /\ Proceed(t, "retry")
    \/ by[t] = "acquire" /\ ~ok /\ Leave(t, "assign")

\* load and unload wait for manager_mutex_ before they look at anything.
Locked(t, step) == pc[t] = step /\ mutex = NoThread

LoadResident(t) ==
    /\ Locked(t, "load_lock")
    /\ job[t] \in resident
    /\ LoadReturn(t, TRUE)
    /\ UNCHANGED <<entryVars, lease, allocated, mutex>>

LoadUnregistered(t) ==
    /\ Locked(t, "load_lock")
    /\ job[t] \notin resident
    /\ job[t] \notin Registered
    /\ LoadReturn(t, FALSE)
    /\ UNCHANGED <<entryVars, lease, allocated, mutex>>

\* A descriptor without a GGUF file gets an empty model that takes no memory.
LoadStub(t) ==
    /\ Locked(t, "load_lock")
    /\ job[t] \in Registered \ (Gguf \cup resident)
    /\ add_model(job[t], FALSE, 0)
    /\ LoadReturn(t, TRUE)
    /\ UNCHANGED <<lease, allocated, mutex>>

\* Mutant: manager_mutex_ is given up while the file is read.
LoadAdmit_Unlocked(t) ==
    /\ Locked(t, "load_lock")
    /\ job[t] \in Gguf \ resident
    /\ local' = [local EXCEPT ![t] =
           [gpu |-> job[t] \in GpuPreferred /\ can_admit(Bytes[job[t]]),
            bytes |-> Bytes[job[t]]]]
    /\ Goto(t, "load_file")
    /\ UNCHANGED <<entryVars, lease, allocated, mutex, by, job>>

\* The GPU-preferred admission gate, then the file is read with the mutex held.
LoadAdmit(t) ==
    /\ Locked(t, "load_lock")
    /\ job[t] \in Gguf \ resident
    /\ mutex' = t
    /\ local' = [local EXCEPT ![t] =
           [gpu |-> job[t] \in GpuPreferred /\ can_admit(Bytes[job[t]]),
            bytes |-> Bytes[job[t]]]]
    /\ Goto(t, "load_file")
    /\ UNCHANGED <<entryVars, lease, allocated, by, job>>

\* Mutant: the error path returns without unlocking.
LoadFileFails_Locked(t) ==
    /\ pc[t] = "load_file"
    /\ LoadReturn(t, FALSE)
    /\ UNCHANGED <<entryVars, lease, allocated, mutex>>

LoadFileFails(t) ==
    /\ pc[t] = "load_file"
    /\ mutex' = NoThread
    /\ LoadReturn(t, FALSE)
    /\ UNCHANGED <<entryVars, lease, allocated>>

LoadAllocate(t) ==
    /\ pc[t] = "load_file"
    /\ IF local[t].gpu THEN allocate(local[t].bytes) ELSE UNCHANGED allocated
    /\ Proceed(t, "load_add")
    /\ UNCHANGED <<entryVars, lease, mutex>>

LoadAdd(t) ==
    /\ pc[t] = "load_add"
    /\ add_model(job[t], local[t].gpu, local[t].bytes)
    /\ mutex' = NoThread
    /\ LoadReturn(t, TRUE)
    /\ UNCHANGED <<lease, allocated>>

-----------------------------------------------------------------------------
(* ModelManager::unload and enforce_budget.                                 *)

UnloadCall(t, m) ==
    /\ Enter(t, "unload_lock", "load", m)
    /\ UNCHANGED <<entryVars, lease, allocated, mutex>>

UnloadInUse(t) ==
    /\ Locked(t, "unload_lock")
    /\ is_in_use(job[t])
    /\ Leave(t, "idle")
    /\ UNCHANGED <<entryVars, lease, allocated, mutex>>

UnloadChecked(t) ==
    /\ Locked(t, "unload_lock")
    /\ ~is_in_use(job[t])
    /\ mutex' = t
    /\ local' = [local EXCEPT ![t] =
           IF job[t] \in resident
           THEN [gpu |-> onGpu[job[t]], bytes |-> memory[job[t]]]
           ELSE NoLocal]
    /\ Goto(t, "unload_remove")
    /\ UNCHANGED <<entryVars, lease, allocated, by, job>>

\* remove_model looks at active_users again: not loaded, or leased since.
UnloadRefused(t) ==
    /\ pc[t] = "unload_remove"
    /\ ~can_remove(job[t])
    /\ mutex' = NoThread
    /\ Leave(t, "idle")
    /\ UNCHANGED <<entryVars, lease, allocated>>

UnloadRemove(t) ==
    /\ pc[t] = "unload_remove"
    /\ remove_model(job[t])
    /\ Proceed(t, "unload_free")
    /\ UNCHANGED <<lease, allocated, mutex>>

\* Mutant: the memory of the erased entry is never given back.
UnloadFree_Leaks(t) ==
    /\ pc[t] = "unload_free"
    /\ mutex' = NoThread
    /\ Leave(t, "idle")
    /\ UNCHANGED <<entryVars, lease, allocated>>

UnloadFree(t) ==
    /\ pc[t] = "unload_free"
    /\ IF local[t].gpu THEN release(local[t].bytes) ELSE UNCHANGED allocated
    /\ mutex' = NoThread
    /\ Leave(t, "idle")
    /\ UNCHANGED <<entryVars, lease>>

\* enforce_budget holds manager_mutex_ and calls unload, which locks it again:
\* std::mutex is not recursive, so the thread waits for itself and no step
\* leads on from "budget_unload".  Without such a model the call changes nothing.
EnforceBudget(t) ==
    /\ pc[t] = "idle"
    /\ mutex = NoThread
    /\ evictable \cap BudgetRoles # {}
    /\ mutex' = t
    /\ Goto(t, "budget_unload")
    /\ UNCHANGED <<entryVars, lease, allocated, callVars>>

\* The clock passes the idle timeout of an entry.
IdleTimeout(m) ==
    /\ m \in resident
    /\ ~stale[m]
    /\ stale' = [stale EXCEPT ![m] = TRUE]
    /\ UNCHANGED <<resident, users, onGpu, memory, lease, allocated, mutex, pc,
                   callVars>>

-----------------------------------------------------------------------------
\* The steps a thread takes once a call has begun.
Continue(t) ==
    \/ AcquireRetry(t)
    \/ AssignLease(t)
    \/ LoadResident(t)
    \/ LoadUnregistered(t)
    \/ LoadStub(t)
    \/ LoadAdmit(t)
    \/ LoadFileFails(t)
    \/ LoadAllocate(t)
    \/ LoadAdd(t)
    \/ UnloadInUse(t)
    \/ UnloadChecked(t)
    \/ UnloadRefused(t)
    \/ UnloadRemove(t)
    \/ UnloadFree(t)

Call(t) ==
    \/ \E m \in Models : AcquireHit(t, m) \/ AcquireMiss(t, m)
                         \/ LoadCall(t, m) \/ UnloadCall(t, m)
    \/ DropLease(t)
    \/ EnforceBudget(t)

Next ==
    \/ \E t \in Threads : Continue(t) \/ Call(t)
    \/ \E m \in Models : IdleTimeout(m)

Spec == Init /\ [][Next]_vars

\* A thread inside a call keeps running; nothing obliges a thread to call.
FairSpec == Spec /\ \A t \in Threads : WF_vars(Continue(t))

-----------------------------------------------------------------------------
Leases(m) == {s \in Slots : lease[s] = m}

\* active_users counts the live ModelLease objects of the entry exactly, through
\* every move, reassignment and reload (model_pool.cpp, model_lease.cpp).
UsersCountLeases == \A m \in resident : users[m] = Cardinality(Leases(m))

\* A lease's model_ptr_ points into an entry of the pool: the eviction guard of
\* remove_model holds although unload's own is_in_use check can be out of date.
LeasedIsResident == \A s \in Slots : lease[s] # NoModel => lease[s] \in resident

\* The admission gate keeps the account below the 85% ceiling although check
\* (can_admit) and allocation are separate sections around the file load.
WithinCeiling == allocated <= SafeCeiling

\* What the entries hold of the device, and what the calls in flight do: memory
\* allocated and not yet published, or removed and not yet given back.
EntryBytes == [m \in Models |-> IF m \in resident /\ onGpu[m] THEN memory[m] ELSE 0]
FlightBytes ==
    [t \in Threads |-> IF pc[t] \in {"load_add", "unload_free"} /\ local[t].gpu
                       THEN local[t].bytes ELSE 0]

\* The device account is the sum of what the GPU entries take and what the call
\* in flight holds: nothing leaks over any number of loads and unloads
\* (model_manager.cpp:114-184).
VramAccounted == allocated = SumFunction(EntryBytes) + SumFunction(FlightBytes)

\* What the pool promises its users, as a specification of its own.
Pool == INSTANCE LeasePool WITH loaded <- resident

\* Every step of the manager, the pool and the leases is a step of LeasePool or
\* leaves it alone: no lease without weights, and no weights freed under a lease
\* (model_pool.cpp:14-70, model_lease.cpp:11-42).
ImplementsLeasePool == Pool!Spec

\* load ignores what allocate returns; it may, because the answer of can_admit is
\* still true when the file has been read: manager_mutex_ keeps every other
\* allocation out in between (model_manager.cpp:136-153).
AdmissionStillHolds ==
    \A t \in Threads :
        pc[t] = "load_file" /\ local[t].gpu => can_admit(local[t].bytes)

\* Whoever takes manager_mutex_ in load or unload gives it back on every path
\* (model_manager.cpp:114, 161).  enforce_budget does not: see IdleModelUnloaded.
ManagerUnlocks ==
    \A t \in Threads : mutex = t /\ pc[t] # "budget_unload" ~> mutex # t

\* "Eviction cascade: unloads idle models with active_users == 0 under memory
\* pressure or idle timeout" (model_manager.hpp:37): once enforce_budget runs
\* with an idle model of an evicted role, that model goes or is used again.
IdleModelUnloaded ==
    \A t \in Threads, m \in BudgetRoles :
        pc[t] = "budget_unload" /\ m \in evictable ~> m \notin evictable
=============================================================================
