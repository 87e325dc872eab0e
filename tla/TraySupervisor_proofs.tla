------------------------ MODULE TraySupervisor_proofs ------------------------
(***************************************************************************)
(* Proofs about TraySupervisor for any number of calls, pids and polls:    *)
(* the tray signals its own children only, and knows every engine unless   *)
(* two starts overlapped.                                                  *)
(***************************************************************************)
EXTENDS TraySupervisor, TLAPS

\* A thread that is about to fork found no child, and is the only one.
ForkAlone ==
    ~raced => \A t \in Threads : pc[t] = "fork" =>
                 child_pid = None /\ \A u \in Threads : pc[u] = "fork" => u = t
\* Only the main thread and the handler on it are left once quit is done, and the
\* main thread ends without a child.
QuitOK ==
    /\ \A t \in Threads : pc[t] = "join" => ~serving
    /\ quitting => ~serving /\ \A t \in Workers : pc[t] \in {"idle", "aborted"}
    /\ \A t \in Threads : op[t] = "exit" => t = Main /\ quitting
    /\ \A t \in Threads : pc[t] = "exited" =>
          t = Main /\ quitting /\ child_pid = None /\ pc[Handler] = "idle"
PollsOK == \A t \in Threads : pc[t] = "poll" => polls[t] < Polls
\* Only the thread that has waited for the child still has its pid in child_pid_.
Owned ==
    child_pid # None /\ procs[child_pid] \in {"free", "other"}
        => mutex # None /\ pc[mutex] \in Waits
\* Nobody waits for a child that is not yet noted.
Held == pid # None => procs[pid] \in {"forked", "running", "zombie"}
IInv ==
    /\ TypeOK /\ OwnChildrenOnly /\ KnownEngines
    /\ ForkAlone /\ QuitOK /\ PollsOK /\ Owned /\ Held

ThreadsOK ==
    /\ pc \in [Threads -> Labels] /\ op \in [Threads -> Ops]
    /\ polls \in [Threads -> 0..Polls]
FlagsOK ==
    /\ last_running \in BOOLEAN /\ serving \in BOOLEAN /\ quitting \in BOOLEAN
    /\ raced \in BOOLEAN /\ foreign \in BOOLEAN
SystemOK ==
    /\ procs \in [Pids -> {"free", "other", "forked", "running", "zombie"}]
    /\ signals \subseteq {p \in Pids : Live(p)}
    /\ child_pid \in Pids \cup {None} /\ pid \in Pids \cup {None}
    /\ mutex \in Threads \cup {None}
Waiting == {"poll", "kill", "wait"}
LockOK ==
    /\ \A t \in Threads :
          /\ mutex = t => pc[t] \in Sections \cup Waiting
          /\ pc[t] \in Waiting => mutex = t /\ child_pid # None
    /\ pid # None => mutex # None /\ pc[mutex] = "fork"

LEMMA TypeParts == TypeOK <=> ThreadsOK /\ FlagsOK /\ SystemOK /\ LockOK
  BY DEF TypeOK, ThreadsOK, FlagsOK, SystemOK, LockOK, Waiting
LEMMA TypePartsNext == ThreadsOK' /\ FlagsOK' /\ SystemOK' /\ LockOK' => TypeOK'
  BY DEF TypeOK, ThreadsOK, FlagsOK, SystemOK, LockOK, Waiting

LEMMA Moved ==
  ASSUME ThreadsOK, NEW t \in Threads, NEW l \in Labels, Goto(t, l)
  PROVE  /\ ThreadsOK' /\ pc'[t] = l /\ polls'[t] = 0
         /\ op'[t] = (IF l \in {"idle", "exited"} THEN "none" ELSE op[t])
         /\ \A u \in Threads \ {t} :
               pc'[u] = pc[u] /\ op'[u] = op[u] /\ polls'[u] = polls[u]
<1>1. 0 \in 0..Polls
  BY PollsAssumption
<1>2. pc' \in [Threads -> Labels] /\ pc'[t] = l /\ \A u \in Threads \ {t} : pc'[u] = pc[u]
  BY DEF Goto, ThreadsOK
<1>3. /\ polls' \in [Threads -> 0..Polls] /\ polls'[t] = 0
      /\ \A u \in Threads \ {t} : polls'[u] = polls[u]
  BY <1>1 DEF Goto, ThreadsOK
<1>4. /\ op'[t] = (IF l \in {"idle", "exited"} THEN "none" ELSE op[t])
      /\ \A u \in Threads \ {t} : op'[u] = op[u]
  BY DEF Goto, ThreadsOK
<1>5. op' \in [Threads -> Ops]
  BY DEF Goto, ThreadsOK, Ops
<1> QED
  BY <1>2, <1>3, <1>4, <1>5 DEF ThreadsOK

LEMMA Destinations ==
  ASSUME NEW t \in Threads
  PROVE  /\ AfterStart(t) \in {"status", "idle"}
         /\ AfterStop(t) \in {"check", "server", "exited", "status", "idle"}
         /\ AfterStop(t) = "exited" => op[t] = "exit"
  BY DEF AfterStart, AfterStop

Tracked ==
    ~raced /\ pc[Main] # "aborted" => \A p \in Pids : Live(p) => p \in {child_pid, pid}

\* The parts of the invariant that are about threads.
ThreadInv == ThreadsOK /\ LockOK /\ ForkAlone /\ QuitOK /\ PollsOK
\* The parts that are about processes.
ProcessInv == SystemOK /\ FlagsOK /\ ~foreign /\ Owned /\ Held /\ Tracked

LEMMA InvParts ==
  ASSUME IInv
  PROVE  ThreadInv /\ ProcessInv
  BY TypeParts DEF IInv, ThreadInv, ProcessInv, OwnChildrenOnly, KnownEngines, Tracked

LEMMA PartsInv == ThreadInv' /\ ProcessInv' => IInv'
<1> SUFFICES ASSUME ThreadInv', ProcessInv' PROVE IInv'
  OBVIOUS
<1>1. TypeOK'
  BY TypePartsNext DEF ThreadInv, ProcessInv
<1>2. OwnChildrenOnly'
  BY DEF ProcessInv, Owned, OwnChildrenOnly
<1>3. KnownEngines'
  <2>1. ASSUME pc'[Main] = "exited" PROVE child_pid' = None /\ pid' = None
    <3>1. /\ child_pid' = None /\ pc'[Handler] = "idle" /\ quitting'
          /\ \A w \in Workers : pc'[w] \in {"idle", "aborted"}
      BY <2>1 DEF ThreadInv, QuitOK, Threads
    <3>2. \A t \in Threads : pc'[t] # "fork"
      BY <2>1, <3>1 DEF Threads
    <3>3. pid' = None
      BY <3>2 DEF ThreadInv, LockOK, ProcessInv, SystemOK
    <3> QED
      BY <3>1, <3>3
  <2> QED
    BY <2>1, NoneAssumption DEF ProcessInv, Tracked, KnownEngines
<1> QED
  BY <1>1, <1>2, <1>3 DEF ThreadInv, ProcessInv, IInv

\* A thread t that has mutex_ moves to l, and keeps mutex_ only to wait.
LEMMA Placed ==
  ASSUME ThreadInv, NEW t \in Threads, NEW l \in Labels, Goto(t, l),
         mutex = t, mutex' = (IF l \in Waiting THEN t ELSE None), pid' = None,
         l \in Waiting => child_pid' # None,
         child_pid' \in {child_pid, None} \/ pc[t] = "fork",
         l = "fork" => raced' \/ (/\ child_pid' = None
                                  /\ \A u \in Threads \ {t} : pc[u] # "fork"),
         l # "join", l # "aborted",
         l = "exited" => op[t] = "exit" /\ child_pid' = None /\ pc[Handler] = "idle",
         serving' = serving, quitting' = quitting, raced => raced'
  PROVE  ThreadInv'
<1>0. ThreadsOK /\ LockOK /\ ForkAlone /\ QuitOK /\ PollsOK
  BY DEF ThreadInv
<1>1. /\ ThreadsOK' /\ pc'[t] = l /\ polls'[t] = 0
      /\ op'[t] = (IF l \in {"idle", "exited"} THEN "none" ELSE op[t])
      /\ \A u \in Threads \ {t} :
            pc'[u] = pc[u] /\ op'[u] = op[u] /\ polls'[u] = polls[u]
  BY <1>0, Moved
<1>2. \A u \in Threads \ {t} : pc[u] \notin Waiting
  BY <1>0, NoneAssumption DEF LockOK
<1>3. LockOK'
  BY <1>1, <1>2, NoneAssumption DEF LockOK
<1>4. PollsOK'
  BY <1>0, <1>1, PollsAssumption DEF PollsOK
<1>5. ForkAlone'
  <2> SUFFICES ASSUME ~raced', NEW x \in Threads, pc'[x] = "fork"
               PROVE  child_pid' = None /\ \A u \in Threads : pc'[u] = "fork" => u = x
    BY DEF ForkAlone
  <2>1. ~raced
    OBVIOUS
  <2>2. CASE x = t
    BY <1>1, <2>1, <2>2
  <2>3. CASE x # t
    <3>1. pc[x] = "fork" /\ l # "fork" /\ pc[t] # "fork"
      BY <1>0, <1>1, <2>1, <2>3 DEF ForkAlone
    <3> QED
      BY <1>0, <1>1, <2>1, <2>3, <3>1 DEF ForkAlone
  <2> QED
    BY <2>2, <2>3
<1>6. QuitOK'
  <2>0. pc[t] \in Sections \cup Waiting
    BY <1>0 DEF LockOK
  <2>1. \A u \in Threads : pc'[u] = "join" => ~serving'
    BY <1>0, <1>1 DEF QuitOK
  <2>2. quitting' => t \notin Workers /\ ~serving'
    BY <1>0, <2>0 DEF QuitOK, Sections, Waiting
  <2>3. quitting' => \A u \in Workers : pc'[u] \in {"idle", "aborted"}
    BY <1>0, <1>1, <2>2 DEF QuitOK, Threads
  <2>4. \A u \in Threads : op'[u] = "exit" => u = Main /\ quitting'
    BY <1>0, <1>1 DEF QuitOK
  <2>5. ASSUME NEW u \in Threads, pc'[u] = "exited"
        PROVE  u = Main /\ quitting' /\ child_pid' = None /\ pc'[Handler] = "idle"
    <3>1. CASE u = t
      <4>1. l = "exited" /\ t = Main /\ quitting
        BY <1>0, <1>1, <2>5, <3>1 DEF QuitOK
      <4>2. pc'[Handler] = "idle"
        BY <1>1, <4>1, ThreadsAssumption DEF Threads
      <4> QED
        BY <3>1, <4>1, <4>2
    <3>2. CASE u # t
      <4>1. pc[u] = "exited" /\ u = Main /\ quitting /\ pc[Handler] = "idle"
        BY <1>0, <1>1, <2>5, <3>2 DEF QuitOK
      <4>2. t # Handler /\ t # Main
        BY <2>0, <4>1 DEF Sections, Waiting
      <4>3. t \in Workers
        BY <4>2 DEF Threads
      <4> QED
        BY <2>2, <4>1, <4>3
    <3> QED
      BY <3>1, <3>2
  <2> QED
    BY <2>1, <2>2, <2>3, <2>4, <2>5 DEF QuitOK
<1> QED
  BY <1>1, <1>3, <1>4, <1>5, <1>6 DEF ThreadInv

\* The thread that has mutex_ has forked only where start forks.
LEMMA NoPid ==
  ASSUME ThreadInv, NEW t \in Threads, mutex = t, pc[t] # "fork"
  PROVE  pid = None
  BY DEF ThreadInv, LockOK

\* A step that leaves the processes alone, and forgets no child that runs.
LEMMA Untouched ==
  ASSUME ProcessInv, UNCHANGED osVars, pid' = pid, ~foreign', raced => raced',
         \/ child_pid' = child_pid
         \/ child_pid' = None /\ (child_pid # None => ~Live(child_pid)),
         child_pid' # None /\ procs[child_pid'] \in {"free", "other"}
             => mutex' # None /\ pc'[mutex'] \in Waits,
         mutex' \in Threads \cup {None}, raced' \in BOOLEAN, foreign' \in BOOLEAN,
         last_running' \in BOOLEAN, serving' \in BOOLEAN, quitting' \in BOOLEAN,
         pc[Main] = "aborted" => pc'[Main] = "aborted"
  PROVE  ProcessInv'
<1>1. FlagsOK'
  BY DEF FlagsOK
<1>2. SystemOK' /\ Held' /\ Owned'
  BY DEF ProcessInv, SystemOK, Held, Owned, Live, osVars
<1>3. Tracked'
  BY NoneAssumption DEF ProcessInv, Tracked, Live, osVars
<1> QED
  BY <1>1, <1>2, <1>3 DEF ProcessInv

\* The end of is_running, and of stop: the child that was waited for is forgotten.
LEMMA Forgotten ==
  ASSUME ThreadInv, ProcessInv, NEW t \in Threads, mutex = t, NEW l \in Labels,
         Goto(t, l), pc[t] \in Waits, l \notin Waiting, l # "aborted", l # "join",
         Waited, child_pid' = (IF IsRunning THEN child_pid ELSE None), mutex' = None,
         UNCHANGED <<osVars, pid, serving, quitting, foreign>>,
         last_running' \in BOOLEAN, raced' \in BOOLEAN, raced => raced',
         l = "fork" => raced' \/ (/\ child_pid' = None
                                  /\ \A u \in Threads \ {t} : pc[u] # "fork"),
         l = "exited" => op[t] = "exit" /\ child_pid' = None /\ pc[Handler] = "idle"
  PROVE  IInv'
<1>1. FlagsOK /\ ~foreign /\ ThreadsOK
  BY DEF ProcessInv, ThreadInv
<1>2. pid = None
  BY NoPid DEF Waits
<1>3. ThreadInv'
  BY <1>2, Placed
<1>4. child_pid' # None => procs[child_pid'] \notin {"free", "other"}
  BY DEF IsRunning, Live
<1>5. pc[Main] = "aborted" => pc'[Main] = "aborted"
  BY <1>1, Moved DEF Waits, Threads
<1>6. ProcessInv'
  BY <1>1, <1>4, <1>5, Untouched DEF FlagsOK, IsRunning
<1> QED
  BY <1>3, <1>6, PartsInv

(***************************************************************************)
(* One lemma for each kind of step.                                        *)
(***************************************************************************)
LEMMA Begun ==
  ASSUME IInv, NEW t \in Threads, NEW call \in Ops,
         NEW l \in {"toggle", "status", "check", "stop"}, Begin(t, call, l),
         call = "exit" => t = Main /\ quitting, t \in Workers => serving,
         t = Handler => pc[Main] # "exited"
  PROVE  IInv'
<1>0. /\ ThreadsOK /\ LockOK /\ ForkAlone /\ QuitOK /\ PollsOK
      /\ ProcessInv /\ FlagsOK /\ SystemOK /\ Owned /\ ~foreign
  BY InvParts DEF ThreadInv, ProcessInv
<1>1. /\ ThreadsOK' /\ pc[t] = "idle" /\ pc'[t] = l /\ op'[t] = call
      /\ \A u \in Threads \ {t} : pc'[u] = pc[u] /\ op'[u] = op[u]
  BY <1>0 DEF Begin, ThreadsOK, Labels
<1>2. UNCHANGED <<osVars, child_pid, pid, mutex, polls, last_running, serving,
                  quitting, raced, foreign>>
  BY DEF Begin, appVars
<1>3. mutex # t
  BY <1>0, <1>1 DEF LockOK, Sections, Waiting
<1>4. LockOK'
  BY <1>0, <1>1, <1>2, <1>3 DEF LockOK, Sections, Waiting, SystemOK
<1>5. ForkAlone' /\ PollsOK'
  BY <1>0, <1>1, <1>2 DEF ForkAlone, PollsOK
<1>6. QuitOK'
  <2>1. \A u \in Threads : pc'[u] = "join" => ~serving'
    BY <1>0, <1>1, <1>2 DEF QuitOK
  <2>2. quitting' => ~serving' /\ \A u \in Workers : pc'[u] \in {"idle", "aborted"}
    BY <1>0, <1>1, <1>2 DEF QuitOK, Threads
  <2>3. \A u \in Threads : op'[u] = "exit" => u = Main /\ quitting'
    BY <1>0, <1>1, <1>2 DEF QuitOK
  <2>4. ASSUME NEW u \in Threads, pc'[u] = "exited"
        PROVE  u = Main /\ quitting' /\ child_pid' = None /\ pc'[Handler] = "idle"
    <3>1. u # t /\ pc[u] = "exited"
      BY <1>1, <2>4
    <3>2. u = Main /\ quitting /\ child_pid = None /\ pc[Handler] = "idle"
      BY <1>0, <3>1 DEF QuitOK
    <3>3. t # Handler
      BY <3>1, <3>2
    <3> QED
      BY <1>1, <1>2, <3>2, <3>3 DEF Threads
  <2> QED
    BY <2>1, <2>2, <2>3, <2>4 DEF QuitOK
<1>7. ThreadInv'
  BY <1>1, <1>4, <1>5, <1>6 DEF ThreadInv
<1>8. child_pid # None /\ procs[child_pid] \in {"free", "other"}
        => mutex # None /\ pc'[mutex] \in Waits
  BY <1>0, <1>1, <1>3 DEF Owned, SystemOK
<1>9. pc[Main] = "aborted" => pc'[Main] = "aborted"
  BY <1>1 DEF Threads
<1>10. ProcessInv'
  BY <1>0, <1>2, <1>8, <1>9, Untouched DEF FlagsOK, SystemOK
<1> QED
  BY <1>7, <1>10, PartsInv

LEMMA CallsStep ==
  ASSUME IInv, (\E w \in Workers : Request(w)) \/ Menu \/ Timer \/ Signal \/ Exit
  PROVE  IInv'
<1> USE DEF Threads, Ops
<1>1. ASSUME NEW w \in Workers, Request(w) PROVE IInv'
  BY <1>1, ThreadsAssumption, Begun DEF Request
<1>2. CASE Menu
  BY <1>2, ThreadsAssumption, Begun DEF Menu
<1>3. CASE Timer
  BY <1>3, ThreadsAssumption, Begun DEF Timer
<1>4. CASE Signal
  BY <1>4, ThreadsAssumption, Begun DEF Signal
<1>5. CASE Exit
  BY <1>5, ThreadsAssumption, Begun DEF Exit
<1> QED
  BY <1>1, <1>2, <1>3, <1>4, <1>5

LEMMA AbortStep ==
  ASSUME IInv, Abort
  PROVE  IInv'
<1>0. ThreadsOK /\ QuitOK /\ FlagsOK /\ SystemOK /\ ~foreign
  BY InvParts DEF ThreadInv, ProcessInv
<1>1. /\ \A t \in Threads : pc'[t] = "aborted" /\ op'[t] = "none"
      /\ child_pid' = None /\ pid' = None /\ mutex' = None
      /\ UNCHANGED <<osVars, last_running, serving, quitting, raced, foreign>>
  BY DEF Abort, appVars
<1>2. ThreadsOK'
  BY PollsAssumption DEF Abort, ThreadsOK, Labels, Ops
<1>3. LockOK' /\ ForkAlone' /\ PollsOK'
  BY <1>1, NoneAssumption DEF LockOK, ForkAlone, PollsOK, Waiting
<1>4. QuitOK'
  BY <1>0, <1>1 DEF QuitOK, Threads
<1>5. SystemOK' /\ FlagsOK' /\ ~foreign'
  BY <1>0, <1>1 DEF SystemOK, FlagsOK, Live, osVars
<1>6. Owned' /\ Held' /\ Tracked'
  BY <1>1 DEF Owned, Held, Tracked, Threads
<1> QED
  BY <1>2, <1>3, <1>4, <1>5, <1>6, PartsInv DEF ThreadInv, ProcessInv

LEMMA LockStep ==
  ASSUME IInv, NEW t \in Threads, Lock(t)
  PROVE  IInv'
<1>0. /\ ThreadsOK /\ LockOK /\ ForkAlone /\ QuitOK /\ PollsOK
      /\ ProcessInv /\ FlagsOK /\ SystemOK /\ Owned /\ ~foreign
  BY InvParts DEF ThreadInv, ProcessInv
<1>1. /\ pc[t] \in Sections /\ mutex = None /\ mutex' = t
      /\ UNCHANGED <<osVars, child_pid, pid, pc, op, polls, last_running, serving,
                     quitting, raced, foreign>>
  BY DEF Lock, threadVars, appVars
<1>2. LockOK'
  BY <1>0, <1>1, NoneAssumption DEF LockOK
<1>3. ThreadInv'
  BY <1>0, <1>1, <1>2
  DEF ThreadInv, ThreadsOK, ForkAlone, QuitOK, PollsOK
<1>4. ProcessInv'
  BY <1>0, <1>1, Untouched DEF FlagsOK, Owned
<1> QED
  BY <1>3, <1>4, PartsInv

LEMMA WaitPidStep ==
  ASSUME IInv, NEW t \in Threads, WaitPid(t)
  PROVE  IInv'
<1>0. /\ ThreadInv /\ ThreadsOK /\ LockOK /\ ForkAlone /\ QuitOK /\ PollsOK
      /\ FlagsOK /\ SystemOK /\ Owned /\ Held /\ Tracked /\ ~foreign
  BY InvParts DEF ThreadInv, ProcessInv
<1>1. /\ pc[t] \in Waits /\ mutex = t /\ child_pid # None /\ procs[child_pid] = "zombie"
      /\ procs' = [procs EXCEPT ![child_pid] = "free"]
      /\ UNCHANGED <<signals, child_pid, pid, mutex, pc, op, polls, last_running,
                     serving, quitting, raced, foreign>>
  BY DEF WaitPid, threadVars, appVars
<1>2. ThreadInv'
  BY <1>0, <1>1 DEF ThreadInv, ThreadsOK, LockOK, ForkAlone, QuitOK, PollsOK
<1>3. pid = None
  BY <1>0, <1>1, NoPid DEF Waits
<1>4. \A p \in Pids : Live(p)' <=> Live(p)
  BY <1>0, <1>1 DEF Live, SystemOK
<1>5. SystemOK' /\ FlagsOK'
  BY <1>0, <1>1, <1>4 DEF SystemOK, FlagsOK
<1>6. Owned' /\ Held' /\ Tracked'
  BY <1>0, <1>1, <1>3, <1>4, NoneAssumption DEF Owned, Held, Tracked
<1> QED
  BY <1>0, <1>1, <1>2, <1>5, <1>6, PartsInv DEF ProcessInv

\* What every step of a thread knows of the state before it.
LEMMA Known ==
  ASSUME IInv
  PROVE  /\ ThreadInv /\ ThreadsOK /\ LockOK /\ ForkAlone /\ QuitOK /\ PollsOK
         /\ ProcessInv /\ FlagsOK /\ SystemOK /\ Owned /\ Held /\ Tracked /\ ~foreign
  BY InvParts DEF ThreadInv, ProcessInv

LEMMA ToggleStep ==
  ASSUME IInv, NEW t \in Threads, Toggle(t)
  PROVE  IInv'
<1>1. PICK l \in {"stop", "check"} : Goto(t, l)
  BY DEF Toggle
<1> QED
  BY <1>1, Known, Forgotten
  DEF Toggle, Inside, Asked, Labels, Waits, Waiting, FlagsOK, appVars

LEMMA StatusStep ==
  ASSUME IInv, NEW t \in Threads, Status(t)
  PROVE  IInv'
<1>1. last_running' \in BOOLEAN
  BY Known DEF Status, FlagsOK, IsRunning, Live
<1> QED
  BY <1>1, Known, Forgotten DEF Status, Inside, Asked, Labels, Waits, Waiting, FlagsOK

LEMMA CheckStep ==
  ASSUME IInv, NEW t \in Threads, Check(t)
  PROVE  IInv'
<1>1. PICK l \in {"status", "idle", "fork"} :
          Goto(t, l) /\ (l = "fork" => ~IsRunning)
  BY Destinations DEF Check
<1>2. raced' \in BOOLEAN /\ (raced => raced')
  BY Known DEF Check, FlagsOK
<1>3. l = "fork" => raced' \/ (child_pid' = None /\ \A u \in Threads \ {t} : pc[u] # "fork")
  BY <1>1 DEF Check, Asked
<1> QED
  BY <1>1, <1>2, <1>3, Known, Forgotten
  DEF Check, Inside, Asked, Labels, Waits, Waiting, FlagsOK, appVars

LEMMA ForkStep ==
  ASSUME IInv, NEW t \in Threads, Fork(t)
  PROVE  IInv'
<1>1. PICK p \in Pids : /\ procs[p] = "free"
                        /\ procs' = [procs EXCEPT ![p] = "forked"] /\ pid' = p
  BY DEF Fork
<1>2. /\ pc[t] = "fork" /\ mutex = t /\ pid = None
      /\ UNCHANGED <<signals, child_pid, mutex, pc, op, polls, last_running, serving,
                     quitting, raced, foreign>>
  BY DEF Fork, Inside, threadVars, appVars
<1>3. ThreadInv'
  BY <1>1, <1>2, Known, NoneAssumption
  DEF ThreadInv, ThreadsOK, LockOK, ForkAlone, QuitOK, PollsOK
<1>4. \A q \in Pids : procs'[q] = (IF q = p THEN "forked" ELSE procs[q])
  BY <1>1, Known DEF SystemOK
<1>5. SystemOK' /\ FlagsOK'
  BY <1>1, <1>2, <1>4, Known DEF SystemOK, FlagsOK, Live
<1>6. Owned' /\ Held'
  BY <1>1, <1>2, <1>4, Known DEF Owned, Held, Waits, SystemOK
<1>7. Tracked'
  BY <1>1, <1>2, <1>4, Known, NoneAssumption DEF Tracked, Live
<1> QED
  BY <1>2, <1>3, <1>5, <1>6, <1>7, Known, PartsInv DEF ProcessInv

LEMMA ParentStep ==
  ASSUME IInv, NEW t \in Threads, Parent(t)
  PROVE  IInv'
<1>1. PICK l \in {"status", "idle"} : Goto(t, l)
  BY Destinations DEF Parent
<1>2. /\ pc[t] = "fork" /\ mutex = t /\ pid # None /\ child_pid' = pid
      /\ pid' = None /\ mutex' = None
      /\ UNCHANGED <<osVars, last_running, serving, quitting, raced, foreign>>
  BY DEF Parent, Inside, appVars
<1>3. ThreadInv'
  BY <1>1, <1>2, Known, Placed DEF Labels, Waiting
<1>4. SystemOK' /\ FlagsOK'
  BY <1>2, Known DEF SystemOK, FlagsOK, Live, osVars
<1>5. Owned' /\ Held'
  BY <1>2, Known DEF Owned, Held, osVars
<1>6. pc[Main] = "aborted" => pc'[Main] = "aborted"
  BY <1>1, <1>2, Known, Moved DEF Labels, Threads
<1>7. Tracked'
  <2>1. ~raced => child_pid = None
    BY <1>2, Known DEF ForkAlone
  <2> QED
    BY <1>2, <1>6, <2>1, Known, NoneAssumption DEF Tracked, Live, osVars
<1> QED
  BY <1>2, <1>3, <1>4, <1>5, <1>7, Known, PartsInv DEF ProcessInv

LEMMA ForkFailsStep ==
  ASSUME IInv, NEW t \in Threads, ForkFails(t)
  PROVE  IInv'
<1>1. PICK l \in {"status", "idle"} : Goto(t, l)
  BY Destinations DEF ForkFails
<1>2. /\ pc[t] = "fork" /\ mutex = t /\ pid = None /\ mutex' = None
      /\ UNCHANGED <<osVars, child_pid, pid, last_running, serving, quitting, raced, foreign>>
  BY DEF ForkFails, Inside, appVars
<1>3. ThreadInv'
  BY <1>1, <1>2, Known, Placed DEF Labels, Waiting
<1>4. pc[Main] = "aborted" => pc'[Main] = "aborted"
  BY <1>1, <1>2, Known, Moved DEF Labels, Threads
<1>5. child_pid # None => procs[child_pid] \notin {"free", "other"}
  BY <1>2, Known DEF Owned, Waits
<1>6. ProcessInv'
  BY <1>2, <1>4, <1>5, Known, Untouched DEF FlagsOK
<1> QED
  BY <1>3, <1>6, PartsInv

\* Where stop leads to, for a thread that may run.
LEMMA StopLeads ==
  ASSUME IInv, NEW t \in Threads, CanRun(t)
  PROVE  /\ AfterStop(t) \in Labels \ (Waiting \cup {"join", "aborted", "fork"})
         /\ AfterStop(t) = "exited" => op[t] = "exit" /\ pc[Handler] = "idle"
<1>1. op[t] = "exit" => pc[Handler] = "idle"
  BY Known DEF QuitOK, CanRun
<1> QED
  BY <1>1, Destinations DEF Labels, Waiting

LEMMA TerminateStep ==
  ASSUME IInv, NEW t \in Threads, Terminate(t)
  PROVE  IInv'
<1>1. /\ pc[t] = "stop" /\ mutex = t /\ CanRun(t)
      /\ UNCHANGED <<osVars, child_pid, pid, last_running, serving, quitting, raced>>
  BY DEF Terminate, Inside, appVars
<1>2. pid = None
  BY <1>1, Known, NoPid
<1>3. child_pid # None => procs[child_pid] \notin {"free", "other"}
  BY <1>1, Known DEF Owned, Waits
<1>4. PICK l \in Labels \ {"join", "aborted", "fork"} :
          /\ Goto(t, l) /\ mutex' = (IF l \in Waiting THEN t ELSE None)
          /\ l \in Waiting <=> child_pid # None
          /\ l = "exited" => op[t] = "exit" /\ pc[Handler] = "idle"
  <2>1. CASE child_pid = None
    BY <1>1, <2>1, StopLeads DEF Terminate
  <2>2. CASE child_pid # None
    BY <1>1, <2>2 DEF Terminate, Labels, Waiting
  <2> QED
    BY <2>1, <2>2
<1>5. ~foreign' /\ foreign' \in BOOLEAN
  BY <1>3, Known DEF Terminate, FlagsOK
<1>6. ThreadInv'
  BY <1>1, <1>2, <1>4, Known, Placed DEF Waiting
<1>7. pc[Main] = "aborted" => pc'[Main] = "aborted"
  BY <1>1, <1>4, Known, Moved DEF Threads
<1>8. mutex' \in Threads \cup {None}
  BY <1>4
<1>9. ProcessInv'
  BY <1>1, <1>3, <1>5, <1>7, <1>8, Known, Untouched DEF FlagsOK
<1> QED
  BY <1>6, <1>9, PartsInv

LEMMA StoppedStep ==
  ASSUME IInv, NEW t \in Threads, pc[t] \in {"poll", "wait"}, CanRun(t),
         ~Live(child_pid), Stopped(t),
         UNCHANGED <<last_running, serving, quitting, raced, foreign>>
  PROVE  IInv'
<1>1. mutex = t /\ pc[t] \in Waits /\ ~IsRunning
  BY Known DEF LockOK, Waiting, Waits, IsRunning
<1>2. PICK l \in Labels \ (Waiting \cup {"join", "aborted", "fork"}) :
          Goto(t, l) /\ (l = "exited" => op[t] = "exit" /\ pc[Handler] = "idle")
  BY StopLeads DEF Stopped
<1> QED
  BY <1>1, <1>2, Known, Forgotten DEF Stopped, FlagsOK

LEMMA PollStep ==
  ASSUME IInv, NEW t \in Threads, Poll(t)
  PROVE  IInv'
<1>1. /\ pc[t] = "poll" /\ CanRun(t)
      /\ UNCHANGED <<last_running, serving, quitting, raced, foreign>>
  BY DEF Poll, appVars
<1>2. CASE ~Live(child_pid)
  BY <1>1, <1>2, StoppedStep DEF Poll
<1>3. CASE Live(child_pid)
  <2>1. /\ polls' = [polls EXCEPT ![t] = polls[t] + 1]
        /\ pc' = [pc EXCEPT ![t] = IF polls[t] + 1 = Polls THEN "kill" ELSE pc[t]]
        /\ UNCHANGED <<osVars, child_pid, pid, mutex, op>>
    BY <1>3 DEF Poll
  <2>2. polls[t] \in Nat /\ polls[t] < Polls
    BY <1>1, Known, PollsAssumption DEF PollsOK, ThreadsOK
  <2>3. /\ pc' \in [Threads -> Labels] /\ pc'[t] \in {"poll", "kill"}
        /\ pc'[t] = "poll" => polls[t] + 1 # Polls
        /\ \A u \in Threads \ {t} : pc'[u] = pc[u]
    BY <1>1, <2>1, Known DEF ThreadsOK, Labels
  <2>4. /\ polls' \in [Threads -> 0..Polls] /\ polls'[t] = polls[t] + 1
        /\ \A u \in Threads \ {t} : polls'[u] = polls[u]
    BY <2>1, <2>2, Known, PollsAssumption DEF ThreadsOK
  <2>5. ThreadsOK'
    BY <2>1, <2>3, <2>4, Known DEF ThreadsOK
  <2>6. mutex = t /\ child_pid # None /\ pid = None
    BY <1>1, Known, NoPid DEF LockOK, Waiting
  <2>7. LockOK'
    BY <1>1, <2>1, <2>3, <2>6, Known DEF LockOK, Waiting
  <2>8. ForkAlone' /\ QuitOK'
    BY <1>1, <2>1, <2>3, Known DEF ForkAlone, QuitOK, Threads
  <2>9. PollsOK'
    BY <2>2, <2>3, <2>4, Known, PollsAssumption DEF PollsOK
  <2>10. pc[Main] = "aborted" => pc'[Main] = "aborted"
    BY <1>1, <2>3 DEF Threads
  <2>11. procs[child_pid] \notin {"free", "other"}
    BY <1>3 DEF Live
  <2>12. ProcessInv'
    BY <1>1, <2>1, <2>6, <2>10, <2>11, Known, Untouched DEF FlagsOK
  <2> QED
    BY <2>5, <2>7, <2>8, <2>9, <2>12, PartsInv DEF ThreadInv
<1> QED
  BY <1>2, <1>3

LEMMA KillStep ==
  ASSUME IInv, NEW t \in Threads, Kill(t)
  PROVE  IInv'
<1>1. /\ pc[t] = "kill" /\ Goto(t, "wait")
      /\ UNCHANGED <<procs, child_pid, pid, mutex, last_running, serving, quitting, raced>>
  BY DEF Kill, appVars
<1>2. mutex = t /\ child_pid # None /\ pid = None
  BY <1>1, Known, NoPid DEF LockOK, Waiting
<1>3. child_pid \in Pids /\ procs[child_pid] \notin {"free", "other"}
  BY <1>1, <1>2, Known DEF Owned, Waits, SystemOK
<1>4. ~foreign' /\ foreign' \in BOOLEAN
  BY <1>3, Known DEF Kill, FlagsOK
<1>5. ThreadInv'
  BY <1>1, <1>2, Known, Placed DEF Labels, Waiting
<1>6. \A p \in Pids : Live(p)' <=> Live(p)
  BY <1>1 DEF Live
<1>7. SystemOK' /\ FlagsOK'
  BY <1>1, <1>3, <1>4, <1>6, Known DEF Kill, SystemOK, FlagsOK
<1>8. Owned' /\ Held'
  BY <1>1, <1>2, <1>3, NoneAssumption DEF Owned, Held
<1>9. pc[Main] = "aborted" => pc'[Main] = "aborted"
  BY <1>1, Known, Moved DEF Labels, Threads
<1>10. Tracked'
  BY <1>1, <1>6, <1>9, Known DEF Tracked
<1> QED
  BY <1>4, <1>5, <1>7, <1>8, <1>10, PartsInv DEF ProcessInv

\* The last two steps of quit, taken without mutex_.
LEMMA QuitStep ==
  ASSUME IInv, NEW t \in Threads, StopServer(t) \/ Join(t)
  PROVE  IInv'
<1>1. PICK l \in {"join", "idle"} :
        /\ Goto(t, l) /\ pc[t] \in {"server", "join"}
        /\ l = "join" => ~serving' /\ quitting' = quitting
        /\ l = "idle" => /\ pc[t] = "join" /\ serving' = serving /\ quitting'
                         /\ \A w \in Workers : pc[w] = "idle"
        /\ serving' \in BOOLEAN /\ quitting' \in BOOLEAN /\ (serving' => serving)
        /\ UNCHANGED <<osVars, child_pid, pid, mutex, last_running, raced, foreign>>
  <2>1. CASE StopServer(t)
    BY <2>1, Known DEF StopServer, FlagsOK
  <2>2. CASE Join(t)
    BY <2>2, Known DEF Join, FlagsOK
  <2> QED
    BY <2>1, <2>2
<1>2. /\ ThreadsOK' /\ pc'[t] = l
      /\ op'[t] = (IF l \in {"idle", "exited"} THEN "none" ELSE op[t])
      /\ \A u \in Threads \ {t} :
            pc'[u] = pc[u] /\ op'[u] = op[u] /\ polls'[u] = polls[u]
  BY <1>1, Known, Moved DEF Labels
<1>3. mutex # t
  BY <1>1, Known DEF LockOK, Sections, Waiting
<1>4. LockOK'
  BY <1>1, <1>2, <1>3, Known DEF LockOK, Sections, Waiting, SystemOK
<1>5. ForkAlone' /\ PollsOK'
  BY <1>1, <1>2, Known DEF ForkAlone, PollsOK
<1>6. QuitOK'
  <2>1. \A u \in Threads : pc'[u] = "join" => ~serving'
    BY <1>1, <1>2, Known DEF QuitOK
  <2>2. quitting' => ~serving'
    BY <1>1, Known DEF QuitOK
  <2>3. quitting' => \A u \in Workers : pc'[u] \in {"idle", "aborted"}
    BY <1>1, <1>2, Known DEF QuitOK, Threads
  <2>4. \A u \in Threads : op'[u] = "exit" => u = Main /\ quitting'
    BY <1>1, <1>2, Known DEF QuitOK
  <2>5. ASSUME NEW u \in Threads, pc'[u] = "exited"
        PROVE  u = Main /\ quitting' /\ child_pid' = None /\ pc'[Handler] = "idle"
    <3>1. u # t /\ pc[u] = "exited"
      BY <1>2, <2>5
    <3>2. u = Main /\ quitting /\ child_pid = None /\ pc[Handler] = "idle"
      BY <3>1, Known DEF QuitOK
    <3>3. t # Handler /\ quitting'
      BY <1>1, <3>2
    <3> QED
      BY <1>1, <1>2, <3>2, <3>3 DEF Threads
  <2> QED
    BY <2>1, <2>2, <2>3, <2>4, <2>5 DEF QuitOK
<1>7. ThreadInv'
  BY <1>2, <1>4, <1>5, <1>6 DEF ThreadInv
<1>8. child_pid # None /\ procs[child_pid] \in {"free", "other"}
        => mutex # None /\ pc'[mutex] \in Waits
  BY <1>2, <1>3, Known DEF Owned, SystemOK
<1>9. pc[Main] = "aborted" => pc'[Main] = "aborted"
  BY <1>1, <1>2 DEF Threads
<1>10. ProcessInv'
  BY <1>1, <1>8, <1>9, Known, Untouched DEF FlagsOK, SystemOK
<1> QED
  BY <1>7, <1>10, PartsInv

LEMMA ThreadStep ==
  ASSUME IInv, NEW t \in Threads, Step(t)
  PROVE  IInv'
<1>1. CASE Wait(t)
  BY <1>1, StoppedStep DEF Wait, appVars
<1> QED
  BY <1>1, LockStep, WaitPidStep, ToggleStep, StatusStep, CheckStep, ForkStep,
     ParentStep, ForkFailsStep, TerminateStep, PollStep, KillStep, QuitStep
  DEF Step

\* A step of the operating system.
LEMMA SystemStep ==
  ASSUME IInv, NEW p \in Pids, Exec(p) \/ End(p) \/ Reuse(p)
  PROVE  IInv'
<1>1. /\ UNCHANGED <<child_pid, pid, mutex, pc, op, polls, last_running, serving,
                     quitting, raced, foreign>>
      /\ signals' = signals \/ signals' = signals \ {p}
  BY DEF Exec, End, Reuse, threadVars, appVars
<1>2. ThreadInv'
  BY <1>1, Known DEF ThreadInv, ThreadsOK, LockOK, ForkAlone, QuitOK, PollsOK
<1>3. /\ procs' \in [Pids -> {"free", "other", "forked", "running", "zombie"}]
      /\ \A q \in Pids \ {p} : procs'[q] = procs[q]
      /\ procs'[p] \in {"free", "other"} <=> procs[p] \in {"free", "other"}
      /\ Live(p)' => Live(p)
      /\ Live(p) => Live(p)' \/ signals' = signals \ {p}
  BY Known DEF Exec, End, Reuse, SystemOK, Live
<1>4. SystemOK'
  BY <1>1, <1>3, Known DEF SystemOK, Live
<1>5. Owned' /\ Held'
  BY <1>1, <1>3, Known, NoneAssumption DEF Owned, Held, SystemOK
<1>6. Tracked'
  BY <1>1, <1>3, Known DEF Tracked, Live
<1> QED
  BY <1>1, <1>2, <1>4, <1>5, <1>6, Known, PartsInv DEF ProcessInv, FlagsOK

LEMMA InitInv == Init => IInv
<1> SUFFICES ASSUME Init PROVE IInv
  OBVIOUS
<1>1. TypeOK
  <2>1. ThreadsOK
    BY PollsAssumption DEF Init, ThreadsOK, Labels, Ops
  <2>2. FlagsOK /\ SystemOK
    BY DEF Init, FlagsOK, SystemOK, Live
  <2>3. LockOK
    BY NoneAssumption DEF Init, LockOK, Waiting
  <2> QED
    BY <2>1, <2>2, <2>3, TypeParts
<1>2. OwnChildrenOnly /\ KnownEngines
  BY DEF Init, OwnChildrenOnly, KnownEngines, Live, Threads
<1>3. ForkAlone /\ QuitOK /\ PollsOK /\ Owned /\ Held
  BY DEF Init, ForkAlone, QuitOK, PollsOK, Owned, Held
<1> QED
  BY <1>1, <1>2, <1>3 DEF IInv

LEMMA NextInv == IInv /\ [Next]_vars => IInv'
<1> SUFFICES ASSUME IInv, [Next]_vars PROVE IInv'
  OBVIOUS
<1>1. CASE Next
  BY <1>1, CallsStep, AbortStep, ThreadStep, SystemStep DEF Next
<1>2. CASE UNCHANGED vars
  BY <1>2 DEF vars, osVars, threadVars, appVars, IInv, TypeOK, OwnChildrenOnly,
     KnownEngines, ForkAlone, QuitOK, PollsOK, Owned, Held, Live
<1> QED
  BY <1>1, <1>2

\* The inductive invariant holds in every behaviour of the tray.
THEOREM Invariance == Spec => []IInv
  BY InitInv, NextInv, PTL DEF Spec

\* Every variable keeps its type, a thread that has mutex_ is in a section of it,
\* and one that waits in stop has a child to wait for.
THEOREM TypeCorrect == Spec => []TypeOK
<1>1. IInv => TypeOK
  BY DEF IInv
<1> QED
  BY <1>1, Invariance, PTL

\* The tray signals its own children only, however is_running, start, stop, the
\* signal handler and the system's reuse of pids interleave.
THEOREM SignalsCorrect == Spec => []OwnChildrenOnly
<1>1. IInv => OwnChildrenOnly
  BY DEF IInv
<1> QED
  BY <1>1, Invariance, PTL

\* Unless two starts overlapped between is_running and fork, or a second join ended
\* the tray, it knows every engine, and leaves none behind.
THEOREM EnginesCorrect == Spec => []KnownEngines
<1>1. IInv => KnownEngines
  BY DEF IInv
<1> QED
  BY <1>1, Invariance, PTL
=============================================================================
