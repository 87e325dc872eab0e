--------------------------- MODULE TraySupervisor ---------------------------
(***************************************************************************)
(* The tray supervises the engine: TrayProcess forks it, asks whether it   *)
(* runs and stops it, on behalf of the menu and the timer of the main      *)
(* thread, of the HTTP calls to /api/engine and of the signal handler that *)
(* quits.  TrayProcess guards child_pid_ with mutex_: is_running and the   *)
(* fork of start are short critical sections, stop keeps mutex_ while it   *)
(* waits for the engine to end.  To lock, to wait for or fork a child, and *)
(* to note the outcome and unlock are steps of their own: a signal may     *)
(* come between any two of them.                                           *)
(*                                                                         *)
(* The engine is a process of the operating system: forked, running,       *)
(* ended but not waited for (a zombie, whose pid stays taken), or gone,    *)
(* when any other process may get its pid.  SIGTERM asks it to finish what *)
(* it is serving (server.cpp:78-83), which may take any time.  The signal  *)
(* handler is an actor of its own that freezes the main thread it runs on; *)
(* a second signal waits until the handler of the first is done.           *)
(* A worker stands for one HTTP call that was accepted.                    *)
(***************************************************************************)
EXTENDS Integers, FiniteSets

CONSTANTS
    Workers,       \* calls served by the control server
    Main, Handler, \* the GTK thread; the signal handler on its stack
    Pids,
    Polls,         \* how often stop looks before it kills, 30 in the code
    None

Threads == Workers \cup {Main, Handler}
Labels == {"idle", "toggle", "check", "fork", "stop", "poll", "kill", "wait",
           "status", "server", "join", "exited", "aborted"}
\* Where is_running, the fork of start and stop begin; where waitpid is called.
Sections == {"toggle", "status", "check", "fork", "stop"}
Waits == {"toggle", "status", "check", "poll", "wait"}
Ops == {"none", "start", "stop", "restart", "status", "toggle", "quit", "exit"}

ASSUME ThreadsAssumption ==
    Main # Handler /\ Main \notin Workers /\ Handler \notin Workers
ASSUME NoneAssumption == None \notin Threads /\ None \notin Pids
ASSUME PollsAssumption == Polls \in Nat \ {0}

VARIABLES
    procs,        \* what each pid is
    signals,      \* pids that were sent SIGKILL, and not ended since
    child_pid,    \* child_pid_
    pid,          \* start: the child that was forked and is not yet noted
    mutex,        \* the thread that has mutex_
    pc, op,       \* where each thread is, in which call
    polls,        \* how often it looked
    last_running, \* what the menu shows
    serving,      \* the control server accepts calls
    quitting,     \* gtk_main_quit was called
    raced,        \* two threads were between the check and the fork of start
    foreign       \* a signal was sent to a group that is not the tray's child

osVars == <<procs, signals>>
threadVars == <<pc, op, polls>>
appVars == <<last_running, serving, quitting>>
vars == <<osVars, child_pid, pid, mutex, threadVars, appVars, raced, foreign>>

Live(p) == procs[p] \in {"forked", "running"}

Init ==
    /\ procs = [p \in Pids |-> "free"] /\ signals = {}
    /\ child_pid = None /\ pid = None /\ mutex = None
    /\ pc = [t \in Threads |-> "idle"] /\ op = [t \in Threads |-> "none"]
    /\ polls = [t \in Threads |-> 0]
    /\ last_running = FALSE /\ serving = TRUE /\ quitting = FALSE
    /\ raced = FALSE /\ foreign = FALSE

\* The main thread stands still while the handler runs on it.
CanRun(t) == t = Main => pc[Handler] = "idle"

\* t is in a section of mutex_ that began at label l.
Inside(t, l) == pc[t] = l /\ mutex = t /\ CanRun(t)

Goto(t, l) ==
    /\ pc' = [pc EXCEPT ![t] = l]
    /\ op' = [op EXCEPT ![t] = IF l \in {"idle", "exited"} THEN "none" ELSE @]
    /\ polls' = [polls EXCEPT ![t] = 0]

\* Where a call goes on after stop, and after start.
AfterStop(t) ==
    CASE op[t] = "restart" -> "check"
      [] op[t] = "quit"    -> "server"
      [] op[t] = "exit"    -> "exited"
      [] OTHER -> IF t = Main THEN "status" ELSE "idle"
AfterStart(t) == IF t = Main THEN "status" ELSE "idle"

Begin(t, call, l) ==
    /\ pc[t] = "idle" /\ CanRun(t)
    /\ pc' = [pc EXCEPT ![t] = l] /\ op' = [op EXCEPT ![t] = call]
    /\ UNCHANGED <<osVars, child_pid, pid, mutex, polls, appVars, raced, foreign>>

(***************************************************************************)
(* The routes, the menu, the timer and the signals.                        *)
(***************************************************************************)
Request(w) ==
    /\ serving
    /\ \/ Begin(w, "start", "check") \/ Begin(w, "stop", "stop")
       \/ Begin(w, "restart", "stop") \/ Begin(w, "status", "status")

\* Restart Engine can be chosen only while the menu shows a running engine.
Menu ==
    /\ ~quitting
    /\ \/ Begin(Main, "toggle", "toggle")
       \/ last_running /\ Begin(Main, "restart", "stop")
       \/ Begin(Main, "quit", "stop")
Timer == ~quitting /\ Begin(Main, "status", "status")

\* SIGINT or SIGTERM: the handlers stay installed until the process is gone.
Signal ==
    /\ pc[Main] \notin {"exited", "aborted"}
    /\ Begin(Handler, "quit", "stop")

(***************************************************************************)
(* mutex_, and waitpid for a child that has ended.                         *)
(***************************************************************************)
Lock(t) ==
    /\ pc[t] \in Sections /\ mutex = None /\ CanRun(t)
    /\ mutex' = t
    /\ UNCHANGED <<osVars, child_pid, pid, threadVars, appVars, raced, foreign>>

WaitPid(t) ==
    /\ pc[t] \in Waits /\ mutex = t /\ CanRun(t)
    /\ child_pid # None /\ procs[child_pid] = "zombie"
    /\ procs' = [procs EXCEPT ![child_pid] = "free"]
    /\ UNCHANGED <<signals, child_pid, pid, mutex, threadVars, appVars, raced, foreign>>

\* There is no child that waitpid would find ended.
Waited == child_pid # None => procs[child_pid] # "zombie"

(***************************************************************************)
(* is_running, in its three uses.                                          *)
(***************************************************************************)
IsRunning == child_pid # None /\ Live(child_pid)
Asked_KeepsPid ==
    /\ Waited
    /\ mutex' = None
    /\ UNCHANGED <<osVars, child_pid, pid>>
Asked ==
    /\ Waited
    /\ child_pid' = IF IsRunning THEN child_pid ELSE None
    /\ mutex' = None
    /\ UNCHANGED <<osVars, pid>>

Toggle(t) ==
    /\ Inside(t, "toggle") /\ Asked
    /\ Goto(t, IF IsRunning THEN "stop" ELSE "check")
    /\ UNCHANGED <<appVars, raced, foreign>>

\* update_status_ui, or the answer of /api/status.
Status_StartsOnly(t) ==
    /\ Inside(t, "status") /\ Asked
    /\ last_running' = (last_running \/ (t = Main /\ IsRunning))
    /\ Goto(t, "idle")
    /\ UNCHANGED <<serving, quitting, raced, foreign>>
Status(t) ==
    /\ Inside(t, "status") /\ Asked
    /\ last_running' = IF t = Main THEN IsRunning ELSE last_running
    /\ Goto(t, "idle")
    /\ UNCHANGED <<serving, quitting, raced, foreign>>

(***************************************************************************)
(* start.                                                                  *)
(***************************************************************************)
Check_Skipped(t) ==
    /\ Inside(t, "check") /\ Asked
    /\ Goto(t, "fork")
    /\ raced' = (raced \/ \E u \in Threads \ {t} : pc[u] = "fork")
    /\ UNCHANGED <<appVars, foreign>>
Check(t) ==
    /\ Inside(t, "check") /\ Asked
    /\ Goto(t, IF IsRunning THEN AfterStart(t) ELSE "fork")
    /\ raced' = (raced \/ (~IsRunning /\ \E u \in Threads \ {t} : pc[u] = "fork"))
    /\ UNCHANGED <<appVars, foreign>>

Fork(t) ==
    /\ Inside(t, "fork") /\ pid = None
    /\ \E p \in Pids : /\ procs[p] = "free"
                       /\ procs' = [procs EXCEPT ![p] = "forked"]
                       /\ pid' = p
    /\ UNCHANGED <<signals, child_pid, mutex, threadVars, appVars, raced, foreign>>
Parent(t) ==
    /\ Inside(t, "fork") /\ pid # None
    /\ child_pid' = pid /\ pid' = None
    /\ mutex' = None /\ Goto(t, AfterStart(t))
    /\ UNCHANGED <<osVars, appVars, raced, foreign>>
ForkFails(t) ==
    /\ Inside(t, "fork") /\ pid = None
    /\ mutex' = None /\ Goto(t, AfterStart(t))
    /\ UNCHANGED <<osVars, child_pid, pid, appVars, raced, foreign>>

(***************************************************************************)
(* stop.  kill(-pid) finds no group while the child has not called setpgid.*)
(***************************************************************************)
Terminate(t) ==
    /\ Inside(t, "stop")
    /\ IF child_pid = None
         THEN mutex' = None /\ Goto(t, AfterStop(t)) /\ UNCHANGED foreign
         ELSE /\ Goto(t, "poll") /\ UNCHANGED mutex
              /\ foreign' = (foreign \/ procs[child_pid] = "other")
    /\ UNCHANGED <<osVars, child_pid, pid, appVars, raced>>

\* waitpid found the child ended.
Stopped(t) ==
    /\ Waited
    /\ child_pid' = None
    /\ mutex' = None /\ Goto(t, AfterStop(t))
    /\ UNCHANGED <<osVars, pid>>

Poll(t) ==
    /\ pc[t] = "poll" /\ CanRun(t)
    /\ IF Live(child_pid)
         THEN /\ polls' = [polls EXCEPT ![t] = @ + 1]
              /\ pc' = [pc EXCEPT ![t] = IF polls[t] + 1 = Polls THEN "kill" ELSE @]
              /\ UNCHANGED <<osVars, child_pid, pid, mutex, op>>
         ELSE Stopped(t)
    /\ UNCHANGED <<appVars, raced, foreign>>

\* SIGKILL, about three seconds after SIGTERM: the child has long called
\* setpgid by then.
Kill_NoSignal(t) ==
    /\ pc[t] = "kill" /\ CanRun(t)
    /\ Goto(t, "wait")
    /\ UNCHANGED <<osVars, child_pid, pid, mutex, appVars, raced, foreign>>
Kill(t) ==
    /\ pc[t] = "kill" /\ CanRun(t) /\ procs[child_pid] # "forked"
    /\ signals' = IF Live(child_pid) THEN signals \cup {child_pid} ELSE signals
    /\ foreign' = (foreign \/ procs[child_pid] = "other")
    /\ Goto(t, "wait")
    /\ UNCHANGED <<procs, child_pid, pid, mutex, appVars, raced>>
Wait(t) ==
    /\ pc[t] = "wait" /\ CanRun(t) /\ ~Live(child_pid)
    /\ Stopped(t)
    /\ UNCHANGED <<appVars, raced, foreign>>

(***************************************************************************)
(* quit, and the destructor of TrayProcess when main returns.              *)
(***************************************************************************)
StopServer(t) ==
    /\ pc[t] = "server" /\ CanRun(t)
    /\ serving' = FALSE
    /\ Goto(t, "join")
    /\ UNCHANGED <<osVars, child_pid, pid, mutex, last_running, quitting, raced, foreign>>
Join_KeepsLoop(t) ==
    /\ pc[t] = "join" /\ CanRun(t) /\ \A w \in Workers : pc[w] = "idle"
    /\ Goto(t, "idle")
    /\ UNCHANGED <<osVars, child_pid, pid, mutex, appVars, raced, foreign>>
Join(t) ==
    /\ pc[t] = "join" /\ CanRun(t) /\ \A w \in Workers : pc[w] = "idle"
    /\ quitting' = TRUE
    /\ Goto(t, "idle")
    /\ UNCHANGED <<osVars, child_pid, pid, mutex, last_running, serving, raced, foreign>>

\* A handler that interrupted the main thread in its own join joins the same
\* thread again: either the main thread had not called join yet, or that throws
\* out of the handler and std::terminate ends the process.
Abort ==
    /\ pc[Handler] = "join" /\ pc[Main] = "join"
    /\ pc' = [t \in Threads |-> "aborted"]
    /\ op' = [t \in Threads |-> "none"] /\ polls' = [t \in Threads |-> 0]
    /\ child_pid' = None /\ pid' = None /\ mutex' = None
    /\ UNCHANGED <<osVars, appVars, raced, foreign>>

Exit == quitting /\ Begin(Main, "exit", "stop")

(***************************************************************************)
(* The operating system.                                                   *)
(***************************************************************************)
Exec(p) ==
    /\ procs[p] = "forked"
    /\ procs' = [procs EXCEPT ![p] = "running"]
    /\ UNCHANGED <<signals, child_pid, pid, mutex, threadVars, appVars, raced, foreign>>

\* The engine ends: exec failed, it crashed, it obeys SIGTERM, or SIGKILL.
End(p) ==
    /\ Live(p)
    /\ procs' = [procs EXCEPT ![p] = "zombie"]
    /\ signals' = signals \ {p}
    /\ UNCHANGED <<child_pid, pid, mutex, threadVars, appVars, raced, foreign>>
Killed(p) == p \in signals /\ End(p)

\* A process that is not the tray's child gets a pid, and ends.
Reuse(p) ==
    /\ procs[p] \in {"free", "other"}
    /\ procs' = [procs EXCEPT ![p] = IF @ = "free" THEN "other" ELSE "free"]
    /\ UNCHANGED <<signals, child_pid, pid, mutex, threadVars, appVars, raced, foreign>>

Step(t) ==
    \/ Lock(t) \/ WaitPid(t)
    \/ Toggle(t) \/ Status(t) \/ Check(t) \/ Fork(t) \/ Parent(t) \/ ForkFails(t)
    \/ Terminate(t) \/ Poll(t) \/ Kill(t) \/ Wait(t)
    \/ StopServer(t) \/ Join(t)
Next ==
    \/ \E w \in Workers : Request(w)
    \/ Menu \/ Timer \/ Signal \/ Abort \/ Exit
    \/ \E t \in Threads : Step(t)
    \/ \E p \in Pids : Exec(p) \/ End(p) \/ Reuse(p)

Spec == Init /\ [][Next]_vars

\* A thread goes on, and gets mutex_ when that is free again and again; the
\* timer fires and the main loop ends, between signals if need be; the kernel
\* runs and kills processes.
Fairness ==
    /\ \A t \in Threads : SF_vars(Step(t))
    /\ SF_vars(Timer) /\ SF_vars(Exit)
    /\ \A p \in Pids : WF_vars(Exec(p)) /\ WF_vars(Killed(p))
FairSpec == Spec /\ Fairness

(***************************************************************************)
(* Properties.                                                             *)
(***************************************************************************)
\* TypeOK: every variable has its type, a thread that has mutex_ is in a section,
\* the one that waits in stop has a child to wait for, and only a thread that forks
\* has a child it has not noted.
TypeOK ==
    /\ procs \in [Pids -> {"free", "other", "forked", "running", "zombie"}]
    /\ signals \subseteq {p \in Pids : Live(p)}
    /\ child_pid \in Pids \cup {None} /\ pid \in Pids \cup {None}
    /\ mutex \in Threads \cup {None}
    /\ pc \in [Threads -> Labels] /\ op \in [Threads -> Ops]
    /\ polls \in [Threads -> 0..Polls]
    /\ last_running \in BOOLEAN /\ serving \in BOOLEAN /\ quitting \in BOOLEAN
    /\ raced \in BOOLEAN /\ foreign \in BOOLEAN
    /\ \A t \in Threads :
          /\ mutex = t => pc[t] \in Sections \cup {"poll", "kill", "wait"}
          /\ pc[t] \in {"poll", "kill", "wait"} => mutex = t /\ child_pid # None
    /\ pid # None => mutex # None /\ pc[mutex] = "fork"

\* The tray signals its own children only: a pid that was waited for is forgotten
\* before mutex_ is given back (tray_process.cpp:22-27, 85-99), whatever process
\* the system gives it to.
OwnChildrenOnly ==
    /\ ~foreign
    /\ child_pid # None /\ mutex = None => procs[child_pid] \notin {"free", "other"}

\* Unless two starts overlapped between is_running and fork
\* (tray_process.cpp:37-39), there is never an engine the tray does not know or
\* is just forking, and none when it has exited: also when a call started one
\* behind quit.
KnownEngines ==
    ~raced /\ pc[Main] # "aborted" =>
       /\ \A p \in Pids : Live(p) => p \in {child_pid, pid}
       /\ pc[Main] = "exited" => \A p \in Pids : ~Live(p)

\* The main thread has mutex_, in is_running, start or stop, and the handler that
\* runs on it will wait for mutex_.
SelfLocked == pc[Handler] # "idle" /\ mutex = Main

\* Whoever has mutex_ gives it back; a stop ends with the engine it waited for,
\* whether or not the engine obeys SIGTERM (tray_process.cpp:83-99); unless a
\* signal made the main thread wait for itself.
StopEnds == []<>(mutex = None \/ SelfLocked)

\* quit ends the tray (tray_app.cpp:119-125), whatever the calls that are being
\* served do and wherever a signal interrupts the main thread, unless that is in a
\* section of mutex_ (tray_process.cpp:17-27, 39-73, 76-102).
QuitEnds ==
    (\E t \in {Main, Handler} : op[t] = "quit")
        ~> (pc[Main] \in {"exited", "aborted"} \/ SelfLocked)

\* When the engine is gone for good the menu shows it as stopped
\* (tray_app.cpp:46-65), unless the tray quits first.
MenuFollows ==
    <>[](~IsRunning) => <>[](~last_running \/ quitting \/ pc[Handler] # "idle")

\* Hard-coupled supervision: no engine outlives the tray.
NoEngineOutlivesTray == pc[Main] = "exited" => \A p \in Pids : ~Live(p)

\* A quit, by the menu or by a signal, ends the tray.
SignalEndsTray ==
    (\E t \in {Main, Handler} : op[t] = "quit") ~> pc[Main] \in {"exited", "aborted"}
=============================================================================
