--------------------------- MODULE ProcessMonitor ---------------------------
(***************************************************************************)
(* The process monitor of run_cvd                                          *)
(* (host/commands/run_cvd/process_monitor.cc).                             *)
(*                                                                         *)
(* run_cvd forks a monitor process.  The monitor starts the host processes *)
(* that make up a virtual device, waits for them to exit, restarts or      *)
(* forgets the ones that do, and stops all of them when run_cvd writes a   *)
(* stop message into the pipe between the two.  Three threads of control   *)
(* interleave: run_cvd's main thread, the monitor's main thread            *)
(* (MonitorRoutine) and the monitor's reader thread                        *)
(* (ReadMonitorSocketLoopForStop).  The kernel's view of the monitor's     *)
(* children is in `kid'.                                                   *)
(***************************************************************************)
EXTENDS Naturals

CONSTANTS
  N,          \* number of monitor entries, started in the order 1..N
  Critical,   \* the entries with is_critical
  Faults,     \* the faults of the environment that may happen
  MaxCrashes  \* bound: unexpected exits of monitored subprocesses

ASSUME NAssumption == N \in Nat
ASSUME CriticalAssumption == Critical \subseteq 1..N
ASSUME FaultsAssumption == Faults \subseteq {"fork", "monitor", "run_cvd"}
ASSUME MaxCrashesAssumption == MaxCrashes \in Nat

\* Children of the monitor process, numbered like pids: the subprocess of entry
\* i is child i, the stop_cvd started because entry i exited is child N + i, the
\* process forked to wake up wait() is Wake, and Orphan is a descendant the
\* monitor inherits as a subreaper.
Entry == 1..N
StopCvd(i) == N + i
Wake == 2 * N + 1
Orphan == 2 * N + 2
Child == 1..(2 * N + 2)

\* null: no Subprocess object; failed: fork() failed (pid -1); forked: before
\* prctl(PR_SET_PDEATHSIG); run: runs and dies with its parent; stopping: its
\* stopper succeeded; hup: got SIGHUP as its parent died; zombie: exited, not
\* waited for; gone: exited and waited for.
KidState == {"null", "failed", "forked", "run", "stopping", "hup", "zombie", "gone"}
Alive == {"forked", "run", "stopping", "hup"}

VARIABLES
  restart_subprocesses, \* Properties::restart_subprocesses_, set once
  parent,          \* run_cvd: new, serving, waitpid (in StopMonitoredProcesses), dead
  monitor_,        \* ProcessMonitor::monitor_ # -1
  monitor_socket_, \* run_cvd's end of the pipe is open
  result,          \* of the last StopMonitoredProcesses: none, ok, error
  pipe,            \* a stop message is in the pipe
  mon,             \* program counter of the monitor's main thread, or how it ended
  sighup,          \* the monitor has SIGHUP pending
  comms,           \* program counter of the monitor's reader thread
  running,         \* the std::atomic_bool the two threads share
  monitored,       \* the entries still in the vector
  idx,             \* position of StartSubprocesses and StopSubprocesses
  cur,             \* the child the main thread is dealing with
  kid,             \* kernel state of each child
  crashes          \* number of unexpected exits so far

parentVars == <<restart_subprocesses, parent, monitor_, monitor_socket_, result>>
mainVars == <<mon, sighup, monitored, idx, cur>>
commsVars == <<comms, running>>
kernelVars == <<kid, crashes>>
vars == <<parentVars, pipe, mainVars, commsVars, kernelVars>>

MonEnded == {"exit0", "exit1", "killed"}
MonAlive == mon \notin MonEnded \cup {"none"}

Init ==
  /\ restart_subprocesses \in BOOLEAN
  /\ parent = "new" /\ monitor_ = FALSE /\ monitor_socket_ = FALSE
  /\ result = "none" /\ pipe = FALSE
  /\ mon = "none" /\ sighup = FALSE
  /\ comms = "none" /\ running = TRUE
  /\ monitored = Entry /\ idx = 1 /\ cur = 0
  /\ kid = [c \in Child |-> "null"] /\ crashes = 0

-----------------------------------------------------------------------------
(* fork(), and what the kernel does to the children of a process that ends *)

\* fork() by the monitor's main thread on behalf of child c.
Forks(c) == kid' = [kid EXCEPT ![c] = "forked"]
ForkFails(c) == "fork" \in Faults /\ kid' = [kid EXCEPT ![c] = "failed"]

\* The monitor process ends: its children that asked for it get SIGHUP, its
\* zombies are reaped by init, and its reader thread is gone.
MonitorEnds(how) ==
  /\ mon' = how
  /\ comms' = "dead"
  /\ kid' = [c \in Child |->
               IF kid[c] = "run" /\ c # Orphan THEN "hup"
               ELSE IF kid[c] = "zombie" THEN "gone" ELSE kid[c]]
  /\ UNCHANGED <<parentVars, pipe, sighup, running, monitored, idx, cur, crashes>>

-----------------------------------------------------------------------------
(* run_cvd                                                                 *)

\* StartAndMonitorProcesses.  A failed fork() takes the parent's branch and is
\* reported as success, with monitor_ = -1.
StartAndMonitorProcesses ==
  /\ parent = "new" /\ parent' = "serving"
  /\ monitor_socket_' = TRUE
  /\ \/ mon' = "forked" /\ monitor_' = TRUE
     \/ "fork" \in Faults /\ mon' = "none" /\ monitor_' = FALSE
  /\ UNCHANGED <<restart_subprocesses, result, pipe, sighup, monitored, idx, cur,
                 commsVars, kernelVars>>

\* StopMonitoredProcesses up to waitpid(): the stop message is written, then
\* monitor_ and the socket are given up.
StopMonitoredProcesses ==
  /\ parent = "serving" /\ monitor_ /\ monitor_socket_ /\ MonAlive
  /\ pipe' = TRUE
  /\ monitor_' = FALSE /\ monitor_socket_' = FALSE
  /\ parent' = "waitpid"
  /\ UNCHANGED <<restart_subprocesses, result, mainVars, commsVars, kernelVars>>

\* StopMonitoredProcesses when the monitor is gone: the write raises SIGPIPE, which
\* kills run_cvd unless whoever started it ignores the signal.
StopWriteFails ==
  /\ parent = "serving" /\ monitor_ /\ monitor_socket_ /\ ~MonAlive
  /\ \/ parent' = "dead" /\ result' = result
     \/ parent' = "serving" /\ result' = "error"
  /\ UNCHANGED <<restart_subprocesses, monitor_, monitor_socket_, pipe, mainVars,
                 commsVars, kernelVars>>

\* StopMonitoredProcesses after monitor_ was given up.
StopRefused ==
  /\ parent = "serving" /\ ~monitor_
  /\ result' = "error"
  /\ UNCHANGED <<restart_subprocesses, parent, monitor_, monitor_socket_, pipe, mainVars,
                 commsVars, kernelVars>>

\* waitpid() returns and the exit status of the monitor is examined.
WaitpidReturns ==
  /\ parent = "waitpid" /\ mon \in MonEnded
  /\ result' = IF mon = "exit0" THEN "ok" ELSE "error"
  /\ parent' = "serving"
  /\ UNCHANGED <<restart_subprocesses, monitor_, monitor_socket_, pipe, mainVars,
                 commsVars, kernelVars>>

\* run_cvd is killed.  The monitor gets SIGHUP if it has asked for it by then.
RunCvdKilled ==
  /\ "run_cvd" \in Faults
  /\ parent \in {"serving", "waitpid"} /\ parent' = "dead"
  /\ sighup' = (MonAlive /\ mon # "forked")
  /\ UNCHANGED <<restart_subprocesses, monitor_, monitor_socket_, result, pipe, mon,
                 monitored, idx, cur, commsVars, kernelVars>>

-----------------------------------------------------------------------------
(* The monitor's main thread: MonitorRoutine                               *)

\* prctl(PR_SET_PDEATHSIG): takes effect for a parent that dies later.
Prctl ==
  /\ mon = "forked" /\ mon' = "start"
  /\ UNCHANGED <<parentVars, pipe, sighup, monitored, idx, cur, commsVars, kernelVars>>

\* Mutant: the loop runs one entry too far.
StartPastEnd ==
  /\ mon = "start" /\ idx <= N + 1
  /\ Forks(idx) /\ idx' = idx + 1
  /\ UNCHANGED <<parentVars, pipe, mon, sighup, monitored, cur, commsVars, crashes>>

\* One iteration of StartSubprocesses.  After a failed fork() it returns, and
\* the later entries keep a null proc; its result is discarded.
StartSubprocess ==
  /\ mon = "start" /\ idx <= N
  /\ \/ Forks(idx) /\ idx' = idx + 1
     \/ ForkFails(idx) /\ idx' = N + 1
  /\ UNCHANGED <<parentVars, pipe, mon, sighup, monitored, cur, commsVars, crashes>>

\* std::async starts the reader thread.
StartComms ==
  /\ mon = "start" /\ idx > N
  /\ mon' = "check" /\ comms' = "check"
  /\ UNCHANGED <<parentVars, pipe, sighup, monitored, idx, cur, running, kernelVars>>

\* while (running.load())
MonitorLoopCheck ==
  /\ mon = "check"
  /\ mon' = IF running THEN "wait" ELSE "join"
  /\ UNCHANGED <<parentVars, pipe, sighup, monitored, idx, cur, commsVars, kernelVars>>

\* wait() returns an exited child, whichever the kernel picks.
MonitorLoopWait(c) ==
  /\ mon = "wait" /\ kid[c] = "zombie"
  /\ kid' = [kid EXCEPT ![c] = "gone"]
  /\ cur' = c /\ mon' = "recheck"
  /\ UNCHANGED <<parentVars, pipe, sighup, monitored, idx, commsVars, crashes>>

\* wait() fails with ECHILD: MonitorLoop returns an error, which is discarded.
MonitorLoopNoChild ==
  /\ mon = "wait" /\ \A c \in Child : kid[c] \notin Alive \cup {"zombie"}
  /\ mon' = "join"
  /\ UNCHANGED <<parentVars, pipe, sighup, monitored, idx, cur, commsVars, kernelVars>>

\* "Avoid extra restarts near the end"
MonitorLoopRecheck ==
  /\ mon = "recheck"
  /\ mon' = IF running THEN "lookup" ELSE "join"
  /\ UNCHANGED <<parentVars, pipe, sighup, monitored, idx, cur, commsVars, kernelVars>>

\* find_if dereferences the null proc of an entry that precedes the match.
MeetsNullProc ==
  \E j \in monitored : kid[j] = "null" /\ (cur \in monitored => j < cur)

LookupUnknown ==
  /\ mon = "lookup" /\ ~MeetsNullProc
  /\ cur \notin monitored
  /\ mon' = "check"
  /\ UNCHANGED <<parentVars, pipe, sighup, monitored, idx, cur, commsVars, kernelVars>>

\* Mutant: the exited subprocess is not started again.
RestartForgotten ==
  /\ mon = "lookup" /\ ~MeetsNullProc
  /\ cur \in monitored /\ restart_subprocesses
  /\ mon' = "check"
  /\ UNCHANGED <<parentVars, pipe, sighup, monitored, idx, cur, commsVars, kernelVars>>

LookupRestart ==
  /\ mon = "lookup" /\ ~MeetsNullProc
  /\ cur \in monitored /\ restart_subprocesses
  /\ Forks(cur) \/ ForkFails(cur)
  /\ mon' = "check"
  /\ UNCHANGED <<parentVars, pipe, sighup, monitored, idx, cur, commsVars, crashes>>

LookupErase ==
  /\ mon = "lookup" /\ ~MeetsNullProc
  /\ cur \in monitored /\ ~restart_subprocesses
  /\ monitored' = monitored \ {cur}
  /\ mon' = "critical"
  /\ UNCHANGED <<parentVars, pipe, sighup, idx, cur, commsVars, kernelVars>>

LookupSegfault ==
  /\ mon = "lookup" /\ MeetsNullProc
  /\ MonitorEnds("killed")

\* Mutant: the test of is_critical is inverted.
CriticalInverted ==
  /\ mon = "critical"
  /\ mon' = IF running /\ cur \notin Critical THEN "launch" ELSE "check"
  /\ UNCHANGED <<parentVars, pipe, sighup, monitored, idx, cur, commsVars, kernelVars>>

\* if (running.load() && is_critical)
MonitorLoopCritical ==
  /\ mon = "critical"
  /\ mon' = IF running /\ cur \in Critical THEN "launch" ELSE "check"
  /\ UNCHANGED <<parentVars, pipe, sighup, monitored, idx, cur, commsVars, kernelVars>>

\* stop_cmd.Start()
MonitorLoopStopCvd ==
  /\ mon = "launch"
  /\ Forks(StopCvd(cur)) \/ ForkFails(StopCvd(cur))
  /\ mon' = "check"
  /\ UNCHANGED <<parentVars, pipe, sighup, monitored, idx, cur, commsVars, crashes>>

\* parent_comms.get() returned a value.
JoinComms ==
  /\ mon = "join" /\ comms = "ok"
  /\ mon' = "stop" /\ idx' = N
  /\ UNCHANGED <<parentVars, pipe, sighup, monitored, cur, commsVars, kernelVars>>

\* parent_comms.get() returned an error: MonitorRoutine fails, exit(1).
JoinCommsFails ==
  /\ mon = "join" /\ comms = "error"
  /\ MonitorEnds("exit1")

\* Mutant: the vector is walked forwards.
NextToStopForwards(k) ==
  /\ k <= idx
  /\ \A j \in monitored : k <= j

\* k is the entry StopSubprocesses visits next, in reverse order.
NextToStop(k) ==
  /\ k <= idx
  /\ \A j \in monitored : j <= idx => j <= k

\* proc->Stop() succeeds on a child that was not waited for: neither kill() nor
\* waitid() of such a child fails, so kStopFailure and a failed Wait() of it are
\* left out.
StopEntry(k) ==
  /\ mon = "stop" /\ NextToStop(k)
  /\ kid[k] \in {"forked", "run", "zombie"}
  /\ kid' = [kid EXCEPT ![k] = IF @ = "zombie" THEN @ ELSE "stopping"]
  /\ cur' = k /\ mon' = "reap"
  /\ UNCHANGED <<parentVars, pipe, sighup, monitored, idx, commsVars, crashes>>

\* Nothing to stop: kill() of a pid that was waited for fails with ESRCH, and
\* Wait() of pid -1 fails.
StopEntryFails(k) ==
  /\ mon = "stop" /\ NextToStop(k)
  /\ kid[k] \in {"gone", "failed"}
  /\ idx' = k - 1
  /\ UNCHANGED <<parentVars, pipe, mon, sighup, monitored, cur, commsVars, kernelVars>>

\* The entry has no Subprocess object.
StopEntrySegfault(k) ==
  /\ mon = "stop" /\ NextToStop(k)
  /\ kid[k] = "null"
  /\ MonitorEnds("killed")

\* proc->Wait(&infop, WEXITED)
ReapEntry ==
  /\ mon = "reap" /\ kid[cur] = "zombie"
  /\ kid' = [kid EXCEPT ![cur] = "gone"]
  /\ idx' = cur - 1 /\ mon' = "stop"
  /\ UNCHANGED <<parentVars, pipe, sighup, monitored, cur, commsVars, crashes>>

\* Mutant: the loop ends one entry too early.
StopDoneEarly ==
  /\ mon = "stop" /\ \A j \in monitored : j >= idx
  /\ MonitorEnds("exit0")

\* StopSubprocesses returns; its result is discarded and the monitor exits 0.
StopDone ==
  /\ mon = "stop" /\ \A j \in monitored : j > idx
  /\ MonitorEnds("exit0")

\* SIGHUP on the death of run_cvd, or another fatal signal.
MonitorSighup == MonAlive /\ sighup /\ MonitorEnds("killed")
MonitorKilled == "monitor" \in Faults /\ MonAlive /\ MonitorEnds("killed")

-----------------------------------------------------------------------------
(* The monitor's reader thread: ReadMonitorSocketLoopForStop               *)

CommsCheck ==
  /\ comms = "check"
  /\ comms' = IF running THEN "read" ELSE "ok"
  /\ UNCHANGED <<parentVars, pipe, mainVars, running, kernelVars>>

\* Mutant: running is not cleared.
CommsStopForgotten ==
  /\ comms = "read" /\ pipe
  /\ pipe' = FALSE /\ comms' = "fork"
  /\ UNCHANGED <<parentVars, mainVars, running, kernelVars>>

\* A stop message is read and running.store(false).
CommsStop ==
  /\ comms = "read" /\ pipe
  /\ pipe' = FALSE /\ running' = FALSE /\ comms' = "fork"
  /\ UNCHANGED <<parentVars, mainVars, kernelVars>>

\* End of file: no message and run_cvd's end of the pipe is closed.
CommsReadFails ==
  /\ comms = "read" /\ ~pipe /\ (parent = "dead" \/ ~monitor_socket_)
  /\ comms' = "error"
  /\ UNCHANGED <<parentVars, pipe, mainVars, running, kernelVars>>

\* "Wake up the wait() loop by giving it an exited child process"
CommsWake ==
  /\ comms = "fork" /\ comms' = "check"
  /\ \/ kid' = [kid EXCEPT ![Wake] = "run"]
     \/ "fork" \in Faults /\ kid' = kid
  /\ UNCHANGED <<parentVars, pipe, mainVars, running, crashes>>

-----------------------------------------------------------------------------
(* The children                                                            *)

\* An exited child stays a zombie for its parent; init reaps it if there is none.
Exited == IF MonAlive THEN "zombie" ELSE "gone"

\* The child calls prctl(PR_SET_PDEATHSIG) and executes its program.
KidExec(c) ==
  /\ kid[c] = "forked" /\ kid' = [kid EXCEPT ![c] = "run"]
  /\ UNCHANGED <<parentVars, pipe, mainVars, commsVars, crashes>>

\* A monitored subprocess exits without having been asked to.
KidCrashes(i) ==
  /\ kid[i] \in {"forked", "run"} /\ crashes < MaxCrashes
  /\ kid' = [kid EXCEPT ![i] = Exited] /\ crashes' = crashes + 1
  /\ UNCHANGED <<parentVars, pipe, mainVars, commsVars>>

\* A child that was stopped or got SIGHUP exits; so do the process forked to
\* wake up wait() and stop_cvd when they are done.
KidExits(c) ==
  /\ \/ kid[c] \in {"stopping", "hup"}
     \/ kid[c] = "run" /\ c \notin Entry
  /\ kid' = [kid EXCEPT ![c] = Exited]
  /\ UNCHANGED <<parentVars, pipe, mainVars, commsVars, crashes>>

\* A subprocess that exited leaves a descendant behind.
OrphanAppears ==
  /\ MonAlive /\ kid[Orphan] = "null"
  /\ \E i \in Entry : kid[i] \in {"zombie", "gone"}
  /\ kid' = [kid EXCEPT ![Orphan] = "run"]
  /\ UNCHANGED <<parentVars, pipe, mainVars, commsVars, crashes>>

-----------------------------------------------------------------------------
RunCvdNext ==
  StartAndMonitorProcesses \/ StopMonitoredProcesses \/ StopWriteFails
    \/ StopRefused \/ WaitpidReturns \/ RunCvdKilled

MainNext ==
  \/ Prctl \/ StartSubprocess \/ StartComms
  \/ MonitorLoopCheck \/ MonitorLoopNoChild \/ MonitorLoopRecheck
  \/ \E c \in Child : MonitorLoopWait(c)
  \/ LookupUnknown \/ LookupRestart \/ LookupErase \/ LookupSegfault
  \/ MonitorLoopCritical \/ MonitorLoopStopCvd
  \/ JoinComms \/ JoinCommsFails
  \/ \E k \in monitored : StopEntry(k) \/ StopEntryFails(k) \/ StopEntrySegfault(k)
  \/ ReapEntry \/ StopDone

CommsNext == CommsCheck \/ CommsStop \/ CommsReadFails \/ CommsWake

KidNext(c) == KidExec(c) \/ KidExits(c)

Next ==
  \/ RunCvdNext \/ MainNext \/ CommsNext
  \/ MonitorSighup \/ MonitorKilled
  \/ \E c \in Child : KidNext(c)
  \/ \E i \in Entry : KidCrashes(i)
  \/ OrphanAppears

Spec == Init /\ [][Next]_vars

\* Every thread that can run is scheduled, a blocked system call returns once
\* its condition holds, and a process that was stopped or signalled exits.
\* Nothing makes a subprocess crash or a client ask for a stop, and a process
\* left behind by an exited subprocess may run forever.
Fairness ==
  /\ WF_vars(WaitpidReturns)
  /\ WF_vars(MainNext) /\ WF_vars(CommsNext) /\ WF_vars(MonitorSighup)
  /\ \A c \in Child \ {Orphan} : WF_vars(KidNext(c))

FairSpec == Spec /\ Fairness

-----------------------------------------------------------------------------
(* Properties                                                              *)

\* Every variable of the monitor stays in its type.
TypeOK ==
  /\ restart_subprocesses \in BOOLEAN
  /\ parent \in {"new", "serving", "waitpid", "dead"}
  /\ monitor_ \in BOOLEAN /\ monitor_socket_ \in BOOLEAN
  /\ result \in {"none", "ok", "error"}
  /\ pipe \in BOOLEAN /\ sighup \in BOOLEAN /\ running \in BOOLEAN
  /\ mon \in MonEnded \cup
       {"none", "forked", "start", "check", "wait", "recheck", "lookup",
        "critical", "launch", "join", "stop", "reap"}
  /\ comms \in {"none", "check", "read", "fork", "ok", "error", "dead"}
  /\ monitored \subseteq Entry
  /\ idx \in 0..(N + 1) /\ cur \in 0..(2 * N + 2)
  /\ kid \in [Child -> KidState]
  /\ crashes \in 0..MaxCrashes

\* When StopMonitoredProcesses reports success, no monitored subprocess runs or
\* waits to be reaped, whatever was crashing, restarting or being looked up when
\* the stop message arrived.
StoppedMeansStopped ==
  result = "ok" => \A i \in Entry : kid[i] \in {"gone", "failed"}

\* "stop them in reverse order": a subprocess is asked to stop only when every
\* later entry that is still monitored has ended.
ReverseStopOrder ==
  \A j, k \in monitored :
    j < k /\ kid[j] = "stopping" /\ MonAlive => kid[k] \notin Alive

\* "Avoid extra restarts near the end": the process forked to wake up wait() is
\* never taken for a subprocess exit to be handled, since running is cleared
\* before it is forked and read again after wait() returns.
WakeUpEndsLoop ==
  mon \in {"lookup", "critical", "launch"} => cur # Wake

\* The exit of a critical process is not forgotten: once it is out of the vector,
\* stop_cvd was started for it, or is about to be, or a stop is already under way.
CriticalExitNotLost ==
  \A i \in Critical \ monitored :
    \/ kid[StopCvd(i)] # "null"
    \/ ~running \/ ~MonAlive
    \/ mon \in {"critical", "launch"} /\ cur = i

\* A subprocess is stopped, and waited for, only if it was not waited for before
\* (common/libs/utils/subprocess.h: the first wait frees the pid).
StopsOnlyUnreaped ==
  mon = "stop" => \A j \in monitored : j <= idx => kid[j] # "gone"

\* The reader thread could not fork the process that wakes up wait().
WakeLost == comms \in {"check", "ok"} /\ ~running /\ kid[Wake] = "null"

\* A stop cannot get lost between run_cvd, the reader thread and the loop: while
\* run_cvd waits for the monitor, its message is in the pipe for a reader that will
\* read it, or running is cleared; and once it is, a main thread that is blocked in
\* wait() has an exited child coming to it, unless that child could not be forked.
StopIsOnItsWay ==
  parent = "waitpid" /\ MonAlive =>
    /\ running => pipe /\ comms \in {"none", "check", "read"} /\ mon \notin {"stop", "reap"}
    /\ ~running => comms \in {"fork", "check", "ok"}
    /\ ~running /\ mon = "wait" =>
         comms = "fork" \/ kid[Wake] \in {"run", "zombie"} \/ WakeLost

\* StopMonitoredProcesses returns, whichever subprocess crashes, hangs on to its
\* stopper or was never started, and whatever else fails: only the unchecked fork()
\* that wakes up wait() can keep it waiting for the next exit of a subprocess.
StopReturns == parent = "waitpid" ~> parent # "waitpid" \/ WakeLost

\* With restart_subprocesses, a subprocess that exits runs again unless a stop or the
\* end of the monitor comes first, or fork() fails.
CrashedIsRestarted ==
  \A i \in Entry :
    restart_subprocesses /\ kid[i] = "zombie" /\ running
      ~> kid[i] \in Alive \cup {"failed"} \/ ~running \/ ~MonAlive

\* "Die when parent dies": the monitor process does not outlive run_cvd.
MonitorDiesWithParent == parent = "dead" ~> ~MonAlive

-----------------------------------------------------------------------------
(* Refinement                                                              *)

devicePhase ==
  CASE parent = "new" -> "off"
    [] mon = "exit0" -> "stopped"
    [] parent # "new" /\ mon = "none" -> "none"
    [] mon \in {"exit1", "killed"} -> "lost"
    [] MonAlive /\ monitor_ -> "up"
    [] OTHER -> "stopping"

aliveEntries == {i \in Entry : kid[i] \in Alive}

Device == INSTANCE Supervisor WITH Proc <- Entry, phase <- devicePhase, alive <- aliveEntries

\* The threads of the monitor and the signals of the kernel together behave like
\* the atomic supervisor run_cvd's server loop is written against.
ImplementsSupervisor == Device!SupervisorSpec
=============================================================================
