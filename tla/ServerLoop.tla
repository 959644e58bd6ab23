----------------------------- MODULE ServerLoop -----------------------------
(***************************************************************************)
(* run_cvd's server loop (host/commands/run_cvd/server_loop.cpp) with the  *)
(* clients that talk to it: stop_cvd, restart_cvd, powerwash_cvd and       *)
(* cvd_status.                                                             *)
(*                                                                         *)
(* The loop serves one connection at a time.  A restart or a powerwash     *)
(* stops the device and executes run_cvd again: the new incarnation keeps  *)
(* the connection of the client, to tell it how the boot went, and loses   *)
(* every other connection.  The device is the one of Supervisor, which     *)
(* ProcessMonitor implements.                                              *)
(***************************************************************************)
EXTENDS Naturals, Sequences, Supervisor

CONSTANTS
  Client,          \* the client processes; each makes one request
  None,            \* no client
  Faults,          \* the faults of the environment that may happen
  MaxRestarts      \* bound: restarts and powerwashes that get as far as execv()

ASSUME NoneAssumption == None \notin Client
ASSUME MaxRestartsAssumption == MaxRestarts \in Nat

LauncherAction == {"kStop", "kStatus", "kPowerwash", "kRestart"}
ExitCode == {"kSuccess", "kVirtualDeviceBootFailed"}
Response == {"S", "E"}   \* LauncherResponse::kSuccess and kError

VARIABLES
  overlay,   \* the device has an overlay, so that powerwash is supported; set once
  run_cvd,   \* setup, start, accept, read, stop (StopMonitoredProcesses), exec, dead
  inc,       \* incarnation of run_cvd
  monitor_,  \* ProcessMonitor::monitor_ # -1
  client_,   \* the client whose connection is open
  reboot_notification_,  \* the client that waits for the boot of this incarnation
  booted,    \* the boot thread has seen how the boot went
  conn,      \* none, backlog, served, held (as reboot_notification_), closed
  req,       \* the client's action is in the socket
  sock,      \* what run_cvd wrote to the client and it did not read
  act,       \* the action of the client
  cl,        \* idle, connected, wait, boot, ok, failed, fallback, kill
  seen,      \* the incarnations whose messages the client has read, in order
  groups     \* process groups FallBackStop found: an incarnation and processes

runVars == <<overlay, run_cvd, inc, monitor_, client_, reboot_notification_, booted>>
restVars == <<overlay, phase, alive, inc, monitor_, client_, reboot_notification_, booted>>
socketVars == <<conn, req, sock>>
clientVars == <<act, cl, seen, groups>>
vars == <<phase, alive, runVars, socketVars, clientVars>>

Init ==
  /\ SupervisorInit
  /\ overlay \in BOOLEAN
  /\ run_cvd = "setup" /\ inc = 0 /\ monitor_ = FALSE
  /\ client_ = None /\ reboot_notification_ = None /\ booted = FALSE
  /\ conn = [c \in Client |-> "none"]
  /\ req = [c \in Client |-> FALSE]
  /\ sock = [c \in Client |-> <<>>]
  /\ act \in [Client -> LauncherAction]
  /\ cl = [c \in Client |-> "idle"]
  /\ seen = [c \in Client |-> <<>>]
  /\ groups = [c \in Client |-> <<0, {}>>]

-----------------------------------------------------------------------------
(* Sockets                                                                 *)

\* The client has closed its end.
Gone(c) == cl[c] \in {"ok", "failed", "fallback", "kill"}

MonAlive == phase \in {"up", "stopping"}

\* The process monitor has a copy of the listening socket.
Listening == run_cvd \notin {"setup", "dead"} \/ (run_cvd = "dead" /\ MonAlive)

\* run_cvd ends.  Connections the process monitor has no copy of are closed.
Ends ==
  /\ run_cvd' = "dead"
  /\ conn' = [c \in Client |-> IF conn[c] = "served" THEN "closed" ELSE conn[c]]

\* run_cvd writes m to client c and goes on at next.  If the client is gone,
\* SIGPIPE ends run_cvd unless whoever started it ignores the signal.
Write(c, m, next) ==
  IF Gone(c)
  THEN /\ UNCHANGED sock
       /\ Ends \/ (run_cvd' = next /\ UNCHANGED conn)
  ELSE /\ sock' = [sock EXCEPT ![c] = Append(@, [msg |-> m, inc |-> inc])]
       /\ run_cvd' = next /\ UNCHANGED conn

\* The sockets the monitor had copies of are closed when it is gone, too.
CloseSockets ==
  /\ run_cvd = "dead" /\ ~MonAlive
  /\ \E c \in Client : conn[c] \in {"backlog", "held"}
  /\ conn' = [c \in Client |-> IF conn[c] = "none" THEN "none" ELSE "closed"]
  /\ UNCHANGED <<phase, alive, runVars, req, sock, clientVars>>

-----------------------------------------------------------------------------
(* ServerLoopImpl                                                          *)

\* Setup creates the listening socket; it, or another setup feature, may fail.
SetupServer ==
  /\ run_cvd = "setup"
  /\ run_cvd' \in {"start"} \cup (IF "setup" \in Faults THEN {"dead"} ELSE {})
  /\ UNCHANGED <<restVars, socketVars, clientVars>>

\* Run, up to the loop.
StartAndMonitorProcesses ==
  /\ run_cvd = "start" /\ run_cvd' = "accept"
  /\ StartMonitor
  /\ phase' = "none" => "fork" \in Faults
  /\ monitor_' = (phase' = "up")
  /\ UNCHANGED <<overlay, inc, client_, reboot_notification_, booted, socketVars, clientVars>>

Accept(c) ==
  /\ run_cvd = "accept" /\ conn[c] = "backlog"
  /\ run_cvd' = "read" /\ client_' = c
  /\ conn' = [conn EXCEPT ![c] = "served"]
  /\ UNCHANGED <<overlay, phase, alive, inc, monitor_, reboot_notification_, booted,
                 req, sock, clientVars>>

\* client->Read() returns 0.
ReadEof ==
  /\ run_cvd = "read" /\ ~req[client_] /\ Gone(client_)
  /\ run_cvd' = "accept" /\ client_' = None
  /\ conn' = [conn EXCEPT ![client_] = "closed"]
  /\ UNCHANGED <<overlay, phase, alive, inc, monitor_, reboot_notification_, booted,
                 req, sock, clientVars>>

\* The actions that are answered at once.
HandleStatus ==
  /\ run_cvd = "read" /\ req[client_]
  /\ \/ act[client_] = "kStatus" /\ Write(client_, "S", "read")
     \/ act[client_] = "kPowerwash" /\ ~overlay /\ Write(client_, "E", "read")
  /\ req' = [req EXCEPT ![client_] = FALSE]
  /\ UNCHANGED <<restVars, clientVars>>

StopsDevice(a) == a \in {"kStop", "kRestart"} \/ (a = "kPowerwash" /\ overlay)

\* StopMonitoredProcesses, up to waitpid().
HandleStop ==
  /\ run_cvd = "read" /\ req[client_] /\ StopsDevice(act[client_])
  /\ req' = [req EXCEPT ![client_] = FALSE]
  /\ monitor_ /\ RequestStop
  /\ monitor_' = FALSE /\ run_cvd' = "stop"
  /\ UNCHANGED <<overlay, inc, client_, reboot_notification_, booted, conn, sock, clientVars>>

\* StopMonitoredProcesses fails at once: the monitor was stopped before, or the
\* message cannot be written because it has died.
HandleStopFails ==
  /\ run_cvd = "read" /\ req[client_] /\ StopsDevice(act[client_])
  /\ req' = [req EXCEPT ![client_] = FALSE]
  /\ monitor_ => phase # "up"
  /\ \/ Write(client_, "E", "read")
     \/ monitor_ /\ Ends /\ UNCHANGED sock
  /\ UNCHANGED <<restVars, clientVars>>

\* Mutant: the client is not told.
StopFailsSilently ==
  /\ run_cvd = "stop" /\ phase = "lost" /\ run_cvd' = "read"
  /\ UNCHANGED <<restVars, socketVars, clientVars>>

\* StopMonitoredProcesses returns an error.
StopFailed ==
  /\ run_cvd = "stop" /\ phase = "lost"
  /\ Write(client_, "E", "read")
  /\ UNCHANGED <<restVars, req, clientVars>>

\* Mutant: the answer is sent before the monitor has exited.
AnsweredTooEarly ==
  /\ run_cvd = "stop" /\ phase \in {"stopping", "stopped"} /\ act[client_] = "kStop"
  /\ IF Gone(client_) THEN UNCHANGED sock
     ELSE sock' = [sock EXCEPT ![client_] = Append(@, [msg |-> "S", inc |-> inc])]
  /\ Ends
  /\ UNCHANGED <<restVars, req, clientVars>>

\* kStop: the client is answered and run_cvd exits.
StopSucceeded ==
  /\ run_cvd = "stop" /\ phase = "stopped" /\ act[client_] = "kStop"
  /\ IF Gone(client_) THEN UNCHANGED sock
     ELSE sock' = [sock EXCEPT ![client_] = Append(@, [msg |-> "S", inc |-> inc])]
  /\ Ends
  /\ UNCHANGED <<restVars, req, clientVars>>

\* kPowerwash: PowerwashFiles fails; run_cvd goes on without a device.
PowerwashFilesFails ==
  /\ "files" \in Faults
  /\ run_cvd = "stop" /\ phase = "stopped" /\ act[client_] = "kPowerwash"
  /\ Write(client_, "E", "read")
  /\ UNCHANGED <<restVars, req, clientVars>>

\* Mutant: the boot thread that is still running is given the new client.
NotifiesOldBoot ==
  /\ run_cvd = "stop" /\ phase = "stopped" /\ act[client_] \in {"kRestart", "kPowerwash"}
  /\ inc < MaxRestarts
  /\ Write(client_, "S", "exec")
  /\ reboot_notification_' = client_
  /\ UNCHANGED <<overlay, phase, alive, inc, monitor_, client_, booted, req, clientVars>>

\* Mutant: run_cvd does not wait for the monitor.
RestartTooEarly ==
  /\ run_cvd = "stop" /\ phase \in {"stopping", "stopped"}
  /\ act[client_] \in {"kRestart", "kPowerwash"} /\ inc < MaxRestarts
  /\ Write(client_, "S", "exec")
  /\ UNCHANGED <<restVars, req, clientVars>>

\* kRestart and kPowerwash: the client is answered before execv().
StopSucceededForRestart ==
  /\ run_cvd = "stop" /\ phase = "stopped" /\ act[client_] \in {"kRestart", "kPowerwash"}
  /\ inc < MaxRestarts
  /\ Write(client_, "S", "exec")
  /\ UNCHANGED <<restVars, req, clientVars>>

\* Mutant: the restart is counted twice.
RestartCountedTwice ==
  /\ run_cvd = "exec" /\ run_cvd' = "setup" /\ inc' = inc + 2
  /\ phase' = "off" /\ alive' = alive /\ monitor_' = FALSE
  /\ conn' = [c \in Client |-> IF c = client_ THEN "held"
                               ELSE IF conn[c] = "none" THEN "none" ELSE "closed"]
  /\ reboot_notification_' = client_ /\ client_' = None /\ booted' = FALSE
  /\ UNCHANGED <<overlay, req, sock, clientVars>>

\* RestartRunCvd: every socket is closed by execv() except the duplicate of the
\* client's, which becomes reboot_notification_.
RestartRunCvd ==
  /\ run_cvd = "exec" /\ run_cvd' = "setup" /\ inc' = inc + 1
  /\ phase' = "off" /\ alive' = alive /\ monitor_' = FALSE
  /\ conn' = [c \in Client |-> IF c = client_ THEN "held"
                               ELSE IF conn[c] = "none" THEN "none" ELSE "closed"]
  /\ reboot_notification_' = client_ /\ client_' = None /\ booted' = FALSE
  /\ UNCHANGED <<overlay, req, sock, clientVars>>

\* "RestartRunCvd should not return, so something went wrong."
RestartRunCvdReturns ==
  /\ "exec" \in Faults /\ run_cvd = "exec"
  /\ IF Gone(client_) THEN UNCHANGED sock
     ELSE sock' = [sock EXCEPT ![client_] = Append(@, [msg |-> "E", inc |-> inc])]
  /\ Ends
  /\ UNCHANGED <<restVars, req, clientVars>>

\* Mutant: the connection stays open after the boot was reported.
BootReportedAgain ==
  /\ run_cvd # "dead" /\ phase \notin {"off", "none"} /\ reboot_notification_ # None
  /\ Write(reboot_notification_, "kSuccess", run_cvd)
  /\ UNCHANGED <<restVars, req, clientVars>>

\* The boot thread has learnt how the boot went (BootStateMachine) and tells the
\* client that asked for the restart.
BootEnds ==
  /\ run_cvd # "dead" /\ phase \notin {"off", "none"} /\ ~booted
  /\ booted' = TRUE
  /\ reboot_notification_' = None
  /\ IF reboot_notification_ = None THEN UNCHANGED <<run_cvd, conn, sock>>
     ELSE IF Gone(reboot_notification_)
     THEN /\ UNCHANGED sock
          /\ Ends \/ UNCHANGED <<run_cvd, conn>>
     ELSE /\ \E code \in ExitCode :
               sock' = [sock EXCEPT ![reboot_notification_] =
                                      Append(@, [msg |-> code, inc |-> inc])]
          /\ UNCHANGED <<run_cvd, conn>>
  /\ UNCHANGED <<overlay, phase, alive, inc, monitor_, client_, req, clientVars>>

RunCvdKilled ==
  /\ "run_cvd" \in Faults /\ run_cvd # "dead"
  /\ Ends
  /\ UNCHANGED <<restVars, req, sock, clientVars>>

-----------------------------------------------------------------------------
(* The clients                                                             *)

\* What a client does when its request fails: stop_cvd falls back to signals.
Fails(c) == IF act[c] = "kStop" THEN "fallback" ELSE "failed"

ClientOnly == UNCHANGED <<phase, alive, runVars>>

\* GetLauncherMonitor
Connect(c) ==
  /\ cl[c] = "idle"
  /\ conn' = [conn EXCEPT ![c] = IF Listening THEN "backlog" ELSE "none"]
  /\ cl' = [cl EXCEPT ![c] = IF Listening THEN "connected" ELSE Fails(c)]
  /\ ClientOnly /\ UNCHANGED <<req, sock, act, seen, groups>>

\* WriteLauncherAction.  SIGPIPE ends a client whose connection was closed, unless it
\* is ignored.
WriteLauncherAction(c) ==
  /\ cl[c] = "connected"
  /\ req' = [req EXCEPT ![c] = conn[c] # "closed"]
  /\ \E end \in {Fails(c), "failed"} :
       cl' = [cl EXCEPT ![c] = IF conn[c] # "closed" THEN "wait" ELSE end]
  /\ ClientOnly /\ UNCHANGED <<conn, sock, act, seen, groups>>

\* ReadLauncherResponse
ReadLauncherResponse(c) ==
  /\ cl[c] = "wait" /\ sock[c] # <<>>
  /\ sock' = [sock EXCEPT ![c] = Tail(@)]
  /\ seen' = [seen EXCEPT ![c] = Append(@, Head(sock[c]).inc)]
  /\ cl' = [cl EXCEPT ![c] = IF Head(sock[c]).msg # "S" THEN Fails(c)
                             ELSE IF act[c] \in {"kRestart", "kPowerwash"} THEN "boot" ELSE "ok"]
  /\ ClientOnly /\ UNCHANGED <<conn, req, act, groups>>

\* ReadExitCode.  A LauncherResponse is shorter than an exit code and is refused.
ReadExitCode(c) ==
  /\ cl[c] = "boot" /\ sock[c] # <<>>
  /\ sock' = [sock EXCEPT ![c] = Tail(@)]
  /\ seen' = [seen EXCEPT ![c] = Append(@, Head(sock[c]).inc)]
  /\ cl' = [cl EXCEPT ![c] = IF Head(sock[c]).msg = "kSuccess" THEN "ok" ELSE "failed"]
  /\ ClientOnly /\ UNCHANGED <<conn, req, act, groups>>

\* "Launcher socket closed unexpectedly"
SocketClosed(c) ==
  /\ cl[c] \in {"wait", "boot"} /\ sock[c] = <<>> /\ conn[c] = "closed"
  /\ cl' = [cl EXCEPT ![c] = Fails(c)]
  /\ ClientOnly /\ UNCHANGED <<socketVars, act, seen, groups>>

\* WaitForRead: "Timeout expired waiting for launcher monitor to respond"
TimeoutExpired(c) ==
  /\ "timeout" \in Faults
  /\ cl[c] \in {"wait", "boot"} /\ sock[c] = <<>>
  /\ cl' = [cl EXCEPT ![c] = Fails(c)]
  /\ ClientOnly /\ UNCHANGED <<socketVars, act, seen, groups>>

\* FallBackStop: GetCandidateProcessGroups lists the process groups of now.
GetCandidateProcessGroups(c) ==
  /\ cl[c] = "fallback" /\ cl' = [cl EXCEPT ![c] = "kill"]
  /\ groups' = [groups EXCEPT ![c] = <<inc, alive>>]
  /\ ClientOnly /\ UNCHANGED <<socketVars, act, seen>>

\* FallBackStop: killpg().  An incarnation is a session, and so a process group,
\* of its own: run_cvd runs as a daemon.  (In the foreground the group outlives
\* execv and the kill may end the next incarnation too.)  "Having to fallback is an
\* error".
FallBackStop(c) ==
  /\ cl[c] = "kill" /\ cl' = [cl EXCEPT ![c] = "failed"]
  /\ alive' = alive \ groups[c][2]
  /\ IF groups[c][1] = inc
     THEN /\ phase' = IF MonAlive THEN "lost" ELSE phase
          /\ Ends
     ELSE UNCHANGED <<phase, run_cvd, conn>>
  /\ UNCHANGED <<overlay, inc, monitor_, client_, reboot_notification_, booted, req, sock,
                 act, seen, groups>>

-----------------------------------------------------------------------------
(* The device                                                              *)

DeviceOnly == UNCHANGED <<runVars, socketVars, clientVars>>

DeviceStops == Stopped /\ DeviceOnly
DeviceSpawns == (\E p \in Proc : Spawn(p)) /\ DeviceOnly
DeviceExits == (\E p \in Proc : Exit(p)) /\ DeviceOnly

\* The monitor gets SIGHUP when run_cvd ends, or is killed.
MonitorSighup == run_cvd = "dead" /\ LoseMonitor /\ DeviceOnly
MonitorKilled == "monitor" \in Faults /\ LoseMonitor /\ DeviceOnly

-----------------------------------------------------------------------------
RunCvdNext ==
  \/ SetupServer \/ StartAndMonitorProcesses
  \/ \E c \in Client : Accept(c)
  \/ ReadEof \/ HandleStatus \/ HandleStop \/ HandleStopFails
  \/ StopFailed \/ StopSucceeded \/ PowerwashFilesFails
  \/ StopSucceededForRestart \/ RestartRunCvd \/ RestartRunCvdReturns

ClientNext(c) ==
  \/ WriteLauncherAction(c) \/ ReadLauncherResponse(c) \/ ReadExitCode(c) \/ SocketClosed(c)
  \/ GetCandidateProcessGroups(c) \/ FallBackStop(c)

Next ==
  \/ RunCvdNext \/ BootEnds \/ RunCvdKilled \/ CloseSockets
  \/ \E c \in Client : Connect(c) \/ ClientNext(c) \/ TimeoutExpired(c)
  \/ DeviceStops \/ DeviceSpawns \/ DeviceExits \/ MonitorSighup \/ MonitorKilled

Spec == Init /\ [][Next]_vars

\* run_cvd and the clients are scheduled, a client that has connected goes on to
\* write its action, and a monitor whose parent has died gets SIGHUP.  Nothing
\* makes a client connect or a boot end.
Fairness ==
  /\ WF_vars(RunCvdNext) /\ WF_vars(CloseSockets) /\ WF_vars(MonitorSighup)
  /\ \A c \in Client : WF_vars(ClientNext(c))

FairSpec == Spec /\ Fairness

-----------------------------------------------------------------------------
(* Properties                                                              *)

Message == [msg : Response \cup ExitCode, inc : 0..MaxRestarts]

\* Every variable stays in its type.
TypeOK ==
  /\ overlay \in BOOLEAN
  /\ phase \in {"off", "none", "up", "stopping", "stopped", "lost"} /\ alive \subseteq Proc
  /\ run_cvd \in {"setup", "start", "accept", "read", "stop", "exec", "dead"}
  /\ inc \in 0..MaxRestarts /\ monitor_ \in BOOLEAN /\ booted \in BOOLEAN
  /\ client_ \in Client \cup {None} /\ reboot_notification_ \in Client \cup {None}
  /\ conn \in [Client -> {"none", "backlog", "served", "held", "closed"}]
  /\ req \in [Client -> BOOLEAN]
  /\ sock \in [Client -> Seq(Message)]
  /\ act \in [Client -> LauncherAction]
  /\ cl \in [Client -> {"idle", "connected", "wait", "boot", "ok", "failed", "fallback", "kill"}]
  /\ seen \in [Client -> Seq(0..MaxRestarts)]
  /\ groups \in [Client -> (0..MaxRestarts) \X SUBSET Proc]

\* stop_cvd reports success only for a device that has no process left, and none
\* appears afterwards, whatever other clients have asked for in the meantime.
StopOkMeansDown ==
  \A c \in Client : act[c] = "kStop" /\ cl[c] = "ok" => alive = {} /\ phase = "stopped"

\* restart_cvd and powerwash_cvd report success on the boot of the incarnation
\* that replaced the one that answered them, never on an older boot that ends late.
RestartOkMeansRebooted ==
  \A c \in Client :
    act[c] \in {"kRestart", "kPowerwash"} /\ cl[c] = "ok" =>
      Len(seen[c]) = 2 /\ seen[c][2] = seen[c][1] + 1

\* The client waiting for the boot is not answered by the server loop as well: what
\* a client has left unread when it ends well would have been misread as the
\* answer to something else.
NothingLeftUnread == \A c \in Client : cl[c] = "ok" => sock[c] = <<>>

\* run_cvd executes itself only when no process of the device is left, so that two
\* incarnations of a device never run side by side.
RestartsFromNothing == [][inc' # inc => alive = {} /\ alive' = {}]_vars

\* If StopMonitoredProcesses always returns (ProcessMonitor: StopReturns), each
\* client that has connected gets an answer or sees its connection closed, though
\* connections are served one by one and are lost when run_cvd restarts or dies.
StopTerminates == phase = "stopping" ~> phase # "stopping"
ClientIsAnswered == \A c \in Client : cl[c] = "connected" ~> Gone(c) \/ cl[c] = "boot"
ClientsAreAnswered == StopTerminates => ClientIsAnswered
=============================================================================
