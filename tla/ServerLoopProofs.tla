-------------------------- MODULE ServerLoopProofs --------------------------
(***************************************************************************)
(* Proofs about ServerLoop, for every set of clients and of processes,     *)
(* every number of restarts and under every fault.                         *)
(***************************************************************************)
EXTENDS ServerLoop, TLAPS

\* Between accept() and the end of the connection there is a client.
ServedInv == run_cvd \in {"read", "stop", "exec"} => client_ \in Client

\* A device whose stop succeeded has no process, and run_cvd executes itself only
\* for such a device.
DownInv ==
  /\ phase \in {"off", "stopped"} => alive = {}
  /\ run_cvd = "exec" => phase = "stopped" /\ inc < MaxRestarts
  /\ run_cvd = "setup" => phase = "off"

\* Once run_cvd has written the answer to a stop it is gone, and so is the device.
Answered(c) == \E n \in DOMAIN sock[c] : sock[c][n].msg = "S"

StopInv ==
  \A c \in Client :
    act[c] = "kStop" /\ (cl[c] = "ok" \/ Answered(c)) => run_cvd = "dead" /\ phase = "stopped"

\* Only restart_cvd and powerwash_cvd wait for a boot.
BootWait == \A c \in Client : cl[c] = "boot" => act[c] # "kStop"

IInv == BootWait /\ TypeOK /\ ServedInv /\ DownInv /\ StopInv

-----------------------------------------------------------------------------
\* What a write may do to the messages of the clients.
SockEffect(c, m) ==
  /\ sock' \in [Client -> Seq(Message)]
  /\ \A d \in Client : Answered(d)' => Answered(d) \/ (d = c /\ m = "S")

WriteEffect(c, m, next) ==
  /\ SockEffect(c, m)
  /\ conn' \in [Client -> {"none", "backlog", "served", "held", "closed"}]
  /\ run_cvd' \in {next, "dead"}

LEMMA SameSockLemma ==
  ASSUME TypeOK, NEW c, NEW m, UNCHANGED sock
  PROVE  SockEffect(c, m)
  BY DEF TypeOK, SockEffect, Answered

LEMMA AppendLemma ==
  ASSUME TypeOK, NEW c \in Client, NEW m \in Response \cup ExitCode,
         sock' = [sock EXCEPT ![c] = Append(@, [msg |-> m, inc |-> inc])]
  PROVE  SockEffect(c, m)
<1> DEFINE e == [msg |-> m, inc |-> inc]
           s == sock[c]
<1>1. e \in Message /\ e.msg = m
  BY DEF TypeOK, Message
<1>2. s \in Seq(Message)
  BY DEF TypeOK
<1> HIDE DEF e
<1>3. /\ Append(s, e) \in Seq(Message)
      /\ \A n \in DOMAIN Append(s, e) :
           (n \in DOMAIN s /\ Append(s, e)[n] = s[n]) \/ Append(s, e)[n] = e
  BY <1>1, <1>2
<1>4. sock' = [sock EXCEPT ![c] = Append(s, e)]
  BY DEF e
<1>5. sock' \in [Client -> Seq(Message)]
  BY <1>3, <1>4 DEF TypeOK
<1>6. ASSUME NEW d \in Client, Answered(d)' PROVE Answered(d) \/ (d = c /\ m = "S")
  <2>1. CASE d # c
    BY <1>4, <1>6, <2>1 DEF Answered, TypeOK
  <2>2. CASE d = c
    <3>1. sock'[d] = Append(s, e)
      BY <1>4, <2>2 DEF TypeOK
    <3> QED
      BY <1>1, <1>3, <1>6, <2>2, <3>1 DEF Answered
  <2> QED
    BY <2>1, <2>2
<1> QED
  BY <1>5, <1>6 DEF SockEffect

LEMMA TailLemma ==
  ASSUME TypeOK, NEW c \in Client, sock[c] # << >>,
         sock' = [sock EXCEPT ![c] = Tail(@)]
  PROVE  /\ sock' \in [Client -> Seq(Message)]
         /\ \A d \in Client : Answered(d)' => Answered(d)
         /\ Head(sock[c]) \in Message
         /\ Head(sock[c]).msg = "S" => Answered(c)
<1> DEFINE s == sock[c]
<1>1. s \in Seq(Message) /\ s # << >>
  BY DEF TypeOK
<1> HIDE DEF s
<1>2. /\ Tail(s) \in Seq(Message) /\ Head(s) \in Message
      /\ 1 \in DOMAIN s /\ Head(s) = s[1]
      /\ \A n \in DOMAIN Tail(s) : n + 1 \in DOMAIN s /\ Tail(s)[n] = s[n + 1]
  BY <1>1
<1>3. sock' = [sock EXCEPT ![c] = Tail(s)]
  BY DEF s
<1>4. sock' \in [Client -> Seq(Message)]
  BY <1>2, <1>3 DEF TypeOK
<1>5. ASSUME NEW d \in Client, Answered(d)' PROVE Answered(d)
  <2>1. CASE d # c
    BY <1>3, <1>5, <2>1 DEF Answered, TypeOK
  <2>2. CASE d = c
    <3>1. sock'[d] = Tail(s)
      BY <1>3, <2>2 DEF TypeOK
    <3>2. PICK n \in DOMAIN Tail(s) : Tail(s)[n].msg = "S"
      BY <1>5, <3>1, Zenon DEF Answered
    <3> QED
      BY <1>2, <2>2, <3>2 DEF Answered, s
  <2> QED
    BY <2>1, <2>2
<1> QED
  BY <1>2, <1>4, <1>5 DEF Answered, s

LEMMA EndsLemma ==
  ASSUME TypeOK, NEW c, NEW m, NEW next, Ends, UNCHANGED sock
  PROVE  WriteEffect(c, m, next)
  BY SameSockLemma DEF Ends, WriteEffect, TypeOK

LEMMA WriteLemma ==
  ASSUME TypeOK, NEW c \in Client, NEW m \in Response \cup ExitCode, NEW next, Write(c, m, next)
  PROVE  WriteEffect(c, m, next)
<1>1. CASE Gone(c)
  BY <1>1, SameSockLemma, EndsLemma, Zenon DEF Write, WriteEffect, TypeOK
<1>2. CASE ~Gone(c)
  BY <1>2, AppendLemma, Zenon DEF Write, WriteEffect, TypeOK
<1> QED
  BY <1>1, <1>2

-----------------------------------------------------------------------------
LEMMA InitIInv == Init => IInv
<1> SUFFICES ASSUME Init PROVE IInv
  OBVIOUS
<1> USE MaxRestartsAssumption DEF Init, SupervisorInit
<1>1. <<0, {}>> \in (0..MaxRestarts) \X SUBSET Proc
  OBVIOUS
<1>2. << >> \in Seq(Message) /\ << >> \in Seq(0..MaxRestarts)
  OBVIOUS
<1>3. TypeOK
  BY <1>1, <1>2, Zenon DEF TypeOK
<1> QED
  BY <1>3 DEF IInv, ServedInv, DownInv, StopInv, BootWait, Answered

LEMMA StepIInv == IInv /\ [Next]_vars => IInv'
<1> SUFFICES ASSUME IInv, [Next]_vars PROVE IInv'
  OBVIOUS
<1> USE NoneAssumption, MaxRestartsAssumption
    DEF IInv, TypeOK, ServedInv, DownInv, StopInv, BootWait, Answered, vars, runVars, restVars, socketVars,
        clientVars, ClientOnly, DeviceOnly, MonAlive, Gone, Fails, ExitCode, Response
<1>1. CASE SetupServer
  <2>1. TypeOK'
    BY <1>1 DEF SetupServer, TypeOK
  <2>2. ServedInv'
    BY <1>1 DEF SetupServer, ServedInv
  <2>3. DownInv'
    BY <1>1 DEF SetupServer, DownInv
  <2>4. StopInv'
    BY <1>1 DEF SetupServer, StopInv
  <2>5. BootWait'
    BY <1>1 DEF SetupServer, BootWait
  <2> QED
    BY <2>1, <2>2, <2>3, <2>4, <2>5, Zenon DEF IInv
<1>2. CASE StartAndMonitorProcesses
  <2>1. TypeOK'
    BY <1>2 DEF StartAndMonitorProcesses, StartMonitor, TypeOK
  <2>2. ServedInv'
    BY <1>2 DEF StartAndMonitorProcesses, StartMonitor, ServedInv
  <2>3. DownInv'
    BY <1>2 DEF StartAndMonitorProcesses, StartMonitor, DownInv
  <2>4. StopInv'
    BY <1>2 DEF StartAndMonitorProcesses, StartMonitor, StopInv
  <2>5. BootWait'
    BY <1>2 DEF StartAndMonitorProcesses, StartMonitor, BootWait
  <2> QED
    BY <2>1, <2>2, <2>3, <2>4, <2>5, Zenon DEF IInv
<1>3. CASE ReadEof
  <2>1. TypeOK'
    BY <1>3 DEF ReadEof, TypeOK
  <2>2. ServedInv'
    BY <1>3 DEF ReadEof, ServedInv
  <2>3. DownInv'
    BY <1>3 DEF ReadEof, DownInv
  <2>4. StopInv'
    BY <1>3 DEF ReadEof, StopInv
  <2>5. BootWait'
    BY <1>3 DEF ReadEof, BootWait
  <2> QED
    BY <2>1, <2>2, <2>3, <2>4, <2>5, Zenon DEF IInv
<1>4. CASE HandleStatus
  <2> HIDE DEF Answered
  <2>1. client_ \in Client
    BY <1>4 DEF HandleStatus
  <2>2. CASE act[client_] = "kStatus" /\ Write(client_, "S", "read")
    <3>1. WriteEffect(client_, "S", "read")
      BY <2>1, <2>2, WriteLemma
    <3>2. TypeOK'
      BY <1>4, <2>1, <3>1, Zenon DEF HandleStatus, WriteEffect, SockEffect
    <3>3. ServedInv' /\ DownInv' /\ BootWait'
      BY <1>4, <2>1, <3>1 DEF HandleStatus, WriteEffect
    <3>4. StopInv'
      BY <1>4, <2>1, <2>2, <3>1 DEF HandleStatus, WriteEffect, SockEffect
    <3> QED
      BY <3>2, <3>3, <3>4, Zenon
  <2>3. CASE act[client_] = "kPowerwash" /\ ~overlay /\ Write(client_, "E", "read")
    <3>1. WriteEffect(client_, "E", "read")
      BY <2>1, <2>3, WriteLemma
    <3>2. TypeOK'
      BY <1>4, <2>1, <3>1, Zenon DEF HandleStatus, WriteEffect, SockEffect
    <3>3. ServedInv' /\ DownInv' /\ BootWait'
      BY <1>4, <2>1, <3>1 DEF HandleStatus, WriteEffect
    <3>4. StopInv'
      BY <1>4, <2>1, <2>3, <3>1 DEF HandleStatus, WriteEffect, SockEffect
    <3> QED
      BY <3>2, <3>3, <3>4, Zenon
  <2> QED
    BY <1>4, <2>2, <2>3 DEF HandleStatus
<1>5. CASE HandleStop
  <2>1. TypeOK'
    BY <1>5, Zenon DEF HandleStop, RequestStop, TypeOK
  <2>2. ServedInv'
    BY <1>5 DEF HandleStop, RequestStop, ServedInv
  <2>3. DownInv'
    BY <1>5 DEF HandleStop, RequestStop, DownInv
  <2>4. StopInv'
    BY <1>5 DEF HandleStop, RequestStop, StopInv
  <2>5. BootWait'
    BY <1>5 DEF HandleStop, RequestStop, BootWait
  <2> QED
    BY <2>1, <2>2, <2>3, <2>4, <2>5, Zenon DEF IInv
<1>6. CASE HandleStopFails
  <2> HIDE DEF Answered
  <2>1. client_ \in Client
    BY <1>6 DEF HandleStopFails
  <2>2. WriteEffect(client_, "E", "read")
    <3>1. CASE Ends /\ UNCHANGED sock
      BY <3>1, EndsLemma
    <3>2. CASE Write(client_, "E", "read")
      BY <2>1, <3>2, WriteLemma
    <3> QED
      BY <1>6, <3>1, <3>2 DEF HandleStopFails
  <2>7. TypeOK'
    BY <1>6, <2>1, <2>2, Zenon DEF HandleStopFails, WriteEffect, SockEffect
  <2>8. ServedInv' /\ DownInv' /\ BootWait'
    BY <1>6, <2>1, <2>2 DEF HandleStopFails, WriteEffect, SockEffect
  <2>9. StopInv'
    BY <1>6, <2>1, <2>2 DEF HandleStopFails, WriteEffect, SockEffect
  <2> QED
    BY <2>7, <2>8, <2>9, Zenon
<1>7. CASE StopFailed
  <2> HIDE DEF Answered
  <2>1. client_ \in Client
    BY <1>7 DEF StopFailed
  <2>2. WriteEffect(client_, "E", "read")
    BY <1>7, <2>1, WriteLemma DEF StopFailed
  <2>7. TypeOK'
    BY <1>7, <2>1, <2>2, Zenon DEF StopFailed, WriteEffect, SockEffect
  <2>8. ServedInv' /\ DownInv' /\ BootWait'
    BY <1>7, <2>1, <2>2 DEF StopFailed, WriteEffect, SockEffect
  <2>9. StopInv'
    BY <1>7, <2>1, <2>2 DEF StopFailed, WriteEffect, SockEffect
  <2> QED
    BY <2>7, <2>8, <2>9, Zenon
<1>8. CASE StopSucceeded
  <2> HIDE DEF Answered
  <2>1. client_ \in Client
    BY <1>8 DEF StopSucceeded
  <2>2. SockEffect(client_, "S")
    <3>1. CASE Gone(client_)
      BY <1>8, <2>1, <3>1, SameSockLemma DEF StopSucceeded
    <3>2. CASE ~Gone(client_)
      BY <1>8, <2>1, <3>2, AppendLemma, Zenon DEF StopSucceeded
    <3> QED
      BY <3>1, <3>2
  <2>7. TypeOK'
    BY <1>8, <2>1, <2>2, Zenon DEF StopSucceeded, Ends, SockEffect
  <2>8. ServedInv' /\ DownInv' /\ BootWait'
    BY <1>8, <2>1, <2>2 DEF StopSucceeded, Ends, SockEffect
  <2>9. StopInv'
    BY <1>8, <2>1, <2>2 DEF StopSucceeded, Ends, SockEffect
  <2> QED
    BY <2>7, <2>8, <2>9, Zenon
<1>9. CASE PowerwashFilesFails
  <2> HIDE DEF Answered
  <2>1. client_ \in Client
    BY <1>9 DEF PowerwashFilesFails
  <2>2. WriteEffect(client_, "E", "read")
    BY <1>9, <2>1, WriteLemma DEF PowerwashFilesFails
  <2>7. TypeOK'
    BY <1>9, <2>1, <2>2, Zenon DEF PowerwashFilesFails, WriteEffect, SockEffect
  <2>8. ServedInv' /\ DownInv' /\ BootWait'
    BY <1>9, <2>1, <2>2 DEF PowerwashFilesFails, WriteEffect, SockEffect
  <2>9. StopInv'
    BY <1>9, <2>1, <2>2 DEF PowerwashFilesFails, WriteEffect, SockEffect
  <2> QED
    BY <2>7, <2>8, <2>9, Zenon
<1>10. CASE StopSucceededForRestart
  <2> HIDE DEF Answered
  <2>1. client_ \in Client
    BY <1>10 DEF StopSucceededForRestart
  <2>2. WriteEffect(client_, "S", "exec")
    BY <1>10, <2>1, WriteLemma DEF StopSucceededForRestart
  <2>7. TypeOK'
    BY <1>10, <2>1, <2>2, Zenon DEF StopSucceededForRestart, WriteEffect, SockEffect
  <2>8. ServedInv' /\ DownInv' /\ BootWait'
    BY <1>10, <2>1, <2>2 DEF StopSucceededForRestart, WriteEffect, SockEffect
  <2>9. StopInv'
    BY <1>10, <2>1, <2>2 DEF StopSucceededForRestart, WriteEffect, SockEffect
  <2> QED
    BY <2>7, <2>8, <2>9, Zenon
<1>11. CASE RestartRunCvd
  <2>1. TypeOK'
    <3>1. inc' \in 0..MaxRestarts
      BY <1>11 DEF RestartRunCvd
    <3>2. conn' \in [Client -> {"none", "backlog", "served", "held", "closed"}]
      BY <1>11 DEF RestartRunCvd
    <3>3. reboot_notification_' \in Client /\ alive' \subseteq Proc
      BY <1>11 DEF RestartRunCvd
    <3> QED
      BY <1>11, <3>1, <3>2, <3>3, Zenon DEF RestartRunCvd
  <2>2. ServedInv' /\ DownInv' /\ BootWait'
    BY <1>11 DEF RestartRunCvd
  <2>3. StopInv'
    BY <1>11 DEF RestartRunCvd
  <2> QED
    BY <2>1, <2>2, <2>3, Zenon
<1>12. CASE RestartRunCvdReturns
  <2> HIDE DEF Answered
  <2>1. client_ \in Client
    BY <1>12 DEF RestartRunCvdReturns
  <2>2. SockEffect(client_, "E")
    <3>1. CASE Gone(client_)
      BY <1>12, <2>1, <3>1, SameSockLemma DEF RestartRunCvdReturns
    <3>2. CASE ~Gone(client_)
      BY <1>12, <2>1, <3>2, AppendLemma, Zenon DEF RestartRunCvdReturns
    <3> QED
      BY <3>1, <3>2
  <2>7. TypeOK'
    BY <1>12, <2>1, <2>2, Zenon DEF RestartRunCvdReturns, Ends, SockEffect
  <2>8. ServedInv' /\ DownInv' /\ BootWait'
    BY <1>12, <2>1, <2>2 DEF RestartRunCvdReturns, Ends, SockEffect
  <2>9. StopInv'
    BY <1>12, <2>1, <2>2 DEF RestartRunCvdReturns, Ends, SockEffect
  <2> QED
    BY <2>7, <2>8, <2>9, Zenon
<1>13. CASE BootEnds
  <2> HIDE DEF Answered
  <2>1. /\ sock' \in [Client -> Seq(Message)]
        /\ \A d \in Client : Answered(d)' => Answered(d)
    <3>1. CASE UNCHANGED sock
      BY <1>13, <3>1 DEF Answered
    <3>2. CASE ~UNCHANGED sock
      <4>1. PICK code \in ExitCode :
              /\ reboot_notification_ \in Client
              /\ sock' = [sock EXCEPT ![reboot_notification_] =
                                        Append(@, [msg |-> code, inc |-> inc])]
        BY <1>13, <3>2, Zenon DEF BootEnds
      <4>2. SockEffect(reboot_notification_, code)
        BY <4>1, AppendLemma, Zenon
      <4> QED
        BY <4>1, <4>2 DEF SockEffect
    <3> QED
      BY <3>1, <3>2
  <2>2. conn' \in [Client -> {"none", "backlog", "served", "held", "closed"}]
    BY <1>13 DEF BootEnds, Ends
  <2>3. run_cvd' \in {run_cvd, "dead"}
    BY <1>13 DEF BootEnds, Ends
  <2>7. TypeOK'
    BY <1>13, <2>1, <2>2, <2>3 DEF BootEnds
  <2>8. ServedInv' /\ DownInv' /\ BootWait'
    BY <1>13, <2>1, <2>2, <2>3 DEF BootEnds
  <2>9. StopInv'
    BY <1>13, <2>1, <2>2, <2>3 DEF BootEnds
  <2> QED
    BY <2>7, <2>8, <2>9, Zenon
<1>14. CASE RunCvdKilled
  <2>1. TypeOK'
    BY <1>14 DEF RunCvdKilled, Ends, TypeOK
  <2>2. ServedInv'
    BY <1>14 DEF RunCvdKilled, Ends, ServedInv
  <2>3. DownInv'
    BY <1>14 DEF RunCvdKilled, Ends, DownInv
  <2>4. StopInv'
    BY <1>14 DEF RunCvdKilled, Ends, StopInv
  <2>5. BootWait'
    BY <1>14 DEF RunCvdKilled, Ends, BootWait
  <2> QED
    BY <2>1, <2>2, <2>3, <2>4, <2>5, Zenon DEF IInv
<1>15. CASE CloseSockets
  <2>1. TypeOK'
    BY <1>15, Zenon DEF CloseSockets, TypeOK
  <2>2. ServedInv'
    BY <1>15 DEF CloseSockets, ServedInv
  <2>3. DownInv'
    BY <1>15 DEF CloseSockets, DownInv
  <2>4. StopInv'
    BY <1>15 DEF CloseSockets, StopInv
  <2>5. BootWait'
    BY <1>15 DEF CloseSockets, BootWait
  <2> QED
    BY <2>1, <2>2, <2>3, <2>4, <2>5, Zenon DEF IInv
<1>16. CASE DeviceStops
  <2>1. TypeOK'
    BY <1>16 DEF DeviceStops, Stopped, TypeOK
  <2>2. ServedInv'
    BY <1>16 DEF DeviceStops, Stopped, ServedInv
  <2>3. DownInv'
    BY <1>16 DEF DeviceStops, Stopped, DownInv
  <2>4. StopInv'
    BY <1>16 DEF DeviceStops, Stopped, StopInv
  <2>5. BootWait'
    BY <1>16 DEF DeviceStops, Stopped, BootWait
  <2> QED
    BY <2>1, <2>2, <2>3, <2>4, <2>5, Zenon DEF IInv
<1>17. CASE DeviceSpawns
  <2>1. TypeOK'
    BY <1>17 DEF DeviceSpawns, Spawn, TypeOK
  <2>2. ServedInv'
    BY <1>17 DEF DeviceSpawns, Spawn, ServedInv
  <2>3. DownInv'
    BY <1>17 DEF DeviceSpawns, Spawn, DownInv
  <2>4. StopInv'
    BY <1>17 DEF DeviceSpawns, Spawn, StopInv
  <2>5. BootWait'
    BY <1>17 DEF DeviceSpawns, Spawn, BootWait
  <2> QED
    BY <2>1, <2>2, <2>3, <2>4, <2>5, Zenon DEF IInv
<1>18. CASE DeviceExits
  <2>1. TypeOK'
    BY <1>18 DEF DeviceExits, Exit, TypeOK
  <2>2. ServedInv'
    BY <1>18 DEF DeviceExits, Exit, ServedInv
  <2>3. DownInv'
    BY <1>18 DEF DeviceExits, Exit, DownInv
  <2>4. StopInv'
    BY <1>18 DEF DeviceExits, Exit, StopInv
  <2>5. BootWait'
    BY <1>18 DEF DeviceExits, Exit, BootWait
  <2> QED
    BY <2>1, <2>2, <2>3, <2>4, <2>5, Zenon DEF IInv
<1>19. CASE MonitorSighup
  <2>1. TypeOK'
    BY <1>19 DEF MonitorSighup, LoseMonitor, TypeOK
  <2>2. ServedInv'
    BY <1>19 DEF MonitorSighup, LoseMonitor, ServedInv
  <2>3. DownInv'
    BY <1>19 DEF MonitorSighup, LoseMonitor, DownInv
  <2>4. StopInv'
    BY <1>19 DEF MonitorSighup, LoseMonitor, StopInv
  <2>5. BootWait'
    BY <1>19 DEF MonitorSighup, LoseMonitor, BootWait
  <2> QED
    BY <2>1, <2>2, <2>3, <2>4, <2>5, Zenon DEF IInv
<1>20. CASE MonitorKilled
  <2>1. TypeOK'
    BY <1>20 DEF MonitorKilled, LoseMonitor, TypeOK
  <2>2. ServedInv'
    BY <1>20 DEF MonitorKilled, LoseMonitor, ServedInv
  <2>3. DownInv'
    BY <1>20 DEF MonitorKilled, LoseMonitor, DownInv
  <2>4. StopInv'
    BY <1>20 DEF MonitorKilled, LoseMonitor, StopInv
  <2>5. BootWait'
    BY <1>20 DEF MonitorKilled, LoseMonitor, BootWait
  <2> QED
    BY <2>1, <2>2, <2>3, <2>4, <2>5, Zenon DEF IInv
<1>21. ASSUME NEW c \in Client, Accept(c) PROVE IInv'
  <2>1. TypeOK'
    BY <1>21 DEF Accept, TypeOK
  <2>2. ServedInv'
    BY <1>21 DEF Accept, ServedInv
  <2>3. DownInv'
    BY <1>21 DEF Accept, DownInv
  <2>4. StopInv'
    BY <1>21 DEF Accept, StopInv
  <2>5. BootWait'
    BY <1>21 DEF Accept, BootWait
  <2> QED
    BY <2>1, <2>2, <2>3, <2>4, <2>5, Zenon DEF IInv
<1>22. ASSUME NEW c \in Client, Connect(c) PROVE IInv'
  <2>1. TypeOK'
    BY <1>22 DEF Connect, TypeOK
  <2>2. ServedInv'
    BY <1>22 DEF Connect, ServedInv
  <2>3. DownInv'
    BY <1>22 DEF Connect, DownInv
  <2>4. StopInv'
    BY <1>22 DEF Connect, StopInv
  <2>5. BootWait'
    BY <1>22, Zenon DEF Connect, BootWait
  <2> QED
    BY <2>1, <2>2, <2>3, <2>4, <2>5, Zenon DEF IInv
<1>23. ASSUME NEW c \in Client, WriteLauncherAction(c) PROVE IInv'
  <2>1. TypeOK'
    BY <1>23 DEF WriteLauncherAction, TypeOK
  <2>2. ServedInv'
    BY <1>23 DEF WriteLauncherAction, ServedInv
  <2>3. DownInv'
    BY <1>23 DEF WriteLauncherAction, DownInv
  <2>4. StopInv'
    BY <1>23 DEF WriteLauncherAction, StopInv
  <2>5. BootWait'
    BY <1>23 DEF WriteLauncherAction, BootWait
  <2> QED
    BY <2>1, <2>2, <2>3, <2>4, <2>5, Zenon DEF IInv
<1>24. ASSUME NEW c \in Client, ReadLauncherResponse(c) PROVE IInv'
  <2> HIDE DEF Answered
  <2>1. /\ sock' \in [Client -> Seq(Message)]
        /\ \A d \in Client : Answered(d)' => Answered(d)
        /\ Head(sock[c]) \in Message
        /\ Head(sock[c]).msg = "S" => Answered(c)
    BY <1>24, TailLemma, Zenon DEF ReadLauncherResponse
  <2>2. seen' \in [Client -> Seq(0..MaxRestarts)]
    <3>1. seen[c] \in Seq(0..MaxRestarts) /\ Head(sock[c]).inc \in 0..MaxRestarts
      BY <1>24, <2>1 DEF Message
    <3>2. Append(seen[c], Head(sock[c]).inc) \in Seq(0..MaxRestarts)
      BY <3>1
    <3> QED
      BY <1>24, <3>2, Zenon DEF ReadLauncherResponse
  <2>7. TypeOK'
    BY <1>24, <2>1, <2>2, ZenonT(30) DEF ReadLauncherResponse
  <2>8. ServedInv' /\ DownInv' /\ BootWait'
    BY <1>24, <2>1, <2>2 DEF ReadLauncherResponse
  <2>9. StopInv'
    BY <1>24, <2>1, <2>2 DEF ReadLauncherResponse
  <2> QED
    BY <2>7, <2>8, <2>9, Zenon
<1>25. ASSUME NEW c \in Client, ReadExitCode(c) PROVE IInv'
  <2> HIDE DEF Answered
  <2>1. /\ sock' \in [Client -> Seq(Message)]
        /\ \A d \in Client : Answered(d)' => Answered(d)
        /\ Head(sock[c]) \in Message
        /\ Head(sock[c]).msg = "S" => Answered(c)
    BY <1>25, TailLemma, Zenon DEF ReadExitCode
  <2>2. seen' \in [Client -> Seq(0..MaxRestarts)]
    <3>1. seen[c] \in Seq(0..MaxRestarts) /\ Head(sock[c]).inc \in 0..MaxRestarts
      BY <1>25, <2>1 DEF Message
    <3>2. Append(seen[c], Head(sock[c]).inc) \in Seq(0..MaxRestarts)
      BY <3>1
    <3> QED
      BY <1>25, <3>2, Zenon DEF ReadExitCode
  <2>7. TypeOK'
    BY <1>25, <2>1, <2>2, ZenonT(30) DEF ReadExitCode
  <2>8. ServedInv' /\ DownInv' /\ BootWait'
    BY <1>25, <2>1, <2>2 DEF ReadExitCode
  <2>9. StopInv'
    BY <1>25, <2>1, <2>2, Zenon DEF ReadExitCode
  <2> QED
    BY <2>7, <2>8, <2>9, Zenon
<1>26. ASSUME NEW c \in Client, SocketClosed(c) PROVE IInv'
  <2>1. TypeOK'
    BY <1>26 DEF SocketClosed, TypeOK
  <2>2. ServedInv'
    BY <1>26 DEF SocketClosed, ServedInv
  <2>3. DownInv'
    BY <1>26 DEF SocketClosed, DownInv
  <2>4. StopInv'
    BY <1>26 DEF SocketClosed, StopInv
  <2>5. BootWait'
    BY <1>26, Zenon DEF SocketClosed, BootWait
  <2> QED
    BY <2>1, <2>2, <2>3, <2>4, <2>5, Zenon DEF IInv
<1>27. ASSUME NEW c \in Client, TimeoutExpired(c) PROVE IInv'
  <2>1. TypeOK'
    BY <1>27 DEF TimeoutExpired, TypeOK
  <2>2. ServedInv'
    BY <1>27 DEF TimeoutExpired, ServedInv
  <2>3. DownInv'
    BY <1>27 DEF TimeoutExpired, DownInv
  <2>4. StopInv'
    BY <1>27, Zenon DEF TimeoutExpired, StopInv
  <2>5. BootWait'
    BY <1>27, Zenon DEF TimeoutExpired, BootWait
  <2> QED
    BY <2>1, <2>2, <2>3, <2>4, <2>5, Zenon DEF IInv
<1>28. ASSUME NEW c \in Client, GetCandidateProcessGroups(c) PROVE IInv'
  <2>1. TypeOK'
    BY <1>28 DEF GetCandidateProcessGroups, TypeOK
  <2>2. ServedInv'
    BY <1>28 DEF GetCandidateProcessGroups, ServedInv
  <2>3. DownInv'
    BY <1>28 DEF GetCandidateProcessGroups, DownInv
  <2>4. StopInv'
    BY <1>28 DEF GetCandidateProcessGroups, StopInv
  <2>5. BootWait'
    BY <1>28, Zenon DEF GetCandidateProcessGroups, BootWait
  <2> QED
    BY <2>1, <2>2, <2>3, <2>4, <2>5, Zenon DEF IInv
<1>29. ASSUME NEW c \in Client, FallBackStop(c) PROVE IInv'
  <2>1. TypeOK'
    BY <1>29, SMTT(20) DEF FallBackStop, Ends, TypeOK
  <2>2. ServedInv'
    BY <1>29 DEF FallBackStop, Ends, ServedInv
  <2>3. DownInv'
    BY <1>29, Zenon DEF FallBackStop, Ends, DownInv
  <2>4. StopInv'
    BY <1>29, Zenon DEF FallBackStop, Ends, StopInv
  <2>5. BootWait'
    BY <1>29, Zenon DEF FallBackStop, Ends, BootWait
  <2> QED
    BY <2>1, <2>2, <2>3, <2>4, <2>5, Zenon DEF IInv
<1>30. CASE UNCHANGED vars
  BY <1>30 DEF TypeOK, ServedInv, DownInv, StopInv, BootWait
<1> QED
  BY <1>1, <1>2, <1>3, <1>4, <1>5, <1>6, <1>7, <1>8, <1>9, <1>10, <1>11,
     <1>12, <1>13, <1>14, <1>15, <1>16, <1>17, <1>18, <1>19, <1>20, <1>21,
     <1>22, <1>23, <1>24, <1>25, <1>26, <1>27, <1>28, <1>29, <1>30, Zenon
  DEF Next, RunCvdNext, ClientNext

\* stop_cvd reports success only when the device is down for good.
THEOREM StopIsFinal == Spec => []StopOkMeansDown
<1>1. IInv => StopOkMeansDown
  BY DEF IInv, StopInv, DownInv, StopOkMeansDown
<1> QED
  BY InitIInv, StepIInv, <1>1, PTL DEF Spec

\* run_cvd executes itself only when the device has no process left.
THEOREM RestartIsClean == Spec => RestartsFromNothing
<1>1. IInv /\ [Next]_vars => [inc' # inc => alive = {} /\ alive' = {}]_vars
  <2> SUFFICES ASSUME IInv, Next, inc' # inc PROVE alive = {} /\ alive' = {}
    BY DEF vars, runVars, restVars
  <2>1. RestartRunCvd
    BY Zenon DEF Next, RunCvdNext, ClientNext, SetupServer, StartAndMonitorProcesses, Accept, ReadEof,
           HandleStatus, HandleStop, HandleStopFails, StopFailed, StopSucceeded,
           PowerwashFilesFails, StopSucceededForRestart, RestartRunCvdReturns, BootEnds,
           RunCvdKilled, CloseSockets, Connect, WriteLauncherAction, ReadLauncherResponse,
           ReadExitCode, SocketClosed, TimeoutExpired, GetCandidateProcessGroups, FallBackStop,
           DeviceStops, DeviceSpawns, DeviceExits, MonitorSighup, MonitorKilled, ClientOnly,
           DeviceOnly, runVars, restVars
  <2> QED
    BY <2>1 DEF RestartRunCvd, IInv, DownInv
<1> QED
  BY InitIInv, StepIInv, <1>1, PTL DEF Spec, RestartsFromNothing

\* The type invariant of the server loop and its clients.
THEOREM ServerLoopTypeCorrect == Spec => []TypeOK
<1>1. IInv => TypeOK
  BY DEF IInv
<1> QED
  BY InitIInv, StepIInv, <1>1, PTL DEF Spec

-----------------------------------------------------------------------------
(* What a client has been told: the answers to a restart come from two     *)
(* incarnations, and nobody is told more than it reads.                    *)

Restarts == {"kRestart", "kPowerwash"}

\* Connections and requests: the client that is served and the one that waits for
\* the boot are different ones, and neither has a request left.
Links ==
  /\ \A c \in Client : cl[c] = "idle" => conn[c] = "none"
  /\ \A c \in Client : cl[c] \in {"idle", "connected"} => ~req[c]
  /\ run_cvd \in {"read", "stop", "exec"} => conn[client_] = "served"
  /\ run_cvd \in {"stop", "exec"} => ~req[client_] /\ cl[client_] \notin {"idle", "connected"}
  /\ run_cvd = "exec" => act[client_] \in Restarts
  /\ reboot_notification_ # None =>
       /\ conn[reboot_notification_] \in {"held", "closed"}
       /\ ~req[reboot_notification_] /\ act[reboot_notification_] \in Restarts
       /\ cl[reboot_notification_] \notin {"idle", "connected"}

\* A client is told nothing before its request is handled.
Fresh(c) == Len(sock[c]) = 0 /\ Len(seen[c]) = 0

Pending(c) ==
  cl[c] \in {"idle", "connected"} \/ req[c] \/ (run_cvd = "stop" /\ client_ = c)

Unanswered == \A c \in Client : Pending(c) => Fresh(c)

\* All c was told so far is that incarnation n restarts for it.
Told(c, n) ==
  \/ /\ cl[c] = "wait" /\ Len(seen[c]) = 0
     /\ Len(sock[c]) = 1 /\ sock[c][1].msg = "S" /\ sock[c][1].inc = n
  \/ cl[c] = "boot" /\ Len(sock[c]) = 0 /\ Len(seen[c]) = 1 /\ seen[c][1] = n

Rebooting ==
  /\ run_cvd = "exec" /\ ~Gone(client_) => Told(client_, inc)
  /\ reboot_notification_ # None /\ ~Gone(reboot_notification_) =>
       \E n \in 0 .. MaxRestarts : inc = n + 1 /\ Told(reboot_notification_, n)

\* The messages of a client: one, or for a restart a second one, which says success
\* only for the next incarnation.
Dialog(c) ==
  /\ cl[c] = "wait" =>
       /\ Len(seen[c]) = 0
       /\ \/ Len(sock[c]) \in {0, 1}
          \/ /\ Len(sock[c]) = 2 /\ act[c] \in Restarts
             /\ sock[c][2].msg = "kSuccess" => sock[c][2].inc = sock[c][1].inc + 1
  /\ cl[c] = "boot" =>
       /\ Len(seen[c]) = 1
       /\ \/ Len(sock[c]) = 0
          \/ /\ Len(sock[c]) = 1
             /\ sock[c][1].msg = "kSuccess" => sock[c][1].inc = seen[c][1] + 1
  /\ cl[c] = "ok" =>
       /\ Len(sock[c]) = 0
       /\ act[c] \in Restarts => Len(seen[c]) = 2 /\ seen[c][2] = seen[c][1] + 1

DInv == Links /\ Unanswered /\ Rebooting /\ \A c \in Client : Dialog(c)

-----------------------------------------------------------------------------
LEMMA InitDInv == Init => DInv
<1> SUFFICES ASSUME Init PROVE DInv
  OBVIOUS
<1> USE DEF Init
<1>1. Links
  BY DEF Links
<1>2. Unanswered
  BY DEF Unanswered, Fresh
<1>3. Rebooting
  BY DEF Rebooting
<1>4. \A c \in Client : Dialog(c)
  BY DEF Dialog
<1> QED
  BY <1>1, <1>2, <1>3, <1>4 DEF DInv

\* A step that says nothing to client c and in which c reads nothing; c may give up.
SilentFor(c) ==
  /\ sock'[c] = sock[c] /\ seen'[c] = seen[c] /\ act'[c] = act[c]
  /\ cl'[c] = cl[c] \/ cl'[c] \in {"failed", "fallback", "kill"}
  /\ Pending(c)' => Pending(c)
  /\ run_cvd' = "exec" /\ client_' = c => run_cvd = "exec" /\ client_ = c /\ inc' = inc
  /\ reboot_notification_' = c => reboot_notification_ = c /\ inc' = inc

\* What DInv says of the messages of c.
Heard(c) ==
  /\ Pending(c) => Fresh(c)
  /\ run_cvd = "exec" /\ client_ = c /\ ~Gone(c) => Told(c, inc)
  /\ reboot_notification_ = c /\ ~Gone(c) =>
       \E n \in 0 .. MaxRestarts : inc = n + 1 /\ Told(c, n)
  /\ Dialog(c)

AllHeard == \A c \in Client : Heard(c)

LEMMA HeardLemma ==
  ASSUME TypeOK, ServedInv, Links
  PROVE  DInv <=> AllHeard
<1>1. run_cvd = "exec" => client_ \in Client
  BY DEF ServedInv
<1>2. reboot_notification_ # None => reboot_notification_ \in Client
  BY DEF TypeOK
<1>3. None \notin Client
  BY NoneAssumption, Zenon
<1> QED
  BY <1>1, <1>2, <1>3 DEF DInv, AllHeard, Heard, Unanswered, Rebooting

LEMMA SilentLemma ==
  ASSUME NEW c \in Client, Heard(c), SilentFor(c)
  PROVE  Heard(c)'
<1> USE DEF SilentFor, Heard
<1>1. (Pending(c) => Fresh(c))'
  BY Zenon DEF Fresh
<1>3. \A n : ~Gone(c)' /\ Told(c, n) => Told(c, n)'
  BY Zenon DEF Told, Gone
<1>4. ~Gone(c)' => ~Gone(c)
  BY Zenon DEF Gone
<1>5. Dialog(c)'
  BY DEF Dialog
<1> QED
  BY <1>1, <1>3, <1>4, <1>5

\* A step that says nothing and in which nobody reads.
LEMMA SilentStep ==
  ASSUME IInv, IInv', DInv, Links', \A c \in Client : SilentFor(c)
  PROVE  DInv'
<1>1. AllHeard
  BY HeardLemma DEF IInv, DInv
<1>2. AllHeard'
  BY <1>1, SilentLemma DEF AllHeard
<1>3. (DInv <=> AllHeard)'
  BY HeardLemma, PTL DEF IInv
<1> QED
  BY <1>2, <1>3

\* A step that concerns client c only.
LEMMA OneClientStep ==
  ASSUME IInv, IInv', DInv, Links', NEW c \in Client, Heard(c)',
         \A d \in Client \ {c} : SilentFor(d)
  PROVE  DInv'
<1>1. AllHeard
  BY HeardLemma DEF IInv, DInv
<1>2. AllHeard'
  BY <1>1, SilentLemma DEF AllHeard
<1>3. (DInv <=> AllHeard)'
  BY HeardLemma, PTL DEF IInv
<1> QED
  BY <1>2, <1>3

-----------------------------------------------------------------------------
(* Writes                                                                  *)

Says(c, m) ==
  IF Gone(c) THEN UNCHANGED sock
             ELSE sock' = [sock EXCEPT ![c] = Append(@, [msg |-> m, inc |-> inc])]

\* A message is added at the end, and the other clients are told nothing.
Appended(c, m) ==
  /\ \A d \in Client \ {c} : sock'[d] = sock[d]
  /\ Len(sock[c]) \in Nat
  /\ Len(sock'[c]) = Len(sock[c]) + 1
  /\ \A n \in 1 .. Len(sock[c]) : sock'[c][n] = sock[c][n]
  /\ sock'[c][Len(sock[c]) + 1].msg = m
  /\ sock'[c][Len(sock[c]) + 1].inc = inc

LEMMA SaysLemma ==
  ASSUME TypeOK, NEW c \in Client, NEW m, ~Gone(c), Says(c, m)
  PROVE  Appended(c, m)
<1> DEFINE e == [msg |-> m, inc |-> inc]
           s == sock[c]
<1>1. e.msg = m /\ e.inc = inc
  OBVIOUS
<1>2. s \in Seq(Message)
  BY DEF TypeOK
<1>3. sock' = [sock EXCEPT ![c] = Append(s, e)]
  BY Zenon DEF Says
<1>4. sock'[c] = Append(s, e) /\ \A d \in Client \ {c} : sock'[d] = sock[d]
  BY <1>3 DEF TypeOK
<1> HIDE DEF e
<1>5. /\ Len(s) \in Nat
      /\ Len(Append(s, e)) = Len(s) + 1
      /\ \A n \in 1 .. Len(s) : Append(s, e)[n] = s[n]
      /\ Append(s, e)[Len(s) + 1] = e
  BY <1>2
<1> QED
  BY <1>1, <1>4, <1>5 DEF Appended

\* The first message to a client whose request is handled.
LEMMA FirstMessage ==
  ASSUME TypeOK, NEW c \in Client, NEW m, ~Gone(c), Says(c, m), Dialog(c), Fresh(c),
         cl[c] \notin {"idle", "connected"}, UNCHANGED <<cl, seen, act, inc>>
  PROVE  Dialog(c)' /\ (m = "S" => Told(c, inc)')
<1>0. Appended(c, m)
  BY SaysLemma, Zenon
<1>1. cl[c] = "wait"
  BY SMTT(20) DEF Dialog, Fresh, Gone, TypeOK
<1>2. Len(sock'[c]) = 1 /\ sock'[c][1].msg = m /\ sock'[c][1].inc = inc
  BY <1>0 DEF Fresh, Appended
<1>3. Dialog(c)'
  BY <1>1, <1>2, Zenon DEF Dialog
<1>4. m = "S" => Told(c, inc)'
  BY <1>1, <1>2 DEF Told, Fresh
<1> QED
  BY <1>3, <1>4

\* The second message to a client that asked for a restart.
LEMMA SecondMessage ==
  ASSUME TypeOK, NEW c \in Client, NEW m, ~Gone(c), Says(c, m), NEW n \in Nat, Told(c, n),
         Dialog(c), act[c] \in Restarts, m = "kSuccess" => inc = n + 1,
         UNCHANGED <<cl, seen, act>>
  PROVE  Dialog(c)'
<1>0. Appended(c, m)
  BY SaysLemma
<1>1. CASE cl[c] = "wait"
  <2>1. Len(sock[c]) = 1 /\ sock[c][1].inc = n
    BY <1>1, Zenon DEF Told
  <2>2. /\ Len(sock'[c]) = 2 /\ sock'[c][1] = sock[c][1]
        /\ sock'[c][2].msg = m /\ sock'[c][2].inc = inc
    BY <1>0, <2>1 DEF Appended
  <2> QED
    BY <1>1, <2>1, <2>2, Zenon DEF Dialog
<1>2. CASE cl[c] = "boot"
  <2>1. Len(sock[c]) = 0 /\ seen[c][1] = n
    BY <1>2, Zenon DEF Told
  <2>2. Len(sock'[c]) = 1 /\ sock'[c][1].msg = m /\ sock'[c][1].inc = inc
    BY <1>0, <2>1 DEF Appended
  <2> QED
    BY <1>2, <2>1, <2>2 DEF Dialog
<1> QED
  BY <1>1, <1>2 DEF Told

\* The server loop answers the client it serves.
Answers(m) ==
  /\ run_cvd = "stop" \/ (run_cvd = "read" /\ req[client_])
  /\ Says(client_, m)
  /\ Ends \/ (run_cvd' \in {"read", "exec"} /\ UNCHANGED conn)
  /\ run_cvd' = "exec" => m = "S" /\ act[client_] \in Restarts
  /\ run_cvd' = "read" => m = "E" \/ act[client_] \notin Restarts
  /\ req' = [req EXCEPT ![client_] = FALSE]
  /\ UNCHANGED <<inc, client_, reboot_notification_, booted, clientVars>>

LEMMA AnswerStep ==
  ASSUME IInv, IInv', DInv, NEW m, Answers(m)
  PROVE  DInv'
<1> PICK c \in Client : c = client_
  BY DEF IInv, ServedInv, Answers
<1>1. TypeOK /\ Links /\ Heard(c) /\ Dialog(c)
  BY HeardLemma, Zenon DEF IInv, DInv, AllHeard
<1>2. /\ conn[c] = "served" /\ cl[c] \notin {"idle", "connected"} /\ Pending(c)
      /\ reboot_notification_ # c
  BY <1>1, NoneAssumption, Zenon DEF Links, Answers, Pending, TypeOK
<1>3. ~req'[c] /\ \A d \in Client \ {c} : req'[d] = req[d]
  BY <1>1 DEF Answers, TypeOK
<1>4. run_cvd' \in {"read", "exec", "dead"} /\ UNCHANGED <<act, cl, seen, inc>>
  BY Zenon DEF Answers, Ends, clientVars
<1>5. Links'
  <2>1. \A d \in Client : conn'[d] = conn[d] \/ (conn[d] = "served" /\ conn'[d] = "closed")
    BY DEF Answers, Ends
  <2>2. run_cvd' # "dead" => conn' = conn
    BY DEF Answers, Ends
  <2>3. reboot_notification_ # None => reboot_notification_ \in Client
    BY <1>1, Zenon DEF TypeOK
  <2> QED
    BY <1>1, <1>2, <1>3, <1>4, <2>1, <2>2, <2>3, NoneAssumption DEF Links, Answers
<1>6. \A d \in Client \ {c} : SilentFor(d)
  <2>1. \A d \in Client \ {c} : sock'[d] = sock[d]
    <3>1. CASE Gone(c)
      BY <3>1 DEF Answers, Says
    <3>2. CASE ~Gone(c)
      BY <1>1, <3>2, SaysLemma DEF Answers, Appended
    <3> QED
      BY <3>1, <3>2
  <2> QED
    BY <1>3, <1>4, <2>1 DEF SilentFor, Pending, Answers
<1>7. Heard(c)'
  <2>1. ~Pending(c)' /\ reboot_notification_' # c
    BY <1>2, <1>3, <1>4 DEF Pending, Answers
  <2>2. CASE Gone(c)
    <3>1. Dialog(c)'
      BY <1>1, <1>4, <2>2, Zenon DEF Dialog, Answers, Says
    <3> QED
      BY <1>4, <2>1, <2>2, <3>1, Zenon DEF Heard, Gone
  <2>3. CASE ~Gone(c)
    <3>1. Dialog(c)' /\ (m = "S" => Told(c, inc)')
      BY <1>1, <1>2, <1>4, <2>3, FirstMessage, Zenon DEF Heard, Answers
    <3> QED
      BY <2>1, <3>1 DEF Heard, Answers
  <2> QED
    BY <2>2, <2>3
<1> QED
  BY <1>5, <1>6, <1>7, OneClientStep

\* "RestartRunCvd should not return": the second message is an error.
LEMMA ExecReturnsStep ==
  ASSUME IInv, IInv', DInv, RestartRunCvdReturns
  PROVE  DInv'
<1> PICK c \in Client : c = client_
  BY DEF IInv, ServedInv, RestartRunCvdReturns
<1>1. TypeOK /\ Links /\ Heard(c) /\ Dialog(c)
  BY HeardLemma, ZenonT(30) DEF IInv, DInv, AllHeard
<1>2. /\ ~req[c] /\ cl[c] \notin {"idle", "connected"} /\ act[c] \in Restarts
      /\ reboot_notification_ # c
  BY <1>1, NoneAssumption DEF Links, RestartRunCvdReturns, TypeOK
<1>3. /\ run_cvd' = "dead" /\ Says(c, "E")
      /\ UNCHANGED <<act, cl, seen, inc, req, client_, reboot_notification_>>
      /\ \A d \in Client : conn'[d] = conn[d] \/ (conn[d] = "served" /\ conn'[d] = "closed")
  BY DEF RestartRunCvdReturns, Ends, Says, clientVars, restVars
<1>4. Links'
  <2>1. reboot_notification_ # None => reboot_notification_ \in Client
    BY <1>1 DEF TypeOK
  <2> QED
    BY <1>1, <1>3, <2>1, Zenon DEF Links
<1>5. \A d \in Client \ {c} : SilentFor(d)
  <2>1. \A d \in Client \ {c} : sock'[d] = sock[d]
    BY <1>1, <1>3, SaysLemma DEF Says, Appended
  <2> QED
    BY <1>3, <2>1, Zenon DEF SilentFor, Pending
<1>6. Dialog(c)'
  <2>1. CASE Gone(c)
    BY <1>1, <1>3, <2>1, Zenon DEF Dialog, Says
  <2>2. CASE ~Gone(c)
    <3>1. Told(c, inc) /\ inc \in Nat
      BY <1>1, <2>2 DEF Heard, RestartRunCvdReturns, TypeOK
    <3> QED
      BY <1>1, <1>2, <1>3, <2>2, <3>1, SecondMessage, SMTT(20)
  <2> QED
    BY <2>1, <2>2, Zenon
<1>7. Heard(c)'
  BY <1>2, <1>3, <1>6 DEF Heard, Pending
<1> QED
  BY <1>4, <1>5, <1>7, OneClientStep

\* The boot thread tells the client that waits for the boot.
LEMMA BootEndsStep ==
  ASSUME IInv, IInv', DInv, BootEnds
  PROVE  DInv'
<1>1. TypeOK /\ Links /\ AllHeard
  BY HeardLemma DEF IInv, DInv
<1>2. /\ UNCHANGED <<act, cl, seen, inc, req, client_>> /\ reboot_notification_' = None
      /\ run_cvd' = run_cvd \/ run_cvd' = "dead"
      /\ run_cvd' # "dead" => conn' = conn
      /\ \A c \in Client : conn'[c] = conn[c] \/ (conn[c] = "served" /\ conn'[c] = "closed")
  BY Zenon DEF BootEnds, Ends, clientVars
<1>3. Links'
  <2>1. run_cvd \in {"read", "stop", "exec"} => client_ \in Client
    BY DEF IInv, ServedInv
  <2> QED
    BY <1>1, <1>2, <2>1 DEF Links
<1>4. CASE reboot_notification_ = None \/ Gone(reboot_notification_)
  <2>1. UNCHANGED sock
    BY <1>4, Zenon DEF BootEnds
  <2>2. \A c \in Client : SilentFor(c)
    BY <1>2, <2>1, NoneAssumption DEF SilentFor, Pending
  <2> QED
    BY <1>3, <2>2, SilentStep
<1>5. CASE reboot_notification_ # None /\ ~Gone(reboot_notification_)
  <2> PICK c \in Client : c = reboot_notification_
    BY <1>1, <1>5 DEF TypeOK
  <2>1. Heard(c) /\ Dialog(c)
    BY <1>1 DEF AllHeard, Heard
  <2>2. /\ ~req[c] /\ cl[c] \notin {"idle", "connected"} /\ act[c] \in Restarts
        /\ run_cvd \in {"stop", "exec"} => client_ # c
    BY <1>1, <1>5 DEF Links
  <2>3. PICK m \in ExitCode : Says(c, m)
    BY <1>5, Zenon DEF BootEnds, Says
  <2>4. \A d \in Client \ {c} : SilentFor(d)
    <3>1. \A d \in Client \ {c} : sock'[d] = sock[d]
      BY <1>1, <1>5, <2>3, SaysLemma DEF Appended
    <3> QED
      BY <1>2, <3>1, NoneAssumption, Zenon DEF SilentFor, Pending
  <2>5. PICK n \in 0 .. MaxRestarts : inc = n + 1 /\ Told(c, n)
    BY <1>5, <2>1, Zenon DEF Heard
  <2>6. Dialog(c)'
    BY <1>1, <1>2, <1>5, <2>1, <2>2, <2>3, <2>5, SecondMessage
  <2>7. Heard(c)'
    BY <1>2, <2>2, <2>6, NoneAssumption DEF Heard, Pending
  <2> QED
    BY <1>3, <2>4, <2>7, OneClientStep, Zenon
<1> QED
  BY <1>4, <1>5

\* execv(): the client that is served becomes the one that waits for the boot.
LEMMA RestartStep ==
  ASSUME IInv, IInv', DInv, RestartRunCvd
  PROVE  DInv'
<1> PICK c \in Client : c = client_
  BY DEF IInv, ServedInv, RestartRunCvd
<1>1. TypeOK /\ Links /\ Heard(c) /\ Dialog(c)
  BY HeardLemma DEF IInv, DInv, AllHeard
<1>2. /\ UNCHANGED <<act, cl, seen, req, sock>>
      /\ run_cvd = "exec" /\ run_cvd' = "setup" /\ inc' = inc + 1
      /\ reboot_notification_' = c /\ client_' = None
      /\ conn'[c] = "held"
      /\ \A d \in Client : conn[d] = "none" /\ d # c => conn'[d] = "none"
  BY DEF RestartRunCvd, clientVars
<1>3. ~req[c] /\ cl[c] \notin {"idle", "connected"} /\ act[c] \in Restarts
  BY <1>1, <1>2, Zenon DEF Links
<1>4. Links'
  BY <1>1, <1>2, <1>3, NoneAssumption, Zenon DEF Links
<1>5. \A d \in Client \ {c} : SilentFor(d)
  BY <1>2, NoneAssumption DEF SilentFor, Pending
<1>6. Heard(c)'
  <2>1. ~Pending(c)' /\ Dialog(c)'
    BY <1>1, <1>2, <1>3, Zenon DEF Pending, Dialog
  <2>2. ~Gone(c)' => Told(c, inc)
    BY <1>1, <1>2, Zenon DEF Heard, Gone
  <2>3. inc \in 0 .. MaxRestarts
    BY <1>1 DEF TypeOK
  <2>4. \A n : Told(c, n) => Told(c, n)'
    BY <1>2, Zenon DEF Told
  <2> QED
    BY <1>2, <2>1, <2>2, <2>3, <2>4, Zenon DEF Heard
<1> QED
  BY <1>4, <1>5, <1>6, OneClientStep

-----------------------------------------------------------------------------
(* Reads                                                                   *)

\* A client takes the first message.
Took(c) ==
  /\ \A d \in Client \ {c} : sock'[d] = sock[d] /\ seen'[d] = seen[d] /\ cl'[d] = cl[d]
  /\ Len(sock[c]) \in Nat /\ Len(sock[c]) > 0 /\ Len(sock'[c]) = Len(sock[c]) - 1
  /\ \A n \in 1 .. Len(sock'[c]) : sock'[c][n] = sock[c][n + 1]
  /\ Len(seen[c]) \in Nat /\ Len(seen'[c]) = Len(seen[c]) + 1
  /\ \A n \in 1 .. Len(seen[c]) : seen'[c][n] = seen[c][n]
  /\ seen'[c][Len(seen[c]) + 1] = sock[c][1].inc

LEMMA TookLemma ==
  ASSUME TypeOK, NEW c \in Client, ReadLauncherResponse(c) \/ ReadExitCode(c)
  PROVE  Took(c)
<1> DEFINE s == sock[c]
           r == seen[c]
           i == Head(s).inc
<1>1. s \in Seq(Message) /\ s # << >> /\ r \in Seq(0 .. MaxRestarts)
  BY Zenon DEF TypeOK, ReadLauncherResponse, ReadExitCode
<1>2. /\ sock' = [sock EXCEPT ![c] = Tail(s)] /\ seen' = [seen EXCEPT ![c] = Append(r, i)]
      /\ \A d \in Client \ {c} : cl'[d] = cl[d]
  BY Zenon DEF TypeOK, ReadLauncherResponse, ReadExitCode
<1>3. /\ sock'[c] = Tail(s) /\ seen'[c] = Append(r, i)
      /\ \A d \in Client \ {c} : sock'[d] = sock[d] /\ seen'[d] = seen[d] /\ cl'[d] = cl[d]
  BY <1>2, Zenon DEF TypeOK
<1>4. i = s[1].inc
  BY <1>1
<1> HIDE DEF i
<1>5. /\ Len(s) \in Nat /\ Len(s) > 0 /\ Len(Tail(s)) = Len(s) - 1
      /\ \A n \in 1 .. Len(Tail(s)) : Tail(s)[n] = s[n + 1]
  BY <1>1
<1>6. /\ Len(r) \in Nat /\ Len(Append(r, i)) = Len(r) + 1
      /\ \A n \in 1 .. Len(r) : Append(r, i)[n] = r[n]
      /\ Append(r, i)[Len(r) + 1] = i
  BY <1>1
<1> QED
  BY <1>3, <1>4, <1>5, <1>6, Zenon DEF Took

LEMMA ReadLinks ==
  ASSUME TypeOK, ServedInv, Links, NEW c \in Client,
         ReadLauncherResponse(c) \/ ReadExitCode(c)
  PROVE  Links'
<1>1. /\ UNCHANGED <<run_cvd, client_, reboot_notification_, inc, act, req, conn>>
      /\ \A d \in Client : cl'[d] \in {"idle", "connected"} => cl'[d] = cl[d]
  BY Zenon DEF TypeOK, ReadLauncherResponse, ReadExitCode, ClientOnly, runVars, Fails
<1>2. reboot_notification_ # None => reboot_notification_ \in Client
  BY Zenon DEF TypeOK
<1> QED
  BY <1>1, <1>2, Zenon DEF Links, ServedInv

LEMMA ReadOthers ==
  ASSUME NEW c \in Client, Took(c), ReadLauncherResponse(c) \/ ReadExitCode(c)
  PROVE  \A d \in Client \ {c} : SilentFor(d)
<1>1. UNCHANGED <<run_cvd, client_, reboot_notification_, inc, act, req>>
  BY DEF ReadLauncherResponse, ReadExitCode, ClientOnly, runVars
<1> QED
  BY <1>1, Zenon DEF Took, SilentFor, Pending

LEMMA ReadResponseStep ==
  ASSUME IInv, IInv', DInv, NEW c \in Client, ReadLauncherResponse(c)
  PROVE  DInv'
<1>1. TypeOK /\ Links /\ Heard(c) /\ Dialog(c) /\ Took(c)
  BY HeardLemma, TookLemma DEF IInv, DInv, AllHeard
<1>2. Links' /\ \A d \in Client \ {c} : SilentFor(d)
  BY <1>1, ReadLinks, ReadOthers DEF IInv
<1>3. /\ cl[c] = "wait" /\ Len(seen[c]) = 0
      /\ UNCHANGED <<run_cvd, client_, reboot_notification_, inc, act, req>>
      /\ cl'[c] \in {"boot", "ok", "failed", "fallback"}
      /\ cl'[c] = "boot" => act[c] \in Restarts
      /\ cl'[c] = "ok" => act[c] \notin Restarts
      /\ sock[c][1].msg = "S" /\ act[c] \in Restarts => cl'[c] = "boot"
  <2>1. Head(sock[c]) = sock[c][1]
    BY <1>1 DEF TypeOK, ReadLauncherResponse
  <2> QED
    BY <1>1, <2>1, Zenon DEF ReadLauncherResponse, ClientOnly, runVars, Dialog, Fails, Restarts, TypeOK
<1>4. Len(seen'[c]) = 1 /\ seen'[c][1] = sock[c][1].inc
  BY <1>1, <1>3, SMTT(20) DEF Took
<1>5. ~Pending(c)'
  BY <1>1, <1>3, <1>4 DEF Pending, Heard, Fresh, Took
<1>6. Dialog(c)'
  <2>0. Took(c) /\ Dialog(c) /\ cl[c] = "wait"
    BY <1>1, <1>3, Zenon
  <2>1. CASE Len(sock[c]) = 1
    <3>1. Len(sock'[c]) = Len(sock[c]) - 1
      BY <2>0 DEF Took
    <3>2. Len(sock'[c]) = 0
      BY <2>1, <3>1, SMTT(20)
    <3> QED
      BY <1>3, <1>4, <3>2, Zenon DEF Dialog
  <2>2. CASE Len(sock[c]) = 2
    <3>1. Len(sock'[c]) = 1 /\ sock'[c][1] = sock[c][2]
      BY <2>0, <2>2 DEF Took
    <3>2. /\ act[c] \in Restarts
          /\ sock[c][2].msg = "kSuccess" => sock[c][2].inc = sock[c][1].inc + 1
      BY <2>0, <2>2 DEF Dialog
    <3> QED
      BY <1>3, <1>4, <3>1, <3>2, Zenon DEF Dialog
  <2>3. Len(sock[c]) \in {0, 1, 2}
    BY <1>1, <1>3, Zenon DEF Dialog
  <2>4. Len(sock[c]) # 0
    BY <2>0 DEF Took
  <2> QED
    BY <2>1, <2>2, <2>3, <2>4
<1>7. ASSUME NEW n, Told(c, n), act[c] \in Restarts
      PROVE  Told(c, n)'
  <2>1. Len(sock[c]) = 1 /\ sock[c][1].msg = "S" /\ sock[c][1].inc = n
    BY <1>3, <1>7, ZenonT(30) DEF Told
  <2>2. Len(sock'[c]) = 0
    BY <1>1, <2>1, SMTT(20) DEF Took
  <2>3. cl'[c] = "boot"
    BY <1>3, <1>7, <2>1, Zenon
  <2> QED
    BY <1>4, <2>1, <2>2, <2>3, Zenon DEF Told
<1>8. Heard(c)'
  <2>1. ~Gone(c)
    BY <1>3 DEF Gone
  <2>2. run_cvd = "exec" /\ client_ = c => Told(c, inc) /\ act[c] \in Restarts
    BY <1>1, <2>1, Zenon DEF Heard, Links
  <2>3. reboot_notification_ = c =>
          /\ \E n \in 0 .. MaxRestarts : inc = n + 1 /\ Told(c, n)
          /\ act[c] \in Restarts
    BY <1>1, <2>1, NoneAssumption, Zenon DEF Heard, Links
  <2>4. inc' = inc
    BY <1>3, Zenon
  <2>5. run_cvd' = "exec" /\ client_' = c => Told(c, inc)'
    BY <1>3, <1>7, <2>2, <2>4, Zenon DEF Told
  <2> QED
    BY <1>3, <1>5, <1>6, <1>7, <2>3, <2>4, <2>5, ZenonT(30) DEF Heard
<1> QED
  BY <1>2, <1>8, OneClientStep

LEMMA ReadExitCodeStep ==
  ASSUME IInv, IInv', DInv, NEW c \in Client, ReadExitCode(c)
  PROVE  DInv'
<1>1. TypeOK /\ Links /\ Heard(c) /\ Dialog(c) /\ Took(c)
  BY HeardLemma, TookLemma DEF IInv, DInv, AllHeard
<1>2. Links' /\ \A d \in Client \ {c} : SilentFor(d)
  BY <1>1, ReadLinks, ReadOthers DEF IInv
<1>3. /\ cl[c] = "boot" /\ cl'[c] \in {"ok", "failed"}
      /\ UNCHANGED <<run_cvd, client_, reboot_notification_, inc, act, req>>
      /\ cl'[c] = "ok" => sock[c][1].msg = "kSuccess"
  <2>1. Head(sock[c]) = sock[c][1]
    BY <1>1, SMTT(20) DEF TypeOK, ReadExitCode
  <2> QED
    BY <1>1, <2>1, Zenon DEF ReadExitCode, ClientOnly, runVars, TypeOK
<1>4. /\ Len(seen[c]) = 1 /\ Len(sock[c]) = 1
      /\ sock[c][1].msg = "kSuccess" => sock[c][1].inc = seen[c][1] + 1
  BY <1>1, <1>3, SMTT(20) DEF Dialog, Took
<1>5. /\ Len(sock'[c]) = 0 /\ Len(seen'[c]) = 2
      /\ seen'[c][1] = seen[c][1] /\ seen'[c][2] = sock[c][1].inc
  BY <1>1, <1>4, SMTT(20) DEF Took
<1>6. Dialog(c)'
  <2>1. cl'[c] \notin {"wait", "boot"} /\ Len(sock'[c]) = 0
    BY <1>3, <1>5
  <2>2. cl'[c] = "ok" => Len(seen'[c]) = 2 /\ seen'[c][2] = seen'[c][1] + 1
    BY <1>3, <1>4, <1>5, Zenon
  <2> QED
    BY <2>1, <2>2, Zenon DEF Dialog
<1>7. ~Pending(c)'
  <2>1. ~Pending(c)
    BY <1>1, <1>4 DEF Heard, Fresh
  <2>2. cl'[c] \notin {"idle", "connected"}
    BY <1>3
  <2> QED
    BY <1>3, <2>1, <2>2, Zenon DEF Pending
<1>8. Gone(c)'
  BY <1>3 DEF Gone
<1> QED
  BY <1>2, <1>6, <1>7, <1>8, OneClientStep DEF Heard

-----------------------------------------------------------------------------
(* The other steps                                                         *)

\* A step of the process monitor, or the end of run_cvd, which closes connections.
Fades ==
  /\ \/ UNCHANGED <<run_cvd, conn>>
     \/ /\ run_cvd' = "dead"
        /\ \A c \in Client : conn'[c] = conn[c] \/ (conn[c] # "none" /\ conn'[c] = "closed")
        /\ run_cvd # "dead" => \A c \in Client : conn'[c] # "served"
  /\ \A c \in Client : cl'[c] = cl[c] \/ cl'[c] \in {"failed", "fallback", "kill"}
  /\ \A c \in Client : req'[c] = req[c] \/ (~req'[c] /\ conn'[c] = "closed")
  /\ UNCHANGED <<inc, client_, reboot_notification_, booted, sock, act, seen>>

LEMMA FadesStep ==
  ASSUME IInv, IInv', DInv, Fades
  PROVE  DInv'
<1>1. TypeOK /\ ServedInv /\ Links
  BY Zenon DEF IInv, DInv
<1>2. reboot_notification_ # None => reboot_notification_ \in Client
  BY <1>1, Zenon DEF TypeOK
<1>3. Links'
  BY <1>1, <1>2 DEF Links, Fades, ServedInv
<1>4. \A c \in Client : SilentFor(c)
  BY Zenon DEF Fades, SilentFor, Pending
<1> QED
  BY <1>3, <1>4, SilentStep

\* The steps of the server loop that write nothing.
LEMMA LoopStep ==
  ASSUME IInv, IInv', DInv,
         \/ SetupServer \/ StartAndMonitorProcesses \/ ReadEof \/ HandleStop
         \/ \E c \in Client : Accept(c)
  PROVE  DInv'
<1>1. TypeOK /\ ServedInv /\ Links
  BY DEF IInv, DInv
<1>2. /\ UNCHANGED <<sock, act, seen, cl, inc, reboot_notification_>>
      /\ run_cvd' # "exec" /\ \A c \in Client : req'[c] => req[c]
  BY <1>1, Zenon DEF SetupServer, StartAndMonitorProcesses, ReadEof, HandleStop, Accept,
     restVars, socketVars, clientVars, TypeOK
<1>3. \A c \in Client : run_cvd' = "stop" /\ client_' = c => req[c]
  BY Zenon DEF SetupServer, StartAndMonitorProcesses, ReadEof, HandleStop, Accept
<1>4. \A c \in Client : SilentFor(c)
  BY <1>2, <1>3, Zenon DEF SilentFor, Pending
<1>5. reboot_notification_ # None => reboot_notification_ \in Client
  BY <1>1 DEF TypeOK
<1>6. Links'
  <2>1. CASE SetupServer \/ StartAndMonitorProcesses
    BY <1>1, <2>1, Zenon DEF Links, SetupServer, StartAndMonitorProcesses, restVars, socketVars, clientVars
  <2>2. CASE ReadEof
    BY <1>1, <1>5, <2>2, NoneAssumption, Zenon
    DEF Links, ReadEof, ServedInv, TypeOK, clientVars, Gone
  <2>3. CASE HandleStop
    <3>1. /\ run_cvd = "read" /\ client_ \in Client /\ req[client_]
          /\ UNCHANGED <<conn, act, cl, client_, reboot_notification_>> /\ run_cvd' = "stop"
      BY <1>1, <2>3 DEF HandleStop, ServedInv, clientVars
    <3>2. ~req'[client_] /\ \A c \in Client : req'[c] => req[c]
      BY <1>1, <2>3, <3>1, Zenon DEF HandleStop, TypeOK
    <3> QED
      BY <1>1, <1>5, <3>1, <3>2, Zenon DEF Links
  <2>4. CASE \E c \in Client : Accept(c)
    <3>1. PICK c \in Client : Accept(c)
      BY <2>4, Zenon
    <3>2. /\ conn[c] = "backlog" /\ conn'[c] = "served" /\ run_cvd' = "read" /\ client_' = c
          /\ UNCHANGED <<req, act, cl, reboot_notification_>>
          /\ \A d \in Client : d # c => conn'[d] = conn[d]
      BY <1>1, <3>1, Zenon DEF Accept, TypeOK, clientVars
    <3>3. reboot_notification_ # None => reboot_notification_ # c
      BY <1>1, <3>2, Zenon DEF Links
    <3>4. cl[c] # "idle"
      BY <1>1, <3>2 DEF Links
    <3> QED
      BY <1>1, <1>5, <3>2, <3>3, <3>4, Zenon DEF Links
  <2> QED
    BY <2>1, <2>2, <2>3, <2>4
<1> QED
  BY <1>4, <1>6, SilentStep

\* A client connects, or sends its request.
LEMMA RequestStep ==
  ASSUME IInv, IInv', DInv, NEW c \in Client, Connect(c) \/ WriteLauncherAction(c)
  PROVE  DInv'
<1>1. TypeOK /\ ServedInv /\ Links
  BY DEF IInv, DInv
<1>2. /\ UNCHANGED <<sock, act, seen, inc, run_cvd, client_, reboot_notification_>>
      /\ cl[c] \in {"idle", "connected"}
      /\ cl'[c] \in {"connected", "wait", "failed", "fallback"}
      /\ \A d \in Client \ {c} : cl'[d] = cl[d] /\ req'[d] = req[d] /\ conn'[d] = conn[d]
      /\ cl'[c] = "connected" => ~req'[c]
  BY <1>1, Zenon DEF Connect, WriteLauncherAction, ClientOnly, runVars, Fails, TypeOK, Links
<1>3. /\ Fresh(c) /\ Heard(c)
      /\ reboot_notification_ # c /\ (run_cvd \in {"stop", "exec"} => client_ # c)
  BY <1>1, <1>2, HeardLemma, NoneAssumption, Zenon DEF IInv, DInv, AllHeard, Heard, Pending, Links
<1>4. reboot_notification_ # None => reboot_notification_ \in Client
  BY <1>1, Zenon DEF TypeOK
<1>5. Links'
  <2>1. run_cvd = "read" /\ client_ = c => conn'[c] = "served"
    BY <1>1 DEF Links, Connect, WriteLauncherAction
  <2> QED
    BY <1>1, <1>2, <1>3, <1>4, <2>1, Zenon DEF Links, ServedInv
<1>6. \A d \in Client \ {c} : SilentFor(d)
  BY <1>2, Zenon DEF SilentFor, Pending
<1>7. Fresh(c)'
  BY <1>2, <1>3, Zenon DEF Fresh
<1>8. Dialog(c)'
  BY <1>2, <1>7 DEF Dialog, Fresh
<1>9. Heard(c)'
  BY <1>2, <1>3, <1>7, <1>8, Zenon DEF Heard
<1> QED
  BY <1>5, <1>6, <1>9, OneClientStep

\* Which of these steps each action is.
LEMMA WriteAnswers ==
  ASSUME NEW m, NEW next \in {"read", "exec"}, Write(client_, m, next),
         run_cvd = "stop" \/ (run_cvd = "read" /\ req[client_]),
         next = "exec" => m = "S" /\ act[client_] \in Restarts,
         next = "read" => m = "E" \/ act[client_] \notin Restarts,
         req' = [req EXCEPT ![client_] = FALSE],
         UNCHANGED <<inc, client_, reboot_notification_, booted, clientVars>>
  PROVE  Answers(m)
  BY DEF Write, Answers, Says, Ends

LEMMA AnswerActions ==
  ASSUME IInv, DInv,
         \/ HandleStatus \/ HandleStopFails \/ StopFailed \/ StopSucceeded
         \/ PowerwashFilesFails \/ StopSucceededForRestart
  PROVE  Fades \/ \E m \in Response : Answers(m)
<1>1. TypeOK /\ Links /\ client_ \in Client
  BY Zenon DEF IInv, DInv, ServedInv, HandleStatus, HandleStopFails, StopFailed, StopSucceeded,
     PowerwashFilesFails, StopSucceededForRestart
<1>2. UNCHANGED <<inc, client_, reboot_notification_, booted, clientVars>>
  BY DEF HandleStatus, HandleStopFails, StopFailed, StopSucceeded, PowerwashFilesFails,
     StopSucceededForRestart, restVars
<1>3. run_cvd = "stop" => req = [req EXCEPT ![client_] = FALSE]
  BY <1>1, ZenonT(30) DEF Links, TypeOK
<1> USE DEF Response
<1>4. CASE HandleStatus
  <2>1. CASE act[client_] = "kStatus" /\ Write(client_, "S", "read")
    BY <1>2, <1>4, <2>1, WriteAnswers, Zenon DEF HandleStatus, Restarts
  <2>2. CASE Write(client_, "E", "read")
    BY <1>2, <1>4, <2>2, WriteAnswers DEF HandleStatus
  <2> QED
    BY <1>4, <2>1, <2>2, Zenon DEF HandleStatus
<1>5. CASE HandleStopFails
  <2>1. CASE Write(client_, "E", "read")
    BY <1>2, <1>5, <2>1, WriteAnswers DEF HandleStopFails
  <2>2. CASE Ends /\ UNCHANGED sock
    <3>1. conn[client_] = "served"
      BY <1>1, <1>5, Zenon DEF HandleStopFails, Links
    <3>2. /\ ~req'[client_] /\ conn'[client_] = "closed"
          /\ \A c \in Client : c # client_ => req'[c] = req[c]
      BY <1>1, <1>5, <2>2, <3>1, Zenon DEF HandleStopFails, Ends, TypeOK
    <3> QED
      BY <1>1, <1>2, <2>2, <3>2, Zenon DEF Fades, Ends, clientVars
  <2> QED
    BY <1>5, <2>1, <2>2, Zenon DEF HandleStopFails
<1>6. CASE StopFailed
  BY <1>2, <1>3, <1>6, WriteAnswers, Zenon DEF StopFailed
<1>7. CASE StopSucceeded
  BY <1>2, <1>3, <1>7 DEF StopSucceeded, Answers, Says, Ends
<1>8. CASE PowerwashFilesFails
  BY <1>2, <1>3, <1>8, WriteAnswers DEF PowerwashFilesFails
<1>9. CASE StopSucceededForRestart
  BY <1>2, <1>3, <1>9, WriteAnswers DEF StopSucceededForRestart, Restarts
<1> QED
  BY <1>4, <1>5, <1>6, <1>7, <1>8, <1>9, Zenon

LEMMA FadingActions ==
  ASSUME TypeOK,
         \/ RunCvdKilled \/ CloseSockets \/ UNCHANGED vars
         \/ \E c \in Client : \/ SocketClosed(c) \/ TimeoutExpired(c)
                              \/ GetCandidateProcessGroups(c) \/ FallBackStop(c)
         \/ DeviceStops \/ DeviceSpawns \/ DeviceExits \/ MonitorSighup \/ MonitorKilled
  PROVE  Fades
<1>1. CASE RunCvdKilled
  BY <1>1 DEF RunCvdKilled, Fades, Ends, restVars, clientVars
<1>2. CASE CloseSockets
  BY <1>2, Zenon DEF CloseSockets, Fades, runVars, clientVars
<1>3. CASE UNCHANGED vars \/ DeviceStops \/ DeviceSpawns \/ DeviceExits \/ MonitorSighup \/ MonitorKilled
  BY <1>3, Zenon DEF Fades, vars, DeviceStops, DeviceSpawns, DeviceExits, MonitorSighup, MonitorKilled,
     DeviceOnly, runVars, socketVars, clientVars
<1>4. ASSUME NEW c \in Client, SocketClosed(c) \/ TimeoutExpired(c) \/ GetCandidateProcessGroups(c)
      PROVE  Fades
  BY <1>4, Zenon DEF SocketClosed, TimeoutExpired, GetCandidateProcessGroups, ClientOnly, runVars,
     socketVars, Fades, Fails, TypeOK
<1>5. ASSUME NEW c \in Client, FallBackStop(c) PROVE Fades
  BY <1>5, Zenon DEF FallBackStop, Fades, Ends, TypeOK
<1> QED
  BY <1>1, <1>2, <1>3, <1>4, <1>5, Zenon

LEMMA StepDInv == IInv /\ IInv' /\ DInv /\ [Next]_vars => DInv'
<1> SUFFICES ASSUME IInv, IInv', DInv, [Next]_vars PROVE DInv'
  OBVIOUS
<1>1. CASE \/ SetupServer \/ StartAndMonitorProcesses \/ ReadEof \/ HandleStop
           \/ \E c \in Client : Accept(c)
  BY <1>1, LoopStep
<1>2. CASE \/ HandleStatus \/ HandleStopFails \/ StopFailed \/ StopSucceeded
           \/ PowerwashFilesFails \/ StopSucceededForRestart
  BY <1>2, AnswerActions, AnswerStep, FadesStep
<1>3. CASE RestartRunCvd \/ RestartRunCvdReturns \/ BootEnds
  BY <1>3, RestartStep, ExecReturnsStep, BootEndsStep
<1>4. ASSUME NEW c \in Client,
             \/ Connect(c) \/ WriteLauncherAction(c) \/ ReadLauncherResponse(c) \/ ReadExitCode(c)
      PROVE  DInv'
  BY <1>4, RequestStep, ReadResponseStep, ReadExitCodeStep
<1>5. CASE \/ RunCvdKilled \/ CloseSockets \/ UNCHANGED vars
           \/ \E c \in Client : \/ SocketClosed(c) \/ TimeoutExpired(c)
                                \/ GetCandidateProcessGroups(c) \/ FallBackStop(c)
           \/ DeviceStops \/ DeviceSpawns \/ DeviceExits \/ MonitorSighup \/ MonitorKilled
  BY <1>5, FadingActions, FadesStep DEF IInv
<1> QED
  BY <1>1, <1>2, <1>3, <1>4, <1>5 DEF Next, RunCvdNext, ClientNext

LEMMA DialogInvariant == Spec => [](IInv /\ DInv)
  BY InitIInv, StepIInv, InitDInv, StepDInv, PTL DEF Spec

\* restart_cvd and powerwash_cvd report success on the boot of the very incarnation
\* that follows the one that answered them, for every number of clients and restarts
\* and under every fault: the connection handed over execv() is used by that boot
\* thread only, and only once.
THEOREM RestartIsTheNextBoot == Spec => []RestartOkMeansRebooted
<1>1. DInv => RestartOkMeansRebooted
  BY DEF DInv, Dialog, RestartOkMeansRebooted, Restarts
<1> QED
  BY <1>1, DialogInvariant, PTL

\* A client that reports success has read all it was sent: the server loop and the
\* boot thread never answer the same client twice.
THEOREM OneAnswerEach == Spec => []NothingLeftUnread
<1>1. IInv /\ DInv => NothingLeftUnread
  BY DEF IInv, TypeOK, DInv, Dialog, NothingLeftUnread
<1> QED
  BY <1>1, DialogInvariant, PTL

-----------------------------------------------------------------------------
(* Who waits for whom                                                      *)

\* c has been told of the restart, and of nothing else.
Restarting(c) ==
  \/ cl[c] = "wait" /\ act[c] \in Restarts /\ Len(sock[c]) = 1 /\ sock[c][1].msg = "S"
  \/ cl[c] = "boot" /\ Len(sock[c]) = 0

\* Whoever is to answer c has its connection; and a connection run_cvd has accepted
\* is the one it serves.
Attended(c) ==
  /\ conn[c] = "served" => client_ = c /\ run_cvd \in {"read", "stop", "exec"}
  /\ cl[c] = "connected" => conn[c] \in {"backlog", "served", "closed"}
  /\ cl[c] = "wait" /\ Len(sock[c]) = 0 =>
       \/ conn[c] = "closed"
       \/ conn[c] = "backlog" /\ req[c]
       \/ conn[c] = "served" /\ (run_cvd = "stop" \/ (run_cvd = "read" /\ req[c]))
  /\ Restarting(c) =>
       \/ conn[c] = "closed"
       \/ conn[c] = "served" /\ run_cvd = "exec"
       \/ conn[c] = "held" /\ reboot_notification_ = c /\ (run_cvd # "dead" => ~booted)

WInv == \A c \in Client : Attended(c)

LEMMA InitWInv == Init => WInv
  BY DEF Init, WInv, Attended, Restarting

LEMMA LoopAttends ==
  ASSUME IInv, DInv, WInv, NEW c \in Client,
         \/ SetupServer \/ StartAndMonitorProcesses \/ ReadEof \/ HandleStop
         \/ \E d \in Client : Accept(d)
  PROVE  Attended(c)'
<1>1. TypeOK /\ ServedInv /\ Links /\ Attended(c)
  BY Zenon DEF IInv, DInv, WInv
<1>2. UNCHANGED <<sock, act, cl, reboot_notification_, booted>>
  BY Zenon DEF SetupServer, StartAndMonitorProcesses, ReadEof, HandleStop, Accept,
     restVars, socketVars, clientVars
<1>3. Restarting(c)' <=> Restarting(c)
  BY <1>2, Zenon DEF Restarting
<1>4. CASE SetupServer \/ StartAndMonitorProcesses
  <2>1. /\ UNCHANGED <<conn, req, client_>> /\ run_cvd \in {"setup", "start"}
        /\ run_cvd' \in {"start", "accept", "dead"}
    BY <1>4, Zenon DEF SetupServer, StartAndMonitorProcesses, restVars, socketVars
  <2> QED
    BY <1>1, <1>2, <1>3, <2>1 DEF Attended
<1>5. CASE ReadEof
  <2>1. /\ run_cvd = "read" /\ client_ \in Client /\ Gone(client_)
        /\ run_cvd' = "accept" /\ UNCHANGED req
        /\ conn'[client_] = "closed" /\ \A d \in Client : d # client_ => conn'[d] = conn[d]
    BY <1>1, <1>5, Zenon DEF ReadEof, ServedInv, TypeOK
  <2> QED
    BY <1>1, <1>2, <1>3, <2>1 DEF Attended
<1>6. CASE HandleStop
  <2>1. /\ run_cvd = "read" /\ client_ \in Client /\ run_cvd' = "stop" /\ UNCHANGED <<conn, client_>>
        /\ \A d \in Client : d # client_ => req'[d] = req[d]
    BY <1>1, <1>6, Zenon DEF HandleStop, ServedInv, TypeOK
  <2>2. conn[client_] = "served"  /\ req[client_]
    BY <1>1, <1>6, <2>1, Zenon DEF Links, HandleStop
  <2>3. cl[client_] # "connected"
    BY <1>1, <2>1, <2>2, Zenon DEF Links
  <2> QED
    BY <1>1, <1>2, <1>3, <2>1, <2>2, <2>3 DEF Attended
<1>7. ASSUME NEW d \in Client, Accept(d) PROVE Attended(c)'
  <2>1. /\ conn[d] = "backlog" /\ conn'[d] = "served" /\ run_cvd = "accept" /\ run_cvd' = "read"
        /\ client_' = d /\ UNCHANGED req
        /\ \A e \in Client : e # d => conn'[e] = conn[e]
    BY <1>1, <1>7, Zenon DEF Accept, TypeOK
  <2> QED
    BY <1>1, <1>2, <1>3, <2>1 DEF Attended
<1> QED
  BY <1>4, <1>5, <1>6, <1>7, Zenon

LEMMA AnswerAttends ==
  ASSUME IInv, DInv, WInv, NEW c \in Client, NEW m \in Response, Answers(m)
  PROVE  Attended(c)'
<1>1. TypeOK /\ Links /\ Attended(c) /\ client_ \in Client
  BY Zenon DEF IInv, DInv, WInv, ServedInv, Answers
<1>2. /\ run_cvd \in {"read", "stop"} /\ conn[client_] = "served" /\ cl[client_] # "connected"
      /\ UNCHANGED <<client_, reboot_notification_, booted, cl, act>>
  BY <1>1 DEF Links, Answers, clientVars
<1>3. \A d \in Client : d # client_ => req'[d] = req[d] /\ sock'[d] = sock[d]
  <2>1. CASE Gone(client_)
    BY <1>1, <2>1, Zenon DEF Answers, Says, TypeOK
  <2>2. CASE ~Gone(client_)
    BY <1>1, <2>2, SaysLemma, Zenon DEF Answers, Appended, TypeOK
  <2> QED
    BY <2>1, <2>2
<1>4. CASE c # client_
  <2>1. conn[c] # "served" /\ conn'[c] = conn[c]
    BY <1>1, <1>4 DEF Attended, Answers, Ends
  <2>2. Restarting(c)' <=> Restarting(c)
    BY <1>2, <1>3, <1>4, Zenon DEF Restarting
  <2>3. run_cvd' \in {"read", "exec", "dead"}
    BY DEF Answers, Ends
  <2> QED
    BY <1>1, <1>2, <1>3, <1>4, <2>1, <2>2, <2>3, Zenon DEF Attended
<1>5. CASE c = client_ /\ Ends
  BY <1>2, <1>5, Zenon DEF Attended, Ends
<1>6. CASE c = client_ /\ run_cvd' \in {"read", "exec"} /\ UNCHANGED conn /\ Gone(c)
  BY <1>2, <1>6 DEF Attended, Restarting, Gone
<1>7. CASE c = client_ /\ run_cvd' \in {"read", "exec"} /\ UNCHANGED conn /\ ~Gone(c)
  <2>1. Appended(c, m)
    BY <1>1, <1>7, SaysLemma, Zenon DEF Answers
  <2>2. Fresh(c)
    BY <1>1, <1>2, <1>7, Zenon DEF DInv, Unanswered, Pending, Answers
  <2>3. Len(sock'[c]) = 1 /\ sock'[c][1].msg = m
    <3>1. Len(sock'[c]) = 0 + 1 /\ sock'[c][0 + 1].msg = m
      BY <2>1, <2>2, ZenonT(30) DEF Appended, Fresh
    <3> QED
      BY <3>1
  <2>4. run_cvd' = "read" => ~Restarting(c)'
    BY <1>2, <1>7, <2>3 DEF Restarting, Answers, Restarts, Response
  <2>5. conn'[c] = "served" /\ client_' = c /\ cl'[c] # "connected" /\ Len(sock'[c]) # 0
    BY <1>2, <1>7, <2>3
  <2>6. Restarting(c)' => run_cvd' = "exec"
    BY <1>7, <2>4, Zenon
  <2>7. run_cvd' \in {"read", "stop", "exec"}
    BY <1>7, ZenonT(30)
  <2> QED
    BY <2>5, <2>6, <2>7, Zenon DEF Attended
<1> QED
  BY <1>4, <1>5, <1>6, <1>7 DEF Answers

LEMMA FadesAttends ==
  ASSUME IInv, WInv, NEW c \in Client, Fades
  PROVE  Attended(c)'
<1>1. Attended(c)
  BY Zenon DEF WInv
<1>2. Restarting(c)' => Restarting(c)
  BY Zenon DEF Fades, Restarting
<1>3. cl'[c] \in {"connected", "wait"} => cl'[c] = cl[c]
  BY DEF Fades
<1> QED
  BY <1>1, <1>2, <1>3, Zenon DEF Attended, Fades

LEMMA RestartAttends ==
  ASSUME IInv, DInv, WInv, NEW c \in Client, RestartRunCvd
  PROVE  Attended(c)'
<1>1. TypeOK /\ Links /\ Attended(c) /\ client_ \in Client
  BY Zenon DEF IInv, DInv, WInv, ServedInv, RestartRunCvd
<1>2. /\ UNCHANGED <<req, sock, cl, act>> /\ reboot_notification_' = client_ /\ booted' = FALSE
      /\ conn'[c] = IF c = client_ THEN "held" ELSE IF conn[c] = "none" THEN "none" ELSE "closed"
      /\ run_cvd = "exec" /\ run_cvd' = "setup"
  BY DEF RestartRunCvd, clientVars
<1>3. Restarting(c)' <=> Restarting(c)
  BY <1>2, Zenon DEF Restarting
<1>4. CASE c = client_
  <2>1. cl[c] # "connected" /\ ~(cl[c] = "wait" /\ Len(sock[c]) = 0)
    BY <1>1, <1>2, <1>4, Zenon DEF Links, Attended
  <2> QED
    BY <1>2, <1>3, <1>4, <2>1, Zenon DEF Attended
<1>5. CASE c # client_
  BY <1>1, <1>2, <1>3, <1>5 DEF Attended
<1> QED
  BY <1>4, <1>5

LEMMA ExecReturnsAttends ==
  ASSUME IInv, DInv, WInv, NEW c \in Client, RestartRunCvdReturns
  PROVE  Attended(c)'
<1>1. TypeOK /\ Links /\ Attended(c) /\ client_ \in Client
  BY Zenon DEF IInv, DInv, WInv, ServedInv, RestartRunCvdReturns
<1>2. /\ UNCHANGED <<req, cl, act, client_, reboot_notification_, booted>> /\ Says(client_, "E")
      /\ conn'[c] = IF conn[c] = "served" THEN "closed" ELSE conn[c]
      /\ run_cvd = "exec" /\ run_cvd' = "dead"
  BY DEF RestartRunCvdReturns, Ends, Says, clientVars, restVars
<1>3. CASE c = client_
  BY <1>1, <1>2, <1>3, Zenon DEF Links, Attended
<1>4. CASE c # client_
  <2>1. sock'[c] = sock[c]
    BY <1>1, <1>2, <1>4, SaysLemma DEF Says, Appended
  <2>2. Restarting(c)' <=> Restarting(c)
    BY <1>2, <2>1, Zenon DEF Restarting
  <2> QED
    BY <1>1, <1>2, <1>4, <2>1, <2>2 DEF Attended
<1> QED
  BY <1>3, <1>4

LEMMA BootEndsAttends ==
  ASSUME IInv, DInv, WInv, NEW c \in Client, BootEnds
  PROVE  Attended(c)'
<1>1. TypeOK /\ Links /\ Attended(c) /\ Heard(c)
  BY HeardLemma, Zenon DEF IInv, DInv, WInv, AllHeard
<1>2. /\ UNCHANGED <<act, cl, req, client_>> /\ reboot_notification_' = None
      /\ conn'[c] = conn[c] \/ (conn[c] = "served" /\ conn'[c] = "closed")
      /\ run_cvd # "dead"
      /\ run_cvd' = run_cvd \/ (run_cvd' = "dead" /\ conn'[c] # "served")
  BY ZenonT(30) DEF BootEnds, Ends, clientVars
<1>3. CASE c = reboot_notification_ /\ ~Gone(c)
  <2>1. PICK m \in ExitCode : Says(c, m)
    BY <1>3, NoneAssumption, Zenon DEF BootEnds, Says
  <2>2. Appended(c, m)
    BY <1>1, <1>3, <2>1, SaysLemma
  <2>3. PICK n : Told(c, n)
    BY <1>1, <1>3, Zenon DEF Heard
  <2>4. Len(sock'[c]) = Len(sock[c]) + 1 /\ Len(sock[c]) \in Nat
    BY <2>2 DEF Appended
  <2>5. ~Restarting(c)' /\ ~(cl'[c] = "wait" /\ Len(sock'[c]) = 0)
    BY <1>2, <2>3, <2>4 DEF Restarting, Told
  <2> QED
    BY <1>1, <1>2, <2>5 DEF Attended
<1>4. CASE c = reboot_notification_ /\ Gone(c)
  BY <1>1, <1>2, <1>4, ZenonT(30) DEF Attended, Restarting, Gone
<1>5. CASE c # reboot_notification_
  <2>1. sock'[c] = sock[c]
    <3>1. CASE reboot_notification_ = None \/ Gone(reboot_notification_)
      BY <3>1, ZenonT(30) DEF BootEnds
    <3>2. CASE reboot_notification_ \in Client /\ ~Gone(reboot_notification_)
      <4>1. PICK m \in ExitCode : Says(reboot_notification_, m)
        BY <3>2, NoneAssumption, Zenon DEF BootEnds, Says
      <4> QED
        BY <1>1, <1>5, <3>2, <4>1, SaysLemma DEF Appended
    <3> QED
      BY <1>1, <3>1, <3>2, Zenon DEF TypeOK
  <2>2. Restarting(c)' <=> Restarting(c)
    BY <1>2, <2>1, Zenon DEF Restarting
  <2> QED
    BY <1>1, <1>2, <1>5, <2>1, <2>2 DEF Attended
<1> QED
  BY <1>3, <1>4, <1>5

\* A client connects or sends its request; the others are as they were.
LEMMA RequestAttends ==
  ASSUME IInv, DInv, WInv, NEW c \in Client, NEW d \in Client, Connect(d) \/ WriteLauncherAction(d)
  PROVE  Attended(c)'
<1>1. TypeOK /\ Links /\ Attended(c)
  BY Zenon DEF IInv, DInv, WInv
<1>2. UNCHANGED <<sock, act, run_cvd, client_, reboot_notification_, booted>>
  BY Zenon DEF Connect, WriteLauncherAction, ClientOnly, runVars
<1>3. CASE c # d
  <2>1. cl'[c] = cl[c] /\ req'[c] = req[c] /\ conn'[c] = conn[c]
    BY <1>1, <1>3, Zenon DEF Connect, WriteLauncherAction, TypeOK
  <2>2. Restarting(c)' <=> Restarting(c)
    BY <1>2, <2>1, Zenon DEF Restarting
  <2> QED
    BY <1>1, <1>2, <2>1, <2>2 DEF Attended
<1>4. CASE c = d /\ Connect(d)
  <2>1. \/ conn'[c] = "backlog" /\ cl'[c] = "connected"
        \/ conn'[c] = "none" /\ cl'[c] \in {"failed", "fallback"}
    BY <1>1, <1>4, ZenonT(30) DEF Connect, TypeOK, Fails
  <2> QED
    BY <2>1 DEF Attended, Restarting
<1>5. CASE c = d /\ WriteLauncherAction(d)
  <2>1. /\ cl[c] = "connected" /\ conn'[c] = conn[c]
        /\ \/ conn[c] # "closed" /\ req'[c] /\ cl'[c] = "wait"
           \/ conn[c] = "closed" /\ cl'[c] \in {"failed", "fallback"}
    BY <1>1, <1>5, Zenon DEF WriteLauncherAction, TypeOK, Fails
  <2>2. Len(sock'[c]) = 0
    BY <1>2, <2>1, Zenon DEF DInv, Unanswered, Pending, Fresh
  <2>3. conn[c] = "served" => run_cvd = "read"
    BY <1>1, <2>1, Zenon DEF Links, Attended
  <2> QED
    BY <1>1, <1>2, <2>1, <2>2, <2>3 DEF Attended, Restarting
<1> QED
  BY <1>3, <1>4, <1>5

\* A client reads; a restart that it reads about is one it was told about before.
LEMMA ReadAttends ==
  ASSUME IInv, DInv, WInv, NEW c \in Client, NEW d \in Client,
         ReadLauncherResponse(d) \/ ReadExitCode(d)
  PROVE  Attended(c)'
<1>1. TypeOK /\ Links /\ Attended(c) /\ Took(d)
  BY TookLemma, Zenon DEF IInv, DInv, WInv
<1>2. UNCHANGED <<act, conn, req, run_cvd, client_, reboot_notification_, booted>>
  BY Zenon DEF ReadLauncherResponse, ReadExitCode, ClientOnly, runVars
<1>3. CASE c # d
  <2>1. cl'[c] = cl[c] /\ sock'[c] = sock[c]
    BY <1>1, <1>3, Zenon DEF Took
  <2>2. Restarting(c)' <=> Restarting(c)
    BY <1>2, <2>1, Zenon DEF Restarting
  <2> QED
    BY <1>1, <1>2, <2>1, <2>2, Zenon DEF Attended
<1>4. CASE c = d
  <2>1. cl'[c] \in {"boot", "ok", "failed", "fallback"}
    BY <1>1, <1>4, Zenon DEF ReadLauncherResponse, ReadExitCode, TypeOK, Fails
  <2>2. ASSUME Restarting(c)' PROVE Restarting(c)
    <3>1. cl'[c] = "boot" /\ Len(sock'[c]) = 0
      BY <2>1, <2>2 DEF Restarting
    <3>2. cl[c] = "wait" /\ Head(sock[c]).msg = "S" /\ act[c] \in Restarts
      <4>1. ~ReadExitCode(c)
        BY <1>1, <3>1, Zenon DEF ReadExitCode, TypeOK
      <4>2. cl[c] = "wait" /\ cl'[c] = IF Head(sock[c]).msg # "S" THEN Fails(c)
                                       ELSE IF act[c] \in Restarts THEN "boot" ELSE "ok"
        BY <1>1, <1>4, <4>1, Zenon DEF ReadLauncherResponse, TypeOK, Restarts
      <4> QED
        BY <3>1, <4>2 DEF Fails
    <3>3. Len(sock[c]) = 1
      <4>1. Len(sock[c]) \in Nat /\ Len(sock'[c]) = Len(sock[c]) - 1
        BY <1>1, <1>4, Zenon DEF Took
      <4>2. \A n \in Nat : 0 = n - 1 => n = 1
        OBVIOUS
      <4> QED
        BY <3>1, <4>1, <4>2, Zenon
    <3>4. Head(sock[c]) = sock[c][1]
      <4>1. sock[c] \in Seq(Message)
        BY <1>1, Zenon DEF TypeOK
      <4> QED
        BY <3>3, <4>1
    <3> QED
      BY <3>2, <3>3, <3>4, Zenon DEF Restarting
  <2> QED
    BY <1>1, <1>2, <2>1, <2>2, Zenon DEF Attended
<1> QED
  BY <1>3, <1>4

LEMMA StepWInv == IInv /\ DInv /\ WInv /\ [Next]_vars => WInv'
<1> SUFFICES ASSUME IInv, DInv, WInv, [Next]_vars, NEW c \in Client PROVE Attended(c)'
  BY DEF WInv
<1>1. CASE \/ SetupServer \/ StartAndMonitorProcesses \/ ReadEof \/ HandleStop
           \/ \E d \in Client : Accept(d)
  BY <1>1, LoopAttends, Zenon
<1>2. CASE \/ HandleStatus \/ HandleStopFails \/ StopFailed \/ StopSucceeded
           \/ PowerwashFilesFails \/ StopSucceededForRestart
  BY <1>2, AnswerActions, AnswerAttends, FadesAttends, Zenon
<1>3. CASE RestartRunCvd \/ RestartRunCvdReturns \/ BootEnds
  BY <1>3, RestartAttends, ExecReturnsAttends, BootEndsAttends, Zenon
<1>4. ASSUME NEW d \in Client,
             \/ Connect(d) \/ WriteLauncherAction(d) \/ ReadLauncherResponse(d) \/ ReadExitCode(d)
      PROVE  Attended(c)'
  BY <1>4, RequestAttends, ReadAttends, Zenon
<1>5. CASE \/ RunCvdKilled \/ CloseSockets \/ UNCHANGED vars
           \/ \E d \in Client : \/ SocketClosed(d) \/ TimeoutExpired(d)
                                \/ GetCandidateProcessGroups(d) \/ FallBackStop(d)
           \/ DeviceStops \/ DeviceSpawns \/ DeviceExits \/ MonitorSighup \/ MonitorKilled
  BY <1>5, FadingActions, FadesAttends, Zenon DEF IInv
<1> QED
  BY <1>1, <1>2, <1>3, <1>4, <1>5, Zenon DEF Next, RunCvdNext, ClientNext

\* A client that waits for an answer waits for a run_cvd that has its request: it is
\* in the backlog, it is the one that is served, or it is the one reboot_notification_
\* holds, for a boot that has not ended.  Any other client has its connection closed.
NobodyForgotten ==
  \A c \in Client :
    /\ cl[c] = "wait" /\ sock[c] = <<>> =>
         \/ conn[c] = "closed"
         \/ conn[c] = "backlog" /\ req[c]
         \/ conn[c] = "served" /\ client_ = c /\ (run_cvd = "stop" \/ (run_cvd = "read" /\ req[c]))
    /\ cl[c] = "boot" /\ sock[c] = <<>> =>
         \/ conn[c] = "closed"
         \/ conn[c] = "served" /\ client_ = c /\ run_cvd = "exec"
         \/ conn[c] = "held" /\ reboot_notification_ = c /\ (run_cvd # "dead" => ~booted)

\* A client that waits for an answer waits for a run_cvd that has its request or its
\* connection; otherwise it finds its connection closed.  This is what keeps a client
\* from waiting for ever, for any number of clients, restarts and faults; that
\* run_cvd then does act is fairness.
THEOREM NobodyIsForgotten == Spec => []NobodyForgotten
<1>1. IInv /\ WInv => NobodyForgotten
  <2> SUFFICES ASSUME IInv, WInv, NEW c \in Client, sock[c] = << >>
               PROVE  /\ cl[c] = "wait" =>
                           \/ conn[c] = "closed"
                           \/ conn[c] = "backlog" /\ req[c]
                           \/ /\ conn[c] = "served" /\ client_ = c
                              /\ run_cvd = "stop" \/ (run_cvd = "read" /\ req[c])
                      /\ cl[c] = "boot" =>
                           \/ conn[c] = "closed"
                           \/ conn[c] = "served" /\ client_ = c /\ run_cvd = "exec"
                           \/ /\ conn[c] = "held" /\ reboot_notification_ = c
                              /\ run_cvd # "dead" => ~booted
    BY ZenonT(30) DEF NobodyForgotten
  <2>1. Len(sock[c]) = 0
    OBVIOUS
  <2> QED
    BY <2>1 DEF WInv, Attended, Restarting
<1> QED
  BY <1>1, DialogInvariant, InitWInv, StepWInv, PTL DEF Spec
=============================================================================
