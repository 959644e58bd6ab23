-------------------------- MODULE BootStateMachine --------------------------
(***************************************************************************)
(* How the outcome of a boot reaches those who wait for it.                *)
(*                                                                         *)
(* The guest writes its kernel log into a FIFO.  kernel_log_monitor (klm)  *)
(* appends it to kernel.log and writes the events it recognises into one   *)
(* pipe per subscriber.  The boot thread of run_cvd reads its pipe until   *)
(* the boot has succeeded or failed, and then sends an exit code to the    *)
(* client that asked for a restart, if any, and to the foreground launcher *)
(* that is still waiting in DaemonizeLauncher.  run_cvd forks the process  *)
(* monitor, which keeps a copy of every file descriptor open at that time. *)
(***************************************************************************)
EXTENDS Naturals, Sequences

CONSTANTS
  Boot,                 \* the boot thread, as a subscriber
  Others,               \* the other subscribers: secure_env, the streamer
  subscriber_fds,       \* -subscriber_fds: the subscribers in the order klm is given them
  Cap,                  \* capacity of a pipe, in writes
  MaxEvents,            \* bound: lines the guest logs
  run_as_daemon,        \* instance_.run_as_daemon()
  restart_subprocesses, \* Properties::restart_subprocesses_
  Rebooted,             \* run_cvd was given -reboot_notification_fd
  Faults                \* the faults of the environment that may happen

ASSUME SubAssumption == Boot \notin Others
ASSUME CapAssumption == Cap \in Nat \ {0}
ASSUME OptionsAssumption == run_as_daemon \in BOOLEAN /\ Rebooted \in BOOLEAN

Sub == Others \cup {Boot}

ASSUME SubscriberFdsAssumption ==
  /\ subscriber_fds \in Seq(Sub)
  /\ \A i, j \in 1..Len(subscriber_fds) : subscriber_fds[i] = subscriber_fds[j] => i = j
  /\ \A s \in Sub : \E i \in 1..Len(subscriber_fds) : subscriber_fds[i] = s

Event == {"BootCompleted", "BootFailed", "Other"}
Code == {"kSuccess", "kVirtualDeviceBootFailed"}

VARIABLES
  run_cvd,   \* main thread: daemonize, setup, ready, serve, join, dead
  mon,       \* process monitor: none, forked, up, orphan (run_cvd died too early), dead
  fg,        \* foreground launcher: none, reading, killed or its exit code
  fg_launcher_pipe_, reboot_notification_,  \* open in run_cvd
  fgPipe,    \* the exit code in the pipe to the foreground launcher, or none
  client,    \* restart_cvd: none, waiting, killed, eof or the exit code it read
  thread,    \* boot thread: none, poll, body, reboot, fg, done, dead
  state_,    \* the bits of CvdBootStateMachine::state_
  fifo,      \* lines the guest logged and klm did not read
  log,       \* kernel.log
  pipe,      \* event pipes: a size and a body for each event
  klm,       \* kernel_log_monitor: none, start, select, len, body, dead
  subscribers_, idx, active_subscription_count,  \* of ProcessSubscriptions
  handled,   \* number of events this klm has processed
  got,       \* how many of them it wrote to each subscriber
  torn       \* history: a klm ended between kernel.log and the last subscriber

procVars == <<run_cvd, mon>>
notifyVars == <<fg, fg_launcher_pipe_, reboot_notification_, fgPipe, client>>
threadVars == <<thread, state_>>
walkVars == <<subscribers_, idx, active_subscription_count, handled, got>>
klmVars == <<klm, walkVars, torn>>
dataVars == <<fifo, log, pipe>>
vars == <<procVars, notifyVars, threadVars, klmVars, dataVars>>

Init ==
  /\ run_cvd = "daemonize" /\ mon = "none"
  /\ fg = "none" /\ fgPipe = "none"
  /\ fg_launcher_pipe_ = FALSE /\ reboot_notification_ = FALSE
  /\ client = IF Rebooted THEN "waiting" ELSE "none"
  /\ thread = "none" /\ state_ = {}
  /\ fifo = <<>> /\ log = <<>> /\ pipe = [s \in Sub |-> <<>>]
  /\ klm = "none" /\ subscribers_ = <<>> /\ idx = 1 /\ active_subscription_count = 0
  /\ handled = 0 /\ got = [s \in Sub |-> 0] /\ torn = FALSE

-----------------------------------------------------------------------------
(* Who holds which end of a pipe                                           *)

MonAlive == mon \in {"forked", "up", "orphan"}

\* The boot thread drops its read end when it ends; run_cvd keeps the others in
\* the commands of secure_env and the streamer.  The monitor has a copy of all.
HasReader(s) ==
  \/ MonAlive
  \/ run_cvd # "dead" /\ (s = Boot => thread # "done")

\* Mutant: the foreground launcher keeps its own copy of the write end.
FgPipeHeldByReader == MonAlive \/ fgPipe = "none"

\* The write end of the foreground launcher's pipe.
FgPipeHeld == MonAlive \/ (run_cvd # "dead" /\ fgPipe = "none")

\* The server side of the connection of restart_cvd, which the process that waits
\* in DaemonizeLauncher inherited as well.
RebootFdHeld == MonAlive \/ run_cvd # "dead" \/ fg = "reading"

-----------------------------------------------------------------------------
(* run_cvd's main thread                                                   *)

\* ProcessLeader::Setup.  A failed fork() takes the parent's branch, and a child
\* that cannot redirect its standard files exits.
DaemonizeLauncher ==
  /\ run_cvd = "daemonize"
  /\ run_cvd' \in IF run_as_daemon THEN {"setup", "dead"} ELSE {"setup"}
  /\ fg' = IF run_as_daemon THEN "reading" ELSE "none"
  /\ UNCHANGED <<mon, fg_launcher_pipe_, reboot_notification_, fgPipe, client,
                 threadVars, klmVars, dataVars>>

\* CvdBootStateMachine::Setup
Setup ==
  /\ run_cvd = "setup" /\ run_cvd' = "ready"
  /\ fg_launcher_pipe_' = run_as_daemon
  /\ reboot_notification_' = Rebooted
  /\ thread' = "poll"
  /\ UNCHANGED <<mon, fg, fgPipe, client, state_, klmVars, dataVars>>

\* A setup feature fails, before or after CvdBootStateMachine was set up.
SetupFails ==
  /\ \/ run_cvd = "setup" /\ run_cvd' = "dead"
     \/ run_cvd = "ready" /\ run_cvd' = "join"
  /\ UNCHANGED <<mon, notifyVars, threadVars, klmVars, dataVars>>

\* ~CvdBootStateMachine: boot_event_handler_.join()
JoinThread ==
  /\ run_cvd = "join" /\ thread = "done" /\ run_cvd' = "dead"
  /\ UNCHANGED <<mon, notifyVars, threadVars, klmVars, dataVars>>

\* ServerLoop::Run forks the process monitor.
StartAndMonitorProcesses ==
  /\ run_cvd = "ready" /\ run_cvd' = "serve" /\ mon' = "forked"
  /\ UNCHANGED <<notifyVars, threadVars, klmVars, dataVars>>

\* run_cvd is killed, or exits after a stop.
RunCvdEnds ==
  /\ "run_cvd" \in Faults
  /\ run_cvd \in {"setup", "ready", "serve", "join"}
  /\ run_cvd' = "dead" /\ thread' = "dead"
  /\ UNCHANGED <<mon, notifyVars, state_, klmVars, dataVars>>

-----------------------------------------------------------------------------
(* The boot thread                                                         *)

\* interrupt_fd_ is readable.
ThreadInterrupted ==
  /\ thread = "poll" /\ run_cvd = "join" /\ thread' = "done"
  /\ UNCHANGED <<procVars, notifyVars, state_, klmVars, dataVars>>

\* poll() reports POLLIN and ReadEvent reads the size.
ThreadReadsSize ==
  /\ thread = "poll" /\ run_cvd # "join" /\ pipe[Boot] # <<>>
  /\ pipe' = [pipe EXCEPT ![Boot] = Tail(@)]
  /\ thread' = "body"
  /\ UNCHANGED <<procVars, notifyVars, state_, klmVars, fifo, log>>

\* Mutant: a failed boot is not final.
OnFailureIgnored ==
  /\ thread = "body" /\ pipe[Boot] # <<>>
  /\ pipe' = [pipe EXCEPT ![Boot] = Tail(@)]
  /\ LET e == Head(pipe[Boot])
     IN  state_' = IF e = "BootCompleted" THEN state_ \cup {"kGuestBootCompleted"} ELSE state_
  /\ thread' = IF state_' = {} THEN "poll" ELSE "reboot"
  /\ UNCHANGED <<procVars, notifyVars, klmVars, fifo, log>>

\* The rest of OnBootEvtReceived: ReadEvent reads as many bytes as the size said.
\* If they are not the body of an event but the size of another one, the JSON
\* parser fails and the boot counts as failed.
OnBootEvtReceived ==
  /\ thread = "body" /\ pipe[Boot] # <<>>
  /\ pipe' = [pipe EXCEPT ![Boot] = Tail(@)]
  /\ LET e == Head(pipe[Boot])
     IN  state_' = state_ \cup (CASE e = "BootCompleted" -> {"kGuestBootCompleted"}
                                  [] e \in {"BootFailed", "size"} -> {"kGuestBootFailed"}
                                  [] e = "Other" -> {})
  /\ thread' = IF state_' = {} THEN "poll" ELSE "reboot"
  /\ UNCHANGED <<procVars, notifyVars, klmVars, fifo, log>>

\* Mutant: failure takes precedence and success is reported for anything else.
ExitCodeInverted ==
  IF "kGuestBootFailed" \in state_ THEN "kSuccess" ELSE "kVirtualDeviceBootFailed"

\* The exit code MaybeWriteNotification chooses.
ExitCode ==
  IF "kGuestBootCompleted" \in state_ THEN "kSuccess" ELSE "kVirtualDeviceBootFailed"

\* A write to a reader that is gone: SIGPIPE ends run_cvd unless whoever started it
\* ignores the signal.
BrokenPipe(next) ==
  \/ run_cvd' = "dead" /\ thread' = "dead"
  \/ UNCHANGED run_cvd /\ thread' = next

\* MaybeWriteNotification, first file descriptor
NotifyReboot ==
  /\ thread = "reboot"
  /\ reboot_notification_' = FALSE
  /\ IF reboot_notification_ /\ client = "killed"
     THEN BrokenPipe("fg") /\ UNCHANGED client
     ELSE /\ client' = IF reboot_notification_ THEN ExitCode ELSE client
          /\ thread' = "fg" /\ UNCHANGED run_cvd
  /\ UNCHANGED <<mon, fg, fg_launcher_pipe_, fgPipe, state_, klmVars, dataVars>>

\* MaybeWriteNotification, second file descriptor.  The thread ends: its loop is
\* left in every final state.
NotifyForeground ==
  /\ thread = "fg"
  /\ fg_launcher_pipe_' = FALSE
  /\ IF fg_launcher_pipe_ /\ fg = "killed"
     THEN BrokenPipe("done") /\ UNCHANGED fgPipe
     ELSE /\ fgPipe' = IF fg_launcher_pipe_ THEN ExitCode ELSE fgPipe
          /\ thread' = "done" /\ UNCHANGED run_cvd
  /\ UNCHANGED <<mon, fg, reboot_notification_, client, state_, klmVars, dataVars>>

-----------------------------------------------------------------------------
(* Those who wait                                                          *)

\* The parent's branch of DaemonizeLauncher: a code, or end of file.
ForegroundReads ==
  /\ fg = "reading"
  /\ \/ fgPipe # "none" /\ fg' = fgPipe
     \/ fgPipe = "none" /\ ~FgPipeHeld /\ fg' = "kPipeIOError"
  /\ UNCHANGED <<procVars, fg_launcher_pipe_, reboot_notification_, fgPipe, client,
                 threadVars, klmVars, dataVars>>

\* ReadExitCode of restart_cvd meets end of file.
ClientEof ==
  /\ client = "waiting" /\ ~RebootFdHeld /\ client' = "eof"
  /\ UNCHANGED <<procVars, fg, fg_launcher_pipe_, reboot_notification_, fgPipe,
                 threadVars, klmVars, dataVars>>

\* The user interrupts the foreground launcher, or restart_cvd times out.
WaiterGone ==
  /\ \/ "fg" \in Faults /\ fg = "reading" /\ fg' = "killed" /\ UNCHANGED client
     \/ "client" \in Faults /\ client = "waiting" /\ client' = "killed" /\ UNCHANGED fg
  /\ UNCHANGED <<procVars, fg_launcher_pipe_, reboot_notification_, fgPipe,
                 threadVars, klmVars, dataVars>>

-----------------------------------------------------------------------------
(* The process monitor, as far as klm depends on it                        *)

\* prctl(PR_SET_PDEATHSIG)
MonPrctl ==
  /\ mon = "forked" /\ mon' = IF run_cvd = "dead" THEN "orphan" ELSE "up"
  /\ UNCHANGED <<run_cvd, notifyVars, threadVars, klmVars, dataVars>>

KlmEnds ==
  /\ klm' = "dead"
  /\ torn' = (torn \/ klm \in {"len", "body"})

\* klm ends with the monitor if it has asked for that already.
MonEnds ==
  /\ mon' = "dead"
  /\ IF klm \in {"none", "start"} THEN UNCHANGED <<klm, torn>> ELSE KlmEnds
  /\ UNCHANGED <<run_cvd, notifyVars, threadVars, walkVars, dataVars>>

\* SIGHUP on the death of run_cvd, or another fatal signal.
MonSighup == mon = "up" /\ run_cvd = "dead" /\ MonEnds
MonKilled == "monitor" \in Faults /\ MonAlive /\ MonEnds

\* klm is started, or started again after a crash.
StartKlm ==
  /\ mon \in {"up", "orphan"}
  /\ klm = "none" \/ (klm = "dead" /\ restart_subprocesses)
  /\ klm' = "start"
  /\ subscribers_' = subscriber_fds
  /\ handled' = 0 /\ got' = [s \in Sub |-> 0]
  /\ UNCHANGED <<procVars, notifyVars, threadVars, idx, active_subscription_count, torn,
                 dataVars>>

KlmCrashes ==
  /\ "klm" \in Faults /\ klm \in {"select", "len", "body"} /\ KlmEnds
  /\ UNCHANGED <<procVars, notifyVars, threadVars, walkVars, dataVars>>

-----------------------------------------------------------------------------
(* kernel_log_monitor                                                      *)

KlmUnchanged == UNCHANGED <<procVars, notifyVars, threadVars, torn>>

KlmReady ==
  /\ klm = "start" /\ klm' = "select"
  /\ KlmUnchanged
  /\ UNCHANGED <<walkVars, dataVars>>

\* HandleIncomingMessage up to ProcessSubscriptions, for one line.
HandleIncomingMessage ==
  /\ klm = "select" /\ fifo # <<>>
  /\ fifo' = Tail(fifo)
  /\ log' = Append(log, Head(fifo))
  /\ idx' = 1 /\ active_subscription_count' = Len(subscribers_)
  /\ handled' = handled + 1 /\ klm' = "len"
  /\ KlmUnchanged /\ UNCHANGED <<subscribers_, got, pipe>>

\* The line cannot be written to kernel.log: the early return comes before any
\* event is looked for, and the line is gone.
LogWriteFails ==
  /\ "log" \in Faults /\ klm = "select" /\ fifo # <<>>
  /\ fifo' = Tail(fifo)
  /\ KlmUnchanged /\ UNCHANGED <<klm, walkVars, log, pipe>>

Current == subscribers_[idx]
CanWrite == idx <= active_subscription_count /\ HasReader(Current) /\ Len(pipe[Current]) < Cap

\* WriteEvent: the size, then the body.  Each write blocks while the pipe is full.
WriteSize ==
  /\ klm = "len" /\ CanWrite
  /\ pipe' = [pipe EXCEPT ![Current] = Append(@, "size")]
  /\ klm' = "body"
  /\ KlmUnchanged
  /\ UNCHANGED <<walkVars, fifo, log>>

WriteBody ==
  /\ klm = "body" /\ CanWrite
  /\ pipe' = [pipe EXCEPT ![Current] = Append(@, log[Len(log)])]
  /\ got' = [got EXCEPT ![Current] = @ + 1]
  /\ idx' = idx + 1 /\ klm' = "len"
  /\ KlmUnchanged /\ UNCHANGED <<subscribers_, active_subscription_count, handled, fifo, log>>

\* Mutant: a cancelled subscription is counted twice.
CancelTwice ==
  /\ klm \in {"len", "body"} /\ idx <= active_subscription_count /\ ~HasReader(Current)
  /\ active_subscription_count' = active_subscription_count - 2
  /\ klm' = "len"
  /\ KlmUnchanged /\ UNCHANGED <<subscribers_, idx, handled, got, dataVars>>

\* Mutant: the subscriber swapped into the place of a cancelled one is skipped.
CancelSkips ==
  /\ klm \in {"len", "body"} /\ idx <= active_subscription_count /\ ~HasReader(Current)
  /\ active_subscription_count' = active_subscription_count - 1
  /\ subscribers_' = [subscribers_ EXCEPT ![idx] = subscribers_[active_subscription_count],
                                          ![active_subscription_count] = Current]
  /\ idx' = idx + 1 /\ klm' = "len"
  /\ KlmUnchanged /\ UNCHANGED <<handled, got, dataVars>>

\* The write fails with EPIPE: "Cancel the subscription by swaping it with the
\* last active subscription".
CancelSubscription ==
  /\ klm \in {"len", "body"} /\ idx <= active_subscription_count /\ ~HasReader(Current)
  /\ active_subscription_count' = active_subscription_count - 1
  /\ subscribers_' = [subscribers_ EXCEPT ![idx] = subscribers_[active_subscription_count],
                                          ![active_subscription_count] = Current]
  /\ klm' = "len"
  /\ KlmUnchanged /\ UNCHANGED <<idx, handled, got, dataVars>>

\* "Keep only the active subscriptions"
SubscriptionsProcessed ==
  /\ klm = "len" /\ idx > active_subscription_count
  /\ subscribers_' = SubSeq(subscribers_, 1, active_subscription_count)
  /\ klm' = "select"
  /\ KlmUnchanged /\ UNCHANGED <<idx, active_subscription_count, handled, got, dataVars>>

-----------------------------------------------------------------------------
(* The guest and the other subscribers                                     *)

GuestLogs(e) ==
  /\ mon \in {"up", "orphan"} /\ Len(log) + Len(fifo) < MaxEvents
  /\ fifo' = Append(fifo, e)
  /\ UNCHANGED <<procVars, notifyVars, threadVars, klmVars, log, pipe>>

\* secure_env and the streamer read their pipe for as long as they run.
OtherReads(s) ==
  /\ mon \in {"up", "orphan"} /\ pipe[s] # <<>>
  /\ pipe' = [pipe EXCEPT ![s] = Tail(@)]
  /\ UNCHANGED <<procVars, notifyVars, threadVars, klmVars, fifo, log>>

-----------------------------------------------------------------------------
MainNext == DaemonizeLauncher \/ Setup \/ StartAndMonitorProcesses \/ JoinThread

ThreadNext ==
  ThreadInterrupted \/ ThreadReadsSize \/ OnBootEvtReceived
    \/ NotifyReboot \/ NotifyForeground

MonNext == MonPrctl \/ StartKlm

KlmNext ==
  KlmReady \/ HandleIncomingMessage \/ WriteSize \/ WriteBody
    \/ CancelSubscription \/ SubscriptionsProcessed

Next ==
  \/ MainNext \/ SetupFails \/ RunCvdEnds
  \/ ThreadNext \/ ForegroundReads \/ ClientEof \/ WaiterGone
  \/ MonNext \/ MonSighup \/ MonKilled \/ KlmNext \/ KlmCrashes \/ LogWriteFails
  \/ \E e \in Event : GuestLogs(e)
  \/ \E s \in Others : OtherReads(s)

Spec == Init /\ [][Next]_vars

\* Threads and processes that can run are scheduled, a process gets the signal it
\* asked for, and the other subscribers keep reading.  Nothing makes the guest log
\* anything, and nothing makes a setup feature or a write to kernel.log fail, or a
\* process crash.
Fairness ==
  /\ WF_vars(MainNext) /\ WF_vars(ThreadNext)
  /\ WF_vars(ForegroundReads) /\ WF_vars(ClientEof)
  /\ WF_vars(MonNext) /\ WF_vars(MonSighup) /\ WF_vars(KlmNext)
  /\ \A s \in Others : WF_vars(OtherReads(s))

FairSpec == Spec /\ Fairness

-----------------------------------------------------------------------------
(* Properties                                                              *)

\* Every variable stays in its type, and the walk over the subscriptions within the
\* vector it shrinks.
TypeOK ==
  /\ run_cvd \in {"daemonize", "setup", "ready", "serve", "join", "dead"}
  /\ mon \in {"none", "forked", "up", "orphan", "dead"}
  /\ fg \in {"none", "reading", "killed", "kPipeIOError"} \cup Code
  /\ fg_launcher_pipe_ \in BOOLEAN /\ reboot_notification_ \in BOOLEAN
  /\ fgPipe \in {"none"} \cup Code
  /\ client \in {"none", "waiting", "killed", "eof"} \cup Code
  /\ thread \in {"none", "poll", "body", "reboot", "fg", "done", "dead"}
  /\ state_ \subseteq {"kGuestBootCompleted", "kGuestBootFailed"}
  /\ fifo \in Seq(Event) /\ log \in Seq(Event)
  /\ pipe \in [Sub -> Seq(Event \cup {"size"})]
  /\ klm \in {"none", "start", "select", "len", "body", "dead"}
  /\ subscribers_ \in Seq(Sub)
  /\ idx \in Nat /\ active_subscription_count \in Nat /\ handled \in Nat
  /\ klm \in {"len", "body"} => /\ idx <= active_subscription_count + 1
                                /\ active_subscription_count <= Len(subscribers_)
  /\ got \in [Sub -> Nat] /\ torn \in BOOLEAN

Logged(e) == \E n \in DOMAIN log : log[n] = e

Reported == {c \in {fg, client, fgPipe} : c \in Code}

\* What the foreground launcher and restart_cvd are told is the first final event
\* of kernel.log, and both are told the same: a crash after the boot, or a boot
\* message of a guest that reboots by itself, does not change the answer.  Only a
\* kernel_log_monitor that ends in the middle of an event can.
FirstFinalEventReported ==
  \A c \in Reported : ~torn =>
    \E n \in DOMAIN log :
      /\ log[n] = (IF c = "kSuccess" THEN "BootCompleted" ELSE "BootFailed")
      /\ \A m \in 1..(n - 1) : log[m] = "Other"

\* Nobody is told the device booted unless it did, even if klm crashes between the
\* two writes of an event and the pipe no longer holds whole events.
SuccessMeansBooted ==
  "kSuccess" \in Reported => Logged("BootCompleted")

\* ProcessSubscriptions, which removes cancelled subscriptions while it walks the
\* vector, sends each event once to each subscriber and cancels only those nobody
\* reads.
EveryEventToEverySubscriber ==
  klm = "select" =>
    \A s \in Sub :
      IF \E i \in 1..Len(subscribers_) : subscribers_[i] = s THEN got[s] = handled ELSE ~HasReader(s)

\* Once the guest has booted or failed to, the foreground launcher returns, unless
\* the event was lost with its writer or run_cvd died before the monitor asked for
\* SIGHUP.
BootIsReported ==
  Logged("BootCompleted") \/ Logged("BootFailed")
    ~> fg # "reading" \/ torn \/ mon = "orphan"

\* "otherwise we may end up reading forever if the child process dies": the
\* foreground launcher and restart_cvd return when run_cvd dies, though the process
\* monitor has copies of their pipes, unless run_cvd died before the monitor asked
\* for SIGHUP.
WaitersReturn ==
  run_cvd = "dead" ~> (fg # "reading" /\ client # "waiting") \/ mon = "orphan"

\* "once a final state is reached (success or failure) it sends the appropriate
\* exit code to the foreground launcher process"
FinalStateIsSent == state_ # {} ~> fg \in Code \cup {"none", "killed"}

\* "we still need to write the logs to a file": what the guest logs reaches
\* kernel.log.
LogIsWritten == fifo # <<>> ~> fifo = <<>>
=============================================================================
