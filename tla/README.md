# A TLA+ model of the Cuttlefish host tools

Cuttlefish runs Android virtual devices on a host. This directory holds TLA+
modules for the parts of it whose correctness depends on the order in which
processes, threads, clients and signals act, the TLC configurations that check
them on small instances, and proofs checked by TLAPS. `PROJECT.json` maps every
definition to the lines it models and lists the runs, the mutants (one per checked
property: a plausible bug that TLC must catch), the findings, the hazards of the
code and the theorems.

## The system

`launch_cvd`/`cvd start` executes `assemble_cvd`, which writes the configuration,
and then one `run_cvd` per device. `run_cvd` daemonizes, forks a *process monitor*
that starts and supervises the host processes of the device, and serves clients on
a local socket. `cvd` itself is a client of a long-lived server. The network
interfaces of the devices belong to a daemon of the host, `allocd`. One of the host
processes shows the confirmation dialogs that a HAL in the guest asks for.

| Part | What is hard about it | Module |
|---|---|---|
| Process monitor (`run_cvd/process_monitor.cc`, `Subprocess`) | two threads share `running`, one blocks in `wait()`; children exit at any time; the parent dies | `ProcessMonitor` |
| What the monitor promises | | `Supervisor` |
| Server loop of run_cvd (`run_cvd/server_loop.cpp`) and its clients (`stop`, `restart_cvd`, `powerwash_cvd`, `status`, `libs/command_util`) | one client at a time; replies to clients that left; connections across `execv`; timeouts racing with late answers; stale process groups | `ServerLoop`, on `Supervisor` |
| Boot state machine (`run_cvd/boot_state_machine.cc`) and `kernel_log_monitor` | copies of descriptors in forked processes; SIGPIPE between two notifications; a vector edited during its iteration; crashes between two writes; full pipes | `BootStateMachine` |
| `allocd` (`host/libs/allocd`) | transactions that fail half-way; interfaces that outlive the daemon; names that run out | `Allocd` |
| `Multiplexer`, `Semaphore`, `ThreadSafeQueue` (`common/libs/concurrency`) | two locks for one push; full queues | `Multiplexer` |
| Confirmation UI: host server (`host/libs/confui`), HAL (`guest/hals/confirmationui`), the console between them | three threads on each side; late answers; a session pointer without a lock; crashes | `HostServer`, `TrustyConfirmationUI`, `VirtioConsole`, composed in `ConfUi` |
| cvd server (`host/commands/cvd/server.cc`, `epoll_loop.cpp`, `server_command/*`) | one-shot callbacks; interrupts racing with the end of a request; Stop called by a thread it waits for; a server that replaces itself | `CvdServer` |

## Modules

### Supervisor

The abstract device: `phase` goes from `off` to `up` (or `none`, when the monitor
could not be forked), then `stopping` and `stopped`, or `lost`. Processes appear
only under a live monitor, and `Stopped` is only possible when none is left.
`ProcessMonitor` implements it and `ServerLoop` is built on it, which joins the
two halves of `run_cvd`.

### ProcessMonitor

Three threads of control interleave, one step per system call or shared access:

* run_cvd (`parent`): `StartAndMonitorProcesses`, `StopMonitoredProcesses`
  (write, forget `monitor_`, block in `waitpid`), its failing variants, and
  `WaitpidReturns`;
* the monitor's main thread (`mon`): `Prctl`, `StartSubprocess`, `StartComms`, the
  `MonitorLoop...` and `Lookup...` steps, `JoinComms`, then `StopEntry` and
  `ReapEntry` for each entry in reverse order, and `StopDone`;
* its reader thread (`comms`): `CommsCheck`, `CommsStop`, `CommsWake`.

`kid` is the kernel's view of each child, including `stop_cvd` started for a
critical exit, the process forked only to wake up `wait()`, and a descendant
inherited as a subreaper. Undefined behaviour, a null `proc` that is dereferenced,
ends the monitor in `LookupSegfault` and `StopEntrySegfault`, and a failed start is
carried on from, since the code discards those results. `restart_subprocesses` is
chosen once, in `Init`, so that one run covers both settings. The refinement
mapping (`devicePhase`, `aliveEntries`) is at the end of the module.

### ServerLoop

`run_cvd` is the position of the loop; `conn`, `req` and `sock` are the connection,
request and unread answers of each client; `inc` counts executions of run_cvd.
Messages carry the incarnation that wrote them, so that a property can tell an old
boot from a new one. `RestartRunCvd` closes every connection except the requesting
client's, which the next incarnation holds as `reboot_notification_`. `BootEnds`
stands for all of `BootStateMachine`. A write to a client that left ends `run_cvd`
by SIGPIPE or fails: the code inherits the disposition of the signal from whoever
started it, so both may happen. After a failed stop the loop continues with
`monitor_` = -1. `FallBackStop` is two steps, listing the process groups and
killing them; each incarnation has a process group of its own, which is what
`run_as_daemon` gives it.

### BootStateMachine

One device boot with a main thread, the boot thread, the foreground launcher, a
`restart_cvd` that waits, `kernel_log_monitor` and the event pipes.
`HasReader`, `FgPipeHeld` and `RebootFdHeld` say who holds which end of a pipe:
forked processes have copies, which decides whether a read meets end of file or a
write meets EPIPE. An event is two writes, a size and a body; a reader that gets
out of step takes one for the other. Log lines are abstracted to three events; a line
that cannot be written to `kernel.log` is given up before any event is looked for
(`LogWriteFails`). The
history variable `torn` says that a `kernel_log_monitor` ended between appending to
`kernel.log` and its last subscriber, the one case in which an event can be lost.

### Allocd

`pc` is the position of the daemon, which serves one client (`Accept`, `RecvRequest`
or a failed or silent receive) and handles its list of requests as a transaction:
`JsonHandleIdRequest`, `...ShutdownRequest`, `...CreateInterfaceRequest`,
`...DestroyInterfaceRequest`, `...StopSessionRequest`, then `Commit` or `RollBack`.
Creating an interface takes up to as many attempts as there are names, one step
each; the stream the name is built in is not emptied between the attempts, so a
name is the sequence of the attempts so far, and only one of length 1 is short
enough for the kernel. `links` are the interfaces in the kernel, which survive
`Killed` and `StartAgain`. Deleting is a choice of which `ip` commands succeed
(`Deletes`). A bridge that cannot be created, or a type that is not supported, makes
`AddInterface` dereference the end of a map (`AddInterfaceCrashes`). The
history variables `leaked` and `disowned` mark links whose deletion failed or whose
daemon died, and names given up by a destroy request that released something else.

### Multiplexer, VirtioConsole, HostServer, TrustyConfirmationUI, ConfUi

`Multiplexer` has the queues and the semaphore; `Push` is two steps, because the
queue and the semaphore have locks of their own. `VirtioConsole` has a FIFO each
way and `trouble`, the set of things that went wrong so far.

`HostServer` is the host's process: `HalCmdFetcherLoop` and the input thread
(`TouchEvent`, `UserAbortEvent`, the checks of `SendUserSelection`) push into the
queues, and `MainLoop` pops one input at a time and moves the session through
kInit, kInSession and kWaitStop. `curr_session_` is read by the input thread while
the main loop resets it; a reset between check and use is a crash, after which
run_cvd starts the process again, with the console as it was.

`TrustyConfirmationUI` is the HAL: binder calls (`promptUserConfirmation`,
`deliverSecureInputEvent`, `abort`), the callback thread (`RunSession`,
`PromptUserConfirmation`) and `HostMessageFetcherLoop`, which returns for good when it
fails to read a message (`HostMessageFetcherReturns`): the host is then not heard any
more, and only abort() ends a session. A lock held across a wait is a variable, one
taken and released within a step is a guard.

`ConfUi` composes the two over the console; a step is a step of one side.

### CvdServer

`N` workers (`pc`, `fd`, `ev`) take events out of one epoll instance
(`callbacks_`, `armed`): `EpollWait`, `TakeCallback`, then `AcceptClient`,
`HandleMessage` or `interrupt_cb`. A request is inserted into `ongoing_requests_`,
its interrupt callback is registered, its handler runs a subprocess, shuts the
server down or restarts it, the handler is cleared and destroyed, the answer is
sent and the client registered again, one step per lock or system call. `Stop` is
one step per critical section: it takes one request after the other, interrupts it
and joins its thread. `wakeups` is the number of eventfds that are ready; each
woken worker wakes the next (`Loop`). `Exec` replaces the process: the new one
has the listening socket and the client of the restart. `main` is `CvdServerMain`:
it registers the server, answers the carried-over client and joins the workers.
Joining a thread that another thread is joining is undefined (`DoubleJoin`), and so
is an interrupt of a destroyed handler (`InterruptDestroyed`): the process ends in
`aborted`, or carries on as if nothing had happened.

## Runs

| Run | Checks | Shows |
|---|---|---|
| `pm` | `StoppedMeansStopped`, `ReverseStopOrder`, `StopIsOnItsWay`, `CriticalExitNotLost`, `ImplementsSupervisor`, `StopReturns`, `CrashedIsRestarted` | whatever crashes, hangs or fails to fork, a stop that reports success leaves nothing behind and stops in reverse order, the exit of a critical process is acted on, a stop is not lost between the threads and returns, an exited subprocess comes back, and the monitor implements `Supervisor` |
| `sl` | `StopOkMeansDown`, `RestartOkMeansRebooted`, `NothingLeftUnread`, `RestartsFromNothing`, `ClientsAreAnswered` | a successful stop means down for good, a successful restart means the *next* boot, run_cvd executes itself only with no process left, and everyone who connects is answered or cut off |
| `bsm` | `SuccessMeansBooted`, `FirstFinalEventReported`, `EveryEventToEverySubscriber`, `BootIsReported`, `WaitersReturn` | no success without a boot, both waiters are told the first final event, no subscriber is skipped or served twice, nobody waits for a dead run_cvd |
| `alloc` | `NoOrphanTap`, `OneOwnerPerName`, `ServesNextClient` | every tap of the kernel has an owner after failed transactions, unless an `ip` command failed to delete it or its daemon died; no name has two owners; a silent client holds nobody up |
| `confui` | `ModeFollowsSession`, `SemCoversItems`, `CheckOnlyAfterDrop`, `FirstMessageIsAck`, `WaitStopGetsStop`, `ConfirmedByHost`, `PromptCallReturns`, `WaitStopEnds`, `AbortEndsSession` | the two sides stay in step through aborts, late answers, messages not written or not read, and crashes; no wake-up is lost; OK is reported only for what the host confirmed; calls return |
| `cvd` | `OneWorkerPerClient`, `NoStaleInterrupt`, `StopLeavesNoHandler`, `StopEndsServer`, `ClientIsHeeded` | a client's messages stay with one worker, interrupts meet live handlers and subprocesses, Stop leaves no request at work and ends the server, no event is lost between two registrations |
| `pm_stale_stop`, `pm_pdeathsig`, `bsm_sigpipe`, `bsm_full_pipe`, `alloc_names`, `confui_grace` | one property each | the code disagrees with its comments, see Findings |

Every passing run also checks the `TypeOK` of its module.

**Bounds.**

* `pm`: `N` = 3 entries are needed for an order of stops with a gap in the vector,
  2 crashes let a second exit race with the handling of the first. The middle entry
  is critical.
* `sl`: two clients with any actions, one of them in the backlog while the other is
  served; each makes one request, so `MaxRestarts` = 3 never cuts a behaviour off.
  One process is enough where only the emptiness of the set matters;
  `ProcessMonitor` has the real ones. The invariants were also checked with three
  clients (1.8 million states).
* `bsm`: the boot thread and one other subscriber, in the order `subscriber_fds`; the
  proofs hold for every set and order of subscribers. Two events give two final ones;
  `Cap` = 2 makes a pipe hold one event, so that full pipes occur. Three events were
  also checked (2.1 million states).
* `alloc`: two users that compete for the same names, two numbers per name, so that
  names run out; transactions of two requests, so that one can fail after another
  succeeded. `MaxResource` and `MaxSession` bound the ids only when a transaction
  begins. Values of 2 were also checked (15 million states).
* `confui`: two sessions, so that what is left of the first meets the second; two
  inputs; queues of one element, so that full ones occur; the HAL's queue has room
  for 4, since the host sends a session at most three messages (`IncomingAssumption`;
  the code's has room for 20).
* `cvd`: two workers and two clients with one request each, of any kind, and failing
  accepts. The invariants were also checked with two requests per client (3.0
  million states) and with three workers (4.2 million). The code has ten workers;
  the proofs hold for every `N`.

**Deadlock** is checked in `pm_stale_stop`. In the others the system may really stop:
processes are stopped or die, and bounded clients, users and guests have nothing
more to ask for. That nobody waits for ever for somebody who waits is what the
liveness properties say.

**Fairness** is weak fairness of each thread that can run, of system calls whose
condition holds, of the delivery of a signal, and of the exit of a killed process.
Nobody is forced to connect, call, touch the screen, crash, fail to read or write,
time out, boot or finish a command. Orphans inherited by the monitor never have to exit. In `sl` a
client that connected writes its request, as those in the repository do, and that
stops terminate is a hypothesis of `ClientsAreAnswered` (`StopTerminates`), which
`pm` checks of the monitor as `StopReturns`. In `alloc` the receive timeout of ten
seconds is a step of the daemon.

**Exceptions in the properties** name cases in which the code really does otherwise:

* `StopReturns` excepts a failed `fork()` of the process that wakes up `wait()`,
  whose result the code does not check;
* `BootIsReported` and `WaitersReturn` except a run_cvd that dies before the
  monitor's `prctl`, the finding of `pm_pdeathsig`, and `BootIsReported` and
  `FirstFinalEventReported` an event torn by the end of its writer;
* `NoOrphanTap` excepts what a failing command or a dead daemon leaves behind;
  `OneOwnerPerName` names given up by a destroy request for something else;
* the liveness properties of `ConfUi`, except `AbortEndsSession`, end with the first
  `trouble`: the protocol has no retransmission;
* `NoStaleInterrupt` excepts requests whose `Handle` failed. `HandleRequest` returns
  early then, and leaves the callback and the pointer to the handler behind, though
  the comment at `server.cc:425` says the handler is cleared;
* `StopLeavesNoHandler` and `StopEndsServer` except two Stops at once (`twoStops`):
  each may join the other's thread;
* `ClientIsHeeded` excepts the time when all workers are in a handler or a Stop
  (`AllBusy`): no worker is left to see a departure.

Some hazards are in the model and delimited by its properties rather than excluded,
because the code does not exclude them: the abort of `Multiplexer::Pop()` after a
dropped message, which the comments at `host_server.h:149` and `host_server.cc:178`
(Pop sleeps until there is an item) do not foresee; a session pointer reset under the
input thread; the interfaces left by a daemon that dies; and two sides that disagree on
the session after a lost message. `PROJECT.json` says so at each of them.

Two more things the model of the cvd server shows without a property: main's `Join`
may join a thread that a Stop joins at the same time, and a client that leaves
during a restart, before `AcceptCarryoverClient`, ends the new server.

## Findings

* `pm_stale_stop`: a subprocess that exits just as a stop arrives is reaped by
  `MonitorLoop`, stays in the vector and is stopped through its freed pid.
* `pm_pdeathsig`: run_cvd dying between `fork()` and `prctl()` leaves the monitor
  and the device running.
* `bsm_sigpipe`: a `restart_cvd` that gave up makes run_cvd die of SIGPIPE before
  it reports to the foreground launcher.
* `bsm_full_pipe`: after the boot nobody reads the boot thread's pipe, but the
  monitor's copy keeps it open; when it is full `kernel_log_monitor` blocks. The
  model's pipe holds two writes, a real one 64 KiB, so this takes many events.
* `alloc_names`: stopping a session erases the names in the session's own
  `active_interfaces_`, which nothing ever fills, so the names of stopped sessions
  are never used again.
* `confui_grace`: the grace period of a touch is checked when it is queued. A touch
  for one session that is popped during the next one counts as its answer, whatever
  the user could see by then.

## Proofs

Each theorem is proved for every value of the constants from the named `ASSUME`s of
the component modules, which say little more than that constants have their type.

**ProcessMonitorProofs** (every `N`, set of critical entries, faults and bound on
crashes). `StoppedMeansStopped` is not inductive: it says nothing of the time before
the monitor exits. `IInv` adds that entries after `idx` have ended while stopping
(`StopProgress`), that an erased entry has been waited for (`ErasedIsGone`), what
`cur` is at each position (`CurInv`), that entries not started have no child
(`NotStarted`), that only the entry being waited for is `stopping` (`SignalInv`),
that the wake-up process is forked after `running` is cleared (`WakeInv`), and that
exit status 0 means all entries ended (`ExitInv`). `MonitorImplementsSupervisor` uses
`RequestInv` as well: the monitor stops only if run_cvd asked for it. `StopIsNotLost`
needs `ReaderInv`, which says where the reader thread can be before and after `running`
is cleared, and that the child that wakes up `wait()` is waited for only by a loop about
to end. `NoRestartIsLost` is the same for restarts: a subprocess that exited and was
waited for is the one `MonitorLoop` has in hand. `WakeUpIsNotHandled`
(`WakeUpEndsLoop`) is part of `IInv`.

**ServerLoopProofs** (every set of clients and processes, every bound on restarts).
`StopOkMeansDown` is not inductive since the answer travels through a socket;
`StopInv` extends it to answers not yet read, `DownInv` ties `execv` to a device that
is down, `ServedInv` gives the loop a client, `BootWait` keeps `stop_cvd` out of the
wait for a boot. The lemmas on `Append` and `Tail` say what a write or read does to
the messages in a socket. `RestartOkMeansRebooted` and `NothingLeftUnread` need a
second invariant, `DInv`, about whole conversations. `Links`: the client that is
served and the one that waits for the boot are different, and neither has a request
left. `Unanswered`: nobody is told anything before its request is handled.
`Rebooting`: all that the client held over `execv` has been told is that the
incarnation before this one restarts. `Dialog`: which messages a client can have
unread and read at each of its positions, with the incarnations that wrote them.
`NobodyIsForgotten` adds `Attended`: whoever is to answer a client has its connection,
and a connection that was accepted is the one being served.

**BootStateMachineProofs** (every set of subscribers, every order of them, capacity of
the pipes and combination of faults). `Phases` says how far the processes have got
relative to each other. `WalkInv` is the loop invariant of `ProcessSubscriptions`:
subscribers before `idx` have this event, those up to `active_subscription_count` lack
exactly this one, those behind have no reader, and the vector holds nobody twice;
without it the swap of a cancelled entry could skip one, which is what
`EveryEventToEverySubscriber` is about. `Truth` follows a success from the pipe through
`state_` to both waiters. `Order` keeps the boot thread in step with the log, counting
the events it has read, those in its pipe and the half an event that a size without a
body is, until the first final one decides `state_`; a torn event ends this.
`FinalEventIsNotLost` follows from `Order` and `WalkInv` together: a final event is in
the pipe of the boot thread, or its turn in the walk is still to come. `WaitersAreOwed`
needs `Owed`, which ties each waiter to the descriptor that the boot thread keeps until
it has written to it.

**AllocdProofs** (every set of users, number of names and bound). `NoOrphanTap` speaks
of the time between two clients; `TapsAccounted` extends it to the middle of a
transaction, where the taps are also those of `pending_add_`, and says that what a
roll back leaves in `pending_add_` is not in the kernel any more. `OneOwnerPerName`
needs that the name of every resource is in the list of names in use
(`NamesHeld`), and that a resource is in one place and has an id already given out
(`Placed`). `EveryStepAdvances` is an action property: while a client is served, the
requests left and then the attempts left go down with every step.

**ConfUiProofs** (any capacity of the queues, number of sessions, inputs and calls).
`Typed` strengthens `TypeOK`: a message names a session, so a thread about to send
one must know a session. `SessionShape` extends `ModeFollowsSession` to the time
during which an input is handled. `Wakes` says that without a dropped message the
semaphore and the producers between the two steps of a push account for *exactly*
the messages queued; the bound of `SemCoversItems` alone would let the semaphore
promise too much, which is what `CheckOnlyAfterDrop` is about. `Answers` follows a
confirmation from `SendResponse` through the console, the HAL's queue and the
callback thread to the result.

**ConfUiOrderProofs** (as above; queue capacity by `IncomingAssumption`).
`FirstMessageIsAck` and `WaitStopGetsStop` say that neither side meets a message it
takes for impossible. Their invariant, `MessageOrder`, follows a session through the
console in both directions. The messages of the host for one session have a rank, the
ack first, then the answer, then an error or abort, and never come twice or out of order
(`Ranked`). A kStart on its way is the last message of a HAL that waits, for a session
the host has said nothing to (`Coming`). While the HAL waits, its queue starts with the
ack and continues in the order of the console (`AwaitsAck`); afterwards no second ack
comes (`AckedOnce`). Unless a message was lost, a host that has a session is in the
session of the HAL, or its end is on the way (`Together`). The lemmas first sort the
steps of each side into a few kinds by what they do to the messages (`HostStep`,
`GuestStep`, in `ConfUiProofs`), and each conjunct is shown per kind.

Four more theorems say that no side waits in vain. `LocksDoNotCycle`: the binder call,
the callback thread and the fetcher of the HAL hold no two locks that wait for each
other; `Locks` (in `ConfUiProofs`) says at which position a thread holds which lock.
`AckIsComing` and `StopIsComing`: until the first `trouble`, a HAL that awaits its ack and
a host in kWaitStop have the message they wait for, or the one that causes it, on the way
(`AckComing`, `StopComing`). The second holds although a full queue of the HAL drops its
older half, since by `Ranked` the answer is among the newest messages.
`AbortReachesSession` is an action property: whatever happens to the console and the host,
a session that abort() has found keeps a message that ends it, until it has ended.

**CvdStepProofs, CvdServerProofs** (every number of workers, clients and requests).
`IInv` has five parts besides types. `TokenInv`: the right to handle a client's message
is either the registered callback or the worker in `HandleMessage`, passed on and never
doubled; `OneWorkerPerClient` alone says nothing of callbacks yet to be taken. `FdInv`:
who works for which descriptor. `HandlerInv`: a handler is cleared before it is
destroyed. `RequestInv`: from its insertion to the end of its handler a request is in
`ongoing_requests_` or in the hands of a Stop that has taken it and not yet joined its
thread, so no Stop returns while the request is at work. `StopInv`: whoever is in Stop
has cleared `running_`, joined threads have ended, and after Stop no other request is
in its handler. Most steps neither start nor end a request; `Pass` and `Quiet` describe
them. `CvdStepProofs` shows that such a step keeps `IInv`, and has one lemma for each
other step of a request or of Stop; `CvdServerProofs` has the restart, main and the
theorems.

`TypeOK` bounds the answers by the requests, and that is not a matter of types. On top
of `IInv`, `Balance` says of a client that is still there: its unanswered request is
either unread or handled, never both, where handled includes the time between `Exec`
and `AcceptCarryoverClient`, in which no worker has it; and an event of the client has
gone to one worker only and finds its message unread. `AnsweredOncePerRequest` is the
first line of it. `Balance` was checked with TLC before it was proved: on the instance
of `cvd`, with two requests per client, and with three workers and three requests of
one client.

`NoEventIsLost` and `StopIsNotStuck` are the invariant side of `ClientIsHeeded` and
`StopEndsServer`. For the first, `EventInv` says that a registered callback is armed for
its event or the event is in the hands of a worker (`Fires`), that a client that is there
has a callback or a worker (`Kept`), and that the server's descriptor is listened to until
a Stop (`Serving`); `DepartureInv` says that a hangup will be turned into an interrupt
until the request has been interrupted. For the second, `StopFacts` says that the thread of
a request in `ongoing_requests_`, or taken by a Stop, is at work on it or on its way out
(`OngoingInv`, `TakenInv`), that a Stop joins only threads it has interrupted and never its
own (`StruckInv`), and that once `running_` is cleared somebody is awake to wake the next
worker (`Cascade`).

**Only model-checked:** everything temporal under fairness, which is out of the prover's
reach. Every invariant and action property that a passing run checks, and the refinement
of `Supervisor`, has a theorem. Of the liveness properties the proofs cover the part that
is a matter of safety: whoever waits, waits for somebody who has something to do. What
stays with TLC is that they then do it, and that the chain of such steps ends. Where the
theorems state something no run checks by name, the definition is above the theorem in
the module of the proofs; each was checked with TLC on the instance of the run before it
was proved.

| Checked by TLC | The part that is proved | Says |
|---|---|---|
| `StopReturns` | `StopIsNotLost` | a stop is in the pipe, or `running` is cleared and an exited child comes to `wait()` |
| `CrashedIsRestarted` | `NoRestartIsLost` | an exit that was waited for is the one the loop has in hand |
| `ClientsAreAnswered` | `NobodyIsForgotten` | a waiting client is in the backlog, served, held for a reboot, or cut off |
| `BootIsReported` | `FinalEventIsNotLost`, `WaitersAreOwed` | final events reach the boot thread, which keeps the waiters' descriptors |
| `WaitersReturn` | `WaitersAreOwed` | as above, or run_cvd is about to exit |
| `ServesNextClient` | `EveryStepAdvances` | every step while serving uses up a request or an attempt |
| `PromptCallReturns` | `LocksDoNotCycle`, `AckIsComing` | no circle of locks; the ack of a kStart is under way |
| `WaitStopEnds` | `StopIsComing` | the end of a session in kWaitStop is under way |
| `AbortEndsSession` | `AbortReachesSession` | what abort() gives the session makes it end, and stays until it has |
| `StopEndsServer` | `StopIsNotStuck` | a Stop that is alone waits neither for itself nor for a command that runs on |
| `ClientIsHeeded` | `NoEventIsLost` | connections, messages and departures are armed or in hand |

## Not modelled

The modules cover the control of the concurrent parts of the host tools. They are a
small part of the repository's lines: most of it is headers, tables, configuration,
generated code, command lines, graphics, cryptography, AT commands and guest HALs,
whose code is sequential or forwards bytes. A model of these would repeat the code
and have no property that a unit test could not settle.

* **cvd instances** (`instance_lock.cpp`, `instance_manager.cpp`, the selector's
  database): lock files shared by several processes, and a database used by the
  requests that start and remove groups. This is the one concurrent part left; it
  would be composed with `CvdServer`, whose requests call it.
* **The other handlers of the cvd server** run handlers in sequence through
  `CommandSequenceExecutor`, and have the interrupt protocol of the generic handler
  that is modelled; the translation of acloud commands is text.
* **process_restarter**: one process around one child without shared state; the
  `prctl` race it has in common with the process monitor is checked there.
* **SetupFeature**: a sequential depth-first sort of a graph fixed at start-up.
* **secure_env**, **modem_simulator**: requests handled one at a time around
  cryptographic libraries and AT commands.
* **WebRTC frontend, operator, proxies and connectors**: media streaming with an
  external library, and copying between descriptors.
* **assemble_cvd, vm_manager, fetchers**: sequential programs that read flags, write
  files and build command lines. The stoppers vm_manager installs are the `Stop` of
  `ProcessMonitor`.
* **Guest HALs and commands** other than the confirmation UI's: mostly forwarding.

Within the modelled parts: the text of log lines, JSON and CBOR messages, rendering,
signatures (they succeed or fail), file names, `ebtables` rules, the files a powerwash
recreates, flags, and commands for several instances at once are left out. So are

* the splitting of the kernel log into lines: `kernel_log_monitor` reads 256 bytes at a
  time, and the first part of a line is lost with the process that had read it;
* `kStopFailure`, and a failed `Wait`, of a child that the monitor has not waited for:
  `kill()` and `waitid()` of such a child do not fail;
* a descriptor number that is used again between `epoll_wait` and the lookup of its
  descriptor: a new client would get the hangup of an old one, and be taken for one that
  has left. The connections of the model keep their identity;
* a `run_cvd` in the foreground, whose process group outlives `execv`: a late
  `FallBackStop` may then end the next incarnation too. It reports an error all the same.
