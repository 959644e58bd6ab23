----------------------------- MODULE CvdServer -----------------------------
(***************************************************************************)
(* The server process of the cvd tool (host/commands/cvd/server.cc):       *)
(* worker threads take events out of one epoll instance, whose callbacks   *)
(* fire once and are registered again by the one who handled the event; a  *)
(* request runs a handler that a client's departure or a Stop of the       *)
(* server interrupts; `cvd restart-server' replaces the process and keeps  *)
(* its client.                                                             *)
(***************************************************************************)
EXTENDS Integers, FiniteSets

CONSTANTS Clients, N,    \* N = kNumThreads
          MaxRequests,   \* bound on the requests of one client
          AcceptMayFail  \* accept() may fail, as it does without descriptors

Threads == 1..N
Fds == Clients \cup {"server"}
NoOne == "nobody"

ASSUME CvdAssumption == /\ N \in Nat \ {0}
                        /\ MaxRequests \in Nat
                        /\ AcceptMayFail \in BOOLEAN
                        /\ "server" \notin Clients /\ NoOne \notin Clients

VARIABLES
  main, at, carry,     \* CvdServerMain, the thread it joins, the client it carries over
  running_, joined, threads_mutex_,
  callbacks_, armed,   \* EpollPool: the callback of a descriptor, the event it waits for
  wakeups,             \* eventfds that are ready, by BestEffortWakeup
  pc, fd, ev, taken,   \* a worker: position, its event, the request its Stop has taken
  ongoing_requests_,
  handler, thread_id,  \* OngoingRequest: clients whose request has one set, its thread
  exists,              \* clients whose handler is not destroyed with its injector
  interrupted_, subprocess_, child,  \* CvdGenericCommandHandler, SubprocessWaiter
  conn, left, inbox, req, sent, answered,  \* a client, its connection, what is unread
  failed, twoStops     \* history: requests whose Handle failed, two Stops at once

mainVars == <<main, at, carry>>
stopVars == <<running_, joined, threads_mutex_>>
epollVars == <<callbacks_, armed>>
workVars == <<fd, ev, taken>>
reqVars == <<ongoing_requests_, handler, thread_id, exists>>
cmdVars == <<interrupted_, subprocess_, child>>
clientVars == <<conn, left, inbox, req, sent, answered>>
histVars == <<failed, twoStops>>
vars == <<mainVars, stopVars, epollVars, wakeups, pc, workVars, reqVars, cmdVars,
          clientVars, histVars>>

Kinds == {"command", "shutdown", "restart"}

Up == main \notin {"exited", "aborted"}
Goto(t, p) == pc' = [pc EXCEPT ![t] = p]
\* HandleEvent returns, and with it goes what the worker knew of the event.
EndEvent(t) == /\ Goto(t, "loop")
               /\ fd' = [fd EXCEPT ![t] = "server"] /\ ev' = [ev EXCEPT ![t] = {}]

HandlerPcs == {"Handle", "Wait", "reap"}
StopPcs == {"take", "strike", "lock", "join"}
MessagePcs == HandlerPcs \cup StopPcs \cup
  {"HandleMessage", "register", "Stop", "stopped", "done", "unregister", "error",
   "respond", "reregister", "failed"}
Pcs == MessagePcs \cup {"wait", "event", "loop", "exited", "AcceptClient", "interrupt_cb"}

TypeOK ==
  /\ main \in {"start", "carry", "destroy", "join", "exited", "aborted"}
  /\ at \in 1..(N + 1) /\ carry \in Clients \cup {NoOne}
  /\ running_ \in BOOLEAN /\ joined \subseteq Threads
  /\ threads_mutex_ \in Threads \cup {0}
  /\ callbacks_ \in [Fds -> {"none", "AcceptClient", "HandleMessage", "interrupt_cb"}]
  /\ armed \in [Fds -> {"off", "in", "hup"}]
  /\ wakeups \in Nat
  /\ pc \in [Threads -> Pcs]
  /\ fd \in [Threads -> Fds] /\ ev \in [Threads -> SUBSET {"in", "hup"}]
  /\ taken \in [Threads -> Clients \cup {NoOne}]
  /\ ongoing_requests_ \subseteq Clients
  /\ handler \subseteq Clients /\ exists \subseteq Clients
  /\ thread_id \in [Clients -> Threads]
  /\ interrupted_ \subseteq Clients /\ subprocess_ \subseteq Clients
  /\ child \in [Clients -> {"none", "running", "killed", "zombie", "reaped"}]
  /\ conn \in [Clients -> {"none", "backlog", "open", "dropped"}]
  /\ left \subseteq Clients /\ inbox \subseteq Clients
  /\ req \in [Clients -> Kinds \cup {"none"}]
  /\ sent \in [Clients -> 0..MaxRequests] /\ answered \in [Clients -> 0..MaxRequests]
  /\ failed \subseteq Clients /\ twoStops \in BOOLEAN

Init ==
  /\ main = "start" /\ at = 1 /\ carry = NoOne
  /\ running_ = TRUE /\ joined = {} /\ threads_mutex_ = 0
  /\ callbacks_ = [f \in Fds |-> "none"] /\ armed = [f \in Fds |-> "off"]
  /\ wakeups = 0
  /\ pc = [t \in Threads |-> "loop"]
  /\ fd = [t \in Threads |-> "server"] /\ ev = [t \in Threads |-> {}]
  /\ taken = [t \in Threads |-> NoOne]
  /\ ongoing_requests_ = {}
  /\ handler = {} /\ exists = {} /\ thread_id = [c \in Clients |-> 1]
  /\ interrupted_ = {} /\ subprocess_ = {} /\ child = [c \in Clients |-> "none"]
  /\ conn = [c \in Clients |-> "none"] /\ left = {} /\ inbox = {}
  /\ req = [c \in Clients |-> "none"]
  /\ sent = [c \in Clients |-> 0] /\ answered = [c \in Clients |-> 0]
  /\ failed = {} /\ twoStops = FALSE

----------------------------------------------------------------------------
(* Clients.  One sends a request, waits for the response and may send       *)
(* another; it may leave at any time.                                       *)

Connect(c) ==
  /\ Up /\ conn[c] = "none"
  /\ conn' = [conn EXCEPT ![c] = "backlog"]
  /\ UNCHANGED <<mainVars, stopVars, epollVars, wakeups, pc, workVars, reqVars, cmdVars,
                 left, inbox, req, sent, answered, histVars>>

Send(c) ==
  /\ Up /\ conn[c] \in {"backlog", "open"} /\ c \notin left
  /\ sent[c] = answered[c] /\ sent[c] < MaxRequests
  /\ \E k \in Kinds : req' = [req EXCEPT ![c] = k]
  /\ inbox' = inbox \cup {c}
  /\ sent' = [sent EXCEPT ![c] = @ + 1]
  /\ UNCHANGED <<mainVars, stopVars, epollVars, wakeups, pc, workVars, reqVars, cmdVars,
                 conn, left, answered, histVars>>

Leave(c) ==
  /\ Up /\ conn[c] \in {"backlog", "open"} /\ c \notin left
  /\ left' = left \cup {c}
  /\ UNCHANGED <<mainVars, stopVars, epollVars, wakeups, pc, workVars, reqVars, cmdVars,
                 conn, inbox, req, sent, answered, histVars>>

----------------------------------------------------------------------------
(* EpollPool.  A registration is good for one event (EPOLLONESHOT); a hangup *)
(* is delivered whatever was asked for.  The epoll instance is the kernel's. *)

Ready(f) ==
  IF f = "server" THEN {e \in {"in"} : \E c \in Clients : conn[c] = "backlog"}
  ELSE {e \in {"in", "hup"} : f \in left \/ (e = "in" /\ f \in inbox)}

Delivered(f) == IF armed[f] = "off" THEN {} ELSE Ready(f) \cap {armed[f], "hup"}

\* Register returns an error when the descriptor has a callback.
CanRegister(f) == callbacks_[f] = "none"
Register(f, mask, callback) ==
  /\ callbacks_' = [callbacks_ EXCEPT ![f] = callback]
  /\ armed' = [armed EXCEPT ![f] = mask]

\* The last reference to a client's descriptor goes, and the connection with it.
Drop(c) == /\ conn' = [conn EXCEPT ![c] = "dropped"]
           /\ left' = left \cup {c}
           /\ inbox' = inbox \ {c} /\ req' = [req EXCEPT ![c] = "none"]

Remove(f) ==
  /\ callbacks_' = [callbacks_ EXCEPT ![f] = "none"]
  /\ armed' = [armed EXCEPT ![f] = "off"]

\* epoll_wait() and the lookup of the SharedFD under its lock are one step.  In the
\* code the descriptor may be closed between the two, and its number may already be
\* that of a new client, which then gets the hangup of the old one; a connection of
\* the model keeps its identity.
EpollWait(t) ==
  /\ Up /\ pc[t] = "wait"
  /\ \E f \in Fds :
       /\ Delivered(f) # {}
       /\ fd' = [fd EXCEPT ![t] = f]
       /\ ev' = [ev EXCEPT ![t] = Delivered(f)]
       /\ armed' = [armed EXCEPT ![f] = "off"]
  /\ Goto(t, "event")
  /\ UNCHANGED <<mainVars, stopVars, callbacks_, wakeups, taken, reqVars, cmdVars,
                 clientVars, histVars>>

\* Mutant: a wake-up that is taken for ready without having been written.
WakeUpUnready(t) ==
  /\ Up /\ pc[t] = "wait"
  /\ wakeups' = wakeups - 1
  /\ Goto(t, "loop")
  /\ UNCHANGED <<mainVars, stopVars, epollVars, workVars, reqVars, cmdVars, clientVars,
                 histVars>>

\* The event of an eventfd, whose callback does nothing.
WakeUp(t) ==
  /\ Up /\ pc[t] = "wait" /\ wakeups > 0
  /\ wakeups' = wakeups - 1
  /\ Goto(t, "loop")
  /\ UNCHANGED <<mainVars, stopVars, epollVars, workVars, reqVars, cmdVars, clientVars,
                 histVars>>

\* The rest of HandleEvent: another thread may have removed or replaced the
\* callback since the event was delivered.
TakeCallback(t) ==
  /\ Up /\ pc[t] = "event"
  /\ IF callbacks_[fd[t]] = "none"
       THEN EndEvent(t)
       ELSE Goto(t, callbacks_[fd[t]]) /\ UNCHANGED <<fd, ev>>
  /\ callbacks_' = [callbacks_ EXCEPT ![fd[t]] = "none"]
  /\ UNCHANGED <<mainVars, stopVars, armed, wakeups, taken, reqVars, cmdVars,
                 clientVars, histVars>>

\* Mutant: a worker that exits wakes up nobody.
LoopNoCascade(t) ==
  /\ Up /\ pc[t] = "loop"
  /\ Goto(t, IF running_ THEN "wait" ELSE "exited")
  /\ UNCHANGED <<mainVars, stopVars, epollVars, wakeups, workVars, reqVars, cmdVars,
                 clientVars, histVars>>

\* The loop of a worker thread.
Loop(t) ==
  /\ Up /\ pc[t] = "loop"
  /\ Goto(t, IF running_ THEN "wait" ELSE "exited")
  /\ wakeups' = wakeups + IF running_ THEN 0 ELSE 1
  /\ UNCHANGED <<mainVars, stopVars, epollVars, workVars, reqVars, cmdVars, clientVars,
                 histVars>>

----------------------------------------------------------------------------
(* CvdServer::AcceptClient, HandleMessage and HandleRequest.                *)

\* Mutant: the server's descriptor is not registered again.
AcceptOnce(t) ==
  /\ Up /\ pc[t] = "AcceptClient"
  /\ \E c \in Clients :
       /\ conn[c] = "backlog"
       /\ conn' = [conn EXCEPT ![c] = "open"]
       /\ Register(c, "in", "HandleMessage")
  /\ EndEvent(t)
  /\ UNCHANGED <<mainVars, stopVars, wakeups, taken, reqVars, cmdVars, left, inbox, req,
                 sent, answered, histVars>>

\* The accepted client and then the server's own descriptor are registered.
AcceptClient(t) ==
  /\ Up /\ pc[t] = "AcceptClient"
  /\ \E c \in Clients :
       /\ conn[c] = "backlog"
       /\ conn' = [conn EXCEPT ![c] = "open"]
       /\ callbacks_' = [callbacks_ EXCEPT ![c] = "HandleMessage", !["server"] = "AcceptClient"]
       /\ armed' = [armed EXCEPT ![c] = "in", !["server"] = "in"]
  /\ EndEvent(t)
  /\ UNCHANGED <<mainVars, stopVars, wakeups, taken, reqVars, cmdVars, left, inbox, req,
                 sent, answered, histVars>>

\* stop_on_failure: a server that cannot accept stops.
AcceptFails(t) ==
  /\ Up /\ pc[t] = "AcceptClient" /\ AcceptMayFail
  /\ Goto(t, "Stop")
  /\ UNCHANGED <<mainVars, stopVars, epollVars, wakeups, workVars, reqVars, cmdVars,
                 clientVars, histVars>>

\* abandon_client: the client has hung up, or its message cannot be read.
AbandonClient(t) ==
  /\ Up /\ pc[t] = "HandleMessage"
  /\ Remove(fd[t])
  /\ Drop(fd[t])
  /\ EndEvent(t)
  /\ UNCHANGED <<mainVars, stopVars, wakeups, taken, reqVars, cmdVars, sent,
                 answered, histVars>>

\* GetRequest, the checks of HandleRequest, and the insertion into
\* ongoing_requests_; a request that comes with a Stop is answered by an empty
\* response.
HandleMessage(t) ==
  /\ Up /\ pc[t] = "HandleMessage" /\ "hup" \notin ev[t]
  /\ inbox' = inbox \ {fd[t]}
  /\ IF running_
       THEN /\ ongoing_requests_' = ongoing_requests_ \cup {fd[t]}
            /\ handler' = handler \cup {fd[t]}
            /\ exists' = exists \cup {fd[t]}
            /\ thread_id' = [thread_id EXCEPT ![fd[t]] = t]
            /\ Goto(t, "register")
       ELSE Goto(t, "respond") /\ UNCHANGED reqVars
  /\ UNCHANGED <<mainVars, stopVars, epollVars, wakeups, workVars, cmdVars, conn, left, req,
                 sent, answered, histVars>>

\* VerifyUser, ConvertDirPathToAbsolute or RequestHandler refuses the request.
RefuseRequest(t) ==
  /\ Up /\ pc[t] = "HandleMessage" /\ "hup" \notin ev[t]
  /\ inbox' = inbox \ {fd[t]}
  /\ Goto(t, "failed")
  /\ UNCHANGED <<mainVars, stopVars, epollVars, wakeups, workVars, reqVars, cmdVars, conn,
                 left, req, sent, answered, histVars>>

\* Mutant: the next message is listened for while the request is handled.
RegisterEarly(t) ==
  /\ Up /\ pc[t] = "register"
  /\ Register(fd[t], "in", "HandleMessage") /\ Goto(t, "Handle")
  /\ UNCHANGED <<mainVars, stopVars, wakeups, workVars, reqVars, cmdVars, clientVars,
                 histVars>>

RegisterInterrupt(t) ==
  /\ Up /\ pc[t] = "register"
  /\ IF CanRegister(fd[t])
       THEN Register(fd[t], "hup", "interrupt_cb") /\ Goto(t, "Handle")
       ELSE Goto(t, "error") /\ UNCHANGED epollVars
  /\ UNCHANGED <<mainVars, stopVars, wakeups, workVars, reqVars, cmdVars, clientVars,
                 histVars>>

\* Mutant: the struct keeps the handler after a successful Handle too.
HandlerKept(t) ==
  /\ Up /\ pc[t] = "done"
  /\ Goto(t, "unregister")
  /\ UNCHANGED <<mainVars, stopVars, epollVars, wakeups, workVars, reqVars, cmdVars,
                 clientVars, histVars>>

\* The handler is cleared while it still exists ...
ClearHandler(t) ==
  /\ Up /\ pc[t] = "done"
  /\ handler' = handler \ {fd[t]}
  /\ Goto(t, "unregister")
  /\ UNCHANGED <<mainVars, stopVars, epollVars, wakeups, workVars, ongoing_requests_,
                 thread_id, exists, cmdVars, clientVars, histVars>>

\* The injector of a request is destroyed, with the handler and the waiter.
DestroyHandler(c) ==
  /\ exists' = exists \ {c}
  /\ interrupted_' = interrupted_ \ {c}
  /\ subprocess_' = subprocess_ \ {c}
  /\ child' = [child EXCEPT ![c] = "none"]

\* ... then the interrupt callback is removed, and the return of HandleRequest
\* takes the request out of ongoing_requests_ and destroys the handler.
ReturnResponse(t) ==
  /\ Up /\ pc[t] = "unregister"
  /\ Remove(fd[t])
  /\ ongoing_requests_' = ongoing_requests_ \ {fd[t]}
  /\ DestroyHandler(fd[t])
  /\ Goto(t, "respond")
  /\ UNCHANGED <<mainVars, stopVars, wakeups, workVars, handler, thread_id,
                 clientVars, histVars>>

\* An error of Handle returns at once: the handler is destroyed, the shared
\* struct and the interrupt callback keep its address.
ReturnError(t) ==
  /\ Up /\ pc[t] = "error"
  /\ ongoing_requests_' = ongoing_requests_ \ {fd[t]}
  /\ DestroyHandler(fd[t])
  /\ failed' = failed \cup {fd[t]}
  /\ Goto(t, "failed")
  /\ UNCHANGED <<mainVars, stopVars, epollVars, wakeups, workVars, handler, thread_id,
                 clientVars, twoStops>>

\* SendResponse fails when the client has left, which abandons it.
SendResponse(t) ==
  /\ Up /\ pc[t] = "respond"
  /\ IF fd[t] \in left
       THEN /\ Remove(fd[t])
            /\ Drop(fd[t])
            /\ EndEvent(t)
            /\ UNCHANGED answered
       ELSE /\ answered' = [answered EXCEPT ![fd[t]] = @ + 1]
            /\ Goto(t, "reregister")
            /\ req' = [req EXCEPT ![fd[t]] = "none"]
            /\ UNCHANGED <<epollVars, conn, left, inbox, fd, ev>>
  /\ UNCHANGED <<mainVars, stopVars, wakeups, taken, reqVars, cmdVars, sent, histVars>>

Reregister(t) ==
  /\ Up /\ pc[t] = "reregister"
  /\ IF CanRegister(fd[t])
       THEN Register(fd[t], "in", "HandleMessage") /\ UNCHANGED <<conn, left, inbox, req>>
       ELSE Remove(fd[t]) /\ Drop(fd[t])
  /\ EndEvent(t)
  /\ UNCHANGED <<mainVars, stopVars, wakeups, taken, reqVars, cmdVars, sent, answered, histVars>>

\* The failure is sent, if it can be, and the client abandoned.
SendFailure(t) ==
  /\ Up /\ pc[t] = "failed"
  /\ answered' = [answered EXCEPT ![fd[t]] = @ + IF fd[t] \in left THEN 0 ELSE 1]
  /\ Remove(fd[t])
  /\ Drop(fd[t])
  /\ EndEvent(t)
  /\ UNCHANGED <<mainVars, stopVars, wakeups, taken, reqVars, cmdVars, sent, histVars>>

----------------------------------------------------------------------------
(* Handlers: a command that runs a subprocess (CvdGenericCommandHandler),    *)
(* shutdown and restart-server, which stop the server.                       *)

\* The handler holds interruptible_ until the subprocess is in the waiter, so
\* that an interrupt comes before all of this or after it.  A client may ask
\* for the command to be started only.
StartCommand(t) ==
  /\ Up /\ pc[t] = "Handle" /\ req[fd[t]] = "command" /\ fd[t] \notin interrupted_
  /\ subprocess_' = subprocess_ \cup {fd[t]}
  /\ child' = [child EXCEPT ![fd[t]] = "running"]
  /\ \E p \in {"Wait", "done"} : Goto(t, p)
  /\ UNCHANGED <<mainVars, stopVars, epollVars, wakeups, workVars, reqVars, interrupted_,
                 clientVars, histVars>>

\* Interrupted, or one of the conditions of the handler fails: with an error, or
\* with a response that says so.
HandleEndsEarly(t) ==
  /\ Up /\ pc[t] = "Handle"
  /\ \E p \in {"error", "done"} : (fd[t] \in interrupted_ => p = "error") /\ Goto(t, p)
  /\ UNCHANGED <<mainVars, stopVars, epollVars, wakeups, workVars, reqVars, cmdVars,
                 clientVars, histVars>>

\* A shutdown without tracked devices, a restart with valid arguments.
StopServer(t) ==
  /\ Up /\ pc[t] = "Handle" /\ req[fd[t]] \in {"shutdown", "restart"}
  /\ Goto(t, "Stop")
  /\ UNCHANGED <<mainVars, stopVars, epollVars, wakeups, workVars, reqVars, cmdVars,
                 clientVars, histVars>>

ChildExits(c) ==
  /\ Up /\ child[c] \in {"running", "killed"}
  /\ child' = [child EXCEPT ![c] = "zombie"]
  /\ UNCHANGED <<mainVars, stopVars, epollVars, wakeups, pc, workVars, reqVars,
                 interrupted_, subprocess_, clientVars, histVars>>

\* SubprocessWaiter::Wait: waitid with WNOWAIT, without the lock ...
WaitReturns(t) ==
  /\ Up /\ pc[t] = "Wait" /\ child[fd[t]] = "zombie"
  /\ Goto(t, "reap")
  /\ UNCHANGED <<mainVars, stopVars, epollVars, wakeups, workVars, reqVars, cmdVars,
                 clientVars, histVars>>

\* ... and the wait that reaps, under the lock.
Reap(t) ==
  /\ Up /\ pc[t] = "reap"
  /\ child' = [child EXCEPT ![fd[t]] = "reaped"]
  /\ subprocess_' = subprocess_ \ {fd[t]}
  /\ Goto(t, "done")
  /\ UNCHANGED <<mainVars, stopVars, epollVars, wakeups, workVars, reqVars, interrupted_,
                 clientVars, histVars>>

----------------------------------------------------------------------------
(* Interrupts.                                                              *)

\* handler->Interrupt(): a command's handler kills its subprocess, those that
\* stop the server cannot be interrupted.  What a destroyed handler does is
\* undefined: nothing here, the end of the process in InterruptDestroyed.
Interrupt(c) ==
  IF c \in handler \cap exists /\ req[c] = "command"
    THEN /\ interrupted_' = interrupted_ \cup {c}
         /\ child' = [child EXCEPT ![c] =
                         IF c \in subprocess_ /\ @ = "running" THEN "killed" ELSE @]
         /\ UNCHANGED subprocess_
    ELSE UNCHANGED cmdVars

\* The client of a request has left.
interrupt_cb(t) ==
  /\ Up /\ pc[t] = "interrupt_cb"
  /\ Interrupt(fd[t])
  /\ EndEvent(t)
  /\ UNCHANGED <<mainVars, stopVars, epollVars, wakeups, taken, reqVars, clientVars,
                 histVars>>

\* The request that worker t is about to interrupt.
Target(t) == CASE pc[t] = "interrupt_cb" -> fd[t]
               [] pc[t] = "strike" -> taken[t]
               [] OTHER -> NoOne

InterruptDestroyed(t) ==
  /\ Up /\ Target(t) \in handler \ exists
  /\ main' = "aborted"
  /\ UNCHANGED <<at, carry, stopVars, epollVars, wakeups, pc, workVars, reqVars, cmdVars,
                 clientVars, histVars>>

----------------------------------------------------------------------------
(* CvdServer::Stop.                                                         *)

Stop(t) ==
  /\ Up /\ pc[t] = "Stop"
  /\ running_' = FALSE
  /\ twoStops' = (twoStops \/ \E u \in Threads : pc[u] \in StopPcs)
  /\ Goto(t, "take")
  /\ UNCHANGED <<mainVars, joined, threads_mutex_, epollVars, wakeups, workVars, reqVars,
                 cmdVars, clientVars, failed>>

TakeRequest(t) ==
  /\ Up /\ pc[t] = "take"
  /\ \E c \in ongoing_requests_ :
       /\ taken' = [taken EXCEPT ![t] = c]
       /\ ongoing_requests_' = ongoing_requests_ \ {c}
  /\ Goto(t, "strike")
  /\ UNCHANGED <<mainVars, stopVars, epollVars, wakeups, fd, ev, handler, thread_id, exists,
                 cmdVars, clientVars, histVars>>

NoneLeft(t) ==
  /\ Up /\ pc[t] = "take" /\ ongoing_requests_ = {}
  /\ Goto(t, "stopped")
  /\ UNCHANGED <<mainVars, stopVars, epollVars, wakeups, workVars, reqVars, cmdVars,
                 clientVars, histVars>>

\* A request whose handler is cleared is left alone; any other is interrupted
\* and a worker woken up.
InterruptTaken(t) ==
  /\ Up /\ pc[t] = "strike"
  /\ Interrupt(taken[t])
  /\ wakeups' = wakeups + IF taken[t] \in handler THEN 1 ELSE 0
  /\ Goto(t, IF taken[t] \in handler THEN "lock" ELSE "take")
  /\ UNCHANGED <<mainVars, stopVars, epollVars, workVars, reqVars, clientVars, histVars>>

\* Mutant: Stop does not wait for the threads of the requests.
LockNoJoin(t) ==
  /\ Up /\ pc[t] = "lock" /\ threads_mutex_ = 0
  /\ Goto(t, "take")
  /\ UNCHANGED <<mainVars, stopVars, epollVars, wakeups, workVars, reqVars, cmdVars,
                 clientVars, histVars>>

\* threads_mutex_ is taken, and the request's thread joined if it is another
\* one that has not been joined.
LockThreads(t) ==
  /\ Up /\ pc[t] = "lock" /\ threads_mutex_ = 0
  /\ IF thread_id[taken[t]] \in joined \cup {t}
       THEN Goto(t, "take") /\ UNCHANGED threads_mutex_
       ELSE Goto(t, "join") /\ threads_mutex_' = t
  /\ UNCHANGED <<mainVars, running_, joined, epollVars, wakeups, workVars, reqVars, cmdVars,
                 clientVars, histVars>>

JoinReturns(t) ==
  /\ Up /\ pc[t] = "join" /\ pc[thread_id[taken[t]]] = "exited"
  /\ joined' = joined \cup {thread_id[taken[t]]}
  /\ threads_mutex_' = 0
  /\ Goto(t, "take")
  /\ UNCHANGED <<mainVars, running_, epollVars, wakeups, workVars, reqVars, cmdVars,
                 clientVars, histVars>>

\* Stop returns to AcceptClient, to the handler of a shutdown, or to that of a
\* restart which fails to execute the new server.
StopReturns(t) ==
  /\ Up /\ pc[t] = "stopped"
  /\ Goto(t, CASE fd[t] = "server" -> "loop"
               [] fd[t] # "server" /\ req[fd[t]] = "shutdown" -> "done"
               [] OTHER -> "error")
  /\ UNCHANGED <<mainVars, stopVars, epollVars, wakeups, workVars, reqVars, cmdVars,
                 clientVars, histVars>>

\* Exec, whose own Stop finds nothing left to do, and fexecve: a new process
\* that has the server's socket and the client.
Exec(t) ==
  /\ Up /\ pc[t] = "stopped" /\ fd[t] # "server" /\ req[fd[t]] = "restart"
  /\ main' = "start" /\ at' = 1 /\ carry' = fd[t]
  /\ running_' = TRUE /\ joined' = {} /\ threads_mutex_' = 0
  /\ callbacks_' = [f \in Fds |-> "none"] /\ armed' = [f \in Fds |-> "off"]
  /\ wakeups' = 0
  /\ pc' = [u \in Threads |-> "loop"]
  /\ fd' = [u \in Threads |-> "server"] /\ ev' = [u \in Threads |-> {}]
  /\ taken' = [u \in Threads |-> NoOne]
  /\ ongoing_requests_' = {}
  /\ handler' = {} /\ exists' = {} /\ thread_id' = [c \in Clients |-> 1]
  /\ interrupted_' = {} /\ subprocess_' = {} /\ child' = [c \in Clients |-> "none"]
  /\ LET cut == {c \in Clients \ {fd[t]} : conn[c] = "open"}
     IN /\ conn' = [c \in Clients |-> IF c \in cut THEN "dropped" ELSE conn[c]]
        /\ left' = left \cup cut
        /\ inbox' = inbox \ cut
        /\ req' = [c \in Clients |-> IF c \in cut \cup {fd[t]} THEN "none" ELSE req[c]]
  /\ UNCHANGED <<sent, answered, histVars>>

----------------------------------------------------------------------------
(* CvdServerMain, after the constructor has started the workers.            *)

StartServer ==
  /\ main = "start"
  /\ Register("server", "in", "AcceptClient")
  /\ main' = IF carry = NoOne THEN "join" ELSE "carry"
  /\ UNCHANGED <<at, carry, stopVars, wakeups, pc, workVars, reqVars, cmdVars, clientVars,
                 histVars>>

\* The new process answers the client of the restart; when it cannot,
\* CvdServerMain returns the error.
AcceptCarryoverClient ==
  /\ main = "carry"
  /\ Register(carry, "in", "HandleMessage")
  /\ main' = IF carry \in left THEN "destroy" ELSE "join"
  /\ answered' = [answered EXCEPT ![carry] = @ + IF carry \in left THEN 0 ELSE 1]
  /\ UNCHANGED <<at, carry, stopVars, wakeups, pc, workVars, reqVars, cmdVars, conn, left,
                 inbox, req, sent, histVars>>

\* ~CvdServer
DestroyServer ==
  /\ main = "destroy"
  /\ running_' = FALSE
  /\ wakeups' = wakeups + 1
  /\ main' = "join"
  /\ UNCHANGED <<at, carry, joined, threads_mutex_, epollVars, pc, workVars, reqVars,
                 cmdVars, clientVars, histVars>>

Join ==
  /\ main = "join"
  /\ IF at > N
       THEN main' = "exited" /\ UNCHANGED <<at, joined>>
       ELSE /\ at \in joined \/ pc[at] = "exited"
            /\ joined' = joined \cup {at} /\ at' = at + 1 /\ UNCHANGED main
  /\ UNCHANGED <<carry, running_, threads_mutex_, epollVars, wakeups, pc, workVars, reqVars,
                 cmdVars, clientVars, histVars>>

\* Two threads that join the same thread: undefined.  Both may return when it
\* exits, or one call fails, which ends the process.
DoubleJoin(t) ==
  /\ main = "join" /\ pc[t] = "join"
  /\ thread_id[taken[t]] = at /\ pc[at] # "exited"
  /\ main' = "aborted"
  /\ UNCHANGED <<at, carry, stopVars, epollVars, wakeups, pc, workVars, reqVars, cmdVars,
                 clientVars, histVars>>

----------------------------------------------------------------------------
WorkerStep(t) ==
  \/ EpollWait(t) \/ WakeUp(t) \/ TakeCallback(t) \/ Loop(t)
  \/ AcceptClient(t) \/ AcceptFails(t) \/ AbandonClient(t) \/ HandleMessage(t) \/ RefuseRequest(t)
  \/ RegisterInterrupt(t) \/ ClearHandler(t) \/ ReturnResponse(t) \/ ReturnError(t)
  \/ SendResponse(t) \/ Reregister(t) \/ SendFailure(t)
  \/ StartCommand(t) \/ HandleEndsEarly(t) \/ StopServer(t) \/ WaitReturns(t) \/ Reap(t)
  \/ interrupt_cb(t)
  \/ Stop(t) \/ TakeRequest(t) \/ NoneLeft(t) \/ InterruptTaken(t) \/ LockThreads(t)
  \/ JoinReturns(t) \/ StopReturns(t) \/ Exec(t)

MainStep == StartServer \/ AcceptCarryoverClient \/ DestroyServer \/ Join

Next ==
  \/ \E t \in Threads : WorkerStep(t) \/ InterruptDestroyed(t) \/ DoubleJoin(t)
  \/ MainStep
  \/ \E c \in Clients : Connect(c) \/ Send(c) \/ Leave(c) \/ ChildExits(c)

Spec == Init /\ [][Next]_vars

\* Threads that can run do; a killed subprocess exits.  Nobody has to connect,
\* send or leave, and a command may run for ever.
FairSpec ==
  /\ Spec
  /\ \A t \in Threads : WF_vars(WorkerStep(t))
  /\ WF_vars(MainStep)
  /\ \A c \in Clients : WF_vars(child[c] = "killed" /\ ChildExits(c))

----------------------------------------------------------------------------
(* Properties.                                                              *)

\* One-shot registrations keep a client's messages with one worker: no two
\* workers are in HandleMessage of the same client, although its descriptor is
\* registered twice per request and events may be delivered late.
OneWorkerPerClient ==
  \A t, u \in Threads :
    (t # u /\ fd[t] = fd[u] /\ fd[t] \in Clients)
      => ~(pc[t] \in MessagePcs /\ pc[u] \in MessagePcs)

\* Whoever is about to interrupt a request, the callback of a client that left
\* or a Stop, finds its handler cleared or alive, unless Handle failed; and the
\* waiter gives up a subprocess no later than its pid is freed, so that the
\* signal of an interrupt cannot reach another process.
NoStaleInterrupt ==
  /\ \A t \in Threads : Target(t) \in handler => Target(t) \in exists \cup failed
  /\ \A c \in Clients : c \in subprocess_ => child[c] # "reaped"

\* When Stop returns no other request is in its handler, so that the new server
\* of a restart does not replace a process that is still at work, except if two
\* threads called Stop at the same time.
StopLeavesNoHandler ==
  \A t, u \in Threads :
    (pc[t] = "stopped" /\ t # u /\ ~twoStops) => pc[u] \notin HandlerPcs

\* Once a worker has called Stop the process ends, or is replaced: interrupted
\* requests end, idle workers are woken up one by another, and nobody joins a
\* thread that waits for them.  Two Stops at once may join one another.
StopEndsServer ==
  (\E t \in Threads : pc[t] = "take") ~> (~Up \/ running_ \/ twoStops)

\* What a client is owed: its request is taken up, and when it leaves, the
\* handler at work for it ends.
Owed(c) ==
  \/ c \in inbox /\ c \notin left /\ conn[c] \in {"backlog", "open"}
  \/ c \in left /\ \E t \in Threads : fd[t] = c /\ pc[t] \in HandlerPcs

AllBusy == \A t \in Threads : pc[t] \in {"Wait", "lock", "join", "exited"}

\* No event is lost between the callback that fires and the one registered
\* next: requests are taken up and departures interrupt handlers, unless all
\* workers are busy with requests of their own.
ClientIsHeeded == \A c \in Clients : Owed(c) ~> (~Owed(c) \/ AllBusy \/ ~Up)
=============================================================================
