---------------------------- MODULE CvdStepProofs ---------------------------
(***************************************************************************)
(* The inductive invariant of CvdServer. The steps that disturb none of    *)
(* its conjuncts keep it, and so do the steps that take up a client or a   *)
(* request (AcceptClient, the callbacks, HandleMessage, HandleRequest),    *)
(* those that let go of it, and those of Stop.                             *)
(***************************************************************************)
EXTENDS CvdServer, TLAPS

(* What the steps below need of TypeOK; the counters of requests are not part *)
(* of it.                                                                     *)
Callbacks == {"none", "AcceptClient", "HandleMessage", "interrupt_cb"}

WorkerTyped ==
  /\ pc \in [Threads -> Pcs]
  /\ fd \in [Threads -> Fds]
  /\ taken \in [Threads -> Clients \cup {NoOne}]

StateTyped ==
  /\ carry \in Clients \cup {NoOne}
  /\ callbacks_ \in [Fds -> Callbacks]
  /\ ongoing_requests_ \subseteq Clients /\ handler \subseteq Clients
  /\ child \in [Clients -> {"none", "running", "killed", "zombie", "reaped"}]
  /\ thread_id \in [Clients -> Threads]
  /\ conn \in [Clients -> {"none", "backlog", "open", "dropped"}]

Typed == WorkerTyped /\ StateTyped

\* Positions that belong to a message of a client, whoever called Stop aside.
ClientPcs == MessagePcs \ (StopPcs \cup {"Stop", "stopped"})

InMessage(t, c) == fd[t] = c /\ pc[t] \in MessagePcs

\* Who works for which descriptor.
FdInv ==
  /\ callbacks_["server"] \in {"none", "AcceptClient"}
  /\ \A c \in Clients : callbacks_[c] # "AcceptClient"
  /\ \A t \in Threads : pc[t] = "AcceptClient" => fd[t] = "server"
  /\ \A t \in Threads : pc[t] \in ClientPcs \cup {"interrupt_cb"} => fd[t] \in Clients

\* A client whose message is in the hands of a worker is not listened to for
\* another one; a client that is not accepted, or not yet carried over, has
\* neither callback nor worker.
Idle(c) == callbacks_[c] = "none" /\ \A t \in Threads : ~InMessage(t, c)
TokenInv ==
  /\ \A t \in Threads, c \in Clients : InMessage(t, c) => callbacks_[c] # "HandleMessage"
  /\ \A c \in Clients : conn[c] \in {"none", "backlog"} => Idle(c)
  /\ (main \in {"start", "carry"} /\ carry # NoOne)
       => Idle(carry) /\ conn[carry] \notin {"none", "backlog"}
  /\ OneWorkerPerClient

\* A cleared handler is never set again by somebody else, and it is cleared
\* before it is destroyed.
HandlerInv ==
  /\ handler \subseteq exists \cup failed
  /\ \A t \in Threads : pc[t] = "unregister" => fd[t] \notin handler
  /\ \A c \in Clients : c \in subprocess_ => child[c] # "reaped"

\* From its insertion on a request is in ongoing_requests_ or in the hands of a
\* Stop, until its handler has returned.
RequestPcs == HandlerPcs \cup {"register"}
HoldPcs == {"strike", "lock", "join"}
RequestInv ==
  \A u \in Threads : pc[u] \in RequestPcs =>
    /\ thread_id[fd[u]] = u /\ fd[u] \in handler
    /\ \/ fd[u] \in ongoing_requests_
       \/ \E s \in Threads : pc[s] \in HoldPcs /\ taken[s] = fd[u]

StopInv ==
  /\ \A t \in Threads : pc[t] \in StopPcs \cup {"stopped"} => ~running_
  /\ \A t, u \in Threads : (t # u /\ pc[t] \in StopPcs /\ pc[u] \in StopPcs) => twoStops
  /\ \A t \in Threads : t \in joined => pc[t] = "exited"
  /\ \A t, u \in Threads :
       (pc[t] = "stopped" /\ t # u /\ ~twoStops) => pc[u] \notin RequestPcs

IInv == Typed /\ FdInv /\ TokenInv /\ HandlerInv /\ RequestInv /\ StopInv

----------------------------------------------------------------------------
(* Most steps of a worker neither start nor end a request, take up no message  *)
(* and let go of no request that a Stop has taken: such a step goes to a        *)
(* position p that belongs to no more than the present one ...                  *)
Pass(t, p) ==
  /\ pc' = [pc EXCEPT ![t] = p]
  /\ fd' \in [Threads -> Fds] /\ \A u \in Threads : u # t => fd'[u] = fd[u]
  /\ p \in Pcs \ {"AcceptClient", "interrupt_cb", "stopped", "unregister"} /\ pc[t] # "exited"
  /\ p \in MessagePcs => fd'[t] = fd[t] /\ (pc[t] \in MessagePcs \/ fd[t] = "server")
  /\ p \in ClientPcs => pc[t] \in ClientPcs \/ fd[t] # "server"
  /\ p \in RequestPcs => pc[t] \in RequestPcs
  /\ pc[t] \in HoldPcs => p \in HoldPcs
  /\ p \in StopPcs => pc[t] \in StopPcs

\* ... and leaves the rest as it is, except that callbacks are removed,
\* connections dropped, and subprocesses run.
Quiet ==
  /\ UNCHANGED <<carry, running_, joined, twoStops, taken, ongoing_requests_, handler,
                 thread_id, exists, failed>>
  /\ main' \in {"start", "carry"} => main' = main
  /\ callbacks_' \in [Fds -> Callbacks]
  /\ \A f \in Fds : callbacks_'[f] \in {callbacks_[f], "none"}
  /\ conn' \in [Clients -> {"none", "backlog", "open", "dropped"}]
  /\ \A c \in Clients : conn'[c] \in {"none", "backlog"} => conn[c] \in {"none", "backlog"}
  /\ child' \in [Clients -> {"none", "running", "killed", "zombie", "reaped"}]
  /\ \A c \in Clients : (c \in subprocess_' /\ child'[c] = "reaped")
                          => (c \in subprocess_ /\ child[c] = "reaped")

----------------------------------------------------------------------------
(* What a step must leave alone to keep a conjunct of IInv. *)

LEMMA FdKept ==
  ASSUME FdInv,
         \A f \in Fds : callbacks_'[f] \in {callbacks_[f], "none"},
         \A u \in Threads : pc'[u] = "AcceptClient" => pc[u] = "AcceptClient" /\ fd'[u] = fd[u],
         \A u \in Threads : pc'[u] \in ClientPcs \cup {"interrupt_cb"}
                              => \/ pc[u] \in ClientPcs \cup {"interrupt_cb"} /\ fd'[u] = fd[u]
                                 \/ fd'[u] \in Clients
  PROVE  FdInv'
BY DEF FdInv, Fds

\* Nobody takes up a message and nobody is registered.
LEMMA TokenKept ==
  ASSUME TokenInv, carry \in Clients \cup {NoOne},
         \A u \in Threads : (pc'[u] \in MessagePcs /\ fd'[u] \in Clients)
                              => pc[u] \in MessagePcs /\ fd'[u] = fd[u],
         \A c \in Clients : callbacks_'[c] \in {callbacks_[c], "none"},
         \A c \in Clients : conn'[c] \in {"none", "backlog"} => conn[c] \in {"none", "backlog"},
         main' \in {"start", "carry"} => main \in {"start", "carry"},
         carry' = carry
  PROVE  TokenInv'
BY DEF TokenInv, Idle, InMessage, OneWorkerPerClient

LEMMA HandlerStays ==
  ASSUME HandlerInv, handler' = handler, exists' = exists, failed' = failed,
         \A u \in Threads : pc'[u] = "unregister" => pc[u] = "unregister" /\ fd'[u] = fd[u],
         \A c \in Clients : (c \in subprocess_' /\ child'[c] = "reaped")
                              => (c \in subprocess_ /\ child[c] = "reaped")
  PROVE  HandlerInv'
BY DEF HandlerInv

\* No request starts and none is let go of.
LEMMA RequestKept ==
  ASSUME RequestInv,
         \A u \in Threads : pc'[u] \in RequestPcs => pc[u] \in RequestPcs /\ fd'[u] = fd[u],
         \A s \in Threads : pc[s] \in HoldPcs => pc'[s] \in HoldPcs /\ taken'[s] = taken[s],
         thread_id' = thread_id, handler' = handler,
         ongoing_requests_' = ongoing_requests_
  PROVE  RequestInv'
BY DEF RequestInv

\* Nobody calls Stop or returns from it, and no request starts.
LEMMA StopKept ==
  ASSUME StopInv,
         \A u \in Threads : pc'[u] \in StopPcs => pc[u] \in StopPcs,
         \A u \in Threads : pc'[u] = "stopped" => pc[u] = "stopped",
         \A u \in Threads : pc'[u] \in RequestPcs => pc[u] \in RequestPcs,
         \A u \in Threads : pc[u] = "exited" => pc'[u] = "exited",
         joined' = joined, running_' = running_, twoStops' = twoStops
  PROVE  StopInv'
BY DEF StopInv

\* A worker whose request is over takes it, and no other, out of ongoing_requests_.
LEMMA RequestReturned ==
  ASSUME RequestInv, NEW t \in Threads, pc[t] \notin HoldPcs, pc'[t] \notin RequestPcs,
         \A u \in Threads : u # t => pc'[u] = pc[u] /\ fd'[u] = fd[u],
         \A u \in Threads : (u # t /\ pc[u] \in RequestPcs) => fd[u] # fd[t],
         ongoing_requests_' = ongoing_requests_ \ {fd[t]},
         handler' = handler, thread_id' = thread_id, taken' = taken
  PROVE  RequestInv'
<1> SUFFICES ASSUME NEW u \in Threads, pc'[u] \in RequestPcs
             PROVE  /\ thread_id'[fd'[u]] = u /\ fd'[u] \in handler'
                    /\ \/ fd'[u] \in ongoing_requests_'
                       \/ \E s \in Threads : pc'[s] \in HoldPcs /\ taken'[s] = fd'[u]
  BY Zenon DEF RequestInv
<1>1. u # t /\ pc[u] \in RequestPcs /\ fd'[u] = fd[u]
  OBVIOUS
<1>2. fd[u] # fd[t]
  BY <1>1, Zenon
<1>3. /\ thread_id[fd[u]] = u /\ fd[u] \in handler
      /\ \/ fd[u] \in ongoing_requests_
         \/ \E s \in Threads : pc[s] \in HoldPcs /\ taken[s] = fd[u]
  BY <1>1, Zenon DEF RequestInv
<1>4. CASE fd[u] \in ongoing_requests_
  BY <1>1, <1>2, <1>3, <1>4
<1>5. CASE \E s \in Threads : pc[s] \in HoldPcs /\ taken[s] = fd[u]
  <2>1. PICK s \in Threads : pc[s] \in HoldPcs /\ taken[s] = fd[u]
    BY <1>5, Zenon
  <2>2. pc'[s] \in HoldPcs /\ taken'[s] = fd'[u]
    BY <1>1, <2>1, Zenon
  <2> QED
    BY <1>1, <1>3, <2>2, Zenon
<1> QED
  BY <1>3, <1>4, <1>5, Zenon

\* Steps of main and of clients that are quiet keep IInv.
LEMMA StillKeeps ==
  ASSUME IInv, Quiet, UNCHANGED <<pc, fd>>
  PROVE  IInv'
<1> USE DEF IInv, Quiet, Fds
<1>1. Typed'
  BY DEF Typed, WorkerTyped, StateTyped
<1>2. FdInv'
  BY FdKept
<1>3. TokenInv'
  BY TokenKept DEF Typed, StateTyped
<1>4. HandlerInv'
  BY HandlerStays
<1>5. RequestInv'
  BY RequestKept
<1>6. StopInv'
  BY StopKept
<1> QED
  BY <1>1, <1>2, <1>3, <1>4, <1>5, <1>6

\* RequestPcs are positions of a client's message.
LEMMA RequestMessage ==
  RequestPcs \subseteq MessagePcs
BY DEF RequestPcs, MessagePcs, HandlerPcs

LEMMA PassKeeps ==
  ASSUME IInv, NEW t \in Threads, NEW p, Pass(t, p), Quiet
  PROVE  IInv'
<1> USE CvdAssumption DEF IInv, Fds
<1>1. pc' \in [Threads -> Pcs] /\ pc'[t] = p /\ \A u \in Threads : u # t => pc'[u] = pc[u]
  BY DEF Typed, WorkerTyped, Pass
<1>2. Typed'
  BY <1>1 DEF Typed, WorkerTyped, StateTyped, Pass, Quiet
<1>3. FdInv'
  <2>1. p \in ClientPcs => fd'[t] \in Clients
    <3>1. p \in ClientPcs => fd[t] \in Clients
      BY DEF Pass, FdInv, Typed, WorkerTyped
    <3>2. p \in ClientPcs => fd'[t] = fd[t]
      BY DEF Pass, ClientPcs
    <3> QED
      BY <3>1, <3>2
  <2> QED
    BY <1>1, <2>1, FdKept DEF Pass, Quiet
<1>4. TokenInv'
  BY <1>1, TokenKept DEF Pass, Quiet, Typed, StateTyped
<1>5. HandlerInv'
  BY <1>1, HandlerStays DEF Pass, Quiet
<1>6. RequestInv'
  BY <1>1, RequestKept, RequestMessage DEF Pass, Quiet
<1>7. StopInv'
  BY <1>1, StopKept, ZenonT(30) DEF Pass, Quiet
<1> QED
  BY <1>2, <1>3, <1>4, <1>5, <1>6, <1>7

(* The quiet steps of workers. *)
LEMMA QuietWorker ==
  ASSUME IInv, NEW t \in Threads,
         \/ EpollWait(t)
         \/ WakeUp(t)
         \/ Loop(t) /\ running_
         \/ Loop(t) /\ ~running_
         \/ TakeCallback(t) /\ callbacks_[fd[t]] = "none"
         \/ AcceptFails(t)
         \/ AbandonClient(t)
         \/ HandleMessage(t) /\ ~running_
         \/ RefuseRequest(t)
         \/ RegisterInterrupt(t) /\ ~CanRegister(fd[t])
         \/ SendResponse(t) /\ fd[t] \in left
         \/ SendResponse(t) /\ fd[t] \notin left
         \/ Reregister(t) /\ ~CanRegister(fd[t])
         \/ SendFailure(t)
         \/ StartCommand(t)
         \/ HandleEndsEarly(t)
         \/ StopServer(t)
         \/ WaitReturns(t)
         \/ Reap(t)
         \/ interrupt_cb(t)
         \/ InterruptTaken(t) /\ taken[t] \in handler
         \/ LockThreads(t) /\ thread_id[taken[t]] \notin joined \cup {t}
         \/ StopReturns(t)
  PROVE  IInv'
<1> USE CvdAssumption DEF IInv, Typed, WorkerTyped, StateTyped, Callbacks, Goto, Fds,
      mainVars, stopVars, epollVars, workVars, reqVars, cmdVars, clientVars, histVars
<1>1. CASE EpollWait(t)
  <2>1. Quiet
    BY <1>1, Zenon DEF EpollWait, Quiet
  <2>2. Pass(t, "event")
    BY <1>1 DEF EpollWait, Pass, FdInv, Pcs, MessagePcs, ClientPcs, RequestPcs,
       HoldPcs, StopPcs, HandlerPcs
  <2> QED
    BY <2>1, <2>2, PassKeeps
<1>2. CASE WakeUp(t)
  <2>1. Quiet
    BY <1>2 DEF WakeUp, Quiet
  <2>2. Pass(t, "loop")
    BY <1>2 DEF WakeUp, Pass, FdInv, Pcs, MessagePcs, ClientPcs, RequestPcs, HoldPcs,
       StopPcs, HandlerPcs
  <2> QED
    BY <2>1, <2>2, PassKeeps
<1>3. CASE Loop(t) /\ running_
  <2>1. Quiet
    BY <1>3 DEF Loop, Quiet
  <2>2. Pass(t, "wait")
    BY <1>3 DEF Loop, Pass, FdInv, Pcs, MessagePcs, ClientPcs, RequestPcs, HoldPcs,
       StopPcs, HandlerPcs
  <2> QED
    BY <2>1, <2>2, PassKeeps, Zenon
<1>4. CASE Loop(t) /\ ~running_
  <2>1. Quiet
    BY <1>4, Zenon DEF Loop, Quiet
  <2>2. Pass(t, "exited")
    BY <1>4 DEF Loop, Pass, FdInv, Pcs, MessagePcs, ClientPcs, RequestPcs, HoldPcs,
       StopPcs, HandlerPcs
  <2> QED
    BY <2>1, <2>2, PassKeeps
<1>5. CASE TakeCallback(t) /\ callbacks_[fd[t]] = "none"
  <2>1. Quiet
    BY <1>5 DEF TakeCallback, EndEvent, Quiet
  <2>2. Pass(t, "loop")
    BY <1>5 DEF TakeCallback, EndEvent, Pass, FdInv, Pcs, MessagePcs, ClientPcs,
       RequestPcs, HoldPcs, StopPcs, HandlerPcs
  <2> QED
    BY <2>1, <2>2, PassKeeps
<1>6. CASE AcceptFails(t)
  <2>1. Quiet
    BY <1>6 DEF AcceptFails, Quiet
  <2>2. Pass(t, "Stop")
    BY <1>6 DEF AcceptFails, Pass, FdInv, Pcs, MessagePcs, ClientPcs, RequestPcs,
       HoldPcs, StopPcs, HandlerPcs
  <2> QED
    BY <2>1, <2>2, PassKeeps
<1>7. CASE AbandonClient(t)
  <2>1. Quiet
    BY <1>7, Zenon DEF AbandonClient, Remove, Drop, EndEvent, Quiet
  <2>2. Pass(t, "loop")
    BY <1>7 DEF AbandonClient, Remove, Drop, EndEvent, Pass, FdInv, Pcs, MessagePcs,
       ClientPcs, RequestPcs, HoldPcs, StopPcs, HandlerPcs
  <2> QED
    BY <2>1, <2>2, PassKeeps
<1>8. CASE HandleMessage(t) /\ ~running_
  <2>1. Quiet
    BY <1>8, Zenon DEF HandleMessage, Quiet
  <2>2. Pass(t, "respond")
    BY <1>8, Zenon DEF HandleMessage, Pass, FdInv, Pcs, MessagePcs, ClientPcs, RequestPcs,
       HoldPcs, StopPcs, HandlerPcs
  <2> QED
    BY <2>1, <2>2, PassKeeps
<1>9. CASE RefuseRequest(t)
  <2>1. Quiet
    BY <1>9, ZenonT(30) DEF RefuseRequest, Quiet
  <2>2. Pass(t, "failed")
    BY <1>9 DEF RefuseRequest, Pass, FdInv, Pcs, MessagePcs, ClientPcs, RequestPcs,
       HoldPcs, StopPcs, HandlerPcs
  <2> QED
    BY <2>1, <2>2, PassKeeps, Zenon
<1>10. CASE RegisterInterrupt(t) /\ ~CanRegister(fd[t])
  <2>1. Quiet
    BY <1>10 DEF RegisterInterrupt, Register, CanRegister, Quiet
  <2>2. Pass(t, "error")
    BY <1>10, Zenon DEF RegisterInterrupt, Register, CanRegister, Pass, FdInv, Pcs,
       MessagePcs, ClientPcs, RequestPcs, HoldPcs, StopPcs, HandlerPcs
  <2> QED
    BY <2>1, <2>2, PassKeeps
<1>11. CASE SendResponse(t) /\ fd[t] \in left
  <2>1. Quiet
    BY <1>11 DEF SendResponse, Remove, Drop, EndEvent, Quiet
  <2>2. Pass(t, "loop")
    BY <1>11 DEF SendResponse, Remove, Drop, EndEvent, Pass, FdInv, Pcs, MessagePcs,
       ClientPcs, RequestPcs, HoldPcs, StopPcs, HandlerPcs
  <2> QED
    BY <2>1, <2>2, PassKeeps
<1>12. CASE SendResponse(t) /\ fd[t] \notin left
  <2>1. Quiet
    BY <1>12, Zenon DEF SendResponse, Remove, Drop, EndEvent, Quiet
  <2>2. Pass(t, "reregister")
    BY <1>12, Zenon DEF SendResponse, Remove, Drop, EndEvent, Pass, FdInv, Pcs, MessagePcs,
       ClientPcs, RequestPcs, HoldPcs, StopPcs, HandlerPcs
  <2> QED
    BY <2>1, <2>2, PassKeeps, Zenon
<1>13. CASE Reregister(t) /\ ~CanRegister(fd[t])
  <2>1. Quiet
    BY <1>13, ZenonT(30) DEF Reregister, Register, Remove, Drop, CanRegister, EndEvent, Quiet
  <2>2. Pass(t, "loop")
    BY <1>13, Zenon DEF Reregister, Register, Remove, Drop, CanRegister, EndEvent, Pass,
       FdInv, Pcs, MessagePcs, ClientPcs, RequestPcs, HoldPcs, StopPcs, HandlerPcs
  <2> QED
    BY <2>1, <2>2, PassKeeps
<1>14. CASE SendFailure(t)
  <2>1. Quiet
    BY <1>14, Zenon DEF SendFailure, Remove, Drop, EndEvent, Quiet
  <2>2. Pass(t, "loop")
    BY <1>14 DEF SendFailure, Remove, Drop, EndEvent, Pass, FdInv, Pcs, MessagePcs,
       ClientPcs, RequestPcs, HoldPcs, StopPcs, HandlerPcs
  <2> QED
    BY <2>1, <2>2, PassKeeps
<1>15. CASE StartCommand(t)
  <2>1. Quiet
    BY <1>15, Zenon DEF StartCommand, Quiet
  <2>2. PICK p \in {"Wait", "done"} : pc' = [pc EXCEPT ![t] = p]
    BY <1>15, Zenon DEF StartCommand
  <2>3. Pass(t, p)
    BY <1>15, <2>2 DEF StartCommand, Pass, Pcs, MessagePcs, ClientPcs, RequestPcs,
       HoldPcs, StopPcs, HandlerPcs
  <2> QED
    BY <2>1, <2>3, PassKeeps
<1>16. CASE HandleEndsEarly(t)
  <2>1. Quiet
    BY <1>16 DEF HandleEndsEarly, Quiet
  <2>2. PICK p \in {"error", "done"} : pc' = [pc EXCEPT ![t] = p]
    BY <1>16, Zenon DEF HandleEndsEarly
  <2>3. Pass(t, p)
    BY <1>16, <2>2 DEF HandleEndsEarly, Pass, Pcs, MessagePcs, ClientPcs, RequestPcs,
       HoldPcs, StopPcs, HandlerPcs
  <2> QED
    BY <2>1, <2>3, PassKeeps, Zenon
<1>17. CASE StopServer(t)
  <2>1. Quiet
    BY <1>17 DEF StopServer, Quiet
  <2>2. Pass(t, "Stop")
    BY <1>17 DEF StopServer, Pass, FdInv, Pcs, MessagePcs, ClientPcs, RequestPcs,
       HoldPcs, StopPcs, HandlerPcs
  <2> QED
    BY <2>1, <2>2, PassKeeps
<1>18. CASE WaitReturns(t)
  <2>1. Quiet
    BY <1>18, Zenon DEF WaitReturns, Quiet
  <2>2. Pass(t, "reap")
    BY <1>18 DEF WaitReturns, Pass, FdInv, Pcs, MessagePcs, ClientPcs, RequestPcs,
       HoldPcs, StopPcs, HandlerPcs
  <2> QED
    BY <2>1, <2>2, PassKeeps
<1>19. CASE Reap(t)
  <2>1. Quiet
    BY <1>19, Zenon DEF Reap, Quiet
  <2>2. Pass(t, "done")
    BY <1>19 DEF Reap, Pass, FdInv, Pcs, MessagePcs, ClientPcs, RequestPcs, HoldPcs,
       StopPcs, HandlerPcs
  <2> QED
    BY <2>1, <2>2, PassKeeps, Zenon
<1>20. CASE interrupt_cb(t)
  <2>1. Quiet
    BY <1>20 DEF interrupt_cb, Interrupt, EndEvent, Quiet
  <2>2. Pass(t, "loop")
    BY <1>20, Zenon DEF interrupt_cb, Interrupt, EndEvent, Pass, FdInv, Pcs, MessagePcs,
       ClientPcs, RequestPcs, HoldPcs, StopPcs, HandlerPcs
  <2> QED
    BY <2>1, <2>2, PassKeeps
<1>21. CASE InterruptTaken(t) /\ taken[t] \in handler
  <2>1. Quiet
    BY <1>21, SMTT(20) DEF InterruptTaken, Interrupt, Quiet
  <2>2. Pass(t, "lock")
    BY <1>21, Zenon DEF InterruptTaken, Interrupt, Pass, FdInv, Pcs, MessagePcs, ClientPcs,
       RequestPcs, HoldPcs, StopPcs, HandlerPcs
  <2> QED
    BY <2>1, <2>2, PassKeeps, Zenon
<1>22. CASE LockThreads(t) /\ thread_id[taken[t]] \notin joined \cup {t}
  <2>1. Quiet
    BY <1>22, Zenon DEF LockThreads, Quiet
  <2>2. Pass(t, "join")
    BY <1>22, Zenon DEF LockThreads, Pass, FdInv, Pcs, MessagePcs, ClientPcs, RequestPcs,
       HoldPcs, StopPcs, HandlerPcs
  <2> QED
    BY <2>1, <2>2, PassKeeps, Zenon
<1>23. CASE StopReturns(t)
  <2>1. Quiet
    BY <1>23 DEF StopReturns, Quiet
  <2>2. PICK p \in {"loop", "done", "error"} :
          /\ pc' = [pc EXCEPT ![t] = p] /\ (fd[t] = "server" => p = "loop")
    BY <1>23, Zenon DEF StopReturns
  <2>3. Pass(t, p)
    BY <1>23, <2>2, Zenon DEF StopReturns, Pass, Pcs, MessagePcs, ClientPcs, RequestPcs,
       HoldPcs, StopPcs, HandlerPcs
  <2> QED
    BY <2>1, <2>3, PassKeeps
<1> QED
  BY <1>1, <1>2, <1>3, <1>4, <1>5, <1>6, <1>7, <1>8, <1>9, <1>10, <1>11, <1>12, <1>13,
     <1>14, <1>15, <1>16, <1>17, <1>18, <1>19, <1>20, <1>21, <1>22, <1>23, Zenon

(* The quiet steps of main and of clients. *)
LEMMA QuietOther ==
  ASSUME IInv,
         \/ \E t \in Threads : InterruptDestroyed(t) \/ DoubleJoin(t)
         \/ \E c \in Clients : Connect(c) \/ Send(c) \/ Leave(c) \/ ChildExits(c)
  PROVE  IInv'
<1> USE DEF IInv, Typed, StateTyped, Quiet,
      mainVars, stopVars, epollVars, workVars, reqVars, cmdVars, clientVars, histVars
<1>1. ASSUME NEW t \in Threads, InterruptDestroyed(t) PROVE IInv'
  BY <1>1, StillKeeps, Zenon DEF InterruptDestroyed
<1>2. ASSUME NEW t \in Threads, DoubleJoin(t) PROVE IInv'
  BY <1>2, StillKeeps, Zenon DEF DoubleJoin
<1>3. ASSUME NEW c \in Clients, Connect(c) PROVE IInv'
  BY <1>3, StillKeeps, Zenon DEF Connect
<1>4. ASSUME NEW c \in Clients, Send(c) PROVE IInv'
  BY <1>4, StillKeeps, Zenon DEF Send
<1>5. ASSUME NEW c \in Clients, Leave(c) PROVE IInv'
  BY <1>5, StillKeeps, Zenon DEF Leave
<1>6. ASSUME NEW c \in Clients, ChildExits(c) PROVE IInv'
  BY <1>6, StillKeeps DEF ChildExits
<1> QED
  BY <1>1, <1>2, <1>3, <1>4, <1>5, <1>6

-----------------------------------------------------------------------------
(* Steps that take up a client or a request *)

\* The accepted client had neither callback nor worker.
LEMMA AcceptClientKeeps ==
  ASSUME IInv, NEW t \in Threads, AcceptClient(t)
  PROVE  IInv'
<1> USE CvdAssumption DEF IInv, Fds, NoOne
<1>1. PICK c \in Clients :
        /\ conn[c] = "backlog" /\ conn' = [conn EXCEPT ![c] = "open"]
        /\ callbacks_' = [callbacks_ EXCEPT ![c] = "HandleMessage", !["server"] = "AcceptClient"]
  BY Zenon DEF AcceptClient
<1>2. /\ pc' = [pc EXCEPT ![t] = "loop"] /\ fd' = [fd EXCEPT ![t] = "server"]
      /\ pc[t] = "AcceptClient"
  BY DEF AcceptClient, EndEvent, Goto
<1>3. UNCHANGED <<main, carry, running_, joined, twoStops, taken, ongoing_requests_, handler,
                  thread_id, exists, failed, subprocess_, child>>
  BY DEF AcceptClient, mainVars, stopVars, reqVars, cmdVars, histVars
<1>4. /\ \A u \in Threads : u # t => pc'[u] = pc[u] /\ fd'[u] = fd[u]
      /\ pc'[t] = "loop" /\ fd'[t] = "server"
  BY <1>2 DEF Typed, WorkerTyped
<1>5. /\ "loop" \in Pcs /\ "loop" \notin MessagePcs \cup ClientPcs \cup RequestPcs \cup StopPcs
      /\ "AcceptClient" \notin HoldPcs
  BY DEF Pcs, MessagePcs, ClientPcs, RequestPcs, StopPcs, HandlerPcs, HoldPcs
<1>6. /\ callbacks_'["server"] = "AcceptClient" /\ callbacks_'[c] = "HandleMessage"
      /\ \A d \in Clients : d # c => callbacks_'[d] = callbacks_[d]
  BY <1>1 DEF Typed, StateTyped
<1>7. conn'[c] = "open" /\ \A d \in Clients : d # c => conn'[d] = conn[d]
  BY <1>1 DEF Typed, StateTyped
<1>8. WorkerTyped'
  BY <1>2, <1>3, <1>5 DEF Typed, WorkerTyped
<1>9. callbacks_' \in [Fds -> Callbacks]
  BY <1>1, Zenon DEF Typed, StateTyped, Callbacks
<1>10. StateTyped'
  BY <1>1, <1>3, <1>9 DEF Typed, StateTyped
<1>11. FdInv'
  BY <1>4, <1>5, <1>6, ZenonT(30) DEF FdInv
<1>12. TokenInv'
  <2>1. \A u \in Threads, d \in Clients : InMessage(u, d)' => InMessage(u, d)
    BY <1>4, <1>5 DEF InMessage
  <2>2. Idle(c)
    BY <1>1, Zenon DEF TokenInv
  <2>3. OneWorkerPerClient'
    BY <1>4, <1>5 DEF TokenInv, OneWorkerPerClient
  <2>4. \A d \in Clients : d # c /\ Idle(d) => Idle(d)'
    BY <1>6, <2>1 DEF Idle
  <2>5. \A u \in Threads, d \in Clients : InMessage(u, d)' => callbacks_'[d] # "HandleMessage"
    BY <1>6, <2>1, <2>2 DEF TokenInv, Idle
  <2>6. \A d \in Clients : conn'[d] \in {"none", "backlog"} => Idle(d)'
    BY <1>7, <2>4 DEF TokenInv
  <2>7. (main' \in {"start", "carry"} /\ carry' # NoOne)
          => carry \in Clients /\ carry # c /\ Idle(carry) /\ conn[carry] \notin {"none", "backlog"}
    BY <1>1, <1>3, Zenon DEF TokenInv, Typed, StateTyped
  <2>8. (main' \in {"start", "carry"} /\ carry' # NoOne)
          => Idle(carry)' /\ conn'[carry'] \notin {"none", "backlog"}
    BY <1>3, <1>7, <2>4, <2>7, Zenon DEF Idle, InMessage
  <2> QED
    BY <2>3, <2>5, <2>6, <2>8, Zenon DEF TokenInv, Idle, InMessage
<1>13. HandlerInv'
  BY <1>3, <1>4, HandlerStays
<1>14. RequestInv'
  BY <1>2, <1>3, <1>4, <1>5, RequestKept
<1>15. StopInv'
  BY <1>2, <1>3, <1>4, <1>5, StopKept
<1> QED
  BY <1>8, <1>10, <1>11, <1>12, <1>13, <1>14, <1>15 DEF Typed


\* A message is taken up by the one worker that got its callback.
LEMMA TakeCallbackKeeps ==
  ASSUME IInv, NEW t \in Threads, TakeCallback(t), callbacks_[fd[t]] # "none"
  PROVE  IInv'
<1> USE CvdAssumption DEF IInv, Fds, NoOne
<1>1. callbacks_[fd[t]] \in {"AcceptClient", "HandleMessage", "interrupt_cb"}
  BY DEF Typed, WorkerTyped, StateTyped, Callbacks
<1>2. pc[t] = "event" /\ pc' = [pc EXCEPT ![t] = callbacks_[fd[t]]] /\ fd' = fd
  BY DEF TakeCallback, Goto, EndEvent, mainVars, stopVars, epollVars, workVars, reqVars,
     cmdVars, clientVars, histVars
<1>3. callbacks_' = [callbacks_ EXCEPT ![fd[t]] = "none"]
  BY DEF TakeCallback, Goto, EndEvent, mainVars, stopVars, epollVars, workVars, reqVars,
     cmdVars, clientVars, histVars
<1>4. UNCHANGED <<main, carry, conn>>
  BY DEF TakeCallback, Goto, EndEvent, mainVars, stopVars, epollVars, workVars, reqVars,
     cmdVars, clientVars, histVars
<1>5. UNCHANGED <<running_, joined, twoStops>>
  BY DEF TakeCallback, Goto, EndEvent, mainVars, stopVars, epollVars, workVars, reqVars,
     cmdVars, clientVars, histVars
<1>6. UNCHANGED <<ongoing_requests_, handler, thread_id, taken>>
  BY DEF TakeCallback, Goto, EndEvent, mainVars, stopVars, epollVars, workVars, reqVars,
     cmdVars, clientVars, histVars
<1>7. UNCHANGED <<exists, failed, subprocess_, child>>
  BY DEF TakeCallback, Goto, EndEvent, mainVars, stopVars, epollVars, workVars, reqVars,
     cmdVars, clientVars, histVars
<1>8. \A u \in Threads : u # t => pc'[u] = pc[u] /\ fd'[u] = fd[u]
  BY <1>2 DEF Typed, WorkerTyped
<1>9. pc'[t] = callbacks_[fd[t]] /\ fd'[t] = fd[t]
  BY <1>2 DEF Typed, WorkerTyped
<1>10. /\ "event" \in Pcs
       /\ "event" \notin MessagePcs \cup ClientPcs \cup RequestPcs \cup HoldPcs \cup StopPcs
  BY DEF Pcs, MessagePcs, ClientPcs, RequestPcs, HoldPcs, StopPcs, HandlerPcs
<1>11. /\ "AcceptClient" \in Pcs
       /\ "AcceptClient" \notin MessagePcs \cup ClientPcs \cup RequestPcs \cup HoldPcs \cup StopPcs
  BY DEF Pcs, MessagePcs, ClientPcs, RequestPcs, HoldPcs, StopPcs, HandlerPcs
<1>12. /\ "HandleMessage" \in Pcs \cap MessagePcs \cap ClientPcs
       /\ "HandleMessage" \notin RequestPcs \cup HoldPcs \cup StopPcs
  BY DEF Pcs, MessagePcs, ClientPcs, RequestPcs, HoldPcs, StopPcs, HandlerPcs
<1>13. /\ "interrupt_cb" \in Pcs
       /\ "interrupt_cb" \notin MessagePcs \cup ClientPcs \cup RequestPcs \cup HoldPcs \cup StopPcs
  BY DEF Pcs, MessagePcs, ClientPcs, RequestPcs, HoldPcs, StopPcs, HandlerPcs
<1>14. \A f \in Fds : callbacks_'[f] = (IF f = fd[t] THEN "none" ELSE callbacks_[f])
  BY <1>3 DEF Typed, StateTyped
<1>15. \A u \in Threads, c \in Clients : InMessage(u, c)' => InMessage(u, c) \/ (u = t /\ c = fd[t] /\ callbacks_[c] = "HandleMessage")
  BY <1>1, <1>2, <1>8, <1>9, <1>10, <1>11, <1>12, <1>13 DEF InMessage
<1>16. WorkerTyped'
  BY <1>1, <1>2, <1>3, <1>4, <1>5, <1>6, <1>7, <1>10, <1>11, <1>12, <1>13, Zenon DEF Typed,
     WorkerTyped
<1>17. StateTyped'
  BY <1>3, <1>4, <1>5, <1>6, <1>7, Zenon DEF Typed, StateTyped, Callbacks
<1>18. FdInv'
  <2>1. \A u \in Threads : pc'[u] = "AcceptClient" => fd'[u] = "server"
    BY <1>1, <1>2, <1>8, <1>9, <1>10, <1>11, <1>12, <1>13 DEF FdInv, Typed,
       WorkerTyped
  <2>2. \A u \in Threads : pc'[u] \in ClientPcs \cup {"interrupt_cb"} => fd'[u] \in Clients
    BY <1>1, <1>2, <1>8, <1>9, <1>10, <1>11, <1>12, <1>13 DEF FdInv, Typed,
       WorkerTyped
  <2> QED
    BY <2>1, <2>2, <1>14 DEF FdInv
<1>19. TokenInv'
  <2>1. \A u, v \in Threads, c \in Clients : u # v => ~(InMessage(u, c) /\ InMessage(v, c))
    BY DEF TokenInv, OneWorkerPerClient, InMessage
  <2>2. \A u, v \in Threads, c \in Clients : u # v => ~(InMessage(u, c) /\ InMessage(v, c))'
    BY <2>1, <1>14, <1>15 DEF TokenInv
  <2>3. OneWorkerPerClient'
    BY <2>2 DEF OneWorkerPerClient, InMessage
  <2>4. \A u \in Threads, c \in Clients : InMessage(u, c)' => callbacks_'[c] # "HandleMessage"
    BY <1>14, <1>15 DEF TokenInv
  <2>5. \A c \in Clients : Idle(c) => Idle(c)'
    BY <1>14, <1>15, Zenon DEF Idle
  <2> QED
    BY <1>4, <2>3, <2>4, <2>5 DEF TokenInv, Typed, StateTyped, Idle, InMessage
<1>20. HandlerInv'
  BY <1>1, <1>2, <1>3, <1>4, <1>5, <1>6, <1>7, <1>8, <1>9, <1>10, <1>11, <1>12, <1>13,
     HandlerStays, Zenon
<1>21. RequestInv'
  <2>1. pc[t] \notin HoldPcs /\ pc'[t] \notin RequestPcs
    BY <1>1, <1>2, <1>9, <1>10, <1>11, <1>12, <1>13, Zenon
  <2>2. \A u \in Threads : pc'[u] \in RequestPcs => pc[u] \in RequestPcs /\ fd'[u] = fd[u]
    BY <1>8, <2>1, Zenon
  <2>3. \A s \in Threads : pc[s] \in HoldPcs => pc'[s] \in HoldPcs /\ taken'[s] = taken[s]
    BY <1>4, <1>5, <1>6, <1>7, <1>8, <2>1, Zenon
  <2> QED
    BY <1>4, <1>5, <1>6, <1>7, <2>2, <2>3, RequestKept, Zenon
<1>22. StopInv'
  BY <1>1, <1>2, <1>3, <1>4, <1>5, <1>6, <1>7, <1>8, <1>9, <1>10, <1>11, <1>12, <1>13,
     StopKept
<1> QED
  BY <1>16, <1>17, <1>18, <1>19, <1>20, <1>21, <1>22 DEF Typed

\* The request is new: no other worker is at work for its client.
LEMMA HandleMessageKeeps ==
  ASSUME IInv, NEW t \in Threads, HandleMessage(t), running_
  PROVE  IInv'
<1> USE CvdAssumption DEF IInv, Fds, NoOne
<1>1. pc[t] = "HandleMessage" /\ pc' = [pc EXCEPT ![t] = "register"] /\ fd' = fd
  BY Zenon DEF HandleMessage, Goto, mainVars, stopVars, epollVars, workVars, reqVars, cmdVars,
     clientVars, histVars
<1>2. ongoing_requests_' = ongoing_requests_ \cup {fd[t]} /\ handler' = handler \cup {fd[t]}
  BY Zenon DEF HandleMessage, Goto, mainVars, stopVars, epollVars, workVars, reqVars, cmdVars,
     clientVars, histVars
<1>3. exists' = exists \cup {fd[t]} /\ thread_id' = [thread_id EXCEPT ![fd[t]] = t]
  BY Zenon DEF HandleMessage, Goto, mainVars, stopVars, epollVars, workVars, reqVars, cmdVars,
     clientVars, histVars
<1>4. UNCHANGED <<main, carry, conn, callbacks_>>
  BY Zenon DEF HandleMessage, Goto, mainVars, stopVars, epollVars, workVars, reqVars, cmdVars,
     clientVars, histVars
<1>5. UNCHANGED <<running_, joined, twoStops>>
  BY Zenon DEF HandleMessage, Goto, mainVars, stopVars, epollVars, workVars, reqVars, cmdVars,
     clientVars, histVars
<1>6. UNCHANGED <<taken, failed, subprocess_, child>>
  BY DEF HandleMessage, Goto, mainVars, stopVars, epollVars, workVars, reqVars, cmdVars,
     clientVars, histVars
<1>7. \A u \in Threads : u # t => pc'[u] = pc[u] /\ fd'[u] = fd[u]
  BY <1>1 DEF Typed, WorkerTyped
<1>8. pc'[t] = "register" /\ fd'[t] = fd[t]
  BY <1>1 DEF Typed, WorkerTyped
<1>9. /\ "HandleMessage" \in Pcs \cap MessagePcs \cap ClientPcs
       /\ "HandleMessage" \notin RequestPcs \cup HoldPcs \cup StopPcs
  BY DEF Pcs, MessagePcs, ClientPcs, RequestPcs, HoldPcs, StopPcs, HandlerPcs
<1>10. /\ "register" \in Pcs \cap MessagePcs \cap ClientPcs \cap RequestPcs
       /\ "register" \notin HoldPcs \cup StopPcs
  BY Zenon DEF Pcs, MessagePcs, ClientPcs, RequestPcs, HoldPcs, StopPcs, HandlerPcs
<1>11. fd[t] \in Clients
  BY <1>1, <1>2, <1>3, <1>4, <1>5, <1>6, <1>7, <1>8, <1>9, <1>10, Zenon DEF FdInv
<1>12. \A u \in Threads : (u # t /\ pc[u] \in MessagePcs) => fd[u] # fd[t]
  BY <1>1, <1>7, <1>8, <1>9, <1>10, <1>11, Zenon DEF TokenInv, OneWorkerPerClient
<1>13. WorkerTyped'
  BY <1>1, <1>2, <1>3, <1>4, <1>5, <1>6, <1>9, <1>10, Zenon DEF Typed, WorkerTyped
<1>14. StateTyped'
  BY <1>2, <1>3, <1>4, <1>6, <1>11, Zenon DEF Typed, StateTyped
<1>15. FdInv'
  BY <1>1, <1>2, <1>3, <1>4, <1>5, <1>6, <1>7, <1>8, <1>9, <1>10, FdKept, Zenon DEF Typed,
     StateTyped
<1>16. TokenInv'
  BY <1>1, <1>2, <1>3, <1>4, <1>5, <1>6, <1>7, <1>8, <1>9, <1>10, TokenKept, Zenon DEF Typed,
     StateTyped
<1>17. HandlerInv'
  <2>1. "unregister" \in MessagePcs
    BY Zenon DEF MessagePcs
  <2> QED
    BY <1>1, <1>2, <1>3, <1>4, <1>5, <1>6, <1>7, <1>8, <1>9, <1>10, <1>11, <1>12, <2>1
       DEF HandlerInv
<1>18. RequestInv'
  <2>1. \A c \in Clients : thread_id'[c] = (IF c = fd[t] THEN t ELSE thread_id[c])
    BY <1>3, Zenon DEF Typed, StateTyped
  <2>2. \A u \in Threads : (u # t /\ pc[u] \in RequestPcs) => fd[u] \in Clients
    BY Zenon DEF FdInv, RequestPcs, ClientPcs, MessagePcs, HandlerPcs, StopPcs
  <2>3. ASSUME NEW u \in Threads, u # t, pc'[u] \in RequestPcs
        PROVE  /\ thread_id'[fd'[u]] = u /\ fd'[u] \in handler'
               /\ \/ fd'[u] \in ongoing_requests_'
                  \/ \E s \in Threads : pc'[s] \in HoldPcs /\ taken'[s] = fd'[u]
    <3>1. pc[u] \in RequestPcs /\ fd'[u] = fd[u] /\ fd[u] \in Clients
      BY <1>7, <2>2, <2>3, Zenon
    <3>2. fd[u] # fd[t]
      BY <1>12, <2>3, <3>1, RequestMessage, Zenon
    <3>3. thread_id'[fd'[u]] = u /\ fd'[u] \in handler'
      BY <1>2, <2>1, <3>1, <3>2 DEF RequestInv
    <3>4. \A s \in Threads : pc[s] \in HoldPcs => pc'[s] = pc[s]
      BY <1>1, <1>7, <1>9, Zenon
    <3>5. CASE fd[u] \in ongoing_requests_
      BY <1>2, <3>1, <3>3, <3>5
    <3>6. CASE fd[u] \notin ongoing_requests_
      <4>1. PICK s \in Threads : pc[s] \in HoldPcs /\ taken[s] = fd[u]
        BY <3>1, <3>6, Zenon DEF RequestInv
      <4>2. pc'[s] \in HoldPcs /\ taken'[s] = fd'[u]
        BY <1>6, <3>1, <3>4, <4>1, Zenon
      <4> QED
        BY <3>3, <4>2
    <3> QED
      BY <3>5, <3>6, Zenon
  <2>4. thread_id'[fd'[t]] = t /\ fd'[t] \in handler' /\ fd'[t] \in ongoing_requests_'
    BY <1>2, <1>8, <1>11, <2>1, Zenon
  <2> QED
    BY <2>3, <2>4, Zenon DEF RequestInv
<1>19. StopInv'
  BY <1>1, <1>7, <1>8, <1>9, <1>10, <1>5 DEF StopInv
<1> QED
  BY <1>13, <1>14, <1>15, <1>16, <1>17, <1>18, <1>19, Zenon DEF Typed

\* The callback registered for the duration of a request is not one for messages.
LEMMA RegisterInterruptKeeps ==
  ASSUME IInv, NEW t \in Threads, RegisterInterrupt(t), CanRegister(fd[t])
  PROVE  IInv'
<1> USE CvdAssumption DEF IInv, Fds, NoOne
<1>1. pc[t] = "register" /\ pc' = [pc EXCEPT ![t] = "Handle"] /\ fd' = fd
  BY Zenon DEF RegisterInterrupt, Goto, Register, CanRegister, mainVars, stopVars, epollVars,
     workVars, reqVars, cmdVars, clientVars, histVars
<1>2. callbacks_' = [callbacks_ EXCEPT ![fd[t]] = "interrupt_cb"]
  BY Zenon DEF RegisterInterrupt, Goto, Register, CanRegister, mainVars, stopVars, epollVars,
     workVars, reqVars, cmdVars, clientVars, histVars
<1>3. UNCHANGED <<main, carry, conn>>
  BY Zenon DEF RegisterInterrupt, Goto, Register, CanRegister, mainVars, stopVars, epollVars,
     workVars, reqVars, cmdVars, clientVars, histVars
<1>4. UNCHANGED <<running_, joined, twoStops>>
  BY DEF RegisterInterrupt, Goto, Register, CanRegister, mainVars, stopVars, epollVars,
     workVars, reqVars, cmdVars, clientVars, histVars
<1>5. UNCHANGED <<ongoing_requests_, handler, thread_id, taken>>
  BY DEF RegisterInterrupt, Goto, Register, CanRegister, mainVars, stopVars, epollVars,
     workVars, reqVars, cmdVars, clientVars, histVars
<1>6. UNCHANGED <<exists, failed, subprocess_, child>>
  BY DEF RegisterInterrupt, Goto, Register, CanRegister, mainVars, stopVars, epollVars,
     workVars, reqVars, cmdVars, clientVars, histVars
<1>7. \A u \in Threads : u # t => pc'[u] = pc[u] /\ fd'[u] = fd[u]
  BY <1>1 DEF Typed, WorkerTyped
<1>8. pc'[t] = "Handle" /\ fd'[t] = fd[t]
  BY <1>1 DEF Typed, WorkerTyped
<1>9. /\ "register" \in Pcs \cap MessagePcs \cap ClientPcs \cap RequestPcs
       /\ "register" \notin HoldPcs \cup StopPcs
  BY DEF Pcs, MessagePcs, ClientPcs, RequestPcs, HoldPcs, StopPcs, HandlerPcs
<1>10. /\ "Handle" \in Pcs \cap MessagePcs \cap ClientPcs \cap RequestPcs
       /\ "Handle" \notin HoldPcs \cup StopPcs
  BY Zenon DEF Pcs, MessagePcs, ClientPcs, RequestPcs, HoldPcs, StopPcs, HandlerPcs
<1>11. fd[t] \in Clients
  BY <1>1, <1>2, <1>3, <1>4, <1>5, <1>6, <1>7, <1>8, <1>9, <1>10 DEF FdInv
<1>12. \A f \in Fds : callbacks_'[f] = (IF f = fd[t] THEN "interrupt_cb" ELSE callbacks_[f])
  BY <1>2 DEF Typed, StateTyped
<1>13. \A u \in Threads, c \in Clients : InMessage(u, c)' <=> InMessage(u, c)
  BY <1>1, <1>7, <1>8, <1>9, <1>10 DEF InMessage
<1>14. InMessage(t, fd[t])
  BY <1>1, <1>7, <1>8, <1>9, <1>10, Zenon DEF InMessage
<1>15. WorkerTyped'
  BY <1>1, <1>2, <1>3, <1>4, <1>5, <1>6, <1>9, <1>10, Zenon DEF Typed, WorkerTyped
<1>16. StateTyped'
  BY <1>2, <1>3, <1>4, <1>5, <1>6, ZenonT(30) DEF Typed, StateTyped, Callbacks
<1>17. FdInv'
  BY <1>1, <1>7, <1>8, <1>9, <1>10, <1>12, <1>11 DEF FdInv
<1>18. TokenInv'
  <2>1. \A u, v \in Threads, c \in Clients : u # v => ~(InMessage(u, c) /\ InMessage(v, c))
    BY Zenon DEF TokenInv, OneWorkerPerClient, InMessage
  <2>2. \A u, v \in Threads, c \in Clients : u # v => ~(InMessage(u, c) /\ InMessage(v, c))'
    BY <2>1, <1>12, <1>13, Zenon DEF TokenInv
  <2>3. OneWorkerPerClient'
    BY <2>2 DEF OneWorkerPerClient, InMessage
  <2>4. \A u \in Threads, c \in Clients : InMessage(u, c)' => callbacks_'[c] # "HandleMessage"
    BY <1>12, <1>13 DEF TokenInv
  <2>5. \A c \in Clients : Idle(c) => Idle(c)'
    BY <1>12, <1>13, <1>14, <1>11, Zenon DEF Idle
  <2> QED
    BY <1>3, <2>3, <2>4, <2>5, Zenon DEF TokenInv, Typed, StateTyped, Idle, InMessage
<1>19. HandlerInv'
  BY <1>1, <1>2, <1>3, <1>4, <1>5, <1>6, <1>7, <1>8, <1>9, <1>10, HandlerStays, Zenon
<1>20. RequestInv'
  BY <1>1, <1>2, <1>3, <1>4, <1>5, <1>6, <1>7, <1>8, <1>9, <1>10, RequestKept,
     RequestMessage, Zenon
<1>21. StopInv'
  BY <1>1, <1>2, <1>3, <1>4, <1>5, <1>6, <1>7, <1>8, <1>9, <1>10, StopKept
<1> QED
  BY <1>15, <1>16, <1>17, <1>18, <1>19, <1>20, <1>21, Zenon DEF Typed

\* Nobody else is in a handler of this client.
LEMMA ClearHandlerKeeps ==
  ASSUME IInv, NEW t \in Threads, ClearHandler(t)
  PROVE  IInv'
<1> USE CvdAssumption DEF IInv, Fds, NoOne
<1>1. pc[t] = "done" /\ pc' = [pc EXCEPT ![t] = "unregister"] /\ fd' = fd
  BY Zenon DEF ClearHandler, Goto, mainVars, stopVars, epollVars, workVars, reqVars, cmdVars,
     clientVars, histVars
<1>2. handler' = handler \ {fd[t]}
  BY Zenon DEF ClearHandler, Goto, mainVars, stopVars, epollVars, workVars, reqVars, cmdVars,
     clientVars, histVars
<1>3. UNCHANGED <<main, carry, conn, callbacks_>>
  BY Zenon DEF ClearHandler, Goto, mainVars, stopVars, epollVars, workVars, reqVars, cmdVars,
     clientVars, histVars
<1>4. UNCHANGED <<running_, joined, twoStops>>
  BY Zenon DEF ClearHandler, Goto, mainVars, stopVars, epollVars, workVars, reqVars, cmdVars,
     clientVars, histVars
<1>5. UNCHANGED <<ongoing_requests_, thread_id, taken>>
  BY ZenonT(30) DEF ClearHandler, Goto, mainVars, stopVars, epollVars, workVars, reqVars, cmdVars,
     clientVars, histVars
<1>6. UNCHANGED <<exists, failed, subprocess_, child>>
  BY DEF ClearHandler, Goto, mainVars, stopVars, epollVars, workVars, reqVars, cmdVars,
     clientVars, histVars
<1>7. \A u \in Threads : u # t => pc'[u] = pc[u] /\ fd'[u] = fd[u]
  BY <1>1 DEF Typed, WorkerTyped
<1>8. pc'[t] = "unregister" /\ fd'[t] = fd[t]
  BY <1>1 DEF Typed, WorkerTyped
<1>9. /\ "done" \in Pcs \cap MessagePcs \cap ClientPcs
       /\ "done" \notin RequestPcs \cup HoldPcs \cup StopPcs
  BY DEF Pcs, MessagePcs, ClientPcs, RequestPcs, HoldPcs, StopPcs, HandlerPcs
<1>10. /\ "unregister" \in Pcs \cap MessagePcs \cap ClientPcs
       /\ "unregister" \notin RequestPcs \cup HoldPcs \cup StopPcs
  BY Zenon DEF Pcs, MessagePcs, ClientPcs, RequestPcs, HoldPcs, StopPcs, HandlerPcs
<1>11. fd[t] \in Clients
  BY <1>1, <1>2, <1>3, <1>4, <1>5, <1>6, <1>7, <1>8, <1>9, <1>10, Zenon DEF FdInv
<1>12. \A u \in Threads : (u # t /\ pc[u] \in RequestPcs) => fd[u] # fd[t]
  BY <1>1, <1>7, <1>8, <1>9, <1>10, <1>11, RequestMessage, Zenon DEF TokenInv,
     OneWorkerPerClient
<1>13. WorkerTyped'
  BY <1>1, <1>2, <1>3, <1>4, <1>5, <1>6, <1>9, <1>10, Zenon DEF Typed, WorkerTyped
<1>14. StateTyped'
  BY <1>2, <1>3, <1>4, <1>5, <1>6, Zenon DEF Typed, StateTyped, Callbacks
<1>15. FdInv'
  BY <1>1, <1>2, <1>3, <1>4, <1>5, <1>6, <1>7, <1>8, <1>9, <1>10, FdKept, Zenon DEF Typed,
     StateTyped
<1>16. TokenInv'
  BY <1>1, <1>2, <1>3, <1>4, <1>5, <1>6, <1>7, <1>8, <1>9, <1>10, TokenKept, Zenon DEF Typed,
     StateTyped
<1>17. HandlerInv'
  BY <1>1, <1>7, <1>8, <1>9, <1>10, <1>2, <1>6, Zenon DEF HandlerInv
<1>18. RequestInv'
  BY <1>1, <1>7, <1>8, <1>9, <1>10, <1>2, <1>5, <1>12 DEF RequestInv
<1>19. StopInv'
  BY <1>1, <1>2, <1>3, <1>4, <1>5, <1>6, <1>7, <1>8, <1>9, <1>10, StopKept, Zenon
<1> QED
  BY <1>13, <1>14, <1>15, <1>16, <1>17, <1>18, <1>19, Zenon DEF Typed

\* The handler that is destroyed has been cleared.
LEMMA ReturnResponseKeeps ==
  ASSUME IInv, NEW t \in Threads, ReturnResponse(t)
  PROVE  IInv'
<1> USE CvdAssumption DEF IInv, Fds, NoOne
<1>1. pc[t] = "unregister" /\ pc' = [pc EXCEPT ![t] = "respond"] /\ fd' = fd
  BY Zenon DEF ReturnResponse, Goto, Remove, DestroyHandler, mainVars, stopVars, epollVars,
     workVars, reqVars, cmdVars, clientVars, histVars
<1>2. callbacks_' = [callbacks_ EXCEPT ![fd[t]] = "none"]
  BY Zenon DEF ReturnResponse, Goto, Remove, DestroyHandler, mainVars, stopVars, epollVars,
     workVars, reqVars, cmdVars, clientVars, histVars
<1>3. ongoing_requests_' = ongoing_requests_ \ {fd[t]}
  BY Zenon DEF ReturnResponse, Goto, Remove, DestroyHandler, mainVars, stopVars, epollVars,
     workVars, reqVars, cmdVars, clientVars, histVars
<1>4. exists' = exists \ {fd[t]} /\ subprocess_' = subprocess_ \ {fd[t]}
  BY Zenon DEF ReturnResponse, Goto, Remove, DestroyHandler, mainVars, stopVars, epollVars,
     workVars, reqVars, cmdVars, clientVars, histVars
<1>5. child' = [child EXCEPT ![fd[t]] = "none"]
  BY Zenon DEF ReturnResponse, Goto, Remove, DestroyHandler, mainVars, stopVars, epollVars,
     workVars, reqVars, cmdVars, clientVars, histVars
<1>6. UNCHANGED <<main, carry, conn>>
  BY Zenon DEF ReturnResponse, Goto, Remove, DestroyHandler, mainVars, stopVars, epollVars,
     workVars, reqVars, cmdVars, clientVars, histVars
<1>7. UNCHANGED <<running_, joined, twoStops>>
  BY Zenon DEF ReturnResponse, Goto, Remove, DestroyHandler, mainVars, stopVars, epollVars,
     workVars, reqVars, cmdVars, clientVars, histVars
<1>8. UNCHANGED <<handler, thread_id, taken, failed>>
  BY DEF ReturnResponse, Goto, Remove, DestroyHandler, mainVars, stopVars, epollVars,
     workVars, reqVars, cmdVars, clientVars, histVars
<1>9. \A u \in Threads : u # t => pc'[u] = pc[u] /\ fd'[u] = fd[u]
  BY <1>1 DEF Typed, WorkerTyped
<1>10. pc'[t] = "respond" /\ fd'[t] = fd[t]
  BY <1>1 DEF Typed, WorkerTyped
<1>11. /\ "unregister" \in Pcs \cap MessagePcs \cap ClientPcs
       /\ "unregister" \notin RequestPcs \cup HoldPcs \cup StopPcs
  BY DEF Pcs, MessagePcs, ClientPcs, RequestPcs, HoldPcs, StopPcs, HandlerPcs
<1>12. /\ "respond" \in Pcs \cap MessagePcs \cap ClientPcs
       /\ "respond" \notin RequestPcs \cup HoldPcs \cup StopPcs
  BY Zenon DEF Pcs, MessagePcs, ClientPcs, RequestPcs, HoldPcs, StopPcs, HandlerPcs
<1>13. fd[t] \in Clients
  BY <1>1, <1>2, <1>3, <1>4, <1>5, <1>6, <1>7, <1>8, <1>9, <1>10, <1>11, <1>12, Zenon DEF FdInv
<1>14. \A u \in Threads : (u # t /\ pc[u] \in RequestPcs) => fd[u] # fd[t]
  BY <1>1, <1>9, <1>10, <1>11, <1>12, <1>13, RequestMessage DEF TokenInv,
     OneWorkerPerClient
<1>15. \A f \in Fds : callbacks_'[f] = (IF f = fd[t] THEN "none" ELSE callbacks_[f])
  BY <1>2 DEF Typed, StateTyped
<1>16. \A c \in Clients : child'[c] = (IF c = fd[t] THEN "none" ELSE child[c])
  BY <1>5, Zenon DEF Typed, StateTyped
<1>17. WorkerTyped'
  BY <1>1, <1>2, <1>3, <1>4, <1>5, <1>6, <1>7, <1>8, <1>11, <1>12, Zenon DEF Typed, WorkerTyped
<1>18. StateTyped'
  BY <1>2, <1>3, <1>4, <1>5, <1>6, <1>7, <1>8, Zenon DEF Typed, StateTyped, Callbacks
<1>19. FdInv'
  BY <1>1, <1>9, <1>10, <1>11, <1>12, <1>15, FdKept
<1>20. TokenInv'
  BY <1>1, <1>9, <1>10, <1>11, <1>12, <1>15, <1>6, TokenKept DEF Typed, StateTyped
<1>21. HandlerInv'
  BY <1>1, <1>9, <1>10, <1>11, <1>12, <1>4, <1>8, <1>16, ZenonT(30) DEF HandlerInv
<1>22. RequestInv'
  <2>1. pc[t] \notin HoldPcs /\ pc'[t] \notin RequestPcs
    BY <1>1, <1>10, <1>11, <1>12, Zenon
  <2> QED
    BY <1>3, <1>8, <1>9, <1>14, <2>1, RequestReturned, Zenon
<1>23. StopInv'
  BY <1>1, <1>2, <1>3, <1>4, <1>5, <1>6, <1>7, <1>8, <1>9, <1>10, <1>11, <1>12, StopKept, Zenon
<1> QED
  BY <1>17, <1>18, <1>19, <1>20, <1>21, <1>22, <1>23 DEF Typed

\* The request whose handler is destroyed uncleared is recorded in failed.
LEMMA ReturnErrorKeeps ==
  ASSUME IInv, NEW t \in Threads, ReturnError(t)
  PROVE  IInv'
<1> USE CvdAssumption DEF IInv, Fds, NoOne
<1>1. pc[t] = "error" /\ pc' = [pc EXCEPT ![t] = "failed"] /\ fd' = fd
  BY Zenon DEF ReturnError, Goto, DestroyHandler, mainVars, stopVars, epollVars, workVars,
     reqVars, cmdVars, clientVars, histVars
<1>2. UNCHANGED callbacks_
  BY Zenon DEF ReturnError, Goto, DestroyHandler, mainVars, stopVars, epollVars, workVars,
     reqVars, cmdVars, clientVars, histVars
<1>3. ongoing_requests_' = ongoing_requests_ \ {fd[t]}
  BY Zenon DEF ReturnError, Goto, DestroyHandler, mainVars, stopVars, epollVars, workVars,
     reqVars, cmdVars, clientVars, histVars
<1>4. exists' = exists \ {fd[t]} /\ subprocess_' = subprocess_ \ {fd[t]}
  BY Zenon DEF ReturnError, Goto, DestroyHandler, mainVars, stopVars, epollVars, workVars,
     reqVars, cmdVars, clientVars, histVars
<1>5. child' = [child EXCEPT ![fd[t]] = "none"]
  BY Zenon DEF ReturnError, Goto, DestroyHandler, mainVars, stopVars, epollVars, workVars,
     reqVars, cmdVars, clientVars, histVars
<1>6. UNCHANGED <<main, carry, conn>>
  BY Zenon DEF ReturnError, Goto, DestroyHandler, mainVars, stopVars, epollVars, workVars,
     reqVars, cmdVars, clientVars, histVars
<1>7. UNCHANGED <<running_, joined, twoStops>>
  BY Zenon DEF ReturnError, Goto, DestroyHandler, mainVars, stopVars, epollVars, workVars,
     reqVars, cmdVars, clientVars, histVars
<1>8. failed' = failed \cup {fd[t]} /\ UNCHANGED <<handler, thread_id, taken>>
  BY Zenon DEF ReturnError, Goto, DestroyHandler, mainVars, stopVars, epollVars, workVars,
     reqVars, cmdVars, clientVars, histVars
<1>9. \A u \in Threads : u # t => pc'[u] = pc[u] /\ fd'[u] = fd[u]
  BY <1>1 DEF Typed, WorkerTyped
<1>10. pc'[t] = "failed" /\ fd'[t] = fd[t]
  BY <1>1 DEF Typed, WorkerTyped
<1>11. /\ "error" \in Pcs \cap MessagePcs \cap ClientPcs
       /\ "error" \notin RequestPcs \cup HoldPcs \cup StopPcs
  BY DEF Pcs, MessagePcs, ClientPcs, RequestPcs, HoldPcs, StopPcs, HandlerPcs
<1>12. /\ "failed" \in Pcs \cap MessagePcs \cap ClientPcs
       /\ "failed" \notin RequestPcs \cup HoldPcs \cup StopPcs
  BY Zenon DEF Pcs, MessagePcs, ClientPcs, RequestPcs, HoldPcs, StopPcs, HandlerPcs
<1>13. fd[t] \in Clients
  BY <1>1, <1>2, <1>3, <1>4, <1>5, <1>6, <1>7, <1>8, <1>9, <1>10, <1>11, <1>12, Zenon DEF FdInv
<1>14. \A u \in Threads : (u # t /\ pc[u] \in RequestPcs) => fd[u] # fd[t]
  BY <1>1, <1>9, <1>10, <1>11, <1>12, <1>13, RequestMessage, Zenon DEF TokenInv,
     OneWorkerPerClient
<1>15. \A c \in Clients : child'[c] = (IF c = fd[t] THEN "none" ELSE child[c])
  BY <1>5 DEF Typed, StateTyped
<1>16. WorkerTyped'
  BY <1>1, <1>2, <1>3, <1>4, <1>5, <1>6, <1>7, <1>8, <1>11, <1>12, Zenon DEF Typed, WorkerTyped
<1>17. StateTyped'
  BY <1>2, <1>3, <1>4, <1>5, <1>6, <1>7, <1>8, Zenon DEF Typed, StateTyped, Callbacks
<1>18. FdInv'
  BY <1>1, <1>2, <1>3, <1>4, <1>5, <1>6, <1>7, <1>8, <1>9, <1>10, <1>11, <1>12, FdKept
     DEF Typed, StateTyped
<1>19. TokenInv'
  BY <1>1, <1>2, <1>3, <1>4, <1>5, <1>6, <1>7, <1>8, <1>9, <1>10, <1>11, <1>12,
     TokenKept DEF Typed, StateTyped
<1>20. HandlerInv'
  BY <1>1, <1>9, <1>10, <1>11, <1>12, <1>4, <1>8, <1>15, Zenon DEF HandlerInv
<1>21. RequestInv'
  <2>1. pc[t] \notin HoldPcs /\ pc'[t] \notin RequestPcs
    BY <1>1, <1>10, <1>11, <1>12, Zenon
  <2> QED
    BY <1>3, <1>8, <1>9, <1>14, <2>1, RequestReturned, Zenon
<1>22. StopInv'
  BY <1>1, <1>2, <1>3, <1>4, <1>5, <1>6, <1>7, <1>8, <1>9, <1>10, <1>11, <1>12, StopKept, Zenon
<1> QED
  BY <1>16, <1>17, <1>18, <1>19, <1>20, <1>21, <1>22 DEF Typed

\* The worker hands the client's next message over to the epoll instance.
LEMMA ReregisterKeeps ==
  ASSUME IInv, NEW t \in Threads, Reregister(t), CanRegister(fd[t])
  PROVE  IInv'
<1> USE CvdAssumption DEF IInv, Fds, NoOne
<1>1. pc[t] = "reregister" /\ pc' = [pc EXCEPT ![t] = "loop"] /\ fd' = [fd EXCEPT ![t] = "server"]
  BY Zenon DEF Reregister, Goto, Register, Remove, Drop, CanRegister, EndEvent, mainVars,
     stopVars, epollVars, workVars, reqVars, cmdVars, clientVars, histVars
<1>2. callbacks_' = [callbacks_ EXCEPT ![fd[t]] = "HandleMessage"]
  BY Zenon DEF Reregister, Goto, Register, Remove, Drop, CanRegister, EndEvent, mainVars,
     stopVars, epollVars, workVars, reqVars, cmdVars, clientVars, histVars
<1>3. UNCHANGED <<main, carry, conn>>
  BY Zenon DEF Reregister, Goto, Register, Remove, Drop, CanRegister, EndEvent, mainVars,
     stopVars, epollVars, workVars, reqVars, cmdVars, clientVars, histVars
<1>4. UNCHANGED <<running_, joined, twoStops>>
  BY Zenon DEF Reregister, Goto, Register, Remove, Drop, CanRegister, EndEvent, mainVars,
     stopVars, epollVars, workVars, reqVars, cmdVars, clientVars, histVars
<1>5. UNCHANGED <<ongoing_requests_, handler, thread_id, taken>>
  BY Zenon DEF Reregister, Goto, Register, Remove, Drop, CanRegister, EndEvent, mainVars,
     stopVars, epollVars, workVars, reqVars, cmdVars, clientVars, histVars
<1>6. UNCHANGED <<exists, failed, subprocess_, child>>
  BY DEF Reregister, Goto, Register, Remove, Drop, CanRegister, EndEvent, mainVars,
     stopVars, epollVars, workVars, reqVars, cmdVars, clientVars, histVars
<1>7. \A u \in Threads : u # t => pc'[u] = pc[u] /\ fd'[u] = fd[u]
  BY <1>1 DEF Typed, WorkerTyped
<1>8. pc'[t] = "loop" /\ fd'[t] = "server"
  BY <1>1 DEF Typed, WorkerTyped
<1>9. /\ "reregister" \in Pcs \cap MessagePcs \cap ClientPcs
       /\ "reregister" \notin RequestPcs \cup HoldPcs \cup StopPcs
  BY DEF Pcs, MessagePcs, ClientPcs, RequestPcs, HoldPcs, StopPcs, HandlerPcs
<1>10. /\ "loop" \in Pcs
       /\ "loop" \notin MessagePcs \cup ClientPcs \cup RequestPcs \cup HoldPcs \cup StopPcs
  BY Zenon DEF Pcs, MessagePcs, ClientPcs, RequestPcs, HoldPcs, StopPcs, HandlerPcs
<1>11. fd[t] \in Clients
  BY <1>1, <1>2, <1>3, <1>4, <1>5, <1>6, <1>7, <1>8, <1>9, <1>10, Zenon DEF FdInv
<1>12. \A f \in Fds : callbacks_'[f] = (IF f = fd[t] THEN "HandleMessage" ELSE callbacks_[f])
  BY <1>2 DEF Typed, StateTyped
<1>13. InMessage(t, fd[t])
  BY <1>1, <1>7, <1>8, <1>9, <1>10, Zenon DEF InMessage
<1>14. \A u \in Threads : u # t => ~InMessage(u, fd[t])
  BY <1>13, <1>11, Zenon DEF TokenInv, OneWorkerPerClient, InMessage
<1>15. \A u \in Threads, c \in Clients : InMessage(u, c)' => InMessage(u, c) /\ u # t
  BY <1>1, <1>7, <1>8, <1>9, <1>10, Zenon DEF InMessage
<1>16. WorkerTyped'
  BY <1>1, <1>2, <1>3, <1>4, <1>5, <1>6, <1>9, <1>10, Zenon DEF Typed, WorkerTyped
<1>17. StateTyped'
  BY <1>2, <1>3, <1>4, <1>5, <1>6, Zenon DEF Typed, StateTyped, Callbacks
<1>18. FdInv'
  BY <1>1, <1>7, <1>8, <1>9, <1>10, <1>12, <1>11 DEF FdInv
<1>19. TokenInv'
  <2>1. \A u, v \in Threads, c \in Clients : u # v => ~(InMessage(u, c) /\ InMessage(v, c))
    BY Zenon DEF TokenInv, OneWorkerPerClient, InMessage
  <2>2. \A u, v \in Threads, c \in Clients : u # v => ~(InMessage(u, c) /\ InMessage(v, c))'
    BY <2>1, <1>12, <1>15, Zenon DEF TokenInv
  <2>3. OneWorkerPerClient'
    BY <2>2 DEF OneWorkerPerClient, InMessage
  <2>4. \A u \in Threads, c \in Clients : InMessage(u, c)' => callbacks_'[c] # "HandleMessage"
    BY <1>12, <1>15, <1>14, Zenon DEF TokenInv
  <2>5. \A c \in Clients : Idle(c) => Idle(c)'
    BY <1>12, <1>15, <1>13, Zenon DEF Idle
  <2> QED
    BY <1>3, <2>3, <2>4, <2>5, Zenon DEF TokenInv, Typed, StateTyped, Idle, InMessage
<1>20. HandlerInv'
  BY <1>1, <1>2, <1>3, <1>4, <1>5, <1>6, <1>7, <1>8, <1>9, <1>10, HandlerStays, Zenon
<1>21. RequestInv'
  BY <1>1, <1>2, <1>3, <1>4, <1>5, <1>6, <1>7, <1>8, <1>9, <1>10, RequestKept,
     RequestMessage, Zenon
<1>22. StopInv'
  BY <1>1, <1>2, <1>3, <1>4, <1>5, <1>6, <1>7, <1>8, <1>9, <1>10, StopKept, Zenon
<1> QED
  BY <1>16, <1>17, <1>18, <1>19, <1>20, <1>21, <1>22 DEF Typed

\* A second Stop is recorded in twoStops.
LEMMA StopKeeps ==
  ASSUME IInv, NEW t \in Threads, Stop(t)
  PROVE  IInv'
<1> USE CvdAssumption DEF IInv, Fds, NoOne
<1>1. pc[t] = "Stop" /\ pc' = [pc EXCEPT ![t] = "take"] /\ fd' = fd
  BY DEF Stop, Goto, mainVars, stopVars, epollVars, workVars, reqVars, cmdVars,
     clientVars, histVars
<1>2. running_' = FALSE /\ joined' = joined
  BY Zenon DEF Stop, Goto, mainVars, stopVars, epollVars, workVars, reqVars, cmdVars,
     clientVars, histVars
<1>3. twoStops' = (twoStops \/ \E u \in Threads : pc[u] \in StopPcs)
  BY Zenon DEF Stop, Goto, mainVars, stopVars, epollVars, workVars, reqVars, cmdVars,
     clientVars, histVars
<1>4. UNCHANGED <<main, carry, conn>> /\ UNCHANGED callbacks_
  BY Zenon DEF Stop, Goto, mainVars, stopVars, epollVars, workVars, reqVars, cmdVars,
     clientVars, histVars
<1>5. UNCHANGED <<ongoing_requests_, handler, thread_id, taken>>
  BY Zenon DEF Stop, Goto, mainVars, stopVars, epollVars, workVars, reqVars, cmdVars,
     clientVars, histVars
<1>6. UNCHANGED <<exists, failed, subprocess_, child>>
  BY DEF Stop, Goto, mainVars, stopVars, epollVars, workVars, reqVars, cmdVars,
     clientVars, histVars
<1>7. \A u \in Threads : u # t => pc'[u] = pc[u] /\ fd'[u] = fd[u]
  BY <1>1 DEF Typed, WorkerTyped
<1>8. pc'[t] = "take" /\ fd'[t] = fd[t]
  BY <1>1 DEF Typed, WorkerTyped
<1>9. /\ "Stop" \in Pcs \cap MessagePcs
       /\ "Stop" \notin ClientPcs \cup RequestPcs \cup HoldPcs \cup StopPcs
  BY DEF Pcs, MessagePcs, ClientPcs, RequestPcs, HoldPcs, StopPcs, HandlerPcs
<1>10. /\ "take" \in Pcs \cap MessagePcs \cap StopPcs
       /\ "take" \notin ClientPcs \cup RequestPcs \cup HoldPcs
  BY Zenon DEF Pcs, MessagePcs, ClientPcs, RequestPcs, HoldPcs, StopPcs, HandlerPcs
<1>11. WorkerTyped'
  BY <1>1, <1>2, <1>3, <1>4, <1>5, <1>6, <1>9, <1>10, Zenon DEF Typed, WorkerTyped
<1>12. StateTyped'
  BY <1>2, <1>3, <1>4, <1>5, <1>6, Zenon DEF Typed, StateTyped, Callbacks
<1>13. FdInv'
  BY <1>1, <1>2, <1>3, <1>4, <1>5, <1>6, <1>7, <1>8, <1>9, <1>10, FdKept, Zenon DEF Typed,
     StateTyped
<1>14. TokenInv'
  BY <1>1, <1>2, <1>3, <1>4, <1>5, <1>6, <1>7, <1>8, <1>9, <1>10, TokenKept, Zenon DEF Typed,
     StateTyped
<1>15. HandlerInv'
  BY <1>1, <1>2, <1>3, <1>4, <1>5, <1>6, <1>7, <1>8, <1>9, <1>10, HandlerStays, Zenon
<1>16. RequestInv'
  BY <1>1, <1>2, <1>3, <1>4, <1>5, <1>6, <1>7, <1>8, <1>9, <1>10, RequestKept,
     RequestMessage, Zenon
<1>17. StopInv'
  <2>1. ~running_'
    BY <1>2, Zenon
  <2>2. \A u, v \in Threads : (u # v /\ pc'[u] \in StopPcs /\ pc'[v] \in StopPcs) => twoStops'
    BY <1>1, <1>7, <1>8, <1>9, <1>10, <1>3, Zenon DEF StopInv
  <2>3. \A u \in Threads : u \in joined' => pc'[u] = "exited"
    BY <1>1, <1>7, <1>8, <1>9, <1>10, <1>2 DEF StopInv
  <2>4. \A u, v \in Threads : (pc'[u] = "stopped" /\ u # v /\ ~twoStops') => pc'[v] \notin RequestPcs
    BY <1>1, <1>7, <1>8, <1>9, <1>10, <1>3, ZenonT(30) DEF StopInv
  <2> QED
    BY <2>1, <2>2, <2>3, <2>4, Zenon DEF StopInv
<1> QED
  BY <1>11, <1>12, <1>13, <1>14, <1>15, <1>16, <1>17 DEF Typed

\* The request passes from ongoing_requests_ into the hands of the Stop.
LEMMA TakeRequestKeeps ==
  ASSUME IInv, NEW t \in Threads, TakeRequest(t)
  PROVE  IInv'
<1> USE CvdAssumption DEF IInv, Fds, NoOne
<1>1. pc[t] = "take" /\ pc' = [pc EXCEPT ![t] = "strike"] /\ fd' = fd
  BY DEF TakeRequest, Goto, mainVars, stopVars, epollVars, workVars, reqVars, cmdVars,
     clientVars, histVars
<1>2. \E c \in ongoing_requests_ : /\ taken' = [taken EXCEPT ![t] = c]
                                     /\ ongoing_requests_' = ongoing_requests_ \ {c}
  BY Zenon DEF TakeRequest, Goto, mainVars, stopVars, epollVars, workVars, reqVars, cmdVars,
     clientVars, histVars
<1>3. UNCHANGED <<main, carry, conn>> /\ UNCHANGED callbacks_
  BY Zenon DEF TakeRequest, Goto, mainVars, stopVars, epollVars, workVars, reqVars, cmdVars,
     clientVars, histVars
<1>4. UNCHANGED <<running_, joined, twoStops>>
  BY Zenon DEF TakeRequest, Goto, mainVars, stopVars, epollVars, workVars, reqVars, cmdVars,
     clientVars, histVars
<1>5. UNCHANGED <<handler, thread_id>>
  BY Zenon DEF TakeRequest, Goto, mainVars, stopVars, epollVars, workVars, reqVars, cmdVars,
     clientVars, histVars
<1>6. UNCHANGED <<exists, failed, subprocess_, child>>
  BY DEF TakeRequest, Goto, mainVars, stopVars, epollVars, workVars, reqVars, cmdVars,
     clientVars, histVars
<1>7. \A u \in Threads : u # t => pc'[u] = pc[u] /\ fd'[u] = fd[u]
  BY <1>1 DEF Typed, WorkerTyped
<1>8. pc'[t] = "strike" /\ fd'[t] = fd[t]
  BY <1>1 DEF Typed, WorkerTyped
<1>9. /\ "take" \in Pcs \cap MessagePcs \cap StopPcs
       /\ "take" \notin ClientPcs \cup RequestPcs \cup HoldPcs
  BY DEF Pcs, MessagePcs, ClientPcs, RequestPcs, HoldPcs, StopPcs, HandlerPcs
<1>10. /\ "strike" \in Pcs \cap MessagePcs \cap HoldPcs \cap StopPcs
       /\ "strike" \notin ClientPcs \cup RequestPcs
  BY Zenon DEF Pcs, MessagePcs, ClientPcs, RequestPcs, HoldPcs, StopPcs, HandlerPcs
<1>11. WorkerTyped'
  BY <1>1, <1>7, <1>8, <1>9, <1>10, <1>2, <1>1, SMTT(20) DEF Typed, WorkerTyped, StateTyped
<1>12. StateTyped'
  BY <1>2, <1>3, <1>4, <1>5, <1>6, Zenon DEF Typed, StateTyped, Callbacks
<1>13. FdInv'
  BY <1>1, <1>2, <1>3, <1>4, <1>5, <1>6, <1>7, <1>8, <1>9, <1>10, FdKept, Zenon DEF Typed,
     StateTyped
<1>14. TokenInv'
  BY <1>1, <1>2, <1>3, <1>4, <1>5, <1>6, <1>7, <1>8, <1>9, <1>10, TokenKept, Zenon DEF Typed,
     StateTyped
<1>15. HandlerInv'
  BY <1>1, <1>2, <1>3, <1>4, <1>5, <1>6, <1>7, <1>8, <1>9, <1>10, HandlerStays, Zenon
<1>16. RequestInv'
  <2>1. PICK c \in ongoing_requests_ : /\ taken' = [taken EXCEPT ![t] = c]
                                            /\ ongoing_requests_' = ongoing_requests_ \ {c}
    BY <1>2, Zenon
  <2>2. taken'[t] = c /\ \A s \in Threads : s # t => taken'[s] = taken[s]
    BY <2>1 DEF Typed, WorkerTyped
  <2> QED
    BY <1>1, <1>7, <1>8, <1>9, <1>10, <1>5, <2>1, <2>2 DEF RequestInv
<1>17. StopInv'
  BY <1>1, <1>2, <1>3, <1>4, <1>5, <1>6, <1>7, <1>8, <1>9, <1>10, StopKept, Zenon
<1> QED
  BY <1>11, <1>12, <1>13, <1>14, <1>15, <1>16, <1>17 DEF Typed

\* A request that is not ongoing is in the hands of another Stop.
LEMMA NoneLeftKeeps ==
  ASSUME IInv, NEW t \in Threads, NoneLeft(t)
  PROVE  IInv'
<1> USE CvdAssumption DEF IInv, Fds, NoOne
<1>1. pc[t] = "take" /\ pc' = [pc EXCEPT ![t] = "stopped"] /\ fd' = fd
  BY Zenon DEF NoneLeft, Goto, mainVars, stopVars, epollVars, workVars, reqVars, cmdVars,
     clientVars, histVars
<1>2. ongoing_requests_ = {}
  BY Zenon DEF NoneLeft, Goto, mainVars, stopVars, epollVars, workVars, reqVars, cmdVars,
     clientVars, histVars
<1>3. UNCHANGED <<main, carry, conn>> /\ UNCHANGED callbacks_
  BY Zenon DEF NoneLeft, Goto, mainVars, stopVars, epollVars, workVars, reqVars, cmdVars,
     clientVars, histVars
<1>4. UNCHANGED <<running_, joined, twoStops>>
  BY Zenon DEF NoneLeft, Goto, mainVars, stopVars, epollVars, workVars, reqVars, cmdVars,
     clientVars, histVars
<1>5. UNCHANGED <<ongoing_requests_, handler, thread_id, taken>>
  BY Zenon DEF NoneLeft, Goto, mainVars, stopVars, epollVars, workVars, reqVars, cmdVars,
     clientVars, histVars
<1>6. UNCHANGED <<exists, failed, subprocess_, child>>
  BY Zenon DEF NoneLeft, Goto, mainVars, stopVars, epollVars, workVars, reqVars, cmdVars,
     clientVars, histVars
<1>7. \A u \in Threads : u # t => pc'[u] = pc[u] /\ fd'[u] = fd[u]
  BY <1>1, Zenon DEF Typed, WorkerTyped
<1>8. pc'[t] = "stopped" /\ fd'[t] = fd[t]
  BY <1>1, Zenon DEF Typed, WorkerTyped
<1>9. /\ "take" \in Pcs \cap MessagePcs \cap StopPcs
       /\ "take" \notin ClientPcs \cup RequestPcs \cup HoldPcs
  BY DEF Pcs, MessagePcs, ClientPcs, RequestPcs, HoldPcs, StopPcs, HandlerPcs
<1>10. /\ "stopped" \in Pcs \cap MessagePcs
       /\ "stopped" \notin ClientPcs \cup RequestPcs \cup HoldPcs \cup StopPcs
  BY Zenon DEF Pcs, MessagePcs, ClientPcs, RequestPcs, HoldPcs, StopPcs, HandlerPcs
<1>11. WorkerTyped'
  BY <1>1, <1>2, <1>3, <1>4, <1>5, <1>6, <1>9, <1>10, Zenon DEF Typed, WorkerTyped
<1>12. StateTyped'
  BY <1>2, <1>3, <1>4, <1>5, <1>6, Zenon DEF Typed, StateTyped, Callbacks
<1>13. FdInv'
  BY <1>1, <1>2, <1>3, <1>4, <1>5, <1>6, <1>7, <1>8, <1>9, <1>10, FdKept, Zenon DEF Typed,
     StateTyped
<1>14. TokenInv'
  BY <1>1, <1>2, <1>3, <1>4, <1>5, <1>6, <1>7, <1>8, <1>9, <1>10, TokenKept, Zenon DEF Typed,
     StateTyped
<1>15. HandlerInv'
  BY <1>1, <1>2, <1>3, <1>4, <1>5, <1>6, <1>7, <1>8, <1>9, <1>10, HandlerStays, Zenon
<1>16. RequestInv'
  BY <1>1, <1>2, <1>3, <1>4, <1>5, <1>6, <1>7, <1>8, <1>9, <1>10, RequestKept,
     RequestMessage, Zenon
<1>17. StopInv'
  <2>1. \A u \in Threads : (u # t /\ pc[u] \in RequestPcs) => twoStops
    BY <1>2, <1>1, <1>7, <1>8, <1>9, <1>10 DEF RequestInv, StopInv, HoldPcs, StopPcs
  <2> QED
    BY <1>1, <1>7, <1>8, <1>9, <1>10, <1>4, <2>1, Zenon DEF StopInv
<1> QED
  BY <1>11, <1>12, <1>13, <1>14, <1>15, <1>16, <1>17 DEF Typed

\* A request whose handler is cleared is in no handler.
LEMMA InterruptTakenKeeps ==
  ASSUME IInv, NEW t \in Threads, InterruptTaken(t), taken[t] \notin handler
  PROVE  IInv'
<1> USE CvdAssumption DEF IInv, Fds, NoOne
<1>1. pc[t] = "strike" /\ pc' = [pc EXCEPT ![t] = "take"] /\ fd' = fd
  BY Zenon DEF InterruptTaken, Goto, Interrupt, mainVars, stopVars, epollVars, workVars,
     reqVars, cmdVars, clientVars, histVars
<1>2. UNCHANGED <<main, carry, conn>> /\ UNCHANGED callbacks_
  BY Zenon DEF InterruptTaken, Goto, Interrupt, mainVars, stopVars, epollVars, workVars,
     reqVars, cmdVars, clientVars, histVars
<1>3. UNCHANGED <<running_, joined, twoStops>>
  BY Zenon DEF InterruptTaken, Goto, Interrupt, mainVars, stopVars, epollVars, workVars,
     reqVars, cmdVars, clientVars, histVars
<1>4. UNCHANGED <<ongoing_requests_, handler, thread_id, taken>>
  BY Zenon DEF InterruptTaken, Goto, Interrupt, mainVars, stopVars, epollVars, workVars,
     reqVars, cmdVars, clientVars, histVars
<1>5. UNCHANGED <<exists, failed, subprocess_, child>>
  BY Zenon DEF InterruptTaken, Goto, Interrupt, mainVars, stopVars, epollVars, workVars,
     reqVars, cmdVars, clientVars, histVars
<1>6. \A u \in Threads : u # t => pc'[u] = pc[u] /\ fd'[u] = fd[u]
  BY <1>1, Zenon DEF Typed, WorkerTyped
<1>7. pc'[t] = "take" /\ fd'[t] = fd[t]
  BY <1>1, Zenon DEF Typed, WorkerTyped
<1>8. /\ "strike" \in Pcs \cap MessagePcs \cap HoldPcs \cap StopPcs
       /\ "strike" \notin ClientPcs \cup RequestPcs
  BY Zenon DEF Pcs, MessagePcs, ClientPcs, RequestPcs, HoldPcs, StopPcs, HandlerPcs
<1>9. /\ "take" \in Pcs \cap MessagePcs \cap StopPcs
       /\ "take" \notin ClientPcs \cup RequestPcs \cup HoldPcs
  BY Zenon DEF Pcs, MessagePcs, ClientPcs, RequestPcs, HoldPcs, StopPcs, HandlerPcs
<1>10. WorkerTyped'
  BY <1>1, <1>2, <1>3, <1>4, <1>5, <1>8, <1>9, Zenon DEF Typed, WorkerTyped
<1>11. StateTyped'
  BY <1>2, <1>3, <1>4, <1>5, Zenon DEF Typed, StateTyped, Callbacks
<1>12. FdInv'
  BY <1>1, <1>2, <1>3, <1>4, <1>5, <1>6, <1>7, <1>8, <1>9, FdKept, Zenon DEF Typed, StateTyped
<1>13. TokenInv'
  BY <1>1, <1>2, <1>3, <1>4, <1>5, <1>6, <1>7, <1>8, <1>9, TokenKept, Zenon DEF Typed,
     StateTyped
<1>14. HandlerInv'
  BY <1>1, <1>2, <1>3, <1>4, <1>5, <1>6, <1>7, <1>8, <1>9, HandlerStays, ZenonT(30)
<1>15. RequestInv'
  BY <1>1, <1>6, <1>7, <1>8, <1>9, <1>4, SMTT(20) DEF RequestInv
<1>16. StopInv'
  BY <1>1, <1>2, <1>3, <1>4, <1>5, <1>6, <1>7, <1>8, <1>9, StopKept, Zenon
<1> QED
  BY <1>10, <1>11, <1>12, <1>13, <1>14, <1>15, <1>16, Zenon DEF Typed

\* A request of a joined thread, or of the caller of Stop, has nobody else at work.
LEMMA LockThreadsKeeps ==
  ASSUME IInv, NEW t \in Threads, LockThreads(t), thread_id[taken[t]] \in joined \cup {t}
  PROVE  IInv'
<1> USE CvdAssumption DEF IInv, Fds, NoOne
<1>1. pc[t] = "lock" /\ pc' = [pc EXCEPT ![t] = "take"] /\ fd' = fd
  BY Zenon DEF LockThreads, Goto, mainVars, stopVars, epollVars, workVars, reqVars, cmdVars,
     clientVars, histVars
<1>2. UNCHANGED <<main, carry, conn>> /\ UNCHANGED callbacks_
  BY Zenon DEF LockThreads, Goto, mainVars, stopVars, epollVars, workVars, reqVars, cmdVars,
     clientVars, histVars
<1>3. UNCHANGED <<running_, joined, twoStops>>
  BY Zenon DEF LockThreads, Goto, mainVars, stopVars, epollVars, workVars, reqVars, cmdVars,
     clientVars, histVars
<1>4. UNCHANGED <<ongoing_requests_, handler, thread_id, taken>>
  BY Zenon DEF LockThreads, Goto, mainVars, stopVars, epollVars, workVars, reqVars, cmdVars,
     clientVars, histVars
<1>5. UNCHANGED <<exists, failed, subprocess_, child>>
  BY Zenon DEF LockThreads, Goto, mainVars, stopVars, epollVars, workVars, reqVars, cmdVars,
     clientVars, histVars
<1>6. \A u \in Threads : u # t => pc'[u] = pc[u] /\ fd'[u] = fd[u]
  BY <1>1 DEF Typed, WorkerTyped
<1>7. pc'[t] = "take" /\ fd'[t] = fd[t]
  BY <1>1 DEF Typed, WorkerTyped
<1>8. /\ "lock" \in Pcs \cap MessagePcs \cap HoldPcs \cap StopPcs
       /\ "lock" \notin ClientPcs \cup RequestPcs
  BY DEF Pcs, MessagePcs, ClientPcs, RequestPcs, HoldPcs, StopPcs, HandlerPcs
<1>9. /\ "take" \in Pcs \cap MessagePcs \cap StopPcs
       /\ "take" \notin ClientPcs \cup RequestPcs \cup HoldPcs
  BY Zenon DEF Pcs, MessagePcs, ClientPcs, RequestPcs, HoldPcs, StopPcs, HandlerPcs
<1>10. \A u \in Threads : pc[u] \in RequestPcs => fd[u] # taken[t]
  BY <1>1, <1>6, <1>7, <1>8, <1>9 DEF RequestInv, StopInv, RequestPcs, HandlerPcs
<1>11. WorkerTyped'
  BY <1>1, <1>2, <1>3, <1>4, <1>5, <1>8, <1>9, Zenon DEF Typed, WorkerTyped
<1>12. StateTyped'
  BY <1>2, <1>3, <1>4, <1>5, Zenon DEF Typed, StateTyped, Callbacks
<1>13. FdInv'
  BY <1>1, <1>2, <1>3, <1>4, <1>5, <1>6, <1>7, <1>8, <1>9, FdKept, Zenon DEF Typed, StateTyped
<1>14. TokenInv'
  BY <1>1, <1>2, <1>3, <1>4, <1>5, <1>6, <1>7, <1>8, <1>9, TokenKept, Zenon DEF Typed,
     StateTyped
<1>15. HandlerInv'
  BY <1>1, <1>2, <1>3, <1>4, <1>5, <1>6, <1>7, <1>8, <1>9, HandlerStays, ZenonT(30)
<1>16. RequestInv'
  BY <1>1, <1>6, <1>7, <1>8, <1>9, <1>4, <1>10 DEF RequestInv
<1>17. StopInv'
  BY <1>1, <1>2, <1>3, <1>4, <1>5, <1>6, <1>7, <1>8, <1>9, StopKept, Zenon
<1> QED
  BY <1>11, <1>12, <1>13, <1>14, <1>15, <1>16, <1>17, Zenon DEF Typed

\* The thread that was joined has left its handler.
LEMMA JoinReturnsKeeps ==
  ASSUME IInv, NEW t \in Threads, JoinReturns(t)
  PROVE  IInv'
<1> USE CvdAssumption DEF IInv, Fds, NoOne
<1>1. pc[t] = "join" /\ pc' = [pc EXCEPT ![t] = "take"] /\ fd' = fd
  BY Zenon DEF JoinReturns, Goto, mainVars, stopVars, epollVars, workVars, reqVars, cmdVars,
     clientVars, histVars
<1>2. UNCHANGED <<main, carry, conn>> /\ UNCHANGED callbacks_
  BY Zenon DEF JoinReturns, Goto, mainVars, stopVars, epollVars, workVars, reqVars, cmdVars,
     clientVars, histVars
<1>3. UNCHANGED <<running_, twoStops>> /\ joined' = joined \cup {thread_id[taken[t]]}
  BY Zenon DEF JoinReturns, Goto, mainVars, stopVars, epollVars, workVars, reqVars, cmdVars,
     clientVars, histVars
<1>4. UNCHANGED <<ongoing_requests_, handler, thread_id, taken>>
  BY Zenon DEF JoinReturns, Goto, mainVars, stopVars, epollVars, workVars, reqVars, cmdVars,
     clientVars, histVars
<1>5. UNCHANGED <<exists, failed, subprocess_, child>>
  BY Zenon DEF JoinReturns, Goto, mainVars, stopVars, epollVars, workVars, reqVars, cmdVars,
     clientVars, histVars
<1>6. pc[thread_id[taken[t]]] = "exited"
  BY Zenon DEF JoinReturns, Goto, mainVars, stopVars, epollVars, workVars, reqVars, cmdVars,
     clientVars, histVars
<1>7. \A u \in Threads : u # t => pc'[u] = pc[u] /\ fd'[u] = fd[u]
  BY <1>1, Zenon DEF Typed, WorkerTyped
<1>8. pc'[t] = "take" /\ fd'[t] = fd[t]
  BY <1>1, Zenon DEF Typed, WorkerTyped
<1>9. /\ "join" \in Pcs \cap MessagePcs \cap HoldPcs \cap StopPcs
       /\ "join" \notin ClientPcs \cup RequestPcs
  BY Zenon DEF Pcs, MessagePcs, ClientPcs, RequestPcs, HoldPcs, StopPcs, HandlerPcs
<1>10. /\ "take" \in Pcs \cap MessagePcs \cap StopPcs
       /\ "take" \notin ClientPcs \cup RequestPcs \cup HoldPcs
  BY DEF Pcs, MessagePcs, ClientPcs, RequestPcs, HoldPcs, StopPcs, HandlerPcs
<1>11. \A u \in Threads : pc[u] \in RequestPcs => fd[u] # taken[t]
  BY <1>6, Zenon DEF RequestInv, RequestPcs, HandlerPcs
<1>12. WorkerTyped'
  BY <1>1, <1>2, <1>3, <1>4, <1>5, <1>6, <1>9, <1>10, Zenon DEF Typed, WorkerTyped
<1>13. StateTyped'
  BY <1>2, <1>3, <1>4, <1>5, <1>6, Zenon DEF Typed, StateTyped, Callbacks
<1>14. FdInv'
  <2>1. \A f \in Fds : callbacks_'[f] \in {callbacks_[f], "none"}
    BY <1>2, Zenon
  <2>2. \A u \in Threads : pc'[u] = "AcceptClient" => pc[u] = "AcceptClient" /\ fd'[u] = fd[u]
    BY <1>7, <1>8, Zenon
  <2>3. \A u \in Threads : pc'[u] \in ClientPcs \cup {"interrupt_cb"}
                             => pc[u] \in ClientPcs \cup {"interrupt_cb"} /\ fd'[u] = fd[u]
    BY <1>7, <1>8, <1>10, Zenon
  <2> QED
    BY <2>1, <2>2, <2>3, FdKept, Zenon
<1>15. TokenInv'
  BY <1>1, <1>2, <1>3, <1>4, <1>5, <1>6, <1>7, <1>8, <1>9, <1>10, TokenKept, ZenonT(30) DEF Typed,
     StateTyped
<1>16. HandlerInv'
  BY <1>1, <1>2, <1>3, <1>4, <1>5, <1>6, <1>7, <1>8, <1>9, <1>10, HandlerStays, Zenon
<1>17. RequestInv'
  <2> SUFFICES ASSUME NEW u \in Threads, pc'[u] \in RequestPcs
               PROVE  /\ thread_id'[fd'[u]] = u /\ fd'[u] \in handler'
                      /\ \/ fd'[u] \in ongoing_requests_'
                         \/ \E s \in Threads : pc'[s] \in HoldPcs /\ taken'[s] = fd'[u]
    BY Zenon DEF RequestInv
  <2>1. u # t
    BY <1>8, <1>10, Zenon
  <2>2. pc[u] \in RequestPcs /\ fd'[u] = fd[u] /\ fd[u] # taken[t]
    BY <1>7, <1>11, <2>1, Zenon
  <2>3. \/ fd[u] \in ongoing_requests_
        \/ \E s \in Threads : pc'[s] \in HoldPcs /\ taken[s] = fd[u]
    BY <1>7, <2>2, Zenon DEF RequestInv
  <2> QED
    BY <1>4, <2>2, <2>3, Zenon DEF RequestInv
<1>18. StopInv'
  <2>1. \A u \in Threads : u \in joined' => pc'[u] = "exited"
    BY <1>1, <1>3, <1>6, <1>7, Zenon DEF StopInv
  <2>2. \A u \in Threads : pc'[u] \in StopPcs => pc[u] \in StopPcs
    BY <1>1, <1>7, <1>9, Zenon
  <2>3. \A u \in Threads : pc'[u] = "stopped" => pc[u] = "stopped"
    BY <1>7, <1>8, Zenon
  <2>4. \A u \in Threads : pc'[u] \in RequestPcs => pc[u] \in RequestPcs
    BY <1>7, <1>8, <1>10, Zenon
  <2>5. \A u \in Threads : pc'[u] \in StopPcs \cup {"stopped"} => ~running_'
    BY <1>3, <2>2, <2>3, Zenon DEF StopInv
  <2>6. \A s, u \in Threads : (s # u /\ pc'[s] \in StopPcs /\ pc'[u] \in StopPcs) => twoStops'
    BY <1>3, <2>2, Zenon DEF StopInv
  <2>7. \A s, u \in Threads :
          (pc'[s] = "stopped" /\ s # u /\ ~twoStops') => pc'[u] \notin RequestPcs
    BY <1>3, <2>3, <2>4, Zenon DEF StopInv
  <2> QED
    BY <2>1, <2>5, <2>6, <2>7, Zenon DEF StopInv
<1> QED
  BY <1>12, <1>13, <1>14, <1>15, <1>16, <1>17, <1>18 DEF Typed
=============================================================================
