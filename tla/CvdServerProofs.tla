-------------------------- MODULE CvdServerProofs --------------------------
(***************************************************************************)
(* The steps of a restart and of CvdServerMain keep the inductive          *)
(* invariant too: OneWorkerPerClient, NoStaleInterrupt and                 *)
(* StopLeavesNoHandler of CvdServer follow, for every number of worker     *)
(* threads, set of clients and bound on requests. A second invariant, on   *)
(* top of the first, balances requests and answers: every request is       *)
(* answered at most once, which completes TypeOK.                          *)
(***************************************************************************)
EXTENDS CvdStepProofs

\* The new process starts afresh; its client has neither callback nor worker.
LEMMA ExecKeeps ==
  ASSUME IInv, NEW t \in Threads, Exec(t)
  PROVE  IInv'
<1> USE CvdAssumption DEF IInv, Fds, NoOne
<1>1. /\ pc' = [u \in Threads |-> "loop"] /\ fd' = [u \in Threads |-> "server"]
      /\ taken' = [u \in Threads |-> NoOne]
      /\ callbacks_' = [f \in Fds |-> "none"] /\ carry' = fd[t] /\ fd[t] # "server"
  BY DEF Exec
<1>2. /\ handler' = {} /\ ongoing_requests_' = {} /\ thread_id' = [c \in Clients |-> 1]
      /\ joined' = {} /\ subprocess_' = {} /\ child' = [c \in Clients |-> "none"]
  BY DEF Exec
<1>3. \A c \in Clients : conn'[c] = conn[c] \/ conn'[c] = "dropped"
  BY DEF Exec
<1>4. conn' \in [Clients -> {"none", "backlog", "open", "dropped"}]
  BY DEF Exec, Typed, StateTyped
<1>5. fd[t] \in Clients /\ InMessage(t, fd[t])
  BY DEF Exec, Typed, WorkerTyped, InMessage, MessagePcs
<1>6. conn[fd[t]] \notin {"none", "backlog"}
  BY <1>5 DEF TokenInv, Idle
<1>7. "loop" \in Pcs /\ "loop" \notin MessagePcs \cup ClientPcs \cup RequestPcs \cup StopPcs
  BY DEF Pcs, MessagePcs, ClientPcs, RequestPcs, StopPcs, HandlerPcs
<1>8. Typed'
  BY <1>1, <1>2, <1>4, <1>5, <1>7 DEF Typed, WorkerTyped, StateTyped, Callbacks, Threads
<1>9. FdInv'
  BY <1>1, <1>7 DEF FdInv
<1>10. TokenInv'
  <2>1. \A u \in Threads, c \in Clients : ~InMessage(u, c)'
    BY <1>1, <1>7 DEF InMessage
  <2>2. OneWorkerPerClient'
    BY <1>1 DEF OneWorkerPerClient
  <2>3. \A c \in Clients : Idle(c)'
    BY <1>1, <2>1 DEF Idle
  <2> QED
    BY <1>1, <1>3, <1>5, <1>6, <2>1, <2>2, <2>3 DEF TokenInv, Idle, InMessage
<1>11. HandlerInv'
  BY <1>1, <1>2 DEF HandlerInv
<1>12. RequestInv'
  BY <1>1, <1>7 DEF RequestInv
<1>13. StopInv'
  BY <1>1, <1>2, <1>7 DEF StopInv
<1> QED
  BY <1>8, <1>9, <1>10, <1>11, <1>12, <1>13

(* Steps of CvdServerMain. *)
LEMMA MainKeeps ==
  ASSUME IInv, MainStep
  PROVE  IInv'
<1> USE CvdAssumption DEF IInv, Fds, NoOne
<1> DEFINE Rest == UNCHANGED <<pc, fd, taken, carry, conn, ongoing_requests_, handler,
                               thread_id, exists, failed, subprocess_, child>>
<1>1. Rest
  BY DEF MainStep, StartServer, AcceptCarryoverClient, DestroyServer, Join, Register,
     mainVars, workVars, reqVars, cmdVars, clientVars, histVars
<1>2. WorkerTyped' /\ HandlerInv' /\ RequestInv'
  BY <1>1, HandlerStays, RequestKept DEF Typed, WorkerTyped
<1>3. CASE StartServer
  <2>1. /\ callbacks_' = [callbacks_ EXCEPT !["server"] = "AcceptClient"] /\ main = "start"
        /\ UNCHANGED <<running_, joined, twoStops>>
    BY <1>3 DEF StartServer, Register, stopVars, histVars
  <2>2. \A c \in Clients : callbacks_'[c] = callbacks_[c]
    BY <2>1 DEF Typed, StateTyped
  <2>3. StateTyped'
    BY <1>1, <2>1 DEF Typed, StateTyped, Callbacks
  <2>4. FdInv'
    BY <1>1, <2>1, <2>2 DEF FdInv, Typed, StateTyped
  <2>5. TokenInv'
    BY <1>1, <2>1, <2>2, TokenKept DEF Typed, StateTyped
  <2>6. StopInv'
    BY <1>1, <2>1, StopKept
  <2> QED
    BY <1>2, <2>3, <2>4, <2>5, <2>6 DEF Typed
<1>4. CASE AcceptCarryoverClient
  <2>1. /\ callbacks_' = [callbacks_ EXCEPT ![carry] = "HandleMessage"] /\ main = "carry"
        /\ main' \notin {"start", "carry"} /\ UNCHANGED <<running_, joined, twoStops>>
    BY <1>4 DEF AcceptCarryoverClient, Register, stopVars, histVars
  <2>2. \A c \in Fds : callbacks_'[c] = (IF c = carry THEN "HandleMessage" ELSE callbacks_[c])
    BY <2>1 DEF Typed, StateTyped
  <2>3. StateTyped'
    BY <1>1, <2>1, Zenon DEF Typed, StateTyped, Callbacks
  <2>4. FdInv'
    BY <1>1, <2>2 DEF FdInv, Typed, StateTyped
  <2>5. TokenInv'
    BY <1>1, <2>1, <2>2 DEF TokenInv, Idle, InMessage, OneWorkerPerClient, Typed, StateTyped
  <2>6. StopInv'
    BY <1>1, <2>1, StopKept
  <2> QED
    BY <1>2, <2>3, <2>4, <2>5, <2>6 DEF Typed
<1>5. CASE DestroyServer \/ Join
  <2>1. UNCHANGED callbacks_ /\ main' \notin {"start", "carry"}
    BY <1>5 DEF DestroyServer, Join, epollVars
  <2>2. StateTyped' /\ FdInv' /\ TokenInv'
    BY <1>1, <2>1, FdKept, TokenKept DEF Typed, StateTyped
  <2>3. StopInv'
    BY <1>1, <1>5 DEF DestroyServer, Join, StopInv, histVars
  <2> QED
    BY <1>2, <2>2, <2>3 DEF Typed
<1> QED
  BY <1>3, <1>4, <1>5 DEF MainStep

----------------------------------------------------------------------------
LEMMA InitIInv ==
  Init => IInv
<1> SUFFICES ASSUME Init PROVE IInv
  OBVIOUS
<1> USE CvdAssumption DEF Init, Threads, Fds, NoOne
<1>1. Typed
  <2>1. WorkerTyped
    BY DEF WorkerTyped, Pcs
  <2>2. StateTyped
    BY DEF StateTyped, Callbacks
  <2> QED
    BY <2>1, <2>2 DEF Typed
<1>2. \A t \in Threads : pc[t] = "loop" /\ fd[t] = "server"
  OBVIOUS
<1>3. FdInv
  BY <1>2 DEF FdInv, ClientPcs, MessagePcs, HandlerPcs, StopPcs
<1>4. TokenInv
  BY <1>2 DEF TokenInv, Idle, InMessage, OneWorkerPerClient, MessagePcs, HandlerPcs, StopPcs
<1>5. HandlerInv
  BY <1>2 DEF HandlerInv
<1>6. RequestInv
  BY <1>2 DEF RequestInv, RequestPcs, HandlerPcs
<1>7. StopInv
  BY <1>2 DEF StopInv, StopPcs, RequestPcs, HandlerPcs
<1> QED
  BY <1>1, <1>3, <1>4, <1>5, <1>6, <1>7 DEF IInv

LEMMA NextIInv ==
  IInv /\ [Next]_vars => IInv'
<1> SUFFICES ASSUME IInv, [Next]_vars PROVE IInv'
  OBVIOUS
<1>0. CASE UNCHANGED vars
  BY <1>0, StillKeeps, Zenon DEF IInv, Typed, StateTyped, Quiet, vars, mainVars, stopVars, epollVars,
     workVars, reqVars, cmdVars, clientVars, histVars
<1>1. ASSUME NEW t \in Threads, WorkerStep(t) PROVE IInv'
  BY <1>1, QuietWorker, TakeCallbackKeeps, AcceptClientKeeps, HandleMessageKeeps,
     RegisterInterruptKeeps, ClearHandlerKeeps, ReturnResponseKeeps, ReturnErrorKeeps,
     ReregisterKeeps, StopKeeps, TakeRequestKeeps, NoneLeftKeeps, InterruptTakenKeeps,
     LockThreadsKeeps, JoinReturnsKeeps, ExecKeeps, Zenon
     DEF WorkerStep
<1> QED
  BY <1>0, <1>1, QuietOther, MainKeeps DEF Next

\* IInv holds in every reachable state.
THEOREM InductiveInvariant ==
  Spec => []IInv
BY InitIInv, NextIInv, PTL DEF Spec

\* The one-shot registrations of AcceptClient, HandleMessage and HandleRequest never
\* give two workers messages of the same client.
THEOREM OneWorkerPerClientHolds ==
  Spec => []OneWorkerPerClient
<1>1. IInv => OneWorkerPerClient
  BY DEF IInv, TokenInv
<1> QED
  BY <1>1, InductiveInvariant, PTL

\* Neither interrupt_cb nor Stop meets a destroyed handler of a request whose
\* Handle did not fail, nor a pid that SubprocessWaiter::Wait has freed.
THEOREM NoStaleInterruptHolds ==
  Spec => []NoStaleInterrupt
<1>1. IInv => NoStaleInterrupt
  BY DEF IInv, HandlerInv, NoStaleInterrupt
<1> QED
  BY <1>1, InductiveInvariant, PTL

\* A single Stop returns only when no other worker is inside a handler.
THEOREM StopLeavesNoHandlerHolds ==
  Spec => []StopLeavesNoHandler
<1>1. IInv => StopLeavesNoHandler
  BY DEF IInv, StopInv, RequestPcs, StopLeavesNoHandler
<1> QED
  BY <1>1, InductiveInvariant, PTL

----------------------------------------------------------------------------
(* The rest of TypeOK. The bound on the answers needs the balance below.      *)

MainTyped ==
  /\ main \in {"start", "carry", "destroy", "join", "exited", "aborted"}
  /\ at \in 1 .. (N + 1)
  /\ running_ \in BOOLEAN /\ twoStops \in BOOLEAN
  /\ joined \subseteq Threads /\ threads_mutex_ \in Threads \cup {0}
  /\ wakeups \in Nat
  /\ \A t \in Threads : pc[t] \in HoldPcs => taken[t] \in Clients

EventTyped ==
  /\ armed \in [Fds -> {"off", "in", "hup"}]
  /\ ev \in [Threads -> SUBSET {"in", "hup"}]

CommandTyped ==
  /\ exists \subseteq Clients /\ failed \subseteq Clients
  /\ interrupted_ \subseteq Clients /\ subprocess_ \subseteq Clients

ClientTyped ==
  /\ left \subseteq Clients /\ inbox \subseteq Clients
  /\ req \in [Clients -> Kinds \cup {"none"}]
  /\ sent \in [Clients -> 0 .. MaxRequests] /\ answered \in [Clients -> Nat]

RestTyped == MainTyped /\ EventTyped /\ CommandTyped /\ ClientTyped

\* A worker that handles a message works for a client.
LEMMA MessageOfClient ==
  ASSUME IInv, NEW t \in Threads,
         pc[t] \in {"HandleMessage", "register", "Handle", "Wait", "reap", "done", "unregister",
                    "error", "respond", "reregister", "failed", "interrupt_cb"}
  PROVE  fd[t] \in Clients
<1>1. pc[t] \in ClientPcs \cup {"interrupt_cb"}
  BY Zenon DEF ClientPcs, MessagePcs, HandlerPcs, StopPcs
<1> QED
  BY <1>1 DEF IInv, FdInv

LEMMA NextMainTyped ==
  ASSUME IInv, MainTyped, [Next]_vars
  PROVE  MainTyped'
<1> USE CvdAssumption DEF MainTyped
<1>0. pc \in [Threads -> Pcs] /\ taken \in [Threads -> Clients \cup {NoOne}]
      /\ thread_id \in [Clients -> Threads] /\ ongoing_requests_ \subseteq Clients
  BY Zenon DEF IInv, Typed, WorkerTyped, StateTyped
<1>1. ASSUME UNCHANGED <<main, at, running_, twoStops, joined, threads_mutex_, wakeups>>,
             \A t \in Threads : pc'[t] \in HoldPcs => taken'[t] \in Clients
      PROVE  MainTyped'
  BY <1>1
<1>2. ASSUME NEW t \in Threads, NEW p, Goto(t, p), UNCHANGED taken,
             p \in HoldPcs => pc[t] \in HoldPcs
      PROVE  \A u \in Threads : pc'[u] \in HoldPcs => taken'[u] \in Clients
  BY <1>0, <1>2 DEF Goto
<1>3. "loop" \notin HoldPcs /\ "event" \notin HoldPcs /\ "wait" \notin HoldPcs
      /\ "exited" \notin HoldPcs /\ "take" \notin HoldPcs /\ "stopped" \notin HoldPcs
      /\ "done" \notin HoldPcs /\ "error" \notin HoldPcs /\ "Stop" \notin HoldPcs
      /\ "strike" \in HoldPcs /\ "lock" \in HoldPcs /\ "join" \in HoldPcs
  BY DEF HoldPcs
<1>4. ASSUME NEW t \in Threads, EpollWait(t) \/ AcceptClient(t) \/ AcceptFails(t)
             \/ AbandonClient(t) \/ SendResponse(t) \/ Reregister(t) \/ SendFailure(t)
             \/ interrupt_cb(t) \/ HandleMessage(t) \/ RefuseRequest(t) \/ RegisterInterrupt(t)
             \/ ClearHandler(t) \/ ReturnResponse(t) \/ ReturnError(t)
      PROVE  MainTyped'
  <2>1. UNCHANGED <<main, at, running_, twoStops, joined, threads_mutex_, wakeups, taken>>
    BY <1>4, Zenon DEF EpollWait, AcceptClient, AcceptFails, AbandonClient, SendResponse, Reregister,
       SendFailure, interrupt_cb, HandleMessage, RefuseRequest, RegisterInterrupt, ClearHandler,
       ReturnResponse, ReturnError, mainVars, stopVars, workVars, histVars
  <2>2. \E p : Goto(t, p) /\ p \notin HoldPcs
    BY <1>4 DEF EpollWait, AcceptClient, AcceptFails, AbandonClient, SendResponse, Reregister,
       SendFailure, interrupt_cb, HandleMessage, RefuseRequest, RegisterInterrupt, ClearHandler,
       ReturnResponse, ReturnError, EndEvent, HoldPcs
  <2> QED
    BY <1>1, <1>2, <2>1, <2>2, Zenon
<1>5. ASSUME NEW t \in Threads, TakeCallback(t)
      PROVE  MainTyped'
  <2>1. UNCHANGED <<main, at, running_, twoStops, joined, threads_mutex_, wakeups, taken>>
    BY <1>5 DEF TakeCallback, mainVars, stopVars, histVars
  <2>2. \A f \in Fds : callbacks_[f] \notin HoldPcs
    BY DEF IInv, Typed, StateTyped, Callbacks, HoldPcs
  <2>3. fd[t] \in Fds
    BY DEF IInv, Typed, WorkerTyped
  <2> QED
    BY <1>1, <1>2, <1>3, <1>5, <2>1, <2>2, <2>3 DEF TakeCallback, EndEvent
<1>6. ASSUME NEW t \in Threads, StartCommand(t) \/ HandleEndsEarly(t) \/ StopServer(t)
             \/ WaitReturns(t) \/ Reap(t) \/ NoneLeft(t) \/ StopReturns(t)
      PROVE  MainTyped'
  <2>1. UNCHANGED <<main, at, running_, twoStops, joined, threads_mutex_, wakeups, taken>>
    BY <1>6 DEF StartCommand, HandleEndsEarly, StopServer, WaitReturns, Reap, NoneLeft,
       StopReturns, mainVars, stopVars, workVars, histVars
  <2>2. \E p : Goto(t, p) /\ p \notin HoldPcs
    BY <1>6 DEF StartCommand, HandleEndsEarly, StopServer, WaitReturns, Reap, NoneLeft,
       StopReturns, HoldPcs
  <2> QED
    BY <1>1, <1>2, <2>1, <2>2
<1>7. ASSUME NEW t \in Threads, WakeUp(t) \/ Loop(t) \/ InterruptTaken(t)
      PROVE  MainTyped'
  <2>1. /\ UNCHANGED <<main, at, running_, twoStops, joined, threads_mutex_, taken>>
        /\ wakeups' \in Nat
    BY <1>7 DEF WakeUp, Loop, InterruptTaken, mainVars, stopVars, workVars, histVars
  <2>2. \E p : Goto(t, p) /\ (p \in HoldPcs => pc[t] \in HoldPcs)
    BY <1>3, <1>7 DEF WakeUp, Loop, InterruptTaken
  <2>3. \A u \in Threads : pc'[u] \in HoldPcs => taken'[u] \in Clients
    BY <1>2, <2>1, <2>2
  <2> QED
    BY <2>1, <2>3
<1>8. ASSUME NEW t \in Threads, Stop(t)
      PROVE  MainTyped'
  <2>1. UNCHANGED <<main, at, joined, threads_mutex_, wakeups, taken>> /\ Goto(t, "take")
        /\ running_' \in BOOLEAN /\ twoStops' \in BOOLEAN
    BY <1>8, Zenon DEF Stop, mainVars, workVars
  <2> QED
    BY <1>2, <1>3, <2>1
<1>9. ASSUME NEW t \in Threads, TakeRequest(t)
      PROVE  MainTyped'
  <2>1. UNCHANGED <<main, at, running_, twoStops, joined, threads_mutex_, wakeups>>
        /\ Goto(t, "strike") /\ \E c \in Clients : taken' = [taken EXCEPT ![t] = c]
    BY <1>0, <1>9, Zenon DEF TakeRequest, mainVars, stopVars, histVars
  <2>2. \A u \in Threads : pc'[u] \in HoldPcs => taken'[u] \in Clients
    BY <1>0, <2>1 DEF Goto
  <2> QED
    BY <1>1, <2>1, <2>2
<1>10. ASSUME NEW t \in Threads, LockThreads(t) \/ JoinReturns(t)
       PROVE  MainTyped'
  <2>1. UNCHANGED <<main, at, running_, twoStops, wakeups, taken>>
        /\ threads_mutex_' \in {threads_mutex_, 0, t}
    BY <1>10 DEF LockThreads, JoinReturns, mainVars, workVars, histVars
  <2>2. \E p : Goto(t, p) /\ (p \in HoldPcs => pc[t] \in HoldPcs)
    BY <1>3, <1>10 DEF LockThreads, JoinReturns
  <2>3. joined' \subseteq Threads
    <3>1. taken[t] \in Clients
      BY <1>3, <1>10 DEF LockThreads, JoinReturns
    <3> QED
      BY <1>0, <1>10, <3>1 DEF LockThreads, JoinReturns
  <2>4. \A u \in Threads : pc'[u] \in HoldPcs => taken'[u] \in Clients
    BY <1>2, <2>1, <2>2
  <2> QED
    BY <2>1, <2>3, <2>4
<1>11. ASSUME NEW t \in Threads, Exec(t)
       PROVE  MainTyped'
  <2>1. main' = "start" /\ at' = 1 /\ running_' = TRUE /\ joined' = {} /\ threads_mutex_' = 0
        /\ wakeups' = 0 /\ pc' = [u \in Threads |-> "loop"] /\ twoStops' = twoStops
    BY <1>11, Zenon DEF Exec, histVars
  <2> QED
    BY <1>3, <2>1
<1>12. CASE MainStep \/ \E t \in Threads : InterruptDestroyed(t) \/ DoubleJoin(t)
  <2>1. UNCHANGED <<pc, taken, twoStops, threads_mutex_>>
    BY <1>12 DEF MainStep, StartServer, AcceptCarryoverClient, DestroyServer, Join,
       InterruptDestroyed, DoubleJoin, workVars, stopVars, histVars
  <2>2. CASE StartServer \/ AcceptCarryoverClient \/ \E t \in Threads : InterruptDestroyed(t)
                                                                    \/ DoubleJoin(t)
    <3>1. UNCHANGED <<at, running_, joined, wakeups>>
          /\ main' \in {"start", "carry", "destroy", "join", "exited", "aborted"}
      BY <2>2 DEF StartServer, AcceptCarryoverClient, InterruptDestroyed, DoubleJoin, stopVars
    <3> QED
      BY <2>1, <3>1
  <2>3. CASE DestroyServer
    <3>1. UNCHANGED <<at, joined>> /\ running_' = FALSE /\ wakeups' = wakeups + 1 /\ main' = "join"
      BY <2>3 DEF DestroyServer
    <3>2. running_' \in BOOLEAN
      BY <3>1, Zenon
    <3>3. wakeups' \in Nat
      BY <3>1
    <3> QED
      BY <2>1, <3>1, <3>2, <3>3
  <2>4. CASE Join
    <3>1. UNCHANGED <<running_, wakeups>> /\ main' \in {"join", "exited"}
          /\ \/ UNCHANGED <<at, joined>>
             \/ ~(at > N) /\ joined' = joined \cup {at} /\ at' = at + 1
      BY <2>4 DEF Join
    <3>2. at \in 1 .. (N + 1) /\ joined \subseteq Threads
      OBVIOUS
    <3>3. at' \in 1 .. (N + 1) /\ joined' \subseteq Threads
      <4>1. N \in Nat
        OBVIOUS
      <4> HIDE CvdAssumption DEF MainTyped
      <4>2. ~(at > N) => at + 1 \in 1 .. (N + 1) /\ at \in Threads
        BY <3>2, <4>1 DEF Threads
      <4> QED
        BY <3>1, <3>2, <4>2
    <3> QED
      BY <2>1, <3>1, <3>3
  <2> QED
    BY <1>12, <2>2, <2>3, <2>4, Zenon DEF MainStep
<1>13. CASE UNCHANGED vars \/ \E c \in Clients : Connect(c) \/ Send(c) \/ Leave(c) \/ ChildExits(c)
  <2>1. UNCHANGED <<main, at, running_, twoStops, joined, threads_mutex_, wakeups, taken, pc>>
    BY <1>13, Zenon DEF vars, Connect, Send, Leave, ChildExits, mainVars, stopVars, workVars, histVars
  <2> QED
    BY <1>1, <2>1, Zenon
<1> QED
  BY <1>4, <1>5, <1>6, <1>7, <1>8, <1>9, <1>10, <1>11, <1>12, <1>13, Zenon DEF Next, WorkerStep

LEMMA NextEventTyped ==
  ASSUME IInv, EventTyped, [Next]_vars
  PROVE  EventTyped'
<1> USE DEF EventTyped
<1>0. fd \in [Threads -> Fds]
  BY DEF IInv, Typed, WorkerTyped
<1>1. ASSUME UNCHANGED ev \/ \E t \in Threads : ev' = [ev EXCEPT ![t] = {}],
             \/ UNCHANGED armed
             \/ \E f \in Fds, m \in {"off", "in", "hup"} : armed' = [armed EXCEPT ![f] = m]
      PROVE  EventTyped'
  BY <1>1
<1>2. ASSUME NEW t \in Threads, EpollWait(t)
      PROVE  EventTyped'
  <2>1. PICK f \in Fds : ev' = [ev EXCEPT ![t] = Delivered(f)] /\ armed' = [armed EXCEPT ![f] = "off"]
    BY <1>2, Zenon DEF EpollWait
  <2>2. Delivered(f) \subseteq {"in", "hup"}
    BY DEF Delivered, Ready
  <2> QED
    BY <2>1, <2>2
<1>3. ASSUME NEW t \in Threads, AcceptClient(t)
      PROVE  EventTyped'
  <2>1. /\ \E c \in Clients : armed' = [armed EXCEPT ![c] = "in", !["server"] = "in"]
        /\ ev' = [ev EXCEPT ![t] = {}]
    BY <1>3, Zenon DEF AcceptClient, EndEvent
  <2> QED
    BY <2>1 DEF Fds
<1>4. ASSUME NEW t \in Threads, AbandonClient(t) \/ SendResponse(t) \/ Reregister(t)
             \/ SendFailure(t) \/ RegisterInterrupt(t) \/ ReturnResponse(t)
      PROVE  EventTyped'
  <2>1. \/ UNCHANGED armed
        \/ \E m \in {"off", "in", "hup"} : armed' = [armed EXCEPT ![fd[t]] = m]
    BY <1>4, Zenon DEF AbandonClient, SendResponse, Reregister, SendFailure, RegisterInterrupt,
       ReturnResponse, Remove, Register, epollVars
  <2>2. UNCHANGED ev \/ ev' = [ev EXCEPT ![t] = {}]
    BY <1>4 DEF AbandonClient, SendResponse, Reregister, SendFailure, RegisterInterrupt,
       ReturnResponse, EndEvent, workVars
  <2> QED
    BY <1>0, <1>1, <2>1, <2>2
<1>5. ASSUME NEW t \in Threads, TakeCallback(t) \/ interrupt_cb(t)
      PROVE  EventTyped'
  <2>1. UNCHANGED armed /\ (UNCHANGED ev \/ ev' = [ev EXCEPT ![t] = {}])
    BY <1>5, Zenon DEF TakeCallback, interrupt_cb, EndEvent, epollVars
  <2> QED
    BY <2>1
<1>6. ASSUME NEW t \in Threads, WakeUp(t) \/ Loop(t) \/ AcceptFails(t) \/ HandleMessage(t)
             \/ RefuseRequest(t) \/ ClearHandler(t) \/ ReturnError(t) \/ StartCommand(t)
             \/ HandleEndsEarly(t) \/ StopServer(t) \/ WaitReturns(t) \/ Reap(t)
      PROVE  EventTyped'
  BY <1>6, Zenon DEF WakeUp, Loop, AcceptFails, HandleMessage, RefuseRequest, ClearHandler, ReturnError,
     StartCommand, HandleEndsEarly, StopServer, WaitReturns, Reap, epollVars, workVars
<1>7. ASSUME NEW t \in Threads, Stop(t) \/ TakeRequest(t) \/ NoneLeft(t) \/ InterruptTaken(t)
             \/ LockThreads(t) \/ JoinReturns(t) \/ StopReturns(t) \/ InterruptDestroyed(t)
             \/ DoubleJoin(t)
      PROVE  EventTyped'
  BY <1>7, Zenon DEF Stop, TakeRequest, NoneLeft, InterruptTaken, LockThreads, JoinReturns, StopReturns,
     InterruptDestroyed, DoubleJoin, epollVars, workVars
<1>8. ASSUME NEW t \in Threads, Exec(t)
      PROVE  EventTyped'
  BY <1>8, Zenon DEF Exec
<1>9. CASE StartServer
  BY <1>9 DEF StartServer, Register, workVars, Fds
<1>10. CASE AcceptCarryoverClient
  BY <1>10, Zenon DEF AcceptCarryoverClient, Register, workVars
<1>11. CASE DestroyServer \/ Join \/ UNCHANGED vars
            \/ \E c \in Clients : Connect(c) \/ Send(c) \/ Leave(c) \/ ChildExits(c)
  BY <1>11 DEF DestroyServer, Join, vars, Connect, Send, Leave, ChildExits, epollVars, workVars
<1> QED
  BY <1>2, <1>3, <1>4, <1>5, <1>6, <1>7, <1>8, <1>9, <1>10, <1>11 DEF Next, WorkerStep, MainStep

LEMMA NextCommandTyped ==
  ASSUME IInv, CommandTyped, [Next]_vars
  PROVE  CommandTyped'
<1> USE DEF CommandTyped
<1>1. ASSUME UNCHANGED <<exists, failed, interrupted_, subprocess_>>
      PROVE  CommandTyped'
  BY <1>1
<1>2. ASSUME NEW c, Interrupt(c), UNCHANGED <<exists, failed>>
      PROVE  CommandTyped'
  <2>1. c \in handler \cap exists => c \in Clients
    BY Zenon
  <2> QED
    BY <1>2, <2>1 DEF Interrupt, cmdVars
<1>3. ASSUME NEW t \in Threads, HandleMessage(t) \/ ReturnResponse(t) \/ ReturnError(t)
             \/ StartCommand(t) \/ Reap(t)
      PROVE  CommandTyped'
  <2>1. fd[t] \in Clients
    BY <1>3, MessageOfClient, Zenon DEF HandleMessage, ReturnResponse, ReturnError, StartCommand, Reap
  <2> QED
    BY <1>3, <2>1, Zenon DEF HandleMessage, ReturnResponse, ReturnError, StartCommand, Reap,
       DestroyHandler, reqVars, cmdVars, histVars
<1>4. ASSUME NEW t \in Threads, interrupt_cb(t) \/ InterruptTaken(t)
      PROVE  CommandTyped'
  BY <1>2, <1>4, Zenon DEF interrupt_cb, InterruptTaken, reqVars, histVars
<1>5. ASSUME NEW t \in Threads, Exec(t)
      PROVE  CommandTyped'
  BY <1>5, Zenon DEF Exec, histVars
<1>6. ASSUME NEW t \in Threads, EpollWait(t) \/ WakeUp(t) \/ TakeCallback(t) \/ Loop(t)
             \/ AcceptClient(t) \/ AcceptFails(t) \/ AbandonClient(t) \/ RefuseRequest(t)
             \/ RegisterInterrupt(t) \/ ClearHandler(t) \/ SendResponse(t) \/ Reregister(t)
             \/ SendFailure(t)
      PROVE  CommandTyped'
  BY <1>1, <1>6, Zenon DEF EpollWait, WakeUp, TakeCallback, Loop, AcceptClient, AcceptFails,
     AbandonClient, RefuseRequest, RegisterInterrupt, ClearHandler, SendResponse, Reregister,
     SendFailure, reqVars, cmdVars, histVars
<1>7. ASSUME NEW t \in Threads, HandleEndsEarly(t) \/ StopServer(t) \/ WaitReturns(t) \/ Stop(t)
             \/ TakeRequest(t) \/ NoneLeft(t) \/ LockThreads(t) \/ JoinReturns(t)
             \/ StopReturns(t) \/ InterruptDestroyed(t) \/ DoubleJoin(t)
      PROVE  CommandTyped'
  BY <1>1, <1>7, Zenon DEF HandleEndsEarly, StopServer, WaitReturns, Stop, TakeRequest, NoneLeft,
     LockThreads, JoinReturns, StopReturns, InterruptDestroyed, DoubleJoin, reqVars, cmdVars,
     histVars
<1>8. CASE MainStep \/ UNCHANGED vars
           \/ \E c \in Clients : Connect(c) \/ Send(c) \/ Leave(c) \/ ChildExits(c)
  BY <1>1, <1>8, Zenon DEF MainStep, StartServer, AcceptCarryoverClient, DestroyServer, Join, vars,
     Connect, Send, Leave, ChildExits, reqVars, cmdVars, histVars
<1> QED
  BY <1>3, <1>4, <1>5, <1>6, <1>7, <1>8 DEF Next, WorkerStep

LEMMA NextClientTyped ==
  ASSUME IInv, ClientTyped, [Next]_vars
  PROVE  ClientTyped'
<1> USE CvdAssumption DEF ClientTyped
<1>1. ASSUME UNCHANGED <<left, inbox, req, sent, answered>>
      PROVE  ClientTyped'
  BY <1>1
<1>2. ASSUME NEW c \in Clients, Drop(c), UNCHANGED sent,
             \/ UNCHANGED answered
             \/ \E n \in {0, 1} : answered' = [answered EXCEPT ![c] = @ + n]
      PROVE  ClientTyped'
  BY <1>2 DEF Drop
<1>3. ASSUME NEW t \in Threads, AbandonClient(t) \/ Reregister(t) \/ SendFailure(t)
      PROVE  ClientTyped'
  <2>1. fd[t] \in Clients
    BY <1>3, MessageOfClient, Zenon DEF AbandonClient, Reregister, SendFailure
  <2>2. \/ UNCHANGED <<left, inbox, req, sent, answered>>
        \/ /\ Drop(fd[t]) /\ UNCHANGED sent
           /\ \/ UNCHANGED answered
              \/ \E n \in {0, 1} : answered' = [answered EXCEPT ![fd[t]] = @ + n]
    BY <1>3 DEF AbandonClient, Reregister, SendFailure
  <2> QED
    BY <1>1, <1>2, <2>1, <2>2, Zenon
<1>4. ASSUME NEW t \in Threads, SendResponse(t)
      PROVE  ClientTyped'
  <2>1. fd[t] \in Clients
    BY <1>4, MessageOfClient, Zenon DEF SendResponse
  <2>2. CASE fd[t] \in left
    BY <1>2, <1>4, <2>1, <2>2, ZenonT(30) DEF SendResponse
  <2>3. CASE fd[t] \notin left
    BY <1>4, <2>1, <2>3, SMTT(20) DEF SendResponse
  <2> QED
    BY <2>2, <2>3, Zenon
<1>5. ASSUME NEW t \in Threads, HandleMessage(t) \/ RefuseRequest(t)
      PROVE  ClientTyped'
  BY <1>5, Zenon DEF HandleMessage, RefuseRequest
<1>6. ASSUME NEW t \in Threads, Exec(t)
      PROVE  ClientTyped'
  BY <1>6, Zenon DEF Exec
<1>7. CASE AcceptCarryoverClient
  <2>1. UNCHANGED <<left, inbox, req, sent>>
    BY <1>7 DEF AcceptCarryoverClient
  <2>2. PICK n \in {0, 1} : answered' = [answered EXCEPT ![carry] = @ + n]
    BY <1>7, Zenon DEF AcceptCarryoverClient
  <2>3. \A c \in Clients : answered[c] \in Nat /\ answered[c] + n \in Nat
    OBVIOUS
  <2>4. answered' \in [Clients -> Nat]
    BY <2>2, <2>3, Zenon
  <2> QED
    BY <2>1, <2>4
<1>8. ASSUME NEW c \in Clients, Send(c)
      PROVE  ClientTyped'
  <2>1. /\ \E k \in Kinds : req' = [req EXCEPT ![c] = k]
        /\ inbox' = inbox \cup {c} /\ sent' = [sent EXCEPT ![c] = @ + 1]
        /\ sent[c] < MaxRequests /\ UNCHANGED <<left, answered>>
    BY <1>8, Zenon DEF Send
  <2>2. sent[c] + 1 \in 0 .. MaxRequests
    BY <2>1
  <2> QED
    BY <2>1, <2>2
<1>9. ASSUME NEW c \in Clients, Leave(c)
      PROVE  ClientTyped'
  BY <1>9 DEF Leave
<1>10. ASSUME NEW t \in Threads, EpollWait(t) \/ WakeUp(t) \/ TakeCallback(t) \/ Loop(t)
              \/ AcceptClient(t) \/ AcceptFails(t) \/ RegisterInterrupt(t) \/ ClearHandler(t)
              \/ ReturnResponse(t) \/ ReturnError(t) \/ StartCommand(t) \/ HandleEndsEarly(t)
       PROVE  ClientTyped'
  BY <1>1, <1>10, Zenon DEF EpollWait, WakeUp, TakeCallback, Loop, AcceptClient, AcceptFails,
     RegisterInterrupt, ClearHandler, ReturnResponse, ReturnError, StartCommand,
     HandleEndsEarly, clientVars
<1>11. ASSUME NEW t \in Threads, StopServer(t) \/ WaitReturns(t) \/ Reap(t) \/ interrupt_cb(t)
              \/ Stop(t) \/ TakeRequest(t) \/ NoneLeft(t) \/ InterruptTaken(t) \/ LockThreads(t)
              \/ JoinReturns(t) \/ StopReturns(t) \/ InterruptDestroyed(t) \/ DoubleJoin(t)
       PROVE  ClientTyped'
  BY <1>1, <1>11, Zenon DEF StopServer, WaitReturns, Reap, interrupt_cb, Stop, TakeRequest, NoneLeft,
     InterruptTaken, LockThreads, JoinReturns, StopReturns, InterruptDestroyed, DoubleJoin,
     clientVars
<1>12. CASE StartServer \/ DestroyServer \/ Join \/ UNCHANGED vars
            \/ \E c \in Clients : Connect(c) \/ ChildExits(c)
  BY <1>1, <1>12 DEF StartServer, DestroyServer, Join, vars, Connect, ChildExits, clientVars
<1> QED
  BY <1>3, <1>4, <1>5, <1>6, <1>7, <1>8, <1>9, <1>10, <1>11, <1>12, Zenon DEF Next, WorkerStep, MainStep

----------------------------------------------------------------------------
(* Every request is answered at most once.                                    *)

\* A request has been read and not been answered; the restarted server answers
\* the request of the restart.
HandledPcs == MessagePcs \ {"HandleMessage", "reregister"}
Handled(c) ==
  \/ \E t \in Threads : fd[t] = c /\ pc[t] \in HandledPcs
  \/ main \in {"start", "carry"} /\ carry = c

\* A worker has an event of the client, and has not read the message.
AtEvent(t, c) == pc[t] = "event" /\ fd[t] = c
AtMessage(t, c) == pc[t] = "HandleMessage" /\ fd[t] = c

\* The request of a client that has not left is in its inbox or handled, never
\* both, until it is answered; an event of the client finds the message unread, and
\* goes to one worker.
Balance(c) ==
  /\ answered[c] <= sent[c] /\ sent[c] <= answered[c] + 1
  /\ c \notin left =>
     /\ c \in inbox => sent[c] = answered[c] + 1
     /\ Handled(c) => c \notin inbox /\ sent[c] = answered[c] + 1
     /\ \A t \in Threads : AtEvent(t, c) \/ AtMessage(t, c) => c \in inbox
     /\ armed[c] = "in" => callbacks_[c] = "HandleMessage"
     /\ \A t \in Threads : AtEvent(t, c) =>
          /\ callbacks_[c] = "HandleMessage" /\ armed[c] = "off"
          /\ \A u \in Threads : AtEvent(u, c) => u = t

\* A client in the hands of a worker, or about to be registered: nobody else has
\* a message of it, nor an event unless it has left.
Alone(t, c) ==
  /\ c \notin left => \A u \in Threads : ~AtEvent(u, c)
  /\ \A u \in Threads : u # t => ~InMessage(u, c)
  /\ callbacks_[c] # "HandleMessage" /\ ~(main \in {"start", "carry"} /\ carry = c)

LEMMA InMessageAlone ==
  ASSUME IInv, NEW c \in Clients, Balance(c), NEW t \in Threads, InMessage(t, c)
  PROVE  Alone(t, c)
<1>1. callbacks_[c] # "HandleMessage"
  BY Zenon DEF IInv, TokenInv
<1>2. \A u \in Threads : u # t => ~InMessage(u, c)
  BY DEF IInv, TokenInv, OneWorkerPerClient, InMessage
<1>3. ~(main \in {"start", "carry"} /\ carry = c)
  BY CvdAssumption, Zenon DEF IInv, TokenInv, Idle
<1>4. c \notin left => \A u \in Threads : ~AtEvent(u, c)
  BY <1>1, Zenon DEF Balance
<1> QED
  BY <1>1, <1>2, <1>3, <1>4, Zenon DEF Alone

\* What leaves the balance of a client alone.
LEMMA BalanceKept ==
  ASSUME NEW c \in Clients, Balance(c), c \in left => c \in left',
         answered'[c] = answered[c], sent'[c] = sent[c],
         c \notin left' =>
           /\ c \in inbox' <=> c \in inbox
           /\ Handled(c)' => Handled(c)
           /\ \A u \in Threads : AtEvent(u, c)' => AtEvent(u, c)
           /\ \A u \in Threads : AtMessage(u, c)' => AtMessage(u, c)
           /\ callbacks_'[c] = callbacks_[c] \/ (callbacks_[c] # "HandleMessage" /\ armed'[c] # "in")
           /\ armed'[c] = armed[c] \/ (callbacks_[c] # "HandleMessage" /\ armed'[c] # "in")
  PROVE  Balance(c)'
<1>1. CASE c \in left'
  BY <1>1, Zenon DEF Balance
<1>2. CASE c \notin left'
  <2>1. c \notin left
    BY <1>2, Zenon
  <2>2. \A t \in Threads : AtEvent(t, c)' \/ AtMessage(t, c)' => c \in inbox'
    BY <1>2, <2>1, Zenon DEF Balance
  <2>3. \A t \in Threads : AtEvent(t, c)' =>
          /\ callbacks_'[c] = "HandleMessage" /\ armed'[c] = "off"
          /\ \A u \in Threads : AtEvent(u, c)' => u = t
    BY <1>2, <2>1, Zenon DEF Balance
  <2>4. armed'[c] = "in" => callbacks_'[c] = "HandleMessage"
    BY <1>2, <2>1, Zenon DEF Balance
  <2>5. /\ c \in inbox' => sent'[c] = answered'[c] + 1
        /\ Handled(c)' => c \notin inbox' /\ sent'[c] = answered'[c] + 1
        /\ answered'[c] <= sent'[c] /\ sent'[c] <= answered'[c] + 1
    BY <1>2, <2>1, Zenon DEF Balance
  <2> QED
    BY <2>2, <2>3, <2>4, <2>5, Zenon DEF Balance
<1> QED
  BY <1>1, <1>2, Zenon

\* A worker goes on to a position in which it has no event, has nothing to read, and
\* handles no request that it did not handle before.
MovesTo(t, p) ==
  /\ pc' = [pc EXCEPT ![t] = p] /\ p \notin {"event", "HandleMessage"}
  /\ p \in HandledPcs => pc[t] \in HandledPcs \/ fd[t] \notin Clients
  /\ fd' = fd \/ (p = "loop" /\ fd' = [fd EXCEPT ![t] = "server"])
Moves(t) == \E p : MovesTo(t, p)

LEMMA MovesWorkers ==
  ASSUME IInv, NEW c \in Clients, NEW t \in Threads, Moves(t)
  PROVE  /\ \A u \in Threads : u # t => pc'[u] = pc[u] /\ fd'[u] = fd[u]
         /\ \A u \in Threads : AtEvent(u, c)' => AtEvent(u, c) /\ u # t
         /\ \A u \in Threads : AtMessage(u, c)' => AtMessage(u, c) /\ u # t
         /\ \A u \in Threads : fd'[u] = c /\ pc'[u] \in HandledPcs
                                 => fd[u] = c /\ pc[u] \in HandledPcs
<1>1. pc \in [Threads -> Pcs] /\ fd \in [Threads -> Fds]
  BY DEF IInv, Typed, WorkerTyped
<1>2. "loop" \notin HandledPcs
  BY DEF HandledPcs, MessagePcs, HandlerPcs, StopPcs
<1>3. PICK p : MovesTo(t, p)
  BY DEF Moves
<1>4. pc'[t] = p /\ \A u \in Threads : u # t => pc'[u] = pc[u] /\ fd'[u] = fd[u]
  BY <1>1, <1>3 DEF MovesTo
<1>5. p \in HandledPcs => fd'[t] = fd[t]
  BY <1>2, <1>3 DEF MovesTo
<1>6. \A u \in Threads : fd'[u] = c /\ pc'[u] \in HandledPcs => fd[u] = c /\ pc[u] \in HandledPcs
  BY <1>3, <1>4, <1>5 DEF MovesTo
<1>7. \A u \in Threads : (AtEvent(u, c)' => AtEvent(u, c) /\ u # t)
                         /\ (AtMessage(u, c)' => AtMessage(u, c) /\ u # t)
  BY <1>3, <1>4, Zenon DEF AtEvent, AtMessage, MovesTo
<1> QED
  BY <1>4, <1>6, <1>7

LEMMA MovesHandled ==
  ASSUME IInv, NEW c \in Clients, NEW t \in Threads, Moves(t), UNCHANGED <<main, carry>>
  PROVE  Handled(c)' => Handled(c)
  BY MovesWorkers, Zenon DEF Handled

messageVars == <<main, carry, callbacks_, armed, left, inbox, sent, answered>>

LEMMA MovesBalance ==
  ASSUME IInv, NEW c \in Clients, Balance(c), NEW t \in Threads, Moves(t), UNCHANGED messageVars
  PROVE  Balance(c)'
  BY MovesWorkers, MovesHandled, BalanceKept, Zenon DEF messageVars

\* The steps inside a message, up to the response.
LEMMA InsideBalance ==
  ASSUME IInv, NEW c \in Clients, Balance(c), NEW t \in Threads,
         \/ WakeUp(t) \/ Loop(t) \/ AcceptFails(t) \/ ClearHandler(t) \/ ReturnError(t)
         \/ StartCommand(t) \/ HandleEndsEarly(t) \/ StopServer(t) \/ WaitReturns(t) \/ Reap(t)
         \/ interrupt_cb(t) \/ Stop(t) \/ TakeRequest(t) \/ NoneLeft(t) \/ InterruptTaken(t)
         \/ LockThreads(t) \/ JoinReturns(t) \/ StopReturns(t)
  PROVE  Balance(c)'
<1>0. {"wait", "loop", "exited"} \cap HandledPcs = {}
      /\ {"done", "unregister", "error", "failed", "Handle", "Wait", "reap", "Stop", "take",
          "strike", "lock", "join", "stopped"} \subseteq HandledPcs
  BY DEF HandledPcs, MessagePcs, HandlerPcs, StopPcs
<1>1. CASE WakeUp(t) \/ Loop(t) \/ interrupt_cb(t)
  <2>1. MovesTo(t, "wait") \/ MovesTo(t, "exited") \/ MovesTo(t, "loop")
    BY <1>0, <1>1, Zenon DEF WakeUp, Loop, interrupt_cb, EndEvent, Goto, MovesTo, workVars
  <2>2. UNCHANGED messageVars
    BY <1>1, Zenon DEF WakeUp, Loop, interrupt_cb, messageVars, mainVars, epollVars, clientVars
  <2> QED
    BY <2>1, <2>2, MovesBalance, Zenon DEF Moves
<1>2. CASE AcceptFails(t)
  <2>1. MovesTo(t, "Stop")
    BY <1>2, CvdAssumption, Zenon DEF AcceptFails, Goto, MovesTo, workVars, IInv, FdInv
  <2>2. UNCHANGED messageVars
    BY <1>2 DEF AcceptFails, messageVars, mainVars, epollVars, clientVars
  <2> QED
    BY <2>1, <2>2, MovesBalance, Zenon DEF Moves
<1>3. CASE ClearHandler(t) \/ ReturnError(t) \/ StartCommand(t) \/ HandleEndsEarly(t)
           \/ StopServer(t) \/ WaitReturns(t) \/ Reap(t)
  <2>1. UNCHANGED fd /\ pc[t] \in HandledPcs /\ \E p \in HandledPcs : Goto(t, p)
    BY <1>0, <1>3, Zenon DEF ClearHandler, ReturnError, StartCommand, HandleEndsEarly, StopServer,
       WaitReturns, Reap, workVars
  <2>2. UNCHANGED messageVars
    BY <1>3, Zenon DEF ClearHandler, ReturnError, StartCommand, HandleEndsEarly, StopServer, WaitReturns,
       Reap, messageVars, mainVars, epollVars, clientVars
  <2>3. Moves(t)
    BY <2>1, Zenon DEF Moves, MovesTo, Goto, HandledPcs, MessagePcs, HandlerPcs, StopPcs
  <2> QED
    BY <2>2, <2>3, MovesBalance, Zenon
<1>4. CASE Stop(t) \/ TakeRequest(t) \/ NoneLeft(t) \/ InterruptTaken(t) \/ LockThreads(t)
           \/ JoinReturns(t) \/ StopReturns(t)
  <2>1. UNCHANGED fd /\ pc[t] \in HandledPcs /\ \E p \in HandledPcs \cup {"loop"} : Goto(t, p)
    BY <1>0, <1>4 DEF Stop, TakeRequest, NoneLeft, InterruptTaken, LockThreads, JoinReturns,
       StopReturns, workVars
  <2>2. UNCHANGED messageVars
    BY <1>4 DEF Stop, TakeRequest, NoneLeft, InterruptTaken, LockThreads, JoinReturns,
       StopReturns, messageVars, mainVars, epollVars, clientVars
  <2>3. Moves(t)
    BY <2>1, Zenon DEF Moves, MovesTo, Goto, HandledPcs, MessagePcs, HandlerPcs, StopPcs
  <2> QED
    BY <2>2, <2>3, MovesBalance
<1> QED
  BY <1>1, <1>2, <1>3, <1>4

\* An event is delivered to one worker, and its message is unread.
LEMMA EpollWaitBalance ==
  ASSUME IInv, EventTyped, NEW c \in Clients, Balance(c), NEW t \in Threads, EpollWait(t)
  PROVE  Balance(c)'
<1>1. PICK f \in Fds : /\ Delivered(f) # {} /\ fd' = [fd EXCEPT ![t] = f]
                       /\ armed' = [armed EXCEPT ![f] = "off"]
  BY Zenon DEF EpollWait
<1>2. /\ pc[t] = "wait" /\ pc' = [pc EXCEPT ![t] = "event"]
      /\ UNCHANGED <<main, carry, callbacks_, left, inbox, sent, answered>>
  BY DEF EpollWait, Goto, mainVars, clientVars
<1>3. /\ pc'[t] = "event" /\ fd'[t] = f
      /\ \A u \in Threads : u # t => pc'[u] = pc[u] /\ fd'[u] = fd[u]
  BY <1>1, <1>2 DEF IInv, Typed, WorkerTyped
<1>4. Handled(c)' => Handled(c)
  BY <1>2, <1>3, Zenon DEF Handled, HandledPcs, MessagePcs, HandlerPcs, StopPcs
<1>5. \A u \in Threads : AtMessage(u, c)' => AtMessage(u, c)
  BY <1>3, Zenon DEF AtMessage
<1>6. armed'[f] = "off" /\ (f # c => armed'[c] = armed[c])
  BY <1>1, Zenon DEF EventTyped, Fds
<1>7. CASE f # c \/ c \in left
  <2>1. f # c => \A u \in Threads : AtEvent(u, c)' => AtEvent(u, c)
    BY <1>3, Zenon DEF AtEvent
  <2> QED
    BY <1>2, <1>4, <1>5, <1>6, <1>7, <2>1, BalanceKept, Zenon
<1>8. CASE f = c /\ c \notin left
  <2>1. armed[c] = "in" /\ c \in inbox
    BY <1>1, <1>8, CvdAssumption, Zenon DEF Delivered, Ready, EventTyped
  <2>2. callbacks_[c] = "HandleMessage" /\ \A u \in Threads : ~AtEvent(u, c)
    BY <1>8, <2>1, Zenon DEF Balance
  <2>3. \A u \in Threads : AtEvent(u, c)' => u = t
    BY <1>3, <2>2, Zenon DEF AtEvent
  <2> QED
    BY <1>2, <1>4, <1>6, <1>8, <2>1, <2>2, <2>3, Zenon DEF Balance
<1> QED
  BY <1>7, <1>8

LEMMA TakeCallbackBalance ==
  ASSUME IInv, NEW c \in Clients, Balance(c), NEW t \in Threads, TakeCallback(t)
  PROVE  Balance(c)'
<1> DEFINE f == fd[t]
<1>1. /\ UNCHANGED <<main, carry, armed, left, inbox, sent, answered>> /\ pc[t] = "event"
      /\ callbacks_' = [callbacks_ EXCEPT ![f] = "none"]
  BY Zenon DEF TakeCallback, mainVars, clientVars
<1>2. f \in Fds /\ callbacks_[f] \in Callbacks
  BY Zenon DEF IInv, Typed, WorkerTyped, StateTyped
<1>3. \/ callbacks_[f] = "none" /\ EndEvent(t)
      \/ callbacks_[f] # "none" /\ Goto(t, callbacks_[f]) /\ UNCHANGED fd
  BY DEF TakeCallback
<1>4. /\ pc'[t] = "loop" \/ (pc'[t] = callbacks_[f] /\ fd'[t] = f)
      /\ \A u \in Threads : u # t => pc'[u] = pc[u] /\ fd'[u] = fd[u]
  BY <1>3, Zenon DEF EndEvent, Goto, IInv, Typed, WorkerTyped
<1>5. pc'[t] \notin HandledPcs \cup {"event"}
  BY <1>2, <1>4, Zenon DEF Callbacks, HandledPcs, MessagePcs, HandlerPcs, StopPcs
<1>6. Handled(c)' => Handled(c)
  BY <1>1, <1>4, <1>5, Zenon DEF Handled
<1>7. \A u \in Threads : AtEvent(u, c)' => AtEvent(u, c) /\ u # t
  BY <1>4, <1>5, Zenon DEF AtEvent
<1>8. CASE f # c \/ c \in left
  <2>1. f # c => /\ callbacks_'[c] = callbacks_[c]
                 /\ \A u \in Threads : AtMessage(u, c)' => AtMessage(u, c)
    BY <1>1, <1>4, Zenon DEF AtMessage, IInv, Typed, StateTyped, Fds
  <2> QED
    BY <1>1, <1>6, <1>7, <1>8, <2>1, BalanceKept, Zenon
<1>9. CASE f = c /\ c \notin left
  <2>1. AtEvent(t, c)
    BY <1>1, <1>9, Zenon DEF AtEvent
  <2>2. armed[c] = "off" /\ c \in inbox /\ \A u \in Threads : AtEvent(u, c) => u = t
    BY <1>9, <2>1, Zenon DEF Balance
  <2>3. \A u \in Threads : ~AtEvent(u, c)'
    BY <1>7, <2>2, Zenon
  <2> QED
    BY <1>1, <1>6, <1>9, <2>2, <2>3, Zenon DEF Balance
<1> QED
  BY <1>8, <1>9, Zenon

\* The client is registered; nobody has an event of it.
LEMMA RegisteredBalance ==
  ASSUME IInv, NEW c \in Clients, Balance(c),
         c \notin left => \A u \in Threads : ~AtEvent(u, c),
         c \in left => c \in left', c \in inbox' <=> c \in inbox,
         answered'[c] = answered[c], sent'[c] = sent[c],
         Handled(c)' => Handled(c),
         \A u \in Threads : AtEvent(u, c)' => AtEvent(u, c),
         \A u \in Threads : AtMessage(u, c)' => AtMessage(u, c),
         armed'[c] = "in" => callbacks_'[c] = "HandleMessage"
  PROVE  Balance(c)'
  BY Zenon DEF Balance

LEMMA AcceptClientBalance ==
  ASSUME IInv, EventTyped, NEW c \in Clients, Balance(c), NEW t \in Threads, AcceptClient(t)
  PROVE  Balance(c)'
<1>1. PICK d \in Clients :
        /\ conn[d] = "backlog"
        /\ callbacks_' = [callbacks_ EXCEPT ![d] = "HandleMessage", !["server"] = "AcceptClient"]
        /\ armed' = [armed EXCEPT ![d] = "in", !["server"] = "in"]
  BY Zenon DEF AcceptClient
<1>2. UNCHANGED <<main, carry, left, inbox, sent, answered>>
  BY DEF AcceptClient, mainVars
<1>3. MovesTo(t, "loop")
  BY DEF AcceptClient, EndEvent, Goto, MovesTo, HandledPcs, MessagePcs, HandlerPcs, StopPcs
<1>4. /\ Handled(c)' => Handled(c)
      /\ \A u \in Threads : AtEvent(u, c)' => AtEvent(u, c)
      /\ \A u \in Threads : AtMessage(u, c)' => AtMessage(u, c)
  BY <1>2, <1>3, MovesWorkers, MovesHandled, Zenon DEF Moves
<1>5. CASE c # d
  <2>1. callbacks_'[c] = callbacks_[c] /\ armed'[c] = armed[c]
    BY <1>1, <1>5, CvdAssumption, Zenon DEF EventTyped, IInv, Typed, StateTyped, Fds
  <2> QED
    BY <1>2, <1>4, <2>1, BalanceKept, Zenon
<1>6. CASE c = d
  <2>1. callbacks_'[c] = "HandleMessage"
    BY <1>1, <1>6, CvdAssumption, Zenon DEF IInv, Typed, StateTyped, Fds
  <2>2. callbacks_[c] = "none"
    BY <1>1, <1>6, Zenon DEF IInv, TokenInv, Idle
  <2>3. c \notin left => \A u \in Threads : ~AtEvent(u, c)
    BY <2>2 DEF Balance
  <2> QED
    BY <1>2, <1>4, <2>1, <2>3, RegisteredBalance, Zenon
<1> QED
  BY <1>5, <1>6

\* The message is read: the request leaves the inbox and is handled.
LEMMA ReadBalance ==
  ASSUME IInv, NEW c \in Clients, Balance(c), NEW t \in Threads,
         HandleMessage(t) \/ RefuseRequest(t)
  PROVE  Balance(c)'
<1>1. /\ UNCHANGED <<main, carry, callbacks_, armed, left, sent, answered, fd>>
      /\ pc[t] = "HandleMessage" /\ inbox' = inbox \ {fd[t]}
      /\ \E p \in {"register", "respond", "failed"} : pc' = [pc EXCEPT ![t] = p]
  BY DEF HandleMessage, RefuseRequest, Goto, mainVars, epollVars, workVars
<1>2. /\ pc'[t] \in {"register", "respond", "failed"}
      /\ \A u \in Threads : u # t => pc'[u] = pc[u]
  BY <1>1 DEF IInv, Typed, WorkerTyped
<1>3. \A u \in Threads : AtEvent(u, c)' => AtEvent(u, c)
  BY <1>1, <1>2 DEF AtEvent
<1>4. \A u \in Threads : AtMessage(u, c)' => AtMessage(u, c) /\ u # t
  BY <1>1, <1>2, Zenon DEF AtMessage
<1>5. CASE fd[t] # c
  <2>1. Handled(c)' => Handled(c)
    BY <1>1, <1>2, <1>5, Zenon DEF Handled
  <2> QED
    BY <1>1, <1>3, <1>4, <1>5, <2>1, BalanceKept, Zenon
<1>6. CASE fd[t] = c
  <2>1. InMessage(t, c) /\ AtMessage(t, c)
    BY <1>1, <1>6 DEF InMessage, AtMessage, MessagePcs
  <2>2. Alone(t, c)
    BY <2>1, InMessageAlone, Zenon
  <2>3. \A u \in Threads : ~AtMessage(u, c)'
    BY <1>4, <2>2, Zenon DEF Alone, InMessage, AtMessage, MessagePcs
  <2>4. c \notin left => sent[c] = answered[c] + 1 /\ \A u \in Threads : ~AtEvent(u, c)'
    BY <1>3, <2>1, <2>2, Zenon DEF Balance, Alone
  <2> QED
    BY <1>1, <1>6, <2>3, <2>4, Zenon DEF Balance
<1> QED
  BY <1>5, <1>6, Zenon

\* The client of worker t is answered for the last time, or not.
LastAnswer(t) ==
  \/ UNCHANGED answered
  \/ /\ pc[t] \in HandledPcs
     /\ answered' = [answered EXCEPT ![fd[t]] = @ + IF fd[t] \in left THEN 0 ELSE 1]

\* The client is abandoned.
LEMMA DropBalance ==
  ASSUME IInv, EventTyped, ClientTyped, NEW c \in Clients, Balance(c), NEW t \in Threads,
         fd[t] \in Clients, MovesTo(t, "loop"),
         Remove(fd[t]), Drop(fd[t]), UNCHANGED <<main, carry, sent>>, LastAnswer(t)
  PROVE  Balance(c)'
<1>1. left' = left \cup {fd[t]} /\ inbox' = inbox \ {fd[t]}
  BY Zenon DEF Drop
<1>2. CASE c # fd[t]
  <2>1. callbacks_'[c] = callbacks_[c] /\ armed'[c] = armed[c]
    BY <1>2, Zenon DEF Remove, EventTyped, IInv, Typed, StateTyped, Fds
  <2>2. answered'[c] = answered[c] /\ sent'[c] = sent[c]
    BY <1>2, Zenon DEF ClientTyped, LastAnswer
  <2>3. /\ Handled(c)' => Handled(c)
        /\ \A u \in Threads : AtEvent(u, c)' => AtEvent(u, c)
        /\ \A u \in Threads : AtMessage(u, c)' => AtMessage(u, c)
    BY MovesWorkers, MovesHandled, Zenon DEF Moves
  <2> QED
    BY <1>1, <1>2, <2>1, <2>2, <2>3, BalanceKept, Zenon
<1>3. CASE c = fd[t]
  <2>1. c \in left' /\ sent'[c] = sent[c]
    BY <1>1, <1>3, Zenon
  <2>2. CASE answered'[c] = answered[c]
    BY <2>1, <2>2, Zenon DEF Balance
  <2>3. CASE /\ pc[t] \in HandledPcs
             /\ answered' = [answered EXCEPT ![c] = @ + IF c \in left THEN 0 ELSE 1]
    <3>1. answered[c] \in Nat
      BY Zenon DEF ClientTyped
    <3>2. answered'[c] = answered[c] + IF c \in left THEN 0 ELSE 1
      BY <2>3, Zenon DEF ClientTyped
    <3>3. CASE c \in left
      BY <2>2, <3>1, <3>2, <3>3, SMTT(20)
    <3>4. CASE c \notin left
      <4>1. Handled(c)
        BY <1>3, <2>3, Zenon DEF Handled
      <4>2. sent[c] = answered[c] + 1
        BY <3>4, <4>1, Zenon DEF Balance
      <4>3. answered'[c] = answered[c] + 1
        BY <3>2, <3>4, Zenon
      <4>4. answered'[c] <= sent'[c] /\ sent'[c] <= answered'[c] + 1
        BY <2>1, <3>1, <4>2, <4>3
      <4> QED
        BY <2>1, <4>4, Zenon DEF Balance
    <3> QED
      BY <3>3, <3>4
  <2> QED
    BY <1>3, <2>2, <2>3, Zenon DEF LastAnswer
<1> QED
  BY <1>2, <1>3, Zenon

LEMMA EndEventMoves ==
  ASSUME NEW t \in Threads, EndEvent(t)
  PROVE  MovesTo(t, "loop")
  BY DEF EndEvent, Goto, MovesTo, HandledPcs, MessagePcs, HandlerPcs, StopPcs

LEMMA AbandonBalance ==
  ASSUME IInv, EventTyped, ClientTyped, NEW c \in Clients, Balance(c), NEW t \in Threads,
         AbandonClient(t) \/ SendFailure(t)
  PROVE  Balance(c)'
<1>1. fd[t] \in Clients
  BY MessageOfClient, Zenon DEF AbandonClient, SendFailure
<1>2. Remove(fd[t]) /\ Drop(fd[t]) /\ UNCHANGED <<main, carry, sent>> /\ EndEvent(t)
  BY ZenonT(30) DEF AbandonClient, SendFailure, mainVars
<1>3. LastAnswer(t)
  BY DEF AbandonClient, SendFailure, HandledPcs, MessagePcs, LastAnswer
<1> QED
  BY <1>1, <1>2, <1>3, EndEventMoves, DropBalance, Zenon

\* The interrupt callback comes and goes while the worker has the client.
LEMMA InterruptBalance ==
  ASSUME IInv, EventTyped, NEW c \in Clients, Balance(c), NEW t \in Threads,
         RegisterInterrupt(t) \/ ReturnResponse(t)
  PROVE  Balance(c)'
<1>1. /\ fd[t] \in Clients /\ pc[t] \in HandledPcs \cap MessagePcs
  BY MessageOfClient, Zenon DEF RegisterInterrupt, ReturnResponse, HandledPcs, MessagePcs
<1>2. UNCHANGED <<main, carry, left, inbox, sent, answered, fd>>
  BY Zenon DEF RegisterInterrupt, ReturnResponse, mainVars, workVars, clientVars
<1>3. MovesTo(t, "Handle") \/ MovesTo(t, "error") \/ MovesTo(t, "respond")
  BY <1>1, <1>2, Zenon DEF RegisterInterrupt, ReturnResponse, Goto, MovesTo
<1>4. /\ Handled(c)' => Handled(c)
      /\ \A u \in Threads : AtEvent(u, c)' => AtEvent(u, c)
      /\ \A u \in Threads : AtMessage(u, c)' => AtMessage(u, c)
  BY <1>2, <1>3, MovesWorkers, MovesHandled, Zenon DEF Moves
<1>5. \/ UNCHANGED <<callbacks_, armed>>
      \/ Register(fd[t], "hup", "interrupt_cb") \/ Remove(fd[t])
  BY Zenon DEF RegisterInterrupt, ReturnResponse, epollVars
<1>6. CASE c # fd[t] \/ UNCHANGED <<callbacks_, armed>>
  <2>1. callbacks_'[c] = callbacks_[c] /\ armed'[c] = armed[c]
    BY <1>5, <1>6, Zenon DEF Register, Remove, EventTyped, IInv, Typed, StateTyped, Fds
  <2> QED
    BY <1>2, <1>4, <2>1, BalanceKept, Zenon
<1>7. CASE c = fd[t] /\ ~UNCHANGED <<callbacks_, armed>>
  <2>1. armed'[c] # "in"
    BY <1>5, <1>7, Zenon DEF Register, Remove, EventTyped, Fds
  <2>2. callbacks_[c] # "HandleMessage"
    BY <1>1, <1>7, InMessageAlone, Zenon DEF InMessage, Alone
  <2> QED
    BY <1>2, <1>4, <2>1, <2>2, BalanceKept, Zenon
<1> QED
  BY <1>6, <1>7, Zenon

\* The response is the one answer to the request.
LEMMA SendResponseBalance ==
  ASSUME IInv, EventTyped, ClientTyped, NEW c \in Clients, Balance(c), NEW t \in Threads,
         SendResponse(t)
  PROVE  Balance(c)'
<1>1. /\ fd[t] \in Clients /\ pc[t] \in HandledPcs /\ pc[t] \in MessagePcs
  BY MessageOfClient, Zenon DEF SendResponse, HandledPcs, MessagePcs
<1>2. UNCHANGED <<main, carry, sent>>
  BY Zenon DEF SendResponse, mainVars
<1>3. CASE fd[t] \in left
  <2>1. Remove(fd[t]) /\ Drop(fd[t]) /\ EndEvent(t) /\ UNCHANGED answered
    BY <1>3 DEF SendResponse
  <2> QED
    BY <1>1, <1>2, <2>1, EndEventMoves, DropBalance, ZenonT(30) DEF LastAnswer
<1>4. CASE fd[t] \notin left
  <2>1. /\ answered' = [answered EXCEPT ![fd[t]] = @ + 1] /\ pc' = [pc EXCEPT ![t] = "reregister"]
        /\ UNCHANGED <<callbacks_, armed, left, inbox, fd>>
    BY <1>4 DEF SendResponse, Goto, epollVars
  <2>2. MovesTo(t, "reregister")
    BY <1>1, <2>1, Zenon DEF MovesTo
  <2>3. /\ Handled(c)' => Handled(c)
        /\ \A u \in Threads : AtEvent(u, c)' => AtEvent(u, c)
        /\ \A u \in Threads : AtMessage(u, c)' => AtMessage(u, c)
    BY <1>2, <2>2, MovesWorkers, MovesHandled, Zenon DEF Moves
  <2>4. CASE c # fd[t]
    <3>1. answered'[c] = answered[c]
      BY <2>1, <2>4, Zenon DEF ClientTyped
    <3> QED
      BY <1>2, <2>1, <2>3, <3>1, BalanceKept, Zenon
  <2>5. CASE c = fd[t]
    <3>1. Alone(t, c) /\ Handled(c)
      BY <1>1, <2>5, InMessageAlone, Zenon DEF InMessage, Handled
    <3>2. c \notin inbox /\ sent[c] = answered[c] + 1 /\ c \notin left
      BY <1>4, <2>5, <3>1, Zenon DEF Balance
    <3>3. answered'[c] = answered[c] + 1 /\ answered[c] \in Nat
      BY <2>1, <2>5 DEF ClientTyped
    <3>4. pc'[t] = "reregister" /\ \A u \in Threads : u # t => pc'[u] = pc[u]
      BY <2>1, Zenon DEF IInv, Typed, WorkerTyped
    <3>5. ~Handled(c)'
      BY <1>2, <2>1, <3>1, <3>4, Zenon DEF Handled, Alone, InMessage, HandledPcs
    <3>6. \A u \in Threads : ~AtEvent(u, c)' /\ ~AtMessage(u, c)'
      BY <2>3, <3>2, Zenon DEF Balance
    <3>7. armed'[c] = "in" => callbacks_'[c] = "HandleMessage"
      BY <2>1, <3>2, Zenon DEF Balance
    <3>8. answered'[c] <= sent'[c] /\ sent'[c] <= answered'[c] + 1 /\ c \notin inbox'
      BY <1>2, <2>1, <3>2, <3>3, SMTT(20)
    <3> QED
      BY <3>5, <3>6, <3>7, <3>8, Zenon DEF Balance
  <2> QED
    BY <2>4, <2>5
<1> QED
  BY <1>3, <1>4, Zenon

LEMMA ReregisterBalance ==
  ASSUME IInv, EventTyped, ClientTyped, NEW c \in Clients, Balance(c), NEW t \in Threads,
         Reregister(t)
  PROVE  Balance(c)'
<1>1. /\ fd[t] \in Clients /\ pc[t] \in MessagePcs
  BY MessageOfClient, Zenon DEF Reregister, MessagePcs
<1>2. UNCHANGED <<main, carry, sent, answered>> /\ EndEvent(t) /\ MovesTo(t, "loop")
  BY EndEventMoves, Zenon DEF Reregister, mainVars
<1>3. CASE Remove(fd[t]) /\ Drop(fd[t])
  BY <1>1, <1>2, <1>3, DropBalance, Zenon DEF LastAnswer
<1>4. CASE Register(fd[t], "in", "HandleMessage") /\ UNCHANGED <<left, inbox>>
  <2>1. /\ Handled(c)' => Handled(c)
        /\ \A u \in Threads : AtEvent(u, c)' => AtEvent(u, c)
        /\ \A u \in Threads : AtMessage(u, c)' => AtMessage(u, c)
    BY <1>2, MovesWorkers, MovesHandled, Zenon DEF Moves
  <2>2. CASE c # fd[t]
    <3>1. callbacks_'[c] = callbacks_[c] /\ armed'[c] = armed[c]
      BY <1>4, <2>2, Zenon DEF Register, EventTyped, IInv, Typed, StateTyped, Fds
    <3> QED
      BY <1>2, <1>4, <2>1, <3>1, BalanceKept, Zenon
  <2>3. CASE c = fd[t]
    <3>1. Alone(t, c)
      BY <1>1, <2>3, InMessageAlone, Zenon DEF InMessage
    <3>2. callbacks_'[c] = "HandleMessage"
      BY <1>4, <2>3, Zenon DEF Register, IInv, Typed, StateTyped, Fds
    <3> QED
      BY <1>2, <1>4, <2>1, <3>1, <3>2, RegisteredBalance, Zenon DEF Alone
  <2> QED
    BY <2>2, <2>3
<1> QED
  BY <1>3, <1>4, Zenon DEF Reregister

\* The request of the restart is the new server's to answer; the other connections
\* end with the process.
LEMMA ExecBalance ==
  ASSUME IInv, NEW c \in Clients, Balance(c), NEW t \in Threads, Exec(t)
  PROVE  Balance(c)'
<1>1. /\ fd[t] \in Clients /\ pc[t] = "stopped" /\ main' = "start" /\ carry' = fd[t]
      /\ \A u \in Threads : pc'[u] = "loop"
      /\ armed'[c] = "off" /\ UNCHANGED <<sent, answered>>
  BY Zenon DEF Exec, IInv, Typed, WorkerTyped, Fds
<1>2. \A u \in Threads : pc'[u] \notin HandledPcs /\ ~AtEvent(u, c)' /\ ~AtMessage(u, c)'
  BY <1>1, Zenon DEF AtEvent, AtMessage, HandledPcs, MessagePcs, HandlerPcs, StopPcs
<1>3. c \notin left' => c \notin left /\ (c \in inbox' <=> c \in inbox)
  BY Zenon DEF Exec
<1>4. Handled(c)' => Handled(c)
  BY <1>1, <1>2 DEF Handled, HandledPcs, MessagePcs
<1> QED
  BY <1>1, <1>2, <1>3, <1>4, Zenon DEF Balance

\* The main thread, and what ends the process.
LEMMA MainBalance ==
  ASSUME IInv, EventTyped, ClientTyped, NEW c \in Clients, Balance(c),
         MainStep \/ \E t \in Threads : InterruptDestroyed(t) \/ DoubleJoin(t)
  PROVE  Balance(c)'
<1>1. UNCHANGED <<pc, fd, carry, left, inbox, sent>>
  BY Zenon DEF MainStep, StartServer, AcceptCarryoverClient, DestroyServer, Join, InterruptDestroyed,
     DoubleJoin, workVars, clientVars
<1>2. main' \in {"start", "carry"} => main \in {"start", "carry"}
  BY Zenon DEF MainStep, StartServer, AcceptCarryoverClient, DestroyServer, Join, InterruptDestroyed,
     DoubleJoin
<1>3. /\ Handled(c)' => Handled(c)
      /\ \A u \in Threads : AtEvent(u, c)' <=> AtEvent(u, c)
      /\ \A u \in Threads : AtMessage(u, c)' <=> AtMessage(u, c)
  BY <1>1, <1>2, Zenon DEF Handled, AtEvent, AtMessage
<1>4. CASE StartServer \/ DestroyServer \/ Join
           \/ \E t \in Threads : InterruptDestroyed(t) \/ DoubleJoin(t)
  <2>1. UNCHANGED <<callbacks_, armed>> \/ Register("server", "in", "AcceptClient")
    BY <1>4, Zenon DEF StartServer, DestroyServer, Join, InterruptDestroyed, DoubleJoin, epollVars
  <2>2. callbacks_'[c] = callbacks_[c] /\ armed'[c] = armed[c]
    BY <2>1, CvdAssumption, Zenon DEF Register, EventTyped, IInv, Typed, StateTyped, Fds
  <2>3. UNCHANGED answered
    BY <1>4, Zenon DEF StartServer, DestroyServer, Join, InterruptDestroyed, DoubleJoin, clientVars
  <2> QED
    BY <1>1, <1>3, <2>2, <2>3, BalanceKept, Zenon
<1>5. CASE AcceptCarryoverClient
  <2>1. /\ main = "carry" /\ main' \notin {"start", "carry"}
        /\ Register(carry, "in", "HandleMessage")
        /\ answered' = [answered EXCEPT ![carry] = @ + IF carry \in left THEN 0 ELSE 1]
    BY <1>5, Zenon DEF AcceptCarryoverClient
  <2>2. CASE c # carry
    <3>1. callbacks_'[c] = callbacks_[c] /\ armed'[c] = armed[c] /\ answered'[c] = answered[c]
      BY <2>1, <2>2, Zenon DEF Register, EventTyped, ClientTyped, IInv, Typed, StateTyped, Fds
    <3> QED
      BY <1>1, <1>3, <3>1, BalanceKept, Zenon
  <2>3. CASE c = carry /\ c \in left
    <3>1. answered'[c] = answered[c]
      BY <2>1, <2>3, SMTT(20) DEF ClientTyped
    <3> QED
      BY <1>1, <2>3, <3>1, Zenon DEF Balance
  <2>4. CASE c = carry /\ c \notin left
    <3>1. Idle(c)
      BY <2>1, <2>4, CvdAssumption, Zenon DEF IInv, TokenInv
    <3>2. Handled(c)
      BY <2>1, <2>4, Zenon DEF Handled
    <3>3. c \notin inbox /\ sent[c] = answered[c] + 1
      BY <2>4, <3>2, Zenon DEF Balance
    <3>4. answered'[c] = answered[c] + 1 /\ answered[c] \in Nat
      BY <2>1, <2>4 DEF ClientTyped
    <3>5. callbacks_'[c] = "HandleMessage"
      BY <2>1, <2>4, Zenon DEF Register, IInv, Typed, StateTyped, Fds
    <3>6. \A u \in Threads : ~AtEvent(u, c)' /\ ~AtMessage(u, c)'
      BY <1>3, <2>4, <3>3, Zenon DEF Balance
    <3>7. ~Handled(c)'
      BY <1>1, <2>1, <3>1, Zenon DEF Handled, Idle, InMessage, HandledPcs
    <3>8. answered'[c] <= sent'[c] /\ sent'[c] <= answered'[c] + 1 /\ c \notin inbox'
      BY <1>1, <3>3, <3>4
    <3> QED
      BY <3>5, <3>6, <3>7, <3>8, Zenon DEF Balance
  <2> QED
    BY <2>2, <2>3, <2>4, Zenon
<1> QED
  BY <1>4, <1>5, Zenon DEF MainStep

\* The clients: a request is sent when the one before is answered.
LEMMA ClientBalance ==
  ASSUME IInv, ClientTyped, NEW c \in Clients, Balance(c), NEW d \in Clients,
         Connect(d) \/ Send(d) \/ Leave(d) \/ ChildExits(d)
  PROVE  Balance(c)'
<1>1. UNCHANGED <<main, carry, callbacks_, armed, pc, fd, answered>>
  BY Zenon DEF Connect, Send, Leave, ChildExits, mainVars, epollVars, workVars, clientVars
<1>2. /\ Handled(c)' <=> Handled(c)
      /\ \A u \in Threads : AtEvent(u, c)' <=> AtEvent(u, c)
      /\ \A u \in Threads : AtMessage(u, c)' <=> AtMessage(u, c)
  BY <1>1, Zenon DEF Handled, AtEvent, AtMessage
<1>3. CASE Connect(d) \/ Leave(d) \/ ChildExits(d)
  <2>1. UNCHANGED <<inbox, sent>> /\ left \subseteq left'
    BY <1>3 DEF Connect, Leave, ChildExits, clientVars
  <2> QED
    BY <1>1, <1>2, <2>1, BalanceKept, Zenon
<1>4. CASE Send(d)
  <2>1. /\ sent[d] = answered[d] /\ inbox' = inbox \cup {d} /\ UNCHANGED left
        /\ sent' = [sent EXCEPT ![d] = @ + 1] /\ d \notin left
    BY <1>4, Zenon DEF Send
  <2>2. CASE c # d
    <3>1. sent'[c] = sent[c]
      BY <2>1, <2>2, Zenon DEF ClientTyped
    <3> QED
      BY <1>1, <1>2, <2>1, <2>2, <3>1, BalanceKept, Zenon
  <2>3. CASE c = d
    <3>1. answered[c] \in Nat /\ sent'[c] = answered[c] + 1
      BY <2>1, <2>3 DEF ClientTyped
    <3>2. sent[c] # answered[c] + 1 /\ c \notin left
      BY <2>1, <2>3, <3>1, SMTT(20)
    <3>3. ~Handled(c)
      BY <3>2, Zenon DEF Balance
    <3>4. answered'[c] <= sent'[c] /\ sent'[c] <= answered'[c] + 1 /\ sent'[c] = answered'[c] + 1
      BY <1>1, <3>1
    <3>5. c \in inbox' /\ ~Handled(c)'
      BY <1>2, <2>1, <2>3, <3>3, Zenon
    <3>6. /\ \A u \in Threads : AtEvent(u, c)' =>
                /\ callbacks_'[c] = "HandleMessage" /\ armed'[c] = "off"
                /\ \A w \in Threads : AtEvent(w, c)' => w = u
          /\ armed'[c] = "in" => callbacks_'[c] = "HandleMessage"
      BY <1>1, <1>2, <3>2, Zenon DEF Balance
    <3> QED
      BY <3>4, <3>5, <3>6, Zenon DEF Balance
  <2> QED
    BY <2>2, <2>3, Zenon
<1> QED
  BY <1>3, <1>4, Zenon

LEMMA NextBalance ==
  ASSUME IInv, RestTyped, NEW c \in Clients, Balance(c), [Next]_vars
  PROVE  Balance(c)'
<1> USE DEF RestTyped
<1>1. ASSUME NEW t \in Threads, WorkerStep(t)
      PROVE  Balance(c)'
  BY <1>1, InsideBalance, EpollWaitBalance, TakeCallbackBalance, AcceptClientBalance,
     ReadBalance, AbandonBalance, InterruptBalance, SendResponseBalance, ReregisterBalance,
     ExecBalance, Zenon
     DEF WorkerStep
<1>2. CASE UNCHANGED vars
  <2>1. UNCHANGED <<pc, fd, main, carry, callbacks_, armed, left, inbox, sent, answered>>
    BY <1>2, Zenon DEF vars, mainVars, epollVars, workVars, clientVars
  <2>2. /\ Handled(c)' => Handled(c)
        /\ \A u \in Threads : AtEvent(u, c)' => AtEvent(u, c)
        /\ \A u \in Threads : AtMessage(u, c)' => AtMessage(u, c)
    BY <2>1, Zenon DEF Handled, AtEvent, AtMessage
  <2> QED
    BY <2>1, <2>2, BalanceKept, Zenon
<1> QED
  BY <1>1, <1>2, MainBalance, ClientBalance, Zenon DEF Next

BalanceInv == IInv /\ RestTyped /\ \A c \in Clients : Balance(c)

LEMMA InitBalance ==
  Init => BalanceInv
<1> SUFFICES ASSUME Init PROVE BalanceInv
  OBVIOUS
<1>1. IInv
  BY InitIInv
<1>2. RestTyped
  <2>1. MainTyped
    <3>1. running_ \in BOOLEAN /\ twoStops \in BOOLEAN
      BY Zenon DEF Init
    <3>2. \A t \in Threads : pc[t] \notin HoldPcs
      BY Zenon DEF Init, HoldPcs
    <3>3. at \in 1 .. (N + 1) /\ wakeups \in Nat
      BY CvdAssumption DEF Init
    <3>4. main = "start" /\ joined = {} /\ threads_mutex_ = 0
      BY Zenon DEF Init
    <3> QED
      BY <3>1, <3>2, <3>3, <3>4 DEF MainTyped
  <2>2. EventTyped
    BY Zenon DEF Init, EventTyped
  <2>3. CommandTyped
    BY Zenon DEF Init, CommandTyped
  <2>4. ClientTyped
    BY CvdAssumption, SMTT(20) DEF Init, ClientTyped
  <2> QED
    BY <2>1, <2>2, <2>3, <2>4 DEF RestTyped
<1>3. ASSUME NEW c \in Clients
      PROVE  Balance(c)
  <2>1. /\ sent[c] = 0 /\ answered[c] = 0 /\ inbox = {} /\ armed[c] = "off"
        /\ carry = NoOne /\ \A t \in Threads : pc[t] = "loop"
    BY <1>3, Zenon DEF Init, Fds
  <2>2. \A t \in Threads : pc[t] \notin HandledPcs /\ ~AtEvent(t, c) /\ ~AtMessage(t, c)
    BY <2>1, Zenon DEF AtEvent, AtMessage, HandledPcs, MessagePcs, HandlerPcs, StopPcs
  <2>3. ~Handled(c)
    BY <1>3, <2>1, <2>2, CvdAssumption DEF Handled
  <2> QED
    BY <2>1, <2>2, <2>3, SMTT(20) DEF Balance
<1> QED
  BY <1>1, <1>2, <1>3 DEF BalanceInv

LEMMA BalanceInvariant ==
  Spec => []BalanceInv
<1>1. ASSUME BalanceInv, [Next]_vars
      PROVE  BalanceInv'
  <2>1. IInv'
    BY <1>1, NextIInv DEF BalanceInv
  <2>2. RestTyped'
    BY <1>1, NextMainTyped, NextEventTyped, NextCommandTyped, NextClientTyped
       DEF BalanceInv, RestTyped
  <2>3. \A c \in Clients : Balance(c)'
    BY <1>1, NextBalance DEF BalanceInv
  <2> QED
    BY <2>1, <2>2, <2>3 DEF BalanceInv
<1> QED
  BY <1>1, InitBalance, PTL DEF Spec

\* The state of the server keeps its type; in particular SendResponse, the failure of
\* a request and AcceptCarryoverClient together answer no more than was sent.
THEOREM CvdTypeCorrect ==
  Spec => []TypeOK
<1>1. ASSUME BalanceInv
      PROVE  TypeOK
  <2>1. answered \in [Clients -> 0 .. MaxRequests]
    <3>1. \A c \in Clients : answered[c] \in 0 .. MaxRequests
      BY <1>1, CvdAssumption DEF BalanceInv, RestTyped, ClientTyped, Balance
    <3> QED
      BY <1>1, <3>1, Zenon DEF BalanceInv, RestTyped, ClientTyped
  <2> QED
    BY <1>1, <2>1 DEF BalanceInv, RestTyped, MainTyped, EventTyped, CommandTyped, ClientTyped,
       IInv, Typed, WorkerTyped, StateTyped, Callbacks, TypeOK
<1> QED
  BY <1>1, BalanceInvariant, PTL

\* A client has at most one request without an answer, and never an answer without a
\* request: neither a late event, nor a Stop, nor the restart of the server makes
\* HandleMessage or AcceptCarryoverClient answer a request twice.
THEOREM AnsweredOncePerRequest ==
  Spec => [](\A c \in Clients : answered[c] <= sent[c] /\ sent[c] <= answered[c] + 1)
<1>1. BalanceInv => \A c \in Clients : answered[c] <= sent[c] /\ sent[c] <= answered[c] + 1
  BY Zenon DEF BalanceInv, Balance
<1> QED
  BY <1>1, BalanceInvariant, PTL

----------------------------------------------------------------------------
(* No event is lost: EPOLLONESHOT registrations and the workers' positions.   *)

\* The event a callback is registered for.
Mask(callback) == IF callback = "interrupt_cb" THEN "hup" ELSE "in"

\* A registered callback waits for its event, or a worker has an event for it.
Fires(f) ==
  callbacks_[f] # "none" =>
    armed[f] = Mask(callbacks_[f]) \/ \E t \in Threads : AtEvent(t, f)

\* An accepted client has its next message listened for, or a worker has a message
\* of it, or the restarted server is about to register it.
Kept(c) ==
  Up /\ conn[c] = "open" =>
    \/ callbacks_[c] = "HandleMessage"
    \/ \E t \in Threads : InMessage(t, c)
    \/ c = carry /\ main \in {"start", "carry"}

\* Clients are accepted until the server stops.
Accepts(t) == fd[t] = "server" /\ pc[t] \in {"AcceptClient", "Stop"}
Serving ==
  Up /\ running_ =>
    main = "start" \/ callbacks_["server"] = "AcceptClient" \/ \E t \in Threads : Accepts(t)

EventInv == (\A f \in Fds : Fires(f)) /\ (\A c \in Clients : Kept(c)) /\ Serving

\* A worker's step is its own.
LEMMA OthersStay ==
  ASSUME IInv, NEW t \in Threads, NEW p, Goto(t, p),
         UNCHANGED fd \/ \E f : fd' = [fd EXCEPT ![t] = f]
  PROVE  pc'[t] = p /\ \A u \in Threads : u # t => pc'[u] = pc[u] /\ fd'[u] = fd[u]
<1>1. pc \in [Threads -> Pcs] /\ fd \in [Threads -> Fds]
  BY Zenon DEF IInv, Typed, WorkerTyped
<1> QED
  BY <1>1, Zenon DEF Goto

\* Registrations come with the event they wait for.
Registers(f) ==
  \/ callbacks_'[f] = callbacks_[f] /\ armed'[f] = armed[f]
  \/ callbacks_'[f] = "none"
  \/ armed'[f] = Mask(callbacks_'[f])

LEMMA FiresKept ==
  ASSUME NEW f, Fires(f), Registers(f), \A u \in Threads : AtEvent(u, f) => AtEvent(u, f)'
  PROVE  Fires(f)'
  BY Zenon DEF Fires, Registers

LEMMA KeptKept ==
  ASSUME NEW c \in Clients, Kept(c), Up' => Up, conn'[c] = "open" => conn[c] = "open",
         callbacks_[c] = "HandleMessage" => callbacks_'[c] = "HandleMessage",
         \A u \in Threads : InMessage(u, c) => InMessage(u, c)',
         c = carry /\ main \in {"start", "carry"} /\ Up' => c = carry' /\ main' \in {"start", "carry"}
  PROVE  Kept(c)'
  BY Zenon DEF Kept

LEMMA ServingKept ==
  ASSUME Serving, Up' => Up, running_' => running_,
         callbacks_["server"] = "AcceptClient" => callbacks_'["server"] = "AcceptClient",
         \A u \in Threads : Accepts(u) /\ running_' => Accepts(u)',
         main = "start" /\ Up' => main' = "start"
  PROVE  Serving'
  BY Zenon DEF Serving

\* A step of worker t that leaves the registrations alone and keeps the message or the
\* connection that t is to accept.
LEMMA SilentEvents ==
  ASSUME EventInv, NEW t \in Threads,
         UNCHANGED <<callbacks_, armed, main, carry, conn>>, running_' => running_,
         \A u \in Threads : u # t => pc'[u] = pc[u] /\ fd'[u] = fd[u],
         pc[t] # "event",
         pc[t] \in MessagePcs /\ fd[t] \in Clients => fd'[t] = fd[t] /\ pc'[t] \in MessagePcs,
         Accepts(t) /\ running_' => Accepts(t)'
  PROVE  EventInv'
<1>1. ASSUME NEW f \in Fds PROVE Fires(f)'
  <2>1. \A u \in Threads : AtEvent(u, f) => AtEvent(u, f)'
    BY Zenon DEF AtEvent
  <2>2. Registers(f) /\ Fires(f)
    BY Zenon DEF Registers, EventInv
  <2> QED
    BY <2>1, <2>2, FiresKept, Zenon
<1>2. ASSUME NEW c \in Clients PROVE Kept(c)'
  <2>1. \A u \in Threads : InMessage(u, c) => InMessage(u, c)'
    BY Zenon DEF InMessage
  <2>2. Kept(c) /\ (Up' => Up)
    BY Zenon DEF EventInv, Up
  <2> QED
    BY <2>1, <2>2, KeptKept, Zenon
<1>3. Serving'
  <2>1. \A u \in Threads : Accepts(u) /\ running_' => Accepts(u)'
    BY Zenon DEF Accepts
  <2>2. Serving /\ (Up' => Up)
    BY Zenon DEF EventInv, Up
  <2> QED
    BY <2>1, <2>2, ServingKept, Zenon
<1> QED
  BY <1>1, <1>2, <1>3, Zenon DEF EventInv

LEMMA LoopEvents ==
  ASSUME IInv, EventInv, NEW t \in Threads, WakeUp(t) \/ Loop(t) \/ interrupt_cb(t) \/ AcceptFails(t)
  PROVE  EventInv'
<1>1. UNCHANGED <<callbacks_, armed, main, carry, conn, running_>>
  BY Zenon DEF WakeUp, Loop, AcceptFails, interrupt_cb, epollVars, mainVars, clientVars, stopVars
<1>2. PICK p : Goto(t, p)
  BY Zenon DEF WakeUp, Loop, AcceptFails, interrupt_cb, EndEvent
<1>3. UNCHANGED fd \/ \E f : fd' = [fd EXCEPT ![t] = f]
  BY Zenon DEF WakeUp, Loop, AcceptFails, interrupt_cb, EndEvent, workVars
<1>4. pc'[t] = p /\ \A u \in Threads : u # t => pc'[u] = pc[u] /\ fd'[u] = fd[u]
  BY <1>2, <1>3, OthersStay, Zenon
<1>5. pc[t] \in {"wait", "loop", "interrupt_cb", "AcceptClient"}
  BY Zenon DEF WakeUp, Loop, AcceptFails, interrupt_cb
<1>6. pc[t] \notin MessagePcs \cup {"event", "Stop"}
  BY <1>5, Zenon DEF MessagePcs, HandlerPcs, StopPcs
<1>7. Accepts(t) => Accepts(t)'
  <2>1. CASE AcceptFails(t)
    <3>1. pc' = [pc EXCEPT ![t] = "Stop"] /\ fd' = fd
      BY <2>1, Zenon DEF AcceptFails, Goto, workVars
    <3>2. pc'[t] = "Stop"
      BY <3>1, Zenon DEF IInv, Typed, WorkerTyped
    <3> QED
      BY <3>1, <3>2, Zenon DEF Accepts
  <2>2. CASE WakeUp(t) \/ Loop(t) \/ interrupt_cb(t)
    BY <2>2, Zenon DEF WakeUp, Loop, interrupt_cb, Accepts
  <2> QED
    BY <2>1, <2>2, Zenon
<1> QED
  BY <1>1, <1>4, <1>6, <1>7, SilentEvents, Zenon

\* Inside a message, and inside Stop.
LEMMA InsideEvents ==
  ASSUME IInv, EventInv, NEW t \in Threads,
         \/ HandleMessage(t) \/ RefuseRequest(t) \/ ClearHandler(t) \/ ReturnError(t)
         \/ StartCommand(t) \/ HandleEndsEarly(t) \/ StopServer(t) \/ WaitReturns(t) \/ Reap(t)
         \/ Stop(t) \/ TakeRequest(t) \/ NoneLeft(t) \/ InterruptTaken(t) \/ LockThreads(t)
         \/ JoinReturns(t) \/ StopReturns(t)
  PROVE  EventInv'
<1>1. UNCHANGED <<callbacks_, armed, main, carry, conn, fd>> /\ (running_' => running_)
  <2>1. CASE HandleMessage(t)
    BY <2>1, Zenon DEF HandleMessage, epollVars, mainVars, stopVars, workVars
  <2>2. CASE RefuseRequest(t)
    BY <2>2, Zenon DEF RefuseRequest, epollVars, mainVars, stopVars, workVars
  <2>3. CASE ClearHandler(t)
    BY <2>3, Zenon DEF ClearHandler, epollVars, mainVars, stopVars, workVars, clientVars
  <2>4. CASE ReturnError(t)
    BY <2>4, Zenon DEF ReturnError, epollVars, mainVars, stopVars, workVars, clientVars
  <2>5. CASE StartCommand(t)
    BY <2>5, Zenon DEF StartCommand, epollVars, mainVars, stopVars, workVars, clientVars
  <2>6. CASE HandleEndsEarly(t)
    BY <2>6, ZenonT(30) DEF HandleEndsEarly, epollVars, mainVars, stopVars, workVars, clientVars
  <2>7. CASE StopServer(t)
    BY <2>7, Zenon DEF StopServer, epollVars, mainVars, stopVars, workVars, clientVars
  <2>8. CASE WaitReturns(t)
    BY <2>8, Zenon DEF WaitReturns, epollVars, mainVars, stopVars, workVars, clientVars
  <2>9. CASE Reap(t)
    BY <2>9, Zenon DEF Reap, epollVars, mainVars, stopVars, workVars, clientVars
  <2>10. CASE \/ Stop(t) \/ TakeRequest(t) \/ NoneLeft(t) \/ InterruptTaken(t) \/ LockThreads(t)
             \/ JoinReturns(t) \/ StopReturns(t)
    BY <2>10, SMTT(20) DEF Stop, TakeRequest, NoneLeft, InterruptTaken, LockThreads, JoinReturns,
       StopReturns, epollVars, mainVars, clientVars, stopVars, workVars
  <2> QED
    BY <2>1, <2>2, <2>3, <2>4, <2>5, <2>6, <2>7, <2>8, <2>9, <2>10, Zenon
<1>2. pc[t] \in MessagePcs /\ (pc[t] = "Stop" => ~running_')
  BY Zenon DEF HandleMessage, RefuseRequest, ClearHandler, ReturnError, StartCommand,
     HandleEndsEarly, StopServer, WaitReturns, Reap, Stop, TakeRequest, NoneLeft,
     InterruptTaken, LockThreads, JoinReturns, StopReturns, MessagePcs, HandlerPcs, StopPcs
<1>3. PICK p : Goto(t, p) /\ (fd[t] \in Clients => p \in MessagePcs)
  <2>1. {"register", "respond", "failed", "unregister", "Wait", "done", "error", "Stop", "reap", "take",
         "strike", "stopped", "lock", "join"} \subseteq MessagePcs
    BY Zenon DEF MessagePcs, HandlerPcs, StopPcs
  <2>2. CASE \/ HandleMessage(t) \/ RefuseRequest(t) \/ ClearHandler(t) \/ ReturnError(t)
             \/ StartCommand(t) \/ HandleEndsEarly(t) \/ StopServer(t) \/ WaitReturns(t) \/ Reap(t)
    BY <2>1, <2>2, Zenon DEF HandleMessage, RefuseRequest, ClearHandler, ReturnError, StartCommand,
       HandleEndsEarly, StopServer, WaitReturns, Reap
  <2>3. CASE \/ Stop(t) \/ TakeRequest(t) \/ NoneLeft(t) \/ InterruptTaken(t) \/ LockThreads(t)
             \/ JoinReturns(t)
    BY <2>1, <2>3, Zenon DEF Stop, TakeRequest, NoneLeft, InterruptTaken, LockThreads, JoinReturns
  <2>4. CASE StopReturns(t)
    BY <2>1, <2>4, CvdAssumption DEF StopReturns
  <2> QED
    BY <2>2, <2>3, <2>4, Zenon
<1>4. pc'[t] = p /\ \A u \in Threads : u # t => pc'[u] = pc[u] /\ fd'[u] = fd[u]
  BY <1>1, <1>3, OthersStay, Zenon
<1>5. ~(Accepts(t) /\ running_') /\ pc[t] # "event"
  BY <1>2, Zenon DEF Accepts, MessagePcs, HandlerPcs, StopPcs
<1> QED
  BY <1>1, <1>2, <1>3, <1>4, <1>5, SilentEvents, Zenon

\* An event is delivered: its registration has fired.
LEMMA EpollWaitEvents ==
  ASSUME IInv, RestTyped, EventInv, NEW t \in Threads, EpollWait(t)
  PROVE  EventInv'
<1>1. PICK f \in Fds : fd' = [fd EXCEPT ![t] = f] /\ armed' = [armed EXCEPT ![f] = "off"]
  BY Zenon DEF EpollWait
<1>2. pc[t] = "wait" /\ Goto(t, "event") /\ UNCHANGED <<callbacks_, main, carry, conn, running_>>
  BY Zenon DEF EpollWait, mainVars, clientVars, stopVars
<1>3. pc'[t] = "event" /\ \A u \in Threads : u # t => pc'[u] = pc[u] /\ fd'[u] = fd[u]
  BY <1>1, <1>2, OthersStay, Zenon
<1>4. fd'[t] = f /\ \A g \in Fds : g # f => armed'[g] = armed[g]
  BY <1>1, Zenon DEF IInv, Typed, WorkerTyped, RestTyped, EventTyped
<1>5. pc[t] \notin MessagePcs \cup {"AcceptClient", "Stop", "event"}
  BY <1>2, Zenon DEF MessagePcs, HandlerPcs, StopPcs
<1>6. ASSUME NEW g \in Fds PROVE Fires(g)'
  <2>1. CASE g = f
    BY <1>3, <1>4, <2>1, Zenon DEF Fires, AtEvent
  <2>2. CASE g # f
    <3>1. Registers(g) /\ Fires(g) /\ \A u \in Threads : AtEvent(u, g) => AtEvent(u, g)'
      BY <1>2, <1>3, <1>4, <2>2, Zenon DEF Registers, EventInv, AtEvent
    <3> QED
      BY <3>1, FiresKept, Zenon
  <2> QED
    BY <2>1, <2>2
<1>7. ASSUME NEW c \in Clients PROVE Kept(c)'
  <2>1. Kept(c) /\ (Up' => Up) /\ \A u \in Threads : InMessage(u, c) => InMessage(u, c)'
    BY <1>2, <1>3, <1>5, Zenon DEF EventInv, Up, InMessage
  <2> QED
    BY <1>2, <2>1, KeptKept, Zenon
<1>8. Serving'
  <2>1. Serving /\ (Up' => Up) /\ \A u \in Threads : Accepts(u) => Accepts(u)'
    BY <1>2, <1>3, <1>5, Zenon DEF EventInv, Up, Accepts
  <2> QED
    BY <1>2, <2>1, ServingKept, Zenon
<1> QED
  BY <1>6, <1>7, <1>8, Zenon DEF EventInv

\* The worker that has the event takes the callback with it.
LEMMA TakeCallbackEvents ==
  ASSUME IInv, EventInv, NEW t \in Threads, TakeCallback(t)
  PROVE  EventInv'
<1> DEFINE f == fd[t]
<1>1. /\ pc[t] = "event" /\ UNCHANGED <<armed, main, carry, conn, running_>>
      /\ callbacks_' = [callbacks_ EXCEPT ![f] = "none"]
  BY Zenon DEF TakeCallback, mainVars, clientVars, stopVars
<1>2. /\ f \in Fds /\ callbacks_'[f] = "none"
      /\ \A g \in Fds : g # f => callbacks_'[g] = callbacks_[g]
  BY <1>1, Zenon DEF IInv, Typed, WorkerTyped, StateTyped
<1>3. callbacks_[f] # "none" => Goto(t, callbacks_[f]) /\ fd' = fd
  BY Zenon DEF TakeCallback
<1>4. \A u \in Threads : u # t => pc'[u] = pc[u] /\ fd'[u] = fd[u]
  <2>1. \E p : Goto(t, p)
    BY Zenon DEF TakeCallback, EndEvent
  <2>2. UNCHANGED fd \/ \E g : fd' = [fd EXCEPT ![t] = g]
    BY Zenon DEF TakeCallback, EndEvent
  <2> QED
    BY <2>1, <2>2, OthersStay, Zenon
<1>5. callbacks_[f] # "none" => pc'[t] = callbacks_[f] /\ fd'[t] = f
  BY <1>3, OthersStay, Zenon
<1>6. pc[t] \notin MessagePcs \cup {"AcceptClient", "Stop"}
  BY <1>1, Zenon DEF MessagePcs, HandlerPcs, StopPcs
<1> HIDE DEF f
<1>7. ASSUME NEW g \in Fds PROVE Fires(g)'
  <2>1. CASE g = f
    BY <1>2, <2>1, Zenon DEF Fires
  <2>2. CASE g # f
    <3>1. Registers(g) /\ Fires(g) /\ \A u \in Threads : AtEvent(u, g) => AtEvent(u, g)'
      BY <1>1, <1>2, <1>4, <2>2, Zenon DEF Registers, EventInv, AtEvent, f
    <3> QED
      BY <3>1, FiresKept, Zenon
  <2> QED
    BY <2>1, <2>2
<1>8. ASSUME NEW c \in Clients PROVE Kept(c)'
  <2>0. Kept(c) /\ (Up' => Up) /\ c \in Fds
    BY <1>1, Zenon DEF EventInv, Up, Fds
  <2>1. CASE c = f /\ callbacks_[c] = "HandleMessage"
    <3>1. InMessage(t, c)'
      BY <1>5, <2>1 DEF InMessage, MessagePcs
    <3> QED
      BY <3>1, Zenon DEF Kept
  <2>2. CASE c # f \/ callbacks_[c] # "HandleMessage"
    <3>1. callbacks_[c] = "HandleMessage" => callbacks_'[c] = "HandleMessage"
      BY <1>2, <2>0, <2>2, Zenon
    <3>2. \A u \in Threads : InMessage(u, c) => InMessage(u, c)'
      BY <1>4, <1>6, Zenon DEF InMessage
    <3> QED
      BY <1>1, <2>0, <3>1, <3>2, KeptKept, Zenon
  <2> QED
    BY <2>1, <2>2, Zenon
<1>9. Serving'
  <2>0. Serving /\ (Up' => Up) /\ "server" \in Fds
    BY <1>1, Zenon DEF EventInv, Up, Fds
  <2>1. CASE f = "server" /\ callbacks_[f] = "AcceptClient"
    <3>1. Accepts(t)'
      BY <1>5, <2>1 DEF Accepts
    <3> QED
      BY <3>1, Zenon DEF Serving
  <2>2. CASE f # "server" \/ callbacks_[f] # "AcceptClient"
    <3>1. callbacks_["server"] = "AcceptClient" => callbacks_'["server"] = "AcceptClient"
      BY <1>2, <2>0, <2>2, Zenon
    <3>2. \A u \in Threads : Accepts(u) => Accepts(u)'
      BY <1>4, <1>6, Zenon DEF Accepts
    <3> QED
      BY <1>1, <2>0, <3>1, <3>2, ServingKept, Zenon
  <2> QED
    BY <2>1, <2>2, Zenon
<1> QED
  BY <1>7, <1>8, <1>9, Zenon DEF EventInv

\* A step of worker t that registers or removes the client whose message it has.
LEMMA OwnEvents ==
  ASSUME EventInv, NEW t \in Threads, pc[t] \in MessagePcs, fd[t] \in Clients,
         UNCHANGED <<main, carry, running_>>, Registers(fd[t]),
         \A f \in Fds : f # fd[t] => callbacks_'[f] = callbacks_[f] /\ armed'[f] = armed[f],
         \A c \in Clients : conn'[c] = "open" => conn[c] = "open",
         \A u \in Threads : u # t => pc'[u] = pc[u] /\ fd'[u] = fd[u],
         \/ conn'[fd[t]] # "open"
         \/ callbacks_'[fd[t]] = "HandleMessage"
         \/ fd'[t] = fd[t] /\ pc'[t] \in MessagePcs
  PROVE  EventInv'
<1>1. pc[t] # "event" /\ fd[t] # "server" /\ "server" \in Fds /\ Clients \subseteq Fds
  BY CvdAssumption DEF MessagePcs, HandlerPcs, StopPcs, Fds
<1>2. ASSUME NEW f \in Fds PROVE Fires(f)'
  <2>1. \A u \in Threads : AtEvent(u, f) => AtEvent(u, f)'
    BY <1>1, Zenon DEF AtEvent
  <2>2. Registers(f) /\ Fires(f)
    BY Zenon DEF Registers, EventInv
  <2> QED
    BY <2>1, <2>2, FiresKept, Zenon
<1>3. ASSUME NEW c \in Clients PROVE Kept(c)'
  <2>1. CASE c = fd[t]
    BY <2>1, Zenon DEF Kept, InMessage
  <2>2. CASE c # fd[t]
    <3>1. \A u \in Threads : InMessage(u, c) => InMessage(u, c)'
      BY <2>2, Zenon DEF InMessage
    <3>2. Kept(c) /\ (Up' => Up) /\ callbacks_'[c] = callbacks_[c]
      BY <1>1, <2>2, Zenon DEF EventInv, Up
    <3> QED
      BY <3>1, <3>2, KeptKept, Zenon
  <2> QED
    BY <2>1, <2>2, Zenon
<1>4. Serving'
  <2>1. \A u \in Threads : Accepts(u) /\ running_' => Accepts(u)'
    BY <1>1, Zenon DEF Accepts
  <2>2. Serving /\ (Up' => Up) /\ callbacks_'["server"] = callbacks_["server"]
    BY <1>1, Zenon DEF EventInv, Up
  <2> QED
    BY <2>1, <2>2, ServingKept, Zenon
<1> QED
  BY <1>2, <1>3, <1>4, Zenon DEF EventInv

\* The client is let go of, listened to again, or watched while its request is handled.
LEMMA ReturnEvents ==
  ASSUME IInv, RestTyped, EventInv, NEW t \in Threads,
         \/ AbandonClient(t) \/ SendResponse(t) \/ Reregister(t) \/ SendFailure(t)
         \/ RegisterInterrupt(t) \/ ReturnResponse(t)
  PROVE  EventInv'
<1> DEFINE f == fd[t]
<1>1. pc[t] \in {"HandleMessage", "respond", "reregister", "failed", "register", "unregister"}
  BY Zenon DEF AbandonClient, SendResponse, Reregister, SendFailure, RegisterInterrupt,
     ReturnResponse
<1>2. pc[t] \in MessagePcs /\ pc[t] \in ClientPcs
  BY <1>1 DEF ClientPcs, MessagePcs, HandlerPcs, StopPcs
<1>3. f \in Clients /\ f \in Fds
  BY <1>2, Zenon DEF IInv, FdInv, Fds
<1>4. UNCHANGED <<main, carry, running_>>
  BY Zenon DEF AbandonClient, SendResponse, Reregister, SendFailure, RegisterInterrupt,
     ReturnResponse, mainVars, stopVars
<1>5. \/ UNCHANGED <<callbacks_, armed>>
      \/ Remove(f)
      \/ Register(f, "in", "HandleMessage")
      \/ Register(f, "hup", "interrupt_cb")
  BY Zenon DEF AbandonClient, SendResponse, Reregister, SendFailure, RegisterInterrupt,
     ReturnResponse, epollVars
<1>6. /\ callbacks_ \in [Fds -> Callbacks] /\ armed \in [Fds -> {"off", "in", "hup"}]
      /\ conn \in [Clients -> {"none", "backlog", "open", "dropped"}]
  BY Zenon DEF RestTyped, EventTyped, IInv, Typed, StateTyped
<1>7. Registers(f) /\ \A g \in Fds : g # f => callbacks_'[g] = callbacks_[g] /\ armed'[g] = armed[g]
  <2>1. Mask("HandleMessage") = "in" /\ Mask("interrupt_cb") = "hup"
    BY DEF Mask
  <2> QED
    BY <1>3, <1>5, <1>6, <2>1, Zenon DEF Registers, Remove, Register
<1>8. UNCHANGED conn \/ Drop(f)
  BY Zenon DEF AbandonClient, SendResponse, Reregister, SendFailure, RegisterInterrupt,
     ReturnResponse, clientVars
<1>9. \A c \in Clients : conn'[c] = "open" => conn[c] = "open"
  BY <1>3, <1>6, <1>8, Zenon DEF Drop
<1>10. \A u \in Threads : u # t => pc'[u] = pc[u] /\ fd'[u] = fd[u]
  <2>1. \E p : Goto(t, p)
    BY Zenon DEF AbandonClient, SendResponse, Reregister, SendFailure, RegisterInterrupt,
       ReturnResponse, EndEvent
  <2>2. UNCHANGED fd \/ \E g : fd' = [fd EXCEPT ![t] = g]
    BY Zenon DEF AbandonClient, SendResponse, Reregister, SendFailure, RegisterInterrupt,
       ReturnResponse, EndEvent, workVars
  <2> QED
    BY <2>1, <2>2, OthersStay, Zenon
<1>11. \/ Drop(f)
       \/ Register(f, "in", "HandleMessage")
       \/ fd' = fd /\ \E p \in MessagePcs : Goto(t, p)
  <2>1. {"reregister", "Handle", "error", "respond"} \subseteq MessagePcs
    BY DEF MessagePcs, HandlerPcs
  <2> QED
    BY <2>1, Zenon DEF AbandonClient, SendResponse, Reregister, SendFailure, RegisterInterrupt,
       ReturnResponse, workVars
<1>12. \/ conn'[f] # "open" \/ callbacks_'[f] = "HandleMessage"
       \/ fd'[t] = f /\ pc'[t] \in MessagePcs
  <2>1. CASE Drop(f)
    BY <1>3, <1>6, <2>1, Zenon DEF Drop
  <2>2. CASE Register(f, "in", "HandleMessage")
    BY <1>3, <1>6, <2>2, Zenon DEF Register
  <2>3. CASE fd' = fd /\ \E p \in MessagePcs : Goto(t, p)
    BY <2>3, OthersStay, ZenonT(30)
  <2> QED
    BY <1>11, <2>1, <2>2, <2>3, Zenon
<1> QED
  BY <1>2, <1>3, <1>4, <1>7, <1>9, <1>10, <1>12, OwnEvents, Zenon

\* The accepted client and the server's descriptor are both listened to.
LEMMA AcceptClientEvents ==
  ASSUME IInv, RestTyped, EventInv, NEW t \in Threads, AcceptClient(t)
  PROVE  EventInv'
<1>1. PICK c \in Clients :
        /\ conn' = [conn EXCEPT ![c] = "open"]
        /\ callbacks_' = [callbacks_ EXCEPT ![c] = "HandleMessage", !["server"] = "AcceptClient"]
        /\ armed' = [armed EXCEPT ![c] = "in", !["server"] = "in"]
  BY Zenon DEF AcceptClient
<1>2. c # "server" /\ c \in Fds /\ "server" \in Fds /\ Clients \subseteq Fds
  BY CvdAssumption DEF Fds
<1>3. /\ callbacks_ \in [Fds -> Callbacks] /\ armed \in [Fds -> {"off", "in", "hup"}]
      /\ conn \in [Clients -> {"none", "backlog", "open", "dropped"}]
  BY Zenon DEF RestTyped, EventTyped, IInv, Typed, StateTyped
<1>4. /\ callbacks_'[c] = "HandleMessage" /\ armed'[c] = "in"
      /\ callbacks_'["server"] = "AcceptClient" /\ armed'["server"] = "in"
      /\ \A f \in Fds : f # c /\ f # "server" => callbacks_'[f] = callbacks_[f] /\ armed'[f] = armed[f]
  BY <1>1, <1>2, <1>3
<1>5. \A d \in Clients : d # c => conn'[d] = conn[d]
  BY <1>1, <1>3, Zenon
<1>6. pc[t] = "AcceptClient" /\ UNCHANGED <<main, carry, running_>>
  BY Zenon DEF AcceptClient, mainVars, stopVars
<1>7. \A u \in Threads : u # t => pc'[u] = pc[u] /\ fd'[u] = fd[u]
  <2>1. Goto(t, "loop") /\ \E f : fd' = [fd EXCEPT ![t] = f]
    BY Zenon DEF AcceptClient, EndEvent
  <2> QED
    BY <2>1, OthersStay, Zenon
<1>8. pc[t] \notin MessagePcs /\ pc[t] # "event"
  BY <1>6, Zenon DEF MessagePcs, HandlerPcs, StopPcs
<1>9. ASSUME NEW f \in Fds PROVE Fires(f)'
  <2>1. Mask("HandleMessage") = "in" /\ Mask("AcceptClient") = "in"
    BY DEF Mask
  <2>2. Registers(f)
    BY <1>4, <2>1, Zenon DEF Registers
  <2>3. Fires(f) /\ \A u \in Threads : AtEvent(u, f) => AtEvent(u, f)'
    BY <1>7, <1>8, Zenon DEF AtEvent, EventInv
  <2> QED
    BY <2>2, <2>3, FiresKept, Zenon
<1>10. ASSUME NEW d \in Clients PROVE Kept(d)'
  <2>1. CASE d = c
    BY <1>4, <2>1, Zenon DEF Kept
  <2>2. CASE d # c
    <3>1. \A u \in Threads : InMessage(u, d) => InMessage(u, d)'
      BY <1>7, <1>8, Zenon DEF InMessage
    <3>2. d # "server" /\ d \in Fds
      BY CvdAssumption DEF Fds
    <3>3. Kept(d) /\ (Up' => Up) /\ callbacks_'[d] = callbacks_[d] /\ conn'[d] = conn[d]
      BY <1>4, <1>5, <1>6, <2>2, <3>2, Zenon DEF EventInv, Up
    <3> QED
      BY <1>6, <3>1, <3>3, KeptKept, Zenon
  <2> QED
    BY <2>1, <2>2, Zenon
<1> QED
  BY <1>4, <1>9, <1>10, Zenon DEF EventInv, Serving

\* The new process has lost every registration, and every client but one.
LEMMA ExecEvents ==
  ASSUME NEW t \in Threads, Exec(t)
  PROVE  EventInv'
<1>1. /\ main' = "start" /\ carry' = fd[t] /\ callbacks_' = [f \in Fds |-> "none"]
      /\ \A c \in Clients : c # fd[t] => conn'[c] # "open"
  BY Zenon DEF Exec
<1>2. \A f \in Fds : Fires(f)'
  BY <1>1, Zenon DEF Fires
<1>3. \A c \in Clients : Kept(c)'
  BY <1>1, Zenon DEF Kept
<1>4. Serving'
  BY <1>1, Zenon DEF Serving
<1> QED
  BY <1>2, <1>3, <1>4, Zenon DEF EventInv

\* The main thread, which registers the server's descriptor and the client of a restart.
LEMMA MainEvents ==
  ASSUME IInv, RestTyped, EventInv, MainStep
  PROVE  EventInv'
<1>1. /\ callbacks_ \in [Fds -> Callbacks] /\ armed \in [Fds -> {"off", "in", "hup"}]
      /\ "server" \in Fds
  BY Zenon DEF RestTyped, EventTyped, IInv, Typed, StateTyped, Fds
<1>2. UNCHANGED <<pc, fd, conn, carry>> /\ (running_' => running_) /\ (Up' => Up)
  BY DEF MainStep, StartServer, AcceptCarryoverClient, DestroyServer, Join, workVars, clientVars,
     stopVars, Up
<1>3. /\ \A u \in Threads, f \in Fds : AtEvent(u, f) => AtEvent(u, f)'
      /\ \A u \in Threads, c \in Clients : InMessage(u, c) => InMessage(u, c)'
      /\ \A u \in Threads : Accepts(u) => Accepts(u)'
  BY <1>2, Zenon DEF AtEvent, InMessage, Accepts
<1>4. Mask("HandleMessage") = "in" /\ Mask("AcceptClient") = "in"
  BY DEF Mask
<1>5. CASE StartServer
  <2>1. /\ main' = IF carry = NoOne THEN "join" ELSE "carry"
        /\ callbacks_' = [callbacks_ EXCEPT !["server"] = "AcceptClient"]
        /\ armed' = [armed EXCEPT !["server"] = "in"]
    BY <1>5, Zenon DEF StartServer, Register
  <2>2. /\ callbacks_'["server"] = "AcceptClient" /\ armed'["server"] = "in"
        /\ \A f \in Fds : f # "server" => callbacks_'[f] = callbacks_[f] /\ armed'[f] = armed[f]
    BY <1>1, <2>1, Zenon
  <2>3. ASSUME NEW f \in Fds PROVE Fires(f)'
    <3>1. Registers(f) /\ Fires(f)
      BY <1>4, <2>2, Zenon DEF Registers, EventInv
    <3> QED
      BY <1>3, <3>1, FiresKept, Zenon
  <2>4. ASSUME NEW c \in Clients PROVE Kept(c)'
    <3>1. c # "server" /\ c \in Fds /\ c # NoOne
      BY CvdAssumption DEF Fds
    <3>2. c = carry => main' = "carry"
      BY <2>1, <3>1, Zenon
    <3>3. Kept(c) /\ callbacks_'[c] = callbacks_[c]
      BY <2>2, <3>1, Zenon DEF EventInv
    <3> QED
      BY <1>2, <1>3, <3>2, <3>3, KeptKept, Zenon
  <2> QED
    BY <2>2, <2>3, <2>4, Zenon DEF EventInv, Serving
<1>6. CASE AcceptCarryoverClient
  <2>1. /\ main = "carry" /\ callbacks_' = [callbacks_ EXCEPT ![carry] = "HandleMessage"]
        /\ armed' = [armed EXCEPT ![carry] = "in"]
    BY <1>6, Zenon DEF AcceptCarryoverClient, Register
  <2>2. \A f \in Fds : IF f = carry THEN callbacks_'[f] = "HandleMessage" /\ armed'[f] = "in"
                                    ELSE callbacks_'[f] = callbacks_[f] /\ armed'[f] = armed[f]
    BY <1>1, <2>1
  <2>3. ASSUME NEW f \in Fds PROVE Fires(f)'
    <3>1. Registers(f) /\ Fires(f)
      BY <1>4, <2>2, Zenon DEF Registers, EventInv
    <3> QED
      BY <1>3, <3>1, FiresKept, Zenon
  <2>4. ASSUME NEW c \in Clients PROVE Kept(c)'
    <3>1. c \in Fds
      BY Zenon DEF Fds
    <3>2. CASE c = carry
      BY <2>2, <3>1, <3>2, Zenon DEF Kept
    <3>3. CASE c # carry
      <4>1. Kept(c) /\ callbacks_'[c] = callbacks_[c]
        BY <2>2, <3>1, <3>3, Zenon DEF EventInv
      <4> QED
        BY <1>2, <1>3, <3>3, <4>1, KeptKept, Zenon
    <3> QED
      BY <3>2, <3>3, Zenon
  <2>5. Serving'
    <3>1. carry # "server"
      BY CvdAssumption DEF IInv, Typed, StateTyped, NoOne
    <3>2. Serving /\ callbacks_'["server"] = callbacks_["server"] /\ main # "start"
      BY <1>1, <2>1, <2>2, <3>1, Zenon DEF EventInv
    <3> QED
      BY <1>2, <1>3, <3>2, ServingKept, Zenon
  <2> QED
    BY <2>3, <2>4, <2>5, Zenon DEF EventInv
<1>7. CASE DestroyServer \/ Join
  <2>1. UNCHANGED <<callbacks_, armed>> /\ main \notin {"start", "carry"}
    BY <1>7, Zenon DEF DestroyServer, Join, epollVars
  <2>2. ASSUME NEW f \in Fds PROVE Fires(f)'
    <3>1. Registers(f) /\ Fires(f)
      BY <2>1, Zenon DEF Registers, EventInv
    <3> QED
      BY <1>3, <3>1, FiresKept, Zenon
  <2>3. ASSUME NEW c \in Clients PROVE Kept(c)'
    <3>1. Kept(c)
      BY Zenon DEF EventInv
    <3> QED
      BY <1>2, <1>3, <2>1, <3>1, KeptKept, Zenon
  <2>4. Serving'
    <3>1. Serving
      BY Zenon DEF EventInv
    <3> QED
      BY <1>2, <1>3, <2>1, <3>1, ServingKept, Zenon
  <2> QED
    BY <2>2, <2>3, <2>4, Zenon DEF EventInv
<1> QED
  BY <1>5, <1>6, <1>7, Zenon DEF MainStep

\* Clients, subprocesses and the end of the process.
LEMMA ClientEvents ==
  ASSUME IInv, EventInv, NEW c \in Clients, Connect(c) \/ Send(c) \/ Leave(c) \/ ChildExits(c)
  PROVE  EventInv'
<1>1. UNCHANGED <<callbacks_, armed, pc, fd, main, carry, running_>>
  BY Zenon DEF Connect, Send, Leave, ChildExits, mainVars, stopVars, epollVars, workVars
<1>2. \A d \in Clients : conn'[d] = "open" => conn[d] = "open"
  <2>1. UNCHANGED conn \/ conn' = [conn EXCEPT ![c] = "backlog"]
    BY Zenon DEF Connect, Send, Leave, ChildExits, clientVars
  <2>2. conn \in [Clients -> {"none", "backlog", "open", "dropped"}]
    BY Zenon DEF IInv, Typed, StateTyped
  <2> QED
    BY <2>1, <2>2, Zenon
<1> QED
  BY <1>1, <1>2, Zenon DEF EventInv, Fires, Kept, Serving, AtEvent, InMessage, Accepts, Up

LEMMA AbortEvents ==
  ASSUME EventInv, NEW t \in Threads, InterruptDestroyed(t) \/ DoubleJoin(t)
  PROVE  EventInv'
<1>1. UNCHANGED <<callbacks_, armed, pc, fd>> /\ main' = "aborted"
  BY Zenon DEF InterruptDestroyed, DoubleJoin, epollVars, workVars
<1>2. ~Up'
  BY <1>1, Zenon DEF Up
<1> QED
  BY <1>1, <1>2, Zenon DEF EventInv, Fires, Kept, Serving, AtEvent

LEMMA NextEvents ==
  ASSUME IInv, RestTyped, EventInv, [Next]_vars
  PROVE  EventInv'
<1>1. ASSUME NEW t \in Threads, WorkerStep(t)
      PROVE  EventInv'
  BY <1>1, LoopEvents, InsideEvents, EpollWaitEvents, TakeCallbackEvents, ReturnEvents,
     AcceptClientEvents, ExecEvents, Zenon DEF WorkerStep
<1>2. CASE UNCHANGED vars
  <2>1. UNCHANGED <<callbacks_, armed, pc, fd, main, carry, running_, conn>>
    BY <1>2, Zenon DEF vars, mainVars, stopVars, epollVars, workVars, clientVars
  <2> QED
    BY <2>1, Zenon DEF EventInv, Fires, Kept, Serving, AtEvent, InMessage, Accepts, Up
<1> QED
  BY <1>1, <1>2, MainEvents, ClientEvents, AbortEvents, Zenon DEF Next

LEMMA InitEvents ==
  Init => EventInv
<1> SUFFICES ASSUME Init PROVE EventInv
  OBVIOUS
<1>1. /\ main = "start" /\ \A f \in Fds : callbacks_[f] = "none"
      /\ \A c \in Clients : conn[c] = "none"
  BY Zenon DEF Init
<1> QED
  BY <1>1, Zenon DEF EventInv, Fires, Kept, Serving

----------------------------------------------------------------------------
(* The departure of a client reaches the handler that works for it.           *)

\* A request exists while it is handled, and a command that is waited for is in the
\* waiter.
CommandInv ==
  \A t \in Threads :
    /\ pc[t] \in RequestPcs => fd[t] \in exists
    /\ pc[t] = "Wait" => fd[t] \in subprocess_ /\ req[fd[t]] = "command"

\* A hangup of the client will be, or is being, turned into an interrupt.
Watched(c) ==
  callbacks_[c] = "interrupt_cb" \/ \E u \in Threads : fd[u] = c /\ pc[u] = "interrupt_cb"

\* The request of worker t has been interrupted, or needs no interrupt to end.
Struck(t) ==
  /\ pc[t] = "Wait" => child[fd[t]] # "running"
  /\ pc[t] \in {"register", "Handle"} /\ req[fd[t]] = "command" => fd[t] \in interrupted_

DepartureSeen ==
  \A t \in Threads : pc[t] \in {"Handle", "Wait"} => Watched(fd[t]) \/ Struck(t)

DepartureInv == CommandInv /\ DepartureSeen

\* What a step may do to the request of a client that another worker handles.
Untouched(c) ==
  /\ req'[c] = req[c]
  /\ c \in exists => c \in exists'
  /\ c \in subprocess_ => c \in subprocess_'
  /\ c \in interrupted_ => c \in interrupted_'
  /\ child'[c] = "running" => child[c] = "running"

LEMMA StruckStays ==
  ASSUME NEW u \in Threads, pc'[u] = pc[u], fd'[u] = fd[u], Untouched(fd[u]), Struck(u)
  PROVE  Struck(u)'
  BY Zenon DEF Struck, Untouched

\* An interrupt strikes the handler that works for the client, and no other.
LEMMA InterruptTouches ==
  ASSUME IInv, NEW d, NEW c \in Clients, Interrupt(d), UNCHANGED <<req, exists>>
  PROVE  Untouched(c)
<1>1. child \in [Clients -> {"none", "running", "killed", "zombie", "reaped"}]
  BY Zenon DEF IInv, Typed, StateTyped
<1>2. CASE d \in handler \cap exists /\ req[d] = "command"
  <2>1. /\ interrupted_' = interrupted_ \cup {d} /\ subprocess_' = subprocess_
        /\ child' = [child EXCEPT ![d] =
                       IF d \in subprocess_ /\ child[d] = "running" THEN "killed" ELSE child[d]]
    BY <1>2 DEF Interrupt
  <2>2. child'[c] = "running" => child[c] = "running"
    BY <1>1, <2>1
  <2> QED
    BY <2>1, <2>2, Zenon DEF Untouched
<1>3. CASE ~(d \in handler \cap exists /\ req[d] = "command")
  <2>1. UNCHANGED cmdVars
    BY <1>3, Zenon DEF Interrupt
  <2> QED
    BY <2>1, Zenon DEF Untouched, cmdVars
<1> QED
  BY <1>2, <1>3, Zenon

LEMMA InterruptStrikes ==
  ASSUME IInv, CommandInv, NEW u \in Threads, pc[u] \in RequestPcs, fd[u] \in Clients,
         Interrupt(fd[u]), UNCHANGED req, pc'[u] = pc[u], fd'[u] = fd[u]
  PROVE  Struck(u)'
<1> DEFINE c == fd[u]
<1>1. c \in handler /\ c \in exists
  BY Zenon DEF IInv, RequestInv, CommandInv
<1>2. CASE req[c] = "command"
  <2>1. /\ interrupted_' = interrupted_ \cup {c} /\ subprocess_' = subprocess_
        /\ child' = [child EXCEPT ![c] =
                       IF c \in subprocess_ /\ child[c] = "running" THEN "killed" ELSE child[c]]
    BY <1>1, <1>2, Zenon DEF Interrupt
  <2>2. child \in [Clients -> {"none", "running", "killed", "zombie", "reaped"}]
    BY Zenon DEF IInv, Typed, StateTyped
  <2>3. c \in subprocess_ => child'[c] # "running"
    BY <2>1, <2>2, Zenon
  <2> QED
    BY <2>1, <2>3, Zenon DEF Struck, CommandInv
<1>3. CASE req[c] # "command"
  BY <1>3, Zenon DEF Struck, CommandInv
<1> QED
  BY <1>2, <1>3, Zenon

\* A worker touches the request of its own client only.
LEMMA WorkerTouches ==
  ASSUME IInv, RestTyped, NEW t \in Threads, WorkerStep(t), ~Exec(t),
         NEW c \in Clients, ~InMessage(t, c)
  PROVE  Untouched(c)
<1>0. /\ child \in [Clients -> {"none", "running", "killed", "zombie", "reaped"}]
      /\ req \in [Clients -> Kinds \cup {"none"}]
  BY Zenon DEF IInv, Typed, StateTyped, RestTyped, ClientTyped
<1>1. ASSUME UNCHANGED <<req, exists, subprocess_, interrupted_, child>>
      PROVE  Untouched(c)
  BY <1>1, Zenon DEF Untouched
<1>2. CASE \/ EpollWait(t) \/ WakeUp(t) \/ TakeCallback(t) \/ Loop(t) \/ AcceptClient(t)
           \/ AcceptFails(t) \/ RefuseRequest(t) \/ RegisterInterrupt(t) \/ ClearHandler(t)
  BY <1>1, <1>2, Zenon DEF EpollWait, WakeUp, TakeCallback, Loop, AcceptClient, AcceptFails,
     RefuseRequest, RegisterInterrupt, ClearHandler, reqVars, cmdVars, clientVars
<1>3. CASE \/ HandleEndsEarly(t) \/ StopServer(t) \/ WaitReturns(t) \/ Stop(t) \/ TakeRequest(t)
           \/ NoneLeft(t) \/ LockThreads(t) \/ JoinReturns(t) \/ StopReturns(t)
  BY <1>1, <1>3 DEF HandleEndsEarly, StopServer, WaitReturns, Stop, TakeRequest, NoneLeft,
     LockThreads, JoinReturns, StopReturns, reqVars, cmdVars, clientVars
<1>4. CASE interrupt_cb(t) \/ InterruptTaken(t)
  <2>1. (\E d : Interrupt(d)) /\ UNCHANGED <<req, exists>>
    BY <1>4, Zenon DEF interrupt_cb, InterruptTaken, reqVars, clientVars
  <2> QED
    BY <2>1, InterruptTouches, Zenon
<1>5. CASE \/ AbandonClient(t) \/ HandleMessage(t) \/ SendResponse(t) \/ Reregister(t)
           \/ SendFailure(t) \/ ReturnResponse(t) \/ ReturnError(t) \/ StartCommand(t) \/ Reap(t)
  <2>1. pc[t] \in {"HandleMessage", "respond", "reregister", "failed", "unregister", "error",
                   "Handle", "reap"}
    BY <1>5, Zenon DEF AbandonClient, HandleMessage, SendResponse, Reregister, SendFailure,
       ReturnResponse, ReturnError, StartCommand, Reap
  <2>2. c # fd[t]
    BY <2>1, Zenon DEF InMessage, MessagePcs, HandlerPcs
  <2>3. CASE AbandonClient(t) \/ HandleMessage(t) \/ SendResponse(t) \/ Reregister(t) \/ SendFailure(t)
    <3>1. UNCHANGED <<subprocess_, interrupted_, child>> /\ exists \subseteq exists'
      BY <2>3, Zenon DEF AbandonClient, HandleMessage, SendResponse, Reregister, SendFailure, reqVars, cmdVars
    <3>2. UNCHANGED req \/ req' = [req EXCEPT ![fd[t]] = "none"]
      BY <2>3, Zenon DEF AbandonClient, HandleMessage, SendResponse, Reregister, SendFailure, Drop
    <3> QED
      BY <1>0, <2>2, <3>1, <3>2, Zenon DEF Untouched
  <2>4. CASE ReturnResponse(t) \/ ReturnError(t)
    <3>1. DestroyHandler(fd[t]) /\ UNCHANGED req
      BY <2>4, Zenon DEF ReturnResponse, ReturnError, clientVars
    <3> QED
      BY <1>0, <2>2, <3>1, Zenon DEF Untouched, DestroyHandler
  <2>5. CASE StartCommand(t)
    <3>1. /\ subprocess_' = subprocess_ \cup {fd[t]} /\ child' = [child EXCEPT ![fd[t]] = "running"]
          /\ UNCHANGED <<req, exists, interrupted_>>
      BY <2>5, Zenon DEF StartCommand, reqVars, clientVars
    <3> QED
      BY <1>0, <2>2, <3>1, Zenon DEF Untouched
  <2>6. CASE Reap(t)
    <3>1. /\ subprocess_' = subprocess_ \ {fd[t]} /\ child' = [child EXCEPT ![fd[t]] = "reaped"]
          /\ UNCHANGED <<req, exists, interrupted_>>
      BY <2>6, Zenon DEF Reap, reqVars, clientVars
    <3> QED
      BY <1>0, <2>2, <3>1, Zenon DEF Untouched
  <2> QED
    BY <1>5, <2>3, <2>4, <2>5, <2>6, Zenon
<1> QED
  BY <1>2, <1>3, <1>4, <1>5, Zenon DEF WorkerStep

LEMMA WorkerAlone ==
  ASSUME IInv, NEW t \in Threads, WorkerStep(t), ~Exec(t)
  PROVE  \A u \in Threads : u # t => pc'[u] = pc[u] /\ fd'[u] = fd[u]
<1>1. (\E p : Goto(t, p)) /\ (UNCHANGED fd \/ \E f : fd' = [fd EXCEPT ![t] = f])
  <2>1. CASE \/ EpollWait(t) \/ WakeUp(t) \/ TakeCallback(t) \/ Loop(t) \/ AcceptClient(t)
             \/ AcceptFails(t) \/ RefuseRequest(t) \/ RegisterInterrupt(t) \/ ClearHandler(t)
    BY <2>1, Zenon DEF EpollWait, WakeUp, TakeCallback, Loop, AcceptClient, AcceptFails,
       RefuseRequest, RegisterInterrupt, ClearHandler, EndEvent, workVars
  <2>2. CASE \/ HandleEndsEarly(t) \/ StopServer(t) \/ WaitReturns(t) \/ Stop(t) \/ TakeRequest(t)
             \/ NoneLeft(t) \/ LockThreads(t) \/ JoinReturns(t) \/ StopReturns(t)
    BY <2>2, Zenon DEF HandleEndsEarly, StopServer, WaitReturns, Stop, TakeRequest, NoneLeft,
       LockThreads, JoinReturns, StopReturns, workVars
  <2>3. CASE interrupt_cb(t) \/ InterruptTaken(t) \/ AbandonClient(t) \/ HandleMessage(t)
             \/ SendResponse(t) \/ Reregister(t)
    BY <2>3, Zenon DEF interrupt_cb, InterruptTaken, AbandonClient, HandleMessage, SendResponse,
       Reregister, EndEvent, workVars
  <2>4. CASE SendFailure(t) \/ ReturnResponse(t) \/ ReturnError(t) \/ StartCommand(t) \/ Reap(t)
    BY <2>4, Zenon DEF SendFailure, ReturnResponse, ReturnError, StartCommand, Reap, EndEvent,
       workVars
  <2> QED
    BY <2>1, <2>2, <2>3, <2>4, Zenon DEF WorkerStep
<1> QED
  BY <1>1, OthersStay, Zenon

\* The steps a worker can take at some of its positions.
LEMMA ByPosition ==
  ASSUME NEW t \in Threads, WorkerStep(t)
  PROVE  /\ pc[t] = "interrupt_cb" => interrupt_cb(t)
         /\ pc[t] = "loop" => Loop(t)
         /\ pc[t] = "Handle" => StartCommand(t) \/ HandleEndsEarly(t) \/ StopServer(t)
         /\ pc[t] = "take" => TakeRequest(t) \/ NoneLeft(t)
         /\ pc[t] = "strike" => InterruptTaken(t)
         /\ pc[t] = "lock" => LockThreads(t)
         /\ pc[t] = "join" => JoinReturns(t)
         /\ pc[t] = "stopped" => StopReturns(t) \/ Exec(t)
<1>1. CASE \/ EpollWait(t) \/ WakeUp(t) \/ TakeCallback(t) \/ AcceptClient(t) \/ AcceptFails(t)
           \/ AbandonClient(t) \/ HandleMessage(t) \/ RefuseRequest(t) \/ RegisterInterrupt(t)
  <2>1. pc[t] \in {"wait", "event", "AcceptClient", "HandleMessage", "register"}
    BY <1>1, Zenon DEF EpollWait, WakeUp, TakeCallback, AcceptClient, AcceptFails, AbandonClient,
       HandleMessage, RefuseRequest, RegisterInterrupt
  <2> QED
    BY <2>1, Zenon
<1>2. CASE \/ ClearHandler(t) \/ ReturnResponse(t) \/ ReturnError(t) \/ SendResponse(t)
           \/ Reregister(t) \/ SendFailure(t) \/ WaitReturns(t) \/ Reap(t) \/ Stop(t)
  <2>1. pc[t] \in {"done", "unregister", "error", "respond", "reregister", "failed", "Wait", "reap",
                   "Stop"}
    BY <1>2, Zenon DEF ClearHandler, ReturnResponse, ReturnError, SendResponse, Reregister,
       SendFailure, WaitReturns, Reap, Stop
  <2> QED
    BY <2>1, Zenon
<1>3. CASE interrupt_cb(t)
  BY <1>3, Zenon DEF interrupt_cb
<1>4. CASE Loop(t)
  BY <1>4, Zenon DEF Loop
<1>5. CASE StartCommand(t) \/ HandleEndsEarly(t) \/ StopServer(t)
  <2>1. pc[t] = "Handle"
    BY <1>5, Zenon DEF StartCommand, HandleEndsEarly, StopServer
  <2> QED
    BY <1>5, <2>1, Zenon
<1>6. CASE TakeRequest(t) \/ NoneLeft(t)
  <2>1. pc[t] = "take"
    BY <1>6, Zenon DEF TakeRequest, NoneLeft
  <2> QED
    BY <1>6, <2>1, Zenon
<1>7. CASE InterruptTaken(t)
  BY <1>7, Zenon DEF InterruptTaken
<1>8. CASE LockThreads(t)
  BY <1>8, Zenon DEF LockThreads
<1>9. CASE JoinReturns(t)
  BY <1>9, Zenon DEF JoinReturns
<1>10. CASE StopReturns(t) \/ Exec(t)
  <2>1. pc[t] = "stopped"
    BY <1>10, Zenon DEF StopReturns, Exec
  <2> QED
    BY <1>10, <2>1, Zenon
<1> QED
  BY <1>1, <1>2, <1>3, <1>4, <1>5, <1>6, <1>7, <1>8, <1>9, <1>10, Zenon DEF WorkerStep

\* The worker whose request it is finds it untouched by the others.
LEMMA OthersRequest ==
  ASSUME IInv, RestTyped, NEW t \in Threads, WorkerStep(t), ~Exec(t),
         NEW u \in Threads, u # t, pc[u] \in RequestPcs
  PROVE  /\ pc'[u] = pc[u] /\ fd'[u] = fd[u] /\ fd[u] \in Clients
         /\ ~InMessage(t, fd[u]) /\ Untouched(fd[u])
<1>1. fd[u] \in Clients /\ pc[u] \in MessagePcs
  BY MessageOfClient DEF RequestPcs, HandlerPcs, MessagePcs
<1>2. ~InMessage(t, fd[u])
  BY <1>1, Zenon DEF IInv, TokenInv, OneWorkerPerClient, InMessage
<1> QED
  BY <1>1, <1>2, WorkerAlone, WorkerTouches, Zenon

\* While a request is handled its client stays watched, until it is interrupted.
LEMMA WatchStays ==
  ASSUME IInv, RestTyped, CommandInv, NEW t \in Threads, WorkerStep(t), ~Exec(t),
         NEW u \in Threads, u # t, pc[u] \in {"Handle", "Wait"}, Watched(fd[u])
  PROVE  Watched(fd[u])' \/ Struck(u)'
<1> DEFINE c == fd[u]
<1>1. pc[u] \in RequestPcs /\ pc[u] \in MessagePcs
  BY DEF RequestPcs, HandlerPcs, MessagePcs
<1>2. /\ pc'[u] = pc[u] /\ fd'[u] = c /\ c \in Clients /\ ~InMessage(t, c) /\ Untouched(c)
      /\ \A v \in Threads : v # t => pc'[v] = pc[v] /\ fd'[v] = fd[v]
  BY <1>1, OthersRequest, WorkerAlone, Zenon
<1>3. callbacks_ \in [Fds -> Callbacks] /\ fd \in [Threads -> Fds] /\ c \in Fds
  BY <1>2, Zenon DEF IInv, Typed, StateTyped, WorkerTyped, Fds
<1>4. CASE interrupt_cb(t) /\ fd[t] = c
  <2>1. Interrupt(c) /\ UNCHANGED req
    BY <1>4, Zenon DEF interrupt_cb, clientVars
  <2> QED
    BY <1>1, <1>2, <2>1, InterruptStrikes, Zenon
<1>5. CASE TakeCallback(t) /\ fd[t] = c
  <2>1. CASE callbacks_[c] = "interrupt_cb"
    <3>1. Goto(t, "interrupt_cb") /\ fd' = fd
      BY <1>5, <2>1, Zenon DEF TakeCallback
    <3>2. pc'[t] = "interrupt_cb" /\ fd'[t] = c
      BY <1>5, <3>1, OthersStay, Zenon
    <3> QED
      BY <1>2, <3>2, Zenon DEF Watched
  <2>2. CASE callbacks_[c] # "interrupt_cb"
    <3>1. PICK v \in Threads : fd[v] = c /\ pc[v] = "interrupt_cb"
      BY <2>2, Zenon DEF Watched
    <3>2. v # t
      BY <1>5, <3>1, Zenon DEF TakeCallback
    <3> QED
      BY <1>2, <3>1, <3>2, Zenon DEF Watched
  <2> QED
    BY <2>1, <2>2, Zenon
<1>6. CASE ~(TakeCallback(t) /\ fd[t] = c) /\ ~(interrupt_cb(t) /\ fd[t] = c)
  <2>1. callbacks_'[c] = callbacks_[c]
    <3>1. CASE \/ EpollWait(t) \/ WakeUp(t) \/ Loop(t) \/ AcceptFails(t) \/ interrupt_cb(t)
               \/ HandleMessage(t) \/ RefuseRequest(t) \/ ClearHandler(t) \/ ReturnError(t)
               \/ StartCommand(t) \/ HandleEndsEarly(t) \/ StopServer(t) \/ WaitReturns(t) \/ Reap(t)
      BY <3>1, Zenon DEF EpollWait, WakeUp, Loop, AcceptFails, interrupt_cb, HandleMessage,
         RefuseRequest, ClearHandler, ReturnError, StartCommand, HandleEndsEarly, StopServer,
         WaitReturns, Reap, epollVars
    <3>2. CASE \/ Stop(t) \/ TakeRequest(t) \/ NoneLeft(t) \/ InterruptTaken(t) \/ LockThreads(t)
               \/ JoinReturns(t) \/ StopReturns(t)
      BY <3>2, Zenon DEF Stop, TakeRequest, NoneLeft, InterruptTaken, LockThreads, JoinReturns,
         StopReturns, epollVars
    <3>3. CASE TakeCallback(t)
      BY <1>3, <1>6, <3>3, Zenon DEF TakeCallback
    <3>4. CASE \/ AbandonClient(t) \/ SendResponse(t) \/ Reregister(t) \/ SendFailure(t)
               \/ RegisterInterrupt(t) \/ ReturnResponse(t)
      <4>1. UNCHANGED callbacks_ \/ \E m : callbacks_' = [callbacks_ EXCEPT ![fd[t]] = m]
        BY <3>4, Zenon DEF AbandonClient, SendResponse, Reregister, SendFailure,
           RegisterInterrupt, ReturnResponse, Remove, Register, epollVars
      <4>2. pc[t] \in {"HandleMessage", "respond", "reregister", "failed", "register", "unregister"}
        BY <3>4, Zenon DEF AbandonClient, SendResponse, Reregister, SendFailure,
           RegisterInterrupt, ReturnResponse
      <4>3. fd[t] # c
        BY <1>2, <4>2, Zenon DEF InMessage, MessagePcs
      <4> QED
        BY <1>3, <4>1, <4>3, Zenon
    <3>5. CASE AcceptClient(t)
      <4>1. PICK d \in Clients :
              /\ conn[d] = "backlog"
              /\ callbacks_' = [callbacks_ EXCEPT ![d] = "HandleMessage", !["server"] = "AcceptClient"]
        BY <3>5, Zenon DEF AcceptClient
      <4>2. d # c
        BY <1>1, <4>1, Zenon DEF IInv, TokenInv, Idle, InMessage
      <4>3. c # "server"
        BY <1>2, CvdAssumption
      <4> QED
        BY <1>3, <4>1, <4>2, <4>3
    <3> QED
      BY <1>2, <1>6, <3>1, <3>2, <3>3, <3>4, <3>5, Zenon DEF WorkerStep, Exec
  <2>2. \A v \in Threads : (fd[v] = c /\ pc[v] = "interrupt_cb") => v # t
    BY <1>6, ByPosition, Zenon
  <2> QED
    BY <1>2, <2>1, <2>2, Zenon DEF Watched
<1> QED
  BY <1>4, <1>5, <1>6, Zenon

\* The steps with which a worker starts a request or goes on with one.
LEMMA OwnRequest ==
  ASSUME IInv, NEW t \in Threads, WorkerStep(t), ~Exec(t), pc'[t] \in RequestPcs
  PROVE  HandleMessage(t) \/ RegisterInterrupt(t) \/ StartCommand(t) \/ WaitReturns(t)
<1>1. ASSUME \E p : Goto(t, p) /\ p \notin RequestPcs
      PROVE  FALSE
  <2>1. pc \in [Threads -> Pcs]
    BY Zenon DEF IInv, Typed, WorkerTyped
  <2> QED
    BY <1>1, <2>1, Zenon DEF Goto
<1>2. RequestPcs = {"Handle", "Wait", "reap", "register"}
  BY DEF RequestPcs, HandlerPcs
<1>3. CASE \/ EpollWait(t) \/ WakeUp(t) \/ Loop(t) \/ AcceptClient(t) \/ AcceptFails(t)
           \/ AbandonClient(t) \/ RefuseRequest(t) \/ ClearHandler(t) \/ ReturnResponse(t)
           \/ ReturnError(t) \/ SendResponse(t) \/ Reregister(t) \/ SendFailure(t)
  <2>1. \E p \in {"event", "loop", "wait", "exited", "Stop", "failed", "unregister", "respond",
                  "reregister"} : Goto(t, p)
    BY <1>3, Zenon DEF EpollWait, WakeUp, Loop, AcceptClient, AcceptFails, AbandonClient,
       RefuseRequest, ClearHandler, ReturnResponse, ReturnError, SendResponse, Reregister,
       SendFailure, EndEvent
  <2> QED
    BY <1>1, <1>2, <2>1, Zenon
<1>4. CASE \/ HandleEndsEarly(t) \/ StopServer(t) \/ Reap(t) \/ interrupt_cb(t) \/ Stop(t)
           \/ TakeRequest(t) \/ NoneLeft(t) \/ InterruptTaken(t) \/ LockThreads(t)
           \/ JoinReturns(t) \/ StopReturns(t)
  <2>1. \E p \in {"error", "done", "Stop", "loop", "take", "strike", "stopped", "lock", "join"} :
          Goto(t, p)
    <3>1. CASE StopReturns(t)
      BY <3>1 DEF StopReturns
    <3>2. CASE ~StopReturns(t)
      BY <1>4, <3>2, Zenon DEF HandleEndsEarly, StopServer, Reap, interrupt_cb, Stop, TakeRequest,
         NoneLeft, InterruptTaken, LockThreads, JoinReturns, EndEvent
    <3> QED
      BY <3>1, <3>2, Zenon
  <2> QED
    BY <1>1, <1>2, <2>1, Zenon
<1>5. CASE TakeCallback(t)
  <2>1. fd[t] \in Fds /\ callbacks_ \in [Fds -> Callbacks]
    BY Zenon DEF IInv, Typed, WorkerTyped, StateTyped
  <2>2. callbacks_[fd[t]] \in {"none", "AcceptClient", "HandleMessage", "interrupt_cb"}
    BY <2>1, Zenon DEF Callbacks
  <2>3. \E p \in {"loop", "AcceptClient", "HandleMessage", "interrupt_cb"} : Goto(t, p)
    BY <1>5, <2>2, Zenon DEF TakeCallback, EndEvent
  <2> QED
    BY <1>1, <1>2, <2>3, Zenon
<1> QED
  BY <1>3, <1>4, <1>5, Zenon DEF WorkerStep

\* A command is started in the waiter, and the client is watched before it starts.
LEMMA OwnDeparture ==
  ASSUME IInv, DepartureInv, NEW t \in Threads, WorkerStep(t), ~Exec(t), pc'[t] \in RequestPcs
  PROVE  /\ fd'[t] \in exists'
         /\ pc'[t] = "Wait" => fd'[t] \in subprocess_' /\ req'[fd'[t]] = "command"
         /\ pc'[t] \in {"Handle", "Wait"} => Watched(fd[t])' \/ Struck(t)'
<1>1. pc \in [Threads -> Pcs] /\ RequestPcs = {"Handle", "Wait", "reap", "register"}
  BY Zenon DEF IInv, Typed, WorkerTyped, RequestPcs, HandlerPcs
<1>2. CASE HandleMessage(t)
  <2>1. /\ running_ => Goto(t, "register") /\ exists' = exists \cup {fd[t]}
        /\ ~running_ => Goto(t, "respond")
        /\ fd' = fd
    BY <1>2, Zenon DEF HandleMessage, workVars
  <2>2. pc'[t] = "register" /\ fd'[t] \in exists'
    BY <1>1, <2>1, Zenon DEF Goto
  <2> QED
    BY <2>2, Zenon
<1>3. CASE RegisterInterrupt(t)
  <2>1. /\ CanRegister(fd[t]) => Register(fd[t], "hup", "interrupt_cb") /\ Goto(t, "Handle")
        /\ ~CanRegister(fd[t]) => Goto(t, "error")
        /\ pc[t] = "register" /\ fd' = fd /\ exists' = exists
    BY <1>3, Zenon DEF RegisterInterrupt, workVars, reqVars
  <2>2. pc'[t] = "Handle" /\ Register(fd[t], "hup", "interrupt_cb")
    BY <1>1, <2>1, Zenon DEF Goto
  <2>3. fd[t] \in Clients /\ fd[t] \in Fds
    BY <2>1, MessageOfClient, Zenon DEF Fds
  <2>4. callbacks_'[fd[t]] = "interrupt_cb"
    BY <2>2, <2>3, Zenon DEF Register, IInv, Typed, StateTyped
  <2>5. fd[t] \in exists
    BY <1>1, <2>1, Zenon DEF DepartureInv, CommandInv
  <2> QED
    BY <2>1, <2>2, <2>4, <2>5, Zenon DEF Watched
<1>4. CASE StartCommand(t)
  <2>1. /\ pc[t] = "Handle" /\ req[fd[t]] = "command" /\ fd[t] \notin interrupted_
        /\ subprocess_' = subprocess_ \cup {fd[t]} /\ UNCHANGED <<fd, exists, req, callbacks_>>
        /\ pc' = [pc EXCEPT ![t] = "Wait"] \/ pc' = [pc EXCEPT ![t] = "done"]
    BY <1>4, Zenon DEF StartCommand, Goto, workVars, reqVars, clientVars, epollVars
  <2>2. pc'[t] = "Wait" /\ \A u \in Threads : u # t => pc'[u] = pc[u]
    BY <1>1, <2>1, Zenon
  <2>3. fd[t] \in exists /\ ~Struck(t)
    BY <1>1, <2>1, Zenon DEF DepartureInv, CommandInv, Struck
  <2>4. Watched(fd[t])
    BY <2>1, <2>3, Zenon DEF DepartureInv, DepartureSeen
  <2>5. Watched(fd[t])'
    BY <2>1, <2>2, <2>4, Zenon DEF Watched
  <2> QED
    BY <2>1, <2>2, <2>3, <2>5, Zenon
<1>5. CASE WaitReturns(t)
  <2>1. pc[t] = "Wait" /\ Goto(t, "reap") /\ UNCHANGED <<fd, exists>>
    BY <1>5, Zenon DEF WaitReturns, workVars, reqVars
  <2>2. pc'[t] = "reap" /\ fd'[t] \in exists'
    BY <1>1, <2>1, Zenon DEF Goto, DepartureInv, CommandInv
  <2> QED
    BY <2>2, Zenon
<1> QED
  BY <1>2, <1>3, <1>4, <1>5, OwnRequest, Zenon

LEMMA WorkerDeparture ==
  ASSUME IInv, RestTyped, DepartureInv, NEW t \in Threads, WorkerStep(t), ~Exec(t)
  PROVE  DepartureInv'
<1>1. {"Handle", "Wait"} \subseteq RequestPcs
  BY Zenon DEF RequestPcs, HandlerPcs
<1>2. ASSUME NEW u \in Threads, pc'[u] \in RequestPcs
      PROVE  /\ fd'[u] \in exists'
             /\ pc'[u] = "Wait" => fd'[u] \in subprocess_' /\ req'[fd'[u]] = "command"
             /\ pc'[u] \in {"Handle", "Wait"} => Watched(fd[u])' \/ Struck(u)'
  <2>1. CASE u = t
    BY <1>2, <2>1, OwnDeparture, Zenon
  <2>2. CASE u # t
    <3>1. pc[u] \in RequestPcs
      BY <1>2, <2>2, WorkerAlone, Zenon
    <3>2. pc'[u] = pc[u] /\ fd'[u] = fd[u] /\ Untouched(fd[u])
      BY <2>2, <3>1, OthersRequest, Zenon
    <3>3. /\ fd'[u] \in exists'
          /\ pc'[u] = "Wait" => fd'[u] \in subprocess_' /\ req'[fd'[u]] = "command"
      BY <3>1, <3>2, Zenon DEF DepartureInv, CommandInv, Untouched
    <3>4. ASSUME pc[u] \in {"Handle", "Wait"}
          PROVE  Watched(fd[u])' \/ Struck(u)'
      <4>1. CASE Watched(fd[u])
        BY <2>2, <3>4, <4>1, WatchStays, Zenon DEF DepartureInv
      <4>2. CASE Struck(u)
        BY <3>2, <4>2, StruckStays, Zenon
      <4> QED
        BY <3>4, <4>1, <4>2, Zenon DEF DepartureInv, DepartureSeen
    <3> QED
      BY <3>2, <3>3, <3>4, Zenon
  <2> QED
    BY <2>1, <2>2, Zenon
<1> QED
  BY <1>1, <1>2, Zenon DEF DepartureInv, CommandInv, DepartureSeen

LEMMA StillDeparture ==
  ASSUME DepartureInv, UNCHANGED <<pc, fd>>,
         \A u \in Threads : pc[u] \in RequestPcs =>
           Untouched(fd[u]) /\ callbacks_'[fd[u]] = callbacks_[fd[u]]
  PROVE  DepartureInv'
<1>1. CommandInv'
  BY Zenon DEF DepartureInv, CommandInv, Untouched, RequestPcs, HandlerPcs
<1>2. ASSUME NEW u \in Threads, pc'[u] \in {"Handle", "Wait"}
      PROVE  Watched(fd[u])' \/ Struck(u)'
  <2>1. pc[u] \in {"Handle", "Wait"} /\ pc[u] \in RequestPcs
    BY <1>2, Zenon DEF RequestPcs, HandlerPcs
  <2>2. Watched(fd[u]) \/ Struck(u)
    BY <2>1, Zenon DEF DepartureInv, DepartureSeen
  <2>3. Watched(fd[u]) => Watched(fd[u])'
    BY <2>1, Zenon DEF Watched
  <2>4. Struck(u) => Struck(u)'
    BY <2>1, StruckStays, Zenon
  <2> QED
    BY <2>2, <2>3, <2>4, Zenon
<1> QED
  BY <1>1, <1>2, Zenon DEF DepartureInv, DepartureSeen

\* Clients, subprocesses, the main thread and the end of the process touch no request.
LEMMA OutsideTouches ==
  ASSUME BalanceInv,
         \/ MainStep \/ UNCHANGED vars
         \/ \E t \in Threads : InterruptDestroyed(t) \/ DoubleJoin(t)
         \/ \E c \in Clients : Connect(c) \/ Send(c) \/ Leave(c) \/ ChildExits(c)
  PROVE  UNCHANGED <<pc, fd>> /\ \A u \in Threads : pc[u] \in RequestPcs =>
           Untouched(fd[u]) /\ callbacks_'[fd[u]] = callbacks_[fd[u]]
<1>1. IInv /\ RestTyped
  BY Zenon DEF BalanceInv
<1>2. \A u \in Threads : pc[u] \in RequestPcs =>
        fd[u] \in Clients /\ fd[u] \in Fds /\ fd[u] # "server" /\ InMessage(u, fd[u]) /\ Handled(fd[u])
  <2>1. \A u \in Threads : pc[u] \in RequestPcs => fd[u] \in Clients
    BY <1>1, MessageOfClient, Zenon DEF RequestPcs, HandlerPcs
  <2>2. RequestPcs \subseteq MessagePcs /\ RequestPcs \subseteq HandledPcs
    BY DEF RequestPcs, HandlerPcs, MessagePcs, HandledPcs
  <2>3. "server" \notin Clients
    BY CvdAssumption
  <2> QED
    BY <2>1, <2>2, <2>3, Zenon DEF InMessage, Handled, Fds
<1>3. callbacks_ \in [Fds -> Callbacks]
  BY <1>1, Zenon DEF IInv, Typed, StateTyped
<1>4. CASE StartServer \/ AcceptCarryoverClient
  <2>1. /\ UNCHANGED <<pc, fd, req, exists, subprocess_, interrupted_, child>>
        /\ main \in {"start", "carry"}
        /\ \E m : \/ callbacks_' = [callbacks_ EXCEPT !["server"] = m]
                  \/ callbacks_' = [callbacks_ EXCEPT ![carry] = m]
    BY <1>4, Zenon DEF StartServer, AcceptCarryoverClient, Register, workVars, clientVars, reqVars,
       cmdVars
  <2>2. \A u \in Threads : pc[u] \in RequestPcs => fd[u] # carry
    BY <1>1, <1>2, <2>1, CvdAssumption, Zenon DEF IInv, TokenInv, Idle, NoOne
  <2>3. \A u \in Threads : pc[u] \in RequestPcs =>
          Untouched(fd[u]) /\ callbacks_'[fd[u]] = callbacks_[fd[u]]
    BY <1>2, <1>3, <2>1, <2>2, Zenon DEF Untouched
  <2> QED
    BY <2>1, <2>3, Zenon
<1>5. CASE \/ DestroyServer \/ Join \/ UNCHANGED vars
           \/ \E t \in Threads : InterruptDestroyed(t) \/ DoubleJoin(t)
           \/ \E c \in Clients : Connect(c) \/ Leave(c)
  <2>1. UNCHANGED <<pc, fd, req, exists, subprocess_, interrupted_, child, callbacks_>>
    BY <1>5, Zenon DEF DestroyServer, Join, vars, InterruptDestroyed, DoubleJoin, Connect, Leave,
       workVars, clientVars, reqVars, cmdVars, epollVars
  <2> QED
    BY <2>1, Zenon DEF Untouched
<1>6. ASSUME NEW c \in Clients, ChildExits(c)
      PROVE  UNCHANGED <<pc, fd>> /\ \A u \in Threads : pc[u] \in RequestPcs =>
               Untouched(fd[u]) /\ callbacks_'[fd[u]] = callbacks_[fd[u]]
  <2>1. /\ UNCHANGED <<pc, fd, req, exists, subprocess_, interrupted_, callbacks_>>
        /\ child' = [child EXCEPT ![c] = "zombie"]
    BY <1>6, Zenon DEF ChildExits, workVars, clientVars, reqVars, epollVars
  <2>2. child \in [Clients -> {"none", "running", "killed", "zombie", "reaped"}]
    BY <1>1, Zenon DEF IInv, Typed, StateTyped
  <2>3. \A d \in Clients : child'[d] = "running" => child[d] = "running"
    BY <2>1, <2>2, Zenon
  <2> QED
    BY <1>2, <2>1, <2>3, Zenon DEF Untouched
<1>7. ASSUME NEW c \in Clients, Send(c)
      PROVE  UNCHANGED <<pc, fd>> /\ \A u \in Threads : pc[u] \in RequestPcs =>
               Untouched(fd[u]) /\ callbacks_'[fd[u]] = callbacks_[fd[u]]
  <2>1. /\ UNCHANGED <<pc, fd, exists, subprocess_, interrupted_, child, callbacks_>>
        /\ c \notin left /\ sent[c] = answered[c] /\ \E k : req' = [req EXCEPT ![c] = k]
    BY <1>7, Zenon DEF Send, workVars, reqVars, cmdVars, epollVars
  <2>2. ~Handled(c)
    <3>1. answered[c] \in Nat /\ (Handled(c) => sent[c] = answered[c] + 1)
      BY <1>1, <2>1, Zenon DEF BalanceInv, Balance, RestTyped, ClientTyped
    <3>2. \A n \in Nat : n # n + 1
      OBVIOUS
    <3> QED
      BY <2>1, <3>1, <3>2, Zenon
  <2>3. \A u \in Threads : pc[u] \in RequestPcs => fd[u] # c
    BY <1>2, <2>2, Zenon
  <2>4. req \in [Clients -> Kinds \cup {"none"}]
    BY <1>1, Zenon DEF RestTyped, ClientTyped
  <2> QED
    BY <1>2, <2>1, <2>3, <2>4, Zenon DEF Untouched
<1> QED
  BY <1>4, <1>5, <1>6, <1>7, Zenon DEF MainStep

LEMMA OutsideDeparture ==
  ASSUME BalanceInv, DepartureInv,
         \/ MainStep \/ UNCHANGED vars
         \/ \E t \in Threads : InterruptDestroyed(t) \/ DoubleJoin(t)
         \/ \E c \in Clients : Connect(c) \/ Send(c) \/ Leave(c) \/ ChildExits(c)
  PROVE  DepartureInv'
  BY OutsideTouches, StillDeparture, Zenon

LEMMA NextDeparture ==
  ASSUME BalanceInv, DepartureInv, [Next]_vars
  PROVE  DepartureInv'
<1>1. ASSUME NEW t \in Threads, Exec(t)
      PROVE  DepartureInv'
  <2>1. \A u \in Threads : pc'[u] = "loop"
    BY <1>1, Zenon DEF Exec
  <2> QED
    BY <2>1, Zenon DEF DepartureInv, CommandInv, DepartureSeen, RequestPcs, HandlerPcs
<1> QED
  BY <1>1, WorkerDeparture, OutsideDeparture, Zenon DEF BalanceInv, Next

HeedInv == BalanceInv /\ EventInv /\ DepartureInv

LEMMA HeedInvariant ==
  Spec => []HeedInv
<1>1. Init => HeedInv
  <2>1. Init => DepartureInv
    BY Zenon DEF Init, DepartureInv, CommandInv, DepartureSeen, RequestPcs, HandlerPcs
  <2> QED
    BY <2>1, InitBalance, InitEvents, Zenon DEF HeedInv
<1>2. ASSUME HeedInv, [Next]_vars
      PROVE  EventInv' /\ DepartureInv'
  BY <1>2, NextEvents, NextDeparture, Zenon DEF HeedInv, BalanceInv
<1> QED
  BY <1>1, <1>2, BalanceInvariant, PTL DEF Spec, HeedInv

\* Whatever a client waits for is ready to be delivered to the next worker that calls
\* epoll_wait, or a worker has it in hand. A connection in the backlog: the server's
\* descriptor is armed or a worker is about to accept, unless the server stops. A message
\* of an accepted client: its descriptor is armed, or the worker that has the client
\* has yet to read the message or to register the client again, or the restarted server
\* has yet to register it. The departure of a client whose request is in its handler:
\* the hangup is armed, a worker is about to interrupt the request, or the request has
\* been interrupted or is one that interrupts do not end.
InHand(f, positions) == \E t \in Threads : fd[t] = f /\ pc[t] \in positions
NoEventLost ==
  Up =>
  /\ running_ /\ main # "start" /\ (\E c \in Clients : conn[c] = "backlog")
       => Delivered("server") # {} \/ InHand("server", {"event", "AcceptClient", "Stop"})
  /\ \A c \in Clients : conn[c] = "open" /\ c \in inbox /\ c \notin left =>
       \/ Delivered(c) # {} \/ InHand(c, {"event", "HandleMessage", "reregister"})
       \/ c = carry /\ main \in {"start", "carry"}
  /\ \A t \in Threads : pc[t] \in {"Handle", "Wait"} /\ fd[t] \in left =>
       Delivered(fd[t]) # {} \/ InHand(fd[t], {"event", "interrupt_cb"}) \/ Struck(t)

\* EPOLLONESHOT registrations, the callbacks that replace one another on a client's
\* descriptor, late events and the restart of the server lose no connection, no message
\* and no departure: the safety half of ClientIsHeeded, for any number of workers and
\* clients.
THEOREM NoEventIsLost ==
  Spec => []NoEventLost
<1>1. ASSUME HeedInv
      PROVE  NoEventLost
  <2>1. \A f \in Fds : callbacks_[f] # "none" =>
          armed[f] = Mask(callbacks_[f]) \/ InHand(f, {"event"})
    BY <1>1, Zenon DEF HeedInv, EventInv, Fires, AtEvent, InHand
  <2>2. "server" \in Fds /\ Clients \subseteq Fds /\ "server" \notin Clients
    BY CvdAssumption DEF Fds
  <2>3. ASSUME Up, running_, main # "start", \E c \in Clients : conn[c] = "backlog"
        PROVE  Delivered("server") # {} \/ InHand("server", {"event", "AcceptClient", "Stop"})
    <3>1. callbacks_["server"] = "AcceptClient" \/ InHand("server", {"AcceptClient", "Stop"})
      BY <1>1, <2>3, Zenon DEF HeedInv, EventInv, Serving, Accepts, InHand
    <3>2. armed["server"] = "in" => Delivered("server") # {}
      <4>1. "in" \in Ready("server")
        BY <2>3, Zenon DEF Ready
      <4> QED
        BY <4>1 DEF Delivered
    <3>3. Mask("AcceptClient") = "in"
      BY DEF Mask
    <3> QED
      BY <2>1, <2>2, <3>1, <3>2, <3>3, Zenon DEF InHand
  <2>4. ASSUME Up, NEW c \in Clients, conn[c] = "open", c \in inbox, c \notin left
        PROVE  \/ Delivered(c) # {} \/ InHand(c, {"event", "HandleMessage", "reregister"})
               \/ c = carry /\ main \in {"start", "carry"}
    <3>1. \/ callbacks_[c] = "HandleMessage" \/ InHand(c, MessagePcs)
          \/ c = carry /\ main \in {"start", "carry"}
      BY <1>1, <2>4, Zenon DEF HeedInv, EventInv, Kept, InMessage, InHand
    <3>2. ~InHand(c, HandledPcs)
      BY <1>1, <2>4, Zenon DEF HeedInv, BalanceInv, Balance, Handled, InHand
    <3>3. InHand(c, MessagePcs) => InHand(c, {"HandleMessage", "reregister"})
      BY <3>2, Zenon DEF InHand, HandledPcs
    <3>4. armed[c] = "in" => Delivered(c) # {}
      <4>1. "in" \in Ready(c)
        BY <2>2, <2>4 DEF Ready
      <4> QED
        BY <4>1 DEF Delivered
    <3>5. Mask("HandleMessage") = "in"
      BY DEF Mask
    <3>6. callbacks_[c] = "HandleMessage" => Delivered(c) # {} \/ InHand(c, {"event"})
      BY <2>1, <2>2, <3>4, <3>5
    <3> QED
      BY <3>1, <3>3, <3>6, Zenon DEF InHand
  <2>5. ASSUME NEW t \in Threads, pc[t] \in {"Handle", "Wait"}, fd[t] \in left
        PROVE  Delivered(fd[t]) # {} \/ InHand(fd[t], {"event", "interrupt_cb"}) \/ Struck(t)
    <3>1. \/ callbacks_[fd[t]] = "interrupt_cb" \/ InHand(fd[t], {"interrupt_cb"}) \/ Struck(t)
      BY <1>1, <2>5, Zenon DEF HeedInv, DepartureInv, DepartureSeen, Watched, InHand
    <3>2. fd[t] \in Clients
      BY <1>1, <2>5, MessageOfClient, Zenon DEF HeedInv, BalanceInv
    <3>3. armed[fd[t]] = "hup" => Delivered(fd[t]) # {}
      <4>1. "hup" \in Ready(fd[t])
        BY <2>2, <2>5, <3>2 DEF Ready
      <4> QED
        BY <4>1 DEF Delivered
    <3>4. Mask("interrupt_cb") = "hup"
      BY DEF Mask
    <3>5. callbacks_[fd[t]] = "interrupt_cb" => Delivered(fd[t]) # {} \/ InHand(fd[t], {"event"})
      BY <2>1, <2>2, <3>2, <3>3, <3>4
    <3> QED
      BY <3>1, <3>5, Zenon DEF InHand
  <2> QED
    BY <2>3, <2>4, <2>5, Zenon DEF NoEventLost
<1> QED
  BY <1>1, HeedInvariant, PTL

----------------------------------------------------------------------------
(* A Stop that has begun goes on.                                             *)

\* A worker that has a request, and the answer it still has to give.
OwnPcs == RequestPcs \cup StopPcs \cup {"done", "unregister", "error", "Stop", "stopped"}
AnswerPcs == {"failed", "respond", "reregister"}

\* The thread of a request in ongoing_requests_ is at work on it.
OngoingInv ==
  \A c \in ongoing_requests_ : fd[thread_id[c]] = c /\ pc[thread_id[c]] \in OwnPcs

\* The thread of a request that a Stop has taken is at work on it or on its way out.
AtWork(u, c) ==
  \/ fd[u] = c /\ pc[u] \in OwnPcs \cup AnswerPcs
  \/ pc[u] \in {"loop", "exited"}
TakenInv == \A t \in Threads : pc[t] \in HoldPcs => AtWork(thread_id[taken[t]], taken[t])

\* A Stop interrupts a request before it joins the request's thread, which is another.
StruckInv ==
  /\ \A t \in Threads : pc[t] \in {"lock", "join"} => Struck(thread_id[taken[t]])
  /\ \A t \in Threads : pc[t] = "join" => thread_id[taken[t]] # t

\* Stop returns when no request is left, and another Stop may only hold one if the two
\* ran at the same time.
StoppedInv ==
  \A u \in Threads : pc[u] = "stopped" =>
    ongoing_requests_ = {} /\ (twoStops \/ \A t \in Threads : pc[t] \notin HoldPcs)

MutexInv == \A t \in Threads : pc[t] = "join" <=> threads_mutex_ = t

Cascade == ~running_ => wakeups > 0 \/ \E u \in Threads : pc[u] \notin {"wait", "exited"}

\* The new process starts from nothing.
LEMMA ExecStop ==
  ASSUME NEW t \in Threads, Exec(t)
  PROVE  OngoingInv' /\ TakenInv' /\ StruckInv' /\ StoppedInv' /\ MutexInv' /\ Cascade'
<1>1. /\ ongoing_requests_' = {} /\ threads_mutex_' = 0 /\ running_'
      /\ \A u \in Threads : pc'[u] = "loop"
  BY Zenon DEF Exec
<1>2. \A u \in Threads : u # 0
  BY DEF Threads
<1> QED
  BY <1>1, <1>2, Zenon DEF OngoingInv, TakenInv, StruckInv, StoppedInv, MutexInv, Cascade, HoldPcs

\* Steps that leave the workers and the bookkeeping of the requests alone.
LEMMA OutsideStop ==
  ASSUME UNCHANGED <<pc, fd, ongoing_requests_, thread_id, taken, twoStops, threads_mutex_>>,
         OngoingInv, TakenInv, StoppedInv, MutexInv
  PROVE  OngoingInv' /\ TakenInv' /\ StoppedInv' /\ MutexInv'
  BY Zenon DEF OngoingInv, TakenInv, StoppedInv, MutexInv, AtWork

\* Where a worker's step takes it.
Edge(p, q) ==
  /\ p = "wait" => q \in {"event", "loop"}
  /\ p = "event" => q \in {"loop", "AcceptClient", "HandleMessage", "interrupt_cb"}
  /\ p = "loop" => q \in {"wait", "exited"}
  /\ p = "AcceptClient" => q \in {"loop", "Stop"}
  /\ p = "HandleMessage" => q \in {"loop", "register", "respond", "failed"}
  /\ p = "register" => q \in {"Handle", "error"}
  /\ p = "Handle" => q \in {"Wait", "done", "error", "Stop"}
  /\ p = "Wait" => q = "reap"
  /\ p = "reap" => q = "done"
  /\ p = "done" => q = "unregister"
  /\ p = "unregister" => q = "respond"
  /\ p = "error" => q = "failed"
  /\ p = "respond" => q \in {"loop", "reregister"}
  /\ p \in {"interrupt_cb", "reregister", "failed"} => q = "loop"
  /\ p = "Stop" => q = "take"
  /\ p = "take" => q \in {"strike", "stopped"}
  /\ p = "strike" => q \in {"lock", "take"}
  /\ p = "lock" => q \in {"join", "take"}
  /\ p = "join" => q = "take"
  /\ p = "stopped" => q \in {"loop", "done", "error"}
  /\ p # "exited"

LEMMA WorkerEdge ==
  ASSUME IInv, NEW t \in Threads, WorkerStep(t), ~Exec(t)
  PROVE  Edge(pc[t], pc'[t])
<1>1. ASSUME NEW p, Goto(t, p)
      PROVE  pc'[t] = p
  <2>1. pc \in [Threads -> Pcs]
    BY Zenon DEF IInv, Typed, WorkerTyped
  <2> QED
    BY <1>1, <2>1, Zenon DEF Goto
<1>2. CASE EpollWait(t) \/ WakeUp(t) \/ Loop(t) \/ AcceptClient(t) \/ AcceptFails(t)
  <2>1. \/ pc[t] = "wait" /\ pc'[t] \in {"event", "loop"}
        \/ pc[t] = "loop" /\ pc'[t] \in {"wait", "exited"}
        \/ pc[t] = "AcceptClient" /\ pc'[t] \in {"loop", "Stop"}
    BY <1>1, <1>2, ZenonT(30) DEF EpollWait, WakeUp, Loop, AcceptClient, AcceptFails, EndEvent
  <2> QED
    BY <2>1, Zenon DEF Edge
<1>3. CASE TakeCallback(t)
  <2>1. fd[t] \in Fds /\ callbacks_ \in [Fds -> Callbacks]
    BY Zenon DEF IInv, Typed, WorkerTyped, StateTyped
  <2>2. callbacks_[fd[t]] \in {"none", "AcceptClient", "HandleMessage", "interrupt_cb"}
    BY <2>1, Zenon DEF Callbacks
  <2>3. pc[t] = "event" /\ pc'[t] \in {"loop", "AcceptClient", "HandleMessage", "interrupt_cb"}
    BY <1>1, <1>3, <2>2, ZenonT(30) DEF TakeCallback, EndEvent
  <2> QED
    BY <2>3 DEF Edge
<1>4. CASE AbandonClient(t) \/ HandleMessage(t) \/ RefuseRequest(t) \/ RegisterInterrupt(t)
  <2>1. \/ pc[t] = "HandleMessage" /\ pc'[t] \in {"loop", "register", "respond", "failed"}
        \/ pc[t] = "register" /\ pc'[t] \in {"Handle", "error"}
    BY <1>1, <1>4, ZenonT(30) DEF AbandonClient, HandleMessage, RefuseRequest, RegisterInterrupt, EndEvent
  <2> QED
    BY <2>1 DEF Edge
<1>5. CASE ClearHandler(t) \/ ReturnResponse(t) \/ ReturnError(t) \/ WaitReturns(t) \/ Reap(t)
  <2>1. \/ pc[t] = "done" /\ pc'[t] = "unregister"
        \/ pc[t] = "unregister" /\ pc'[t] = "respond"
        \/ pc[t] = "error" /\ pc'[t] = "failed"
        \/ pc[t] = "Wait" /\ pc'[t] = "reap"
        \/ pc[t] = "reap" /\ pc'[t] = "done"
    BY <1>1, <1>5, ZenonT(30) DEF ClearHandler, ReturnResponse, ReturnError, WaitReturns, Reap
  <2> QED
    BY <2>1 DEF Edge
<1>6. CASE SendResponse(t) \/ Reregister(t) \/ SendFailure(t) \/ interrupt_cb(t)
  <2>1. \/ pc[t] = "respond" /\ pc'[t] \in {"loop", "reregister"}
        \/ pc[t] \in {"reregister", "failed", "interrupt_cb"} /\ pc'[t] = "loop"
    BY <1>1, <1>6, Zenon DEF SendResponse, Reregister, SendFailure, interrupt_cb, EndEvent
  <2> QED
    BY <2>1 DEF Edge
<1>7. CASE StartCommand(t) \/ HandleEndsEarly(t) \/ StopServer(t)
  <2>1. pc[t] = "Handle" /\ pc'[t] \in {"Wait", "done", "error", "Stop"}
    BY <1>1, <1>7, ZenonT(30) DEF StartCommand, HandleEndsEarly, StopServer
  <2> QED
    BY <2>1, Zenon DEF Edge
<1>8. CASE Stop(t) \/ TakeRequest(t) \/ NoneLeft(t) \/ InterruptTaken(t) \/ LockThreads(t)
           \/ JoinReturns(t)
  <2>1. \/ pc[t] = "Stop" /\ pc'[t] = "take"
        \/ pc[t] = "take" /\ pc'[t] \in {"strike", "stopped"}
        \/ pc[t] = "strike" /\ pc'[t] \in {"lock", "take"}
        \/ pc[t] = "lock" /\ pc'[t] \in {"join", "take"}
        \/ pc[t] = "join" /\ pc'[t] = "take"
    BY <1>1, <1>8, ZenonT(30) DEF Stop, TakeRequest, NoneLeft, InterruptTaken, LockThreads, JoinReturns
  <2> QED
    BY <2>1 DEF Edge
<1>9. CASE StopReturns(t)
  <2>1. pc[t] = "stopped" /\ \E p \in {"loop", "done", "error"} : Goto(t, p)
    BY <1>9 DEF StopReturns
  <2>2. pc[t] = "stopped" /\ pc'[t] \in {"loop", "done", "error"}
    BY <1>1, <2>1, Zenon
  <2> QED
    BY <2>2 DEF Edge
<1> QED
  BY <1>2, <1>3, <1>4, <1>5, <1>6, <1>7, <1>8, <1>9, Zenon DEF WorkerStep

\* The last worker that is not idle wakes up another before it exits.
LEMMA WorkerCascade ==
  ASSUME IInv, MainTyped, Cascade, NEW t \in Threads, WorkerStep(t), ~Exec(t)
  PROVE  Cascade'
<1>1. CASE Loop(t)
  <2>1. running_' = running_ /\ (~running_ => wakeups' = wakeups + 1) /\ wakeups \in Nat
    BY <1>1 DEF Loop, stopVars, MainTyped
  <2>2. \A n \in Nat : n + 1 > 0
    OBVIOUS
  <2> QED
    BY <2>1, <2>2, Zenon DEF Cascade
<1>2. CASE pc[t] # "loop"
  <2>1. pc'[t] \notin {"wait", "exited"}
    <3>1. Edge(pc[t], pc'[t]) /\ pc[t] \in Pcs
      BY WorkerEdge, Zenon DEF IInv, Typed, WorkerTyped
    <3> QED
      BY <1>2, <3>1, Zenon DEF Edge, Pcs, MessagePcs, HandlerPcs, StopPcs
  <2> QED
    BY <2>1, Zenon DEF Cascade
<1> QED
  BY <1>1, <1>2, ByPosition, Zenon

\* What a worker's step does to the bookkeeping of the requests.
LEMMA WorkerBooks ==
  ASSUME NEW t \in Threads, WorkerStep(t), ~Exec(t)
  PROVE  /\ \/ thread_id' = thread_id /\ ongoing_requests_' \subseteq ongoing_requests_
            \/ HandleMessage(t) /\ running_
         /\ taken' = taken \/ TakeRequest(t)
         /\ threads_mutex_' = threads_mutex_ \/ LockThreads(t) \/ JoinReturns(t)
         /\ twoStops => twoStops'
         /\ pc[t] \in {"unregister", "error"} => ongoing_requests_' = ongoing_requests_ \ {fd[t]}
<1>1. CASE \/ EpollWait(t) \/ WakeUp(t) \/ TakeCallback(t) \/ Loop(t) \/ AcceptClient(t)
           \/ AcceptFails(t) \/ RefuseRequest(t) \/ RegisterInterrupt(t) \/ ClearHandler(t)
  <2>1. UNCHANGED <<thread_id, ongoing_requests_, taken, threads_mutex_, twoStops>>
    BY <1>1, Zenon DEF EpollWait, WakeUp, TakeCallback, Loop, AcceptClient, AcceptFails,
       RefuseRequest, RegisterInterrupt, ClearHandler, workVars, reqVars, stopVars, histVars
  <2>2. pc[t] \notin {"unregister", "error"}
    BY <1>1, Zenon DEF EpollWait, WakeUp, TakeCallback, Loop, AcceptClient, AcceptFails,
       RefuseRequest, RegisterInterrupt, ClearHandler
  <2> QED
    BY <2>1, <2>2, Zenon
<1>2. CASE \/ HandleEndsEarly(t) \/ StopServer(t) \/ WaitReturns(t) \/ Reap(t) \/ StartCommand(t)
           \/ NoneLeft(t) \/ StopReturns(t) \/ InterruptTaken(t) \/ interrupt_cb(t)
  <2>1. UNCHANGED <<thread_id, ongoing_requests_, taken, threads_mutex_, twoStops>>
    BY <1>2 DEF HandleEndsEarly, StopServer, WaitReturns, Reap, StartCommand, NoneLeft, StopReturns,
       InterruptTaken, interrupt_cb, workVars, reqVars, stopVars, histVars
  <2>2. pc[t] \notin {"unregister", "error"}
    BY <1>2, Zenon DEF HandleEndsEarly, StopServer, WaitReturns, Reap, StartCommand, NoneLeft,
       StopReturns, InterruptTaken, interrupt_cb
  <2> QED
    BY <2>1, <2>2, Zenon
<1>3. CASE AbandonClient(t) \/ SendResponse(t) \/ Reregister(t) \/ SendFailure(t)
  <2>1. UNCHANGED <<thread_id, ongoing_requests_, taken, threads_mutex_, twoStops>>
    BY <1>3, Zenon DEF AbandonClient, SendResponse, Reregister, SendFailure, workVars, reqVars, stopVars,
       histVars
  <2>2. pc[t] \notin {"unregister", "error"}
    BY <1>3, Zenon DEF AbandonClient, SendResponse, Reregister, SendFailure
  <2> QED
    BY <2>1, <2>2, Zenon
<1>4. CASE ReturnResponse(t) \/ ReturnError(t)
  <2>1. /\ UNCHANGED <<thread_id, taken, threads_mutex_, twoStops>>
        /\ ongoing_requests_' = ongoing_requests_ \ {fd[t]}
    BY <1>4, Zenon DEF ReturnResponse, ReturnError, workVars, stopVars, histVars
  <2> QED
    BY <2>1, Zenon
<1>5. CASE HandleMessage(t)
  <2>1. /\ UNCHANGED <<taken, threads_mutex_, twoStops>> /\ pc[t] = "HandleMessage"
        /\ ~running_ => UNCHANGED <<thread_id, ongoing_requests_>>
    BY <1>5, Zenon DEF HandleMessage, workVars, reqVars, stopVars, histVars
  <2> QED
    BY <1>5, <2>1, Zenon
<1>6. CASE Stop(t) \/ TakeRequest(t) \/ LockThreads(t) \/ JoinReturns(t)
  <2>1. pc[t] \notin {"unregister", "error"}
    BY <1>6, Zenon DEF Stop, TakeRequest, LockThreads, JoinReturns
  <2>2. thread_id' = thread_id /\ ongoing_requests_' \subseteq ongoing_requests_
    BY <1>6 DEF Stop, TakeRequest, LockThreads, JoinReturns, reqVars
  <2>3. /\ threads_mutex_' = threads_mutex_ \/ LockThreads(t) \/ JoinReturns(t)
        /\ taken' = taken \/ TakeRequest(t)
    BY <1>6, Zenon DEF Stop, TakeRequest, LockThreads, JoinReturns, stopVars, workVars
  <2>4. twoStops => twoStops'
    <3>1. CASE Stop(t)
      BY <3>1, Zenon DEF Stop
    <3>2. CASE TakeRequest(t) \/ LockThreads(t) \/ JoinReturns(t)
      BY <3>2, Zenon DEF TakeRequest, LockThreads, JoinReturns, histVars
    <3> QED
      BY <1>6, <3>1, <3>2, Zenon
  <2> QED
    BY <2>1, <2>2, <2>3, <2>4, Zenon
<1> QED
  BY <1>1, <1>2, <1>3, <1>4, <1>5, <1>6, Zenon DEF WorkerStep

\* A worker keeps its client until it has answered.
LEMMA WorkerKeepsClient ==
  ASSUME IInv, NEW t \in Threads, WorkerStep(t), ~Exec(t), pc[t] \in OwnPcs \cup AnswerPcs
  PROVE  fd'[t] = fd[t] \/ pc'[t] = "loop"
<1>1. CASE \/ RegisterInterrupt(t) \/ ClearHandler(t) \/ ReturnResponse(t) \/ ReturnError(t)
           \/ HandleEndsEarly(t) \/ StopServer(t) \/ WaitReturns(t) \/ Reap(t) \/ StartCommand(t)
  BY <1>1, Zenon DEF RegisterInterrupt, ClearHandler, ReturnResponse, ReturnError, HandleEndsEarly,
     StopServer, WaitReturns, Reap, StartCommand, workVars
<1>2. CASE \/ Stop(t) \/ TakeRequest(t) \/ NoneLeft(t) \/ InterruptTaken(t) \/ LockThreads(t)
           \/ JoinReturns(t) \/ StopReturns(t)
  BY <1>2, Zenon DEF Stop, TakeRequest, NoneLeft, InterruptTaken, LockThreads, JoinReturns,
     StopReturns, workVars
<1>3. CASE SendResponse(t) \/ Reregister(t) \/ SendFailure(t)
  <2>1. UNCHANGED fd \/ Goto(t, "loop")
    BY <1>3, Zenon DEF SendResponse, Reregister, SendFailure, EndEvent
  <2>2. Goto(t, "loop") => pc'[t] = "loop"
    BY Zenon DEF Goto, IInv, Typed, WorkerTyped
  <2> QED
    BY <2>1, <2>2, Zenon
<1>4. /\ ~EpollWait(t) /\ ~WakeUp(t) /\ ~TakeCallback(t) /\ ~Loop(t) /\ ~AcceptClient(t)
      /\ ~AcceptFails(t) /\ ~AbandonClient(t) /\ ~HandleMessage(t) /\ ~RefuseRequest(t)
      /\ ~interrupt_cb(t)
  <2>1. pc[t] \notin {"wait", "event", "loop", "AcceptClient", "HandleMessage", "interrupt_cb"}
    BY DEF OwnPcs, AnswerPcs, RequestPcs, HandlerPcs, StopPcs
  <2> QED
    BY <2>1, Zenon DEF EpollWait, WakeUp, TakeCallback, Loop, AcceptClient, AcceptFails,
       AbandonClient, HandleMessage, RefuseRequest, interrupt_cb
<1> QED
  BY <1>1, <1>2, <1>3, <1>4, Zenon DEF WorkerStep

\* The way of a worker from its request to its exit.
LEMMA WorkerGoesOn ==
  ASSUME IInv, NEW t \in Threads, WorkerStep(t), ~Exec(t)
  PROVE  /\ pc[t] \in OwnPcs /\ fd[t] \in Clients
              => /\ fd'[t] = fd[t] /\ pc'[t] \in OwnPcs \cup {"respond", "failed"}
                 /\ pc'[t] \in {"respond", "failed"} => pc[t] \in {"unregister", "error"}
         /\ pc[t] \in AnswerPcs => pc'[t] = "loop" \/ (fd'[t] = fd[t] /\ pc'[t] \in AnswerPcs)
         /\ pc[t] = "loop" /\ ~running_ => pc'[t] = "exited"
         /\ pc[t] # "exited"
<1>1. Edge(pc[t], pc'[t])
  BY WorkerEdge
<1>2. pc[t] # "exited"
  BY <1>1, Zenon DEF Edge
<1>3. pc[t] \in AnswerPcs => pc'[t] = "loop" \/ (fd'[t] = fd[t] /\ pc'[t] \in AnswerPcs)
  <2>1. pc[t] \in AnswerPcs => pc'[t] \in {"loop", "reregister"}
    BY <1>1, Zenon DEF Edge, AnswerPcs
  <2> QED
    BY <2>1, WorkerKeepsClient, Zenon DEF AnswerPcs
<1>4. ASSUME pc[t] \in OwnPcs, fd[t] \in Clients
      PROVE  /\ fd'[t] = fd[t] /\ pc'[t] \in OwnPcs \cup {"respond", "failed"}
             /\ pc'[t] \in {"respond", "failed"} => pc[t] \in {"unregister", "error"}
  <2>1. pc'[t] # "loop"
    <3>1. CASE pc[t] = "stopped"
      <4>1. StopReturns(t)
        BY <3>1, ByPosition, Zenon
      <4>2. \E p \in {"done", "error"} : pc' = [pc EXCEPT ![t] = p]
        BY <1>4, <4>1, CvdAssumption, ZenonT(30) DEF StopReturns, Goto
      <4> QED
        BY <4>2, Zenon DEF IInv, Typed, WorkerTyped
    <3>2. CASE pc[t] # "stopped"
      BY <1>1, <1>4, <3>2 DEF Edge, OwnPcs, RequestPcs, HandlerPcs, StopPcs
    <3> QED
      BY <3>1, <3>2
  <2>2. fd'[t] = fd[t]
    BY <1>4, <2>1, WorkerKeepsClient, ZenonT(30)
  <2>3. /\ pc'[t] \in OwnPcs \cup {"respond", "failed"}
        /\ pc'[t] \in {"respond", "failed"} => pc[t] \in {"unregister", "error"}
    BY <1>1, <1>4, <2>1 DEF Edge, OwnPcs, RequestPcs, HandlerPcs, StopPcs
  <2> QED
    BY <2>2, <2>3
<1>5. ASSUME pc[t] = "loop", ~running_
      PROVE  pc'[t] = "exited"
  <2>1. Loop(t)
    BY <1>5, ByPosition, Zenon
  <2>2. pc' = [pc EXCEPT ![t] = "exited"]
    BY <1>5, <2>1, Zenon DEF Loop, Goto
  <2> QED
    BY <2>2, Zenon DEF IInv, Typed, WorkerTyped
<1> QED
  BY <1>2, <1>3, <1>4, <1>5, ZenonT(30)

LEMMA WorkerOngoing ==
  ASSUME IInv, OngoingInv, NEW t \in Threads, WorkerStep(t), ~Exec(t)
  PROVE  OngoingInv'
<1>1. /\ thread_id \in [Clients -> Threads] /\ ongoing_requests_ \subseteq Clients
      /\ pc \in [Threads -> Pcs] /\ \A u \in Threads : u # t => pc'[u] = pc[u] /\ fd'[u] = fd[u]
  BY WorkerAlone, Zenon DEF IInv, Typed, StateTyped, WorkerTyped
<1>2. CASE HandleMessage(t) /\ running_
  <2>1. /\ ongoing_requests_' = ongoing_requests_ \cup {fd[t]} /\ fd' = fd /\ pc[t] = "HandleMessage"
        /\ thread_id' = [thread_id EXCEPT ![fd[t]] = t] /\ pc' = [pc EXCEPT ![t] = "register"]
    BY <1>2, Zenon DEF HandleMessage, Goto, workVars
  <2>2. fd[t] \in Clients /\ pc'[t] = "register" /\ "register" \in OwnPcs
    BY <1>1, <2>1, MessageOfClient, Zenon DEF OwnPcs, RequestPcs
  <2>3. ASSUME NEW c \in ongoing_requests_'
        PROVE  fd'[thread_id'[c]] = c /\ pc'[thread_id'[c]] \in OwnPcs
    <3>1. CASE c = fd[t]
      BY <1>1, <2>1, <2>2, <3>1, Zenon
    <3>2. CASE c # fd[t]
      <4>1. c \in ongoing_requests_ /\ c \in Clients /\ thread_id'[c] = thread_id[c]
        BY <1>1, <2>1, <2>2, <2>3, <3>2, Zenon
      <4>2. fd[thread_id[c]] = c /\ pc[thread_id[c]] \in OwnPcs /\ thread_id[c] \in Threads
        BY <1>1, <4>1, Zenon DEF OngoingInv
      <4> QED
        BY <1>1, <3>2, <4>1, <4>2, Zenon
    <3> QED
      BY <3>1, <3>2, Zenon
  <2> QED
    BY <2>3, Zenon DEF OngoingInv
<1>3. CASE ~(HandleMessage(t) /\ running_)
  <2>1. thread_id' = thread_id /\ ongoing_requests_' \subseteq ongoing_requests_
    BY <1>3, WorkerBooks, Zenon
  <2>2. ASSUME NEW c \in ongoing_requests_'
        PROVE  fd'[thread_id'[c]] = c /\ pc'[thread_id'[c]] \in OwnPcs
    <3>1. c \in ongoing_requests_ /\ c \in Clients /\ thread_id[c] \in Threads
      BY <1>1, <2>1, <2>2, Zenon
    <3>2. fd[thread_id[c]] = c /\ pc[thread_id[c]] \in OwnPcs
      BY <3>1, Zenon DEF OngoingInv
    <3>3. CASE thread_id[c] # t
      BY <1>1, <2>1, <3>1, <3>2, <3>3, Zenon
    <3>4. CASE thread_id[c] = t
      <4>1. pc[t] \notin {"unregister", "error"}
        BY <2>2, <3>2, <3>4, WorkerBooks, Zenon
      <4>2. fd'[t] = c /\ pc'[t] \in OwnPcs
        BY <3>1, <3>2, <3>4, <4>1, WorkerGoesOn, Zenon
      <4> QED
        BY <2>1, <3>4, <4>2, Zenon
    <3> QED
      BY <3>3, <3>4, Zenon
  <2> QED
    BY <2>2, Zenon DEF OngoingInv
<1> QED
  BY <1>2, <1>3, Zenon

\* Whoever holds a request held it before, or has just taken it.
LEMMA HoldComes ==
  ASSUME IInv, NEW t \in Threads, WorkerStep(t), ~Exec(t), NEW s \in Threads, pc'[s] \in HoldPcs
  PROVE  \/ pc[s] \in HoldPcs /\ taken'[s] = taken[s]
         \/ s = t /\ TakeRequest(t)
<1>1. CASE s # t
  <2>1. pc'[s] = pc[s]
    BY <1>1, WorkerAlone, Zenon
  <2>2. taken'[s] = taken[s]
    <3>1. taken' = taken \/ \E c : taken' = [taken EXCEPT ![t] = c]
      BY WorkerBooks, Zenon DEF TakeRequest
    <3> QED
      BY <1>1, <3>1, Zenon DEF IInv, Typed, WorkerTyped
  <2> QED
    BY <2>1, <2>2, Zenon
<1>2. CASE s = t
  <2>1. pc[t] \in {"take", "strike", "lock"} /\ (pc[t] = "take" => pc'[t] # "stopped")
    <3>1. Edge(pc[t], pc'[t]) /\ pc[t] \in Pcs
      BY WorkerEdge, Zenon DEF IInv, Typed, WorkerTyped
    <3> QED
      BY <1>2, <3>1 DEF Edge, HoldPcs, Pcs, MessagePcs, HandlerPcs, StopPcs
  <2>2. CASE pc[t] = "take"
    <3>1. ~NoneLeft(t)
      BY <2>1, <2>2, Zenon DEF NoneLeft, Goto, IInv, Typed, WorkerTyped
    <3> QED
      BY <1>2, <2>2, <3>1, ByPosition, Zenon
  <2>3. CASE pc[t] # "take"
    <3>1. taken' = taken
      BY <2>3, WorkerBooks, Zenon DEF TakeRequest
    <3> QED
      BY <1>2, <2>1, <2>3, <3>1, Zenon DEF HoldPcs
  <2> QED
    BY <2>2, <2>3, ZenonT(30)
<1> QED
  BY <1>1, <1>2, Zenon

\* A Stop has begun when a request is held, and so no request starts.
LEMMA HeldThread ==
  ASSUME IInv, MainTyped, NEW s \in Threads, pc[s] \in HoldPcs
  PROVE  ~running_ /\ taken[s] \in Clients /\ thread_id[taken[s]] \in Threads
<1>1. taken[s] \in Clients
  BY Zenon DEF MainTyped
<1>2. pc[s] \in StopPcs
  BY Zenon DEF HoldPcs, StopPcs
<1> QED
  BY <1>1, <1>2, Zenon DEF IInv, StopInv, Typed, StateTyped

LEMMA WorkerTaken ==
  ASSUME IInv, MainTyped, OngoingInv, TakenInv, NEW t \in Threads, WorkerStep(t), ~Exec(t)
  PROVE  TakenInv'
<1>1. ASSUME NEW s \in Threads, pc'[s] \in HoldPcs
      PROVE  AtWork(thread_id[taken[s]], taken[s])'
  <2>0. \A u \in Threads : u # t => pc'[u] = pc[u] /\ fd'[u] = fd[u]
    BY WorkerAlone, Zenon
  <2>1. CASE pc[s] \in HoldPcs /\ taken'[s] = taken[s]
    <3> DEFINE c == taken[s]
               u == thread_id[c]
    <3>1. ~running_ /\ c \in Clients /\ u \in Threads
      BY <2>1, HeldThread, Zenon
    <3>2. thread_id' = thread_id
      BY <3>1, WorkerBooks, Zenon
    <3>3. AtWork(u, c)
      BY <2>1, Zenon DEF TakenInv
    <3> HIDE DEF u, c
    <3>4. CASE u # t
      <4>1. \/ fd'[u] = c /\ pc'[u] \in OwnPcs \cup AnswerPcs
            \/ pc'[u] \in {"loop", "exited"}
        BY <2>0, <3>1, <3>3, <3>4, Zenon DEF AtWork
      <4> QED
        BY <2>1, <3>2, <4>1, Zenon DEF AtWork, u, c
    <3>5. CASE u = t
      <4>1. \/ fd'[t] = c /\ pc'[t] \in OwnPcs \cup AnswerPcs
            \/ pc'[t] \in {"loop", "exited"}
        <5>1. CASE fd[t] = c /\ pc[t] \in OwnPcs
          BY <3>1, <5>1, WorkerGoesOn, Zenon DEF AnswerPcs
        <5>2. CASE fd[t] = c /\ pc[t] \in AnswerPcs
          BY <5>2, WorkerGoesOn, Zenon
        <5>3. CASE pc[t] \in {"loop", "exited"}
          BY <3>1, <5>3, WorkerGoesOn, Zenon
        <5> QED
          BY <3>3, <3>5, <5>1, <5>2, <5>3, Zenon DEF AtWork
      <4> QED
        BY <2>1, <3>2, <3>5, <4>1, Zenon DEF AtWork, u, c
    <3> QED
      BY <3>4, <3>5, Zenon
  <2>2. CASE s = t /\ TakeRequest(t)
    <3>1. PICK c \in ongoing_requests_ : taken' = [taken EXCEPT ![t] = c]
      BY <2>2, Zenon DEF TakeRequest
    <3>2. UNCHANGED <<fd, thread_id>> /\ Goto(t, "strike")
      BY <2>2, Zenon DEF TakeRequest
    <3>3. taken'[t] = c /\ pc'[t] = "strike" /\ c \in Clients /\ thread_id[c] \in Threads
      BY <3>1, <3>2, Zenon DEF Goto, IInv, Typed, WorkerTyped, StateTyped
    <3>4. fd[thread_id[c]] = c /\ pc[thread_id[c]] \in OwnPcs
      BY <3>1, Zenon DEF OngoingInv
    <3>5. pc'[thread_id[c]] \in OwnPcs
      BY <2>0, <3>3, <3>4, Zenon DEF OwnPcs, StopPcs
    <3> QED
      BY <2>2, <3>2, <3>3, <3>4, <3>5, Zenon DEF AtWork
  <2> QED
    BY <1>1, <2>1, <2>2, HoldComes, Zenon
<1> QED
  BY <1>1, Zenon DEF TakenInv

\* A request that has been interrupted starts no command.
LEMMA OwnStruck ==
  ASSUME IInv, NEW t \in Threads, WorkerStep(t), ~Exec(t), Struck(t), pc[t] # "HandleMessage"
  PROVE  Struck(t)'
<1>1. pc \in [Threads -> Pcs]
  BY Zenon DEF IInv, Typed, WorkerTyped
<1>2. CASE pc'[t] \notin RequestPcs
  BY <1>2, Zenon DEF Struck, RequestPcs, HandlerPcs
<1>3. CASE RegisterInterrupt(t)
  <2>1. /\ pc[t] = "register" /\ UNCHANGED <<fd, req, interrupted_>>
        /\ Goto(t, "Handle") \/ Goto(t, "error")
    BY <1>3, Zenon DEF RegisterInterrupt, workVars, clientVars, cmdVars
  <2>2. pc'[t] \in {"Handle", "error"}
    BY <1>1, <2>1, Zenon DEF Goto
  <2> QED
    BY <2>1, <2>2, Zenon DEF Struck
<1>4. CASE StartCommand(t)
  BY <1>4, Zenon DEF StartCommand, Struck
<1>5. CASE WaitReturns(t)
  <2>1. pc'[t] = "reap"
    BY <1>1, <1>5, Zenon DEF WaitReturns, Goto
  <2> QED
    BY <2>1, Zenon DEF Struck
<1>6. CASE HandleMessage(t)
  BY <1>6, Zenon DEF HandleMessage
<1> QED
  BY <1>2, <1>3, <1>4, <1>5, <1>6, OwnRequest, Zenon

LEMMA OthersStruck ==
  ASSUME IInv, RestTyped, NEW t \in Threads, WorkerStep(t), ~Exec(t),
         NEW u \in Threads, u # t, pc[u] \in RequestPcs => Struck(u) \/ Struck(u)'
  PROVE  Struck(u)'
<1>1. CASE pc[u] \in RequestPcs
  <2>1. pc'[u] = pc[u] /\ fd'[u] = fd[u] /\ Untouched(fd[u])
    BY <1>1, OthersRequest, Zenon
  <2> QED
    BY <1>1, <2>1, StruckStays, Zenon
<1>2. CASE pc[u] \notin RequestPcs
  <2>1. pc'[u] \notin RequestPcs
    BY <1>2, WorkerAlone, Zenon
  <2> QED
    BY <2>1, Zenon DEF Struck, RequestPcs, HandlerPcs
<1> QED
  BY <1>1, <1>2, Zenon

LEMMA WorkerStruck ==
  ASSUME IInv, RestTyped, CommandInv, TakenInv, StruckInv,
         NEW t \in Threads, WorkerStep(t), ~Exec(t)
  PROVE  StruckInv'
<1>0. {"lock", "join"} \subseteq HoldPcs /\ "strike" \in HoldPcs
  BY Zenon DEF HoldPcs
<1>1. \A s \in Threads : pc'[s] \in HoldPcs /\ pc'[s] # "strike" =>
        /\ pc[s] \in HoldPcs /\ taken'[s] = taken[s] /\ thread_id' = thread_id
        /\ taken[s] \in Clients /\ thread_id[taken[s]] \in Threads
        /\ AtWork(thread_id[taken[s]], taken[s])
  <2> SUFFICES ASSUME NEW s \in Threads, pc'[s] \in HoldPcs, pc'[s] # "strike"
               PROVE  /\ pc[s] \in HoldPcs /\ taken'[s] = taken[s] /\ thread_id' = thread_id
                      /\ taken[s] \in Clients /\ thread_id[taken[s]] \in Threads
                      /\ AtWork(thread_id[taken[s]], taken[s])
    BY Zenon
  <2>1. ~(s = t /\ TakeRequest(t))
    BY Zenon DEF TakeRequest, Goto, IInv, Typed, WorkerTyped
  <2>2. pc[s] \in HoldPcs /\ taken'[s] = taken[s]
    BY <2>1, HoldComes, Zenon
  <2>3. ~running_ /\ taken[s] \in Clients /\ thread_id[taken[s]] \in Threads
    BY <2>2, HeldThread, Zenon DEF RestTyped
  <2>4. thread_id' = thread_id
    BY <2>3, WorkerBooks, Zenon
  <2> QED
    BY <2>2, <2>3, <2>4, Zenon DEF TakenInv
<1>2. ASSUME NEW s \in Threads, pc'[s] \in {"lock", "join"}
      PROVE  Struck(thread_id[taken[s]])'
  <2>1. /\ pc[s] \in HoldPcs /\ taken'[s] = taken[s] /\ thread_id' = thread_id
        /\ \E c \in Clients, u \in Threads :
             c = taken[s] /\ u = thread_id[c] /\ AtWork(u, c)
    BY <1>0, <1>1, <1>2, Zenon
  <2>2. PICK c \in Clients, u \in Threads :
          c = taken[s] /\ u = thread_id[c] /\ AtWork(u, c)
    BY <2>1, Zenon
  <2> SUFFICES Struck(u)'
    BY <2>1, <2>2, Zenon DEF Struck
  <2>3. CASE pc[s] \in {"lock", "join"}
    <3>1. Struck(u)
      BY <2>2, <2>3, Zenon DEF StruckInv
    <3>2. pc[u] # "HandleMessage"
      BY <2>2, Zenon DEF AtWork, OwnPcs, AnswerPcs, RequestPcs, HandlerPcs, StopPcs
    <3> QED
      BY <3>1, <3>2, OwnStruck, OthersStruck, Zenon
  <2>4. CASE pc[s] = "strike"
    <3>1. s = t
      BY <1>2, <2>4, WorkerAlone, Zenon
    <3>2. InterruptTaken(t) /\ c = taken[t]
      BY <2>2, <2>4, <3>1, ByPosition, Zenon
    <3>3. CASE u = t
      <4>1. pc'[u] \in {"lock", "join"}
        BY <1>2, <3>1, <3>3, Zenon
      <4> QED
        BY <4>1, Zenon DEF Struck
    <3>4. CASE u # t
      <4>1. ASSUME pc[u] \in RequestPcs
            PROVE  Struck(u)'
        <5>1. fd[u] = c
          BY <2>2, <4>1, Zenon DEF AtWork, RequestPcs, HandlerPcs
        <5>2. Interrupt(c) /\ UNCHANGED req
          BY <3>2, Zenon DEF InterruptTaken, clientVars
        <5>3. pc'[u] = pc[u] /\ fd'[u] = fd[u]
          BY <3>4, WorkerAlone, Zenon
        <5> QED
          BY <4>1, <5>1, <5>2, <5>3, InterruptStrikes, Zenon
      <4> QED
        BY <3>4, <4>1, OthersStruck, Zenon
    <3> QED
      BY <3>3, <3>4, Zenon
  <2> QED
    BY <2>1, <2>3, <2>4, Zenon DEF HoldPcs
<1>3. ASSUME NEW s \in Threads, pc'[s] = "join"
      PROVE  thread_id'[taken'[s]] # s
  <2>1. pc[s] \in HoldPcs /\ taken'[s] = taken[s] /\ thread_id' = thread_id
    BY <1>0, <1>1, <1>3, Zenon
  <2>2. CASE pc[s] = "join"
    BY <2>1, <2>2, Zenon DEF StruckInv
  <2>3. CASE pc[s] # "join"
    <3>1. s = t
      BY <1>3, <2>3, WorkerAlone, Zenon
    <3>2. pc[t] = "lock"
      <4>1. Edge(pc[t], "join")
        BY <1>3, <3>1, WorkerEdge, Zenon
      <4> QED
        BY <2>1, <2>3, <3>1, <4>1, Zenon DEF Edge, HoldPcs
    <3>3. LockThreads(t) /\ ~Goto(t, "take")
      BY <1>3, <3>1, <3>2, ByPosition, Zenon DEF Goto, IInv, Typed, WorkerTyped
    <3>4. thread_id[taken[t]] # t
      BY <3>3, Zenon DEF LockThreads
    <3> QED
      BY <2>1, <3>1, <3>4, Zenon
  <2> QED
    BY <2>2, <2>3
<1> QED
  BY <1>2, <1>3, Zenon DEF StruckInv

LEMMA WorkerStopped ==
  ASSUME IInv, StoppedInv, NEW t \in Threads, WorkerStep(t), ~Exec(t)
  PROVE  StoppedInv'
<1>1. ASSUME NEW u \in Threads, pc'[u] = "stopped"
      PROVE  ongoing_requests_' = {} /\ (twoStops' \/ \A s \in Threads : pc'[s] \notin HoldPcs)
  <2>1. CASE pc[u] = "stopped"
    <3>1. ~running_ /\ ongoing_requests_ = {} /\ (twoStops \/ \A s \in Threads : pc[s] \notin HoldPcs)
      BY <2>1, Zenon DEF StoppedInv, IInv, StopInv
    <3>2. ongoing_requests_' = {} /\ (twoStops => twoStops')
      BY <3>1, WorkerBooks, Zenon
    <3>3. ~TakeRequest(t)
      BY <3>1, Zenon DEF TakeRequest
    <3>4. \A s \in Threads : pc'[s] \in HoldPcs => pc[s] \in HoldPcs
      BY <3>3, HoldComes, Zenon
    <3> QED
      BY <3>1, <3>2, <3>4, Zenon
  <2>2. CASE pc[u] # "stopped"
    <3>1. u = t
      BY <1>1, <2>2, WorkerAlone, Zenon
    <3>2. pc[t] = "take"
      <4>1. Edge(pc[t], "stopped") /\ pc[t] \in Pcs
        BY <1>1, <3>1, WorkerEdge, Zenon DEF IInv, Typed, WorkerTyped
      <4> QED
        BY <4>1 DEF Edge, Pcs, MessagePcs, HandlerPcs, StopPcs
    <3>3. NoneLeft(t)
      <4>1. ~Goto(t, "strike")
        BY <1>1, <3>1, Zenon DEF Goto, IInv, Typed, WorkerTyped
      <4> QED
        BY <3>2, <4>1, ByPosition, Zenon DEF TakeRequest
    <3>4. ongoing_requests_' = {} /\ twoStops' = twoStops
      BY <3>3, Zenon DEF NoneLeft, reqVars, histVars
    <3>5. ASSUME NEW s \in Threads, pc'[s] \in HoldPcs
          PROVE  twoStops
      <4>1. s # t
        BY <1>1, <3>1, <3>5, Zenon DEF HoldPcs
      <4>2. pc[s] \in StopPcs /\ pc[t] \in StopPcs
        BY <3>2, <3>5, <4>1, WorkerAlone, Zenon DEF HoldPcs, StopPcs
      <4> QED
        BY <4>1, <4>2, Zenon DEF IInv, StopInv
    <3> QED
      BY <3>4, <3>5, Zenon
  <2> QED
    BY <2>1, <2>2
<1> QED
  BY <1>1, ZenonT(30) DEF StoppedInv

LEMMA WorkerMutex ==
  ASSUME IInv, MutexInv, NEW t \in Threads, WorkerStep(t), ~Exec(t)
  PROVE  MutexInv'
<1>1. pc \in [Threads -> Pcs] /\ 0 \notin Threads
  BY DEF IInv, Typed, WorkerTyped, Threads
<1>2. \A u \in Threads : u # t => pc'[u] = pc[u]
  BY WorkerAlone, Zenon
<1>3. CASE LockThreads(t)
  <2>1. threads_mutex_ = 0 /\ pc[t] = "lock"
    BY <1>3, Zenon DEF LockThreads
  <2>2. \/ pc' = [pc EXCEPT ![t] = "take"] /\ threads_mutex_' = threads_mutex_
        \/ pc' = [pc EXCEPT ![t] = "join"] /\ threads_mutex_' = t
    BY <1>3, Zenon DEF LockThreads, Goto
  <2>3. \A u \in Threads : pc[u] # "join"
    BY <1>1, <2>1, Zenon DEF MutexInv
  <2>4. CASE pc' = [pc EXCEPT ![t] = "take"] /\ threads_mutex_' = threads_mutex_
    BY <1>1, <1>2, <2>1, <2>3, <2>4, Zenon DEF MutexInv
  <2>5. CASE pc' = [pc EXCEPT ![t] = "join"] /\ threads_mutex_' = t
    BY <1>1, <1>2, <2>3, <2>5, Zenon DEF MutexInv
  <2> QED
    BY <2>2, <2>4, <2>5, Zenon
<1>4. CASE JoinReturns(t)
  <2>1. pc[t] = "join" /\ pc' = [pc EXCEPT ![t] = "take"] /\ threads_mutex_' = 0
    BY <1>4, Zenon DEF JoinReturns, Goto
  <2>2. \A u \in Threads : u # t => pc[u] # "join"
    BY <2>1, Zenon DEF MutexInv
  <2> QED
    BY <1>1, <1>2, <2>1, <2>2, Zenon DEF MutexInv
<1>5. CASE ~LockThreads(t) /\ ~JoinReturns(t)
  <2>1. threads_mutex_' = threads_mutex_ /\ pc[t] # "join" /\ pc[t] # "lock"
    BY <1>5, WorkerBooks, ByPosition, ZenonT(30)
  <2>2. pc'[t] # "join"
    <3>1. Edge(pc[t], pc'[t]) /\ pc[t] \in Pcs
      BY <1>1, WorkerEdge, Zenon
    <3> QED
      BY <2>1, <3>1 DEF Edge, Pcs, MessagePcs, HandlerPcs, StopPcs
  <2> QED
    BY <1>2, <2>1, <2>2, Zenon DEF MutexInv
<1> QED
  BY <1>3, <1>4, <1>5, Zenon

StopFacts == OngoingInv /\ TakenInv /\ StruckInv /\ StoppedInv /\ MutexInv /\ Cascade
StopsInv == HeedInv /\ StopFacts

\* Clients, subprocesses, the main thread and the end of the process.
LEMMA OutsideStops ==
  ASSUME StopsInv,
         \/ MainStep \/ UNCHANGED vars
         \/ \E t \in Threads : InterruptDestroyed(t) \/ DoubleJoin(t)
         \/ \E c \in Clients : Connect(c) \/ Send(c) \/ Leave(c) \/ ChildExits(c)
  PROVE  StopFacts'
<1>0. IInv /\ MainTyped
  BY Zenon DEF StopsInv, HeedInv, BalanceInv, RestTyped
<1>1. /\ UNCHANGED <<pc, fd, ongoing_requests_, thread_id, taken, twoStops, threads_mutex_>>
      /\ (running_' = running_ /\ wakeups' = wakeups) \/ DestroyServer
  <2>1. CASE MainStep
    BY <2>1, Zenon DEF MainStep, StartServer, AcceptCarryoverClient, DestroyServer, Join, workVars,
       reqVars, stopVars, histVars
  <2>2. CASE UNCHANGED vars \/ \E t \in Threads : InterruptDestroyed(t) \/ DoubleJoin(t)
    BY <2>2, Zenon DEF vars, InterruptDestroyed, DoubleJoin, workVars, reqVars, stopVars, histVars
  <2>3. CASE \E c \in Clients : Connect(c) \/ Send(c) \/ Leave(c) \/ ChildExits(c)
    BY <2>3, Zenon DEF Connect, Send, Leave, ChildExits, workVars, reqVars, stopVars, histVars
  <2> QED
    BY <2>1, <2>2, <2>3, Zenon
<1>2. OngoingInv' /\ TakenInv' /\ StoppedInv' /\ MutexInv'
  BY <1>1, OutsideStop, Zenon DEF StopsInv, StopFacts
<1>3. StruckInv'
  <2>1. ASSUME NEW s \in Threads, pc'[s] \in {"lock", "join"}
        PROVE  Struck(thread_id[taken[s]])'
    <3>1. pc[s] \in {"lock", "join"} /\ pc[s] \in HoldPcs
      BY <1>1, <2>1, Zenon DEF HoldPcs
    <3>2. thread_id[taken[s]] \in Threads
      BY <1>0, <3>1, HeldThread, Zenon
    <3>3. PICK u \in Threads : u = thread_id[taken[s]]
      BY <3>2, Zenon
    <3>4. Struck(u)
      BY <3>1, <3>3, Zenon DEF StopsInv, StopFacts, StruckInv
    <3>5. pc[u] \in RequestPcs => Untouched(fd[u])
      BY OutsideTouches, Zenon DEF StopsInv, HeedInv
    <3>6. Struck(u)'
      <4>1. CASE pc[u] \in RequestPcs
        BY <1>1, <3>4, <3>5, <4>1, StruckStays, Zenon
      <4>2. CASE pc[u] \notin RequestPcs
        BY <1>1, <4>2, Zenon DEF Struck, RequestPcs, HandlerPcs
      <4> QED
        BY <4>1, <4>2, Zenon
    <3> QED
      BY <1>1, <3>3, <3>6, Zenon DEF Struck
  <2>2. \A s \in Threads : pc'[s] = "join" => thread_id'[taken'[s]] # s
    BY <1>1, Zenon DEF StopsInv, StopFacts, StruckInv
  <2> QED
    BY <2>1, <2>2, Zenon DEF StruckInv
<1>4. Cascade'
  <2>1. CASE DestroyServer
    <3>1. wakeups' = wakeups + 1 /\ wakeups \in Nat
      BY <1>0, <2>1, Zenon DEF DestroyServer, MainTyped
    <3>2. wakeups' > 0
      BY <3>1
    <3> QED
      BY <3>2, Zenon DEF Cascade
  <2>2. CASE running_' = running_ /\ wakeups' = wakeups
    BY <1>1, <2>2, Zenon DEF StopsInv, StopFacts, Cascade
  <2> QED
    BY <1>1, <2>1, <2>2, Zenon
<1> QED
  BY <1>2, <1>3, <1>4, Zenon DEF StopFacts

LEMMA StopsInvariant ==
  Spec => []StopsInv
<1>1. Init => StopFacts
  <2>1. ASSUME Init PROVE StopFacts
    <3>1. /\ ongoing_requests_ = {} /\ threads_mutex_ = 0 /\ running_
          /\ \A u \in Threads : pc[u] = "loop" /\ u # 0
      BY <2>1 DEF Init, Threads
    <3> QED
      BY <3>1, Zenon DEF StopFacts, OngoingInv, TakenInv, StruckInv, StoppedInv, MutexInv, Cascade,
         HoldPcs
  <2> QED
    BY <2>1
<1>2. ASSUME StopsInv, [Next]_vars
      PROVE  StopFacts'
  <2>0. IInv /\ RestTyped /\ MainTyped /\ CommandInv
    BY <1>2, Zenon DEF StopsInv, HeedInv, BalanceInv, DepartureInv, RestTyped
  <2>1. ASSUME NEW t \in Threads, WorkerStep(t), ~Exec(t)
        PROVE  StopFacts'
    <3>1. OngoingInv' /\ TakenInv'
      BY <1>2, <2>0, <2>1, WorkerOngoing, WorkerTaken, Zenon DEF StopsInv, StopFacts
    <3>2. StruckInv'
      BY <1>2, <2>0, <2>1, WorkerStruck, Zenon DEF StopsInv, StopFacts
    <3>3. StoppedInv' /\ MutexInv' /\ Cascade'
      BY <1>2, <2>0, <2>1, WorkerStopped, WorkerMutex, WorkerCascade, Zenon DEF StopsInv, StopFacts
    <3> QED
      BY <3>1, <3>2, <3>3, Zenon DEF StopFacts
  <2>2. ASSUME NEW t \in Threads, Exec(t)
        PROVE  StopFacts'
    BY <2>2, ExecStop, Zenon DEF StopFacts
  <2> QED
    BY <1>2, <2>1, <2>2, OutsideStops, Zenon DEF Next
<1> QED
  BY <1>1, <1>2, HeedInvariant, PTL DEF Spec, StopsInv

\* What keeps a Stop from waiting for ever. Workers that wait for events are woken up by
\* one that exits, or by one that is still on its way there. Only a thread that joins
\* another holds threads_mutex_. And unless two Stops run at the same time, the thread that
\* is joined is another one, which waits for no lock and for no thread: it is in a request
\* that has been interrupted, whose subprocess has been killed if there is one, or on its
\* way from it to its exit.
Leaving ==
  RequestPcs \cup AnswerPcs \cup {"done", "unregister", "error", "Stop", "loop", "exited"}
StopGoesOn ==
  /\ ~running_ => wakeups > 0 \/ \E u \in Threads : pc[u] \notin {"wait", "exited"}
  /\ \A t \in Threads : threads_mutex_ = t => pc[t] = "join"
  /\ ~twoStops => \A t \in Threads : pc[t] = "join" =>
       LET u == thread_id[taken[t]]
       IN u # t /\ pc[u] \in Leaving /\ (pc[u] = "Wait" => child[fd[u]] # "running")

\* CvdServer::Stop, which holds threads_mutex_ while it joins the threads of the requests it
\* has interrupted, waits neither for itself nor for a command that runs on, unless two
\* Stops run at once, and leaves no idle worker asleep: the safety half of
\* StopEndsServer, for any number of workers and clients.
THEOREM StopIsNotStuck ==
  Spec => []StopGoesOn
<1>1. ASSUME StopsInv
      PROVE  StopGoesOn
  <2>0. IInv /\ MainTyped
    BY <1>1, Zenon DEF StopsInv, HeedInv, BalanceInv, RestTyped
  <2>1. ~running_ => wakeups > 0 \/ \E u \in Threads : pc[u] \notin {"wait", "exited"}
    BY <1>1, Zenon DEF StopsInv, StopFacts, Cascade
  <2>2. \A t \in Threads : threads_mutex_ = t => pc[t] = "join"
    BY <1>1, Zenon DEF StopsInv, StopFacts, MutexInv
  <2>3. ASSUME ~twoStops, NEW t \in Threads, pc[t] = "join"
        PROVE  /\ thread_id[taken[t]] # t /\ pc[thread_id[taken[t]]] \in Leaving
               /\ pc[thread_id[taken[t]]] = "Wait" => child[fd[thread_id[taken[t]]]] # "running"
    <3>1. pc[t] \in HoldPcs /\ pc[t] \in StopPcs
      BY <2>3, Zenon DEF HoldPcs, StopPcs
    <3>2. PICK u \in Threads : u = thread_id[taken[t]]
      BY <2>0, <3>1, HeldThread, Zenon
    <3>3. u # t /\ Struck(u) /\ AtWork(u, taken[t])
      BY <1>1, <2>3, <3>1, <3>2, Zenon DEF StopsInv, StopFacts, StruckInv, TakenInv
    <3>4. pc[u] \notin StopPcs
      BY <2>0, <2>3, <3>1, <3>3, Zenon DEF IInv, StopInv
    <3>5. pc[u] # "stopped"
      BY <1>1, <2>3, <3>1, Zenon DEF StopsInv, StopFacts, StoppedInv
    <3>6. pc[u] \in Leaving
      BY <3>3, <3>4, <3>5, Zenon DEF AtWork, OwnPcs, Leaving
    <3> QED
      BY <3>2, <3>3, <3>6, Zenon DEF Struck
  <2> QED
    BY <2>1, <2>2, <2>3, Zenon DEF StopGoesOn
<1> QED
  BY <1>1, StopsInvariant, PTL
=============================================================================
