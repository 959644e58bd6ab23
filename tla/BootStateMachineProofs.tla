----------------------- MODULE BootStateMachineProofs -----------------------
(***************************************************************************)
(* Invariants of BootStateMachine for every set of subscribers, capacity   *)
(* of the pipes and combination of faults.                                 *)
(***************************************************************************)
EXTENDS BootStateMachine, Integers, TLAPS

Subscribed(s) == \E i \in 1 .. Len(subscribers_) : subscribers_[i] = s

Walking == klm \in {"len", "body"}

\* How far the parts of the system have got: the process monitor is forked by a
\* run_cvd that has set up its boot thread, and klm by a monitor past its prctl.
Phases ==
  /\ run_cvd \in {"daemonize", "setup"} => thread = "none"
  /\ run_cvd \in {"ready", "serve"} => thread # "none"
  /\ mon # "none" => run_cvd \in {"serve", "dead"} /\ thread # "none"
  /\ run_cvd = "dead" => thread \in {"none", "done", "dead"}
  /\ klm # "none" => mon \in {"up", "orphan", "dead"}
  /\ thread \in {"none", "poll", "body"} => state_ = {}
  /\ thread \in {"reboot", "fg"} => state_ # {}

\* The vector has no subscriber twice, and whom it lacks nobody reads.
Vector ==
  klm \notin {"none", "dead"} =>
    /\ \A i, j \in 1 .. Len(subscribers_) : subscribers_[i] = subscribers_[j] => i = j
    /\ \A s \in Sub : Subscribed(s) \/ ~HasReader(s)

\* The subscribers before idx have got the event, those from idx on have not, and
\* those swapped to the end have nobody who reads.
Walk ==
  /\ \A s \in Sub : got[s] <= handled
  /\ klm \in {"start", "select"} =>
       \A i \in 1 .. Len(subscribers_) : got[subscribers_[i]] = handled
  /\ Walking =>
       /\ idx >= 1 /\ handled >= 1 /\ log # <<>>
       /\ \A i \in 1 .. (idx - 1) : got[subscribers_[i]] = handled
       /\ \A i \in idx .. active_subscription_count : got[subscribers_[i]] = handled - 1
       /\ \A i \in (active_subscription_count + 1) .. Len(subscribers_) :
            ~HasReader(subscribers_[i])
  /\ klm = "body" => idx <= active_subscription_count

WalkInv == Vector /\ Walk

Booted == Logged("BootCompleted")

\* A success on its way from klm to those who wait is one of kernel.log.
Truth ==
  /\ \A s \in Sub : \A k \in 1 .. Len(pipe[s]) : pipe[s][k] = "BootCompleted" => Booted
  /\ "kGuestBootCompleted" \in state_ => Booted
  /\ SuccessMeansBooted

\* The first final event of the log is e.
FirstFinal(e) ==
  \E n \in DOMAIN log : log[n] = e /\ \A m \in 1 .. (n - 1) : log[m] = "Other"

\* The reader of the pipe q has read k events of the log l, all of no importance,
\* and q holds the others of the first w in order, each after its size.  The halves
\* hr and hw are 1 between the two reads, and the two writes, of an event.
InStepAt(k, q, l, w, hr, hw) ==
  /\ \A m \in 1 .. k : l[m] = "Other"
  /\ 2 * k + hr + Len(q) = 2 * w + hw
  /\ \A m \in (k + 1) .. w : q[2 * (m - k) - hr] = l[m]

HalfRead == IF thread = "body" THEN 1 ELSE 0
HalfWritten == IF klm = "body" /\ Current = Boot THEN 1 ELSE 0

\* The events of the log that were written to the boot thread as a whole.
Written == IF Walking THEN Len(log) - (handled - got[Boot]) ELSE Len(log)

InStep(k) == InStepAt(k, pipe[Boot], log, Written, HalfRead, HalfWritten)

\* Without a torn event the boot thread is in step with the log until the first
\* final event, which decides what it says.
Order ==
  ~torn =>
    /\ thread \in {"none", "poll", "body"} => \E k \in 0 .. Len(log) : InStep(k)
    /\ state_ # {} => FirstFinal(IF "kGuestBootCompleted" \in state_ THEN "BootCompleted"
                                                                     ELSE "BootFailed")
    /\ \A c \in Reported : FirstFinal(IF c = "kSuccess" THEN "BootCompleted" ELSE "BootFailed")

IInv == TypeOK /\ Phases /\ WalkInv /\ Truth /\ Order

-----------------------------------------------------------------------------
(* Lemmas about sequences                                                  *)

\* What Append and Tail do to a sequence, element by element.
LEMMA AppendSeq ==
  ASSUME NEW S, NEW q \in Seq(S), NEW e \in S
  PROVE  /\ Append(q, e) \in Seq(S) /\ Len(Append(q, e)) = Len(q) + 1
         /\ Append(q, e)[Len(q) + 1] = e
         /\ \A i \in 1 .. Len(q) : Append(q, e)[i] = q[i]
  OBVIOUS

LEMMA TailSeq ==
  ASSUME NEW S, NEW q \in Seq(S), q # <<>>
  PROVE  /\ Tail(q) \in Seq(S) /\ Len(q) \in Nat \ {0} /\ Len(Tail(q)) = Len(q) - 1
         /\ Head(q) = q[1] /\ Head(q) \in S
         /\ \A i \in 1 .. (Len(q) - 1) : Tail(q)[i] = q[i + 1]
  OBVIOUS

Swap(q, a, b) == [q EXCEPT ![a] = q[b], ![b] = q[a]]

\* Exchanging two elements of a sequence leaves its elements different.
LEMMA SwapInjective ==
  ASSUME NEW S, NEW q \in Seq(S), NEW a \in 1 .. Len(q), NEW b \in 1 .. Len(q),
         \A i, j \in 1 .. Len(q) : q[i] = q[j] => i = j
  PROVE  \A i, j \in 1 .. Len(q) : Swap(q, a, b)[i] = Swap(q, a, b)[j] => i = j
<1> DEFINE p(x) == IF x = a THEN b ELSE IF x = b THEN a ELSE x
<1>1. \A x \in 1 .. Len(q) : p(x) \in 1 .. Len(q) /\ Swap(q, a, b)[x] = q[p(x)]
  BY DEF Swap
<1> SUFFICES ASSUME NEW i \in 1 .. Len(q), NEW j \in 1 .. Len(q),
                    Swap(q, a, b)[i] = Swap(q, a, b)[j]
             PROVE  i = j
  OBVIOUS
<1>2. p(i) = p(j)
  BY <1>1
<1> QED
  BY <1>2

LEMMA PipeBounds ==
  ASSUME NEW k \in Nat, NEW w \in Int, NEW len \in Nat, NEW hr \in 0 .. 1, NEW hw \in 0 .. 1,
         2 * k + hr + len = 2 * w + hw
  PROVE  k <= w /\ \A m \in (k + 1) .. w : 2 * (m - k) - hr \in 1 .. len
  OBVIOUS

\* The reader reads a size.
LEMMA InStepSize ==
  ASSUME NEW S, NEW q \in Seq(S), q # <<>>, NEW l, NEW k \in Nat, NEW w \in Int,
         NEW hw \in 0 .. 1, InStepAt(k, q, l, w, 0, hw)
  PROVE  InStepAt(k, Tail(q), l, w, 1, hw)
<1>1. /\ Len(q) \in Nat \ {0} /\ Len(Tail(q)) = Len(q) - 1
      /\ \A i \in 1 .. (Len(q) - 1) : Tail(q)[i] = q[i + 1]
  BY TailSeq
<1>2. 2 * k + 0 + Len(q) = 2 * w + hw
  BY DEF InStepAt
<1>3. 2 * k + 1 + Len(Tail(q)) = 2 * w + hw
  BY <1>1, <1>2
<1>4. ASSUME NEW m \in (k + 1) .. w PROVE Tail(q)[2 * (m - k) - 1] = l[m]
  <2>1. 2 * (m - k) - 1 \in 1 .. (Len(q) - 1)
    BY <1>1, <1>3, PipeBounds
  <2>2. (2 * (m - k) - 1) + 1 = 2 * (m - k) - 0
    OBVIOUS
  <2>3. q[2 * (m - k) - 0] = l[m]
    BY DEF InStepAt
  <2> QED
    BY <1>1, <2>1, <2>2, <2>3
<1> QED
  BY <1>3, <1>4 DEF InStepAt

\* The reader reads a body, which is the next event of the log.
LEMMA InStepBody ==
  ASSUME NEW S, NEW q \in Seq(S), q # <<>>, NEW l, NEW k \in Nat, NEW w \in Int,
         NEW hw \in 0 .. 1, InStepAt(k, q, l, w, 1, hw)
  PROVE  /\ k + 1 <= w /\ Head(q) = l[k + 1]
         /\ Head(q) = "Other" => InStepAt(k + 1, Tail(q), l, w, 0, hw)
<1>1. /\ Len(q) \in Nat \ {0} /\ Len(Tail(q)) = Len(q) - 1 /\ Head(q) = q[1]
      /\ \A i \in 1 .. (Len(q) - 1) : Tail(q)[i] = q[i + 1]
  BY TailSeq
<1>2. 2 * k + 1 + Len(q) = 2 * w + hw
  BY DEF InStepAt
<1>3. k + 1 <= w
  BY <1>1, <1>2
<1>4. Head(q) = l[k + 1]
  <2>1. k + 1 \in (k + 1) .. w /\ 2 * ((k + 1) - k) - 1 = 1
    BY <1>3
  <2>2. q[2 * ((k + 1) - k) - 1] = l[k + 1]
    BY <2>1 DEF InStepAt
  <2> QED
    BY <1>1, <2>1, <2>2
<1>5. ASSUME Head(q) = "Other" PROVE InStepAt(k + 1, Tail(q), l, w, 0, hw)
  <2>1. 2 * (k + 1) + 0 + Len(Tail(q)) = 2 * w + hw
    BY <1>1, <1>2
  <2>2. ASSUME NEW m \in 1 .. (k + 1) PROVE l[m] = "Other"
    <3>1. m = k + 1 \/ m \in 1 .. k
      OBVIOUS
    <3> QED
      BY <1>4, <1>5, <3>1 DEF InStepAt
  <2>3. ASSUME NEW m \in ((k + 1) + 1) .. w PROVE Tail(q)[2 * (m - (k + 1)) - 0] = l[m]
    <3>1. 2 * (m - (k + 1)) - 0 \in 1 .. (Len(q) - 1)
      BY <1>1, <2>1, PipeBounds
    <3>2. (2 * (m - (k + 1)) - 0) + 1 = 2 * (m - k) - 1 /\ m \in (k + 1) .. w
      OBVIOUS
    <3>3. q[2 * (m - k) - 1] = l[m]
      BY <3>2 DEF InStepAt
    <3> QED
      BY <1>1, <3>1, <3>2, <3>3
  <2> QED
    BY <2>1, <2>2, <2>3 DEF InStepAt
<1> QED
  BY <1>3, <1>4, <1>5

\* The log grows.
LEMMA InStepLog ==
  ASSUME NEW S, NEW l \in Seq(S), NEW e \in S, NEW q, Len(q) \in Nat, NEW k \in Nat, NEW w \in Int,
         w <= Len(l), NEW hr \in 0 .. 1, NEW hw \in 0 .. 1, InStepAt(k, q, l, w, hr, hw)
  PROVE  InStepAt(k, q, Append(l, e), w, hr, hw)
<1>1. Len(l) \in Nat /\ \A i \in 1 .. Len(l) : Append(l, e)[i] = l[i]
  BY AppendSeq
<1>2. k <= w
  BY PipeBounds DEF InStepAt
<1>3. \A m \in 1 .. k : m \in 1 .. Len(l)
  BY <1>1, <1>2
<1>4. \A m \in (k + 1) .. w : m \in 1 .. Len(l)
  BY <1>1
<1> QED
  BY <1>1, <1>3, <1>4 DEF InStepAt

\* A size is written.
LEMMA InStepWriteSize ==
  ASSUME NEW S, NEW q \in Seq(S), NEW e \in S, NEW l, NEW k \in Nat, NEW w \in Int,
         NEW hr \in 0 .. 1, InStepAt(k, q, l, w, hr, 0)
  PROVE  InStepAt(k, Append(q, e), l, w, hr, 1)
<1>1. /\ Len(q) \in Nat /\ Len(Append(q, e)) = Len(q) + 1
      /\ \A i \in 1 .. Len(q) : Append(q, e)[i] = q[i]
  BY AppendSeq
<1>2. 2 * k + hr + Len(q) = 2 * w + 0
  BY DEF InStepAt
<1>3. \A m \in (k + 1) .. w : 2 * (m - k) - hr \in 1 .. Len(q)
  BY <1>1, <1>2, PipeBounds
<1>4. 2 * k + hr + Len(Append(q, e)) = 2 * w + 1
  BY <1>1, <1>2
<1> QED
  BY <1>1, <1>3, <1>4 DEF InStepAt

\* The body of the next event of the log is written.
LEMMA InStepWriteBody ==
  ASSUME NEW S, NEW q \in Seq(S), NEW e \in S, NEW l, NEW k \in Nat, NEW w \in Int,
         NEW hr \in 0 .. 1, InStepAt(k, q, l, w, hr, 1), e = l[w + 1]
  PROVE  InStepAt(k, Append(q, e), l, w + 1, hr, 0)
<1>1. /\ Len(q) \in Nat /\ Len(Append(q, e)) = Len(q) + 1 /\ Append(q, e)[Len(q) + 1] = e
      /\ \A i \in 1 .. Len(q) : Append(q, e)[i] = q[i]
  BY AppendSeq
<1>2. 2 * k + hr + Len(q) = 2 * w + 1
  BY DEF InStepAt
<1>3. 2 * k + hr + Len(Append(q, e)) = 2 * (w + 1) + 0
  BY <1>1, <1>2
<1>4. ASSUME NEW m \in (k + 1) .. (w + 1) PROVE Append(q, e)[2 * (m - k) - hr] = l[m]
  <2>1. CASE m = w + 1
    <3>1. 2 * (m - k) - hr = Len(q) + 1
      BY <1>1, <1>2, <2>1
    <3> QED
      BY <1>1, <2>1, <3>1
  <2>2. CASE m # w + 1
    <3>1. m \in (k + 1) .. w
      BY <2>2
    <3>2. 2 * (m - k) - hr \in 1 .. Len(q)
      BY <1>1, <1>2, <3>1, PipeBounds
    <3> QED
      BY <1>1, <3>1, <3>2 DEF InStepAt
  <2> QED
    BY <2>1, <2>2, Zenon
<1> QED
  BY <1>3, <1>4 DEF InStepAt

-----------------------------------------------------------------------------
(* What the invariants depend on                                           *)

\* The readers of the pipes only become fewer while klm runs.
ReadersOnlyLeave ==
  klm \in {"none", "dead"} \/ \A s \in Sub : HasReader(s)' => HasReader(s)

LEMMA WalkKept ==
  ASSUME TypeOK, WalkInv, UNCHANGED <<klm, walkVars, log>>, ReadersOnlyLeave
  PROVE  WalkInv'
<1>1. \A i \in 1 .. Len(subscribers_) : subscribers_[i] \in Sub
  BY DEF TypeOK
<1>2. Walking => 0 <= active_subscription_count /\ active_subscription_count \in Nat
  BY DEF TypeOK
<1>3. Vector'
  BY DEF WalkInv, Vector, Subscribed, ReadersOnlyLeave, walkVars
<1>4. Walk'
  BY <1>1, <1>2 DEF WalkInv, Walk, Walking, ReadersOnlyLeave, walkVars
<1> QED
  BY <1>3, <1>4 DEF WalkInv

LEMMA TruthKept ==
  ASSUME Truth, UNCHANGED <<log, pipe, state_>>, Reported' \subseteq Reported
  PROVE  Truth'
  BY DEF Truth, Booted, Logged, SuccessMeansBooted

\* A step in which the boot thread does not read.
NoRead ==
  \/ thread' = thread
  \/ thread' \notin {"none", "poll", "body"}
  \/ {thread, thread'} \subseteq {"none", "poll"}

LEMMA OrderKept ==
  ASSUME Order, UNCHANGED <<klm, walkVars, torn, log, pipe, state_>>, NoRead,
         Reported' \subseteq Reported
  PROVE  Order'
<1>1. ASSUME ~torn, thread' \in {"none", "poll", "body"}
      PROVE  \E k \in 0 .. Len(log') : InStep(k)'
  <2>1. HalfRead' = HalfRead /\ thread \in {"none", "poll", "body"}
    BY <1>1 DEF NoRead, HalfRead
  <2>2. HalfWritten' = HalfWritten /\ Written' = Written
    BY DEF HalfWritten, Written, Walking, Current, walkVars
  <2> QED
    BY <1>1, <2>1, <2>2 DEF Order, InStep
<1>2. \A e : FirstFinal(e)' <=> FirstFinal(e)
  BY DEF FirstFinal
<1> QED
  BY <1>1, <1>2 DEF Order

\* A step that neither moves an event nor decides or changes an answer.
Quiet ==
  /\ UNCHANGED <<klm, walkVars, torn, log, pipe, state_>>
  /\ NoRead /\ ReadersOnlyLeave
  /\ Reported' \subseteq Reported

LEMMA QuietStep ==
  ASSUME IInv, Quiet, TypeOK', Phases'
  PROVE  IInv'
  BY WalkKept, TruthKept, OrderKept DEF IInv, Quiet

-----------------------------------------------------------------------------
(* Steps of run_cvd, of the monitor and of those who wait                  *)

LEMMA MainStep ==
  ASSUME IInv, MainNext \/ SetupFails \/ RunCvdEnds
  PROVE  IInv'
<1> USE OptionsAssumption DEF IInv
<1>1. CASE DaemonizeLauncher
  <2>1. TypeOK' /\ Phases'
    BY <1>1 DEF DaemonizeLauncher, TypeOK, Phases, threadVars, klmVars, walkVars, dataVars
  <2>2. Quiet
    BY <1>1 DEF DaemonizeLauncher, Quiet, NoRead, ReadersOnlyLeave, HasReader, MonAlive,
                Reported, Code, TypeOK, threadVars, klmVars, walkVars, dataVars
  <2> QED
    BY <2>1, <2>2, QuietStep
<1>2. CASE Setup
  <2>1. TypeOK' /\ Phases'
    BY <1>2 DEF Setup, TypeOK, Phases, klmVars, walkVars, dataVars
  <2>2. Quiet
    BY <1>2 DEF Setup, Quiet, NoRead, ReadersOnlyLeave, HasReader, MonAlive,
                Reported, Phases, klmVars, walkVars, dataVars
  <2> QED
    BY <2>1, <2>2, QuietStep
<1>3. CASE StartAndMonitorProcesses
  <2>1. TypeOK' /\ Phases'
    BY <1>3 DEF StartAndMonitorProcesses, TypeOK, Phases, notifyVars, threadVars, klmVars,
                walkVars, dataVars
  <2>2. Quiet
    BY <1>3 DEF StartAndMonitorProcesses, Quiet, NoRead, ReadersOnlyLeave, Reported, Phases,
                notifyVars, threadVars, klmVars, walkVars, dataVars
  <2> QED
    BY <2>1, <2>2, QuietStep
<1>4. CASE JoinThread
  <2>1. TypeOK' /\ Phases'
    BY <1>4 DEF JoinThread, TypeOK, Phases, notifyVars, threadVars, klmVars, walkVars, dataVars
  <2>2. Quiet
    BY <1>4 DEF JoinThread, Quiet, NoRead, ReadersOnlyLeave, HasReader, MonAlive, Reported,
                notifyVars, threadVars, klmVars, walkVars, dataVars
  <2> QED
    BY <2>1, <2>2, QuietStep
<1>5. CASE SetupFails
  <2>1. TypeOK' /\ Phases'
    BY <1>5 DEF SetupFails, TypeOK, Phases, notifyVars, threadVars, klmVars, walkVars, dataVars
  <2>2. Quiet
    BY <1>5 DEF SetupFails, Quiet, NoRead, ReadersOnlyLeave, HasReader, MonAlive, Reported,
                notifyVars, threadVars, klmVars, walkVars, dataVars
  <2> QED
    BY <2>1, <2>2, QuietStep
<1>6. CASE RunCvdEnds
  <2>1. TypeOK' /\ Phases'
    BY <1>6 DEF RunCvdEnds, TypeOK, Phases, notifyVars, klmVars, walkVars, dataVars
  <2>2. Quiet
    BY <1>6 DEF RunCvdEnds, Quiet, NoRead, ReadersOnlyLeave, HasReader, MonAlive, Reported,
                notifyVars, klmVars, walkVars, dataVars
  <2> QED
    BY <2>1, <2>2, QuietStep
<1> QED
  BY <1>1, <1>2, <1>3, <1>4, <1>5, <1>6 DEF MainNext

LEMMA WaiterStep ==
  ASSUME IInv, ForegroundReads \/ ClientEof \/ WaiterGone
  PROVE  IInv'
<1> USE DEF IInv, procVars, threadVars, klmVars, walkVars, dataVars
<1>1. UNCHANGED <<run_cvd, mon, thread, state_, klm, walkVars, torn, log, pipe, fifo>>
  BY DEF ForegroundReads, ClientEof, WaiterGone
<1>2. TypeOK'
  BY <1>1 DEF ForegroundReads, ClientEof, WaiterGone, TypeOK, Code
<1>3. Phases'
  BY <1>1 DEF Phases
<1>4. Reported' \subseteq Reported
  BY DEF ForegroundReads, ClientEof, WaiterGone, Reported, Code
<1>5. Quiet
  BY <1>1, <1>4 DEF Quiet, NoRead, ReadersOnlyLeave, HasReader, MonAlive
<1> QED
  BY <1>2, <1>3, <1>5, QuietStep

LEMMA OtherStep ==
  ASSUME IInv, MonPrctl \/ ThreadInterrupted \/ LogWriteFails \/ \E e \in Event : GuestLogs(e)
  PROVE  IInv'
<1> USE DEF IInv, procVars, notifyVars, threadVars, klmVars, walkVars, dataVars
<1>1. CASE MonPrctl
  <2>1. TypeOK' /\ Phases'
    BY <1>1 DEF MonPrctl, TypeOK, Phases
  <2>2. Quiet
    BY <1>1 DEF MonPrctl, Quiet, NoRead, ReadersOnlyLeave, HasReader, MonAlive, Reported
  <2> QED
    BY <2>1, <2>2, QuietStep
<1>2. CASE ThreadInterrupted
  <2>1. TypeOK' /\ Phases'
    BY <1>2 DEF ThreadInterrupted, TypeOK, Phases
  <2>2. Quiet
    BY <1>2 DEF ThreadInterrupted, Quiet, NoRead, ReadersOnlyLeave, HasReader, MonAlive, Reported
  <2> QED
    BY <2>1, <2>2, QuietStep
<1>3. ASSUME NEW e \in Event, GuestLogs(e) PROVE IInv'
  <2>1. fifo' \in Seq(Event)
    BY <1>3, AppendSeq DEF GuestLogs, TypeOK
  <2>2. TypeOK' /\ Phases'
    BY <1>3, <2>1 DEF GuestLogs, TypeOK, Phases
  <2>3. Quiet
    BY <1>3 DEF GuestLogs, Quiet, NoRead, ReadersOnlyLeave, HasReader, MonAlive, Reported
  <2> QED
    BY <2>2, <2>3, QuietStep
<1>4. CASE LogWriteFails
  <2>1. fifo' \in Seq(Event)
    BY <1>4 DEF LogWriteFails, TypeOK
  <2>2. TypeOK' /\ Phases'
    BY <1>4, <2>1 DEF LogWriteFails, KlmUnchanged, TypeOK, Phases
  <2>3. Quiet
    BY <1>4 DEF LogWriteFails, KlmUnchanged, Quiet, NoRead, ReadersOnlyLeave, HasReader, MonAlive,
       Reported
  <2> QED
    BY <2>2, <2>3, QuietStep
<1> QED
  BY <1>1, <1>2, <1>3, <1>4

-----------------------------------------------------------------------------
(* Steps of the boot thread                                                *)

\* What reading the pipe of s changes, up to what the reader makes of it.
LEMMA ReadEffect ==
  ASSUME TypeOK, Truth, NEW s \in Sub, pipe[s] # <<>>,
         pipe' = [pipe EXCEPT ![s] = Tail(@)], UNCHANGED log
  PROVE  /\ pipe' \in [Sub -> Seq(Event \cup {"size"})]
         /\ \A t \in Sub : \A k \in 1 .. Len(pipe'[t]) :
              pipe'[t][k] = "BootCompleted" => Booted'
         /\ Head(pipe[s]) = pipe[s][1] /\ Head(pipe[s]) \in Event \cup {"size"}
         /\ Head(pipe[s]) = "BootCompleted" => Booted
         /\ Len(pipe[s]) \in Nat \ {0} /\ Len(pipe'[s]) = Len(pipe[s]) - 1
         /\ \A i \in 1 .. (Len(pipe[s]) - 1) : pipe'[s][i] = pipe[s][i + 1]
<1> DEFINE q == pipe[s]
<1>1. q \in Seq(Event \cup {"size"}) /\ q # <<>>
  BY DEF TypeOK
<1>2. /\ Tail(q) \in Seq(Event \cup {"size"}) /\ Len(q) \in Nat \ {0}
      /\ Len(Tail(q)) = Len(q) - 1 /\ Head(q) = q[1] /\ Head(q) \in Event \cup {"size"}
      /\ \A i \in 1 .. (Len(q) - 1) : Tail(q)[i] = q[i + 1]
  BY <1>1, TailSeq
<1>3. pipe'[s] = Tail(q) /\ \A t \in Sub \ {s} : pipe'[t] = pipe[t]
  BY DEF TypeOK
<1>4. pipe' \in [Sub -> Seq(Event \cup {"size"})]
  BY <1>2 DEF TypeOK
<1>5. Booted' <=> Booted
  BY DEF Booted, Logged
<1>6. \A k \in 1 .. Len(q) : q[k] = "BootCompleted" => Booted
  BY DEF Truth
<1>7. ASSUME NEW t \in Sub, NEW k \in 1 .. Len(pipe'[t]), pipe'[t][k] = "BootCompleted"
      PROVE  Booted
  <2>1. CASE t = s
    <3>1. k \in 1 .. Len(Tail(q)) /\ Tail(q)[k] = "BootCompleted"
      BY <1>3, <1>7, <2>1, Zenon
    <3>2. k + 1 \in 1 .. Len(q) /\ Tail(q)[k] = q[k + 1]
      BY <1>2, <3>1
    <3> QED
      BY <1>6, <3>1, <3>2
  <2>2. CASE t # s
    BY <1>3, <1>7, <2>2 DEF Truth
  <2> QED
    BY <2>1, <2>2
<1>8. Head(q) = "BootCompleted" => Booted
  BY <1>2, <1>6
<1> QED
  BY <1>2, <1>3, <1>4, <1>5, <1>7, <1>8

LEMMA WrittenType ==
  ASSUME TypeOK, WalkInv
  PROVE  Written \in Int /\ Written <= Len(log)
<1>1. got[Boot] \in Nat /\ got[Boot] <= handled /\ handled \in Nat /\ Len(log) \in Nat
  BY DEF TypeOK, WalkInv, Walk, Sub
<1> QED
  BY <1>1 DEF Written

LEMMA ReadsSizeStep ==
  ASSUME IInv, ThreadReadsSize
  PROVE  IInv'
<1> USE DEF IInv, procVars, notifyVars, klmVars, walkVars
<1>1. Boot \in Sub
  BY DEF Sub
<1>2. /\ pipe' \in [Sub -> Seq(Event \cup {"size"})]
      /\ \A t \in Sub : \A k \in 1 .. Len(pipe'[t]) :
           pipe'[t][k] = "BootCompleted" => Booted'
      /\ Len(pipe[Boot]) \in Nat \ {0} /\ Len(pipe'[Boot]) = Len(pipe[Boot]) - 1
      /\ \A i \in 1 .. (Len(pipe[Boot]) - 1) : pipe'[Boot][i] = pipe[Boot][i + 1]
  BY <1>1, ReadEffect, Zenon DEF ThreadReadsSize
<1>3. TypeOK'
  BY <1>2 DEF ThreadReadsSize, TypeOK
<1>4. Phases'
  BY DEF ThreadReadsSize, Phases
<1>5. WalkInv'
  BY WalkKept DEF ThreadReadsSize, ReadersOnlyLeave, HasReader, MonAlive
<1>6. Truth'
  BY <1>2 DEF ThreadReadsSize, Truth, Booted, Logged, SuccessMeansBooted, Reported
<1>7. Order'
  <2> SUFFICES ASSUME ~torn PROVE Order'
    BY DEF Order, ThreadReadsSize
  <2>1. PICK k \in 0 .. Len(log) : InStep(k)
    BY DEF Order, ThreadReadsSize
  <2>2. Written' = Written /\ HalfWritten' = HalfWritten /\ Written \in Int
    BY WrittenType DEF Written, HalfWritten, Walking, Current, ThreadReadsSize
  <2>3. HalfRead = 0 /\ HalfRead' = 1
    BY DEF HalfRead, ThreadReadsSize
  <2>4. log' = log
    BY DEF ThreadReadsSize
  <2>5. pipe[Boot] \in Seq(Event \cup {"size"}) /\ HalfWritten \in 0 .. 1
        /\ pipe[Boot] # <<>> /\ pipe'[Boot] = Tail(pipe[Boot])
    BY <1>1 DEF HalfWritten, ThreadReadsSize, TypeOK
  <2>6. InStep(k)'
    BY <2>1, <2>2, <2>3, <2>4, <2>5, InStepSize DEF InStep
  <2>7. state_ = {} /\ state_' = {} /\ Reported' = Reported
    BY DEF ThreadReadsSize, Phases, Reported
  <2> QED
    BY <2>1, <2>4, <2>6, <2>7 DEF Order, FirstFinal
<1> QED
  BY <1>3, <1>4, <1>5, <1>6, <1>7

LEMMA BootEvtStep ==
  ASSUME IInv, OnBootEvtReceived
  PROVE  IInv'
<1> USE DEF IInv, procVars, notifyVars, klmVars, walkVars
<1>0. PICK e : e = Head(pipe[Boot])
  OBVIOUS
<1>1. Boot \in Sub
  BY DEF Sub
<1>2. /\ pipe' \in [Sub -> Seq(Event \cup {"size"})]
      /\ \A t \in Sub : \A k \in 1 .. Len(pipe'[t]) :
           pipe'[t][k] = "BootCompleted" => Booted'
      /\ e = pipe[Boot][1] /\ e \in Event \cup {"size"} /\ (e = "BootCompleted" => Booted)
      /\ Len(pipe[Boot]) \in Nat \ {0} /\ Len(pipe'[Boot]) = Len(pipe[Boot]) - 1
      /\ \A i \in 1 .. (Len(pipe[Boot]) - 1) : pipe'[Boot][i] = pipe[Boot][i + 1]
  BY <1>0, <1>1, ReadEffect, Zenon DEF OnBootEvtReceived
<1>3. state_ = {} /\ thread = "body" /\ UNCHANGED <<run_cvd, mon, klm, walkVars, log, torn>>
  BY DEF OnBootEvtReceived, Phases
<1>4. /\ e = "BootCompleted" => state_' = {"kGuestBootCompleted"} /\ thread' = "reboot"
      /\ e \in {"BootFailed", "size"} => state_' = {"kGuestBootFailed"} /\ thread' = "reboot"
      /\ e = "Other" => state_' = {} /\ thread' = "poll"
  BY <1>0, <1>3, Zenon DEF OnBootEvtReceived
<1>5. e \in {"BootCompleted", "BootFailed", "size", "Other"}
  BY <1>2 DEF Event
<1>6. TypeOK'
  <2>1. state_' \subseteq {"kGuestBootCompleted", "kGuestBootFailed"} /\ thread' \in {"poll", "reboot"}
    BY <1>4, <1>5, Zenon
  <2>2. UNCHANGED <<procVars, notifyVars, klmVars, fifo, log>>
    BY Zenon DEF OnBootEvtReceived
  <2> QED
    BY <1>2, <2>1, <2>2 DEF TypeOK
<1>7. Phases'
  BY <1>3, <1>4, <1>5 DEF Phases
<1>8. WalkInv'
  <2>1. ReadersOnlyLeave
    BY <1>3 DEF ReadersOnlyLeave, HasReader, MonAlive
  <2> QED
    BY <1>3, <2>1, WalkKept
<1>9. Reported' = Reported
  BY DEF OnBootEvtReceived, Reported
<1>10. Truth'
  <2>1. "kGuestBootCompleted" \in state_' => Booted'
    BY <1>2, <1>3, <1>4, <1>5 DEF Booted, Logged
  <2> QED
    BY <1>2, <1>3, <1>9, <2>1 DEF Truth, Booted, Logged, SuccessMeansBooted
<1>11. Order'
  <2> SUFFICES ASSUME ~torn PROVE Order'
    BY <1>3 DEF Order
  <2>1. PICK k \in 0 .. Len(log) : InStep(k)
    BY <1>3 DEF Order
  <2>2. Written' = Written /\ HalfWritten' = HalfWritten /\ Written \in Int
    BY <1>3, WrittenType DEF Written, HalfWritten, Walking, Current
  <2>3. HalfRead = 1
    BY <1>3 DEF HalfRead
  <2>4. pipe[Boot] \in Seq(Event \cup {"size"}) /\ HalfWritten \in 0 .. 1
        /\ pipe[Boot] # <<>> /\ pipe'[Boot] = Tail(pipe[Boot])
    BY <1>1 DEF HalfWritten, OnBootEvtReceived, TypeOK
  <2>5. /\ k + 1 <= Written /\ e = log[k + 1]
        /\ e = "Other" => InStepAt(k + 1, pipe'[Boot], log, Written, 0, HalfWritten)
    <3>1. k \in Nat /\ InStepAt(k, pipe[Boot], log, Written, 1, HalfWritten)
      BY <2>1, <2>3 DEF InStep
    <3> QED
      BY <1>0, <2>2, <2>4, <3>1, InStepBody, Zenon
  <2>6. k + 1 \in DOMAIN log /\ e \in Event /\ \A m \in 1 .. ((k + 1) - 1) : log[m] = "Other"
    BY <2>1, <2>2, <2>5, WrittenType DEF InStep, InStepAt, TypeOK
  <2>7. CASE e = "Other"
    <3>1. HalfRead' = 0 /\ state_' = {}
      BY <1>4, <2>7 DEF HalfRead
    <3>2. InStep(k + 1)' /\ k + 1 \in 0 .. Len(log)
      BY <1>3, <2>2, <2>5, <2>6, <2>7, <3>1 DEF InStep, TypeOK
    <3> QED
      BY <1>3, <1>9, <3>1, <3>2 DEF Order, FirstFinal
  <2>8. CASE e # "Other"
    <3>1. FirstFinal(e)'
      BY <1>3, <2>5, <2>6 DEF FirstFinal
    <3>2. thread' = "reboot" /\ state_' # {}
          /\ e = IF "kGuestBootCompleted" \in state_' THEN "BootCompleted" ELSE "BootFailed"
      BY <1>4, <2>6, <2>8 DEF Event
    <3> QED
      BY <1>3, <1>9, <3>1, <3>2 DEF Order, FirstFinal
  <2> QED
    BY <2>7, <2>8
<1> QED
  BY <1>6, <1>7, <1>8, <1>10, <1>11

LEMMA NotifyStep ==
  ASSUME IInv, NotifyReboot \/ NotifyForeground
  PROVE  IInv'
<1> USE DEF IInv, klmVars, walkVars, dataVars
<1>1. /\ UNCHANGED <<mon, state_, klm, walkVars, torn, fifo, log, pipe>>
      /\ thread \in {"reboot", "fg"} /\ thread' \in {"fg", "done", "dead"} /\ state_ # {}
      /\ run_cvd' = run_cvd \/ (run_cvd' = "dead" /\ thread' = "dead")
  <2>1. CASE NotifyReboot
    BY <2>1 DEF NotifyReboot, BrokenPipe, Phases
  <2>2. CASE NotifyForeground
    BY <2>2 DEF NotifyForeground, BrokenPipe, Phases
  <2> QED
    BY <2>1, <2>2
<1>2. ExitCode \in Code
  BY DEF ExitCode, Code
<1>3. TypeOK'
  <2>1. /\ client' \in {client, ExitCode} /\ fgPipe' \in {fgPipe, ExitCode} /\ fg' = fg
    BY DEF NotifyReboot, NotifyForeground
  <2>2. reboot_notification_' \in BOOLEAN /\ fg_launcher_pipe_' \in BOOLEAN
    BY Zenon DEF NotifyReboot, NotifyForeground, TypeOK
  <2>3. client' \in {"none", "waiting", "killed", "eof"} \cup Code /\ fgPipe' \in {"none"} \cup Code
    BY <1>2, <2>1 DEF TypeOK
  <2>4. run_cvd' \in {"daemonize", "setup", "ready", "serve", "join", "dead"}
    BY <1>1 DEF TypeOK
  <2> QED
    BY <1>1, <2>1, <2>2, <2>3, <2>4 DEF TypeOK
<1>4. Phases'
  BY <1>1 DEF Phases
<1>5. ReadersOnlyLeave /\ NoRead
  BY <1>1 DEF ReadersOnlyLeave, NoRead, HasReader, MonAlive
<1>6. WalkInv'
  BY <1>1, <1>5, WalkKept
<1>7. Reported' \subseteq Reported \cup {ExitCode}
  BY DEF NotifyReboot, NotifyForeground, Reported
<1>8. Truth'
  <2>1. "kSuccess" \in Reported' => Booted
    BY <1>7 DEF Truth, ExitCode, SuccessMeansBooted, Booted, Logged
  <2> QED
    BY <1>1, <2>1 DEF Truth, Booted, Logged, SuccessMeansBooted
<1>9. Order'
  <2>1. ~torn => FirstFinal(IF ExitCode = "kSuccess" THEN "BootCompleted" ELSE "BootFailed")
    BY <1>1 DEF Order, ExitCode
  <2>2. \A e : FirstFinal(e)' <=> FirstFinal(e)
    BY <1>1 DEF FirstFinal
  <2> QED
    BY <1>1, <1>7, <2>1, <2>2 DEF Order
<1> QED
  BY <1>3, <1>4, <1>6, <1>8, <1>9

-----------------------------------------------------------------------------
(* Steps of kernel_log_monitor and of those who end it                     *)

\* A reader of the other pipes does not disturb the boot thread.
LEMMA OtherReadsStep ==
  ASSUME IInv, NEW s \in Others, OtherReads(s)
  PROVE  IInv'
<1> USE DEF IInv, procVars, notifyVars, threadVars, klmVars, walkVars
<1>1. s \in Sub /\ s # Boot /\ Boot \in Sub
  BY SubAssumption DEF Sub
<1>2. /\ pipe' \in [Sub -> Seq(Event \cup {"size"})]
      /\ \A t \in Sub : \A k \in 1 .. Len(pipe'[t]) :
           pipe'[t][k] = "BootCompleted" => Booted'
  BY <1>1, ReadEffect, Zenon DEF OtherReads
<1>3. TypeOK' /\ Phases'
  BY <1>2 DEF OtherReads, TypeOK, Phases
<1>4. WalkInv'
  BY WalkKept DEF OtherReads, ReadersOnlyLeave, HasReader, MonAlive
<1>5. Truth'
  BY <1>2 DEF OtherReads, Truth, Booted, Logged, SuccessMeansBooted, Reported
<1>6. Order'
  <2>1. pipe'[Boot] = pipe[Boot]
    BY <1>1 DEF OtherReads, TypeOK
  <2>2. \A k : InStep(k)' <=> InStep(k)
    BY <2>1, ZenonT(30) DEF OtherReads, InStep, InStepAt, HalfRead, HalfWritten, Written, Walking, Current
  <2> QED
    BY <2>2 DEF OtherReads, Order, FirstFinal, Reported
<1> QED
  BY <1>3, <1>4, <1>5, <1>6

\* klm ends, with the monitor or without.
LEMMA KlmEndsStep ==
  ASSUME IInv, MonSighup \/ MonKilled \/ KlmCrashes
  PROVE  IInv'
<1> USE DEF IInv, procVars, notifyVars, threadVars, dataVars
<1>1. /\ UNCHANGED <<run_cvd, notifyVars, threadVars, walkVars, dataVars>>
      /\ mon' = mon \/ (MonAlive /\ mon' = "dead")
      /\ (klm' = klm /\ torn' = torn) \/ (klm' = "dead" /\ torn' = (torn \/ Walking) /\ klm # "none")
  <2>1. KlmEnds => klm' = "dead" /\ torn' = (torn \/ Walking)
    BY DEF KlmEnds, Walking
  <2>2. CASE KlmCrashes
    BY <2>1, <2>2 DEF KlmCrashes
  <2>3. CASE MonSighup \/ MonKilled
    BY <2>1, <2>3 DEF MonSighup, MonKilled, MonEnds, MonAlive
  <2> QED
    BY <2>2, <2>3
<1>2. TypeOK'
  <2>1. torn' \in BOOLEAN
    BY <1>1, Zenon DEF TypeOK
  <2>2. /\ mon' \in {"none", "forked", "up", "orphan", "dead"}
        /\ klm' \in {"none", "start", "select", "len", "body", "dead"}
    BY <1>1 DEF TypeOK
  <2>3. klm' \in {"len", "body"} => klm' = klm
    BY <1>1
  <2> QED
    BY <1>1, <2>1, <2>2, <2>3 DEF TypeOK, walkVars
<1>3. Phases'
  BY <1>1 DEF Phases, MonAlive
<1>4. \A s \in Sub : HasReader(s)' => HasReader(s)
  BY <1>1 DEF HasReader, MonAlive
<1>5. Reported' = Reported /\ Truth'
  BY <1>1, TruthKept DEF Reported
<1>6. CASE klm' = klm /\ torn' = torn
  <2>1. Quiet
    BY <1>1, <1>4, <1>5, <1>6 DEF Quiet, NoRead, ReadersOnlyLeave
  <2> QED
    BY <1>2, <1>3, <2>1, QuietStep
<1>7. CASE klm' = "dead" /\ torn' = (torn \/ Walking)
  <2>1. WalkInv'
    BY <1>1, <1>7, Zenon DEF WalkInv, Walk, Vector, Subscribed, Walking, walkVars
  <2>2. Order'
    <3> SUFFICES ASSUME ~torn, ~Walking PROVE Order'
      BY <1>7, Zenon DEF Order
    <3>1. Written' = Written /\ HalfWritten' = HalfWritten /\ HalfRead' = HalfRead
      BY <1>1, <1>7 DEF Written, HalfWritten, HalfRead, Walking
    <3>2. \A k : InStep(k)' <=> InStep(k)
      BY <1>1, <3>1 DEF InStep, InStepAt
    <3> QED
      BY <1>1, <1>5, <3>2 DEF Order, FirstFinal
  <2> QED
    BY <1>2, <1>3, <1>5, <2>1, <2>2
<1> QED
  BY <1>1, <1>6, <1>7

LEMMA StartStep ==
  ASSUME IInv, StartKlm \/ KlmReady
  PROVE  IInv'
<1> USE DEF IInv, KlmUnchanged, procVars, notifyVars, threadVars, dataVars
<1>1. /\ UNCHANGED <<run_cvd, mon, notifyVars, threadVars, dataVars, torn>>
      /\ klm' \in {"start", "select"} /\ mon' # "none" /\ mon' # "forked"
      /\ ~Walking /\ ~Walking' /\ klm # "body" /\ klm' # "body"
  BY DEF StartKlm, KlmReady, Walking, Phases, TypeOK
<1>2. \A s : HasReader(s)' <=> HasReader(s)
  BY <1>1 DEF HasReader, MonAlive
<1>3. Reported' = Reported /\ Truth'
  BY <1>1, TruthKept DEF Reported
<1>4. Phases'
  BY <1>1 DEF Phases, TypeOK
<1>5. Order'
  <2>1. Written' = Written /\ HalfWritten' = HalfWritten /\ HalfRead' = HalfRead
    BY <1>1 DEF Written, HalfWritten, HalfRead
  <2>2. \A k : InStep(k)' <=> InStep(k)
    BY <1>1, <2>1 DEF InStep, InStepAt
  <2> QED
    BY <1>1, <1>3, <2>2 DEF Order, FirstFinal
<1>6. CASE StartKlm
  <2>1. TypeOK'
    BY <1>1, <1>6, SubscriberFdsAssumption, ZenonT(30) DEF StartKlm, TypeOK, Walking
  <2>2. Vector'
    BY <1>6, SubscriberFdsAssumption DEF StartKlm, Vector, Subscribed
  <2>3. Walk'
    <3>1. \A i \in 1 .. Len(subscribers_') : subscribers_'[i] \in Sub
      BY <2>1 DEF TypeOK
    <3> QED
      BY <1>1, <1>6, <3>1 DEF StartKlm, Walk
  <2> QED
    BY <1>3, <1>4, <1>5, <2>1, <2>2, <2>3 DEF WalkInv
<1>7. CASE KlmReady
  <2>1. TypeOK'
    BY <1>1, <1>7 DEF KlmReady, TypeOK, Walking, walkVars
  <2>2. Vector'
    BY <1>2, <1>7 DEF KlmReady, WalkInv, Vector, Subscribed, walkVars
  <2>3. Walk'
    BY <1>1, <1>7, Zenon DEF KlmReady, WalkInv, Walk, walkVars
  <2> QED
    BY <1>3, <1>4, <1>5, <2>1, <2>2, <2>3 DEF WalkInv
<1> QED
  BY <1>6, <1>7

\* What a step of klm leaves alone.
LEMMA KlmKept ==
  ASSUME IInv, KlmUnchanged, klm \in {"select", "len", "body"}, klm' \in {"select", "len", "body"}
  PROVE  /\ Phases'
         /\ \A s : HasReader(s)' <=> HasReader(s)
         /\ Reported' = Reported /\ thread' = thread /\ state_' = state_ /\ torn' = torn
         /\ HalfRead' = HalfRead /\ HalfRead \in 0 .. 1
         /\ thread \in {"none", "poll", "body"} => Subscribed(Boot) /\ HasReader(Boot)
<1> USE DEF IInv, KlmUnchanged, procVars, notifyVars, threadVars
<1>1. Phases'
  BY DEF Phases
<1>2. \A s : HasReader(s)' <=> HasReader(s)
  BY DEF HasReader, MonAlive
<1>3. Reported' = Reported /\ HalfRead' = HalfRead /\ HalfRead \in 0 .. 1
  BY DEF Reported, HalfRead
<1>4. ASSUME thread \in {"none", "poll", "body"}
      PROVE  Subscribed(Boot) /\ HasReader(Boot)
  <2>1. HasReader(Boot)
    BY <1>4 DEF Phases, HasReader
  <2> QED
    BY <2>1 DEF WalkInv, Vector, Subscribed, Sub
<1> QED
  BY <1>1, <1>2, <1>3, <1>4

LEMMA IncomingStep ==
  ASSUME IInv, HandleIncomingMessage
  PROVE  IInv'
<1> USE DEF IInv
<1>1. PICK e : e = Head(fifo)
  OBVIOUS
<1>2. /\ fifo' \in Seq(Event) /\ e \in Event
      /\ log' = Append(log, e) /\ log' \in Seq(Event)
      /\ Len(log) \in Nat /\ Len(log') = Len(log) + 1 /\ log' # <<>>
      /\ \A i \in 1 .. Len(log) : log'[i] = log[i]
  <2>1. fifo' \in Seq(Event) /\ e \in Event
    BY <1>1, TailSeq DEF HandleIncomingMessage, TypeOK
  <2>2. log' = Append(log, e) /\ log \in Seq(Event)
    BY <1>1 DEF HandleIncomingMessage, TypeOK
  <2> QED
    BY <2>1, <2>2, AppendSeq
<1>3. /\ Phases'
      /\ \A s : HasReader(s)' <=> HasReader(s)
      /\ Reported' = Reported /\ thread' = thread /\ state_' = state_ /\ torn' = torn
      /\ HalfRead' = HalfRead /\ HalfRead \in 0 .. 1
      /\ thread \in {"none", "poll", "body"} => Subscribed(Boot)
  BY KlmKept DEF HandleIncomingMessage
<1>4. TypeOK'
  BY <1>2 DEF HandleIncomingMessage, TypeOK, KlmUnchanged, procVars, notifyVars, threadVars
<1>5. WalkInv'
  <2>1. Vector'
    BY <1>3 DEF HandleIncomingMessage, WalkInv, Vector, Subscribed
  <2>2. \A i \in 1 .. Len(subscribers_) : got[subscribers_[i]] = (handled + 1) - 1
    BY DEF HandleIncomingMessage, WalkInv, Walk, TypeOK
  <2>3. \A s \in Sub : got[s] <= handled + 1
    BY DEF WalkInv, Walk, TypeOK
  <2>4. Walk'
    BY <1>2, <2>2, <2>3 DEF HandleIncomingMessage, Walk, Walking, TypeOK
  <2> QED
    BY <2>1, <2>4 DEF WalkInv
<1>6. Booted => Booted'
  BY <1>2 DEF Booted, Logged
<1>7. Truth'
  BY <1>3, <1>6, Zenon DEF HandleIncomingMessage, Truth, SuccessMeansBooted, Booted, Logged
<1>8. Order'
  <2> SUFFICES ASSUME ~torn PROVE Order'
    BY <1>3 DEF Order
  <2>1. \A c : FirstFinal(c) => FirstFinal(c)'
    BY <1>2 DEF FirstFinal
  <2>2. ASSUME thread \in {"none", "poll", "body"} PROVE \E k \in 0 .. Len(log') : InStep(k)'
    <3>1. PICK k \in 0 .. Len(log) : InStep(k)
      BY <2>2 DEF Order
    <3>2. got[Boot] = handled /\ got[Boot] \in Nat
      BY <1>3, <2>2, Zenon DEF HandleIncomingMessage, WalkInv, Walk, Subscribed, TypeOK, Sub
    <3>3. Written = Len(log) /\ Written' = Written
      BY <1>2, <3>2 DEF HandleIncomingMessage, Written, Walking, TypeOK
    <3>4. HalfWritten' = HalfWritten /\ HalfWritten \in 0 .. 1
      BY DEF HandleIncomingMessage, HalfWritten
    <3>5. pipe'[Boot] = pipe[Boot] /\ Len(pipe[Boot]) \in Nat
      BY DEF HandleIncomingMessage, TypeOK, Sub
    <3>6. k \in Nat /\ InStepAt(k, pipe[Boot], log, Written, HalfRead, HalfWritten)
      BY <3>1 DEF InStep
    <3>7. InStepAt(k, pipe[Boot], log', Written, HalfRead, HalfWritten)
      BY <1>2, <1>3, <3>3, <3>4, <3>5, <3>6, InStepLog DEF TypeOK
    <3> QED
      BY <1>2, <1>3, <3>1, <3>3, <3>4, <3>5, <3>7 DEF InStep
  <2> QED
    BY <1>3, <2>1, <2>2 DEF Order
<1> QED
  BY <1>3, <1>4, <1>5, <1>7, <1>8

\* What writing e to the pipe of s changes.
LEMMA WriteEffect ==
  ASSUME TypeOK, Truth, NEW s \in Sub, NEW e \in Event \cup {"size"},
         e = "BootCompleted" => Booted,
         pipe' = [pipe EXCEPT ![s] = Append(@, e)], UNCHANGED log
  PROVE  /\ pipe' \in [Sub -> Seq(Event \cup {"size"})]
         /\ \A t \in Sub : \A k \in 1 .. Len(pipe'[t]) :
              pipe'[t][k] = "BootCompleted" => Booted'
         /\ \A t \in Sub \ {s} : pipe'[t] = pipe[t]
         /\ pipe'[s] = Append(pipe[s], e)
<1> DEFINE q == pipe[s]
<1>1. q \in Seq(Event \cup {"size"})
  BY DEF TypeOK
<1>2. /\ Append(q, e) \in Seq(Event \cup {"size"}) /\ Len(q) \in Nat
      /\ Len(Append(q, e)) = Len(q) + 1 /\ Append(q, e)[Len(q) + 1] = e
      /\ \A i \in 1 .. Len(q) : Append(q, e)[i] = q[i]
  BY <1>1, AppendSeq
<1>3. pipe'[s] = Append(q, e) /\ \A t \in Sub \ {s} : pipe'[t] = pipe[t]
  BY DEF TypeOK
<1>4. pipe' \in [Sub -> Seq(Event \cup {"size"})]
  BY <1>2 DEF TypeOK
<1>5. Booted' <=> Booted
  BY DEF Booted, Logged
<1>6. ASSUME NEW t \in Sub, NEW k \in 1 .. Len(pipe'[t]), pipe'[t][k] = "BootCompleted"
      PROVE  Booted
  <2>1. CASE t = s
    <3>1. k \in 1 .. Len(Append(q, e)) /\ Append(q, e)[k] = "BootCompleted"
      BY <1>3, <1>6, <2>1
    <3>2. k \in 1 .. Len(q) \/ k = Len(q) + 1
      BY <1>2, <3>1
    <3>3. ASSUME k \in 1 .. Len(q) PROVE Booted
      BY <1>2, <3>1, <3>3 DEF Truth
    <3> QED
      BY <1>2, <3>1, <3>2, <3>3
  <2>2. CASE t # s
    BY <1>3, <1>6, <2>2 DEF Truth
  <2> QED
    BY <2>1, <2>2
<1> QED
  BY <1>3, <1>4, <1>5, <1>6

\* The subscriber whose turn it is.
LEMMA CurrentType ==
  ASSUME TypeOK, WalkInv, Walking, idx <= active_subscription_count
  PROVE  /\ Current \in Sub /\ idx \in 1 .. Len(subscribers_)
         /\ idx \in 1 .. active_subscription_count
         /\ got[Current] = handled - 1
         /\ log # <<>> /\ Len(log) \in 1 .. Len(log)
<1>1. /\ idx \in 1 .. active_subscription_count /\ idx \in 1 .. Len(subscribers_)
      /\ idx \in idx .. active_subscription_count
  BY DEF TypeOK, WalkInv, Walk, Walking
<1>2. Current \in Sub /\ got[Current] = handled - 1
  <2>1. subscribers_ \in Seq(Sub)
    BY Zenon DEF TypeOK
  <2>2. Current \in Sub
    BY <1>1, <2>1 DEF Current
  <2>3. got[subscribers_[idx]] = handled - 1
    BY <1>1, Zenon DEF WalkInv, Walk
  <2> QED
    BY <2>2, <2>3, Zenon DEF Current
<1>3. log # <<>> /\ Len(log) \in 1 .. Len(log)
  BY DEF TypeOK, WalkInv, Walk, Walking
<1> QED
  BY <1>1, <1>2, <1>3

LEMMA WriteSizeStep ==
  ASSUME IInv, WriteSize
  PROVE  IInv'
<1> USE DEF IInv, walkVars
<1>1. Walking /\ idx <= active_subscription_count
  BY DEF WriteSize, CanWrite, Walking
<1>2. Current \in Sub /\ Current' = Current /\ Boot \in Sub
  BY <1>1, CurrentType, Zenon DEF WriteSize, Current, Sub
<1>3. /\ Phases'
      /\ \A s : HasReader(s)' <=> HasReader(s)
      /\ Reported' = Reported /\ thread' = thread /\ state_' = state_ /\ torn' = torn
      /\ HalfRead' = HalfRead /\ HalfRead \in 0 .. 1
  BY KlmKept DEF WriteSize
<1>4. /\ pipe' \in [Sub -> Seq(Event \cup {"size"})]
      /\ \A t \in Sub : \A k \in 1 .. Len(pipe'[t]) :
           pipe'[t][k] = "BootCompleted" => Booted'
      /\ \A t \in Sub \ {Current} : pipe'[t] = pipe[t]
      /\ pipe'[Current] = Append(pipe[Current], "size")
  <2>1. UNCHANGED log /\ pipe' = [pipe EXCEPT ![Current] = Append(@, "size")]
    BY DEF WriteSize
  <2>2. PICK e \in Event \cup {"size"} : e = "size"
    OBVIOUS
  <2>3. e # "BootCompleted"
    BY <2>2
  <2> QED
    BY <1>2, <2>1, <2>2, <2>3, WriteEffect, Zenon
<1>5. TypeOK'
  BY <1>4 DEF WriteSize, TypeOK, KlmUnchanged, procVars, notifyVars, threadVars
<1>6. WalkInv'
  <2>1. Vector'
    BY <1>3 DEF WriteSize, WalkInv, Vector, Subscribed
  <2>2. \A i \in 1 .. Len(subscribers_) : HasReader(subscribers_[i])' <=> HasReader(subscribers_[i])
    BY <1>3, Zenon DEF WriteSize
  <2>3. Walk'
    BY <1>1, <2>2 DEF WriteSize, WalkInv, Walk, Walking, TypeOK
  <2> QED
    BY <2>1, <2>3 DEF WalkInv
<1>7. Truth'
  BY <1>3, <1>4 DEF WriteSize, Truth, SuccessMeansBooted, Booted, Logged
<1>8. Order'
  <2> SUFFICES ASSUME ~torn PROVE Order'
    BY <1>3 DEF Order
  <2>1. log' = log /\ \A c : FirstFinal(c)' <=> FirstFinal(c)
    BY DEF WriteSize, FirstFinal
  <2>2. ASSUME NEW k \in 0 .. Len(log), InStep(k) PROVE InStep(k)'
    <3>1. Written' = Written /\ Written \in Int /\ HalfWritten = 0
      BY WrittenType DEF WriteSize, Written, Walking, HalfWritten
    <3>2. CASE Current = Boot
      <4>1. HalfWritten' = 1
        BY <1>2, <3>2 DEF WriteSize, HalfWritten
      <4>2. k \in Nat /\ InStepAt(k, pipe[Boot], log, Written, HalfRead, 0)
        BY <2>2, <3>1 DEF InStep
      <4>3. pipe[Boot] \in Seq(Event \cup {"size"})
        BY <1>2 DEF TypeOK
      <4>4. InStepAt(k, Append(pipe[Boot], "size"), log, Written, HalfRead, 1)
        BY <1>3, <3>1, <4>2, <4>3, InStepWriteSize
      <4> QED
        BY <1>3, <1>4, <2>1, <3>1, <3>2, <4>1, <4>4, Zenon DEF InStep
    <3>3. CASE Current # Boot
      <4>1. HalfWritten' = 0 /\ pipe'[Boot] = pipe[Boot]
        BY <1>2, <1>4, <3>3 DEF HalfWritten
      <4> QED
        BY <1>3, <2>1, <2>2, <3>1, <4>1, Zenon DEF InStep
    <3> QED
      BY <3>2, <3>3
  <2> QED
    BY <1>3, <2>1, <2>2 DEF Order
<1> QED
  BY <1>3, <1>5, <1>6, <1>7, <1>8

LEMMA WriteBodyStep ==
  ASSUME IInv, WriteBody
  PROVE  IInv'
<1> USE DEF IInv
<1>1. Walking /\ idx <= active_subscription_count
  BY DEF WriteBody, CanWrite, Walking
<1>2. PICK c \in Sub : c = Current
  BY <1>1, CurrentType
<1>3. PICK e : e = log[Len(log)]
  OBVIOUS
<1>4. /\ idx \in 1 .. Len(subscribers_) /\ idx \in 1 .. active_subscription_count
      /\ got[c] = handled - 1 /\ handled \in Nat /\ got[c] \in Nat
      /\ log # <<>> /\ e = log[Len(log)] /\ Len(log) \in 1 .. Len(log)
  BY <1>1, <1>2, <1>3, CurrentType, Zenon DEF TypeOK
<1>5. /\ pipe' = [pipe EXCEPT ![c] = Append(@, e)]
      /\ got' = [got EXCEPT ![c] = @ + 1]
      /\ idx' = idx + 1 /\ klm = "body" /\ klm' = "len" /\ KlmUnchanged
      /\ UNCHANGED <<subscribers_, active_subscription_count, handled, fifo, log>>
  BY <1>2, <1>3 DEF WriteBody
<1>6. /\ Phases'
      /\ \A s : HasReader(s)' <=> HasReader(s)
      /\ Reported' = Reported /\ thread' = thread /\ state_' = state_ /\ torn' = torn
      /\ HalfRead' = HalfRead /\ HalfRead \in 0 .. 1
  BY <1>5, KlmKept
<1>7. e \in Event /\ (e = "BootCompleted" => Booted)
  BY <1>4 DEF TypeOK, Booted, Logged
<1>8. /\ pipe' \in [Sub -> Seq(Event \cup {"size"})]
      /\ \A t \in Sub : \A k \in 1 .. Len(pipe'[t]) :
           pipe'[t][k] = "BootCompleted" => Booted'
      /\ \A t \in Sub \ {c} : pipe'[t] = pipe[t]
      /\ pipe'[c] = Append(pipe[c], e)
  BY <1>5, <1>7, WriteEffect, Zenon
<1>9. got' \in [Sub -> Nat] /\ got'[c] = handled /\ \A t \in Sub \ {c} : got'[t] = got[t]
  BY <1>4, <1>5 DEF TypeOK
<1>10. TypeOK'
  <2>1. /\ idx' \in Nat /\ idx' <= active_subscription_count + 1
        /\ active_subscription_count <= Len(subscribers_)
    BY <1>1, <1>4, <1>5 DEF TypeOK, Walking
  <2> QED
    BY <1>5, <1>8, <1>9, <2>1 DEF TypeOK, KlmUnchanged, procVars, notifyVars, threadVars
<1>11. WalkInv'
  <2>1. Vector'
    BY <1>5, <1>6, Zenon DEF WalkInv, Vector, Subscribed
  <2>2. \A s \in Sub : got'[s] <= handled
    BY <1>4, <1>9 DEF WalkInv, Walk
  <2>3. \A i \in 1 .. Len(subscribers_) : i # idx => subscribers_[i] \in Sub \ {c}
    <3>1. \A i \in 1 .. Len(subscribers_) : subscribers_[i] = subscribers_[idx] => i = idx
      BY <1>4, <1>5, Zenon DEF WalkInv, Vector, Subscribed
    <3> QED
      BY <1>2, <3>1 DEF Current, TypeOK
  <2>4. ASSUME NEW i \in 1 .. ((idx + 1) - 1) PROVE got'[subscribers_[i]] = handled
    <3>1. CASE i = idx
      BY <1>2, <1>9, <3>1 DEF Current
    <3>2. CASE i # idx
      <4>1. i \in 1 .. (idx - 1) /\ i \in 1 .. Len(subscribers_)
        BY <1>4, <3>2
      <4> QED
        BY <1>1, <1>9, <2>3, <3>2, <4>1, Zenon DEF WalkInv, Walk
    <3> QED
      BY <3>1, <3>2
  <2>5. ASSUME NEW i \in (idx + 1) .. active_subscription_count
        PROVE  got'[subscribers_[i]] = handled - 1
    <3>1. i \in idx .. active_subscription_count /\ i \in 1 .. Len(subscribers_) /\ i # idx
      BY <1>1, <1>4 DEF TypeOK, Walking
    <3> QED
      BY <1>1, <1>9, <2>3, <3>1, Zenon DEF WalkInv, Walk
  <2>6. \A i \in (active_subscription_count + 1) .. Len(subscribers_) :
          ~HasReader(subscribers_[i])'
    BY <1>1, <1>5, <1>6, Zenon DEF WalkInv, Walk
  <2>7. Walk'
    BY <1>1, <1>4, <1>5, <2>2, <2>4, <2>5, <2>6 DEF WalkInv, Walk, Walking
  <2> QED
    BY <2>1, <2>7 DEF WalkInv
<1>12. Truth'
  BY <1>5, <1>6, <1>8, Zenon DEF Truth, SuccessMeansBooted, Booted, Logged
<1>13. Order'
  <2> SUFFICES ASSUME ~torn PROVE Order'
    BY <1>6, Zenon DEF Order
  <2>1. log' = log /\ \A d : FirstFinal(d)' <=> FirstFinal(d)
    BY <1>5 DEF FirstFinal
  <2>2. ASSUME NEW k \in 0 .. Len(log), InStep(k) PROVE InStep(k)'
    <3>1. HalfWritten' = 0 /\ Written \in Int /\ Boot \in Sub
      BY <1>5, WrittenType DEF HalfWritten, Sub
    <3>2. CASE c = Boot
      <4>1. HalfWritten = 1
        BY <1>2, <1>5, <3>2, Zenon DEF HalfWritten
      <4>2. Written = Len(log) - 1 /\ Written' = Written + 1 /\ Written + 1 = Len(log)
        BY <1>1, <1>4, <1>5, <1>9, <3>2 DEF Written, Walking, TypeOK
      <4>3. k \in Nat /\ InStepAt(k, pipe[Boot], log, Written, HalfRead, 1)
        BY <2>2, <4>1 DEF InStep
      <4>4. pipe[Boot] \in Seq(Event \cup {"size"}) /\ e \in Event \cup {"size"}
        BY <1>7, <3>1, Zenon DEF TypeOK
      <4>5. InStepAt(k, Append(pipe[Boot], e), log, Written + 1, HalfRead, 0)
        BY <1>4, <1>6, <3>1, <4>2, <4>3, <4>4, InStepWriteBody, Zenon
      <4> QED
        BY <1>6, <1>8, <2>1, <3>1, <3>2, <4>2, <4>5, Zenon DEF InStep
    <3>3. CASE c # Boot
      <4>1. HalfWritten = 0 /\ pipe'[Boot] = pipe[Boot] /\ got'[Boot] = got[Boot]
        BY <1>2, <1>8, <1>9, <3>1, <3>3, Zenon DEF HalfWritten
      <4>2. Written' = Written
        BY <1>1, <1>5, <4>1 DEF Written, Walking
      <4> QED
        BY <1>6, <2>1, <2>2, <3>1, <4>1, <4>2, Zenon DEF InStep
    <3> QED
      BY <3>2, <3>3
  <2> QED
    BY <1>6, <2>1, <2>2, Zenon DEF Order
<1> QED
  BY <1>6, <1>10, <1>11, <1>12, <1>13

LEMMA CancelStep ==
  ASSUME IInv, CancelSubscription
  PROVE  IInv'
<1> USE DEF IInv
<1> DEFINE n == active_subscription_count
<1>1. /\ Walking /\ idx <= n /\ ~HasReader(Current)
      /\ n' = n - 1 /\ klm' = "len" /\ KlmUnchanged
      /\ subscribers_' = [subscribers_ EXCEPT ![idx] = subscribers_[n],
                                              ![n] = subscribers_[idx]]
      /\ UNCHANGED <<idx, handled, got, fifo, log, pipe>>
  BY DEF CancelSubscription, Walking, Current, dataVars
<1>2. /\ idx \in 1 .. Len(subscribers_) /\ n \in 1 .. Len(subscribers_) /\ n \in Nat /\ idx \in Nat
      /\ subscribers_ \in Seq(Sub) /\ Len(subscribers_) \in Nat
  <2>1. idx \in 1 .. Len(subscribers_) /\ idx \in 1 .. n
    BY <1>1, CurrentType
  <2>2. n \in Nat /\ n <= Len(subscribers_) /\ subscribers_ \in Seq(Sub)
    BY <1>1, Zenon DEF TypeOK, Walking
  <2> QED
    BY <2>1, <2>2
<1>3. /\ subscribers_' \in Seq(Sub) /\ Len(subscribers_') = Len(subscribers_)
      /\ subscribers_'[idx] = subscribers_[n] /\ subscribers_'[n] = Current
      /\ \A i \in (1 .. Len(subscribers_)) \ {idx, n} : subscribers_'[i] = subscribers_[i]
      /\ \A e : Subscribed(e)' <=> Subscribed(e)
      /\ \A i, j \in 1 .. Len(subscribers_') : subscribers_'[i] = subscribers_'[j] => i = j
  <2>1. Current = subscribers_[idx]
    BY DEF Current
  <2>2. subscribers_' = Swap(subscribers_, idx, n)
    BY <1>1 DEF Swap
  <2>3. subscribers_' \in Seq(Sub) /\ Len(subscribers_') = Len(subscribers_)
    BY <1>1, <1>2
  <2>4. subscribers_'[idx] = subscribers_[n] /\ subscribers_'[n] = Current
    BY <1>1, <1>2, <2>1
  <2>5. \A i \in (1 .. Len(subscribers_)) \ {idx, n} : subscribers_'[i] = subscribers_[i]
    BY <1>1, <1>2
  <2>6. \A e : Subscribed(e)' <=> Subscribed(e)
    <3>1. ASSUME NEW i \in 1 .. Len(subscribers_)
          PROVE  \E j \in 1 .. Len(subscribers_') : subscribers_'[j] = subscribers_[i]
      BY <1>2, <2>1, <2>3, <2>4, <2>5, Zenon
    <3>2. ASSUME NEW i \in 1 .. Len(subscribers_')
          PROVE  \E j \in 1 .. Len(subscribers_) : subscribers_[j] = subscribers_'[i]
      BY <1>2, <2>1, <2>3, <2>4, <2>5, Zenon
    <3> QED
      BY <3>1, <3>2, Zenon DEF Subscribed
  <2>7. \A i, j \in 1 .. Len(subscribers_') : subscribers_'[i] = subscribers_'[j] => i = j
    <3>1. \A i, j \in 1 .. Len(subscribers_) : subscribers_[i] = subscribers_[j] => i = j
      BY <1>1 DEF WalkInv, Vector, Subscribed, Walking
    <3> QED
      BY <1>2, <2>2, <2>3, <3>1, SwapInjective
  <2> QED
    BY <2>3, <2>4, <2>5, <2>6, <2>7, Zenon
<1>4. /\ Phases'
      /\ \A s : HasReader(s)' <=> HasReader(s)
      /\ Reported' = Reported /\ thread' = thread /\ state_' = state_ /\ torn' = torn
      /\ HalfRead' = HalfRead
      /\ thread \in {"none", "poll", "body"} => HasReader(Boot)
  BY <1>1, KlmKept, Zenon DEF Walking
<1>5. TypeOK'
  <2>1. n' \in Nat /\ idx <= n' + 1 /\ n' <= Len(subscribers_')
    BY <1>1, <1>2, <1>3
  <2>2. subscribers_' \in Seq(Sub)
    BY <1>3
  <2>3. /\ UNCHANGED <<procVars, notifyVars, threadVars, torn, idx, handled, got, dataVars>>
        /\ klm' = "len"
    BY DEF CancelSubscription, KlmUnchanged
  <2>4. /\ klm' \in {"none", "start", "select", "len", "body", "dead"}
        /\ idx' = idx /\ active_subscription_count' \in Nat
        /\ idx' <= active_subscription_count' + 1 /\ active_subscription_count' <= Len(subscribers_')
    BY <2>1, <2>3
  <2>5. /\ run_cvd' \in {"daemonize", "setup", "ready", "serve", "join", "dead"}
        /\ mon' \in {"none", "forked", "up", "orphan", "dead"}
        /\ fg' \in {"none", "reading", "killed", "kPipeIOError"} \cup Code
        /\ fg_launcher_pipe_' \in BOOLEAN /\ reboot_notification_' \in BOOLEAN
        /\ fgPipe' \in {"none"} \cup Code
        /\ client' \in {"none", "waiting", "killed", "eof"} \cup Code
        /\ thread' \in {"none", "poll", "body", "reboot", "fg", "done", "dead"}
        /\ state_' \subseteq {"kGuestBootCompleted", "kGuestBootFailed"}
    BY <2>3 DEF TypeOK, procVars, notifyVars, threadVars
  <2>6. /\ fifo' \in Seq(Event) /\ log' \in Seq(Event)
        /\ pipe' \in [Sub -> Seq(Event \cup {"size"})]
        /\ idx' \in Nat /\ handled' \in Nat /\ got' \in [Sub -> Nat] /\ torn' \in BOOLEAN
    BY <2>3, Zenon DEF TypeOK, dataVars
  <2> QED
    BY <2>2, <2>4, <2>5, <2>6, Zenon DEF TypeOK
<1>6. WalkInv'
  <2>1. Vector'
    BY <1>1, <1>3, <1>4 DEF WalkInv, Vector, Subscribed, Walking
  <2>2. ASSUME NEW i \in 1 .. (idx - 1) PROVE got[subscribers_'[i]] = handled
    <3>1. i \in (1 .. Len(subscribers_)) \ {idx, n}
      BY <1>1, <1>2
    <3> QED
      BY <1>1, <1>3, <3>1 DEF WalkInv, Walk
  <2>3. ASSUME NEW i \in idx .. (n - 1) PROVE got[subscribers_'[i]] = handled - 1
    <3>1. PICK j \in idx .. n : subscribers_'[i] = subscribers_[j]
      <4>1. CASE i = idx
        BY <1>1, <1>2, <1>3, <4>1
      <4>2. CASE i # idx
        <5>1. i \in (1 .. Len(subscribers_)) \ {idx, n} /\ i \in idx .. n
          BY <1>1, <1>2, <4>2
        <5> QED
          BY <1>3, <5>1
      <4> QED
        BY <4>1, <4>2
    <3> QED
      BY <1>1, <3>1 DEF WalkInv, Walk
  <2>4. ASSUME NEW i \in ((n - 1) + 1) .. Len(subscribers_) PROVE ~HasReader(subscribers_'[i])
    <3>1. CASE i = n
      BY <1>1, <1>3, <3>1
    <3>2. CASE i # n
      <4>1. i \in (1 .. Len(subscribers_)) \ {idx, n} /\ i \in (n + 1) .. Len(subscribers_)
        BY <1>1, <1>2, <3>2
      <4> QED
        BY <1>1, <1>3, <4>1 DEF WalkInv, Walk
    <3> QED
      BY <3>1, <3>2
  <2>5. \A i \in ((n - 1) + 1) .. Len(subscribers_) : ~HasReader(subscribers_[i])'
    BY <2>4, Zenon DEF HasReader, MonAlive, KlmUnchanged, procVars, threadVars, CancelSubscription
  <2>6. Walk'
    BY <1>1, <1>3, <2>2, <2>3, <2>5, Zenon DEF WalkInv, Walk, Walking
  <2> QED
    BY <2>1, <2>6 DEF WalkInv
<1>7. Truth'
  BY <1>1, <1>4 DEF Truth, SuccessMeansBooted, Booted, Logged
<1>8. Order'
  <2>1. ASSUME thread \in {"none", "poll", "body"}, NEW k, InStep(k) PROVE InStep(k)'
    <3>1. Current # Boot
      BY <1>1, <1>4, <2>1
    <3>2. HalfWritten = 0 /\ HalfWritten' = 0 /\ Written' = Written
      BY <1>1, <3>1 DEF HalfWritten, Written, Walking
    <3> QED
      BY <1>1, <1>4, <2>1, <3>2 DEF InStep
  <2>2. \A c : FirstFinal(c)' <=> FirstFinal(c)
    BY <1>1 DEF FirstFinal
  <2> QED
    BY <1>1, <1>4, <2>1, <2>2 DEF Order
<1> QED
  BY <1>4, <1>5, <1>6, <1>7, <1>8

LEMMA ProcessedStep ==
  ASSUME IInv, SubscriptionsProcessed
  PROVE  IInv'
<1> USE DEF IInv
<1> DEFINE n == active_subscription_count
<1>1. /\ Walking /\ idx > n /\ klm = "len" /\ klm' = "select" /\ KlmUnchanged
      /\ subscribers_' = SubSeq(subscribers_, 1, n)
      /\ UNCHANGED <<idx, active_subscription_count, handled, got, fifo, log, pipe>>
  BY DEF SubscriptionsProcessed, Walking, dataVars
<1>2. /\ n \in 0 .. Len(subscribers_) /\ idx \in Nat /\ idx = n + 1
      /\ subscribers_ \in Seq(Sub) /\ Len(subscribers_) \in Nat
  BY <1>1 DEF TypeOK, Walking
<1>3. /\ subscribers_' \in Seq(Sub) /\ Len(subscribers_') = n
      /\ \A i \in 1 .. n : i \in 1 .. Len(subscribers_) /\ subscribers_'[i] = subscribers_[i]
  BY <1>1, <1>2
<1>4. /\ Phases'
      /\ \A s : HasReader(s)' <=> HasReader(s)
      /\ Reported' = Reported /\ thread' = thread /\ state_' = state_ /\ torn' = torn
      /\ HalfRead' = HalfRead
      /\ thread \in {"none", "poll", "body"} => Subscribed(Boot) /\ HasReader(Boot)
  BY <1>1, KlmKept, Zenon
<1>5. TypeOK'
  BY <1>1, <1>3 DEF TypeOK, KlmUnchanged, procVars, notifyVars, threadVars
<1>6. \A i \in 1 .. n : got[subscribers_[i]] = handled
  <2>1. \A i \in 1 .. n : i \in 1 .. (idx - 1)
    BY <1>2
  <2> QED
    BY <1>1, <2>1 DEF WalkInv, Walk
<1>7. ASSUME NEW s \in Sub, HasReader(s) PROVE \E i \in 1 .. n : subscribers_[i] = s
  <2>1. PICK i \in 1 .. Len(subscribers_) : subscribers_[i] = s
    BY <1>1, <1>7, Zenon DEF WalkInv, Vector, Subscribed
  <2>2. i \notin (n + 1) .. Len(subscribers_)
    BY <1>1, <1>7, <2>1, Zenon DEF WalkInv, Walk
  <2> QED
    BY <1>2, <2>1, <2>2
<1>8. WalkInv'
  <2>1. \A i, j \in 1 .. Len(subscribers_') : subscribers_'[i] = subscribers_'[j] => i = j
    BY <1>1, <1>3 DEF WalkInv, Vector, Subscribed
  <2>2. \A s \in Sub : Subscribed(s)' \/ ~HasReader(s)
    BY <1>3, <1>7 DEF Subscribed
  <2>3. Vector'
    BY <1>4, <2>1, <2>2, Zenon DEF Vector, Subscribed
  <2>4. Walk'
    BY <1>1, <1>3, <1>6, Zenon DEF WalkInv, Walk, Walking
  <2> QED
    BY <2>3, <2>4 DEF WalkInv
<1>9. Truth'
  BY <1>1, <1>4 DEF Truth, SuccessMeansBooted, Booted, Logged
<1>10. Order'
  <2>1. ASSUME thread \in {"none", "poll", "body"}, NEW k, InStep(k) PROVE InStep(k)'
    <3>1. got[Boot] = handled /\ handled \in Nat /\ Len(log) \in Nat
      BY <1>4, <1>6, <1>7, <2>1 DEF TypeOK, Sub
    <3>2. HalfWritten = 0 /\ HalfWritten' = 0 /\ Written' = Written
      BY <1>1, <3>1 DEF HalfWritten, Written, Walking
    <3> QED
      BY <1>1, <1>4, <2>1, <3>2, Zenon DEF InStep
  <2>2. \A c : FirstFinal(c)' <=> FirstFinal(c)
    BY <1>1 DEF FirstFinal
  <2> QED
    BY <1>1, <1>4, <2>1, <2>2 DEF Order
<1> QED
  BY <1>4, <1>5, <1>8, <1>9, <1>10

-----------------------------------------------------------------------------
LEMMA InitIInv == Init => IInv
<1> SUFFICES ASSUME Init PROVE IInv
  OBVIOUS
<1> USE DEF Init
<1>1. TypeOK
  <2>1. <<>> \in Seq(Event) /\ <<>> \in Seq(Event \cup {"size"}) /\ <<>> \in Seq(Sub)
    OBVIOUS
  <2> QED
    BY <2>1, Zenon DEF TypeOK
<1>2. Phases
  BY DEF Phases
<1>3. WalkInv
  BY DEF WalkInv, Vector, Subscribed, Walk, Walking
<1>4. Reported = {}
  BY DEF Reported, Code
<1>5. Truth
  BY <1>4 DEF Truth, SuccessMeansBooted
<1>6. Order
  <2>1. pipe[Boot] = <<>> /\ Len(log) = 0 /\ HalfRead = 0 /\ HalfWritten = 0 /\ Written = 0
    BY DEF HalfRead, HalfWritten, Written, Walking, Sub
  <2>2. InStep(0)
    BY <2>1 DEF InStep, InStepAt
  <2> QED
    BY <1>4, <2>1, <2>2 DEF Order
<1> QED
  BY <1>1, <1>2, <1>3, <1>5, <1>6 DEF IInv

LEMMA StutterIInv == IInv /\ UNCHANGED vars => IInv'
<1> SUFFICES ASSUME IInv, UNCHANGED vars PROVE IInv'
  OBVIOUS
<1> USE DEF IInv, vars, procVars, notifyVars, threadVars, klmVars, walkVars, dataVars
<1>1. TypeOK' /\ Phases'
  BY DEF TypeOK, Phases
<1>2. Quiet
  BY DEF Quiet, NoRead, ReadersOnlyLeave, HasReader, MonAlive, Reported
<1> QED
  BY <1>1, <1>2, QuietStep

LEMMA StepIInv == IInv /\ [Next]_vars => IInv'
<1> SUFFICES ASSUME IInv, [Next]_vars PROVE IInv'
  OBVIOUS
<1>1. CASE MainNext \/ SetupFails \/ RunCvdEnds
  BY <1>1, MainStep
<1>2. CASE ThreadNext
  BY <1>2, OtherStep, ReadsSizeStep, BootEvtStep, NotifyStep DEF ThreadNext
<1>3. CASE ForegroundReads \/ ClientEof \/ WaiterGone
  BY <1>3, WaiterStep
<1>4. CASE MonNext
  BY <1>4, OtherStep, StartStep DEF MonNext
<1>5. CASE MonSighup \/ MonKilled \/ KlmCrashes
  BY <1>5, KlmEndsStep
<1>6. CASE KlmNext
  BY <1>6, StartStep, IncomingStep, WriteSizeStep, WriteBodyStep, CancelStep, ProcessedStep
     DEF KlmNext
<1>7. CASE LogWriteFails \/ \E e \in Event : GuestLogs(e)
  BY <1>7, OtherStep
<1>8. CASE \E s \in Others : OtherReads(s)
  BY <1>8, OtherReadsStep
<1>9. CASE UNCHANGED vars
  BY <1>9, StutterIInv
<1> QED
  BY <1>1, <1>2, <1>3, <1>4, <1>5, <1>6, <1>7, <1>8, <1>9 DEF Next

LEMMA Invariant == Spec => []IInv
  BY InitIInv, StepIInv, PTL DEF Spec

-----------------------------------------------------------------------------
\* The variables keep their types, and ProcessSubscriptions never leaves the vector
\* it removes cancelled subscriptions from.
THEOREM BootStateTypeCorrect == Spec => []TypeOK
<1>1. IInv => TypeOK
  BY DEF IInv
<1> QED
  BY <1>1, Invariant, PTL

\* Nobody is told the device booted unless kernel.log says so, whichever of the
\* processes crash and however small the pipes.
THEOREM NoFalseSuccess == Spec => []SuccessMeansBooted
<1>1. IInv => SuccessMeansBooted
  BY ZenonT(30) DEF IInv, Truth
<1> QED
  BY <1>1, Invariant, PTL

\* Between two messages of the guest every subscriber that still has a reader has
\* been sent every event once, for any number of subscribers and of cancellations
\* in the middle of a walk.
THEOREM NoSubscriberSkipped == Spec => []EveryEventToEverySubscriber
<1>1. IInv => EveryEventToEverySubscriber
  BY DEF IInv, WalkInv, Vector, Walk, EveryEventToEverySubscriber, Subscribed
<1> QED
  BY <1>1, Invariant, PTL

\* What the foreground launcher and restart_cvd are told is the first final event
\* of kernel.log, unless a kernel_log_monitor ended in the middle of an event.
THEOREM FirstFinalEventDecides == Spec => []FirstFinalEventReported
<1>1. IInv => FirstFinalEventReported
  BY DEF IInv, Order, FirstFinal, FirstFinalEventReported
<1> QED
  BY <1>1, Invariant, PTL

-----------------------------------------------------------------------------
(* The safety part of BootIsReported and of WaitersReturn                   *)

\* An event that ends the boot is lost only with the kernel_log_monitor that writes it:
\* while the boot thread has not seen one, each that kernel.log holds is in its pipe, or is
\* the one klm is sending and the thread's turn is still to come.
FinalEventOnItsWay ==
  ~torn /\ run_cvd # "dead" /\ thread \in {"none", "poll", "body"} =>
    \A n \in DOMAIN log : log[n] # "Other" =>
      \/ \E k \in 1 .. Len(pipe[Boot]) : pipe[Boot][k] = log[n]
      \/ /\ Walking /\ n = Len(log)
         /\ \E i \in idx .. active_subscription_count : subscribers_[i] = Boot

\* CvdBootStateMachine is told of every boot and of every failed one, for any number of
\* subscribers, any capacity of the pipes and any cancellation before its turn: what
\* BootIsReported follows under fairness is always under way.
THEOREM FinalEventIsNotLost == Spec => []FinalEventOnItsWay
<1>1. ASSUME IInv, ~torn, run_cvd # "dead", thread \in {"none", "poll", "body"},
             NEW n \in DOMAIN log, log[n] # "Other"
      PROVE  \/ \E k \in 1 .. Len(pipe[Boot]) : pipe[Boot][k] = log[n]
             \/ /\ Walking /\ n = Len(log)
                /\ \E i \in idx .. active_subscription_count : subscribers_[i] = Boot
  <2>1. /\ Boot \in Sub /\ n \in 1 .. Len(log) /\ Len(log) \in Nat /\ Len(pipe[Boot]) \in Nat
        /\ handled \in Nat /\ got[Boot] \in Nat
        /\ idx \in Nat /\ active_subscription_count \in Nat /\ Len(subscribers_) \in Nat
    BY <1>1 DEF IInv, TypeOK, Sub
  <2>2. PICK k \in 0 .. Len(log) : InStep(k)
    BY <1>1, Zenon DEF IInv, Order
  <2>3. k < n
    BY <1>1, <2>1, <2>2 DEF InStep, InStepAt
  <2>4. CASE n <= Written
    <3> DEFINE j == 2 * (n - k) - HalfRead
    <3>1. HalfRead \in {0, 1} /\ HalfWritten \in {0, 1} /\ Written \in Int
      BY <2>1 DEF HalfRead, HalfWritten, Written
    <3>2. 2 * k + HalfRead + Len(pipe[Boot]) = 2 * Written + HalfWritten
      BY <2>2, Zenon DEF InStep, InStepAt
    <3>3. n \in (k + 1) .. Written
      BY <2>1, <2>2, <2>3, <2>4, <3>1
    <3>4. pipe[Boot][j] = log[n]
      BY <2>2, <3>3, Zenon DEF InStep, InStepAt
    <3>5. j \in 1 .. Len(pipe[Boot])
      <4>1. k \in Nat /\ HalfRead \in 0 .. 1 /\ HalfWritten \in 0 .. 1
        BY <2>1, <2>2, <3>1
      <4> QED
        BY <2>1, <3>1, <3>2, <3>3, <4>1, PipeBounds, Zenon
    <3> QED
      BY <3>4, <3>5, Zenon
  <2>5. CASE ~(n <= Written)
    <3>1. Walking /\ got[Boot] # handled
      BY <2>1, <2>5 DEF Written
    <3>2. HasReader(Boot) /\ klm \notin {"none", "dead"}
      BY <1>1, <3>1 DEF HasReader, Walking
    <3>3. PICK i \in 1 .. Len(subscribers_) : subscribers_[i] = Boot
      BY <1>1, <2>1, <3>2 DEF IInv, WalkInv, Vector, Subscribed
    <3>4. i <= active_subscription_count
      BY <1>1, <2>1, <3>1, <3>2, <3>3 DEF IInv, WalkInv, Walk
    <3>5. idx <= i
      BY <1>1, <2>1, <3>1, <3>3 DEF IInv, WalkInv, Walk
    <3>6. got[Boot] = handled - 1
      BY <1>1, <2>1, <3>1, <3>3, <3>4, <3>5 DEF IInv, WalkInv, Walk
    <3>7. n = Len(log)
      BY <2>1, <2>5, <3>1, <3>6 DEF Written
    <3> QED
      BY <3>1, <3>3, <3>4, <3>5, <3>7
  <2> QED
    BY <2>4, <2>5
<1>2. IInv => FinalEventOnItsWay
  BY <1>1 DEF FinalEventOnItsWay
<1> QED
  BY <1>2, Invariant, PTL

\* Who waits for the outcome of the boot is owed it: run_cvd has not set up its boot
\* thread yet, or the thread still has the file descriptor and has not passed the place
\* where it writes to it, or run_cvd is about to exit, which is an end of file.
AnswerIsOwed ==
  run_cvd # "dead" =>
    /\ fg = "reading" /\ fgPipe = "none" =>
         \/ run_cvd = "setup"
         \/ fg_launcher_pipe_ /\ thread \in {"poll", "body", "reboot", "fg"}
         \/ run_cvd = "join" /\ thread = "done"
    /\ client = "waiting" =>
         \/ run_cvd \in {"daemonize", "setup"}
         \/ reboot_notification_ /\ thread \in {"poll", "body", "reboot"}
         \/ run_cvd = "join" /\ thread = "done"

Owed ==
  /\ fg = "reading" => run_as_daemon
  /\ client = "waiting" => Rebooted
  /\ run_cvd = "daemonize" => fg = "none"
  /\ AnswerIsOwed

LEMMA InitOwed == Init => Owed
  BY ZenonT(30) DEF Init, Owed, AnswerIsOwed

LEMMA StepOwed == IInv /\ Owed /\ [Next]_vars => Owed'
<1> SUFFICES ASSUME IInv, Owed, [Next]_vars PROVE Owed'
  OBVIOUS
<1> USE DEF Owed, AnswerIsOwed
<1>1. ASSUME UNCHANGED <<run_cvd, notifyVars, thread>> PROVE Owed'
  BY <1>1, Zenon DEF notifyVars
<1>2. CASE MainNext
  <2>1. CASE DaemonizeLauncher
    BY <2>1 DEF DaemonizeLauncher
  <2>2. CASE Setup
    BY <2>2, Zenon DEF Setup
  <2>3. CASE StartAndMonitorProcesses
    BY <2>3 DEF StartAndMonitorProcesses, notifyVars, threadVars
  <2>4. CASE JoinThread
    BY <2>4 DEF JoinThread, notifyVars
  <2> QED
    BY <1>2, <2>1, <2>2, <2>3, <2>4 DEF MainNext
<1>3. CASE SetupFails \/ RunCvdEnds
  BY <1>3 DEF SetupFails, RunCvdEnds, notifyVars, threadVars
<1>4. CASE ThreadInterrupted
  BY <1>4 DEF ThreadInterrupted, procVars, notifyVars
<1>5. CASE ThreadReadsSize \/ OnBootEvtReceived
  BY <1>5 DEF ThreadReadsSize, OnBootEvtReceived, procVars, notifyVars
<1>6. CASE NotifyReboot
  <2>0. run_cvd \notin {"dead", "daemonize", "setup"}
    BY <1>6 DEF NotifyReboot, IInv, Phases
  <2>1. client' # "waiting" /\ UNCHANGED <<fg, fg_launcher_pipe_, fgPipe>>
    <3>1. client = "waiting" => reboot_notification_
      BY <1>6, <2>0, Zenon DEF NotifyReboot
    <3>2. ExitCode # "waiting"
      BY DEF ExitCode
    <3> QED
      BY <1>6, <3>1, <3>2, Zenon DEF NotifyReboot
  <2>2. run_cvd' = "dead" \/ (UNCHANGED run_cvd /\ thread' = "fg")
    BY <1>6, Zenon DEF NotifyReboot, BrokenPipe
  <2>3. fg' = "reading" /\ fgPipe' = "none" => fg_launcher_pipe_'
    <3>1. fg = "reading" /\ fgPipe = "none" => fg_launcher_pipe_
      BY <1>6, <2>0, Zenon DEF NotifyReboot
    <3> QED
      BY <2>1, <3>1, Zenon
  <2>4. fg' = "reading" => run_as_daemon
    BY <2>1, Zenon
  <2>5. run_cvd' # "daemonize"
    BY <2>0, <2>2
  <2>6. AnswerIsOwed'
    <3>1. CASE run_cvd' = "dead"
      BY <3>1, Zenon
    <3>2. CASE thread' = "fg"
      BY <2>1, <2>3, <3>2, Zenon
    <3> QED
      BY <2>2, <3>1, <3>2, Zenon
  <2> QED
    BY <2>1, <2>4, <2>5, <2>6, Zenon
<1>7. CASE NotifyForeground
  <2>1. CASE run_cvd' = "dead"
    BY <1>7, <2>1, Zenon DEF NotifyForeground
  <2>2. CASE UNCHANGED run_cvd /\ thread' = "done"
    <3>1. ~(fg' = "reading" /\ fgPipe' = "none")
      BY <1>7 DEF NotifyForeground, ExitCode, IInv, Phases
    <3>2. client' # "waiting"
      BY <1>7 DEF NotifyForeground, IInv, Phases
    <3> QED
      BY <1>7, <2>2, <3>1, <3>2 DEF NotifyForeground
  <2> QED
    BY <1>7, <2>1, <2>2, Zenon DEF NotifyForeground, BrokenPipe
<1>8. CASE ForegroundReads
  <2>1. fg' # "reading" /\ fg = "reading"
    BY <1>8 DEF ForegroundReads, IInv, TypeOK, Code
  <2> QED
    BY <1>8, <2>1 DEF ForegroundReads, procVars, threadVars
<1>9. CASE ClientEof \/ WaiterGone
  BY <1>9 DEF ClientEof, WaiterGone, procVars, threadVars
<1>10. CASE \/ MonNext \/ MonSighup \/ MonKilled \/ KlmNext \/ KlmCrashes
            \/ (\E e \in Event : GuestLogs(e)) \/ (\E s \in Others : OtherReads(s))
            \/ LogWriteFails \/ UNCHANGED vars
  <2>1. UNCHANGED <<run_cvd, notifyVars, thread>>
    BY <1>10, Zenon DEF MonNext, MonPrctl, StartKlm, MonSighup, MonKilled, MonEnds, KlmNext, KlmReady,
       HandleIncomingMessage, WriteSize, WriteBody, CancelSubscription, SubscriptionsProcessed,
       KlmUnchanged, KlmCrashes, LogWriteFails, GuestLogs, OtherReads, vars, procVars, threadVars
  <2> QED
    BY <1>1, <2>1
<1> QED
  BY <1>2, <1>3, <1>4, <1>5, <1>6, <1>7, <1>8, <1>9, <1>10, Zenon DEF Next, ThreadNext

\* Nobody waits for run_cvd in vain: the foreground launcher and restart_cvd are told by
\* the boot thread, or see run_cvd exit. What WaitersReturn and BootIsReported follow under
\* fairness is never given up before.
THEOREM WaitersAreOwed == Spec => []AnswerIsOwed
<1>1. IInv /\ Owed => AnswerIsOwed
  BY DEF Owed
<1> QED
  BY <1>1, Invariant, InitOwed, StepOwed, PTL DEF Spec
=============================================================================
