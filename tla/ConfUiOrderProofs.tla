-------------------------- MODULE ConfUiOrderProofs -------------------------
(***************************************************************************)
(* The order in which host and HAL speak in a session of ConfUi, and what  *)
(* follows from it: neither side meets a message it takes for impossible.  *)
(***************************************************************************)
EXTENDS ConfUiProofs

(* The order of the messages of a session *)

\* The host knows no session the HAL did not start, and a new one has a new number.
Numbered ==
  /\ current_session_ <= current_session_id_
  /\ callback_thread_ = "run" => current_session_ < current_session_id_
  /\ curr_session_ <= current_session_
  /\ \A k \in 1 .. Len(to_guest) : to_guest[k].id <= current_session_

\* The host has said nothing to the current session.
Untold ==
  /\ Len(incoming_msg_queue_) = 0
  /\ \A k \in 1 .. Len(to_guest) : to_guest[k].id # current_session_

Waiting == callback_thread_ = "ack" /\ Untold /\ curr_session_ # current_session_

\* A kStart on its way to the host is the last message of the HAL, which waits.
StartLast(q) ==
  \A k \in 1 .. Len(q) :
    q[k].cmd = "kStart" => k = Len(q) /\ q[k].id = current_session_ /\ Waiting

\* A kStart is followed by nothing, and while the host handles it, or the HAL has not sent
\* it yet, the host has said nothing to the session.
Coming ==
  /\ StartLast(from_guest)
  /\ StartLast(queues_[hal_cmd_q_id_])
  /\ \A k \in 1 .. Len(queues_[hal_cmd_q_id_]) :
       queues_[hal_cmd_q_id_][k].cmd = "kStart" => Len(from_guest) = 0
  /\ main = "input" /\ input.cmd = "kStart" =>
       /\ Len(from_guest) = 0 /\ Len(queues_[hal_cmd_q_id_]) = 0
       /\ input.id = current_session_ /\ Waiting
  /\ main = "init" => callback_thread_ = "ack" /\ Untold /\ curr_session_ = current_session_
  /\ callback_thread_ = "prompt" => Untold /\ curr_session_ # current_session_

\* The host has a session that has been acked, and the rank of what it said last.
Active == curr_session_ # NoId /\ main # "init"
Said == IF state_ = "kInSession" THEN 1 ELSE 2

\* The messages of a session are in order, and the host has not gone beyond what it said.
Ranked ==
  /\ \A i, j \in 1 .. Len(to_guest) :
       i < j /\ to_guest[i].id = to_guest[j].id => Rank(to_guest[i]) < Rank(to_guest[j])
  /\ Active => \A k \in 1 .. Len(to_guest) :
                 to_guest[k].id = curr_session_ => Rank(to_guest[k]) <= Said

\* An ack for the current session before position n of to_guest, or already received.
AckBefore(n) ==
  \/ Len(incoming_msg_queue_) > 0
  \/ \E i \in 1 .. Len(to_guest) :
       i < n /\ to_guest[i].id = current_session_ /\ to_guest[i].cmd = "kCliAck"

\* While the HAL waits for the ack, what its queue holds is in order and comes before what
\* is on its way, it starts with the ack, and an active session of the host was acked.
AwaitsAck ==
  callback_thread_ = "ack" =>
    /\ \A i, j \in 1 .. Len(incoming_msg_queue_) :
         i < j => Rank(incoming_msg_queue_[i]) < Rank(incoming_msg_queue_[j])
    /\ \A i \in 1 .. Len(incoming_msg_queue_), j \in 1 .. Len(to_guest) :
         to_guest[j].id = current_session_ =>
           Rank(incoming_msg_queue_[i]) < Rank(to_guest[j])
    /\ Len(incoming_msg_queue_) > 0 => incoming_msg_queue_[1].cmd = "kCliAck"
    /\ \A j \in 1 .. Len(to_guest) :
         to_guest[j].id = current_session_ /\ to_guest[j].cmd # "kCliAck" => AckBefore(j)
    /\ Active /\ curr_session_ = current_session_ =>
         /\ AckBefore(Len(to_guest) + 1)
         /\ \A k \in 1 .. Len(incoming_msg_queue_) : Rank(incoming_msg_queue_[k]) <= Said

\* After the ack no second one comes.
AckedOnce ==
  /\ callback_thread_ \in {"setup", "pop"} =>
       /\ \A k \in 1 .. Len(incoming_msg_queue_) : Rank(incoming_msg_queue_[k]) > 1
       /\ \A k \in 1 .. Len(to_guest) :
            to_guest[k].id = current_session_ => Rank(to_guest[k]) > 1
  /\ callback_thread_ = "got" => Rank(user_or_abort) > 1

\* The end of the host's session is on its way to the host.
EndComing ==
  \/ \E k \in 1 .. Len(from_guest) : Ends(from_guest[k])
  \/ \E k \in 1 .. Len(queues_[hal_cmd_q_id_]) : Ends(queues_[hal_cmd_q_id_][k])
  \/ main = "input" /\ Ends(input)

\* Unless a message was lost, the HAL is in the session the host is in, and has not
\* been told of its end, or the end is on its way.
Together ==
  Active /\ trouble \cap {"dropped", "io"} = {} /\ ~EndComing =>
    /\ curr_session_ = current_session_
    /\ callback_thread_ \in {"ack", "setup", "pop", "got"}
    /\ \A k \in 1 .. Len(incoming_msg_queue_) : Rank(incoming_msg_queue_[k]) <= 2
    /\ callback_thread_ = "got" => Rank(user_or_abort) <= 2

\* An empty queue has no position.
LEMMA EmptyRange == \A k : k \notin 1 .. 0
  OBVIOUS

-----------------------------------------------------------------------------
(* The host's steps keep the order *)

\* What the guest's part of the invariant reads is left alone by the host.
guestView == <<callback_thread_, current_session_, incoming_msg_queue_, user_or_abort>>

LEMMA SaysAppends ==
  ASSUME Typed, NEW m, Says(m)
  PROVE  IsAppend(to_guest', to_guest, m)
  BY AppendFacts DEF Typed, ConsoleType, Says

LEMMA NumberTypes ==
  ASSUME Typed
  PROVE  /\ curr_session_ \in Nat /\ current_session_ \in Nat /\ current_session_id_ \in Nat
         /\ Len(to_guest) \in Nat /\ Len(incoming_msg_queue_) \in Nat /\ Len(from_guest) \in Nat
         /\ Len(queues_[hal_cmd_q_id_]) \in Nat
         /\ \A k \in 1 .. Len(to_guest) : to_guest[k] \in ConfUiMessage /\ to_guest[k].id \in Nat
<1>1. curr_session_ \in Nat /\ current_session_ \in Nat /\ current_session_id_ \in Nat
  BY MaxSessionAssumption DEF Typed, HostType, GuestType, Id, NoId
<1>2. /\ to_guest \in Seq(ConfUiMessage) /\ from_guest \in Seq(ConfUiMessage)
      /\ incoming_msg_queue_ \in Seq(ConfUiMessage)
      /\ queues_[hal_cmd_q_id_] \in Seq(ConfUiMessage)
  BY QueueIndices DEF Typed, ConsoleType, GuestType, HostType
<1>3. \A k \in 1 .. Len(to_guest) : to_guest[k] \in ConfUiMessage
  BY <1>2
<1>4. \A m \in ConfUiMessage : m.id \in Nat
  BY MaxSessionAssumption DEF ConfUiMessage, Id
<1>5. /\ Len(to_guest) \in Nat /\ Len(incoming_msg_queue_) \in Nat /\ Len(from_guest) \in Nat
      /\ Len(queues_[hal_cmd_q_id_]) \in Nat
  BY <1>2
<1> QED
  BY <1>1, <1>3, <1>4, <1>5

\* A session that was told nothing and that the host is not in is told nothing.
LEMMA UntoldKept ==
  ASSUME Typed, HostStep, UNCHANGED guestView, Untold, curr_session_ # current_session_
  PROVE  Untold'
<1>1. CASE UNCHANGED to_guest
  BY <1>1 DEF Untold, guestView
<1>2. ASSUME NEW m, Says(m) PROVE Untold'
  <2>1. IsAppend(to_guest', to_guest, m) /\ m.id = curr_session_
    BY <1>2, SaysAppends DEF Says
  <2> QED
    BY <2>1 DEF Untold, guestView, IsAppend
<1> QED
  BY <1>1, <1>2 DEF HostStep, HostQuiet, HostPops, HostIgnores, HostCreates, HostAcks,
     HostResponds, HostEnds, HostCrashes

LEMMA HostNumbered ==
  ASSUME Typed, Numbered, Coming, HostStep, UNCHANGED guestVars
  PROVE  Numbered'
<1>1. UNCHANGED <<current_session_, current_session_id_, callback_thread_>>
  BY DEF guestVars
<1>2. curr_session_' <= current_session_
  BY NumberTypes DEF Numbered, Coming, NoId, HostStep, HostQuiet, HostPops, HostIgnores,
     HostCreates, HostAcks, HostResponds, HostEnds, HostCrashes
<1>3. CASE UNCHANGED to_guest
  BY <1>1, <1>2, <1>3 DEF Numbered
<1>4. ASSUME NEW m, Says(m) PROVE Numbered'
  <2>1. IsAppend(to_guest', to_guest, m) /\ m.id = curr_session_
    BY <1>4, SaysAppends DEF Says
  <2> QED
    BY <1>1, <1>2, <2>1 DEF Numbered, IsAppend
<1> QED
  BY <1>3, <1>4 DEF HostStep, HostQuiet, HostPops, HostIgnores, HostCreates, HostAcks,
     HostResponds, HostEnds, HostCrashes

LEMMA HostComing ==
  ASSUME Typed, Coming, HostStep, UNCHANGED guestView
  PROVE  Coming'
<1> DEFINE q0 == queues_[hal_cmd_q_id_]
<1>1. UNCHANGED <<callback_thread_, current_session_>>
  BY DEF guestView
<1>2. callback_thread_ \in {"prompt", "ack"} => current_session_ # NoId
  BY DEF Typed, GuestType
<1>3. /\ Len(from_guest) \in Nat /\ Len(q0) \in Nat
      /\ from_guest \in Seq(ConfUiMessage) /\ q0 \in Seq(ConfUiMessage)
  BY NumberTypes, QueueIndices DEF Typed, ConsoleType, HostType
<1>4. CASE HostCreates
  <2>1. /\ Len(from_guest') = 0 /\ Len(q0') = 0 /\ Waiting /\ input.id = current_session_
        /\ main' = "init" /\ curr_session_' = current_session_ /\ callback_thread_ = "ack"
    BY <1>4 DEF HostCreates, Coming, wires, Waiting
  <2>2. Untold'
    BY <2>1, UntoldKept DEF HostStep, Waiting
  <2> QED
    BY <1>1, <2>1, <2>2 DEF Coming, StartLast
<1>5. CASE HostAcks
  <2>1. /\ UNCHANGED <<from_guest, q0>> /\ callback_thread_ = "ack" /\ ~Waiting /\ main' = "pop"
    BY <1>5 DEF HostAcks, Coming, wires, Waiting
  <2> QED
    BY <1>1, <2>1 DEF Coming, StartLast
<1>6. ASSUME ~HostCreates, ~HostAcks
      PROVE  /\ Waiting => Waiting'
             /\ callback_thread_' = "prompt" => Untold' /\ curr_session_' # current_session_'
             /\ main' = "init" =>
                  callback_thread_' = "ack" /\ Untold' /\ curr_session_' = current_session_'
  <2>1. curr_session_' = curr_session_ \/ curr_session_' = NoId
    BY <1>6 DEF HostStep, HostQuiet, HostPops, HostIgnores, HostResponds, HostEnds, HostCrashes
  <2>2. main' = "init" => main = "init" /\ UNCHANGED <<curr_session_, to_guest>>
    BY <1>6 DEF HostStep, HostQuiet, HostPops, HostIgnores, HostResponds, HostEnds, HostCrashes
  <2>3. main' = "init" => callback_thread_' = "ack" /\ Untold' /\ curr_session_' = current_session_'
    BY <1>1, <2>2 DEF Coming, Untold, guestView
  <2> QED
    BY <1>1, <1>2, <2>1, <2>3, UntoldKept DEF Coming, Waiting
<1>7. CASE HostIgnores \/ HostResponds \/ HostEnds
  <2>1. UNCHANGED <<from_guest, q0>> /\ main' = "pop" /\ ~HostCreates /\ ~HostAcks
    BY <1>7 DEF HostIgnores, HostResponds, HostEnds, HostCreates, HostAcks, wires
  <2> QED
    BY <1>1, <1>6, <2>1 DEF Coming, StartLast
<1>8. CASE HostCrashes
  <2>1. UNCHANGED from_guest /\ Len(q0') = 0 /\ main' = "pop"
    BY <1>8 DEF HostCrashes
  <2>2. CASE HostAcks
    BY <1>5, <2>2
  <2>3. CASE HostCreates
    BY <1>4, <2>3
  <2>4. CASE ~HostAcks /\ ~HostCreates
    BY <1>1, <1>6, <2>1, <2>4 DEF Coming, StartLast
  <2> QED
    BY <2>2, <2>3, <2>4
<1>9. CASE HostPops
  <2>1. UNCHANGED from_guest /\ main' = "input" /\ ~HostCreates /\ ~HostAcks
    BY <1>9 DEF HostPops, HostCreates, HostAcks
  <2>2. CASE q0' = q0 /\ input'.cmd \in UserCmd
    BY <1>1, <1>6, <2>1, <2>2 DEF Coming, StartLast, UserCmd
  <2>3. CASE q0 # <<>> /\ input' = Head(q0) /\ q0' = Tail(q0)
    <3>1. IsTail(q0', q0) /\ input' = q0[1]
      BY <1>3, <2>3, TailFacts
    <3>2. StartLast(q0)'
      BY <1>1, <1>6, <2>1, <3>1 DEF Coming, StartLast, IsTail
    <3>3. StartLast(from_guest)'
      BY <1>1, <1>6, <2>1 DEF Coming, StartLast
    <3>4. \A k \in 1 .. Len(q0') : q0'[k].cmd = "kStart" => Len(from_guest) = 0
      BY <3>1 DEF Coming, IsTail
    <3>5. input'.cmd = "kStart" =>
            /\ Len(from_guest) = 0 /\ Len(q0') = 0 /\ input'.id = current_session_ /\ Waiting
      <4>1. 1 \in 1 .. Len(q0) /\ Len(q0') = Len(q0) - 1
        BY <3>1 DEF IsTail
      <4>2. q0[1].cmd = "kStart" =>
              1 = Len(q0) /\ q0[1].id = current_session_ /\ Waiting /\ Len(from_guest) = 0
        BY <4>1, Zenon DEF Coming, StartLast
      <4> QED
        BY <3>1, <4>1, <4>2
    <3> QED
      BY <1>1, <1>6, <2>1, <3>2, <3>3, <3>4, <3>5 DEF Coming
  <2> QED
    BY <1>9, <2>2, <2>3 DEF HostPops
<1>10. CASE HostQuiet
  <2>1. UNCHANGED <<main, input, curr_session_, to_guest>>
    BY <1>10 DEF HostQuiet
  <2>2. /\ Waiting' <=> Waiting
        /\ Untold' <=> Untold
    BY <1>1, <2>1 DEF Waiting, Untold, guestView
  <2>3. CASE from_guest' = from_guest /\ q0' = q0
    BY <1>1, <2>1, <2>2, <2>3 DEF Coming, StartLast
  <2>4. ASSUME from_guest # <<>>, from_guest' = Tail(from_guest),
               q0' = q0 \/ q0' = Append(q0, Head(from_guest))
        PROVE  Coming'
    <3>1. /\ IsTail(from_guest', from_guest) /\ Head(from_guest) = from_guest[1]
          /\ from_guest[1] \in ConfUiMessage
      BY <1>3, <2>4, TailFacts
    <3>2. StartLast(from_guest)'
      BY <1>1, <2>2, <3>1 DEF Coming, StartLast, IsTail
    <3>3. /\ 1 \in 1 .. Len(from_guest) /\ Len(from_guest) # 0
          /\ \A k \in 1 .. Len(q0) : q0[k].cmd # "kStart"
          /\ main = "input" => input.cmd # "kStart"
      BY <3>1 DEF Coming, IsTail
    <3>4. CASE q0' = q0
      BY <1>1, <2>1, <2>2, <3>2, <3>3, <3>4 DEF Coming, StartLast
    <3>5. CASE q0' = Append(q0, Head(from_guest))
      <4>1. IsAppend(q0', q0, from_guest[1])
        BY <1>3, <3>1, <3>5, AppendFacts
      <4>2. from_guest[1].cmd = "kStart" =>
              Len(from_guest') = 0 /\ from_guest[1].id = current_session_ /\ Waiting
        BY <3>1, <3>3 DEF Coming, StartLast, IsTail
      <4>3. \A k \in 1 .. Len(q0') : q0'[k].cmd = "kStart" =>
              k = Len(q0') /\ q0'[k] = from_guest[1]
        BY <3>3, <4>1 DEF IsAppend
      <4> QED
        BY <1>1, <2>1, <2>2, <3>2, <3>3, <4>2, <4>3 DEF Coming, StartLast
    <3> QED
      BY <2>4, <3>4, <3>5
  <2> QED
    BY <1>10, <2>3, <2>4 DEF HostQuiet
<1> QED
  BY <1>4, <1>5, <1>7, <1>8, <1>9, <1>10 DEF HostStep

LEMMA RankFacts ==
  ASSUME NEW m
  PROVE  /\ Rank(m) \in {1, 2, 3}
         /\ Rank(m) = 1 => m.cmd = "kCliAck" /\ m.arg = "success"
         /\ Rank(m) = 2 => m.cmd = "kCliRespond"
         /\ m.cmd = "kCliRespond" => Rank(m) = 2
         /\ m.cmd = "kAbort" => Rank(m) = 3
         /\ m.cmd = "kCliAck" /\ m.arg = "success" => Rank(m) = 1
         /\ m.cmd = "kCliAck" /\ m.arg = "fail" => Rank(m) = 3
  BY DEF Rank

\* The host says m, and m comes after all it has said to its session.
SaysNext(m) ==
  /\ Says(m) /\ curr_session_ # NoId
  /\ \/ main = "init" /\ m.cmd = "kCliAck"
     \/ main # "init" /\ Said < Rank(m)

\* A step of the host says nothing or what comes next, and the session that is active
\* afterwards was active or has just been acked.
LEMMA HostSaysNext ==
  ASSUME Typed, SessionShape, HostStep
  PROVE  /\ UNCHANGED to_guest \/ \E m : SaysNext(m) /\ (Active' => Rank(m) = Said')
         /\ Active' => /\ curr_session_' = curr_session_
                       /\ (Active /\ Said <= Said') \/ HostAcks
                       /\ UNCHANGED to_guest => UNCHANGED state_
<1>1. /\ \A m : Rank(m) \in {1, 2, 3} /\ (Rank(m) = 1 => m.cmd = "kCliAck")
      /\ Said \in {1, 2}
  BY RankFacts DEF Said
<1>2. CASE HostQuiet \/ HostPops \/ HostIgnores
  BY <1>2 DEF HostQuiet, HostPops, HostIgnores, Active, Said
<1>3. CASE HostCreates
  BY <1>3 DEF HostCreates, Active
<1>4. CASE HostEnds \/ HostCrashes
  BY <1>1, <1>4 DEF HostEnds, HostCrashes, Active, SaysNext
<1>5. CASE HostAcks
  <2>1. PICK m : Says(m) /\ Rank(m) = 1
    BY <1>5 DEF HostAcks
  <2>2. curr_session_ # NoId /\ main = "init" /\ Said' = 1 /\ curr_session_' = curr_session_
    BY <1>5 DEF HostAcks, Typed, HostType, Said
  <2>3. ~UNCHANGED to_guest
    BY <2>1, SaysAppends, NumberTypes DEF IsAppend
  <2> QED
    BY <1>1, <1>5, <2>1, <2>2, <2>3 DEF SaysNext
<1>6. CASE HostResponds
  <2>1. PICK m : Says(m) /\ Rank(m) = 2
    BY <1>6 DEF HostResponds
  <2>2. /\ curr_session_ # NoId /\ main = "input" /\ Said = 1 /\ Said' = 2
        /\ curr_session_' = curr_session_ /\ Active
    BY <1>6 DEF HostResponds, Said, Active
  <2>3. ~UNCHANGED to_guest
    BY <2>1, SaysAppends, NumberTypes DEF IsAppend
  <2> QED
    BY <2>1, <2>2, <2>3 DEF SaysNext
<1> QED
  BY <1>2, <1>3, <1>4, <1>5, <1>6 DEF HostStep

LEMMA HostRanked ==
  ASSUME Typed, SessionShape, Coming, Ranked, HostStep
  PROVE  Ranked'
<1>1. CASE UNCHANGED to_guest
  <2>1. Active' => Active /\ curr_session_' = curr_session_ /\ UNCHANGED state_
    <3>1. ~HostAcks
      BY <1>1, SaysAppends, NumberTypes DEF HostAcks, IsAppend
    <3> QED
      BY <1>1, <3>1, HostSaysNext
  <2> QED
    BY <1>1, <2>1 DEF Ranked, Said
<1>2. ASSUME NEW m, SaysNext(m), Active' => Rank(m) = Said' PROVE Ranked'
  <2>1. IsAppend(to_guest', to_guest, m) /\ m.id = curr_session_
    BY <1>2, SaysAppends DEF SaysNext, Says
  <2>2. \A k \in 1 .. Len(to_guest) :
          to_guest[k].id = curr_session_ => Rank(to_guest[k]) < Rank(m)
    <3>1. CASE main = "init"
      BY <3>1 DEF Coming, Untold
    <3>2. CASE main # "init"
      <4>1. Active /\ Said < Rank(m) /\ Rank(m) \in {1, 2, 3} /\ Said \in {1, 2}
        BY <1>2, <3>2, RankFacts DEF SaysNext, Active, Said
      <4> QED
        BY <4>1, RankFacts DEF Ranked
    <3> QED
      BY <3>1, <3>2
  <2>3. \A i, j \in 1 .. Len(to_guest') :
          i < j /\ to_guest'[i].id = to_guest'[j].id => Rank(to_guest'[i]) < Rank(to_guest'[j])
    <3> SUFFICES ASSUME NEW i \in 1 .. Len(to_guest'), NEW j \in 1 .. Len(to_guest'), i < j,
                        to_guest'[i].id = to_guest'[j].id
                 PROVE  Rank(to_guest'[i]) < Rank(to_guest'[j])
      OBVIOUS
    <3>1. i \in 1 .. Len(to_guest) /\ to_guest'[i] = to_guest[i]
      BY <2>1 DEF IsAppend
    <3>2. CASE j \in 1 .. Len(to_guest)
      BY <2>1, <3>1, <3>2 DEF IsAppend, Ranked
    <3>3. CASE j = Len(to_guest) + 1
      BY <2>1, <2>2, <3>1, <3>3 DEF IsAppend
    <3> QED
      BY <2>1, <3>2, <3>3 DEF IsAppend
  <2>4. Active' => \A k \in 1 .. Len(to_guest') :
                     to_guest'[k].id = curr_session_' => Rank(to_guest'[k]) <= Said'
    <3> SUFFICES ASSUME Active', NEW k \in 1 .. Len(to_guest'), to_guest'[k].id = curr_session_'
                 PROVE  Rank(to_guest'[k]) <= Rank(m)
      BY <1>2
    <3>1. curr_session_' = curr_session_ /\ Rank(m) \in {1, 2, 3}
      BY HostSaysNext, RankFacts
    <3>2. CASE k \in 1 .. Len(to_guest)
      <4>1. to_guest'[k] = to_guest[k] /\ Rank(to_guest[k]) \in {1, 2, 3}
        BY <2>1, <3>2, RankFacts DEF IsAppend
      <4> QED
        BY <2>2, <3>1, <3>2, <4>1
    <3>3. CASE k = Len(to_guest) + 1
      BY <2>1, <3>1, <3>3 DEF IsAppend
    <3> QED
      BY <2>1, <3>2, <3>3 DEF IsAppend
  <2> QED
    BY <2>3, <2>4 DEF Ranked
<1> QED
  BY <1>1, <1>2, HostSaysNext

LEMMA HostAwaitsAck ==
  ASSUME Typed, SessionShape, Coming, Ranked, AwaitsAck, HostStep, UNCHANGED guestView
  PROVE  AwaitsAck'
<1> DEFINE q == incoming_msg_queue_
<1> SUFFICES ASSUME callback_thread_ = "ack" PROVE AwaitsAck'
  BY DEF AwaitsAck, guestView
<1>0. /\ UNCHANGED <<q, current_session_, callback_thread_>>
      /\ Len(q) \in Nat /\ Len(to_guest) \in Nat
      /\ \A m : Rank(m) \in {1, 2, 3} /\ (Rank(m) = 1 => m.cmd = "kCliAck")
      /\ Said \in {1, 2} /\ Said' \in {1, 2}
  BY NumberTypes, RankFacts DEF guestView, Said
<1>1. CASE UNCHANGED to_guest
  <2>1. Active' => Active /\ curr_session_' = curr_session_ /\ Said' = Said
    <3>1. ~HostAcks
      BY <1>1, SaysAppends, NumberTypes DEF HostAcks, IsAppend
    <3> QED
      BY <1>1, <3>1, HostSaysNext DEF Said
  <2> QED
    BY <1>0, <1>1, <2>1 DEF AwaitsAck, AckBefore
<1>2. ASSUME NEW m, SaysNext(m), Active' => Rank(m) = Said' PROVE AwaitsAck'
  <2>1. IsAppend(to_guest', to_guest, m) /\ m.id = curr_session_
    BY <1>2, SaysAppends DEF SaysNext, Says
  <2>2. \A n \in Nat : AckBefore(n) => AckBefore(n)'
    BY <1>0, <2>1 DEF AckBefore, IsAppend
  <2>3. m.id = current_session_ =>
          /\ \A i \in 1 .. Len(q) : Rank(q[i]) < Rank(m)
          /\ m.cmd # "kCliAck" => AckBefore(Len(to_guest) + 1)
    <3>1. CASE main = "init"
      BY <1>2, <3>1 DEF Coming, Untold, SaysNext
    <3>2. CASE main # "init"
      <4>1. Active /\ Said < Rank(m)
        BY <1>2, <3>2 DEF SaysNext, Active
      <4> QED
        BY <1>0, <2>1, <4>1 DEF AwaitsAck
    <3> QED
      BY <3>1, <3>2
  <2>4. \A i, j \in 1 .. Len(q') : i < j => Rank(q'[i]) < Rank(q'[j])
    BY <1>0 DEF AwaitsAck
  <2>5. \A i \in 1 .. Len(q'), j \in 1 .. Len(to_guest') :
          to_guest'[j].id = current_session_' => Rank(q'[i]) < Rank(to_guest'[j])
    BY <1>0, <2>1, <2>3 DEF AwaitsAck, IsAppend
  <2>6. Len(q') > 0 => q'[1].cmd = "kCliAck"
    BY <1>0 DEF AwaitsAck
  <2>7. ASSUME NEW j \in 1 .. Len(to_guest'), to_guest'[j].id = current_session_',
               to_guest'[j].cmd # "kCliAck"
        PROVE  AckBefore(j)'
    <3>1. CASE j \in 1 .. Len(to_guest)
      BY <1>0, <2>1, <2>2, <2>7, <3>1 DEF AwaitsAck, IsAppend
    <3>2. CASE j = Len(to_guest) + 1
      BY <1>0, <2>1, <2>2, <2>3, <2>7, <3>2 DEF IsAppend
    <3> QED
      BY <1>0, <2>1, <3>1, <3>2 DEF IsAppend
  <2>8. ASSUME Active', curr_session_' = current_session_'
        PROVE  AckBefore(Len(to_guest) + 1)' /\ \A k \in 1 .. Len(q') : Rank(q'[k]) <= Said'
    <3>1. m.id = current_session_ /\ Rank(m) = Said'
      BY <1>0, <1>2, <2>1, <2>8, HostSaysNext
    <3>2. \A k \in 1 .. Len(q') : Rank(q'[k]) <= Said'
      BY <1>0, <2>3, <3>1
    <3>3. AckBefore(Len(to_guest) + 1)'
      <4>1. CASE m.cmd = "kCliAck"
        BY <1>0, <2>1, <3>1, <4>1 DEF AckBefore, IsAppend
      <4>2. CASE m.cmd # "kCliAck"
        <5>1. AckBefore(Len(to_guest) + 1)
          BY <2>3, <3>1, <4>2
        <5> QED
          BY <1>0, <2>1, <5>1 DEF AckBefore, IsAppend
      <4> QED
        BY <4>1, <4>2
    <3> QED
      BY <3>2, <3>3
  <2> QED
    BY <2>4, <2>5, <2>6, <2>7, <2>8 DEF AwaitsAck
<1> QED
  BY <1>1, <1>2, HostSaysNext

LEMMA HostAckedOnce ==
  ASSUME Typed, SessionShape, Coming, AckedOnce, HostStep, UNCHANGED guestView
  PROVE  AckedOnce'
<1>1. CASE UNCHANGED to_guest
  BY <1>1 DEF AckedOnce, guestView
<1>2. ASSUME NEW m, SaysNext(m) PROVE AckedOnce'
  <2>1. IsAppend(to_guest', to_guest, m)
    BY <1>2, SaysAppends DEF SaysNext
  <2>2. callback_thread_ \in {"setup", "pop"} => Rank(m) > 1
    <3>1. Rank(m) \in {1, 2, 3} /\ Said \in {1, 2}
      BY RankFacts DEF Said
    <3> QED
      BY <1>2, <3>1 DEF SaysNext, Coming
  <2> QED
    BY <2>1, <2>2 DEF AckedOnce, guestView, IsAppend
<1> QED
  BY <1>1, <1>2, HostSaysNext

\* A message of the HAL is on its way to the session of the host.
OnTheWay(m) ==
  \/ \E k \in 1 .. Len(from_guest) : from_guest[k] = m
  \/ \E k \in 1 .. Len(queues_[hal_cmd_q_id_]) : queues_[hal_cmd_q_id_][k] = m
  \/ main = "input" /\ input = m

\* A message of the HAL is moved along, and is not lost without a trace.
LEMMA WayKept ==
  ASSUME Typed, HostQuiet \/ HostPops, "dropped" \notin trouble', NEW m, OnTheWay(m)
  PROVE  OnTheWay(m)'
<1> DEFINE q0 == queues_[hal_cmd_q_id_]
<1>1. from_guest \in Seq(ConfUiMessage) /\ q0 \in Seq(ConfUiMessage)
  BY QueueIndices DEF Typed, ConsoleType, HostType
<1>2. CASE HostPops
  <2>1. UNCHANGED from_guest /\ main = "pop" /\ main' = "input"
    BY <1>2 DEF HostPops
  <2>2. CASE q0' = q0
    BY <2>1, <2>2, Zenon DEF OnTheWay
  <2>3. CASE q0 # <<>> /\ input' = Head(q0) /\ q0' = Tail(q0)
    <3>1. IsTail(q0', q0) /\ input' = q0[1]
      BY <1>1, <2>3, TailFacts
    <3>2. ASSUME NEW k \in 1 .. Len(q0), q0[k] = m, k # 1
          PROVE  k - 1 \in 1 .. Len(q0') /\ q0'[k - 1] = m
      BY <3>1, <3>2 DEF IsTail
    <3>3. CASE \E k \in 1 .. Len(q0) : q0[k] = m
      BY <2>1, <3>1, <3>2, <3>3 DEF OnTheWay
    <3>4. CASE \E k \in 1 .. Len(from_guest) : from_guest[k] = m
      BY <2>1, <3>4 DEF OnTheWay
    <3> QED
      BY <2>1, <3>3, <3>4 DEF OnTheWay
  <2> QED
    BY <1>2, <2>2, <2>3 DEF HostPops
<1>3. CASE HostQuiet
  <2>1. UNCHANGED <<main, input>>
    BY <1>3 DEF HostQuiet
  <2>2. CASE from_guest' = from_guest /\ q0' = q0
    BY <2>1, <2>2 DEF OnTheWay
  <2>3. CASE /\ from_guest # <<>> /\ from_guest' = Tail(from_guest)
             /\ q0' = Append(q0, Head(from_guest))
    <3>1. /\ IsTail(from_guest', from_guest) /\ Head(from_guest) = from_guest[1]
          /\ from_guest[1] \in ConfUiMessage
      BY <1>1, <2>3, TailFacts
    <3>2. IsAppend(q0', q0, from_guest[1])
      BY <1>1, <2>3, <3>1, AppendFacts
    <3>3. \A k \in 1 .. Len(q0) : k \in 1 .. Len(q0') /\ q0'[k] = q0[k]
      BY <3>2 DEF IsAppend
    <3>4. ASSUME NEW k \in 1 .. Len(from_guest)
          PROVE  \/ \E j \in 1 .. Len(from_guest') : from_guest'[j] = from_guest[k]
                 \/ \E j \in 1 .. Len(q0') : q0'[j] = from_guest[k]
      <4>1. CASE k = 1
        BY <3>2, <4>1 DEF IsAppend
      <4>2. CASE k # 1
        <5>1. k - 1 \in 1 .. Len(from_guest') /\ from_guest'[k - 1] = from_guest[k]
          BY <3>1, <4>2 DEF IsTail
        <5> QED
          BY <5>1
      <4> QED
        BY <4>1, <4>2
    <3> QED
      BY <2>1, <3>3, <3>4 DEF OnTheWay
  <2> QED
    BY <1>3, <2>2, <2>3 DEF HostQuiet
<1> QED
  BY <1>2, <1>3

\* The end of a session is moved along and not lost, or the session ends.
LEMMA EndKept ==
  ASSUME Typed, HostQuiet \/ HostPops \/ HostIgnores \/ HostResponds, EndComing,
         curr_session_ # NoId, trouble' \cap {"dropped", "io"} = {}
  PROVE  EndComing'
<1>1. CASE HostIgnores \/ HostResponds
  BY <1>1, Zenon DEF HostIgnores, HostResponds, EndComing, wires
<1>2. CASE HostQuiet \/ HostPops
  <2>1. PICK m : OnTheWay(m) /\ Ends(m)
    BY DEF EndComing, OnTheWay
  <2>2. OnTheWay(m)'
    BY <1>2, <2>1, WayKept
  <2> QED
    BY <2>1, <2>2 DEF EndComing, OnTheWay
<1> QED
  BY <1>1, <1>2

LEMMA HostTogether ==
  ASSUME Typed, SessionShape, Coming, Together, HostStep, UNCHANGED guestView
  PROVE  Together'
<1> SUFFICES ASSUME Active', trouble' \cap {"dropped", "io"} = {}, ~EndComing' PROVE Together'
  BY DEF Together
<1>1. UNCHANGED <<callback_thread_, current_session_, incoming_msg_queue_, user_or_abort>>
  BY DEF guestView
<1>2. CASE HostCreates \/ HostEnds \/ HostCrashes
  BY <1>2 DEF HostCreates, HostEnds, HostCrashes, Active
<1>3. CASE HostAcks
  <2>1. Untold /\ callback_thread_ = "ack" /\ curr_session_' = current_session_
    BY <1>3 DEF HostAcks, Coming
  <2> QED
    BY <1>1, <2>1 DEF Together, Untold
<1>4. CASE HostQuiet \/ HostPops \/ HostIgnores \/ HostResponds
  <2>1. Active /\ curr_session_' = curr_session_ /\ trouble \subseteq trouble'
    BY <1>4 DEF HostQuiet, HostPops, HostIgnores, HostResponds, Active, NoNewFatal, wires
  <2>2. ~EndComing
    BY <1>4, <2>1, EndKept, Zenon DEF Active
  <2> QED
    BY <1>1, <2>1, <2>2 DEF Together
<1> QED
  BY <1>2, <1>3, <1>4 DEF HostStep

LEMMA HostWaitStop ==
  ASSUME Typed, Coming, Together, WaitStopGetsStop, HostStep
  PROVE  WaitStopGetsStop'
<1>1. trouble \subseteq trouble'
  BY DEF HostStep, HostQuiet, HostPops, HostIgnores, HostCreates, HostAcks, HostResponds,
     HostEnds, HostCrashes, NoNewFatal, wires
<1>2. CASE "fatal" \in trouble' => "fatal" \in trouble
  BY <1>1, <1>2 DEF WaitStopGetsStop
<1>3. CASE main = "input" /\ curr_session_ # NoId /\ input.cmd = "kStart"
  <2>1. /\ Len(from_guest) = 0 /\ Len(queues_[hal_cmd_q_id_]) = 0
        /\ curr_session_ # current_session_ /\ ~Ends(input) /\ Active
    BY <1>3 DEF Coming, Waiting, Ends, Active
  <2>2. ~EndComing
    BY <2>1 DEF EndComing
  <2>3. trouble \cap {"dropped", "io"} # {}
    BY <2>1, <2>2 DEF Together
  <2> QED
    BY <1>1, <2>3 DEF WaitStopGetsStop
<1> QED
  BY <1>2, <1>3, Zenon DEF HostStep, HostQuiet, HostPops, HostIgnores, HostCreates, HostAcks,
     HostResponds, HostEnds, HostCrashes, NoNewFatal, wires

-----------------------------------------------------------------------------
(* The guest's steps keep the order *)

hostView == <<curr_session_, state_, main, input, queues_>>

\* The steps of the guest while it waits for the ack.
LEMMA StepsAtAck ==
  ASSUME Starting, callback_thread_ = "ack", GuestStep
  PROVE  GuestIdle \/ HostMessageFetcherLoop \/ PromptTakesAck
  BY DEF GuestStep, GuestStarts, GuestSends, CallbackThread, RunSession, PromptUserConfirmation,
     PromptBecomesInteractive, PromptTakesInput, PromptReturns, RunSessionTerminates, ResultCallback

\* Which steps bring the callback thread to the states of the starting phase.
LEMMA StepsToAck ==
  ASSUME Starting, GuestStep
  PROVE  /\ callback_thread_' = "ack" =>
              \/ callback_thread_ = "ack" /\ (GuestIdle \/ HostMessageFetcherLoop)
              \/ PromptUserConfirmation
         /\ callback_thread_' = "prompt" =>
              \/ callback_thread_ = "prompt" /\ (GuestIdle \/ HostMessageFetcherLoop)
              \/ RunSession
<1>1. CASE GuestIdle \/ HostMessageFetcherLoop
  BY <1>1, Zenon DEF GuestIdle, HostMessageFetcherLoop
<1>2. CASE GuestStarts \/ GuestSends
  BY <1>2, Zenon DEF GuestStarts, GuestSends
<1>3. CASE CallbackThread
  BY <1>3 DEF CallbackThread, RunSession, PromptUserConfirmation, PromptTakesAck,
     PromptBecomesInteractive, PromptTakesInput, PromptReturns, RunSessionTerminates, ResultCallback
<1> QED
  BY <1>1, <1>2, <1>3, Zenon DEF GuestStep

\* The fetcher takes the first message of the console, and hands it to the session if it
\* is the session's.
Fetched ==
  /\ IsTail(to_guest', to_guest) /\ to_guest[1] \in ConfUiMessage
  /\ UNCHANGED <<callback_thread_, current_session_, user_or_abort, from_guest, trouble>>
  /\ \/ to_guest[1].id = current_session_ /\ IncomingPush(to_guest[1])
     \/ to_guest[1].id # current_session_ /\ UNCHANGED incoming_msg_queue_

LEMMA FetcherFetches ==
  ASSUME Typed, HostMessageFetcherLoop
  PROVE  Fetched
<1>1. to_guest \in Seq(ConfUiMessage) /\ to_guest # <<>> /\ to_guest' = Tail(to_guest)
  BY DEF Typed, ConsoleType, HostMessageFetcherLoop
<1>2. /\ IsTail(to_guest', to_guest) /\ Head(to_guest) = to_guest[1]
      /\ to_guest[1] \in ConfUiMessage
  BY <1>1, TailFacts
<1> QED
  BY <1>2 DEF Fetched, HostMessageFetcherLoop

\* The guest takes only from the front of what the host sent.
LEMMA ToGuestKept ==
  ASSUME Typed, GuestStep
  PROVE  UNCHANGED to_guest \/ (HostMessageFetcherLoop /\ IsTail(to_guest', to_guest))
<1>1. CASE HostMessageFetcherLoop
  BY <1>1, FetcherFetches DEF Fetched
<1>2. CASE GuestIdle \/ GuestStarts \/ GuestSends
  BY <1>2, Zenon DEF GuestIdle, GuestStarts, GuestSends, consoleVars
<1>3. CASE CallbackThread
  BY <1>3 DEF CallbackThread, RunSession, PromptUserConfirmation, PromptTakesAck,
     PromptBecomesInteractive, PromptTakesInput, PromptReturns, RunSessionTerminates,
     ResultCallback, callbackRest
<1> QED
  BY <1>1, <1>2, <1>3 DEF GuestStep

LEMMA GuestNumbered ==
  ASSUME Typed, Numbered, Starting, GuestStep, TrustyNext, UNCHANGED hostView
  PROVE  Numbered'
<1>1. \A k \in 1 .. Len(to_guest') : to_guest'[k].id <= current_session_
  BY ToGuestKept DEF IsTail, Numbered
<1>2. /\ current_session_ \in Nat /\ current_session_id_ \in Nat /\ curr_session_ \in Nat
      /\ \A k \in 1 .. Len(to_guest') : to_guest'[k].id \in Nat
  <2>1. \A k \in 1 .. Len(to_guest) : to_guest[k].id \in Nat
    BY NumberTypes
  <2>2. \A k \in 1 .. Len(to_guest') : to_guest'[k].id \in Nat
    BY <2>1, ToGuestKept DEF IsTail
  <2> QED
    BY <2>2, NumberTypes
<1>3. curr_session_' = curr_session_
  BY DEF hostView
<1>4. CASE RunSession
  <2>1. current_session_' = current_session_id_ /\ current_session_id_' = current_session_id_
        /\ callback_thread_ = "run" /\ callback_thread_' = "prompt"
    BY <1>4 DEF RunSession, callbackRest
  <2>2. curr_session_' <= current_session_'
    BY <1>2, <1>3, <2>1 DEF Numbered
  <2>3. \A k \in 1 .. Len(to_guest') : to_guest'[k].id <= current_session_'
    BY <1>1, <1>2, <2>1 DEF Numbered
  <2> QED
    BY <1>2, <2>1, <2>2, <2>3 DEF Numbered
<1>5. CASE promptUserConfirmation \/ promptJoined
  <2>1. current_session_' = current_session_ /\ current_session_id_' = current_session_id_ + 1
    BY <1>5 DEF promptUserConfirmation, promptJoined, StartCallbackThread
  <2> QED
    BY <1>1, <1>2, <1>3, <2>1 DEF Numbered
<1>6. ASSUME UNCHANGED <<current_session_, current_session_id_>>,
             callback_thread_' = "run" => callback_thread_ = "run"
      PROVE  Numbered'
  BY <1>1, <1>3, <1>6, Zenon DEF Numbered
<1>7. CASE BinderStep /\ ~promptJoined
  BY <1>6, <1>7 DEF BinderStep, promptWakes, promptFails, DeliverSecureInputEvent, Abort,
     SessionCallReturns, sessionData
<1>8. CASE BinderCall /\ ~promptUserConfirmation
  BY <1>6, <1>8, Zenon DEF BinderCall, promptJoins, deliverSecureInputEvent, abort, SessionCall,
     sessionData
<1>9. CASE CallbackThread /\ ~RunSession
  BY <1>6, <1>9 DEF CallbackThread, PromptUserConfirmation, PromptTakesAck,
     PromptBecomesInteractive, PromptTakesInput, PromptReturns, RunSessionTerminates,
     ResultCallback, callbackRest
<1>10. CASE HostMessageFetcherLoop \/ HostMessageFetcherReturns
  BY <1>6, <1>10 DEF HostMessageFetcherLoop, HostMessageFetcherReturns, sessionData
<1> QED
  BY <1>4, <1>5, <1>7, <1>8, <1>9, <1>10 DEF TrustyNext

LEMMA GuestComing ==
  ASSUME Typed, Starting, Numbered, Coming, GuestStep, UNCHANGED hostView
  PROVE  Coming'
<1> DEFINE q0 == queues_[hal_cmd_q_id_]
<1>1. UNCHANGED <<curr_session_, main, input, q0>>
  BY Zenon DEF hostView
<1>2. CASE GuestIdle
  BY <1>1, <1>2, Zenon DEF GuestIdle, consoleVars, Coming, StartLast, Waiting, Untold
<1>3. CASE HostMessageFetcherLoop
  <2>1. Fetched
    BY <1>3, FetcherFetches
  <2>2. ASSUME Untold PROVE Untold'
    <3>1. Len(to_guest) \in Nat /\ Len(to_guest) > 0 /\ Len(to_guest') = Len(to_guest) - 1
      BY <2>1, Zenon DEF Fetched, IsTail
    <3>2. 1 \in 1 .. Len(to_guest) /\ \A k \in 1 .. Len(to_guest') : k + 1 \in 1 .. Len(to_guest)
      BY <3>1
    <3>3. to_guest[1].id # current_session_
      BY <2>2, <3>2, Zenon DEF Untold
    <3>4. UNCHANGED <<incoming_msg_queue_, current_session_>>
      BY <2>1, <3>3, Zenon DEF Fetched
    <3>5. \A k \in 1 .. Len(to_guest') : to_guest'[k].id # current_session_
      BY <2>1, <2>2, <3>2, Zenon DEF Fetched, IsTail, Untold
    <3> QED
      BY <2>2, <3>4, <3>5, Zenon DEF Untold
  <2> QED
    BY <1>1, <2>1, <2>2, Zenon DEF Fetched, Coming, StartLast, Waiting
<1>4. ASSUME ~Waiting
      PROVE  /\ \A k \in 1 .. Len(from_guest) : from_guest[k].cmd # "kStart"
             /\ \A k \in 1 .. Len(q0) : q0[k].cmd # "kStart"
             /\ main = "input" => input.cmd # "kStart"
  BY <1>4, Zenon DEF Coming, StartLast
<1>5. ASSUME ~Waiting, main # "init", callback_thread_' # "prompt",
             \A k \in 1 .. Len(from_guest') : from_guest'[k].cmd # "kStart"
      PROVE  Coming'
  BY <1>1, <1>4, <1>5, Zenon DEF Coming, StartLast
<1>6. ASSUME NEW m \in ConfUiMessage, m.cmd # "kStart", SerializedSend(m), ~Waiting
      PROVE  \A k \in 1 .. Len(from_guest') : from_guest'[k].cmd # "kStart"
  <2>1. CASE UNCHANGED from_guest
    BY <1>4, <1>6, <2>1
  <2>2. CASE from_guest' = Append(from_guest, m)
    <3>1. IsAppend(from_guest', from_guest, m)
      BY <1>6, <2>2, AppendFacts, Zenon DEF Typed, ConsoleType
    <3> QED
      BY <1>4, <1>6, <3>1 DEF IsAppend
  <2> QED
    BY <1>6, <2>1, <2>2 DEF SerializedSend
<1>7. CASE GuestStarts
  BY <1>4, <1>5, <1>7, Zenon DEF GuestStarts, consoleVars, Waiting, Coming
<1>8. CASE GuestSends
  <2>1. ~Waiting /\ main # "init" /\ callback_thread_' # "prompt"
    BY <1>8 DEF GuestSends, Waiting, Coming
  <2>2. PICK m \in ConfUiMessage : m.cmd \in {"kUserInputEvent", "kAbort"} /\ SerializedSend(m)
    BY <1>8, Zenon DEF GuestSends
  <2> QED
    BY <1>5, <1>6, <2>1, <2>2, ZenonT(30)
<1>9. CASE RunSession
  <2>1. /\ callback_thread_ = "run" /\ callback_thread_' = "prompt"
        /\ current_session_' = current_session_id_ /\ Len(incoming_msg_queue_') = 0
        /\ UNCHANGED <<to_guest, from_guest>>
    BY <1>9, Zenon DEF RunSession, callbackRest
  <2>2. ~Waiting /\ main # "init"
    BY <2>1, Zenon DEF Waiting, Coming
  <2>3. /\ current_session_ < current_session_id_ /\ curr_session_ <= current_session_
        /\ \A k \in 1 .. Len(to_guest) : to_guest[k].id <= current_session_
    BY <2>1, Zenon DEF Numbered
  <2>4. Untold' /\ curr_session_' # current_session_'
    BY <1>1, <2>1, <2>3, NumberTypes DEF Untold
  <2> QED
    BY <1>1, <1>4, <2>1, <2>2, <2>4, Zenon DEF Coming, StartLast
<1>10. CASE PromptUserConfirmation
  <2>1. /\ callback_thread_ = "prompt" /\ listener_state_ = "Starting" /\ ~Waiting
        /\ main # "init" /\ Untold /\ curr_session_ # current_session_
        /\ UNCHANGED <<to_guest, incoming_msg_queue_, current_session_>>
    BY <1>10, ZenonT(30) DEF PromptUserConfirmation, Starting, Coming, Waiting, callbackRest
  <2>2. CASE callback_thread_' = "ret" /\ UNCHANGED from_guest
    BY <1>4, <1>5, <2>1, <2>2
  <2>3. CASE /\ callback_thread_' = "ack"
             /\ SerializedSend(Msg("kStart", current_session_, "none"))
    <3>1. Waiting'
      BY <1>1, <2>1, <2>3, Zenon DEF Waiting, Untold
    <3>2. CASE UNCHANGED from_guest
      BY <1>1, <1>4, <2>1, <2>3, <3>2, Zenon DEF Coming, StartLast
    <3>3. CASE from_guest' = Append(from_guest, Msg("kStart", current_session_, "none"))
      <4> DEFINE m == Msg("kStart", current_session_, "none")
      <4>1. m \in ConfUiMessage /\ m.id = current_session_
        <5>1. current_session_ \in Id
          BY <2>1 DEF Typed, GuestType
        <5> QED
          BY <5>1, MsgType DEF ConfUiCmd, Arg, Msg
      <4>2. from_guest' = Append(from_guest, m)
        BY <3>3
      <4> HIDE DEF m
      <4>3. IsAppend(from_guest', from_guest, m)
        BY <4>1, <4>2, AppendFacts DEF Typed, ConsoleType
      <4>4. StartLast(from_guest)'
        BY <1>4, <2>1, <3>1, <4>1, <4>3, SMTT(20) DEF StartLast, IsAppend
      <4> QED
        BY <1>1, <1>4, <2>1, <2>3, <4>4, Zenon DEF Coming, StartLast
    <3> QED
      BY <2>3, <3>2, <3>3 DEF SerializedSend
  <2> QED
    BY <1>10, <2>1, <2>2, <2>3, Zenon DEF PromptUserConfirmation
<1>11. CASE PromptTakesAck
  <2>1. Len(incoming_msg_queue_) # 0
    <3>1. incoming_msg_queue_ \in Seq(ConfUiMessage) /\ incoming_msg_queue_ # <<>>
      BY <1>11, Zenon DEF PromptTakesAck, Typed, GuestType
    <3> QED
      BY <3>1, TailFacts DEF IsTail
  <2>2. ~Waiting /\ main # "init"
    BY <2>1, Zenon DEF Waiting, Untold, Coming
  <2> QED
    BY <1>4, <1>5, <1>11, <2>2 DEF PromptTakesAck
<1>12. CASE PromptBecomesInteractive \/ PromptTakesInput \/ RunSessionTerminates \/ ResultCallback
  <2>1. /\ callback_thread_ # "ack" /\ callback_thread_' # "prompt" /\ UNCHANGED from_guest
    BY <1>12 DEF PromptBecomesInteractive, PromptTakesInput, RunSessionTerminates, ResultCallback
  <2> QED
    BY <1>4, <1>5, <2>1 DEF Waiting, Coming
<1>13. CASE PromptReturns
  <2>1. callback_thread_ = "got" /\ callback_thread_' = "ret" /\ ~Waiting /\ main # "init"
    BY <1>13 DEF PromptReturns, Waiting, Coming
  <2>2. CASE UNCHANGED from_guest
    BY <1>4, <1>5, <2>1, <2>2
  <2>3. CASE SerializedSend(Msg("kStop", current_session_, "none"))
    <3>1. current_session_ \in Id
      BY <2>1 DEF Typed, GuestType
    <3>2. /\ Msg("kStop", current_session_, "none") \in ConfUiMessage
          /\ Msg("kStop", current_session_, "none").cmd = "kStop"
      BY <3>1, MsgType DEF ConfUiCmd, Arg, Msg
    <3> QED
      BY <1>5, <1>6, <2>1, <2>3, <3>2
  <2> QED
    BY <1>13, <2>2, <2>3 DEF PromptReturns
<1> QED
  BY <1>2, <1>3, <1>7, <1>8, <1>9, <1>10, <1>11, <1>12, <1>13 DEF GuestStep, CallbackThread

LEMMA GuestRanked ==
  ASSUME Typed, Ranked, GuestStep, UNCHANGED hostView
  PROVE  Ranked'
<1>1. UNCHANGED <<curr_session_, state_, main>>
  BY DEF hostView
<1>2. CASE UNCHANGED to_guest
  BY <1>1, <1>2, Zenon DEF Ranked, Active, Said
<1>3. CASE IsTail(to_guest', to_guest)
  <2>1. \A k \in 1 .. Len(to_guest') :
          k + 1 \in 1 .. Len(to_guest) /\ to_guest'[k] = to_guest[k + 1]
    BY <1>3, SMTT(20) DEF IsTail
  <2>2. \A i, j \in 1 .. Len(to_guest') :
          i < j /\ to_guest'[i].id = to_guest'[j].id => Rank(to_guest'[i]) < Rank(to_guest'[j])
    <3> TAKE i, j \in 1 .. Len(to_guest')
    <3>1. /\ i + 1 \in 1 .. Len(to_guest) /\ to_guest'[i] = to_guest[i + 1]
          /\ j + 1 \in 1 .. Len(to_guest) /\ to_guest'[j] = to_guest[j + 1]
      BY <2>1, Zenon
    <3>2. i < j => i + 1 < j + 1
      OBVIOUS
    <3> QED
      BY <3>1, <3>2, Zenon DEF Ranked
  <2> QED
    BY <1>1, <2>1, <2>2, Zenon DEF Ranked, Active, Said
<1> QED
  BY <1>2, <1>3, ToGuestKept

\* The queue of a session that waits for its ack is never full.
LEMMA RoomForAck ==
  ASSUME Typed, AwaitsAck, callback_thread_ = "ack", NEW m \in ConfUiMessage, IncomingPush(m)
  PROVE  IsAppend(incoming_msg_queue_', incoming_msg_queue_, m)
<1> DEFINE q == incoming_msg_queue_
<1>1. q \in Seq(ConfUiMessage) /\ Len(q) \in Nat
  BY NumberTypes DEF Typed, GuestType
<1>2. \A i \in 1 .. Len(q) : Rank(q[i]) \in {1, 2, 3}
  BY RankFacts
<1>3. Len(q) < 4
  <2> SUFFICES ASSUME ~(Len(q) < 4) PROVE FALSE
    OBVIOUS
  <2>1. 1 \in 1 .. Len(q) /\ 2 \in 1 .. Len(q) /\ 3 \in 1 .. Len(q) /\ 4 \in 1 .. Len(q)
    BY <1>1
  <2>2. Rank(q[1]) < Rank(q[2]) /\ Rank(q[2]) < Rank(q[3]) /\ Rank(q[3]) < Rank(q[4])
    BY <2>1 DEF AwaitsAck
  <2> QED
    BY <1>2, <2>1, <2>2
<1>4. Len(q) # incoming_capacity
  BY <1>1, <1>3, IncomingAssumption
<1>5. q' = Append(q, m)
  BY <1>4 DEF IncomingPush
<1> QED
  BY <1>1, <1>5, AppendFacts, Zenon

LEMMA GuestAwaitsAck ==
  ASSUME Typed, Starting, Coming, Ranked, AwaitsAck, GuestStep, UNCHANGED hostView
  PROVE  AwaitsAck'
<1> DEFINE q == incoming_msg_queue_
           s == current_session_
<1> SUFFICES ASSUME callback_thread_' = "ack" PROVE AwaitsAck'
  BY DEF AwaitsAck
<1>1. UNCHANGED <<curr_session_, state_, main>>
  BY ZenonT(30) DEF hostView
<1>2. CASE PromptUserConfirmation
  <2>1. callback_thread_ = "prompt" /\ UNCHANGED <<q, s, to_guest>>
    BY <1>2 DEF PromptUserConfirmation, callbackRest
  <2>2. Untold /\ curr_session_ # s
    BY <2>1 DEF Coming
  <2>3. 1 .. Len(q) = {}
    BY <2>2, SMTT(20) DEF Untold
  <2> QED
    BY <1>1, <2>1, <2>2, <2>3 DEF AwaitsAck, Untold
<1>3. CASE callback_thread_ = "ack" /\ GuestIdle
  BY <1>1, <1>3 DEF GuestIdle, consoleVars, AwaitsAck, AckBefore, Active, Said
<1>4. ASSUME callback_thread_ = "ack", Fetched PROVE AwaitsAck'
  <2>1. IsTail(to_guest', to_guest) /\ to_guest[1] \in ConfUiMessage /\ UNCHANGED s
    BY <1>4 DEF Fetched
  <2>2. /\ Len(q) \in Nat
        /\ \A k \in 1 .. Len(to_guest') :
             k + 1 \in 1 .. Len(to_guest) /\ to_guest'[k] = to_guest[k + 1]
        /\ 1 \in 1 .. Len(to_guest) /\ Len(to_guest') = Len(to_guest) - 1
        /\ Len(to_guest) \in Nat
    BY <2>1, NumberTypes, SMTT(20) DEF IsTail
  <2>3. CASE to_guest[1].id = s /\ IncomingPush(to_guest[1])
    <3>1. IsAppend(q', q, to_guest[1])
      BY <1>4, <2>1, <2>3, RoomForAck, ZenonT(30)
    <3>2. \A i, j \in 1 .. Len(q') : i < j => Rank(q'[i]) < Rank(q'[j])
      BY <1>4, <2>2, <2>3, <3>1, SMTT(20) DEF AwaitsAck, IsAppend
    <3>3. ASSUME NEW i \in 1 .. Len(q'), NEW j \in 1 .. Len(to_guest'), to_guest'[j].id = s'
          PROVE  Rank(q'[i]) < Rank(to_guest'[j])
      <4>1. j + 1 \in 1 .. Len(to_guest) /\ to_guest'[j] = to_guest[j + 1]
            /\ to_guest[j + 1].id = s
        BY <2>1, <2>2, <3>3, Zenon
      <4>2. CASE i \in 1 .. Len(q)
        BY <1>4, <3>1, <4>1, <4>2, Zenon DEF AwaitsAck, IsAppend
      <4>3. CASE i = Len(q) + 1
        <5>1. q'[i] = to_guest[1] /\ 1 < j + 1
          BY <3>1, <4>3 DEF IsAppend
        <5> QED
          BY <2>2, <2>3, <4>1, <5>1 DEF Ranked
      <4> QED
        BY <2>2, <3>1, <4>2, <4>3, SMTT(20) DEF IsAppend
    <3>4. Len(q') > 0 /\ q'[1].cmd = "kCliAck"
      <4>1. CASE Len(q) > 0
        BY <1>4, <2>2, <3>1, <4>1 DEF AwaitsAck, IsAppend
      <4>2. CASE Len(q) = 0
        <5>1. ~AckBefore(1)
          BY <2>2, <4>2, SMTT(20) DEF AckBefore
        <5>2. to_guest[1].cmd = "kCliAck"
          BY <1>4, <2>2, <2>3, <5>1 DEF AwaitsAck
        <5> QED
          BY <3>1, <4>2, <5>2 DEF IsAppend
      <4> QED
        BY <2>2, <4>1, <4>2
    <3>5. ASSUME Active', curr_session_' = s' PROVE \A k \in 1 .. Len(q') : Rank(q'[k]) <= Said'
      <4>1. Active /\ Said' = Said /\ curr_session_ = s
        BY <1>1, <2>1, <3>5, Zenon DEF Active, Said
      <4>2. Rank(to_guest[1]) <= Said
        BY <2>2, <2>3, <4>1, Zenon DEF Ranked
      <4>3. \A k \in 1 .. Len(q) : Rank(q[k]) <= Said
        BY <1>4, <4>1 DEF AwaitsAck
      <4> QED
        BY <3>1, <4>1, <4>2, <4>3 DEF IsAppend
    <3>6. \A n : AckBefore(n)'
      BY <3>4, ZenonT(30) DEF AckBefore
    <3> QED
      BY <3>2, <3>3, <3>4, <3>5, <3>6 DEF AwaitsAck
  <2>4. CASE to_guest[1].id # s /\ UNCHANGED q
    <3>1. ASSUME NEW n \in Nat, AckBefore(n + 1) PROVE AckBefore(n)'
      <4>1. CASE Len(q) > 0
        BY <2>4, <4>1 DEF AckBefore
      <4>2. CASE Len(q) = 0
        <5>1. PICK i \in 1 .. Len(to_guest) :
                i < n + 1 /\ to_guest[i].id = s /\ to_guest[i].cmd = "kCliAck"
          BY <3>1, <4>2 DEF AckBefore
        <5>2. i # 1
          BY <2>4, <5>1
        <5>3. i - 1 \in 1 .. Len(to_guest') /\ i - 1 < n /\ to_guest'[i - 1] = to_guest[i]
          BY <2>2, <5>1, <5>2, SMTT(20)
        <5> QED
          BY <2>1, <5>1, <5>3 DEF AckBefore
      <4> QED
        BY <2>2, <4>1, <4>2
    <3>2. \A j \in 1 .. Len(to_guest') :
            to_guest'[j].id = s' /\ to_guest'[j].cmd # "kCliAck" => AckBefore(j)'
      BY <1>4, <2>1, <2>2, <3>1, SMTT(20) DEF AwaitsAck
    <3>3. \A i \in 1 .. Len(q'), j \in 1 .. Len(to_guest') :
            to_guest'[j].id = s' => Rank(q'[i]) < Rank(to_guest'[j])
      BY <1>4, <2>1, <2>2, <2>4 DEF AwaitsAck
    <3>4. ASSUME Active', curr_session_' = s'
          PROVE  AckBefore(Len(to_guest) + 1)' /\ \A k \in 1 .. Len(q') : Rank(q'[k]) <= Said'
      <4>1. Active /\ Said' = Said /\ curr_session_ = s
        BY <1>1, <2>1, <3>4 DEF Active, Said
      <4>2. AckBefore(Len(to_guest) + 1) /\ \A k \in 1 .. Len(q) : Rank(q[k]) <= Said
        BY <1>4, <4>1, Zenon DEF AwaitsAck
      <4>3. Len(to_guest) = Len(to_guest') + 1 /\ Len(to_guest') \in Nat
        BY <2>2, SMTT(20)
      <4>4. AckBefore(Len(to_guest') + 1 + 1)
        BY <2>2, <4>2, <4>3 DEF AckBefore
      <4>5. AckBefore(Len(to_guest) + 1)'
        <5>1. PICK l \in Nat : l = Len(to_guest') + 1
          BY <4>3
        <5>2. AckBefore(l + 1)
          BY <4>4, <5>1
        <5>3. AckBefore(l)'
          BY <3>1, <5>2
        <5> QED
          BY <5>1, <5>3 DEF AckBefore
      <4> QED
        BY <2>4, <4>1, <4>2, <4>5, Zenon
    <3> QED
      BY <1>4, <2>4, <3>2, <3>3, <3>4 DEF AwaitsAck
  <2> QED
    BY <1>4, <2>3, <2>4 DEF Fetched
<1> QED
  BY <1>2, <1>3, <1>4, StepsToAck, FetcherFetches, ZenonT(30)

LEMMA GuestAckedOnce ==
  ASSUME Typed, AwaitsAck, AckedOnce, GuestStep
  PROVE  AckedOnce'
<1> DEFINE q == incoming_msg_queue_
           s == current_session_
<1>0. q \in Seq(ConfUiMessage) /\ Len(q) \in Nat
  BY NumberTypes, Zenon DEF Typed, GuestType
<1>1. ASSUME UNCHANGED <<callback_thread_, s, user_or_abort>>,
             to_guest' = to_guest \/ IsTail(to_guest', to_guest),
             callback_thread_ \in {"setup", "pop"} =>
               \A k \in 1 .. Len(q') : Rank(q'[k]) > 1
      PROVE  AckedOnce'
  <2>1. \A k \in 1 .. Len(to_guest') : \E j \in 1 .. Len(to_guest) : to_guest'[k] = to_guest[j]
    BY <1>1, SMTT(20) DEF IsTail
  <2> QED
    BY <1>1, <2>1 DEF AckedOnce
<1>2. CASE GuestIdle
  BY <1>1, <1>2, Zenon DEF GuestIdle, consoleVars, AckedOnce
<1>3. CASE GuestStarts
  BY <1>3 DEF GuestStarts, AckedOnce
<1>4. CASE GuestSends
  <2>1. UNCHANGED <<callback_thread_, s, user_or_abort, to_guest>>
    BY <1>4, Zenon DEF GuestSends
  <2>2. CASE UNCHANGED q
    BY <1>1, <2>1, <2>2, Zenon DEF AckedOnce
  <2>3. ASSUME NEW m \in ConfUiMessage, m.cmd = "kAbort", IncomingPush(m) PROVE AckedOnce'
    <3>1. Rank(m) = 3
      BY <2>3, RankFacts
    <3>2. \A k \in 1 .. Len(q') : q'[k] = m \/ \E j \in 1 .. Len(q) : q'[k] = q[j]
      BY <1>0, <2>3, IncomingPushElems
    <3> QED
      BY <1>1, <2>1, <3>1, <3>2 DEF AckedOnce
  <2> QED
    BY <1>4, <2>2, <2>3 DEF GuestSends
<1>5. CASE HostMessageFetcherLoop
  <2>1. Fetched
    BY <1>5, FetcherFetches
  <2>2. /\ UNCHANGED <<callback_thread_, s, user_or_abort>> /\ IsTail(to_guest', to_guest)
        /\ to_guest[1] \in ConfUiMessage /\ 1 \in 1 .. Len(to_guest)
    BY <2>1, SMTT(20) DEF Fetched, IsTail
  <2>3. CASE UNCHANGED q
    BY <1>1, <2>2, <2>3, Zenon DEF AckedOnce
  <2>4. CASE to_guest[1].id = s /\ IncomingPush(to_guest[1])
    <3>1. \A k \in 1 .. Len(q') : q'[k] = to_guest[1] \/ \E j \in 1 .. Len(q) : q'[k] = q[j]
      BY <1>0, <2>2, <2>4, IncomingPushElems, Zenon
    <3>2. callback_thread_ \in {"setup", "pop"} => Rank(to_guest[1]) > 1
      BY <2>2, <2>4, Zenon DEF AckedOnce
    <3> QED
      BY <1>1, <2>2, <3>1, <3>2, Zenon DEF AckedOnce
  <2> QED
    BY <2>1, <2>3, <2>4 DEF Fetched
<1>6. CASE RunSession \/ PromptUserConfirmation \/ PromptReturns \/ RunSessionTerminates
           \/ ResultCallback
  BY <1>6 DEF RunSession, PromptUserConfirmation, PromptReturns, RunSessionTerminates,
     ResultCallback, AckedOnce
<1>7. CASE PromptTakesAck
  <2>1. /\ callback_thread_ = "ack" /\ q # <<>> /\ q' = Tail(q) /\ UNCHANGED <<s, to_guest>>
        /\ callback_thread_' \in {"aborted", "ret", "setup"}
        /\ callback_thread_' = "setup" => Head(q).cmd = "kCliAck" /\ Head(q).arg = "success"
    BY <1>7 DEF PromptTakesAck, callbackRest
  <2>2. IsTail(q', q) /\ Head(q) = q[1]
    BY <1>0, <2>1, TailFacts, Zenon
  <2>3. CASE callback_thread_' = "setup"
    <3>1. Rank(q[1]) = 1
      BY <2>1, <2>2, <2>3, RankFacts
    <3>2. \A m : Rank(m) \in {1, 2, 3}
      BY RankFacts
    <3>3. 1 \in 1 .. Len(q) /\ \A k \in 1 .. Len(q') : k + 1 \in 1 .. Len(q) /\ q'[k] = q[k + 1]
      BY <2>2, SMTT(20) DEF IsTail
    <3>4. \A k \in 1 .. Len(q') : Rank(q'[k]) > 1
      BY <2>1, <3>1, <3>2, <3>3, SMTT(20) DEF AwaitsAck
    <3>5. \A k \in 1 .. Len(to_guest) : to_guest[k].id = s => Rank(to_guest[k]) > 1
      BY <2>1, <3>1, <3>2, <3>3, Zenon DEF AwaitsAck
    <3> QED
      BY <2>1, <2>3, <3>4, <3>5, Zenon DEF AckedOnce
  <2>4. CASE callback_thread_' # "setup"
    BY <2>1, <2>4, Zenon DEF AckedOnce
  <2> QED
    BY <2>3, <2>4
<1>8. CASE PromptBecomesInteractive
  BY <1>8 DEF PromptBecomesInteractive, callbackRest, AckedOnce
<1>9. CASE PromptTakesInput
  <2>1. /\ callback_thread_ = "pop" /\ callback_thread_' = "got" /\ q # <<>>
        /\ user_or_abort' = Head(q)
    BY <1>9 DEF PromptTakesInput
  <2>2. 1 \in 1 .. Len(q) /\ Head(q) = q[1]
    BY <1>0, <2>1, TailFacts DEF IsTail
  <2> QED
    BY <2>1, <2>2 DEF AckedOnce
<1> QED
  BY <1>2, <1>3, <1>4, <1>5, <1>6, <1>7, <1>8, <1>9, Zenon DEF GuestStep, CallbackThread

\* What the HAL sends joins what it sent, or is lost with a trace.
LEMMA GuestEndComing ==
  ASSUME Typed, GuestStep, UNCHANGED hostView
  PROVE  /\ trouble \subseteq trouble'
         /\ "fatal" \in trouble' => "fatal" \in trouble
         /\ EndComing => EndComing'
         /\ \A m \in ConfUiMessage :
              SerializedSend(m) /\ trouble' \cap {"dropped", "io"} = {} /\ Ends(m) => EndComing'
<1>1. UNCHANGED <<main, input, queues_[hal_cmd_q_id_]>>
  BY DEF hostView
<1>2. ASSUME NEW m \in ConfUiMessage, SerializedSend(m)
      PROVE  /\ trouble \subseteq trouble' /\ ("fatal" \in trouble' => "fatal" \in trouble)
             /\ EndComing => EndComing'
             /\ trouble' \cap {"dropped", "io"} = {} /\ Ends(m) => EndComing'
  <2>1. CASE from_guest' = Append(from_guest, m) /\ UNCHANGED trouble
    <3>1. IsAppend(from_guest', from_guest, m)
      BY <2>1, AppendFacts DEF Typed, ConsoleType
    <3>2. /\ \A k \in 1 .. Len(from_guest) :
               k \in 1 .. Len(from_guest') /\ from_guest'[k] = from_guest[k]
          /\ Len(from_guest) + 1 \in 1 .. Len(from_guest') /\ from_guest'[Len(from_guest) + 1] = m
      BY <3>1, SMTT(20) DEF IsAppend
    <3> QED
      BY <1>1, <2>1, <3>2 DEF EndComing
  <2>2. CASE trouble' = trouble \cup {"io"} /\ UNCHANGED from_guest
    BY <1>1, <2>2 DEF EndComing
  <2> QED
    BY <1>2, <2>1, <2>2, Zenon DEF SerializedSend
<1>3. ASSUME UNCHANGED from_guest, UNCHANGED trouble \/ trouble' = trouble \cup {"io"}
      PROVE  trouble \subseteq trouble' /\ ("fatal" \in trouble' => "fatal" \in trouble)
             /\ (EndComing => EndComing')
  BY <1>1, <1>3 DEF EndComing
<1>4. \/ UNCHANGED from_guest /\ (UNCHANGED trouble \/ trouble' = trouble \cup {"io"})
      \/ \E m \in ConfUiMessage : SerializedSend(m)
  <2>1. CASE GuestIdle \/ GuestStarts \/ GuestSends \/ HostMessageFetcherLoop
    BY <2>1, Zenon DEF GuestIdle, GuestStarts, GuestSends, HostMessageFetcherLoop, consoleVars
  <2>2. CASE RunSession \/ PromptTakesAck \/ PromptBecomesInteractive \/ PromptTakesInput
             \/ RunSessionTerminates \/ ResultCallback
    BY <2>2, Zenon DEF RunSession, PromptTakesAck, PromptBecomesInteractive, PromptTakesInput,
       RunSessionTerminates, ResultCallback
  <2>3. CASE PromptUserConfirmation \/ PromptReturns
    <3>1. callback_thread_ \in {"prompt", "got"}
      BY <2>3, Zenon DEF PromptUserConfirmation, PromptReturns
    <3>2. current_session_ \in Id
      BY <3>1 DEF Typed, GuestType
    <3>3. /\ Msg("kStart", current_session_, "none") \in ConfUiMessage
          /\ Msg("kStop", current_session_, "none") \in ConfUiMessage
      BY <3>2, MsgType DEF ConfUiCmd, Arg
    <3> QED
      BY <2>3, <3>3, Zenon DEF PromptUserConfirmation, PromptReturns
  <2> QED
    BY <2>1, <2>2, <2>3, Zenon DEF GuestStep, CallbackThread
<1> QED
  BY <1>2, <1>3, <1>4

LEMMA GuestTogether ==
  ASSUME Typed, Ranked, AwaitsAck, AckedOnce, Together, GuestStep, UNCHANGED hostView
  PROVE  Together'
<1> DEFINE q == incoming_msg_queue_
           s == current_session_
<1> SUFFICES ASSUME Active', trouble' \cap {"dropped", "io"} = {}, ~EndComing' PROVE Together'
  BY Zenon DEF Together
<1>0. q \in Seq(ConfUiMessage) /\ Len(q) \in Nat
  BY NumberTypes DEF Typed, GuestType
<1>1. UNCHANGED <<curr_session_, state_, main>> /\ Active
  BY DEF hostView, Active
<1>2. /\ curr_session_ = s /\ callback_thread_ \in {"ack", "setup", "pop", "got"}
      /\ \A k \in 1 .. Len(q) : Rank(q[k]) <= 2
      /\ callback_thread_ = "got" => Rank(user_or_abort) <= 2
  <2>1. trouble \cap {"dropped", "io"} = {} /\ ~EndComing
    BY GuestEndComing, Zenon
  <2> QED
    BY <1>1, <2>1 DEF Together
<1>3. ASSUME UNCHANGED s, callback_thread_' \in {"ack", "setup", "pop", "got"},
             \A k \in 1 .. Len(q') : Rank(q'[k]) <= 2,
             callback_thread_' = "got" => Rank(user_or_abort') <= 2
      PROVE  Together'
  BY <1>1, <1>2, <1>3, Zenon DEF Together
<1>4. CASE GuestIdle
  BY <1>2, <1>3, <1>4, Zenon DEF GuestIdle
<1>5. CASE GuestStarts \/ RunSession \/ PromptUserConfirmation \/ RunSessionTerminates
           \/ ResultCallback
  BY <1>2, <1>5, Zenon DEF GuestStarts, RunSession, PromptUserConfirmation, RunSessionTerminates,
     ResultCallback
<1>6. CASE GuestSends
  <2>1. UNCHANGED <<callback_thread_, s, user_or_abort>>
    BY <1>6 DEF GuestSends
  <2>2. PICK m \in ConfUiMessage :
          SerializedSend(m) /\ (UNCHANGED q \/ (m.cmd = "kAbort" /\ IncomingPush(m)))
    BY <1>6 DEF GuestSends
  <2>3. m.cmd # "kAbort"
    BY <2>2, GuestEndComing DEF Ends
  <2> QED
    BY <1>2, <1>3, <2>1, <2>2, <2>3
<1>7. CASE HostMessageFetcherLoop
  <2>1. Fetched
    BY <1>7, FetcherFetches, Zenon
  <2>2. /\ UNCHANGED <<callback_thread_, s, user_or_abort>>
        /\ to_guest[1] \in ConfUiMessage /\ 1 \in 1 .. Len(to_guest)
    BY <2>1 DEF Fetched, IsTail
  <2>3. CASE UNCHANGED q
    BY <1>2, <1>3, <2>2, <2>3, Zenon
  <2>4. CASE to_guest[1].id = s /\ IncomingPush(to_guest[1])
    <3>1. \A k \in 1 .. Len(q') : q'[k] = to_guest[1] \/ \E j \in 1 .. Len(q) : q'[k] = q[j]
      BY <1>0, <2>2, <2>4, IncomingPushElems, Zenon
    <3>2. Rank(to_guest[1]) <= Said
      BY <1>1, <1>2, <2>2, <2>4, Zenon DEF Ranked
    <3>3. Rank(to_guest[1]) <= 2
      BY <3>2, RankFacts DEF Said
    <3> QED
      BY <1>2, <1>3, <2>2, <3>1, <3>3, Zenon
  <2> QED
    BY <2>1, <2>3, <2>4 DEF Fetched
<1>8. CASE PromptTakesAck
  <2>1. /\ callback_thread_ = "ack" /\ q # <<>> /\ q' = Tail(q) /\ UNCHANGED s
    BY <1>8 DEF PromptTakesAck
  <2>2. IsTail(q', q) /\ Head(q) = q[1]
    BY <1>0, <2>1, TailFacts, ZenonT(30)
  <2>3. Len(q) > 0 /\ Rank(q[1]) <= 2 /\ q[1].cmd = "kCliAck"
    BY <1>2, <2>1, <2>2, SMTT(20) DEF IsTail, AwaitsAck
  <2>4. q[1].arg # "fail"
    BY <2>3, RankFacts, SMTT(20)
  <2>5. callback_thread_' = "setup"
    BY <1>8, <2>2, <2>3, <2>4, Zenon DEF PromptTakesAck
  <2>6. \A k \in 1 .. Len(q') : Rank(q'[k]) <= 2
    BY <1>2, <2>2, SMTT(20) DEF IsTail
  <2> QED
    BY <1>3, <2>1, <2>5, <2>6, Zenon
<1>9. CASE PromptBecomesInteractive
  BY <1>2, <1>3, <1>9, Zenon DEF PromptBecomesInteractive
<1>10. CASE PromptTakesInput
  <2>1. /\ q # <<>> /\ q' = Tail(q) /\ UNCHANGED s /\ user_or_abort' = Head(q)
        /\ callback_thread_' = "got"
    BY <1>10 DEF PromptTakesInput
  <2>2. IsTail(q', q) /\ Head(q) = q[1]
    BY <1>0, <2>1, TailFacts, Zenon
  <2>3. Rank(q[1]) <= 2 /\ \A k \in 1 .. Len(q') : Rank(q'[k]) <= 2
    BY <1>2, <2>2 DEF IsTail
  <2> QED
    BY <1>3, <2>1, <2>2, <2>3
<1>11. CASE PromptReturns
  <2>1. Rank(user_or_abort) = 2
    <3>1. callback_thread_ = "got"
      BY <1>11, Zenon DEF PromptReturns
    <3>2. Rank(user_or_abort) > 1 /\ Rank(user_or_abort) <= 2
      BY <1>2, <3>1 DEF AckedOnce
    <3> QED
      BY <3>2, RankFacts
  <2>2. user_or_abort.cmd = "kCliRespond"
    BY <2>1, RankFacts
  <2>3. SerializedSend(Msg("kStop", s, "none")) /\ callback_thread_ = "got"
    BY <1>11, <2>2, Zenon DEF PromptReturns
  <2>4. s \in Id
    BY <2>3, Zenon DEF Typed, GuestType
  <2>5. Msg("kStop", s, "none") \in ConfUiMessage /\ Ends(Msg("kStop", s, "none"))
    BY <2>4, MsgType DEF ConfUiCmd, Arg, Msg, Ends
  <2> QED
    BY <2>3, <2>5, GuestEndComing
<1> QED
  BY <1>4, <1>5, <1>6, <1>7, <1>8, <1>9, <1>10, <1>11, Zenon DEF GuestStep, CallbackThread

\* The CHECKs of the starting phase succeed.
LEMMA GuestFirstMessage ==
  ASSUME Typed, Starting, AwaitsAck, FirstMessageIsAck, GuestStep
  PROVE  FirstMessageIsAck'
<1> USE DEF FirstMessageIsAck
<1>1. CASE PromptUserConfirmation
  BY <1>1 DEF PromptUserConfirmation, Starting
<1>2. CASE PromptTakesAck
  <2>1. /\ callback_thread_ = "ack" /\ incoming_msg_queue_ # <<>>
        /\ incoming_msg_queue_ \in Seq(ConfUiMessage)
    BY <1>2 DEF PromptTakesAck, Typed, GuestType
  <2>2. Len(incoming_msg_queue_) > 0 /\ Head(incoming_msg_queue_) = incoming_msg_queue_[1]
    BY <2>1, TailFacts, Zenon DEF IsTail
  <2>3. Head(incoming_msg_queue_).cmd = "kCliAck"
    BY <2>1, <2>2, Zenon DEF AwaitsAck
  <2> QED
    BY <1>2, <2>3, Zenon DEF PromptTakesAck
<1>3. CASE GuestIdle \/ GuestStarts \/ GuestSends \/ HostMessageFetcherLoop
  BY <1>3, Zenon DEF GuestIdle, GuestStarts, GuestSends, HostMessageFetcherLoop
<1>4. CASE RunSession \/ PromptBecomesInteractive \/ PromptTakesInput \/ PromptReturns
           \/ RunSessionTerminates \/ ResultCallback
  BY <1>4 DEF RunSession, PromptBecomesInteractive, PromptTakesInput, PromptReturns,
     RunSessionTerminates, ResultCallback
<1> QED
  BY <1>1, <1>2, <1>3, <1>4 DEF GuestStep, CallbackThread

-----------------------------------------------------------------------------
(* The order is an invariant *)

MessageOrder ==
  /\ SessionShape /\ Starting /\ UserInputs /\ Numbered /\ Coming /\ Ranked
  /\ AwaitsAck /\ AckedOnce /\ Together /\ WaitStopGetsStop /\ FirstMessageIsAck

LEMMA InitMessageOrder == Init => MessageOrder
<1> SUFFICES ASSUME Init PROVE MessageOrder
  OBVIOUS
<1>1. /\ to_guest = <<>> /\ from_guest = <<>> /\ trouble = {} /\ incoming_msg_queue_ = <<>>
      /\ callback_thread_ = "none" /\ listener_state_ = "None"
      /\ current_session_ = 0 /\ current_session_id_ = 0 /\ curr_session_ = 0 /\ main = "pop"
      /\ input_thread = "idle"
  BY DEF Init, ConsoleInit, HostServerInit, TrustyInit, NoId
<1>2. \A i \in QueueIdx : queues_[i] = <<>>
  BY Zenon DEF Init, HostServerInit, MuxInit
<1>3. queues_[hal_cmd_q_id_] = <<>> /\ queues_[user_input_evt_q_id_] = <<>>
  BY <1>2, QueueIndices
<1>4. /\ Len(to_guest) = 0 /\ Len(from_guest) = 0 /\ Len(incoming_msg_queue_) = 0
      /\ Len(queues_[hal_cmd_q_id_]) = 0 /\ Len(queues_[user_input_evt_q_id_]) = 0
  BY <1>1, <1>3
<1>5. SessionShape
  BY DEF Init, HostServerInit, SessionShape
<1>6. Starting /\ UserInputs /\ Numbered /\ Coming
  <2>1. Starting
    BY <1>1 DEF Starting
  <2>2. UserInputs
    BY <1>1, <1>4 DEF UserInputs
  <2>3. Numbered
    BY <1>1, <1>4 DEF Numbered
  <2>4. StartLast(from_guest) /\ StartLast(queues_[hal_cmd_q_id_])
    BY <1>4, SMTT(20) DEF StartLast
  <2>5. Coming
    BY <1>1, <1>4, <2>4, Zenon DEF Coming
  <2> QED
    BY <2>1, <2>2, <2>3, <2>5
<1>7. Ranked /\ AwaitsAck /\ AckedOnce /\ Together
  BY <1>1, <1>4 DEF Ranked, AwaitsAck, AckedOnce, Together, Active, NoId
<1> QED
  BY <1>1, <1>5, <1>6, <1>7 DEF MessageOrder, WaitStopGetsStop, FirstMessageIsAck

LEMMA NextMessageOrder == Typed /\ MessageOrder /\ [Next]_vars => MessageOrder'
<1> SUFFICES ASSUME Typed, MessageOrder, [Next]_vars PROVE MessageOrder'
  OBVIOUS
<1>1. SessionShape' /\ Starting' /\ UserInputs'
  BY NextSessionShape, NextStarting, NextUserInputs, Zenon DEF MessageOrder
<1>2. CASE HostServerNext /\ UNCHANGED guestVars
  <2>1. HostStep /\ UNCHANGED guestView /\ UNCHANGED callback_thread_
    BY <1>2, HostSteps DEF MessageOrder, guestVars, guestView
  <2>2. Numbered'
    BY <1>2, <2>1, HostNumbered DEF MessageOrder
  <2>3. Coming' /\ Ranked' /\ AwaitsAck' /\ AckedOnce' /\ Together' /\ WaitStopGetsStop'
    BY <2>1, HostComing, HostRanked, HostAwaitsAck, HostAckedOnce, HostTogether, HostWaitStop
       DEF MessageOrder
  <2>4. FirstMessageIsAck'
    BY <2>1 DEF MessageOrder, FirstMessageIsAck
  <2> QED
    BY <1>1, <2>2, <2>3, <2>4 DEF MessageOrder
<1>3. CASE TrustyNext /\ UNCHANGED serverVars
  <2>1. GuestStep /\ UNCHANGED hostView
    BY <1>3, GuestSteps DEF MessageOrder, serverVars, hostVars, muxVars, sessionVars, hostView
  <2>2. Numbered' /\ Coming' /\ Ranked' /\ AwaitsAck' /\ AckedOnce' /\ Together'
    BY <1>3, <2>1, GuestNumbered, GuestComing, GuestRanked, GuestAwaitsAck, GuestAckedOnce,
       GuestTogether DEF MessageOrder
  <2>3. WaitStopGetsStop'
    BY <2>1, GuestEndComing DEF MessageOrder, WaitStopGetsStop
  <2>4. FirstMessageIsAck'
    BY <2>1, GuestFirstMessage DEF MessageOrder
  <2> QED
    BY <1>1, <2>2, <2>3, <2>4 DEF MessageOrder
<1>4. CASE UNCHANGED vars
  <2>1. UNCHANGED guestView /\ UNCHANGED hostView
        /\ UNCHANGED <<to_guest, from_guest, trouble, current_session_id_>>
    BY <1>4, Zenon DEF vars, consoleVars, guestVars, serverVars, hostVars, muxVars,
       sessionVars, guestView, hostView
  <2>2. Numbered' /\ Coming' /\ Ranked'
    BY <2>1, Zenon DEF MessageOrder, guestView, hostView, Numbered, Coming, StartLast, Waiting, Untold,
       Ranked, Active, Said
  <2>3. AwaitsAck' /\ AckedOnce'
    BY <2>1, Zenon DEF MessageOrder, guestView, hostView, AwaitsAck, AckBefore, AckedOnce, Active, Said
  <2>4. Together' /\ WaitStopGetsStop' /\ FirstMessageIsAck'
    BY <2>1 DEF MessageOrder, guestView, hostView, Together, EndComing, Active,
       WaitStopGetsStop, FirstMessageIsAck
  <2> QED
    BY <1>1, <2>2, <2>3, <2>4, Zenon DEF MessageOrder
<1> QED
  BY <1>2, <1>3, <1>4 DEF Next

LEMMA MessageOrderInvariant == Spec => [](Typed /\ MessageOrder)
  BY InitTyped, NextTyped, InitMessageOrder, NextMessageOrder, PTL DEF Spec

\* The CHECKs of GuestSession::PromptUserConfirmation() never abort the HAL: when it
\* starts a session nobody has moved the listener's state, and the first message it then
\* finds in its queue is the ack of its kStart. A late answer or abort of an earlier
\* session never gets in front of it, and the queue is never full while it waits, for any
\* number of sessions and any capacity above three.
THEOREM FirstMessageIsTheAck == Spec => []FirstMessageIsAck
<1>1. MessageOrder => FirstMessageIsAck
  BY DEF MessageOrder
<1> QED
  BY <1>1, MessageOrderInvariant, PTL

\* The LOG(FATAL) of Session::HandleWaitStop() needs a lost message: while no write of the
\* console failed and no full queue ignored an input, a host in kWaitStop reads the kStop
\* or kAbort of its session before it reads the next kStart, and so a kStart never finds
\* it in a session.
THEOREM WaitStopIsEnded == Spec => []WaitStopGetsStop
<1>1. MessageOrder => WaitStopGetsStop
  BY DEF MessageOrder
<1> QED
  BY <1>1, MessageOrderInvariant, PTL
-----------------------------------------------------------------------------
(* Whoever waits is answered *)

\* The kStart of the current session is on its way, or the host sets the session up.
StartComing == main = "init" \/ \E m : OnTheWay(m) /\ m.cmd = "kStart"

AckComing ==
  callback_thread_ = "ack" /\ trouble = {} => StartComing \/ AckBefore(Len(to_guest) + 1)

\* A kStart finds the host without a session.
LEMMA StartFindsNoSession ==
  ASSUME Coming, Together, trouble = {}, main = "input", input.cmd = "kStart"
  PROVE  curr_session_ = NoId
<1>1. /\ Len(from_guest) = 0 /\ Len(queues_[hal_cmd_q_id_]) = 0
      /\ curr_session_ # current_session_ /\ ~Ends(input)
  BY Zenon DEF Coming, Waiting, Ends
<1>2. ~EndComing
  BY <1>1, EmptyRange, ZenonT(30) DEF EndComing
<1> QED
  BY <1>1, <1>2 DEF Together, Active

LEMMA HostTrouble ==
  ASSUME HostStep
  PROVE  trouble \subseteq trouble'
  BY DEF HostStep, HostQuiet, HostPops, HostIgnores, HostCreates, HostAcks, HostResponds,
     HostEnds, HostCrashes, NoNewFatal, wires

\* What the host said stays said, and an ack to the current session is one.
LEMMA AckSaid ==
  ASSUME Typed, UNCHANGED guestView
  PROVE  /\ UNCHANGED to_guest /\ AckBefore(Len(to_guest) + 1) => AckBefore(Len(to_guest) + 1)'
         /\ \A m : Says(m) =>
              /\ AckBefore(Len(to_guest) + 1) => AckBefore(Len(to_guest) + 1)'
              /\ m.cmd = "kCliAck" /\ curr_session_ = current_session_ =>
                   AckBefore(Len(to_guest) + 1)'
<1>1. UNCHANGED <<incoming_msg_queue_, current_session_>>
  BY DEF guestView
<1>2. UNCHANGED to_guest /\ AckBefore(Len(to_guest) + 1) => AckBefore(Len(to_guest) + 1)'
  BY <1>1 DEF AckBefore
<1>3. ASSUME NEW m, Says(m)
      PROVE  /\ AckBefore(Len(to_guest) + 1) => AckBefore(Len(to_guest) + 1)'
             /\ m.cmd = "kCliAck" /\ curr_session_ = current_session_ =>
                  AckBefore(Len(to_guest) + 1)'
  <2>1. IsAppend(to_guest', to_guest, m) /\ m.id = curr_session_
    BY <1>3, SaysAppends DEF Says
  <2>2. /\ \A k \in 1 .. Len(to_guest) :
             k \in 1 .. Len(to_guest') /\ k < Len(to_guest') + 1 /\ to_guest'[k] = to_guest[k]
        /\ Len(to_guest') \in 1 .. Len(to_guest') /\ Len(to_guest') < Len(to_guest') + 1
        /\ to_guest'[Len(to_guest')] = m
    BY <2>1, SMTT(20) DEF IsAppend
  <2> QED
    BY <1>1, <2>1, <2>2, Zenon DEF AckBefore
<1> QED
  BY <1>2, <1>3, Zenon

LEMMA HostAckComing ==
  ASSUME Typed, SessionShape, Coming, Together, AckComing, HostStep, UNCHANGED guestView
  PROVE  AckComing'
<1> SUFFICES ASSUME callback_thread_' = "ack", trouble' = {}
             PROVE  StartComing' \/ AckBefore(Len(to_guest) + 1)'
  BY DEF AckComing
<1>1. callback_thread_ = "ack" /\ trouble = {}
  BY HostTrouble DEF guestView
<1>2. CASE AckBefore(Len(to_guest) + 1)
  <2>1. UNCHANGED to_guest \/ \E m : Says(m)
    BY ZenonT(30) DEF HostStep, HostQuiet, HostPops, HostIgnores, HostCreates, HostAcks, HostResponds,
       HostEnds, HostCrashes
  <2> QED
    BY <1>2, <2>1, AckSaid, Zenon
<1>3. CASE main = "init"
  <2>1. curr_session_ = current_session_
    BY <1>3, Zenon DEF Coming
  <2>2. CASE HostQuiet
    BY <1>3, <2>2 DEF HostQuiet, StartComing
  <2>3. CASE HostAcks \/ HostEnds
    <3>1. \E m : Says(m) /\ m.cmd = "kCliAck"
      BY <1>3, <2>3, RankFacts, Zenon DEF HostAcks, HostEnds
    <3> QED
      BY <2>1, <3>1, AckSaid, Zenon
  <2> QED
    BY <1>3, <2>2, <2>3 DEF HostStep, HostPops, HostIgnores, HostCreates, HostResponds, HostCrashes
<1>4. ASSUME NEW m, OnTheWay(m), m.cmd = "kStart", main # "init" PROVE StartComing'
  <2>1. CASE HostQuiet \/ HostPops
    BY <1>4, <2>1, WayKept DEF StartComing
  <2>2. CASE HostIgnores \/ HostResponds \/ HostEnds
    <3>1. main = "input" => input # m
      BY <1>1, <1>4, <2>2, StartFindsNoSession DEF HostIgnores, HostResponds, HostEnds
    <3>2. UNCHANGED <<from_guest, queues_>>
      BY <2>2 DEF HostIgnores, HostResponds, HostEnds, wires
    <3>3. OnTheWay(m)'
      BY <1>4, <3>1, <3>2 DEF OnTheWay
    <3> QED
      BY <1>4, <3>3 DEF StartComing
  <2>3. CASE HostCreates
    BY <2>3 DEF HostCreates, StartComing
  <2> QED
    BY <1>4, <2>1, <2>2, <2>3, Zenon DEF HostStep, HostCrashes, HostAcks
<1> QED
  BY <1>1, <1>2, <1>3, <1>4 DEF AckComing, StartComing

LEMMA GuestAckComing ==
  ASSUME Typed, Starting, AwaitsAck, AckComing, GuestStep, UNCHANGED hostView
  PROVE  AckComing'
<1> DEFINE q == incoming_msg_queue_
<1> SUFFICES ASSUME callback_thread_' = "ack", trouble' = {}
             PROVE  StartComing' \/ AckBefore(Len(to_guest) + 1)'
  BY DEF AckComing
<1>0. trouble = {} /\ UNCHANGED <<main, input, queues_>>
  BY GuestEndComing, Zenon DEF hostView
<1>1. CASE PromptUserConfirmation
  <2> DEFINE m == Msg("kStart", current_session_, "none")
  <2>1. SerializedSend(m) /\ callback_thread_ = "prompt"
    BY <1>1 DEF PromptUserConfirmation
  <2>2. current_session_ \in Id
    BY <2>1 DEF Typed, GuestType
  <2>3. m \in ConfUiMessage /\ m.cmd = "kStart"
    BY <2>2, MsgType DEF ConfUiCmd, Arg, Msg
  <2> HIDE DEF m
  <2>4. from_guest' = Append(from_guest, m)
    BY <2>1 DEF SerializedSend
  <2>5. IsAppend(from_guest', from_guest, m)
    BY <2>3, <2>4, AppendFacts DEF Typed, ConsoleType
  <2>6. Len(from_guest') \in 1 .. Len(from_guest') /\ from_guest'[Len(from_guest')] = m
    BY <2>5 DEF IsAppend
  <2> QED
    BY <2>3, <2>6 DEF StartComing, OnTheWay
<1>2. CASE callback_thread_ = "ack" /\ GuestIdle
  BY <1>0, <1>2, Zenon DEF GuestIdle, consoleVars, AckComing, StartComing, OnTheWay, AckBefore
<1>3. CASE callback_thread_ = "ack" /\ HostMessageFetcherLoop
  <2>1. Fetched
    BY <1>3, FetcherFetches, Zenon
  <2>2. CASE StartComing
    BY <1>0, <2>1, <2>2, Zenon DEF Fetched, StartComing, OnTheWay
  <2>3. Len(q) > 0 \/ to_guest[1].id = current_session_ => Len(q') > 0
    <3>1. CASE to_guest[1].id = current_session_ /\ IncomingPush(to_guest[1])
      <4>1. IsAppend(q', q, to_guest[1])
        BY <1>3, <2>1, <3>1, RoomForAck, Zenon DEF Fetched
      <4> QED
        BY <4>1 DEF IsAppend
    <3> QED
      BY <2>1, <3>1 DEF Fetched
  <2>4. ASSUME NEW i \in 1 .. Len(to_guest), to_guest[i].id = current_session_,
               to_guest[i].cmd = "kCliAck", i # 1
        PROVE  AckBefore(Len(to_guest) + 1)'
    <3>1. i - 1 \in 1 .. Len(to_guest') /\ i - 1 < Len(to_guest') + 1 /\ to_guest'[i - 1] = to_guest[i]
      BY <2>1, <2>4 DEF Fetched, IsTail
    <3> QED
      BY <2>1, <2>4, <3>1, Zenon DEF Fetched, AckBefore
  <2>5. CASE AckBefore(Len(to_guest) + 1)
    BY <2>3, <2>4, <2>5, ZenonT(30) DEF AckBefore
  <2> QED
    BY <1>0, <1>3, <2>2, <2>5 DEF AckComing
<1> QED
  BY <1>1, <1>2, <1>3, StepsToAck, Zenon

\* The host waits for kStop: the answer for which the HAL sends it is on its way.
ReplyComing ==
  \/ \E k \in 1 .. Len(to_guest) :
       to_guest[k].id = curr_session_ /\ to_guest[k].cmd = "kCliRespond"
  \/ \E k \in 1 .. Len(incoming_msg_queue_) : incoming_msg_queue_[k].cmd = "kCliRespond"
  \/ callback_thread_ = "got" /\ user_or_abort.cmd = "kCliRespond"

StopComing ==
  Active /\ state_ = "kWaitStop" /\ trouble = {} /\ ~EndComing => ReplyComing

LEMMA HostStopComing ==
  ASSUME Typed, StopComing, HostStep, UNCHANGED guestView
  PROVE  StopComing'
<1> SUFFICES ASSUME Active', state_' = "kWaitStop", trouble' = {}, ~EndComing'
             PROVE  ReplyComing'
  BY DEF StopComing
<1>1. CASE HostQuiet \/ HostPops \/ HostIgnores
  <2>1. /\ Active /\ UNCHANGED <<to_guest, curr_session_, state_>> /\ trouble = {}
    BY <1>1, HostTrouble DEF HostQuiet, HostPops, HostIgnores, Active
  <2>2. ~EndComing
    BY <1>1, <2>1, EndKept DEF Active
  <2>3. ReplyComing
    BY <2>1, <2>2 DEF StopComing
  <2> QED
    BY <2>1, <2>3, Zenon DEF ReplyComing, guestView
<1>2. CASE HostResponds
  <2>1. PICK m : Says(m) /\ m.cmd = "kCliRespond" /\ UNCHANGED curr_session_
    BY <1>2, RankFacts DEF HostResponds
  <2>2. IsAppend(to_guest', to_guest, m) /\ m.id = curr_session_'
    BY <2>1, SaysAppends DEF Says
  <2>3. Len(to_guest') \in 1 .. Len(to_guest') /\ to_guest'[Len(to_guest')] = m
    BY <2>2 DEF IsAppend
  <2> QED
    BY <2>1, <2>2, <2>3, Zenon DEF ReplyComing
<1> QED
  BY <1>1, <1>2 DEF HostStep, HostCreates, HostAcks, HostEnds, HostCrashes, Active

LEMMA RestOfSeq ==
  ASSUME NEW S, NEW s \in Seq(S), NEW h \in Nat, h <= Len(s)
  PROVE  SubSeq(s, h + 1, Len(s)) \in Seq(S) /\ Len(SubSeq(s, h + 1, Len(s))) = Len(s) - h
  OBVIOUS

\* A message pushed to the session is in its queue, whatever the queue dropped for it.
LEMMA PushedIsIn ==
  ASSUME Typed, NEW m \in ConfUiMessage, IncomingPush(m)
  PROVE  \E k \in 1 .. Len(incoming_msg_queue_') : incoming_msg_queue_'[k] = m
<1> DEFINE q == incoming_msg_queue_
           len == Len(q)
           half == SubSeq(q, (len \div 2) + 1, len)
<1>1. q \in Seq(ConfUiMessage) /\ len \in Nat
  BY NumberTypes DEF Typed, GuestType
<1>2. PICK kept \in Seq(ConfUiMessage) : Len(kept) # incoming_capacity /\ q' = Append(kept, m)
  <2>1. CASE len # incoming_capacity
    BY <1>1, <2>1 DEF IncomingPush
  <2>2. CASE len = incoming_capacity
    <3>1. len \div 2 \in Nat /\ 1 <= len \div 2 /\ len \div 2 <= len
      BY <1>1, <2>2, IncomingAssumption
    <3>2. half \in Seq(ConfUiMessage) /\ Len(half) = len - (len \div 2)
      BY <1>1, <3>1, RestOfSeq, Zenon
    <3>3. Len(half) # incoming_capacity
      BY <1>1, <2>2, <3>1, <3>2
    <3>4. q' = Append(half, m)
      BY <2>2, <3>3, Zenon DEF IncomingPush
    <3> QED
      BY <3>2, <3>3, <3>4, Zenon
  <2> QED
    BY <2>1, <2>2
<1>3. IsAppend(q', kept, m)
  BY <1>2, AppendFacts
<1>4. Len(q') \in 1 .. Len(q') /\ q'[Len(q')] = m
  BY <1>3 DEF IsAppend
<1> QED
  BY <1>4, Zenon

LEMMA GuestStopComing ==
  ASSUME Typed, Ranked, AwaitsAck, AckedOnce, Together, StopComing, GuestStep,
         UNCHANGED hostView
  PROVE  StopComing'
<1> DEFINE q == incoming_msg_queue_
           s == current_session_
<1> SUFFICES ASSUME Active', state_' = "kWaitStop", trouble' = {}, ~EndComing'
             PROVE  ReplyComing'
  BY ZenonT(30) DEF StopComing
<1>0. q \in Seq(ConfUiMessage) /\ Len(q) \in Nat
  BY NumberTypes DEF Typed, GuestType
<1>1. UNCHANGED <<curr_session_, state_, main>> /\ Active /\ trouble = {} /\ ~EndComing
  BY GuestEndComing DEF hostView, Active
<1>2. /\ curr_session_ = s /\ callback_thread_ \in {"ack", "setup", "pop", "got"}
      /\ \A k \in 1 .. Len(q) : Rank(q[k]) <= 2
      /\ callback_thread_ = "got" => Rank(user_or_abort) <= 2
  BY <1>1 DEF Together
<1>3. ReplyComing
  BY <1>1, Zenon DEF StopComing
<1>4. callback_thread_ = "got" => user_or_abort.cmd = "kCliRespond"
  BY <1>2, RankFacts DEF AckedOnce
<1>5. CASE GuestIdle \/ PromptBecomesInteractive
  BY <1>1, <1>3, <1>5, Zenon DEF GuestIdle, PromptBecomesInteractive, callbackRest, consoleVars,
     ReplyComing
<1>6. CASE GuestStarts \/ RunSession \/ PromptUserConfirmation \/ RunSessionTerminates
           \/ ResultCallback
  BY <1>2, <1>6, Zenon DEF GuestStarts, RunSession, PromptUserConfirmation, RunSessionTerminates,
     ResultCallback
<1>7. CASE GuestSends
  <2>1. UNCHANGED <<callback_thread_, user_or_abort, to_guest>>
    BY <1>7 DEF GuestSends
  <2>2. PICK m \in ConfUiMessage :
          SerializedSend(m) /\ (UNCHANGED q \/ (m.cmd = "kAbort" /\ IncomingPush(m)))
    BY <1>7 DEF GuestSends
  <2>3. m.cmd # "kAbort"
    BY <2>2, GuestEndComing DEF Ends
  <2> QED
    BY <1>1, <1>3, <2>1, <2>2, <2>3, Zenon DEF ReplyComing
<1>8. CASE HostMessageFetcherLoop
  <2> DEFINE m == to_guest[1]
  <2>1. Fetched
    BY <1>8, FetcherFetches, Zenon
  <2>2. /\ UNCHANGED <<callback_thread_, s, user_or_abort>>
        /\ m \in ConfUiMessage /\ 1 \in 1 .. Len(to_guest)
    BY <2>1 DEF Fetched, IsTail
  <2>3. CASE callback_thread_ = "got"
    BY <1>4, <2>2, <2>3, Zenon DEF ReplyComing
  <2>4. ASSUME m.id = s, m.cmd = "kCliRespond" PROVE ReplyComing'
    <3>1. IncomingPush(m)
      BY <2>1, <2>4 DEF Fetched
    <3>2. \E k \in 1 .. Len(q') : q'[k] = m
      BY <2>2, <3>1, PushedIsIn, Zenon
    <3> QED
      BY <2>4, <3>2, ZenonT(30) DEF ReplyComing
  <2>5. ASSUME NEW k \in 1 .. Len(to_guest), to_guest[k].id = s,
               to_guest[k].cmd = "kCliRespond"
        PROVE  ReplyComing'
    <3>1. CASE k = 1
      BY <2>4, <2>5, <3>1, Zenon
    <3>2. CASE k # 1
      <4>1. k - 1 \in 1 .. Len(to_guest') /\ to_guest'[k - 1] = to_guest[k]
        BY <2>1, <3>2 DEF Fetched, IsTail
      <4> QED
        BY <1>1, <1>2, <2>5, <4>1, Zenon DEF ReplyComing
    <3> QED
      BY <3>1, <3>2
  <2>6. ASSUME NEW k \in 1 .. Len(q), q[k].cmd = "kCliRespond",
               callback_thread_ \in {"ack", "setup", "pop"}
        PROVE  ReplyComing'
    <3>1. CASE UNCHANGED q
      BY <2>6, <3>1, Zenon DEF ReplyComing
    <3>2. CASE m.id = s /\ IncomingPush(m) /\ callback_thread_ = "ack"
      <4>1. IsAppend(q', q, m)
        BY <2>2, <3>2, RoomForAck, Zenon
      <4>2. k \in 1 .. Len(q') /\ q'[k] = q[k]
        BY <4>1 DEF IsAppend
      <4> QED
        BY <2>6, <4>2 DEF ReplyComing
    <3>3. CASE m.id = s /\ IncomingPush(m) /\ callback_thread_ \in {"setup", "pop"}
      <4>1. Rank(m) > 1 /\ Rank(m) <= Said
        BY <1>1, <1>2, <2>2, <3>3, Zenon DEF AckedOnce, Ranked
      <4>2. m.cmd = "kCliRespond"
        BY <4>1, RankFacts DEF Said
      <4> QED
        BY <2>4, <3>3, <4>2, Zenon
    <3> QED
      BY <2>1, <2>6, <3>1, <3>2, <3>3, Zenon DEF Fetched
  <2> QED
    BY <1>2, <1>3, <2>3, <2>5, <2>6, Zenon DEF ReplyComing
<1>9. CASE PromptTakesAck
  <2>1. /\ callback_thread_ = "ack" /\ q # <<>> /\ q' = Tail(q) /\ UNCHANGED to_guest
    BY <1>9 DEF PromptTakesAck, callbackRest
  <2>2. IsTail(q', q)
    BY <1>0, <2>1, TailFacts, Zenon
  <2>3. q[1].cmd = "kCliAck"
    BY <2>1, <2>2, Zenon DEF IsTail, AwaitsAck
  <2>4. ASSUME NEW k \in 1 .. Len(q), q[k].cmd = "kCliRespond"
        PROVE  k - 1 \in 1 .. Len(q') /\ q'[k - 1] = q[k]
    BY <2>2, <2>3, <2>4 DEF IsTail
  <2> QED
    BY <1>1, <1>3, <2>1, <2>4 DEF ReplyComing
<1>10. CASE PromptTakesInput
  <2>1. /\ callback_thread_ = "pop" /\ callback_thread_' = "got"
        /\ q # <<>> /\ user_or_abort' = Head(q)
    BY <1>10 DEF PromptTakesInput
  <2>2. Head(q) = q[1] /\ 1 \in 1 .. Len(q)
    BY <1>0, <2>1, TailFacts DEF IsTail
  <2>3. Rank(q[1]) > 1 /\ Rank(q[1]) <= 2
    BY <1>2, <2>1, <2>2, Zenon DEF AckedOnce
  <2>4. q[1].cmd = "kCliRespond"
    BY <2>3, RankFacts
  <2> QED
    BY <2>1, <2>2, <2>4 DEF ReplyComing
<1>11. CASE PromptReturns
  <2>1. callback_thread_ = "got" /\ SerializedSend(Msg("kStop", s, "none"))
    BY <1>4, <1>11, Zenon DEF PromptReturns
  <2>2. s \in Id
    BY <2>1, Zenon DEF Typed, GuestType
  <2>3. Msg("kStop", s, "none") \in ConfUiMessage /\ Ends(Msg("kStop", s, "none"))
    BY <2>2, MsgType DEF ConfUiCmd, Arg, Msg, Ends
  <2> QED
    BY <2>1, <2>3, GuestEndComing
<1> QED
  BY <1>5, <1>6, <1>7, <1>8, <1>9, <1>10, <1>11, Zenon DEF GuestStep, CallbackThread

WaitersInv == Locks /\ AckComing /\ StopComing

LEMMA InitWaiters == Init => WaitersInv
<1> SUFFICES ASSUME Init PROVE AckComing /\ StopComing
  BY InitLocks DEF WaitersInv
<1>1. callback_thread_ = "none" /\ curr_session_ = NoId
  BY DEF Init, HostServerInit, TrustyInit
<1> QED
  BY <1>1 DEF AckComing, StopComing, Active

LEMMA NextWaiters == Typed /\ MessageOrder /\ WaitersInv /\ [Next]_vars => WaitersInv'
<1> SUFFICES ASSUME Typed, MessageOrder, WaitersInv, [Next]_vars PROVE WaitersInv'
  OBVIOUS
<1>1. Locks'
  BY NextLocks, Zenon DEF MessageOrder, WaitersInv
<1>2. CASE HostServerNext /\ UNCHANGED guestVars
  <2>1. HostStep /\ UNCHANGED guestView
    BY <1>2, HostSteps DEF MessageOrder, guestVars, guestView
  <2> QED
    BY <1>1, <2>1, HostAckComing, HostStopComing, Zenon DEF MessageOrder, WaitersInv
<1>3. CASE TrustyNext /\ UNCHANGED serverVars
  <2>1. GuestStep /\ UNCHANGED hostView
    BY <1>3, GuestSteps DEF MessageOrder, serverVars, hostVars, muxVars, sessionVars, hostView
  <2> QED
    BY <1>1, <2>1, GuestAckComing, GuestStopComing, Zenon DEF MessageOrder, WaitersInv
<1>4. CASE UNCHANGED vars
  <2>1. UNCHANGED guestView /\ UNCHANGED hostView /\ UNCHANGED <<to_guest, from_guest, trouble>>
    BY <1>4, Zenon DEF vars, consoleVars, guestVars, serverVars, hostVars, muxVars,
       sessionVars, guestView, hostView
  <2>2. AckComing'
    BY <2>1, Zenon DEF WaitersInv, guestView, hostView, AckComing, StartComing, OnTheWay, AckBefore
  <2>3. StopComing'
    BY <2>1, Zenon DEF WaitersInv, guestView, hostView, StopComing, ReplyComing, EndComing, Active
  <2> QED
    BY <1>1, <2>2, <2>3 DEF WaitersInv
<1> QED
  BY <1>2, <1>3, <1>4, Zenon DEF Next

LEMMA WaitersInvariant == Spec => [](Typed /\ MessageOrder /\ WaitersInv)
<1>1. Spec => [](Typed /\ MessageOrder)
  BY MessageOrderInvariant
<1> QED
  BY <1>1, InitWaiters, NextWaiters, PTL DEF Spec

\* The two locks of the HAL are never held together. Who holds listener_state_lock_ waits
\* for nobody that needs a lock: a call that joins the callback thread finds it past its
\* last use of one, and the callback thread that awaits its ack leaves current_session_lock_
\* to the fetcher that brings it. A call that waits for the end of kSetupDone waits for
\* a thread that is about to end it.
NoLockCycle ==
  /\ listener_state_lock_ = "nobody" \/ current_session_lock_ = "nobody"
  /\ listener_state_lock_ = "binder" => callback_thread_ \in {"none", "callback"}
  /\ listener_state_lock_ = "callback_thread_" => callback_thread_ = "ack"
  /\ listener_state_ = "SetupDone" => callback_thread_ = "setup"

\* promptUserConfirmation(), deliverSecureInputEvent(), abort(), the callback thread and
\* HostMessageFetcherLoop() never wait for each other in a circle, with the one binder
\* thread that main() gives the HAL.
THEOREM LocksDoNotCycle == Spec => []NoLockCycle
<1>1. Typed /\ MessageOrder /\ WaitersInv => NoLockCycle
  <2> SUFFICES ASSUME Typed, MessageOrder, Locks PROVE NoLockCycle
    BY DEF WaitersInv
  <2>1. callback_thread_ # "aborted"
    BY DEF MessageOrder, FirstMessageIsAck
  <2>2. listener_state_lock_ = "nobody" \/ current_session_lock_ = "nobody"
    BY DEF Locks, Typed, GuestType
  <2> QED
    BY <2>1, <2>2 DEF Locks, NoLockCycle
<1> QED
  BY <1>1, WaitersInvariant, PTL

\* The HAL that awaits the ack of its kStart awaits something: the kStart is on its way to
\* a host that has no session when it reads it, or the host sets this session up, or the
\* ack is on its way back.
AckOnItsWay ==
  callback_thread_ = "ack" /\ trouble = {} =>
    \/ \E m \in ConfUiMessage :
         /\ OnTheWay(m) /\ m.cmd = "kStart" /\ m.id = current_session_
         /\ main = "input" /\ input = m => curr_session_ = NoId
    \/ main = "init" /\ curr_session_ = current_session_
    \/ \E k \in 1 .. Len(to_guest) :
         to_guest[k].id = current_session_ /\ to_guest[k].cmd = "kCliAck"
    \/ Len(incoming_msg_queue_) > 0

\* PromptUserConfirmation() never waits in vain for the ack of its kStart, unless a message
\* was lost or the host crashed: the step from kStart to kCliAck that PromptCallReturns
\* follows under fairness is always under way, for any number of sessions.
THEOREM AckIsComing == Spec => []AckOnItsWay
<1>1. Typed /\ MessageOrder /\ WaitersInv => AckOnItsWay
  <2> SUFFICES ASSUME Typed, MessageOrder, AckComing, callback_thread_ = "ack", trouble = {}
               PROVE  AckOnItsWay
    BY Zenon DEF WaitersInv, AckOnItsWay
  <2>1. CASE main = "init"
    BY <2>1 DEF MessageOrder, Coming, AckOnItsWay
  <2>2. ASSUME NEW m, OnTheWay(m), m.cmd = "kStart" PROVE AckOnItsWay
    <3>1. m.id = current_session_
      BY <2>2 DEF MessageOrder, Coming, StartLast, OnTheWay
    <3>2. from_guest \in Seq(ConfUiMessage) /\ queues_[hal_cmd_q_id_] \in Seq(ConfUiMessage)
      BY QueueIndices DEF Typed, ConsoleType, HostType
    <3>3. m \in ConfUiMessage
      <4>1. CASE main = "input" /\ input = m
        BY <4>1, Zenon DEF Typed, HostType
      <4>2. ASSUME NEW k \in 1 .. Len(from_guest), from_guest[k] = m PROVE m \in ConfUiMessage
        BY <3>2, <4>2
      <4>3. ASSUME NEW k \in 1 .. Len(queues_[hal_cmd_q_id_]), queues_[hal_cmd_q_id_][k] = m
            PROVE  m \in ConfUiMessage
        BY <3>2, <4>3
      <4> QED
        BY <2>2, <4>1, <4>2, <4>3, Zenon DEF OnTheWay
    <3>4. main = "input" /\ input = m => curr_session_ = NoId
      BY <2>2, StartFindsNoSession DEF MessageOrder
    <3> QED
      BY <2>2, <3>1, <3>3, <3>4, ZenonT(30) DEF AckOnItsWay
  <2>3. CASE AckBefore(Len(to_guest) + 1)
    BY <2>3, Zenon DEF AckBefore, AckOnItsWay
  <2> QED
    BY <2>1, <2>2, <2>3, Zenon DEF AckComing, StartComing
<1> QED
  BY <1>1, WaitersInvariant, PTL

\* The host in kWaitStop waits for something: the kStop or kAbort of the HAL is on its
\* way, or the HAL is in the session and the answer it follows with kStop is on its way to
\* it, in its queue or in its hands.
StopOnItsWay ==
  state_ = "kWaitStop" /\ trouble = {} =>
    \/ \E m \in ConfUiMessage : OnTheWay(m) /\ Ends(m)
    \/ /\ curr_session_ = current_session_
       /\ callback_thread_ \in {"ack", "setup", "pop", "got"}
       /\ ReplyComing

\* A session of the host in kWaitStop is never forgotten by the HAL, unless a message was
\* lost or the host crashed: the end that WaitStopEnds promises under fairness is always
\* under way, even when the HAL's queue is full and drops its older half.
THEOREM StopIsComing == Spec => []StopOnItsWay
<1>1. Typed /\ MessageOrder /\ WaitersInv => StopOnItsWay
  <2> SUFFICES ASSUME Typed, MessageOrder, StopComing, state_ = "kWaitStop", trouble = {}
               PROVE  StopOnItsWay
    BY DEF WaitersInv, StopOnItsWay
  <2>1. Active
    BY DEF MessageOrder, SessionShape, Active
  <2>2. CASE EndComing
    <3>1. PICK m : OnTheWay(m) /\ Ends(m)
      BY <2>2 DEF EndComing, OnTheWay
    <3>2. from_guest \in Seq(ConfUiMessage) /\ queues_[hal_cmd_q_id_] \in Seq(ConfUiMessage)
      BY QueueIndices, ZenonT(30) DEF Typed, ConsoleType, HostType
    <3>3. m \in ConfUiMessage
      BY <3>1, <3>2 DEF OnTheWay, Typed, HostType
    <3> QED
      BY <3>1, <3>3, Zenon DEF StopOnItsWay
  <2>3. CASE ~EndComing
    BY <2>1, <2>3 DEF MessageOrder, StopComing, Together, StopOnItsWay
  <2> QED
    BY <2>2, <2>3
<1> QED
  BY <1>1, WaitersInvariant, PTL

\* The callback thread of a session has something that makes it leave the session, or is
\* leaving it.
Leaving ==
  \/ callback_thread_ \in {"setup", "pop"} /\ Len(incoming_msg_queue_) > 0
  \/ callback_thread_ \in {"got", "ret"}

\* What abort() gives the session it finds makes the session end: it is there when abort()
\* returns, and stays until the session has ended. Nothing of this depends on the host.
AbortIsHeeded ==
  /\ Abort /\ listener_state_ \in {"SetupDone", "Interactive"} => Leaving'
  /\ Leaving => Leaving' \/ listener_state_' \notin {"SetupDone", "Interactive"}

LEMMA StepAborts == Typed /\ Locks /\ Starting /\ [Next]_vars => AbortIsHeeded
<1> SUFFICES ASSUME Typed, Locks, Starting, [Next]_vars PROVE AbortIsHeeded
  BY ZenonT(30)
<1>1. incoming_msg_queue_ \in Seq(ConfUiMessage) /\ Len(incoming_msg_queue_) \in Nat
  BY NumberTypes DEF Typed, GuestType
<1>2. ASSUME NEW m \in ConfUiMessage, IncomingPush(m) PROVE Len(incoming_msg_queue_') > 0
  <2>1. incoming_msg_queue_' \in Seq(ConfUiMessage)
    BY <1>1, <1>2, IncomingPushElems, Zenon
  <2> QED
    BY <1>2, <2>1, PushedIsIn
<1>3. ASSUME Abort, listener_state_ \in {"SetupDone", "Interactive"} PROVE Leaving'
  <2>1. callback_thread_ \in {"setup", "pop", "got", "ret"}
    BY <1>3 DEF Locks
  <2>2. current_session_ \in Id
    <3>1. binder \cap {"deliver", "abort"} # {}
      BY <1>3, Zenon DEF Abort
    <3> QED
      BY <3>1, Zenon DEF Typed, GuestType
  <2>3. Msg("kAbort", current_session_, "none") \in ConfUiMessage
    BY <2>2, MsgType DEF ConfUiCmd, Arg
  <2>4. Len(incoming_msg_queue_') > 0 /\ callback_thread_' = callback_thread_
    BY <1>2, <1>3, <2>3, Zenon DEF Abort, SessionCallReturns
  <2> QED
    BY <2>1, <2>4 DEF Leaving
<1>4. ASSUME Leaving PROVE Leaving' \/ listener_state_' \notin {"SetupDone", "Interactive"}
  <2>1. CASE UNCHANGED <<callback_thread_, incoming_msg_queue_>>
    BY <1>4, <2>1, Zenon DEF Leaving
  <2>2. CASE Abort
    <3>1. CASE listener_state_ \in {"SetupDone", "Interactive"}
      BY <1>3, <2>2, <3>1, Zenon
    <3>2. CASE listener_state_ \notin {"SetupDone", "Interactive"}
      BY <2>1, <2>2, <3>2, Zenon DEF Abort, SessionCallReturns
    <3> QED
      BY <3>1, <3>2
  <2>3. CASE HostMessageFetcherLoop
    <3>1. Len(incoming_msg_queue_') > 0 \/ UNCHANGED incoming_msg_queue_
      <4>1. Head(to_guest) \in ConfUiMessage
        BY <2>3 DEF HostMessageFetcherLoop, Typed, ConsoleType
      <4> QED
        BY <1>2, <2>3, <4>1, Zenon DEF HostMessageFetcherLoop
    <3> QED
      BY <1>4, <2>3, <3>1, Zenon DEF HostMessageFetcherLoop, Leaving
  <2>4. CASE promptUserConfirmation \/ promptJoined
    BY <2>4 DEF promptUserConfirmation, promptJoined, StartCallbackThread
  <2>5. CASE promptJoins \/ promptWakes \/ promptFails \/ deliverSecureInputEvent \/ abort
             \/ DeliverSecureInputEvent
    BY <2>1, <2>5, Zenon DEF promptJoins, promptWakes, promptFails, deliverSecureInputEvent, abort,
       SessionCall, DeliverSecureInputEvent, SessionCallReturns, sessionData
  <2>6. CASE RunSession \/ PromptUserConfirmation \/ PromptTakesAck \/ ResultCallback
    BY <1>4, <2>6 DEF RunSession, PromptUserConfirmation, PromptTakesAck, ResultCallback, Leaving
  <2>7. CASE PromptBecomesInteractive
    BY <1>4, <2>7 DEF PromptBecomesInteractive, Leaving
  <2>8. CASE PromptTakesInput \/ PromptReturns
    BY <2>8 DEF PromptTakesInput, PromptReturns, Leaving
  <2>9. CASE RunSessionTerminates
    BY <2>9 DEF RunSessionTerminates
  <2>10. CASE UNCHANGED guestVars \/ HostMessageFetcherReturns
    BY <2>1, <2>10, Zenon DEF guestVars, HostMessageFetcherReturns, sessionData
  <2> QED
    BY <2>2, <2>3, <2>4, <2>5, <2>6, <2>7, <2>8, <2>9, <2>10, Zenon
    DEF Next, TrustyNext, BinderStep, BinderCall, CallbackThread, vars
<1> QED
  BY <1>3, <1>4, Zenon DEF AbortIsHeeded

\* An abort() that finds a session is not lost on it, whatever happens to the console and
\* to the host: the safety half of AbortEndsSession, for any capacity of the queue.
THEOREM AbortReachesSession == Spec => [][AbortIsHeeded]_vars
<1>1. Typed /\ MessageOrder /\ WaitersInv /\ [Next]_vars => [AbortIsHeeded]_vars
  BY StepAborts, Zenon DEF WaitersInv, MessageOrder
<1> QED
  BY <1>1, WaitersInvariant, PTL DEF Spec
=============================================================================
