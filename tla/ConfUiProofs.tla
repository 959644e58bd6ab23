---------------------------- MODULE ConfUiProofs ----------------------------
(***************************************************************************)
(* Proofs about ConfUi, for any number of sessions, touches and calls, any *)
(* capacity of the queues, and a console that may or may not fail.         *)
(***************************************************************************)
EXTENDS ConfUi, TLAPS

\* TypeOK in three parts, with what each part needs to stay typed: a message that
\* is sent names a session, so a thread that is about to send one knows a session.
ConsoleType ==
  /\ from_guest \in Seq(ConfUiMessage) /\ to_guest \in Seq(ConfUiMessage)
  /\ trouble \in SUBSET Troubles

HostType ==
  /\ queues_ \in [QueueIdx -> Seq(ConfUiMessage)] /\ count_ \in Nat
  /\ hal_fetcher \in {"recv", "post"}
  /\ input_thread \in {"idle", "state", "ready", "push", "post"}
  /\ touch \in ConfUiMessage \cup {NoMsg}
  /\ main \in {"pop", "input", "init"}
  /\ input \in ConfUiMessage \cup {NoMsg}
  /\ curr_session_ \in Id \cup {NoId}
  /\ state_ \in {"none", "kInit", "kInSession", "kWaitStop"}
  /\ grace \in {"none", "running", "over"}
  /\ mode \in {"kAndroidMode", "kConfUI_Mode"}
  /\ responses \subseteq Id \X UserResponse
  /\ touches \in 0 .. MaxTouch
  /\ input_thread # "idle" => touch \in ConfUiMessage
  /\ main # "pop" => input \in ConfUiMessage
  /\ main = "init" => curr_session_ # NoId

GuestType ==
  /\ binder \in SUBSET {"wait", "join", "fail", "deliver", "abort"}
  /\ callback_thread_ \in {"none", "run", "prompt", "ack", "setup", "pop", "got",
                           "ret", "callback", "aborted"}
  /\ listener_state_ \in ListenerState
  /\ listener_state_lock_ \in {"nobody", "binder", "callback_thread_"}
  /\ current_session_lock_ \in {"nobody", "binder"}
  /\ current_session_id_ \in 0 .. MaxSession
  /\ current_session_ \in Id \cup {NoId}
  /\ incoming_msg_queue_ \in Seq(ConfUiMessage)
  /\ user_or_abort \in ConfUiMessage \cup {NoInput}
  /\ prompt_result_ \in Result
  /\ calls \in 0 .. MaxCall
  /\ host_cmd_fetcher_thread_ \in {"loop", "returned"}
  /\ callback_thread_ = "run" => current_session_id_ > 0
  /\ callback_thread_ \notin {"none", "run"} => current_session_ # NoId
  /\ binder \cap {"deliver", "abort"} # {} => current_session_ # NoId

Typed == ConsoleType /\ HostType /\ GuestType

LEMMA TypedIsTypeOK == Typed => TypeOK
  BY DEF Typed, ConsoleType, HostType, GuestType, TypeOK

LEMMA EmptyIsSeq == <<>> \in Seq(ConfUiMessage)
<1> DEFINE S == ConfUiMessage
<1>1. <<>> \in Seq(S)
  <2> HIDE DEF S
  <2> QED
    OBVIOUS
<1> QED
  BY <1>1

LEMMA MsgType ==
  ASSUME NEW c \in ConfUiCmd, NEW i \in Id, NEW a \in Arg
  PROVE  Msg(c, i, a) \in ConfUiMessage
  BY DEF Msg, ConfUiMessage

LEMMA SeqFacts ==
  ASSUME NEW S, NEW s \in Seq(S), NEW e \in S
  PROVE  /\ Append(s, e) \in Seq(S) /\ Len(Append(s, e)) = Len(s) + 1
         /\ Len(s) \in Nat
         /\ \A k \in 1 .. Len(s) : Append(s, e)[k] = s[k]
         /\ Append(s, e)[Len(s) + 1] = e
         /\ s # <<>> => /\ Tail(s) \in Seq(S) /\ Len(Tail(s)) = Len(s) - 1
                        /\ Head(s) \in S /\ Head(s) = s[1] /\ Len(s) > 0
                        /\ \A k \in 1 .. Len(Tail(s)) : Tail(s)[k] = s[k + 1]
  OBVIOUS

\* p is q with one more message at its end, or without its first one.
IsAppend(p, q, m) ==
  /\ Len(q) \in Nat /\ Len(p) = Len(q) + 1 /\ p[Len(q) + 1] = m
  /\ \A k \in 1 .. Len(q) : p[k] = q[k]

IsTail(p, q) ==
  /\ Len(q) \in Nat /\ Len(q) > 0 /\ Len(p) = Len(q) - 1
  /\ \A k \in 1 .. Len(p) : p[k] = q[k + 1]

LEMMA AppendFacts ==
  ASSUME NEW q \in Seq(ConfUiMessage), NEW m \in ConfUiMessage
  PROVE  IsAppend(Append(q, m), q, m)
  BY SeqFacts DEF IsAppend

LEMMA TailFacts ==
  ASSUME NEW q \in Seq(ConfUiMessage), q # <<>>
  PROVE  IsTail(Tail(q), q) /\ Head(q) = q[1] /\ q[1] \in ConfUiMessage
<1>1. PICK m \in ConfUiMessage : TRUE
  BY SeqFacts
<1> QED
  BY <1>1, SeqFacts DEF IsTail

\* IncomingPush() keeps some of the messages and adds at most the new one.
LEMMA IncomingPushElems ==
  ASSUME incoming_msg_queue_ \in Seq(ConfUiMessage), NEW m \in ConfUiMessage,
         IncomingPush(m)
  PROVE  /\ incoming_msg_queue_' \in Seq(ConfUiMessage)
         /\ \A k \in 1 .. Len(incoming_msg_queue_') :
              \/ incoming_msg_queue_'[k] = m
              \/ \E j \in 1 .. Len(incoming_msg_queue_) :
                   incoming_msg_queue_'[k] = incoming_msg_queue_[j]
<1> DEFINE q == incoming_msg_queue_
           len == Len(q)
           half == SubSeq(q, (len \div 2) + 1, len)
<1>1. len \in Nat
  OBVIOUS
<1>2. half \in Seq(ConfUiMessage) /\ \A k \in 1 .. Len(half) :
        \E j \in 1 .. len : half[k] = q[j]
  <2>1. len \div 2 \in Nat /\ len \div 2 <= len
    BY <1>1
  <2>2. \A k \in 1 .. Len(half) : half[k] = q[(len \div 2) + k] /\ (len \div 2) + k <= len
    BY <1>1, <2>1
  <2>3. half \in Seq(ConfUiMessage)
    BY <1>1, <2>1
  <2> QED
    BY <1>1, <2>1, <2>2, <2>3
<1>3. PICK kept \in {q, half} : q' = IF Len(kept) = incoming_capacity THEN kept
                                     ELSE Append(kept, m)
  BY DEF IncomingPush
<1>4. kept \in Seq(ConfUiMessage) /\ \A k \in 1 .. Len(kept) :
        \E j \in 1 .. len : kept[k] = q[j]
  BY <1>1, <1>2, <1>3, Zenon
<1> HIDE DEF half
<1>5. CASE q' = kept
  BY <1>4, <1>5
<1>6. CASE q' = Append(kept, m)
  <2>1. /\ Len(q') = Len(kept) + 1 /\ q' \in Seq(ConfUiMessage) /\ Len(kept) \in Nat
        /\ q'[Len(kept) + 1] = m
        /\ \A k \in 1 .. Len(kept) : q'[k] = kept[k]
    BY <1>4, <1>6, SeqFacts
  <2>2. ASSUME NEW k \in 1 .. Len(q')
        PROVE  q'[k] = m \/ \E j \in 1 .. len : q'[k] = q[j]
    <3>1. k = Len(kept) + 1 \/ k \in 1 .. Len(kept)
      BY <2>1
    <3> QED
      BY <1>4, <2>1, <3>1, Zenon
  <2> QED
    BY <2>1, <2>2
<1> QED
  BY <1>3, <1>5, <1>6

LEMMA InitTyped == Init => Typed
<1> SUFFICES ASSUME Init PROVE Typed
  OBVIOUS
<1>1. ConsoleType
  BY EmptyIsSeq DEF Init, ConsoleInit, ConsoleType
<1>2. HostType
  BY EmptyIsSeq, MaxTouchAssumption DEF Init, HostServerInit, MuxInit, HostType
<1>3. GuestType
  BY EmptyIsSeq, MaxSessionAssumption, MaxCallAssumption
     DEF Init, TrustyInit, GuestType, ListenerState, Result
<1> QED
  BY <1>1, <1>2, <1>3 DEF Typed

-----------------------------------------------------------------------------
(* The host's steps *)

LEMMA CrashTyped ==
  ASSUME Typed, NEW why \in Troubles, Crash(why),
         UNCHANGED <<responses, touches>>
  PROVE  HostType' /\ trouble' \in SUBSET Troubles
<1>1. queues_' \in [QueueIdx -> Seq(ConfUiMessage)]
  BY EmptyIsSeq DEF Crash
<1>2. trouble' \in SUBSET Troubles
  BY DEF Crash, Typed, ConsoleType
<1> QED
  BY <1>1, <1>2 DEF Crash, Typed, HostType

LEMMA MuxPushTyped ==
  ASSUME Typed, NEW idx \in QueueIdx, NEW m \in ConfUiMessage, MuxPush(idx, m)
  PROVE  /\ queues_' \in [QueueIdx -> Seq(ConfUiMessage)] /\ count_' \in Nat
         /\ trouble' \in SUBSET Troubles
<1>1. queues_[idx] \in Seq(ConfUiMessage)
  BY DEF Typed, HostType
<1>2. Append(queues_[idx], m) \in Seq(ConfUiMessage)
  BY <1>1, SeqFacts
<1>3. queues_' \in [QueueIdx -> Seq(ConfUiMessage)]
  BY <1>2 DEF MuxPush, QueuePush, Typed, HostType
<1> QED
  BY <1>3 DEF MuxPush, Typed, HostType, ConsoleType, Troubles

LEMMA SentTyped ==
  ASSUME Typed, NEW m \in ConfUiMessage, SentToGuest(m) \/ NotSentToGuest
  PROVE  to_guest' \in Seq(ConfUiMessage) /\ trouble' \in SUBSET Troubles
<1>1. Append(to_guest, m) \in Seq(ConfUiMessage)
  BY SeqFacts DEF Typed, ConsoleType
<1>2. CASE SentToGuest(m)
  BY <1>1, <1>2 DEF SentToGuest, Typed, ConsoleType
<1>3. CASE NotSentToGuest
  BY <1>3 DEF NotSentToGuest, Typed, ConsoleType, Troubles
<1> QED
  BY <1>2, <1>3

LEMMA HostTyped == Typed /\ HostServerNext => ConsoleType' /\ HostType'
<1> SUFFICES ASSUME Typed, HostServerNext PROVE ConsoleType' /\ HostType'
  OBVIOUS
<1>0. QueueIdx = {0, 1}
  BY TwoQueuesAssumption DEF QueueIdx
<1> USE DEF Typed
<1>1. CASE HalCmdPush
  <2>1. Head(from_guest) \in ConfUiMessage /\ from_guest' \in Seq(ConfUiMessage)
    BY <1>1, SeqFacts DEF HalCmdPush, ConsoleType
  <2>2. /\ queues_' \in [QueueIdx -> Seq(ConfUiMessage)] /\ count_' \in Nat
        /\ trouble' \in SUBSET Troubles
    BY <1>0, <1>1, <2>1, MuxPushTyped DEF HalCmdPush, hal_cmd_q_id_
  <2> QED
    BY <1>1, <2>1, <2>2 DEF HalCmdPush, sessionVars, ConsoleType, HostType
<1>2. CASE HalCmdPost
  BY <1>2 DEF HalCmdPost, SemPost, consoleVars, sessionVars, ConsoleType, HostType
<1>3. ASSUME NEW cmd \in {"kUserTouchEvent", "kUserInputEvent"},
             NEW arg \in {"kConfirm", "kCancel", "nowhere", "kUserAbort"},
             UserInput(cmd, arg)
      PROVE  ConsoleType' /\ HostType'
  <2>1. touch' \in ConfUiMessage
    BY <1>3, MsgType DEF UserInput, HostType, ConfUiCmd, Arg, UserResponse
  <2> QED
    BY <1>3, <2>1, MaxTouchAssumption
       DEF UserInput, inputRest, muxVars, sessionVars, ConsoleType, HostType
<1>4. CASE TouchEvent
  BY <1>3, <1>4 DEF TouchEvent
<1>5. CASE UserAbortEvent
  BY <1>3, <1>5 DEF UserAbortEvent
<1>6. CASE SendUserSelectionState
  <2>1. CASE Crash("null") /\ UNCHANGED <<to_guest, from_guest, responses, touches>>
    BY <2>1, CrashTyped DEF ConsoleType, Troubles
  <2> QED
    BY <1>6, <2>1 DEF SendUserSelectionState, SendUserSelectionCheck, inputRest,
                      muxVars, sessionVars, ConsoleType, HostType
<1>7. CASE SendUserSelectionReady
  <2>1. CASE Crash("null") /\ UNCHANGED <<to_guest, from_guest, responses, touches>>
    BY <2>1, CrashTyped DEF ConsoleType, Troubles
  <2> QED
    BY <1>7, <2>1 DEF SendUserSelectionReady, SendUserSelectionCheck, inputRest,
                      muxVars, sessionVars, ConsoleType, HostType
<1>8. CASE SendUserSelectionPush
  <2>1. /\ queues_' \in [QueueIdx -> Seq(ConfUiMessage)] /\ count_' \in Nat
        /\ trouble' \in SUBSET Troubles
    BY <1>0, <1>8, MuxPushTyped DEF SendUserSelectionPush, user_input_evt_q_id_, HostType
  <2> QED
    BY <1>8, <2>1 DEF SendUserSelectionPush, inputRest, sessionVars, ConsoleType, HostType
<1>9. CASE SendUserSelectionPost
  BY <1>9 DEF SendUserSelectionPost, SemPost, inputRest, sessionVars, ConsoleType, HostType
<1>10. CASE GracePeriodPasses
  BY <1>10 DEF GracePeriodPasses, mainRest, threadVars, muxVars, ConsoleType, HostType
<1>11. CASE MainLoopPop
  <2>1. PICK idx \in QueueIdx : PopFrom(idx) /\ input' = Head(queues_[idx])
    BY <1>11 DEF MainLoopPop
  <2>2. queues_[idx] \in Seq(ConfUiMessage) /\ queues_[idx] # <<>>
    BY <2>1 DEF PopFrom, Selected, Filled, HostType
  <2>3. input' \in ConfUiMessage /\ Tail(queues_[idx]) \in Seq(ConfUiMessage)
    BY <2>1, <2>2, SeqFacts
  <2>4. queues_' \in [QueueIdx -> Seq(ConfUiMessage)] /\ count_' \in Nat
    BY <2>1, <2>3 DEF PopFrom, HostType
  <2> QED
    BY <1>11, <2>3, <2>4 DEF MainLoopPop, mainRest, threadVars, sessionVars, ConsoleType,
                             HostType
<1>12. CASE MainLoopPopNothing
  BY <1>12, CrashTyped DEF MainLoopPopNothing, ConsoleType, Troubles
<1>13. CASE NoSession
  BY <1>13 DEF NoSession, IgnoreInput, NextInput, mainRest, threadVars, muxVars,
               sessionVars, ConsoleType, HostType
<1>14. CASE CreateSession
  <2>1. input.id \in Id
    BY <1>14 DEF CreateSession, HostType, ConfUiMessage
  <2>2. curr_session_' # NoId
    BY <1>14, <2>1, MaxSessionAssumption DEF CreateSession, Id, NoId
  <2> QED
    BY <1>14, <2>1, <2>2 DEF CreateSession, mainRest, threadVars, muxVars, ConsoleType,
                             HostType
<1>15. ASSUME main \in {"init", "input"}, curr_session_ # NoId,
              NEW c \in {"kCliAck", "kCliRespond", "kAbort"},
              NEW a \in {"success", "fail", "none", "kConfirm", "kCancel"},
              SentToGuest(Msg(c, curr_session_, a)) \/ NotSentToGuest
       PROVE  to_guest' \in Seq(ConfUiMessage) /\ trouble' \in SUBSET Troubles
  BY <1>15, MsgType, SentTyped DEF HostType, ConfUiCmd, Arg, UserResponse
<1>16. ASSUME Terminate, UNCHANGED <<mainRest, muxVars, responses>>,
              to_guest' \in Seq(ConfUiMessage), trouble' \in SUBSET Troubles
       PROVE  ConsoleType' /\ HostType'
  BY <1>16 DEF Terminate, NextInput, mainRest, threadVars, muxVars, ConsoleType, HostType
<1>17. CASE HandleInitRendered
  <2>1. to_guest' \in Seq(ConfUiMessage) /\ trouble' \in SUBSET Troubles
    BY <1>15, <1>17 DEF HandleInitRendered, HostType
  <2>2. CASE Terminate
    BY <1>16, <1>17, <2>1, <2>2 DEF HandleInitRendered
  <2>3. CASE ~Terminate
    BY <1>17, <2>1, <2>3 DEF HandleInitRendered, NextInput, mainRest, threadVars, muxVars,
                             ConsoleType, HostType
  <2> QED
    BY <2>2, <2>3
<1>18. CASE HandleInitFails
  BY <1>15, <1>16, <1>18 DEF HandleInitFails, ReportErrorToHal, HostType
<1>19. CASE TouchNowhere
  BY <1>19 DEF TouchNowhere, IgnoreInput, NextInput, mainRest, threadVars, muxVars,
               sessionVars, ConsoleType, HostType
<1>20. CASE SessionUserAbort
  BY <1>15, <1>16, <1>20 DEF SessionUserAbort, HasSession
<1>21. CASE SessionAbort
  BY <1>16, <1>21 DEF SessionAbort, ConsoleType
<1>22. CASE HandleInSession
  <2>1. main = "input" /\ curr_session_ # NoId /\ input.arg \in {"kConfirm", "kCancel"}
    BY <1>22 DEF HandleInSession, HasSession, Selects
  <2>2. CASE SendResponse
    <3>1. to_guest' \in Seq(ConfUiMessage) /\ trouble' \in SUBSET Troubles
      BY <1>15, <2>1, <2>2 DEF SendResponse
    <3>2. responses' \subseteq Id \X UserResponse
      BY <2>1, <2>2 DEF SendResponse, HostType, UserResponse
    <3> QED
      BY <1>22, <2>2, <3>1, <3>2 DEF HandleInSession, SendResponse, NextInput, mainRest,
                                     threadVars, muxVars, ConsoleType, HostType
  <2>3. CASE (ReportErrorToHal \/ NotSentToGuest) /\ Terminate /\ UNCHANGED responses
    <3>1. to_guest' \in Seq(ConfUiMessage) /\ trouble' \in SUBSET Troubles
      BY <1>15, <2>1, <2>3 DEF ReportErrorToHal
    <3> QED
      BY <1>16, <1>22, <2>3, <3>1 DEF HandleInSession
  <2> QED
    BY <1>22, <2>2, <2>3 DEF HandleInSession
<1>23. CASE HandleInSessionInvalid
  BY <1>15, <1>16, <1>23 DEF HandleInSessionInvalid, HasSession, ReportErrorToHal
<1>24. CASE HandleWaitStopIgnores
  BY <1>24 DEF HandleWaitStopIgnores, IgnoreInput, NextInput, mainRest, threadVars,
               muxVars, sessionVars, ConsoleType, HostType
<1>25. CASE HandleWaitStop
  BY <1>16, <1>25 DEF HandleWaitStop, ConsoleType
<1>26. CASE HandleWaitStopFatal
  <2>1. Msg("kCliAck", curr_session_, "fail") \in ConfUiMessage
    BY <1>26, MsgType DEF HandleWaitStopFatal, HasSession, HostType, ConfUiCmd, Arg
  <2>2. Append(to_guest, Msg("kCliAck", curr_session_, "fail")) \in Seq(ConfUiMessage)
    BY <2>1, SeqFacts DEF ConsoleType
  <2>3. to_guest' \in Seq(ConfUiMessage)
    BY <1>26, <2>2 DEF HandleWaitStopFatal, ConsoleType
  <2>4. HostType' /\ trouble' \in SUBSET Troubles
    BY <1>26, CrashTyped DEF HandleWaitStopFatal, Troubles
  <2> QED
    BY <1>26, <2>3, <2>4 DEF HandleWaitStopFatal, ConsoleType
<1> QED
  BY <1>1, <1>2, <1>4, <1>5, <1>6, <1>7, <1>8, <1>9, <1>10, <1>11, <1>12, <1>13, <1>14,
     <1>17, <1>18, <1>19, <1>20, <1>21, <1>22, <1>23, <1>24, <1>25, <1>26
     DEF HostServerNext, HalCmdFetcherLoop, SendUserSelection, MainLoop

-----------------------------------------------------------------------------
(* The guest's steps *)

LEMMA SerializedSendTyped ==
  ASSUME Typed, NEW m \in ConfUiMessage, SerializedSend(m)
  PROVE  from_guest' \in Seq(ConfUiMessage) /\ trouble' \in SUBSET Troubles
<1>1. Append(from_guest, m) \in Seq(ConfUiMessage)
  BY SeqFacts DEF Typed, ConsoleType
<1>2. CASE from_guest' = Append(from_guest, m) /\ UNCHANGED trouble
  BY <1>1, <1>2 DEF Typed, ConsoleType
<1>3. CASE trouble' = trouble \cup {"io"} /\ UNCHANGED from_guest
  BY <1>3 DEF Typed, ConsoleType, Troubles
<1> QED
  BY <1>2, <1>3 DEF SerializedSend

LEMMA GuestTyped == Typed /\ TrustyNext => ConsoleType' /\ GuestType'
<1> SUFFICES ASSUME Typed, TrustyNext PROVE ConsoleType' /\ GuestType'
  OBVIOUS
<1> USE MaxSessionAssumption, MaxCallAssumption
    DEF Typed, sessionData, lockVars, callbackRest, consoleVars
<1>0. current_session_ # NoId =>
        \A c \in ConfUiCmd, a \in Arg : Msg(c, current_session_, a) \in ConfUiMessage
  BY MsgType DEF GuestType
<1>1. CASE promptUserConfirmation
  BY <1>1 DEF promptUserConfirmation, StartCallbackThread, ConsoleType, GuestType,
              ListenerState
<1>2. CASE promptJoins
  BY <1>2 DEF promptJoins, ConsoleType, GuestType
<1>3. CASE promptJoined
  BY <1>3 DEF promptJoined, StartCallbackThread, ConsoleType, GuestType, ListenerState
<1>4. CASE promptWakes
  BY <1>4, Zenon DEF promptWakes, ConsoleType, GuestType
<1>5. CASE promptFails
  BY <1>5 DEF promptFails, ConsoleType, GuestType, ListenerState
<1>6. ASSUME NEW call \in {"deliver", "abort"}, SessionCall(call)
      PROVE  ConsoleType' /\ GuestType'
  BY <1>6 DEF SessionCall, ConsoleType, GuestType
<1>7. ASSUME SessionCallReturns, from_guest' \in Seq(ConfUiMessage),
             trouble' \in SUBSET Troubles, incoming_msg_queue_' \in Seq(ConfUiMessage)
      PROVE  ConsoleType' /\ GuestType'
  BY <1>7 DEF SessionCallReturns, ConsoleType, GuestType
<1>8. CASE DeliverSecureInputEvent
  <2>1. current_session_ # NoId
    BY <1>8 DEF DeliverSecureInputEvent, GuestType
  <2>2. from_guest' \in Seq(ConfUiMessage) /\ trouble' \in SUBSET Troubles
    BY <1>0, <1>8, <2>1, SerializedSendTyped
       DEF DeliverSecureInputEvent, ConfUiCmd, Arg, UserResponse, ConsoleType
  <2> QED
    BY <1>7, <1>8, <2>2 DEF DeliverSecureInputEvent, GuestType
<1>9. CASE Abort
  <2>1. current_session_ # NoId
    BY <1>9 DEF Abort, GuestType
  <2>2. Msg("kAbort", current_session_, "none") \in ConfUiMessage
    BY <1>0, <2>1 DEF ConfUiCmd, Arg
  <2>3. from_guest' \in Seq(ConfUiMessage) /\ trouble' \in SUBSET Troubles
    BY <1>9, <2>2, SerializedSendTyped DEF Abort, ConsoleType
  <2>4. incoming_msg_queue_' \in Seq(ConfUiMessage)
    BY <1>9, <2>2, IncomingPushElems DEF Abort, GuestType
  <2> QED
    BY <1>7, <1>9, <2>3, <2>4 DEF Abort
<1>10. CASE HostMessageFetcherLoop
  <2>1. Head(to_guest) \in ConfUiMessage /\ to_guest' \in Seq(ConfUiMessage)
    BY <1>10, SeqFacts DEF HostMessageFetcherLoop, ConsoleType
  <2>2. incoming_msg_queue_' \in Seq(ConfUiMessage)
    BY <1>10, <2>1, IncomingPushElems DEF HostMessageFetcherLoop, GuestType
  <2> QED
    BY <1>10, <2>1, <2>2 DEF HostMessageFetcherLoop, ConsoleType, GuestType
<1>11. CASE RunSession
  BY <1>11, EmptyIsSeq DEF RunSession, ConsoleType, GuestType, Id, NoId
<1>12. CASE PromptUserConfirmation
  <2>1. Msg("kStart", current_session_, "none") \in ConfUiMessage
    BY <1>0, <1>12 DEF PromptUserConfirmation, GuestType, ConfUiCmd, Arg
  <2>2. from_guest' \in Seq(ConfUiMessage) /\ trouble' \in SUBSET Troubles
    BY <1>12, <2>1, SerializedSendTyped DEF PromptUserConfirmation, ConsoleType
  <2> QED
    BY <1>12, <2>2 DEF PromptUserConfirmation, ConsoleType, GuestType, Result
<1>13. CASE PromptTakesAck
  <2>1. incoming_msg_queue_' \in Seq(ConfUiMessage)
    BY <1>13, SeqFacts DEF PromptTakesAck, GuestType
  <2> QED
    BY <1>13, <2>1 DEF PromptTakesAck, ConsoleType, GuestType, Result, ListenerState
<1>14. CASE PromptBecomesInteractive
  BY <1>14 DEF PromptBecomesInteractive, ConsoleType, GuestType, ListenerState
<1>15. CASE PromptTakesInput
  <2>1. /\ incoming_msg_queue_' \in Seq(ConfUiMessage)
        /\ user_or_abort' \in ConfUiMessage
    BY <1>15, SeqFacts DEF PromptTakesInput, GuestType
  <2> QED
    BY <1>15, <2>1 DEF PromptTakesInput, ConsoleType, GuestType
<1>16. CASE PromptReturns
  <2>1. Msg("kStop", current_session_, "none") \in ConfUiMessage
    BY <1>0, <1>16 DEF PromptReturns, GuestType, ConfUiCmd, Arg
  <2>2. from_guest' \in Seq(ConfUiMessage) /\ trouble' \in SUBSET Troubles
    BY <1>16, <2>1, SerializedSendTyped DEF PromptReturns, ConsoleType
  <2>3. prompt_result_' \in Result
    BY <1>16 DEF PromptReturns, PromptResult, Result
  <2> QED
    BY <1>16, <2>2, <2>3 DEF PromptReturns, ConsoleType, GuestType
<1>17. CASE RunSessionTerminates
  BY <1>17 DEF RunSessionTerminates, ConsoleType, GuestType, ListenerState
<1>18. CASE ResultCallback
  BY <1>18 DEF ResultCallback, ConsoleType, GuestType
<1>19. CASE HostMessageFetcherReturns
  BY <1>19 DEF HostMessageFetcherReturns, ConsoleType, GuestType, Troubles
<1> QED
  BY <1>1, <1>2, <1>3, <1>4, <1>5, <1>6, <1>8, <1>9, <1>10, <1>11, <1>12, <1>13, <1>14,
     <1>15, <1>16, <1>17, <1>18, <1>19
     DEF TrustyNext, BinderStep, BinderCall, CallbackThread, deliverSecureInputEvent, abort

LEMMA NextTyped == Typed /\ [Next]_vars => Typed'
<1> SUFFICES ASSUME Typed, [Next]_vars PROVE Typed'
  OBVIOUS
<1>1. CASE HostServerNext /\ UNCHANGED guestVars
  <2>1. GuestType'
    BY <1>1 DEF guestVars, Typed, GuestType
  <2> QED
    BY <1>1, <2>1, HostTyped DEF Typed
<1>2. CASE TrustyNext /\ UNCHANGED serverVars
  <2>1. HostType'
    BY <1>2 DEF serverVars, hostVars, muxVars, threadVars, sessionVars, Typed, HostType
  <2> QED
    BY <1>2, <2>1, GuestTyped DEF Typed
<1>3. CASE UNCHANGED vars
  BY <1>3 DEF vars, consoleVars, serverVars, hostVars, muxVars, threadVars, sessionVars,
              guestVars, Typed, ConsoleType, HostType, GuestType
<1> QED
  BY <1>1, <1>2, <1>3 DEF Next

\* Every variable keeps its type in every step of the HAL and of the server.
THEOREM TypeCorrect == Spec => []TypeOK
<1>1. Spec => []Typed
  BY InitTyped, NextTyped, PTL DEF Spec
<1> QED
  BY <1>1, TypedIsTypeOK, PTL

-----------------------------------------------------------------------------
(* The display mode and the session *)

\* ModeFollowsSession while an input is being handled too: only HandleInit() has a
\* session in kInit.
SessionShape ==
  /\ mode = "kConfUI_Mode" <=> curr_session_ # NoId
  /\ state_ \in IF curr_session_ = NoId THEN {"none"}
               ELSE IF main = "init" THEN {"kInit"} ELSE {"kInSession", "kWaitStop"}

LEMMA NextSessionShape == Typed /\ SessionShape /\ [Next]_vars => SessionShape'
<1> SUFFICES ASSUME Typed, SessionShape, [Next]_vars PROVE SessionShape'
  OBVIOUS
<1>1. ASSUME UNCHANGED <<main, sessionVars>> PROVE SessionShape'
  BY <1>1 DEF sessionVars, SessionShape
<1>2. ASSUME NEW why, Crash(why) PROVE SessionShape'
  BY <1>2 DEF Crash, SessionShape
<1>3. ASSUME Terminate PROVE SessionShape'
  BY <1>3 DEF Terminate, NextInput, SessionShape
<1>4. ASSUME main = "input", NextInput, UNCHANGED sessionVars PROVE SessionShape'
  BY <1>4 DEF NextInput, sessionVars, SessionShape
<1>5. CASE TrustyNext /\ UNCHANGED serverVars
  BY <1>1, <1>5 DEF serverVars, hostVars
<1>6. CASE UNCHANGED vars
  BY <1>1, <1>6 DEF vars, serverVars, hostVars
<1>7. CASE HalCmdFetcherLoop
  BY <1>1, <1>7 DEF HalCmdFetcherLoop, HalCmdPush, HalCmdPost
<1>8. CASE SendUserSelection
  BY <1>1, <1>2, <1>8 DEF SendUserSelection, SendUserSelectionState, SendUserSelectionReady,
       SendUserSelectionCheck, SendUserSelectionPush, SendUserSelectionPost, inputRest
<1>9. CASE TouchEvent \/ UserAbortEvent
  BY <1>1, <1>9 DEF TouchEvent, UserAbortEvent, UserInput, inputRest
<1>10. CASE GracePeriodPasses
  BY <1>10 DEF GracePeriodPasses, SessionShape
<1>11. CASE MainLoopPop
  BY <1>11 DEF MainLoopPop, sessionVars, SessionShape
<1>12. CASE NoSession \/ TouchNowhere \/ HandleWaitStopIgnores
  BY <1>4, <1>12 DEF NoSession, TouchNowhere, HandleWaitStopIgnores, HasSession, IgnoreInput
<1>13. CASE CreateSession
  <2>1. input.id \in Id
    BY <1>13 DEF CreateSession, Typed, HostType, ConfUiMessage
  <2>2. curr_session_' # NoId
    BY <1>13, <2>1, MaxSessionAssumption DEF CreateSession, Id, NoId
  <2> QED
    BY <1>13, <2>2 DEF CreateSession, SessionShape
<1>14. CASE HandleInitRendered
  BY <1>3, <1>14 DEF HandleInitRendered, NextInput, SessionShape, Typed, HostType
<1>15. CASE HandleInSession
  BY <1>3, <1>15 DEF HandleInSession, HasSession, SendResponse, NextInput, SessionShape
<1>16. CASE MainLoopPopNothing \/ HandleWaitStopFatal
  BY <1>2, <1>16 DEF MainLoopPopNothing, HandleWaitStopFatal
<1>17. CASE HandleInitFails \/ SessionUserAbort \/ SessionAbort \/ HandleInSessionInvalid
            \/ HandleWaitStop
  BY <1>3, <1>17 DEF HandleInitFails, SessionUserAbort, SessionAbort,
                     HandleInSessionInvalid, HandleWaitStop
<1> QED
  BY <1>5, <1>6, <1>7, <1>8, <1>9, <1>10, <1>11, <1>12, <1>13, <1>14, <1>15, <1>16, <1>17
     DEF Next, HostServerNext, MainLoop

\* The display shows the confirmation UI exactly as long as there is a session,
\* whichever way a session starts, fails, is answered, aborted or crashed.
THEOREM DisplayFollowsSession == Spec => []ModeFollowsSession
<1>1. Init => SessionShape
  BY DEF Init, HostServerInit, SessionShape
<1>2. SessionShape => ModeFollowsSession
  BY DEF SessionShape, ModeFollowsSession
<1> QED
  BY <1>1, <1>2, InitTyped, NextTyped, NextSessionShape, PTL DEF Spec

-----------------------------------------------------------------------------
(* The semaphore *)

\* Without a dropped message the semaphore and the producers between their two steps
\* account for exactly the messages in the queues.
Wakes ==
  /\ SemCoversItems
  /\ "dropped" \in trouble \/ Queued = count_ + Unposted
  /\ CheckOnlyAfterDrop

LEMMA NextWakes == Typed /\ Wakes /\ [Next]_vars => Wakes'
<1> SUFFICES ASSUME Typed, Wakes, [Next]_vars PROVE Wakes'
  OBVIOUS
<1>0. /\ QueueIdx = {0, 1}
      /\ queues_[0] \in Seq(ConfUiMessage) /\ queues_[1] \in Seq(ConfUiMessage)
      /\ Len(queues_[0]) \in Nat /\ Len(queues_[1]) \in Nat /\ count_ \in Nat
  BY TwoQueuesAssumption, SeqFacts DEF QueueIdx, Typed, HostType
<1> USE DEF hal_cmd_q_id_, user_input_evt_q_id_
<1> DEFINE len0 == Len(queues_[0])
           len1 == Len(queues_[1])
<1>q. Queued = len0 + len1
  BY DEF Queued
<1>r. Queued' = len0' + len1'
  BY DEF Queued
<1>n. len0 \in Nat /\ len1 \in Nat
  BY <1>0
<1>l. /\ Len(queues_[0]) = len0 /\ Len(queues_'[0]) = len0'
      /\ Len(queues_[1]) = len1 /\ Len(queues_'[1]) = len1'
  OBVIOUS
<1> HIDE DEF len0, len1
<1>a. Queued \in Nat
  BY <1>q, <1>n
<1>b. Unposted \in Nat
  BY DEF Unposted
<1>1. ASSUME UNCHANGED <<muxVars, hal_fetcher, input_thread>>,
             trouble' \subseteq trouble \cup {"io"}, trouble \subseteq trouble'
      PROVE  Wakes'
  BY <1>1, Zenon DEF muxVars, Wakes, SemCoversItems, Queued, Unposted, CheckOnlyAfterDrop
<1>2. ASSUME NEW why, Crash(why), why = "check" => "dropped" \in trouble
      PROVE  Wakes'
  <2>1. queues_'[0] = <<>> /\ queues_'[1] = <<>> /\ count_' = 0
    BY <1>0, <1>2 DEF Crash
  <2>2. Queued' = 0
    BY <2>1 DEF Queued
  <2>3. Unposted' = 0
    BY <1>2 DEF Crash, Unposted
  <2> QED
    BY <1>2, <2>1, <2>2, <2>3 DEF Crash, Wakes, SemCoversItems, CheckOnlyAfterDrop
<1>3. ASSUME NEW idx \in QueueIdx, NEW m \in ConfUiMessage, MuxPush(idx, m)
      PROVE  /\ count_' = count_ /\ trouble \subseteq trouble'
             /\ trouble' \subseteq trouble \cup {"dropped"}
             /\ \/ Queued' = Queued + 1
                \/ Queued' = Queued /\ "dropped" \in trouble'
  <2>1. queues_[idx] \in Seq(ConfUiMessage)
    BY <1>0
  <2>2. Len(Append(queues_[idx], m)) = Len(queues_[idx]) + 1
    BY <2>1, SeqFacts
  <2>3. CASE HasRoom(idx)
    <3>1. queues_' = [queues_ EXCEPT ![idx] = Append(queues_[idx], m)]
      BY <1>3, <2>3 DEF MuxPush, QueuePush
    <3>2. \A o \in QueueIdx : queues_'[o] = IF o = idx THEN Append(queues_[idx], m)
                                            ELSE queues_[o]
      BY <3>1 DEF Typed, HostType
    <3>3. Queued' = Queued + 1
      <4>1. CASE idx = 0
        <5>1. len0' = len0 + 1 /\ len1' = len1
          BY <1>0, <1>l, <2>2, <3>2, <4>1
        <5> QED
          BY <1>n, <1>q, <1>r, <5>1
      <4>2. CASE idx = 1
        <5>1. len1' = len1 + 1 /\ len0' = len0
          BY <1>0, <1>l, <2>2, <3>2, <4>2
        <5> QED
          BY <1>n, <1>q, <1>r, <5>1
      <4> QED
        BY <1>0, <4>1, <4>2
    <3> QED
      BY <1>3, <2>3, <3>3 DEF MuxPush
  <2>4. CASE ~HasRoom(idx)
    BY <1>3, <2>4 DEF MuxPush, QueuePush, Queued
  <2> QED
    BY <2>3, <2>4
<1>4. CASE HalCmdPush
  <2>1. Head(from_guest) \in ConfUiMessage
    BY <1>4, SeqFacts DEF HalCmdPush, Typed, ConsoleType
  <2>2. Unposted' = Unposted + 1
    BY <1>4 DEF HalCmdPush, Unposted
  <2>3. /\ count_' = count_ /\ trouble \subseteq trouble'
        /\ trouble' \subseteq trouble \cup {"dropped"}
        /\ Queued' = Queued + 1 \/ (Queued' = Queued /\ "dropped" \in trouble')
    BY <1>0, <1>3, <1>4, <2>1 DEF HalCmdPush
  <2> QED
    BY <1>0, <1>a, <1>b, <2>2, <2>3 DEF Wakes, SemCoversItems, CheckOnlyAfterDrop
<1>5. CASE SendUserSelectionPush
  <2>1. touch \in ConfUiMessage
    BY <1>5 DEF SendUserSelectionPush, Typed, HostType
  <2>2. Unposted' = Unposted + 1
    BY <1>5 DEF SendUserSelectionPush, inputRest, Unposted
  <2>3. /\ count_' = count_ /\ trouble \subseteq trouble'
        /\ trouble' \subseteq trouble \cup {"dropped"}
        /\ Queued' = Queued + 1 \/ (Queued' = Queued /\ "dropped" \in trouble')
    BY <1>0, <1>3, <1>5, <2>1 DEF SendUserSelectionPush
  <2> QED
    BY <1>0, <1>a, <1>b, <2>2, <2>3 DEF Wakes, SemCoversItems, CheckOnlyAfterDrop
<1>6. CASE HalCmdPost
  <2>1. Queued' = Queued /\ count_' = count_ + 1 /\ trouble' = trouble
    BY <1>6 DEF HalCmdPost, SemPost, consoleVars, Queued
  <2>2. Unposted' = Unposted - 1
    BY <1>6 DEF HalCmdPost, Unposted
  <2> QED
    BY <1>0, <1>a, <1>b, <2>1, <2>2 DEF Wakes, SemCoversItems, CheckOnlyAfterDrop
<1>7. CASE SendUserSelectionPost
  <2>1. Queued' = Queued /\ count_' = count_ + 1 /\ trouble' = trouble
    BY <1>7 DEF SendUserSelectionPost, SemPost, inputRest, Queued
  <2>2. Unposted' = Unposted - 1
    BY <1>7 DEF SendUserSelectionPost, inputRest, Unposted
  <2> QED
    BY <1>0, <1>a, <1>b, <2>1, <2>2 DEF Wakes, SemCoversItems, CheckOnlyAfterDrop
<1>8. CASE MainLoopPop
  <2>1. PICK idx \in QueueIdx : PopFrom(idx)
    BY <1>8 DEF MainLoopPop
  <2>2. queues_[idx] \in Seq(ConfUiMessage) /\ queues_[idx] # <<>>
    BY <1>0, <2>1 DEF PopFrom, Selected, Filled
  <2>3. Len(Tail(queues_[idx])) = Len(queues_[idx]) - 1
    BY <2>2
  <2>4. \A o \in QueueIdx : queues_'[o] = IF o = idx THEN Tail(queues_[idx]) ELSE queues_[o]
    BY <2>1 DEF PopFrom, Typed, HostType
  <2>5. Queued' = Queued - 1
    <3>1. CASE idx = 0
      <4>2. queues_'[0] = Tail(queues_[0]) /\ queues_'[1] = queues_[1]
        BY <1>0, <2>4, <3>1
      <4>3. Len(Tail(queues_[0])) = len0 - 1
        BY <1>l, <2>3, <3>1
      <4>1. len0' = len0 - 1 /\ len1' = len1
        BY <4>2, <4>3, <1>l
      <4> QED
        BY <1>n, <1>q, <1>r, <4>1
    <3>2. CASE idx = 1
      <4>2. queues_'[1] = Tail(queues_[1]) /\ queues_'[0] = queues_[0]
        BY <1>0, <2>4, <3>2
      <4>3. Len(Tail(queues_[1])) = len1 - 1
        BY <1>l, <2>3, <3>2
      <4>1. len1' = len1 - 1 /\ len0' = len0
        BY <4>2, <4>3, <1>l
      <4> QED
        BY <1>n, <1>q, <1>r, <4>1
    <3> QED
      BY <1>0, <3>1, <3>2
  <2>6. count_' = count_ - 1
    BY <2>1 DEF PopFrom
  <2>7. Unposted' = Unposted /\ trouble' = trouble
    BY <1>8 DEF MainLoopPop, mainRest, threadVars, Unposted
  <2> QED
    BY <1>0, <1>a, <1>b, <2>5, <2>6, <2>7 DEF Wakes, SemCoversItems, CheckOnlyAfterDrop
<1>9. CASE MainLoopPopNothing
  <2>1. queues_[0] = <<>> /\ queues_[1] = <<>> /\ count_ > 0
    BY <1>0, <1>9 DEF MainLoopPopNothing, PopNothing, Filled
  <2>2. Queued = 0
    BY <2>1 DEF Queued
  <2>3. "dropped" \in trouble
    BY <1>0, <2>1, <2>2 DEF Wakes, Unposted
  <2> QED
    BY <1>2, <1>9, <2>3 DEF MainLoopPopNothing
<1>10. CASE SendUserSelectionState \/ SendUserSelectionReady
  <2>1. CASE Crash("null")
    BY <1>2, <2>1
  <2>2. ASSUME UNCHANGED <<muxVars, hal_fetcher, trouble>>,
               input_thread \in {"state", "ready"}, input_thread' # "post"
        PROVE  Wakes'
    BY <2>2, Zenon DEF muxVars, Wakes, SemCoversItems, Queued, Unposted, CheckOnlyAfterDrop
  <2> QED
    BY <1>10, <2>1, <2>2 DEF SendUserSelectionState, SendUserSelectionReady,
                             SendUserSelectionCheck, inputRest
<1>11. CASE TouchEvent \/ UserAbortEvent
  BY <1>11, Zenon DEF TouchEvent, UserAbortEvent, UserInput, inputRest, muxVars, Wakes,
               SemCoversItems, Queued, Unposted, CheckOnlyAfterDrop
<1>12. CASE HandleWaitStopFatal
  BY <1>2, <1>12 DEF HandleWaitStopFatal
<1>13. CASE GracePeriodPasses \/ NoSession \/ CreateSession \/ TouchNowhere \/ SessionAbort
            \/ HandleWaitStopIgnores \/ HandleWaitStop
  BY <1>1, <1>13 DEF GracePeriodPasses, NoSession, CreateSession, TouchNowhere, SessionAbort,
       HandleWaitStopIgnores, HandleWaitStop, IgnoreInput, mainRest, threadVars
<1>14. CASE HandleInitRendered \/ HandleInitFails \/ SessionUserAbort \/ HandleInSession
            \/ HandleInSessionInvalid
  <2>1. UNCHANGED <<muxVars, hal_fetcher, input_thread>>
    BY <1>14 DEF HandleInitRendered, HandleInitFails, SessionUserAbort, HandleInSession,
                 HandleInSessionInvalid, mainRest, threadVars
  <2>2. trouble' = trouble \/ trouble' = trouble \cup {"io"}
    BY <1>14 DEF HandleInitRendered, HandleInitFails, SessionUserAbort, HandleInSession,
         HandleInSessionInvalid, SendResponse, ReportErrorToHal, SentToGuest, NotSentToGuest
  <2> QED
    BY <1>1, <2>1, <2>2
<1>15. CASE TrustyNext /\ UNCHANGED serverVars
  <2>1. UNCHANGED <<muxVars, hal_fetcher, input_thread>>
    BY <1>15 DEF serverVars, hostVars, threadVars
  <2>2. trouble' = trouble \/ trouble' = trouble \cup {"io"}
    <3>1. CASE BinderStep \/ BinderCall
      BY <3>1, Zenon DEF BinderStep, BinderCall, promptUserConfirmation, promptJoins, promptJoined,
           promptWakes, promptFails, StartCallbackThread, deliverSecureInputEvent, abort,
           SessionCall, DeliverSecureInputEvent, Abort, SerializedSend, consoleVars
    <3>2. CASE CallbackThread \/ HostMessageFetcherLoop
      BY <3>2 DEF CallbackThread, HostMessageFetcherLoop, RunSession, PromptUserConfirmation,
           PromptTakesAck, PromptBecomesInteractive, PromptTakesInput, PromptReturns,
           RunSessionTerminates, ResultCallback, SerializedSend
    <3>3. CASE HostMessageFetcherReturns
      BY <3>3, Zenon DEF HostMessageFetcherReturns
    <3> QED
      BY <1>15, <3>1, <3>2, <3>3, Zenon DEF TrustyNext
  <2> QED
    BY <1>1, <2>1, <2>2
<1>16. CASE UNCHANGED vars
  BY <1>1, <1>16 DEF vars, consoleVars, serverVars, hostVars, threadVars
<1> QED
  BY <1>4, <1>5, <1>6, <1>7, <1>8, <1>9, <1>10, <1>11, <1>12, <1>13, <1>14, <1>15, <1>16
     DEF Next, HostServerNext, HalCmdFetcherLoop, SendUserSelection, MainLoop

LEMMA InitWakes == Init => Wakes
<1> SUFFICES ASSUME Init PROVE Wakes
  OBVIOUS
<1>1. queues_[0] = <<>> /\ queues_[1] = <<>> /\ count_ = 0
  BY TwoQueuesAssumption DEF Init, HostServerInit, MuxInit, QueueIdx
<1>2. Queued = 0 /\ Unposted = 0 /\ trouble = {}
  BY <1>1 DEF Init, HostServerInit, ConsoleInit, Queued, Unposted, hal_cmd_q_id_,
              user_input_evt_q_id_
<1> QED
  BY <1>1, <1>2 DEF Wakes, SemCoversItems, CheckOnlyAfterDrop

\* No message stays in a queue while the main loop sleeps on the semaphore.
THEOREM NoWakeUpLost == Spec => []SemCoversItems
<1>1. Wakes => SemCoversItems
  BY DEF Wakes
<1> QED
  BY <1>1, InitTyped, NextTyped, InitWakes, NextWakes, PTL DEF Spec

\* Multiplexer::Pop() finds an item whenever SemWait() lets it pass, unless a full
\* queue has ignored a message before.
THEOREM PopFindsAnItem == Spec => []CheckOnlyAfterDrop
<1>1. Wakes => CheckOnlyAfterDrop
  BY DEF Wakes
<1> QED
  BY <1>1, InitTyped, NextTyped, InitWakes, NextWakes, PTL DEF Spec

-----------------------------------------------------------------------------
(* The answer of the host *)

Confirms(m) == m.cmd = "kCliRespond" /\ m.arg = "kConfirm"

\* Where a confirmation is on its way from SendResponse() to resultCB, the host sent
\* it for the session it is about to be reported for.
Answers ==
  /\ \A k \in 1 .. Len(to_guest) :
       Confirms(to_guest[k]) => <<to_guest[k].id, "kConfirm">> \in responses
  /\ \A k \in 1 .. Len(incoming_msg_queue_) :
       Confirms(incoming_msg_queue_[k]) => <<current_session_, "kConfirm">> \in responses
  /\ callback_thread_ = "got" /\ Confirms(user_or_abort) =>
       <<current_session_, "kConfirm">> \in responses
  /\ ConfirmedByHost

LEMMA HostAnswers ==
  Typed /\ Answers /\ HostServerNext /\ UNCHANGED guestVars => Answers'
<1> SUFFICES ASSUME Typed, Answers, HostServerNext, UNCHANGED guestVars PROVE Answers'
  OBVIOUS
<1>1. UNCHANGED <<incoming_msg_queue_, current_session_, callback_thread_, user_or_abort,
                  prompt_result_>>
  BY Zenon DEF guestVars
<1>2. ASSUME responses \subseteq responses',
             \A k \in 1 .. Len(to_guest') :
               Confirms(to_guest'[k]) => <<to_guest'[k].id, "kConfirm">> \in responses'
      PROVE  Answers'
  BY <1>1, <1>2, Zenon DEF Answers, Confirms, ConfirmedByHost
<1>3. ASSUME UNCHANGED <<to_guest, responses>> PROVE Answers'
  BY <1>2, <1>3, Zenon DEF Answers, Confirms
<1>4. ASSUME NEW m \in ConfUiMessage, to_guest' = Append(to_guest, m),
             responses \subseteq responses',
             Confirms(m) => <<m.id, "kConfirm">> \in responses'
      PROVE  Answers'
  <2>1. /\ Len(to_guest') = Len(to_guest) + 1 /\ Len(to_guest) \in Nat
        /\ to_guest'[Len(to_guest) + 1] = m
        /\ \A k \in 1 .. Len(to_guest) : to_guest'[k] = to_guest[k]
    BY <1>4, SeqFacts DEF Typed, ConsoleType
  <2>2. ASSUME NEW k \in 1 .. Len(to_guest'), Confirms(to_guest'[k])
        PROVE  <<to_guest'[k].id, "kConfirm">> \in responses'
    <3>1. CASE k = Len(to_guest) + 1
      BY <1>4, <2>1, <2>2, <3>1
    <3>2. CASE k # Len(to_guest) + 1
      <4>1. k \in 1 .. Len(to_guest)
        BY <2>1, <3>2
      <4> QED
        BY <1>4, <2>1, <2>2, <4>1 DEF Answers
    <3> QED
      BY <3>1, <3>2
  <2> QED
    BY <1>2, <1>4, <2>2
<1>5. ASSUME NEW c \in ConfUiCmd, NEW a \in Arg, curr_session_ # NoId,
             SentToGuest(Msg(c, curr_session_, a)) \/ NotSentToGuest,
             c # "kCliRespond", UNCHANGED responses
      PROVE  Answers'
  <2>1. curr_session_ \in Id
    BY <1>5 DEF Typed, HostType
  <2>2. Msg(c, curr_session_, a) \in ConfUiMessage
    BY <1>5, <2>1, MsgType
  <2>3. ~Confirms(Msg(c, curr_session_, a))
    BY <1>5, Zenon DEF Confirms, Msg
  <2> QED
    BY <1>3, <1>4, <1>5, <2>2, <2>3, Zenon DEF SentToGuest, NotSentToGuest
<1>6. CASE HalCmdFetcherLoop \/ SendUserSelection \/ TouchEvent \/ UserAbortEvent
           \/ GracePeriodPasses
  BY <1>3, <1>6 DEF HalCmdFetcherLoop, HalCmdPush, HalCmdPost, SendUserSelection,
       SendUserSelectionState, SendUserSelectionReady, SendUserSelectionCheck,
       SendUserSelectionPush, SendUserSelectionPost, TouchEvent, UserAbortEvent, UserInput,
       GracePeriodPasses, inputRest, consoleVars
<1>7. CASE MainLoopPop \/ MainLoopPopNothing \/ NoSession \/ CreateSession \/ TouchNowhere
           \/ SessionAbort \/ HandleWaitStopIgnores \/ HandleWaitStop
  BY <1>3, <1>7 DEF MainLoopPop, MainLoopPopNothing, NoSession, CreateSession, TouchNowhere,
       SessionAbort, HandleWaitStopIgnores, HandleWaitStop, IgnoreInput
<1>8. CASE HandleInitRendered
  <2>1. curr_session_ # NoId
    BY <1>8 DEF HandleInitRendered, Typed, HostType
  <2> QED
    BY <1>5, <1>8, <2>1 DEF HandleInitRendered, ConfUiCmd, Arg
<1>9. CASE HandleInitFails
  <2>1. curr_session_ # NoId
    BY <1>9 DEF HandleInitFails, Typed, HostType
  <2> QED
    BY <1>5, <1>9, <2>1 DEF HandleInitFails, ReportErrorToHal, ConfUiCmd, Arg
<1>10. CASE SessionUserAbort
  BY <1>5, <1>10 DEF SessionUserAbort, HasSession, ConfUiCmd, Arg
<1>11. CASE HandleInSessionInvalid
  BY <1>5, <1>11 DEF HandleInSessionInvalid, HasSession, ReportErrorToHal, ConfUiCmd, Arg
<1>12. CASE HandleInSession
  <2>0. curr_session_ \in Id /\ input.arg \in {"kConfirm", "kCancel"}
    BY <1>12 DEF HandleInSession, HasSession, Selects, Typed, HostType
  <2>1. CASE SendResponse
    <3> DEFINE m == Msg("kCliRespond", curr_session_, input.arg)
    <3>1. m \in ConfUiMessage
      BY <2>0, MsgType DEF ConfUiCmd, Arg, UserResponse
    <3>2. m.id = curr_session_ /\ m.arg = input.arg
      BY DEF Msg
    <3>3. to_guest' = Append(to_guest, m)
          /\ responses' = responses \cup {<<curr_session_, input.arg>>}
      BY <2>1 DEF SendResponse, SentToGuest
    <3> HIDE DEF m
    <3> QED
      BY <1>4, <3>1, <3>2, <3>3, Zenon DEF Confirms
  <2>2. CASE (ReportErrorToHal \/ NotSentToGuest) /\ UNCHANGED responses
    BY <1>5, <1>12, <2>2 DEF HandleInSession, HasSession, ReportErrorToHal, ConfUiCmd, Arg
  <2> QED
    BY <1>12, <2>1, <2>2 DEF HandleInSession
<1>13. CASE HandleWaitStopFatal
  <2>1. Msg("kCliAck", curr_session_, "fail") \in ConfUiMessage
    BY <1>13, MsgType DEF HandleWaitStopFatal, HasSession, Typed, HostType, ConfUiCmd, Arg
  <2>2. ~Confirms(Msg("kCliAck", curr_session_, "fail"))
    BY DEF Confirms, Msg
  <2>3. CASE to_guest' = Append(to_guest, Msg("kCliAck", curr_session_, "fail"))
    BY <1>4, <1>13, <2>1, <2>2, <2>3, Zenon DEF HandleWaitStopFatal
  <2>4. CASE UNCHANGED to_guest
    BY <1>3, <1>13, <2>4 DEF HandleWaitStopFatal
  <2> QED
    BY <1>13, <2>3, <2>4 DEF HandleWaitStopFatal
<1> QED
  BY <1>6, <1>7, <1>8, <1>9, <1>10, <1>11, <1>12, <1>13 DEF HostServerNext, MainLoop

LEMMA GuestAnswers ==
  Typed /\ Answers /\ TrustyNext /\ UNCHANGED serverVars => Answers'
<1> SUFFICES ASSUME Typed, Answers, TrustyNext, UNCHANGED serverVars PROVE Answers'
  OBVIOUS
<1>1. responses' = responses
  BY DEF serverVars
<1>2. ASSUME UNCHANGED <<to_guest, incoming_msg_queue_, current_session_>>,
             callback_thread_' # "got",
             callback_thread_' \in {"ret", "callback"} /\ prompt_result_' = "OK" =>
               <<current_session_, "kConfirm">> \in responses
      PROVE  Answers'
  BY <1>1, <1>2 DEF Answers, Confirms, ConfirmedByHost
<1>3. ASSUME UNCHANGED <<to_guest, incoming_msg_queue_, current_session_, user_or_abort,
                         callback_thread_, prompt_result_>>
      PROVE  Answers'
  BY <1>1, <1>3, Zenon DEF Answers, Confirms, ConfirmedByHost
<1>4. ASSUME NEW m \in ConfUiMessage, IncomingPush(m),
             Confirms(m) => <<current_session_, "kConfirm">> \in responses,
             UNCHANGED <<current_session_, user_or_abort, callback_thread_, prompt_result_>>,
             \A k \in 1 .. Len(to_guest') :
               Confirms(to_guest'[k]) => <<to_guest'[k].id, "kConfirm">> \in responses
      PROVE  Answers'
  <2>1. \A k \in 1 .. Len(incoming_msg_queue_') :
          \/ incoming_msg_queue_'[k] = m
          \/ \E j \in 1 .. Len(incoming_msg_queue_) :
               incoming_msg_queue_'[k] = incoming_msg_queue_[j]
    BY <1>4, IncomingPushElems, Zenon DEF Typed, GuestType
  <2>2. \A k \in 1 .. Len(incoming_msg_queue_') :
          Confirms(incoming_msg_queue_'[k]) => <<current_session_, "kConfirm">> \in responses
    BY <1>4, <2>1, Zenon DEF Answers
  <2> QED
    BY <1>1, <1>4, <2>2, Zenon DEF Answers, Confirms, ConfirmedByHost
<1>5. ASSUME incoming_msg_queue_ # <<>>
      PROVE  /\ Confirms(Head(incoming_msg_queue_)) =>
                  <<current_session_, "kConfirm">> \in responses
             /\ \A k \in 1 .. Len(Tail(incoming_msg_queue_)) :
                  Confirms(Tail(incoming_msg_queue_)[k]) =>
                    <<current_session_, "kConfirm">> \in responses
  <2>1. PICK m \in ConfUiMessage : TRUE
    BY <1>5, SeqFacts DEF Typed, GuestType
  <2>2. LET q == incoming_msg_queue_ IN
        /\ Len(Tail(q)) = Len(q) - 1 /\ Head(q) = q[1] /\ Len(q) > 0 /\ Len(q) \in Nat
        /\ \A k \in 1 .. Len(Tail(q)) : Tail(q)[k] = q[k + 1]
    BY <1>5, <2>1, SeqFacts DEF Typed, GuestType
  <2>3. 1 \in 1 .. Len(incoming_msg_queue_)
    BY <2>2
  <2>4. \A k \in 1 .. Len(Tail(incoming_msg_queue_)) : k + 1 \in 1 .. Len(incoming_msg_queue_)
    BY <2>2
  <2> QED
    BY <2>2, <2>3, <2>4 DEF Answers
<1>6. CASE promptUserConfirmation \/ promptJoined
  BY <1>2, <1>6, Zenon DEF promptUserConfirmation, promptJoined, StartCallbackThread, consoleVars
<1>7. CASE promptJoins \/ promptWakes \/ promptFails \/ deliverSecureInputEvent \/ abort
  BY <1>3, <1>7 DEF promptJoins, promptWakes, promptFails, deliverSecureInputEvent, abort,
       SessionCall, sessionData, consoleVars
<1>8. CASE DeliverSecureInputEvent
  BY <1>3, <1>8 DEF DeliverSecureInputEvent, SessionCallReturns
<1>9. CASE Abort
  <2>1. CASE listener_state_ \in {"SetupDone", "Interactive"}
    <3>1. current_session_ \in Id
      BY <1>9 DEF Abort, Typed, GuestType
    <3>2. Msg("kAbort", current_session_, "none") \in ConfUiMessage
      BY <3>1, MsgType DEF ConfUiCmd, Arg
    <3>3. ~Confirms(Msg("kAbort", current_session_, "none"))
      BY DEF Confirms, Msg
    <3>4. IncomingPush(Msg("kAbort", current_session_, "none"))
      BY <1>9, <2>1 DEF Abort
    <3>5. UNCHANGED <<to_guest, current_session_, user_or_abort, callback_thread_,
                      prompt_result_>>
      BY <1>9 DEF Abort, SessionCallReturns
    <3> QED
      BY <1>4, <3>2, <3>3, <3>4, <3>5, Zenon DEF Answers
  <2>2. CASE listener_state_ \notin {"SetupDone", "Interactive"}
    BY <1>3, <1>9, <2>2, Zenon DEF Abort, SessionCallReturns
  <2> QED
    BY <2>1, <2>2, Zenon
<1>10. CASE HostMessageFetcherLoop
  <2>1. PICK m \in ConfUiMessage : m = Head(to_guest)
    BY <1>10, SeqFacts DEF HostMessageFetcherLoop, Typed, ConsoleType
  <2>2. /\ Len(Tail(to_guest)) = Len(to_guest) - 1 /\ m = to_guest[1] /\ Len(to_guest) > 0
        /\ Len(to_guest) \in Nat
        /\ \A k \in 1 .. Len(Tail(to_guest)) : Tail(to_guest)[k] = to_guest[k + 1]
    BY <1>10, <2>1, SeqFacts DEF HostMessageFetcherLoop, Typed, ConsoleType
  <2>3. 1 \in 1 .. Len(to_guest)
        /\ \A k \in 1 .. Len(Tail(to_guest)) : k + 1 \in 1 .. Len(to_guest)
    BY <2>2
  <2>4. to_guest' = Tail(to_guest)
        /\ UNCHANGED <<current_session_, user_or_abort, callback_thread_, prompt_result_>>
    BY <1>10, Zenon DEF HostMessageFetcherLoop
  <2>5. \A k \in 1 .. Len(to_guest') :
          Confirms(to_guest'[k]) => <<to_guest'[k].id, "kConfirm">> \in responses
    BY <2>2, <2>3, <2>4 DEF Answers
  <2>6. CASE m.id = current_session_ /\ IncomingPush(m)
    <3>1. Confirms(m) => <<current_session_, "kConfirm">> \in responses
      BY <2>2, <2>3, <2>6, Zenon DEF Answers
    <3> QED
      BY <1>4, <2>4, <2>5, <2>6, <3>1, Zenon
  <2>7. CASE UNCHANGED incoming_msg_queue_
    BY <1>1, <2>4, <2>5, <2>7, Zenon DEF Answers, Confirms, ConfirmedByHost
  <2> QED
    BY <1>10, <2>1, <2>6, <2>7, Zenon DEF HostMessageFetcherLoop
<1>11. CASE RunSession
  <2>1. incoming_msg_queue_' = <<>> /\ Len(incoming_msg_queue_') = 0
    BY <1>11 DEF RunSession
  <2>2. UNCHANGED to_guest /\ callback_thread_' = "prompt"
    BY <1>11 DEF RunSession, callbackRest
  <2>3. 1 .. Len(incoming_msg_queue_') = {}
    BY <2>1
  <2> QED
    BY <1>1, <2>2, <2>3 DEF Answers, Confirms, ConfirmedByHost
<1>12. CASE PromptUserConfirmation \/ PromptBecomesInteractive
  BY <1>2, <1>12, Zenon DEF PromptUserConfirmation, PromptBecomesInteractive, callbackRest
<1>13. CASE PromptTakesAck
  <2>1. incoming_msg_queue_ # <<>> /\ incoming_msg_queue_' = Tail(incoming_msg_queue_)
        /\ UNCHANGED <<to_guest, current_session_>>
    BY <1>13 DEF PromptTakesAck, callbackRest
  <2>2. callback_thread_' # "got"
        /\ (callback_thread_' \in {"ret", "callback"} => prompt_result_' # "OK")
    BY <1>13, Zenon DEF PromptTakesAck
  <2> QED
    BY <1>1, <1>5, <2>1, <2>2, Zenon DEF Answers, Confirms, ConfirmedByHost
<1>14. CASE PromptTakesInput
  <2>1. incoming_msg_queue_ # <<>> /\ incoming_msg_queue_' = Tail(incoming_msg_queue_)
        /\ UNCHANGED <<to_guest, current_session_>>
        /\ callback_thread_' = "got" /\ user_or_abort' = Head(incoming_msg_queue_)
    BY <1>14 DEF PromptTakesInput, callbackRest
  <2> QED
    BY <1>1, <1>5, <2>1, Zenon DEF Answers, Confirms, ConfirmedByHost
<1>15. CASE PromptReturns
  <2>1. callback_thread_ = "got" /\ callback_thread_' = "ret"
        /\ prompt_result_' = PromptResult(user_or_abort)
        /\ UNCHANGED <<to_guest, incoming_msg_queue_, current_session_>>
    BY <1>15 DEF PromptReturns, callbackRest
  <2>2. PromptResult(user_or_abort) = "OK" => Confirms(user_or_abort)
    BY ZenonT(30) DEF PromptResult, Confirms
  <2> QED
    BY <1>2, <2>1, <2>2 DEF Answers
<1>16. CASE RunSessionTerminates \/ ResultCallback
  BY <1>2, <1>16 DEF RunSessionTerminates, ResultCallback, callbackRest, Answers,
                     ConfirmedByHost
<1>17. CASE HostMessageFetcherReturns
  BY <1>3, <1>17, Zenon DEF HostMessageFetcherReturns, sessionData
<1> QED
  BY <1>6, <1>7, <1>8, <1>9, <1>10, <1>11, <1>12, <1>13, <1>14, <1>15, <1>16, <1>17
     DEF TrustyNext, BinderStep, BinderCall, CallbackThread

\* promptUserConfirmation() reports OK for a session only if the host sent the user's
\* confirmation of this very session, whatever late messages of earlier sessions, aborts
\* and lost messages come between.
THEOREM ConfirmationIsGenuine == Spec => []ConfirmedByHost
<1>1. Init => Answers
  <2> SUFFICES ASSUME Init PROVE Answers
    OBVIOUS
  <2>1. to_guest = <<>> /\ incoming_msg_queue_ = <<>> /\ callback_thread_ = "none"
    BY DEF Init, ConsoleInit, TrustyInit
  <2>2. 1 .. Len(to_guest) = {} /\ 1 .. Len(incoming_msg_queue_) = {}
    BY <2>1
  <2> QED
    BY <2>1, <2>2 DEF Answers, ConfirmedByHost
<1>2. Typed /\ Answers /\ [Next]_vars => Answers'
  <2> SUFFICES ASSUME Typed, Answers, [Next]_vars PROVE Answers'
    OBVIOUS
  <2>1. CASE UNCHANGED vars
    BY <2>1, Zenon DEF vars, consoleVars, guestVars, serverVars, Answers, Confirms, ConfirmedByHost
  <2> QED
    BY <2>1, HostAnswers, GuestAnswers, Zenon DEF Next
<1>3. Answers => ConfirmedByHost
  BY DEF Answers
<1> QED
  BY <1>1, <1>2, <1>3, InitTyped, NextTyped, PTL DEF Spec

-----------------------------------------------------------------------------
(* What the steps of the host do to its session and its messages *)

\* What the host says to a session, in this order and each at most once: the ack of
\* kStart, the answer, and an error or an abort.
Rank(m) ==
  IF m.cmd = "kCliAck" /\ m.arg = "success" THEN 1 ELSE IF m.cmd = "kCliRespond" THEN 2 ELSE 3

\* A message of the HAL that ends the session.
Ends(m) == m.cmd \in {"kStop", "kAbort"}

UserCmd == {"kUserInputEvent", "kUserTouchEvent"}

\* The input thread sends what the user does.
UserInputs ==
  /\ input_thread # "idle" => touch.cmd \in UserCmd
  /\ \A k \in 1 .. Len(queues_[user_input_evt_q_id_]) :
       queues_[user_input_evt_q_id_][k].cmd \in UserCmd

\* The host says m to its session.
Says(m) == m \in ConfUiMessage /\ m.id = curr_session_ /\ to_guest' = Append(to_guest, m)

NoNewFatal == trouble \subseteq trouble' /\ ("fatal" \in trouble' => "fatal" \in trouble)

wires == <<from_guest, queues_, trouble>>

\* The other two threads.
HostQuiet ==
  /\ UNCHANGED <<to_guest, curr_session_, state_, main, input>> /\ NoNewFatal
  /\ \/ from_guest' = from_guest /\ queues_'[hal_cmd_q_id_] = queues_[hal_cmd_q_id_]
     \/ /\ from_guest # <<>> /\ from_guest' = Tail(from_guest)
        /\ \/ queues_'[hal_cmd_q_id_] = Append(queues_[hal_cmd_q_id_], Head(from_guest))
           \/ queues_'[hal_cmd_q_id_] = queues_[hal_cmd_q_id_] /\ "dropped" \in trouble'

HostPops ==
  /\ UNCHANGED <<to_guest, curr_session_, state_, from_guest, trouble>>
  /\ main = "pop" /\ main' = "input"
  /\ \/ /\ queues_[hal_cmd_q_id_] # <<>> /\ input' = Head(queues_[hal_cmd_q_id_])
        /\ queues_'[hal_cmd_q_id_] = Tail(queues_[hal_cmd_q_id_])
     \/ queues_'[hal_cmd_q_id_] = queues_[hal_cmd_q_id_] /\ input'.cmd \in UserCmd

HostIgnores ==
  /\ UNCHANGED <<to_guest, curr_session_, state_, wires>>
  /\ main = "input" /\ main' = "pop" /\ input.cmd # "kStart"
  /\ curr_session_ # NoId => ~Ends(input)

HostCreates ==
  /\ UNCHANGED <<to_guest, wires>>
  /\ main = "input" /\ main' = "init" /\ input.cmd = "kStart"
  /\ curr_session_ = NoId /\ curr_session_' = input.id

HostAcks ==
  /\ UNCHANGED <<curr_session_, wires>>
  /\ main = "init" /\ main' = "pop" /\ state_' = "kInSession"
  /\ \E m : Says(m) /\ Rank(m) = 1

HostResponds ==
  /\ UNCHANGED <<curr_session_, wires>> /\ curr_session_ # NoId
  /\ main = "input" /\ main' = "pop" /\ ~Ends(input)
  /\ state_ = "kInSession" /\ state_' = "kWaitStop"
  /\ \E m : Says(m) /\ Rank(m) = 2

HostEnds ==
  /\ UNCHANGED <<from_guest, queues_>> /\ NoNewFatal
  /\ curr_session_ # NoId /\ curr_session_' = NoId /\ main # "pop" /\ main' = "pop"
  /\ \/ UNCHANGED to_guest /\ (main = "init" => trouble' # {})
     \/ \E m : Says(m) /\ Rank(m) = 3 /\ (main = "init" => m.cmd = "kCliAck")

HostCrashes ==
  /\ UNCHANGED from_guest /\ trouble \subseteq trouble' /\ trouble' # {}
  /\ queues_'[hal_cmd_q_id_] = <<>>
  /\ curr_session_' = NoId /\ main' = "pop"
  /\ \/ UNCHANGED to_guest
     \/ curr_session_ # NoId /\ main = "input" /\ \E m : Says(m) /\ Rank(m) = 3
  /\ \/ NoNewFatal
     \/ main = "input" /\ curr_session_ # NoId /\ input.cmd = "kStart"

HostStep ==
  \/ HostQuiet \/ HostPops \/ HostIgnores \/ HostCreates \/ HostAcks \/ HostResponds
  \/ HostEnds \/ HostCrashes

LEMMA SaysMsg ==
  ASSUME Typed, curr_session_ # NoId, NEW c \in ConfUiCmd, NEW a \in Arg,
         to_guest' = Append(to_guest, Msg(c, curr_session_, a))
  PROVE  \E m : /\ Says(m) /\ m.cmd = c
                /\ Rank(m) = IF c = "kCliAck" /\ a = "success" THEN 1
                             ELSE IF c = "kCliRespond" THEN 2 ELSE 3
<1> DEFINE m == Msg(c, curr_session_, a)
<1>1. m \in ConfUiMessage
  BY MsgType DEF Typed, HostType
<1>2. m.cmd = c /\ m.arg = a /\ m.id = curr_session_
  BY DEF Msg
<1>3. to_guest' = Append(to_guest, m)
  OBVIOUS
<1> HIDE DEF m
<1>4. Says(m) /\ m.cmd = c
  BY <1>1, <1>2, <1>3 DEF Says
<1>5. Rank(m) = IF c = "kCliAck" /\ a = "success" THEN 1 ELSE IF c = "kCliRespond" THEN 2 ELSE 3
  BY <1>2 DEF Rank
<1> QED
  BY <1>4, <1>5

LEMMA QueueIndices == QueueIdx = {hal_cmd_q_id_, user_input_evt_q_id_}
  BY TwoQueuesAssumption DEF QueueIdx, hal_cmd_q_id_, user_input_evt_q_id_

\* A push leaves the other queue alone, and says so if it drops the message.
LEMMA MuxPushEffect ==
  ASSUME Typed, NEW idx \in QueueIdx, NEW m, MuxPush(idx, m)
  PROVE  /\ \A other \in QueueIdx \ {idx} : queues_'[other] = queues_[other]
         /\ \/ queues_'[idx] = Append(queues_[idx], m) /\ trouble' = trouble
            \/ queues_'[idx] = queues_[idx] /\ trouble' = trouble \cup {"dropped"}
  BY Zenon DEF MuxPush, QueuePush, Typed, HostType

LEMMA FetcherSteps ==
  ASSUME Typed, HalCmdFetcherLoop \/ SendUserSelectionPush \/ SendUserSelectionPost
                \/ TouchEvent \/ UserAbortEvent \/ GracePeriodPasses
  PROVE  HostQuiet
<1> USE DEF HostQuiet, NoNewFatal
<1>1. CASE HalCmdPush
  <2>1. hal_cmd_q_id_ \in QueueIdx
    BY QueueIndices
  <2>2. MuxPush(hal_cmd_q_id_, Head(from_guest))
    BY <1>1, ZenonT(30) DEF HalCmdPush
  <2> QED
    BY <1>1, <2>1, <2>2, MuxPushEffect DEF HalCmdPush, sessionVars
<1>2. CASE SendUserSelectionPush
  <2>1. user_input_evt_q_id_ \in QueueIdx /\ hal_cmd_q_id_ \in QueueIdx \ {user_input_evt_q_id_}
    BY QueueIndices DEF hal_cmd_q_id_, user_input_evt_q_id_
  <2>2. MuxPush(user_input_evt_q_id_, touch)
    BY <1>2, Zenon DEF SendUserSelectionPush
  <2> QED
    BY <1>2, <2>1, <2>2, MuxPushEffect DEF SendUserSelectionPush, inputRest, sessionVars
<1>3. CASE HalCmdPost \/ SendUserSelectionPost \/ TouchEvent \/ UserAbortEvent \/ GracePeriodPasses
  BY <1>3, Zenon DEF HalCmdPost, SendUserSelectionPost, TouchEvent, UserAbortEvent, UserInput,
     GracePeriodPasses, inputRest, sessionVars, consoleVars, mainRest, muxVars
<1> QED
  BY <1>1, <1>2, <1>3, Zenon DEF HalCmdFetcherLoop

LEMMA CrashEffect ==
  ASSUME NEW why, Crash(why), UNCHANGED from_guest
  PROVE  /\ UNCHANGED from_guest /\ trouble' = trouble \cup {why}
         /\ queues_'[hal_cmd_q_id_] = <<>>
         /\ curr_session_' = NoId /\ main' = "pop"
  BY QueueIndices DEF Crash

LEMMA EndingSteps ==
  ASSUME Typed, SessionShape, curr_session_ # NoId, main # "pop", Terminate,
         UNCHANGED <<from_guest, muxVars>>,
         \/ main # "init" /\ UNCHANGED <<to_guest, trouble>>
         \/ NotSentToGuest
         \/ SentToGuest(Msg("kCliAck", curr_session_, "fail"))
         \/ main # "init" /\ SentToGuest(Msg("kAbort", curr_session_, "none"))
  PROVE  HostEnds
<1>1. NoNewFatal
  BY DEF NoNewFatal, NotSentToGuest, SentToGuest
<1>2. \/ UNCHANGED to_guest /\ (main = "init" => trouble' # {})
      \/ \E m : Says(m) /\ Rank(m) = 3 /\ (main = "init" => m.cmd = "kCliAck")
  <2>1. CASE SentToGuest(Msg("kCliAck", curr_session_, "fail"))
    BY <2>1, SaysMsg DEF SentToGuest, ConfUiCmd, Arg
  <2>2. CASE main # "init" /\ SentToGuest(Msg("kAbort", curr_session_, "none"))
    BY <2>2, SaysMsg DEF SentToGuest, ConfUiCmd, Arg
  <2> QED
    BY <2>1, <2>2 DEF NotSentToGuest
<1> QED
  BY <1>1, <1>2 DEF HostEnds, Terminate, NextInput, muxVars

LEMMA HostSteps ==
  ASSUME Typed, SessionShape, UserInputs, HostServerNext
  PROVE  HostStep
<1> USE DEF HostStep
<1>1. CASE HalCmdFetcherLoop \/ SendUserSelectionPush \/ SendUserSelectionPost
           \/ TouchEvent \/ UserAbortEvent \/ GracePeriodPasses
  BY <1>1, FetcherSteps
<1>2. CASE SendUserSelectionState \/ SendUserSelectionReady
  <2>1. CASE Crash("null") /\ UNCHANGED <<to_guest, from_guest>>
    BY <2>1, CrashEffect DEF HostCrashes, NoNewFatal
  <2>2. CASE UNCHANGED <<inputRest, trouble, muxVars>>
    BY <2>2 DEF inputRest, muxVars, sessionVars, HostQuiet, NoNewFatal
  <2> QED
    BY <1>2, <2>1, <2>2, Zenon DEF SendUserSelectionState, SendUserSelectionReady, SendUserSelectionCheck
<1>3. CASE MainLoopPop
  <2>1. PICK idx \in QueueIdx : PopFrom(idx) /\ input' = Head(queues_[idx])
    BY <1>3 DEF MainLoopPop
  <2>2. queues_[idx] # <<>> /\ queues_' = [queues_ EXCEPT ![idx] = Tail(@)]
    BY <2>1, Zenon DEF PopFrom, Selected, Filled
  <2>3. CASE idx = hal_cmd_q_id_
    BY <1>3, <2>1, <2>2, <2>3, Zenon DEF MainLoopPop, mainRest, sessionVars, HostPops, Typed, HostType
  <2>4. CASE idx = user_input_evt_q_id_
    <3>1. queues_'[hal_cmd_q_id_] = queues_[hal_cmd_q_id_]
      BY <2>2, <2>4, QueueIndices DEF Typed, HostType, hal_cmd_q_id_, user_input_evt_q_id_
    <3>2. Head(queues_[idx]).cmd \in UserCmd
      <4>1. queues_[idx] \in Seq(ConfUiMessage)
        BY DEF Typed, HostType
      <4>2. Head(queues_[idx]) = queues_[idx][1] /\ 1 \in 1 .. Len(queues_[idx])
        BY <2>2, <4>1, SMTT(20)
      <4> QED
        BY <2>4, <4>2 DEF UserInputs
    <3> QED
      BY <1>3, <2>1, <3>1, <3>2 DEF MainLoopPop, mainRest, sessionVars, HostPops
  <2> QED
    BY <2>3, <2>4, QueueIndices
<1>4. CASE MainLoopPopNothing
  BY <1>4, CrashEffect DEF MainLoopPopNothing, HostCrashes, NoNewFatal
<1>5. CASE NoSession \/ TouchNowhere \/ HandleWaitStopIgnores
  BY <1>5 DEF NoSession, TouchNowhere, HandleWaitStopIgnores, HasSession, Selects, IsUserInput,
     IgnoreInput, NextInput, HostIgnores, Ends, wires, mainRest, muxVars, sessionVars
<1>6. CASE CreateSession
  BY <1>6 DEF CreateSession, HostCreates, wires, mainRest, muxVars
<1>7. CASE HandleInitRendered
  <2>1. main = "init" /\ curr_session_ # NoId
    BY <1>7 DEF HandleInitRendered, Typed, HostType
  <2>2. CASE /\ SentToGuest(Msg("kCliAck", curr_session_, "success"))
             /\ state_' = "kInSession" /\ NextInput /\ UNCHANGED curr_session_
    <3>1. \E m : Says(m) /\ Rank(m) = 1
      BY <2>1, <2>2, SaysMsg DEF SentToGuest, ConfUiCmd, Arg
    <3> QED
      BY <1>7, <2>1, <2>2, <3>1 DEF HandleInitRendered, HostAcks, NextInput, wires, mainRest,
         muxVars, SentToGuest
  <2>3. CASE NotSentToGuest /\ Terminate
    BY <1>7, <2>1, <2>3, EndingSteps, Zenon DEF HandleInitRendered, mainRest
  <2> QED
    BY <1>7, <2>2, <2>3 DEF HandleInitRendered
<1>8. CASE HandleInitFails
  BY <1>8, EndingSteps DEF HandleInitFails, ReportErrorToHal, mainRest, Typed, HostType
<1>9. CASE SessionUserAbort
  BY <1>9, EndingSteps DEF SessionUserAbort, HasSession, mainRest
<1>10. CASE SessionAbort \/ HandleWaitStop
  BY <1>10, EndingSteps DEF SessionAbort, HandleWaitStop, HasSession, mainRest
<1>11. CASE HandleInSessionInvalid
  BY <1>11, EndingSteps DEF HandleInSessionInvalid, ReportErrorToHal, HasSession, mainRest
<1>12. CASE HandleInSession
  <2>1. main = "input" /\ curr_session_ # NoId /\ state_ = "kInSession" /\ Selects
    BY <1>12 DEF HandleInSession, HasSession
  <2>2. CASE SendResponse
    <3>1. \E m : Says(m) /\ Rank(m) = 2
      BY <2>1, <2>2, SaysMsg DEF SendResponse, SentToGuest, ConfUiCmd, Arg, Selects, UserResponse
    <3> QED
      BY <1>12, <2>1, <2>2, <3>1, Zenon DEF HandleInSession, SendResponse, HostResponds, NextInput, wires,
         mainRest, muxVars, SentToGuest, Selects, IsUserInput, Ends
  <2>3. CASE (ReportErrorToHal \/ NotSentToGuest) /\ Terminate
    BY <1>12, <2>1, <2>3, EndingSteps, Zenon DEF HandleInSession, ReportErrorToHal, mainRest
  <2> QED
    BY <1>12, <2>2, <2>3 DEF HandleInSession
<1>13. CASE HandleWaitStopFatal
  <2>1. main = "input" /\ curr_session_ # NoId /\ input.cmd = "kStart" /\ Crash("fatal")
        /\ UNCHANGED from_guest
    BY <1>13 DEF HandleWaitStopFatal, HasSession
  <2>2. UNCHANGED to_guest \/ \E m : Says(m) /\ Rank(m) = 3
    BY <1>13, <2>1, SaysMsg DEF HandleWaitStopFatal, ConfUiCmd, Arg
  <2> QED
    BY <2>1, <2>2, CrashEffect DEF HostCrashes
<1> QED
  BY <1>1, <1>2, <1>3, <1>4, <1>5, <1>6, <1>7, <1>8, <1>9, <1>10, <1>11, <1>12, <1>13
     DEF HostServerNext, MainLoop, SendUserSelection

-----------------------------------------------------------------------------
(* What the calls do to the messages; the callback thread is taken as it is *)

\* Who may move the listener's state while a session starts.
Starting ==
  /\ callback_thread_ \in {"run", "prompt", "ack"} => listener_state_ = "Starting"
  /\ listener_state_ = "None" => callback_thread_ = "none"
  /\ callback_thread_ = "ack" => listener_state_lock_ = "callback_thread_"

GuestIdle ==
  /\ UNCHANGED <<callback_thread_, current_session_, incoming_msg_queue_, user_or_abort,
                 from_guest, to_guest>>
  /\ UNCHANGED trouble \/ trouble' = trouble \cup {"io"}

GuestStarts ==
  /\ callback_thread_ = "none" /\ callback_thread_' = "run"
  /\ UNCHANGED <<current_session_, incoming_msg_queue_, user_or_abort, consoleVars>>

GuestSends ==
  /\ callback_thread_ \notin {"run", "prompt", "ack"}
  /\ UNCHANGED <<callback_thread_, current_session_, user_or_abort, to_guest>>
  /\ \E m \in ConfUiMessage :
       /\ m.cmd \in {"kUserInputEvent", "kAbort"} /\ SerializedSend(m)
       /\ UNCHANGED incoming_msg_queue_ \/ (m.cmd = "kAbort" /\ IncomingPush(m))

GuestStep ==
  GuestIdle \/ GuestStarts \/ GuestSends \/ HostMessageFetcherLoop \/ CallbackThread

LEMMA GuestSteps ==
  ASSUME Typed, Starting, TrustyNext
  PROVE  GuestStep
<1> USE DEF GuestStep
<1>1. CASE promptUserConfirmation \/ promptJoined
  BY <1>1, Zenon DEF promptUserConfirmation, promptJoined, StartCallbackThread, GuestStarts, Starting
<1>2. CASE promptJoins \/ promptWakes \/ promptFails \/ deliverSecureInputEvent \/ abort
  BY <1>2 DEF promptJoins, promptWakes, promptFails, deliverSecureInputEvent, abort, SessionCall,
     sessionData, consoleVars, GuestIdle
<1>3. CASE DeliverSecureInputEvent
  <2>1. UNCHANGED <<callback_thread_, current_session_, user_or_abort, to_guest,
                    incoming_msg_queue_>>
    BY <1>3 DEF DeliverSecureInputEvent, SessionCallReturns
  <2>2. CASE listener_state_ = "Interactive"
    <3>1. PICK a \in {"kConfirm", "kCancel"} :
                 SerializedSend(Msg("kUserInputEvent", current_session_, a))
      BY <1>3, <2>2 DEF DeliverSecureInputEvent
    <3>2. current_session_ \in Id
      BY <1>3, Zenon DEF DeliverSecureInputEvent, Typed, GuestType
    <3>3. /\ Msg("kUserInputEvent", current_session_, a) \in ConfUiMessage
          /\ Msg("kUserInputEvent", current_session_, a).cmd = "kUserInputEvent"
      BY <3>2, MsgType, Zenon DEF ConfUiCmd, Arg, UserResponse, Msg
    <3> QED
      BY <2>1, <2>2, <3>1, <3>3 DEF GuestSends, Starting
  <2>3. CASE listener_state_ # "Interactive"
    BY <1>3, <2>1, <2>3 DEF DeliverSecureInputEvent, GuestIdle, consoleVars
  <2> QED
    BY <2>2, <2>3
<1>4. CASE Abort
  <2>1. UNCHANGED <<callback_thread_, current_session_, user_or_abort, to_guest>>
    BY <1>4 DEF Abort, SessionCallReturns
  <2>2. CASE listener_state_ \in {"SetupDone", "Interactive"}
    <3> DEFINE m == Msg("kAbort", current_session_, "none")
    <3>1. SerializedSend(m) /\ IncomingPush(m)
      BY <1>4, <2>2 DEF Abort
    <3>2. current_session_ \in Id
      BY <1>4 DEF Abort, Typed, GuestType
    <3>3. m \in ConfUiMessage /\ m.cmd = "kAbort"
      BY <3>2, MsgType DEF ConfUiCmd, Arg, Msg
    <3> HIDE DEF m
    <3> QED
      BY <2>1, <2>2, <3>1, <3>3 DEF GuestSends, Starting
  <2>3. CASE listener_state_ \notin {"SetupDone", "Interactive"}
    BY <1>4, <2>1, <2>3, Zenon DEF Abort, GuestIdle, consoleVars
  <2> QED
    BY <2>2, <2>3
<1>5. CASE HostMessageFetcherReturns
  BY <1>5, Zenon DEF HostMessageFetcherReturns, sessionData, GuestIdle
<1> QED
  BY <1>1, <1>2, <1>3, <1>4, <1>5 DEF TrustyNext, BinderStep, BinderCall

LEMMA NextStarting ==
  Typed /\ Starting /\ [Next]_vars => Starting'
<1> SUFFICES ASSUME Typed, Starting, [Next]_vars PROVE Starting'
  OBVIOUS
<1> USE DEF Starting
<1>1. CASE UNCHANGED guestVars
  BY <1>1, Zenon DEF guestVars
<1>2. CASE BinderStep
  BY <1>2, Zenon DEF BinderStep, promptJoined, promptWakes, promptFails, StartCallbackThread,
     DeliverSecureInputEvent, Abort, SessionCallReturns, StateUnlocked
<1>3. CASE BinderCall
  BY <1>3, Zenon DEF BinderCall, promptUserConfirmation, promptJoins, StartCallbackThread,
     deliverSecureInputEvent, abort, SessionCall, StateUnlocked
<1>4. CASE RunSession \/ PromptUserConfirmation \/ PromptTakesAck
  BY <1>4 DEF RunSession, PromptUserConfirmation, PromptTakesAck
<1>5. CASE PromptBecomesInteractive \/ PromptTakesInput \/ PromptReturns
           \/ RunSessionTerminates \/ ResultCallback
  BY <1>5, Zenon DEF PromptBecomesInteractive, PromptTakesInput, PromptReturns,
     RunSessionTerminates, ResultCallback
<1>6. CASE HostMessageFetcherLoop \/ HostMessageFetcherReturns
  BY <1>6 DEF HostMessageFetcherLoop, HostMessageFetcherReturns, lockVars
<1> QED
  BY <1>1, <1>2, <1>3, <1>4, <1>5, <1>6 DEF Next, TrustyNext, CallbackThread, vars

LEMMA NextUserInputs ==
  Typed /\ UserInputs /\ [Next]_vars => UserInputs'
<1> SUFFICES ASSUME Typed, UserInputs, [Next]_vars PROVE UserInputs'
  OBVIOUS
<1> DEFINE u == user_input_evt_q_id_
<1>0. u \in QueueIdx /\ hal_cmd_q_id_ \in QueueIdx /\ u # hal_cmd_q_id_
  BY QueueIndices DEF hal_cmd_q_id_, user_input_evt_q_id_
<1>1. ASSUME input_thread' = "idle" \/ touch'.cmd \in UserCmd, queues_'[u] = queues_[u]
      PROVE  UserInputs'
  BY <1>1 DEF UserInputs
<1>2. ASSUME UNCHANGED <<input_thread, touch>>, queues_'[u] = queues_[u]
      PROVE  UserInputs'
  BY <1>2, Zenon DEF UserInputs
<1>3. ASSUME NEW why, Crash(why) PROVE UserInputs'
  <2>1. input_thread' = "idle" /\ Len(queues_'[u]) = 0
    BY <1>0, <1>3 DEF Crash
  <2> QED
    BY <2>1 DEF UserInputs
<1>4. CASE UNCHANGED serverVars
  BY <1>2, <1>4 DEF serverVars, hostVars, threadVars, muxVars
<1>5. CASE HalCmdFetcherLoop
  <2>1. CASE HalCmdPush
    <3>1. MuxPush(hal_cmd_q_id_, Head(from_guest))
      BY <2>1 DEF HalCmdPush
    <3> QED
      BY <1>0, <1>2, <2>1, <3>1, MuxPushEffect, Zenon DEF HalCmdPush
  <2>2. CASE HalCmdPost
    BY <1>2, <2>2, Zenon DEF HalCmdPost
  <2> QED
    BY <1>5, <2>1, <2>2, Zenon DEF HalCmdFetcherLoop
<1>6. CASE TouchEvent \/ UserAbortEvent
  <2>1. touch'.cmd \in UserCmd
    BY <1>6 DEF TouchEvent, UserAbortEvent, UserInput, Msg, UserCmd
  <2> QED
    BY <1>1, <1>6, <2>1, Zenon DEF TouchEvent, UserAbortEvent, UserInput, muxVars
<1>7. CASE SendUserSelectionState \/ SendUserSelectionReady
  <2>1. CASE Crash("null")
    BY <1>3, <2>1, Zenon
  <2>2. CASE input_thread # "idle" /\ UNCHANGED <<muxVars, touch>>
    BY <2>2, Zenon DEF UserInputs, muxVars
  <2> QED
    BY <1>7, <2>1, <2>2 DEF SendUserSelectionState, SendUserSelectionReady, SendUserSelectionCheck
<1>8. CASE SendUserSelectionPush
  <2>1. touch.cmd \in UserCmd /\ UNCHANGED touch /\ MuxPush(u, touch)
    BY <1>8, Zenon DEF SendUserSelectionPush, UserInputs
  <2>2. CASE queues_'[u] = queues_[u]
    BY <1>1, <2>1, <2>2, Zenon
  <2>3. CASE queues_'[u] = Append(queues_[u], touch)
    <3>1. queues_[u] \in Seq(ConfUiMessage) /\ touch \in ConfUiMessage
      BY <1>0, <1>8, Zenon DEF Typed, HostType, SendUserSelectionPush
    <3>2. IsAppend(queues_'[u], queues_[u], touch)
      BY <2>3, <3>1, AppendFacts
    <3> QED
      BY <2>1, <3>2 DEF IsAppend, UserInputs
  <2> QED
    BY <1>0, <2>1, <2>2, <2>3, MuxPushEffect, Zenon
<1>9. CASE SendUserSelectionPost
  BY <1>1, <1>9 DEF SendUserSelectionPost
<1>10. CASE MainLoopPop
  <2>1. PICK idx \in QueueIdx : PopFrom(idx)
    BY <1>10 DEF MainLoopPop
  <2>2. queues_[idx] # <<>> /\ queues_' = [queues_ EXCEPT ![idx] = Tail(@)]
    BY <2>1 DEF PopFrom, Selected, Filled
  <2>3. UNCHANGED <<input_thread, touch>>
    BY <1>10, Zenon DEF MainLoopPop, mainRest, threadVars
  <2>4. CASE idx = u
    <3>1. queues_[u] \in Seq(ConfUiMessage) /\ queues_'[u] = Tail(queues_[u])
      BY <1>0, <2>2, <2>4, Zenon DEF Typed, HostType
    <3>2. IsTail(queues_'[u], queues_[u])
      BY <2>2, <2>4, <3>1, TailFacts, Zenon
    <3> QED
      BY <2>3, <3>2 DEF IsTail, UserInputs
  <2>5. CASE idx # u
    BY <1>2, <2>2, <2>3, <2>5 DEF Typed, HostType
  <2> QED
    BY <2>4, <2>5
<1>11. CASE MainLoopPopNothing \/ HandleWaitStopFatal
  BY <1>3, <1>11 DEF MainLoopPopNothing, HandleWaitStopFatal
<1>12. CASE UNCHANGED <<mainRest, muxVars>>
  BY <1>2, <1>12, Zenon DEF mainRest, threadVars, muxVars
<1>13. CASE \/ NoSession \/ CreateSession \/ HandleInitRendered \/ HandleInitFails \/ TouchNowhere
            \/ SessionUserAbort \/ SessionAbort \/ HandleInSession \/ HandleInSessionInvalid
            \/ HandleWaitStopIgnores \/ HandleWaitStop \/ GracePeriodPasses
  BY <1>12, <1>13 DEF NoSession, CreateSession, HandleInitRendered, HandleInitFails, TouchNowhere,
     SessionUserAbort, SessionAbort, HandleInSession, HandleInSessionInvalid,
     HandleWaitStopIgnores, HandleWaitStop, GracePeriodPasses
<1> QED
  BY <1>4, <1>5, <1>6, <1>7, <1>8, <1>9, <1>10, <1>11, <1>13
     DEF Next, HostServerNext, MainLoop, SendUserSelection, vars
-----------------------------------------------------------------------------
(* The locks of the HAL *)

\* One call at a time is in progress; who holds a lock, and what the listener's state says
\* about the two threads that move it.
Locks ==
  /\ \A a, b \in binder : a = b
  /\ listener_state_lock_ = "binder" <=> "join" \in binder \/ "fail" \in binder
  /\ current_session_lock_ = "binder" <=> "deliver" \in binder \/ "abort" \in binder
  /\ listener_state_lock_ = "callback_thread_" =>
       listener_state_ = "Starting" /\ callback_thread_ \in {"ack", "aborted"}
  /\ listener_state_ = "Starting" => "wait" \in binder
  /\ listener_state_lock_ = "binder" => listener_state_ = "Terminating"
  /\ listener_state_ = "Terminating" => callback_thread_ \in {"none", "callback"}
  /\ listener_state_ = "SetupDone" => callback_thread_ = "setup"
  /\ listener_state_ = "Interactive" => callback_thread_ \in {"pop", "got", "ret"}

LEMMA InitLocks == Init => Locks
  BY DEF Init, TrustyInit, Locks

LEMMA NextLocks == Typed /\ Starting /\ Locks /\ [Next]_vars => Locks'
<1> SUFFICES ASSUME Typed, Starting, Locks, [Next]_vars PROVE Locks'
  OBVIOUS
<1>1. CASE UNCHANGED guestVars
  BY <1>1, Zenon DEF guestVars, Locks
<1>2. CASE promptUserConfirmation
  BY <1>2, Zenon DEF promptUserConfirmation, StartCallbackThread, BinderFree, StateUnlocked, Locks
<1>3. CASE promptJoins
  BY <1>3, Zenon DEF promptJoins, BinderFree, StateUnlocked, Locks
<1>4. CASE deliverSecureInputEvent \/ abort
  BY <1>4, Zenon DEF deliverSecureInputEvent, abort, SessionCall, BinderFree, Locks
<1>5. CASE promptJoined
  BY <1>5 DEF promptJoined, StartCallbackThread, Locks
<1>6. CASE promptWakes
  BY <1>6 DEF promptWakes, StateUnlocked, Locks
<1>7. CASE promptFails
  BY <1>7, Zenon DEF promptFails, Locks
<1>8. CASE DeliverSecureInputEvent
  BY <1>8, Zenon DEF DeliverSecureInputEvent, SessionCallReturns, StateUnlocked, Locks
<1>9. CASE Abort
  BY <1>9 DEF Abort, SessionCallReturns, StateUnlocked, Locks
<1>10. CASE RunSession \/ PromptUserConfirmation \/ PromptTakesAck
  <2>1. UNCHANGED <<binder, current_session_lock_>> /\ listener_state_ = "Starting"
    BY <1>10, Zenon DEF RunSession, PromptUserConfirmation, PromptTakesAck, callbackRest, Starting
  <2>2. CASE RunSession
    BY <2>1, <2>2, Zenon DEF RunSession, Locks
  <2>3. CASE PromptUserConfirmation
    BY <2>1, <2>3, Zenon DEF PromptUserConfirmation, StateUnlocked, Locks
  <2>4. CASE PromptTakesAck
    BY <2>1, <2>4, Zenon DEF PromptTakesAck, Starting, Locks
  <2> QED
    BY <1>10, <2>2, <2>3, <2>4, Zenon
<1>11. CASE PromptBecomesInteractive \/ PromptTakesInput \/ PromptReturns
  <2>1. UNCHANGED <<binder, current_session_lock_, listener_state_lock_>>
    BY <1>11, Zenon DEF PromptBecomesInteractive, PromptTakesInput, PromptReturns, callbackRest
  <2> QED
    BY <1>11, <2>1 DEF PromptBecomesInteractive, PromptTakesInput, PromptReturns, Locks
<1>12. CASE RunSessionTerminates \/ ResultCallback
  <2>1. UNCHANGED <<binder, current_session_lock_, listener_state_lock_>>
    BY <1>12, Zenon DEF RunSessionTerminates, ResultCallback, callbackRest
  <2> QED
    BY <1>12, <2>1 DEF RunSessionTerminates, ResultCallback, StateUnlocked, Locks
<1>13. CASE HostMessageFetcherLoop \/ HostMessageFetcherReturns
  BY <1>13, Zenon DEF HostMessageFetcherLoop, HostMessageFetcherReturns, lockVars, Locks
<1> QED
  BY <1>1, <1>2, <1>3, <1>4, <1>5, <1>6, <1>7, <1>8, <1>9, <1>10, <1>11, <1>12, <1>13, Zenon
     DEF Next, TrustyNext, BinderStep, BinderCall, CallbackThread, vars
=============================================================================
