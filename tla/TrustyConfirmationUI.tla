------------------------ MODULE TrustyConfirmationUI ------------------------
(***************************************************************************)
(* The confirmation UI HAL of the guest (guest/hals/confirmationui):       *)
(* TrustyConfirmationUI.cpp with its GuestSession (guest_session.cpp) and  *)
(* its threads:                                                            *)
(*   - the binder threads run promptUserConfirmation(),                    *)
(*     deliverSecureInputEvent() and abort();                              *)
(*   - the callback thread runs RunSession() and PromptUserConfirmation(); *)
(*   - HostMessageFetcherLoop() hands the host's messages to the session.  *)
(*                                                                         *)
(* A lock that a thread holds while it waits is a variable; one that it    *)
(* takes and releases within a step is a guard.  A condition variable is   *)
(* its predicate: every change of listener_state_ that a waiter waits for  *)
(* is followed by a notify_all().  Calls that return an error and change   *)
(* nothing (OPERATION_PENDING, IGNORED) are left out.  binder is the set   *)
(* of calls in progress by where they are: two of them are never at the    *)
(* same place, so the threads need no names.                               *)
(***************************************************************************)
EXTENDS VirtioConsole

CONSTANTS
  incoming_capacity, \* capacity of incoming_msg_queue_
  MaxCall            \* bound: calls of abort() and deliverSecureInputEvent()

\* The host sends at most three messages to a session: the ack of kStart, the
\* answer, and an abort or an error.
ASSUME IncomingAssumption == incoming_capacity \in Nat /\ incoming_capacity > 3
ASSUME MaxCallAssumption == MaxCall \in Nat

VARIABLES
  binder,               \* calls in progress: wait, join (then start), fail (join,
                        \* then return the error), deliver, abort
  callback_thread_,     \* none, run, prompt, ack, setup, pop, got, ret, callback,
                        \* aborted (a CHECK failed)
  listener_state_,
  listener_state_lock_,  \* nobody, binder, callback_thread_
  current_session_lock_, \* nobody, binder
  current_session_id_,
  current_session_,     \* the id of the GuestSession, NoId for nullptr
  incoming_msg_queue_,
  user_or_abort,        \* the message PromptUserConfirmation took
  prompt_result_,
  calls,                \* calls of abort() and deliverSecureInputEvent() so far
  host_cmd_fetcher_thread_ \* loop, returned

guestVars == <<binder, callback_thread_, listener_state_, listener_state_lock_,
               current_session_lock_, current_session_id_, current_session_,
               incoming_msg_queue_, user_or_abort, prompt_result_, calls,
               host_cmd_fetcher_thread_>>
lockVars == <<listener_state_lock_, current_session_lock_>>
sessionData == <<current_session_id_, current_session_, incoming_msg_queue_,
                 user_or_abort, prompt_result_>>

ListenerState == {"None", "Starting", "SetupDone", "Interactive", "Terminating"}
Result == {"OK", "CANCELED", "ABORTED", "SYSTEM_ERROR", "UI_ERROR_MESSAGE_TOO_LONG",
           "IGNORED"}
NoInput == [cmd |-> "kStop", id |-> NoId, arg |-> "none"]

TrustyInit ==
  /\ binder = {}
  /\ callback_thread_ = "none"
  /\ listener_state_ = "None"
  /\ listener_state_lock_ = "nobody" /\ current_session_lock_ = "nobody"
  /\ current_session_id_ = 0 /\ current_session_ = NoId
  /\ incoming_msg_queue_ = <<>> /\ user_or_abort = NoInput
  /\ prompt_result_ = "IGNORED"
  /\ calls = 0
  /\ host_cmd_fetcher_thread_ = "loop"

\* Mutant: a binder thread pool of more than one thread.
BinderPool == TRUE

\* main() gives the process one binder thread: a call waits for the one in
\* progress.
BinderFree == binder = {}

StateUnlocked == listener_state_lock_ = "nobody"
SessionUnlocked == current_session_lock_ = "nobody"

-----------------------------------------------------------------------------
(* promptUserConfirmation() *)

\* The new session's thread starts; the caller waits without the lock.
StartCallbackThread ==
  /\ current_session_id_ < MaxSession
  /\ listener_state_' = "Starting"
  /\ current_session_id_' = current_session_id_ + 1
  /\ callback_thread_' = "run"
  /\ binder' = (binder \ {"join"}) \cup {"wait"}
  /\ UNCHANGED <<current_session_lock_, current_session_, incoming_msg_queue_,
                 user_or_abort, prompt_result_, calls,
                 host_cmd_fetcher_thread_, consoleVars>>

promptUserConfirmation ==
  /\ BinderFree /\ StateUnlocked
  /\ listener_state_ = "None"
  /\ StartCallbackThread
  /\ UNCHANGED listener_state_lock_

\* join() of the last session's thread, under listener_state_lock_.
promptJoins ==
  /\ BinderFree /\ StateUnlocked
  /\ listener_state_ = "Terminating"
  /\ current_session_id_ < MaxSession
  /\ listener_state_lock_' = "binder"
  /\ binder' = binder \cup {"join"}
  /\ UNCHANGED <<callback_thread_, listener_state_, current_session_lock_,
                 sessionData, calls, host_cmd_fetcher_thread_, consoleVars>>

promptJoined ==
  /\ "join" \in binder /\ callback_thread_ = "none"
  /\ StartCallbackThread
  /\ listener_state_lock_' = "nobody"

promptWakes ==
  /\ "wait" \in binder /\ StateUnlocked
  /\ \/ /\ listener_state_ \in {"SetupDone", "Interactive"}
        /\ binder' = binder \ {"wait"}
        /\ UNCHANGED listener_state_lock_
     \/ /\ listener_state_ = "Terminating"
        /\ binder' = (binder \ {"wait"}) \cup {"fail"}
        /\ listener_state_lock_' = "binder"
  /\ UNCHANGED <<callback_thread_, listener_state_, current_session_lock_,
                 sessionData, calls, host_cmd_fetcher_thread_, consoleVars>>

promptFails ==
  /\ "fail" \in binder /\ callback_thread_ = "none"
  /\ listener_state_' = "None"
  /\ listener_state_lock_' = "nobody"
  /\ binder' = binder \ {"fail"}
  /\ UNCHANGED <<callback_thread_, current_session_lock_, sessionData, calls,
                 host_cmd_fetcher_thread_, consoleVars>>

-----------------------------------------------------------------------------
(* deliverSecureInputEvent() and abort() *)

\* Both hold current_session_lock_ while they wait for listener_state_lock_.
SessionCall(call) ==
  /\ BinderFree /\ SessionUnlocked
  /\ calls < MaxCall
  /\ current_session_ # NoId
  /\ current_session_lock_' = "binder"
  /\ binder' = binder \cup {call}
  /\ calls' = calls + 1
  /\ UNCHANGED <<callback_thread_, listener_state_, listener_state_lock_,
                 sessionData, host_cmd_fetcher_thread_, consoleVars>>

deliverSecureInputEvent == SessionCall("deliver")

abort == SessionCall("abort")

SessionCallReturns ==
  /\ current_session_lock_' = "nobody"
  /\ binder' = binder \ {"deliver", "abort"}
  /\ UNCHANGED <<callback_thread_, listener_state_, listener_state_lock_,
                 current_session_id_, current_session_, user_or_abort,
                 prompt_result_, calls, host_cmd_fetcher_thread_, to_guest>>

DeliverSecureInputEvent ==
  /\ "deliver" \in binder /\ StateUnlocked
  /\ listener_state_ # "SetupDone"
  /\ \/ /\ listener_state_ = "Interactive"
        /\ \E response \in {"kConfirm", "kCancel"} :
             SerializedSend(Msg("kUserInputEvent", current_session_, response))
     \/ listener_state_ # "Interactive" /\ UNCHANGED <<from_guest, trouble>>
  /\ SessionCallReturns
  /\ UNCHANGED incoming_msg_queue_

\* ThreadSafeQueue::Push() with GuestSession::QueueFullHandler(), which
\* makes room by dropping the older half.
IncomingPush(msg) ==
  LET len == Len(incoming_msg_queue_)
      kept == IF len = incoming_capacity
              THEN SubSeq(incoming_msg_queue_, (len \div 2) + 1, len)
              ELSE incoming_msg_queue_
  IN incoming_msg_queue_' =
       IF Len(kept) = incoming_capacity THEN kept ELSE Append(kept, msg)

\* Mutant: abort() leaves it to the host to end the session.
AbortOnHost ==
  /\ "abort" \in binder /\ StateUnlocked
  /\ \/ /\ listener_state_ \in {"SetupDone", "Interactive"}
        /\ SerializedSend(Msg("kAbort", current_session_, "none"))
     \/ /\ listener_state_ \notin {"SetupDone", "Interactive"}
        /\ UNCHANGED <<from_guest, trouble>>
  /\ UNCHANGED incoming_msg_queue_
  /\ SessionCallReturns

Abort ==
  /\ "abort" \in binder /\ StateUnlocked
  /\ \/ /\ listener_state_ \in {"SetupDone", "Interactive"}
        /\ SerializedSend(Msg("kAbort", current_session_, "none"))
        /\ IncomingPush(Msg("kAbort", current_session_, "none"))
     \/ /\ listener_state_ \notin {"SetupDone", "Interactive"}
        /\ UNCHANGED <<from_guest, trouble, incoming_msg_queue_>>
  /\ SessionCallReturns

-----------------------------------------------------------------------------
(* HostMessageFetcherLoop() *)

\* Mutant: the session of a message is not compared with the current one.
FetcherForAnySession ==
  /\ host_cmd_fetcher_thread_ = "loop"
  /\ to_guest # <<>> /\ SessionUnlocked
  /\ to_guest' = Tail(to_guest)
  /\ IncomingPush(Head(to_guest))
  /\ UNCHANGED <<binder, callback_thread_, listener_state_, lockVars,
                 current_session_id_, current_session_, user_or_abort,
                 prompt_result_, calls, host_cmd_fetcher_thread_, from_guest,
                 trouble>>

HostMessageFetcherLoop ==
  /\ host_cmd_fetcher_thread_ = "loop"
  /\ to_guest # <<>> /\ SessionUnlocked
  /\ to_guest' = Tail(to_guest)
  /\ \/ Head(to_guest).id = current_session_ /\ IncomingPush(Head(to_guest))
     \/ Head(to_guest).id # current_session_ /\ UNCHANGED incoming_msg_queue_
  /\ UNCHANGED <<binder, callback_thread_, listener_state_, lockVars,
                 current_session_id_, current_session_, user_or_abort,
                 prompt_result_, calls, host_cmd_fetcher_thread_, from_guest,
                 trouble>>

\* RecvConfUiMsg() fails on a message and gives none: the loop returns, and
\* no thread reads what the host sends from then on.  (Until there is a message
\* a thread that returned cannot be told from one that waits for it.)
HostMessageFetcherReturns ==
  /\ IoFails
  /\ host_cmd_fetcher_thread_ = "loop"
  /\ to_guest # <<>>
  /\ host_cmd_fetcher_thread_' = "returned"
  /\ trouble' = trouble \cup {"io"}
  /\ UNCHANGED <<binder, callback_thread_, listener_state_, lockVars, sessionData,
                 calls, from_guest, to_guest>>

-----------------------------------------------------------------------------
(* The callback thread *)

callbackRest == <<binder, current_session_lock_, current_session_id_, calls,
                  host_cmd_fetcher_thread_, to_guest>>

\* RunSession() makes the new GuestSession the current one.
RunSession ==
  /\ callback_thread_ = "run" /\ SessionUnlocked
  /\ current_session_' = current_session_id_
  /\ incoming_msg_queue_' = <<>>
  /\ callback_thread_' = "prompt"
  /\ UNCHANGED <<callbackRest, listener_state_, listener_state_lock_,
                 user_or_abort, prompt_result_, from_guest, trouble>>

\* The starting phase: kStart is sent and its ack awaited under the lock.
PromptUserConfirmation ==
  /\ callback_thread_ = "prompt" /\ StateUnlocked
  /\ \/ /\ listener_state_ # "Starting"
        /\ callback_thread_' = "aborted"
        /\ UNCHANGED <<prompt_result_, listener_state_lock_, from_guest, trouble>>
     \/ /\ listener_state_ = "Starting"
        /\ callback_thread_' = "ret" /\ prompt_result_' = "UI_ERROR_MESSAGE_TOO_LONG"
        /\ UNCHANGED <<listener_state_lock_, from_guest, trouble>>
     \/ /\ listener_state_ = "Starting"
        /\ SerializedSend(Msg("kStart", current_session_, "none"))
        /\ callback_thread_' = "ack" /\ listener_state_lock_' = "callback_thread_"
        /\ UNCHANGED prompt_result_
  /\ UNCHANGED <<callbackRest, listener_state_, current_session_,
                 incoming_msg_queue_, user_or_abort>>

PromptTakesAck ==
  /\ callback_thread_ = "ack" /\ incoming_msg_queue_ # <<>>
  /\ LET first_msg == Head(incoming_msg_queue_) IN
       \/ /\ first_msg.cmd # "kCliAck"
          /\ callback_thread_' = "aborted"
          /\ UNCHANGED <<listener_state_, listener_state_lock_, prompt_result_>>
       \/ /\ first_msg.cmd = "kCliAck" /\ first_msg.arg = "fail"
          /\ callback_thread_' = "ret" /\ prompt_result_' = "SYSTEM_ERROR"
          /\ listener_state_lock_' = "nobody"
          /\ UNCHANGED listener_state_
       \/ /\ first_msg.cmd = "kCliAck" /\ first_msg.arg = "success"
          /\ callback_thread_' = "setup" /\ listener_state_' = "SetupDone"
          /\ listener_state_lock_' = "nobody"
          /\ UNCHANGED prompt_result_
  /\ incoming_msg_queue_' = Tail(incoming_msg_queue_)
  /\ UNCHANGED <<callbackRest, current_session_, user_or_abort, from_guest, trouble>>

PromptBecomesInteractive ==
  /\ callback_thread_ = "setup" /\ StateUnlocked
  /\ listener_state_' = "Interactive"
  /\ callback_thread_' = "pop"
  /\ UNCHANGED <<callbackRest, listener_state_lock_, current_session_,
                 incoming_msg_queue_, user_or_abort, prompt_result_, from_guest,
                 trouble>>

PromptTakesInput ==
  /\ callback_thread_ = "pop" /\ incoming_msg_queue_ # <<>>
  /\ user_or_abort' = Head(incoming_msg_queue_)
  /\ incoming_msg_queue_' = Tail(incoming_msg_queue_)
  /\ callback_thread_' = "got"
  /\ UNCHANGED <<callbackRest, listener_state_, listener_state_lock_,
                 current_session_, prompt_result_, from_guest, trouble>>

\* Mutant: every answer of the host counts as a confirmation.
PromptResultOK(msg) ==
  CASE msg.cmd = "kAbort" -> "ABORTED"
    [] msg.cmd = "kCliRespond" -> "OK"
    [] OTHER -> "SYSTEM_ERROR"

PromptResult(msg) ==
  CASE msg.cmd = "kAbort" -> "ABORTED"
    [] msg.cmd = "kCliRespond" /\ msg.arg = "kCancel" -> "CANCELED"
    [] msg.cmd = "kCliRespond" /\ msg.arg = "kConfirm" -> "OK"
    [] OTHER -> "SYSTEM_ERROR"

\* Mutant: a canceled session is not followed by kStop.
PromptReturnsWithoutStop ==
  /\ callback_thread_ = "got" /\ StateUnlocked
  /\ prompt_result_' = PromptResult(user_or_abort)
  /\ \/ user_or_abort.cmd = "kCliRespond" /\ user_or_abort.arg = "kConfirm"
        /\ SerializedSend(Msg("kStop", current_session_, "none"))
     \/ user_or_abort.arg # "kConfirm" /\ UNCHANGED <<from_guest, trouble>>
  /\ callback_thread_' = "ret"
  /\ user_or_abort' = NoInput
  /\ UNCHANGED <<callbackRest, listener_state_, listener_state_lock_,
                 current_session_, incoming_msg_queue_>>

\* The answer of the host is followed by kStop, an abort or an error is not.
PromptReturns ==
  /\ callback_thread_ = "got" /\ StateUnlocked
  /\ prompt_result_' = PromptResult(user_or_abort)
  /\ \/ user_or_abort.cmd = "kCliRespond"
        /\ SerializedSend(Msg("kStop", current_session_, "none"))
     \/ user_or_abort.cmd # "kCliRespond" /\ UNCHANGED <<from_guest, trouble>>
  /\ callback_thread_' = "ret"
  /\ user_or_abort' = NoInput
  /\ UNCHANGED <<callbackRest, listener_state_, listener_state_lock_,
                 current_session_, incoming_msg_queue_>>

\* RunSession() after PromptUserConfirmation(): an error of the starting
\* phase is left to promptUserConfirmation(), the rest goes to resultCB.
RunSessionTerminates ==
  /\ callback_thread_ = "ret" /\ StateUnlocked
  /\ callback_thread_' = IF listener_state_ \in {"Interactive", "SetupDone"}
                         THEN "callback" ELSE "none"
  /\ listener_state_' = "Terminating"
  /\ UNCHANGED <<callbackRest, listener_state_lock_, current_session_,
                 incoming_msg_queue_, user_or_abort, prompt_result_, from_guest,
                 trouble>>

ResultCallback ==
  /\ callback_thread_ = "callback"
  /\ callback_thread_' = "none"
  /\ UNCHANGED <<callbackRest, listener_state_, listener_state_lock_,
                 current_session_, incoming_msg_queue_, user_or_abort,
                 prompt_result_, from_guest, trouble>>

CallbackThread ==
  \/ RunSession \/ PromptUserConfirmation \/ PromptTakesAck
  \/ PromptBecomesInteractive \/ PromptTakesInput \/ PromptReturns
  \/ RunSessionTerminates \/ ResultCallback

\* The steps of a call in progress, and the calls.
BinderStep ==
  \/ promptJoined \/ promptWakes \/ promptFails
  \/ DeliverSecureInputEvent \/ Abort

BinderCall ==
  \/ promptUserConfirmation \/ promptJoins
  \/ deliverSecureInputEvent \/ abort

TrustyNext ==
  \/ BinderStep \/ BinderCall \/ CallbackThread
  \/ HostMessageFetcherLoop \/ HostMessageFetcherReturns
=============================================================================
