------------------------------- MODULE ConfUi -------------------------------
(***************************************************************************)
(* The confirmation UI of the device: the HAL of the guest and the server  *)
(* of the host over the virtio console.  A session of the HAL is           *)
(*   kStart -> kCliAck -> kCliRespond -> kStop                             *)
(* with aborts of the HAL's client and of the user, errors of the host and *)
(* the user's touches at any time.                                         *)
(***************************************************************************)
EXTENDS HostServer, TrustyConfirmationUI

vars == <<consoleVars, serverVars, guestVars>>

Init ==
  /\ ConsoleInit
  /\ HostServerInit /\ responses = {} /\ touches = 0
  /\ TrustyInit

Next ==
  \/ HostServerNext /\ UNCHANGED guestVars
  \/ TrustyNext /\ UNCHANGED serverVars

Spec == Init /\ [][Next]_vars

\* Every thread that can take a step eventually takes one; nobody has to
\* call the HAL, touch the screen, or make a read or a write fail.
Fairness ==
  /\ WF_vars(HalCmdFetcherLoop /\ UNCHANGED guestVars)
  /\ WF_vars(MainLoop /\ UNCHANGED guestVars)
  /\ WF_vars(SendUserSelection /\ UNCHANGED guestVars)
  /\ WF_vars(CallbackThread /\ UNCHANGED serverVars)
  /\ WF_vars(BinderStep /\ UNCHANGED serverVars)
  /\ WF_vars(HostMessageFetcherLoop /\ UNCHANGED serverVars)

FairSpec == Spec /\ Fairness

-----------------------------------------------------------------------------
(* Properties *)

\* Every variable has its type; a session that exists is in a state that a
\* session can be in between two inputs, or is being started.
TypeOK ==
  /\ from_guest \in Seq(ConfUiMessage) /\ to_guest \in Seq(ConfUiMessage)
  /\ trouble \in SUBSET Troubles
  /\ queues_ \in [QueueIdx -> Seq(ConfUiMessage)] /\ count_ \in Nat
  /\ hal_fetcher \in {"recv", "post"}
  /\ input_thread \in {"idle", "state", "ready", "push", "post"}
  /\ touch \in ConfUiMessage \cup {NoMsg}
  /\ main \in {"pop", "input", "init"}
  /\ input \in ConfUiMessage \cup {NoMsg}
  /\ curr_session_ \in Id \cup {NoId}
  /\ state_ \in {"none", "kInit", "kInSession", "kWaitStop"}
  /\ grace \in {"none", "running", "over"}
  /\ mode \in {"kAndroidMode", "kConfUI_Mode"}
  /\ responses \subseteq Id \X UserResponse
  /\ touches \in 0 .. MaxTouch
  /\ binder \in SUBSET {"wait", "join", "fail", "deliver", "abort"}
  /\ callback_thread_ \in {"none", "run", "prompt", "ack", "setup", "pop", "got",
                           "ret", "callback", "aborted"}
  /\ listener_state_ \in ListenerState
  /\ listener_state_lock_ \in {"nobody", "binder", "callback_thread_"}
  /\ current_session_lock_ \in {"nobody", "binder"}
  /\ current_session_id_ \in 0 .. MaxSession
  /\ current_session_ \in Id \cup {NoId}
  /\ incoming_msg_queue_ \in Seq(ConfUiMessage)
  /\ user_or_abort \in ConfUiMessage \cup {NoInput}
  /\ prompt_result_ \in Result
  /\ calls \in 0 .. MaxCall
  /\ host_cmd_fetcher_thread_ \in {"loop", "returned"}

\* Between two inputs of the main loop the display is in confirmation UI
\* mode exactly when there is a session, which is in kInSession or kWaitStop:
\* no path out of a session leaves the screen to a dialog nobody answers.
ModeFollowsSession ==
  main = "pop" =>
    /\ mode = "kConfUI_Mode" <=> curr_session_ # NoId
    /\ state_ \in IF curr_session_ = NoId THEN {"none"}
                                          ELSE {"kInSession", "kWaitStop"}

\* Messages in the two queues, and messages pushed whose semaphore is not
\* posted yet.
Queued == Len(queues_[hal_cmd_q_id_]) + Len(queues_[user_input_evt_q_id_])
Unposted == (IF hal_fetcher = "post" THEN 1 ELSE 0)
            + (IF input_thread = "post" THEN 1 ELSE 0)

\* No wake-up of the main loop is lost: for every message in a queue the
\* semaphore is posted or is about to be.
SemCoversItems == Queued <= count_ + Unposted

\* The abort of Multiplexer::CheckIdx() in Pop() has one cause, an input that
\* a full queue ignored: however the pushes of the two producers and the pops
\* interleave, the semaphore never promises an item that was not pushed.
CheckOnlyAfterDrop == "check" \in trouble => "dropped" \in trouble

\* The CHECK of PromptUserConfirmation(): the first message of a session that
\* reaches its listener is the ack of kStart, whatever late answers to the
\* sessions before it are still under way.
FirstMessageIsAck == callback_thread_ # "aborted"

\* The host is in kWaitStop only for a HAL that will send kStop or kAbort
\* before its next kStart: the LOG(FATAL) of HandleWaitStop() is reached only
\* after a message was lost.
WaitStopGetsStop == "fatal" \in trouble => trouble \cap {"dropped", "io"} # {}

\* The HAL reports OK for a session only if the host confirmed this session.
ConfirmedByHost ==
  callback_thread_ \in {"ret", "callback"} /\ prompt_result_ = "OK" =>
    <<current_session_, "kConfirm">> \in responses

\* promptUserConfirmation() returns: a call that waits for its session to be
\* set up, or to fail, is not kept waiting by the locks or by the host.
PromptCallReturns == "wait" \in binder ~> "wait" \notin binder \/ trouble # {}

\* Once the user's answer is sent, the host returns to the Android screen.
WaitStopEnds == state_ = "kWaitStop" ~> state_ # "kWaitStop" \/ trouble # {}

\* A call of abort() ends the session it finds, even if the host is gone.
AbortEndsSession ==
  "abort" \in binder ~> listener_state_ \notin {"SetupDone", "Interactive"}

\* The grace period (session.cc): a touch is taken as an answer to a dialog
\* only after the user could see this dialog for a while.
TouchAfterGracePeriod ==
  HasSession /\ state_ = "kInSession" /\ input.cmd = "kUserTouchEvent" /\ Selects
    => grace = "over"
=============================================================================
