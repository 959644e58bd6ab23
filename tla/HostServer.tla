----------------------------- MODULE HostServer -----------------------------
(***************************************************************************)
(* The confirmation UI server of the host (host/libs/confui): HostServer   *)
(* of host_server.cc with its current Session (session.cc), the display    *)
(* mode of host_mode_ctrl.h, and its three threads:                        *)
(*   - HalCmdFetcherLoop() moves the HAL's messages to queue 0;            *)
(*   - the input thread of the webRTC process runs TouchEvent() and        *)
(*     UserAbortEvent(), which put an input into queue 1;                  *)
(*   - MainLoop() takes one input at a time and moves the session.         *)
(*                                                                         *)
(* curr_session_ is a plain shared_ptr that the input thread reads while   *)
(* the main loop resets it; a reset between its check and its use is a     *)
(* crash of the process.  run_cvd restarts a webRTC process that ended, so *)
(* a crash takes the server back to its initial state with the console as  *)
(* it was.                                                                 *)
(***************************************************************************)
EXTENDS Multiplexer, VirtioConsole

CONSTANT MaxTouch   \* bound: inputs of the user

ASSUME MaxTouchAssumption == MaxTouch \in Nat
ASSUME TwoQueuesAssumption == NumQueues = 2

VARIABLES
  hal_fetcher,    \* recv, post (between the two steps of Push())
  input_thread,   \* idle, state, ready (checks of SendUserSelection), push, post
  touch,          \* the message the input thread is sending
  main,           \* pop, input (an input is popped), init (HandleInit)
  input,          \* the input of the main loop
  curr_session_,  \* the id of the current session, NoId for nullptr
  state_,         \* Session::state_ of the current session
  grace,          \* since start_time_: none (not set), running, over
  mode,           \* HostModeCtrl::atomic_mode_
  responses,      \* history: the responses sent to the HAL, as <<id, response>>
  touches         \* inputs of the user so far

threadVars == <<hal_fetcher, input_thread, touch>>
sessionVars == <<curr_session_, state_, grace, mode>>
hostVars == <<muxVars, threadVars, main, input, sessionVars>>
serverVars == <<hostVars, responses, touches>>

hal_cmd_q_id_ == 0
user_input_evt_q_id_ == 1

NoMsg == [cmd |-> "kStop", id |-> NoId, arg |-> "none"]

HostServerInit ==
  /\ MuxInit
  /\ hal_fetcher = "recv" /\ input_thread = "idle" /\ touch = NoMsg
  /\ main = "pop" /\ input = NoMsg
  /\ curr_session_ = NoId /\ state_ = "none" /\ grace = "none"
  /\ mode = "kAndroidMode"

\* The process aborts and run_cvd starts it again.
Crash(why) ==
  /\ trouble' = trouble \cup {why}
  /\ queues_' = [idx \in QueueIdx |-> <<>>] /\ count_' = 0
  /\ hal_fetcher' = "recv" /\ input_thread' = "idle" /\ touch' = NoMsg
  /\ main' = "pop" /\ input' = NoMsg
  /\ curr_session_' = NoId /\ state_' = "none" /\ grace' = "none"
  /\ mode' = "kAndroidMode"

\* Mutant: Push() posts the semaphore itself, and its caller does too.
MuxPushAndPost(idx, msg) ==
  /\ QueuePush(idx, msg)
  /\ trouble' = IF HasRoom(idx) THEN trouble ELSE trouble \cup {"dropped"}
  /\ SemPost

MuxPush(idx, msg) ==
  /\ QueuePush(idx, msg)
  /\ trouble' = IF HasRoom(idx) THEN trouble ELSE trouble \cup {"dropped"}
  /\ UNCHANGED count_

-----------------------------------------------------------------------------
(* HalCmdFetcherLoop() *)

HalCmdPush ==
  /\ hal_fetcher = "recv" /\ from_guest # <<>>
  /\ MuxPush(hal_cmd_q_id_, Head(from_guest))
  /\ from_guest' = Tail(from_guest)
  /\ hal_fetcher' = "post"
  /\ UNCHANGED <<to_guest, input_thread, touch, main, input, sessionVars,
                 responses, touches>>

HalCmdPost ==
  /\ hal_fetcher = "post"
  /\ SemPost
  /\ hal_fetcher' = "recv"
  /\ UNCHANGED <<consoleVars, queues_, input_thread, touch, main, input,
                 sessionVars, responses, touches>>

-----------------------------------------------------------------------------
(* The input thread *)

inputRest == <<to_guest, from_guest, hal_fetcher, main, input, sessionVars,
               responses>>

\* A down event while the confirmation UI is on the screen: a touch at a
\* point (TouchEvent) or the user's abort (UserAbortEvent).
UserInput(cmd, arg) ==
  /\ touches < MaxTouch
  /\ input_thread = "idle"
  /\ mode = "kConfUI_Mode" /\ curr_session_ # NoId
  /\ touch' = Msg(cmd, curr_session_, arg)
  /\ input_thread' = "state"
  /\ touches' = touches + 1
  /\ UNCHANGED <<inputRest, trouble, muxVars>>

TouchEvent ==
  \E point \in {"kConfirm", "kCancel", "nowhere"} :
    UserInput("kUserTouchEvent", point)

UserAbortEvent == UserInput("kUserInputEvent", "kUserAbort")

\* The two later checks of SendUserSelection(), each through curr_session_.
SendUserSelectionCheck(at, passes, next) ==
  /\ input_thread = at
  /\ \/ /\ curr_session_ = NoId
        /\ Crash("null")
        /\ UNCHANGED <<to_guest, from_guest, responses, touches>>
     \/ /\ curr_session_ # NoId
        /\ input_thread' = IF passes THEN next ELSE "idle"
        /\ UNCHANGED <<inputRest, trouble, muxVars, touch, touches>>

SendUserSelectionState ==
  SendUserSelectionCheck("state", state_ = "kInSession", "ready")

SendUserSelectionReady == SendUserSelectionCheck("ready", grace = "over", "push")

SendUserSelectionPush ==
  /\ input_thread = "push"
  /\ MuxPush(user_input_evt_q_id_, touch)
  /\ input_thread' = "post"
  /\ UNCHANGED <<inputRest, touch, touches>>

SendUserSelectionPost ==
  /\ input_thread = "post"
  /\ SemPost
  /\ input_thread' = "idle" /\ touch' = NoMsg
  /\ UNCHANGED <<inputRest, trouble, queues_, touches>>

-----------------------------------------------------------------------------
(* MainLoop() *)

mainRest == <<threadVars, touches, from_guest>>

MainLoopPop ==
  /\ main = "pop"
  /\ \E idx \in QueueIdx : PopFrom(idx) /\ input' = Head(queues_[idx])
  /\ main' = "input"
  /\ UNCHANGED <<mainRest, to_guest, trouble, sessionVars, responses>>

MainLoopPopNothing ==
  /\ main = "pop"
  /\ PopNothing
  /\ Crash("check")
  /\ UNCHANGED <<to_guest, from_guest, responses, touches>>

NextInput == main' = "pop" /\ input' = NoMsg

\* Mutant: CleanUp() leaves the display mode.
TerminateInMode ==
  /\ curr_session_' = NoId /\ state_' = "none" /\ grace' = "none"
  /\ UNCHANGED mode
  /\ NextInput

\* ScheduleToTerminate(), then the loop's finalization: CleanUp() and reset.
Terminate ==
  /\ curr_session_' = NoId /\ state_' = "none" /\ grace' = "none"
  /\ mode' = "kAndroidMode"
  /\ NextInput

\* ReportErrorToHal()
ReportErrorToHal ==
  SentToGuest(Msg("kCliAck", curr_session_, "fail")) \/ NotSentToGuest

\* The session takes the input without a change of its state.
IgnoreInput ==
  /\ NextInput
  /\ UNCHANGED <<to_guest, trouble, sessionVars, responses>>

IsUserInput == input.cmd \in {"kUserInputEvent", "kUserTouchEvent"}

NoSession ==
  /\ main = "input" /\ curr_session_ = NoId /\ input.cmd # "kStart"
  /\ IgnoreInput
  /\ UNCHANGED <<mainRest, muxVars>>

\* CreateSession() and HandleInit() as far as SetMode().
CreateSession ==
  /\ main = "input" /\ curr_session_ = NoId /\ input.cmd = "kStart"
  /\ curr_session_' = input.id /\ state_' = "kInit" /\ grace' = "none"
  /\ mode' = "kConfUI_Mode"
  /\ main' = "init"
  /\ UNCHANGED <<mainRest, muxVars, input, to_guest, trouble, responses>>

\* The dialog is rendered, and the ack is sent or is not.
HandleInitRendered ==
  /\ main = "init"
  /\ \/ /\ SentToGuest(Msg("kCliAck", curr_session_, "success"))
        /\ state_' = "kInSession" /\ grace' = "running" /\ NextInput
        /\ UNCHANGED <<curr_session_, mode>>
     \/ NotSentToGuest /\ Terminate
  /\ UNCHANGED <<mainRest, muxVars, responses>>

\* The prompt is too long or malformed, or it cannot be rendered.
HandleInitFails ==
  /\ main = "init"
  /\ ReportErrorToHal /\ Terminate
  /\ UNCHANGED <<mainRest, muxVars, responses>>

GracePeriodPasses ==
  /\ grace = "running"
  /\ grace' = "over"
  /\ UNCHANGED <<mainRest, muxVars, main, input, to_guest, trouble,
                 curr_session_, state_, mode, responses>>

HasSession == main = "input" /\ curr_session_ # NoId

TouchNowhere ==
  /\ HasSession /\ input.cmd = "kUserTouchEvent" /\ input.arg = "nowhere"
  /\ IgnoreInput
  /\ UNCHANGED <<mainRest, muxVars>>

SessionUserAbort ==
  /\ HasSession /\ input.cmd = "kUserInputEvent" /\ input.arg = "kUserAbort"
  /\ \/ SentToGuest(Msg("kAbort", curr_session_, "none"))
     \/ NotSentToGuest
  /\ Terminate
  /\ UNCHANGED <<mainRest, muxVars, responses>>

SessionAbort ==
  /\ HasSession /\ input.cmd = "kAbort"
  /\ Terminate
  /\ UNCHANGED <<mainRest, muxVars, to_guest, trouble, responses>>

Selects == IsUserInput /\ input.arg \in {"kConfirm", "kCancel"}

SendResponse ==
  /\ SentToGuest(Msg("kCliRespond", curr_session_, input.arg))
  /\ responses' = responses \cup {<<curr_session_, input.arg>>}
  /\ state_' = "kWaitStop" /\ NextInput
  /\ UNCHANGED <<curr_session_, grace, mode>>

\* The answer goes to the HAL; a confirmation that cannot be signed is an
\* error, an answer that cannot be sent ends the session silently.
HandleInSession ==
  /\ HasSession /\ state_ = "kInSession" /\ Selects
  /\ \/ SendResponse
     \/ /\ input.arg = "kConfirm"
        /\ ReportErrorToHal /\ Terminate
        /\ UNCHANGED responses
     \/ /\ NotSentToGuest /\ Terminate
        /\ UNCHANGED responses
  /\ UNCHANGED <<mainRest, muxVars>>

HandleInSessionInvalid ==
  /\ HasSession /\ state_ = "kInSession" /\ input.cmd \in {"kStart", "kStop"}
  /\ ReportErrorToHal /\ Terminate
  /\ UNCHANGED <<mainRest, muxVars, responses>>

HandleWaitStopIgnores ==
  /\ HasSession /\ state_ = "kWaitStop" /\ Selects
  /\ IgnoreInput
  /\ UNCHANGED <<mainRest, muxVars>>

\* Mutant: kStop is accepted, and the session is not scheduled to terminate.
HandleWaitStopStays ==
  /\ HasSession /\ state_ = "kWaitStop" /\ input.cmd = "kStop"
  /\ IgnoreInput
  /\ UNCHANGED <<mainRest, muxVars>>

HandleWaitStop ==
  /\ HasSession /\ state_ = "kWaitStop" /\ input.cmd = "kStop"
  /\ Terminate
  /\ UNCHANGED <<mainRest, muxVars, to_guest, trouble, responses>>

\* Any other command of the HAL is reported to it and is fatal.
HandleWaitStopFatal ==
  /\ HasSession /\ state_ = "kWaitStop" /\ input.cmd = "kStart"
  /\ \/ to_guest' = Append(to_guest, Msg("kCliAck", curr_session_, "fail"))
     \/ IoFails /\ UNCHANGED to_guest
  /\ Crash("fatal")
  /\ UNCHANGED <<from_guest, responses, touches>>

HalCmdFetcherLoop == HalCmdPush \/ HalCmdPost

SendUserSelection ==
  \/ SendUserSelectionState \/ SendUserSelectionReady
  \/ SendUserSelectionPush \/ SendUserSelectionPost

MainLoop ==
  \/ MainLoopPop \/ MainLoopPopNothing \/ NoSession \/ CreateSession
  \/ HandleInitRendered \/ HandleInitFails
  \/ TouchNowhere \/ SessionUserAbort \/ SessionAbort
  \/ HandleInSession \/ HandleInSessionInvalid
  \/ HandleWaitStopIgnores \/ HandleWaitStop \/ HandleWaitStopFatal

HostServerNext ==
  \/ HalCmdFetcherLoop \/ MainLoop \/ SendUserSelection
  \/ TouchEvent \/ UserAbortEvent \/ GracePeriodPasses
=============================================================================
