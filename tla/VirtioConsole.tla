--------------------------- MODULE VirtioConsole ---------------------------
(***************************************************************************)
(* The virtio console between the confirmation UI HAL of the guest         *)
(* (guest/hals/confirmationui) and the confirmation UI server of the host  *)
(* (host/libs/confui): one FIFO each way that carries the messages of      *)
(* common/libs/confui/protocol.cpp.                                        *)
(***************************************************************************)
EXTENDS Naturals, Sequences

CONSTANTS
  MaxSession,   \* bound: sessions the guest starts
  IoFails       \* a write of a message, or a read by the guest, may fail

ASSUME MaxSessionAssumption == MaxSession \in Nat
ASSUME IoFailsAssumption == IoFails \in BOOLEAN

VARIABLES
  from_guest,   \* messages of the HAL that the host did not read yet
  to_guest,     \* messages of the host that the HAL did not read yet
  trouble       \* history: which of Troubles has happened

consoleVars == <<from_guest, to_guest, trouble>>

NoId == 0                \* no session; the HAL numbers its sessions from 1
Id == 1 .. MaxSession
UserResponse == {"kConfirm", "kCancel", "kUserAbort"}

\* What a touch hits, or what a message says besides its session.
Arg == UserResponse \cup {"nowhere", "success", "fail", "none"}
ConfUiCmd == {"kStart", "kStop", "kAbort", "kCliAck", "kCliRespond",
              "kUserInputEvent", "kUserTouchEvent"}
ConfUiMessage == [cmd : ConfUiCmd, id : Id, arg : Arg]
Msg(cmd, id, arg) == [cmd |-> cmd, id |-> id, arg |-> arg]

(***************************************************************************)
(* io: a message was not written, or the guest's read of one failed;       *)
(* dropped: a full queue ignored a message;                                *)
(* check, fatal, null: the host aborted in Multiplexer::CheckIdx(), in     *)
(* Session::HandleWaitStop(), or on a curr_session_ that was reset while   *)
(* the input thread used it.                                               *)
(***************************************************************************)
Troubles == {"io", "dropped", "check", "fatal", "null"}

ConsoleInit ==
  /\ from_guest = <<>>
  /\ to_guest = <<>>
  /\ trouble = {}

\* ConfUiMessage::SendOver() of the host.
SentToGuest(msg) ==
  /\ to_guest' = Append(to_guest, msg)
  /\ UNCHANGED trouble

NotSentToGuest ==
  /\ IoFails
  /\ trouble' = trouble \cup {"io"}
  /\ UNCHANGED to_guest

\* GuestSession::SerializedSend(), whose callers ignore its result.
SerializedSend(msg) ==
  \/ from_guest' = Append(from_guest, msg) /\ UNCHANGED trouble
  \/ IoFails /\ trouble' = trouble \cup {"io"} /\ UNCHANGED from_guest
=============================================================================
