------------------------------- MODULE Visca -------------------------------
(***************************************************************************)
(* One socket's VISCA conversation (visca.c, bridge_commands.c): datagrams *)
(* of several controllers wait in the socket, the thread takes one at a    *)
(* time, acknowledges a command, carries it out by a SOAP call to the      *)
(* camera, and completes it; an inquiry is answered by one completion.     *)
(*                                                                         *)
(* Bytes of a message are counted from 0, as in the code.  A datagram is   *)
(* received into a buffer on the stack that is not cleared, and most of    *)
(* the dispatcher looks at bytes without looking at the length: beyond the *)
(* datagram it reads what the last one left there, or what other calls     *)
(* wrote over it.                                                          *)
(*                                                                         *)
(* SonyVisca adds the other layer there is in the source;                  *)
(* ViscaProperties has the specification of both.                          *)
(***************************************************************************)
EXTENDS Integers, Sequences

CONSTANTS
    Client,
    Junk,               \* bytes other calls leave in the receive buffer
    MaxDatagrams        \* bound: datagrams sent

ASSUME JunkAssumption == Junk \subseteq 0..255

\* VOIP_MAX_MESSAGE_LENGTH, the longest message of either layer and all of the
\* receive buffer (rx_message) that is ever looked at.
MessageLength == 24

\* What a controller sends; an empty datagram never gets here (Worker.tla).
IsDatagram(d) == d \in Seq(0..255) /\ Len(d) \in 1..MessageLength

VARIABLES
    inbox,          \* the socket's queue: [client, bytes]
    sent,           \* history: every datagram sent
    message,        \* the receive buffer, message->data
    length,         \* message->length
    client,         \* event->addr, the sender of the message
    step,           \* where visca_handle_message is
    replies,        \* what each controller was sent
    camera,         \* the operations the camera carried out
    completed,      \* history: those whose completion was sent
    alive

vars == <<inbox, sent, message, length, client, step, replies, camera,
          completed, alive>>

\* message_buf->data[i] of the buffer m.
data(m, i) == m[i + 1]

Steps == {"idle", "command", "completion", "inquiry"}

Init ==
    /\ inbox = <<>>
    /\ sent = <<>>
    /\ message = [i \in 1..MessageLength |-> 0]
    /\ length = 0
    /\ client \in Client
    /\ step = "idle"
    /\ replies = [c \in Client |-> <<>>]
    /\ camera = <<>>
    /\ completed = <<>>
    /\ alive = TRUE

------------------------------------------------------------------------------
\* Operations of the camera.  Pan and tilt speeds are in 24ths, zoom speeds in
\* 14ths of the unit soap_ptz_continuous_move takes.
NoOperation == [op |-> "none"]
ContinuousMove(pan, tilt, zoom) ==
    [op |-> "move", pan |-> pan, tilt |-> tilt, zoom |-> zoom]
Stop(axis) == [op |-> "stop", axis |-> axis]
GotoHome == [op |-> "home"]
GotoPreset(pan, tilt, preset) ==
    [op |-> "goto", pan |-> pan, tilt |-> tilt, preset |-> preset]
SetPreset == [op |-> "set"]

\* dispatch_commands_04, by its byte 4; its other groups are stubs.
ZoomOperation(b4) ==
    LET low == b4 % 16
        high == b4 \div 16
    IN  CASE b4 = 0   -> Stop("zoom")
          [] b4 = 2   -> ContinuousMove(0, 0, 7)
          [] b4 = 3   -> ContinuousMove(0, 0, -7)
          [] high = 2 -> ContinuousMove(0, 0, 2 * low)
          [] high = 3 -> ContinuousMove(0, 0, -2 * low)
          [] OTHER    -> NoOperation

Horizontal == [b \in 1..3 |-> <<-1, 1, 0>>[b]]
Vertical == [b \in 1..3 |-> <<1, -1, 0>>[b]]

\* bridge_cmd_pan_tilt_directionals, by the bytes 4 to 7 of its command.
Directionals(b4, b5, b6, b7) ==
    IF b6 \notin 1..3 \/ b7 \notin 1..3 THEN NoOperation
    ELSE IF b6 = 3 /\ b7 = 3 THEN Stop("pantilt")
    ELSE ContinuousMove(Horizontal[b6] * b4, Vertical[b7] * b5, 0)

\* Eight bytes are parsed; an int keeps the last four, and their sign.
PresetNumber(m) ==
    (IF data(m, 10) >= 128 THEN data(m, 10) - 256 ELSE data(m, 10)) * 16777216
        + data(m, 11) * 65536 + data(m, 12) * 256 + data(m, 13)

\* dispatch_commands on the buffer m with n bytes received, down to the SOAP
\* call it makes.  The directionals are the one command whose length is
\* checked; the flag that tells a relative move from an absolute one is unused.
CommandOperation(m, n) ==
    IF data(m, 2) = 4 /\ data(m, 3) = 7 THEN ZoomOperation(data(m, 4))
    ELSE IF data(m, 2) # 6 THEN NoOperation
    ELSE IF data(m, 3) = 1 /\ n = 9
    THEN Directionals(data(m, 4), data(m, 5), data(m, 6), data(m, 7))
    ELSE IF data(m, 3) \in 2..3
    THEN GotoPreset(data(m, 4), data(m, 5), PresetNumber(m))
    ELSE IF data(m, 3) = 4 THEN GotoHome ELSE NoOperation

\* dispatch_queries_04: how many bytes answer each inquiry.
OneByteInquiry == {\h38, \h35, \h39, \h3E, \h33, \h50, \h53, \h54, \h55, \h05,
                   \h63, \h61, \h66, \h2C, \hA4, \hAA, \hA9}
FourByteInquiry == {\h47, \h48, \h43, \h4A, \h4B, \h4D, \h4E, \h42, \h49, \h4F}

IsPositionInquiry(m) == data(m, 2) = 6 /\ data(m, 3) = \h12

\* The length of the answer to the inquiry m; 0 if bad_byte_null sends none.
AnswerLength(m) ==
    CASE IsPositionInquiry(m) -> 8
      [] data(m, 2) = 4 /\ data(m, 3) \in OneByteInquiry -> 1
      [] data(m, 2) = 4 /\ data(m, 3) \in FourByteInquiry -> 4
      [] OTHER -> 0

\* What the request in hand makes the camera do.
InHand ==
    IF step # "inquiry" THEN CommandOperation(message, length)
    ELSE IF IsPositionInquiry(message) THEN SetPreset ELSE NoOperation

\* A reply, by what follows its first byte.
AckReply == [type |-> "ack", bytes |-> 0]
CompletionReply(n) == [type |-> "completion", bytes |-> n]

SendReply(r) == replies' = [replies EXCEPT ![client] = Append(@, r)]

\* A history of operations, after op.
Carried(ops, op) == IF op = NoOperation THEN ops ELSE Append(ops, op)

------------------------------------------------------------------------------
\* A controller sends a datagram.
Send(c, d) ==
    /\ Len(sent) < MaxDatagrams
    /\ sent' = Append(sent, [client |-> c, bytes |-> d])
    /\ inbox' = Append(inbox, [client |-> c, bytes |-> d])
    /\ UNCHANGED <<message, length, client, step, replies, camera, completed, alive>>

\* The receive buffer once the datagram d was read into it.
ReceivedTrimmed(d, rest) == d       \* mutant: nothing kept beyond the datagram
Received(d, rest) ==
    [i \in 1..MessageLength |-> IF i <= Len(d) THEN d[i] ELSE rest[i]]

Rest == {message} \cup {[i \in 1..MessageLength |-> b] : b \in Junk}

\* recvfrom, but for the buffer.
TakeNext ==
    /\ alive /\ step = "idle" /\ inbox # <<>>
    /\ length' = Len(Head(inbox).bytes)
    /\ client' = Head(inbox).client
    /\ inbox' = Tail(inbox)
    /\ UNCHANGED <<sent, camera, completed, alive>>

\* visca_handle_message up to its first send.
Receive ==
    /\ TakeNext
    /\ \E rest \in Rest : message' = Received(Head(inbox).bytes, rest)
    /\ IF message'[1] = \h81 /\ message'[2] = 1
       THEN /\ step' = "command"
            /\ replies' = [replies EXCEPT ![client'] = Append(@, AckReply)]
       ELSE /\ step' = IF message'[1] = \h81 /\ message'[2] = 9
                       THEN "inquiry" ELSE "idle"
            /\ UNCHANGED replies

\* dispatch_commands, with the operation it comes to.
DispatchIgnoresFailure(op) ==       \* mutant: a failed call is not fatal
    /\ alive /\ step = "command"
    /\ step' = "completion"
    /\ camera' \in {camera, Carried(camera, op)}
    /\ UNCHANGED <<inbox, sent, message, length, client, replies, completed, alive>>
Dispatch(op) ==
    /\ alive /\ step = "command"
    /\ step' = "completion"
    /\ camera' = Carried(camera, op)
    /\ UNCHANGED <<inbox, sent, message, length, client, replies, completed, alive>>

\* The empty completion of a command.
CompleteOnlyOperations(op) ==       \* mutant: nothing done, nothing completed
    /\ alive /\ step = "completion"
    /\ step' = "idle"
    /\ completed' = Carried(completed, op)
    /\ IF op = NoOperation THEN UNCHANGED replies ELSE SendReply(CompletionReply(0))
    /\ UNCHANGED <<inbox, sent, message, length, client, camera, alive>>
Complete(op) ==
    /\ alive /\ step = "completion"
    /\ step' = "idle"
    /\ completed' = Carried(completed, op)
    /\ SendReply(CompletionReply(0))
    /\ UNCHANGED <<inbox, sent, message, length, client, camera, alive>>

\* dispatch_queries, and the completion with n bytes that answers.
Inquire(op, n) ==
    /\ alive /\ step = "inquiry"
    /\ step' = "idle"
    /\ camera' = Carried(camera, op)
    /\ completed' = Carried(completed, op)
    /\ IF n = 0 THEN UNCHANGED replies ELSE SendReply(CompletionReply(n))
    /\ UNCHANGED <<inbox, sent, message, length, client, alive>>

\* A SOAP call fails: soap_die.  The camera may have carried the call out.
SoapDies(op) ==
    /\ alive /\ step \in {"command", "inquiry"}
    /\ op # NoOperation
    /\ alive' = FALSE
    /\ camera' \in {camera, Append(camera, op)}
    /\ UNCHANGED <<inbox, sent, message, length, client, step, replies, completed>>

Handle ==
    \/ Receive
    \/ Dispatch(InHand) \/ Complete(InHand) \/ Inquire(InHand, AnswerLength(message))
    \/ SoapDies(InHand)

==============================================================================
