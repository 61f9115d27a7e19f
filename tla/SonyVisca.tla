----------------------------- MODULE SonyVisca -----------------------------
(***************************************************************************)
(* The other VISCA layer (sony_visca.c and its commands and inquiries):    *)
(* the same requests behind a header with a type, the length of the        *)
(* payload and a sequence number, and control messages besides.  It is     *)
(* compiled; its call in handle_udp_message is commented out (worker.c),   *)
(* and what is said here is what it does when it is called there.          *)
(***************************************************************************)
EXTENDS Visca

VOIP_HEADER_LENGTH == 8

\* visca_header_convert_endianness_ntoh, and _hton: two fields of two bytes and
\* one of four turn round where they are, in the receive buffer.
visca_header_convert_endianness(m) ==
    [i \in DOMAIN m |-> IF i <= VOIP_HEADER_LENGTH
                        THEN m[<<2, 1, 4, 3, 8, 7, 6, 5>>[i]] ELSE m[i]]

\* Fields of a converted header, on a host whose low byte comes first.
payload_type(m) == data(m, 0) + 256 * data(m, 1)
header_payload_length(m) == data(m, 2) + 256 * data(m, 3)
seq_number(m) == [i \in 1..4 |-> data(m, 3 + i)]

payload(m, i) == data(m, VOIP_HEADER_LENGTH + i)

\* Unsigned in the code: below zero it is a number no header can hold.
LengthOfAtLeastHeader(n) ==         \* mutant: short messages count as empty
    IF n < VOIP_HEADER_LENGTH THEN 0 ELSE n - VOIP_HEADER_LENGTH
payload_length(n) == n - VOIP_HEADER_LENGTH

\* compose_control_reply, by the sequence number it sends.
compose_control_reply(m) ==
    [type |-> "control", seq |-> seq_number(visca_header_convert_endianness(m))]

------------------------------------------------------------------------------
\* dispatch_04: all but the zoom group are stubs, which log and return, as bytes
\* do that the dispatcher does not know.
dispatch_04(m) ==
    IF payload(m, 3) = 7 THEN ZoomOperation(payload(m, 4)) ELSE NoOperation

\* dispatch_05, dispatch_detail: stubs.
dispatch_05(m) == NoOperation

\* dispatch_7e, dispatch_7e_01, dispatch_7e_04: stubs.
dispatch_7e(m) == NoOperation

\* dispatch_pan_tilt_drive; absolute and relative moves, limits and the rest are
\* stubs.
dispatch_pan_tilt_drive(m, n) ==
    IF payload(m, 3) = 1 /\ payload_length(n) = 9
    THEN Directionals(payload(m, 4), payload(m, 5), payload(m, 6), payload(m, 7))
    ELSE IF payload(m, 3) = 4 THEN GotoHome ELSE NoOperation

\* sony_visca_commands_dispatch on the buffer m with n bytes received.
SonyOperation(m, n) ==
    IF payload(m, 2) = 4 THEN dispatch_04(m)
    ELSE IF payload(m, 2) = 5 THEN dispatch_05(m)
    ELSE IF payload(m, 2) = 6 THEN dispatch_pan_tilt_drive(m, n)
    ELSE IF payload(m, 2) = \h7E THEN dispatch_7e(m)
    ELSE NoOperation

\* sony_visca_inquiries_dispatch, by the length of the answer; 0 if none is sent.
\* A parameter that makes no difference to the length is left out.
To(bytes, n) == [bytes |-> bytes, answer |-> n]
AnswerTo(b, table) ==
    LET fitting == {t \in table : b \in t.bytes}
    IN  IF fitting = {} THEN 0 ELSE (CHOOSE t \in fitting : TRUE).answer

dispatch_09_04(m) == AnswerTo(payload(m, 3),
    {To({\h39, \h2C, \h5D, \h3E, \h33, \h3A, \h3D, \h35, \h56, \h5F, \h42, \h5B,
         \h32, \h53, \h38, \h58, \h11, \h3F, \h01, \h66, \h00}, 1),
     To({\h4B, \h4C, \h4A, \h4E, \h43, \h44, \h49, \h4F, \h47, \h48, \h28}, 4),
     To({\h1E}, 6), To({\h2D}, 8)})

dispatch_09_05_42(m) == AnswerTo(payload(m, 4), {To(1..8, 1)})
dispatch_09_05(m) ==
    IF payload(m, 3) = \h42 THEN dispatch_09_05_42(m)
    ELSE AnswerTo(payload(m, 3),
        {To({\h4C, \h2A, \h39, \h49, \h5C}, 1), To({\h53}, 2), To({\h5B}, 3)})

dispatch_09_06(m) == AnswerTo(payload(m, 3),
    {To({\h31, \h44, \h08, \h23, \h06}, 1), To({\h10}, 2), To({\h12}, 8)})

dispatch_09_7e_01(m) == AnswerTo(payload(m, 4),
    {To({\h2E, \h3D, \h6D, \h54, \h0B, \h0A, \h06, \h09, \h03}, 1),
     To((\h7A..\h7F) \cup {\h6F, \h6E, \h71, \h72, \h3E}, 4)})

dispatch_09_7e_04_20(m) ==
    IF payload(m, 5) = \h10
    THEN AnswerTo(payload(m, 6), {To({0}, 4), To({1}, 1)})
    ELSE AnswerTo(payload(m, 5), {To({1, 3}, 1)})
dispatch_09_7e_04(m) ==
    IF payload(m, 4) = \h20 THEN dispatch_09_7e_04_20(m)
    ELSE AnswerTo(payload(m, 4), {To({\h3D}, 1), To({\h45}, 2)})
dispatch_09_7e(m) ==
    CASE payload(m, 3) = 1 -> dispatch_09_7e_01(m)
      [] payload(m, 3) = 4 -> dispatch_09_7e_04(m)
      [] OTHER -> 0

dispatch_09_00(m) == AnswerTo(payload(m, 3), {To({2}, 7)})

dispatch_09(m) ==
    CASE payload(m, 2) = 0 -> dispatch_09_00(m)
      [] payload(m, 2) = 4 -> dispatch_09_04(m)
      [] payload(m, 2) = 5 -> dispatch_09_05(m)
      [] payload(m, 2) = 6 -> dispatch_09_06(m)
      [] payload(m, 2) = \h7E -> dispatch_09_7e(m)
      [] OTHER -> 0

dispatch_01(m) ==
    CASE payload(m, 2) = 6 -> 9
      [] payload(m, 2) = \h7E -> AnswerTo(payload(m, 3), {To({1, 4}, 1)})
      [] OTHER -> 0

SonyAnswerLength(m) ==
    CASE payload(m, 1) = 1 -> dispatch_01(m)
      [] payload(m, 1) = 9 -> dispatch_09(m)
      [] OTHER -> 0

\* The one inquiry that makes a call is bridge_inq_pan_tilt_position.
IsSonyPositionInquiry(m) ==
    payload(m, 1) = 9 /\ payload(m, 2) = 6 /\ payload(m, 3) = \h12

SonyInHand ==
    IF step # "inquiry" THEN SonyOperation(message, length)
    ELSE IF IsSonyPositionInquiry(message) THEN SetPreset ELSE NoOperation

------------------------------------------------------------------------------
\* sony_visca_handle_message by the converted header, and each handler up to
\* where it dispatches: what the sender of the message m is sent, ...
IsPayload(m, n) == header_payload_length(m) = payload_length(n)

ControlAnswered(m, n) ==
    \/ payload(m, 0) = 1
    \/ payload(m, 0) = \h0F /\ payload_length(n) = 2 /\ payload(m, 1) \in 1..2

FirstReply(m, n) ==
    IF ~IsPayload(m, n) THEN <<>>
    ELSE IF payload_type(m) = \h0100 THEN <<AckReply>>
    ELSE IF payload_type(m) = \h0200 /\ ControlAnswered(m, n)
    THEN <<compose_control_reply(m)>>
    ELSE <<>>

\* ... and what is left to do.
IsCommandUnmeasured(m, n) ==        \* mutant: no test of the payload's length
    /\ payload_type(m) = \h0100
    /\ payload(m, 0) = \h81 /\ payload(m, 1) = 1
IsCommand(m, n) ==
    /\ payload_type(m) = \h0100 /\ payload_length(n) >= 5
    /\ payload(m, 0) = \h81 /\ payload(m, 1) = 1

IsInquiry(m, n) ==
    /\ payload_type(m) = \h0110 /\ payload_length(n) >= 5
    /\ payload(m, 0) = \h81

NextStep(m, n) ==
    IF ~IsPayload(m, n) THEN "idle"
    ELSE IF IsCommand(m, n) THEN "command"
    ELSE IF IsInquiry(m, n) THEN "inquiry"
    ELSE "idle"

SonyReceive ==
    /\ TakeNext
    /\ \E rest \in Rest :
            message' = visca_header_convert_endianness(Received(Head(inbox).bytes, rest))
    /\ replies' = [replies EXCEPT ![client'] = @ \o FirstReply(message', length')]
    /\ step' = NextStep(message', length')

SonyHandle ==
    \/ SonyReceive
    \/ Dispatch(SonyInHand) \/ Complete(SonyInHand)
    \/ Inquire(SonyInHand, SonyAnswerLength(message))
    \/ SoapDies(SonyInHand)

============================================================================
