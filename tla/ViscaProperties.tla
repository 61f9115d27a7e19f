-------------------------- MODULE ViscaProperties --------------------------
(***************************************************************************)
(* The conversation on either layer, and what it must keep to.             *)
(***************************************************************************)
EXTENDS SonyVisca, SequencesExt

CONSTANTS
    Conforming,     \* the controllers that send complete requests only
    WellFormed,     \* what those send, for each layer: requests, and messages
                    \* no device answers
    Malformed       \* what others may send besides

Layer == {"visca", "sony"}

ASSUME ConformingAssumption == Conforming \subseteq Client
ASSUME DatagramAssumption ==
    \A l \in Layer : \A d \in WellFormed[l] \cup Malformed[l] : IsDatagram(d)

\* A command with every byte the dispatcher of visca.c may look at, and an
\* inquiry it knows.
IsComplete(d) ==
    Len(d) >= 5 /\ (d[3] = 6 /\ d[4] \in 2..3 => Len(d) >= 15)
IsKnown(d) == Len(d) >= 4 /\ AnswerLength(d) > 0

ASSUME CompleteAssumption == \A d \in WellFormed["visca"] :
    /\ Len(d) >= 2
    /\ d[1] = \h81 /\ d[2] = 1 => IsComplete(d)
    /\ d[1] = \h81 /\ d[2] = 9 => IsKnown(d)

\* The same for the other layer, whose handlers check most of it.
IsSonyComplete(d) ==
    LET m == visca_header_convert_endianness(d)
    IN  /\ Len(d) >= VOIP_HEADER_LENGTH + 5 /\ IsPayload(m, Len(d))
        /\ d[2] = 0 => IsCommand(m, Len(d))
        /\ d[2] = \h10 =>
                /\ IsInquiry(m, Len(d))
                /\ payload(m, 2) = \h7E => Len(d) >= VOIP_HEADER_LENGTH + 7
                /\ SonyAnswerLength(m) > 0

ASSUME SonyCompleteAssumption == \A d \in WellFormed["sony"] :
    /\ Len(d) >= 2
    /\ d[1] = 1 /\ d[2] \in {0, \h10} => IsSonyComplete(d)

VARIABLE layer      \* the handler handle_udp_message was built to call

Sendable(c) ==
    WellFormed[layer] \cup (IF c \in Conforming THEN {} ELSE Malformed[layer])

handle_udp_message ==
    \/ layer = "visca" /\ Handle
    \/ layer = "sony" /\ SonyHandle

LayeredInit == Init /\ layer \in Layer

Next ==
    /\ \/ \E c \in Client : \E d \in Sendable(c) : Send(c, d)
       \/ handle_udp_message
    /\ UNCHANGED layer

\* The event loop comes back to a socket that has a message.
Spec ==
    /\ LayeredInit
    /\ [][Next]_<<vars, layer>>
    /\ WF_<<vars, layer>>(handle_udp_message /\ UNCHANGED layer)

------------------------------------------------------------------------------
TypeOK ==
    /\ \A k \in DOMAIN inbox : inbox[k].client \in Client /\ IsDatagram(inbox[k].bytes)
    /\ \E taken \in 0..Len(sent) : inbox = SubSeq(sent, taken + 1, Len(sent))
    /\ DOMAIN message = 1..MessageLength
    /\ \A i \in DOMAIN message : message[i] \in 0..255
    /\ length \in 0..MessageLength
    /\ client \in Client
    /\ step \in Steps
    /\ alive \in BOOLEAN

\* A completion is not sent for an operation the camera has not carried out,
\* and no operation is carried out twice; only the call the process died in
\* may have been carried out and not completed.
CompletedWasDone ==
    /\ IsPrefix(completed, camera)
    /\ Len(camera) <= Len(completed) + 1
    /\ alive /\ step # "completion" => completed = camera

\* What the message would be had the buffer been cleared before it was read.
Cleared == [i \in 1..MessageLength |->
    IF i <= length THEN message[i] ELSE 0]

\* The camera does nothing that bytes left over in the receive buffer decide:
\* behind the other layer's checks of the length (sony_visca.c:59) whatever the
\* datagram, in visca.c, which checks one length, if the request is complete.
\* Of the inquiries only that of the position makes it do anything.
StaleBytesHarmless ==
    /\ step = "command" =>
        /\ layer = "sony" => SonyOperation(message, length) = SonyOperation(Cleared, length)
        /\ layer = "visca" /\ client \in Conforming =>
                CommandOperation(message, length) = CommandOperation(Cleared, length)
    /\ step = "inquiry" =>
        /\ layer = "sony" => (IsSonyPositionInquiry(message) <=> IsSonyPositionInquiry(Cleared))
        /\ layer = "visca" /\ client \in Conforming =>
                (IsPositionInquiry(message) <=> IsPositionInquiry(Cleared))

\* Where among the replies to the controller c those of a type are.
Places(c, type) == {k \in DOMAIN replies[c] : replies[c][k].type = type}

IsReset(d) == Len(d) > VOIP_HEADER_LENGTH
    /\ SubSeq(d, 1, 4) = <<2, 0, 0, Len(d) - VOIP_HEADER_LENGTH>> /\ d[9] = 1
IsControl(d) == Len(d) >= VOIP_HEADER_LENGTH
    /\ SubSeq(d, 1, 4) = <<2, 0, 0, Len(d) - VOIP_HEADER_LENGTH>>

\* What a step may send to a controller that is a control reply.
EchoStep ==
    \A c \in Client :
        LET taken == inbox' # inbox /\ sent' = sent /\ Head(inbox).client = c
            d == Head(inbox).bytes
            new == Places(c, "control")' \ Places(c, "control")
        IN  /\ taken /\ layer = "sony" /\ IsReset(d) => new # {}
            /\ \A k \in new :
                    /\ taken /\ layer = "sony" /\ IsControl(d)
                    /\ new = {k} /\ replies'[c][k].seq = SubSeq(d, 5, 8)

\* A RESET is answered as it is taken, a control reply is sent for nothing but
\* a control message, once, to its sender and nobody else, and it carries the
\* very bytes of the sequence number the message had, whatever the host's order.
ControlEchoes == [][EchoStep]_<<vars, layer>>

------------------------------------------------------------------------------
\* The comments on visca_handle_message and the two payload types.
RequestKind(d) ==
    LET first == SubSeq(d, 1, 2)
    IN  IF first = (IF layer = "sony" THEN <<1, 0>> ELSE <<\h81, 1>>) THEN "command"
        ELSE IF first = (IF layer = "sony" THEN <<1, \h10>> ELSE <<\h81, 9>>)
        THEN "inquiry" ELSE "none"

\* Where among all that was sent the requests of the controller c are.
Requests(c) ==
    {k \in DOMAIN sent : sent[k].client = c /\ RequestKind(sent[k].bytes) # "none"}

\* The n-th of a set of places.
Nth(n, places) == CHOOSE k \in places : Cardinality({j \in places : j <= k}) = n

\* What each controller still waits for: its requests less the completions it
\* was sent.
Answered(c) == Cardinality(Places(c, "completion"))
Owed(c) ==
    [n \in 1..(Cardinality(Requests(c)) - Answered(c)) |->
        RequestKind(sent[Nth(Answered(c) + n, Requests(c))].bytes)]

Acked == {c \in Conforming : \E k \in Places(c, "ack") :
    \A j \in DOMAIN replies[c] : j > k => replies[c][j].type = "control"}

Session == INSTANCE ViscaSession WITH
    Client <- Conforming, owed <- [c \in Conforming |-> Owed(c)], acked <- Acked

\* Either layer answers as the comment in sony_visca.c:215 draws it: every
\* controller that sends complete requests gets, for each of its own and in
\* their order, an ack and a completion or one completion, and goes on getting
\* them as long as the process lives, whatever anybody else sends.
ImplementsSession == Session!SessionSpec

=============================================================================
