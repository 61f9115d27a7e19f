---------------------------- MODULE ViscaProofs ----------------------------
(***************************************************************************)
(* What the receive buffer and the camera come to, for any controllers,    *)
(* any datagrams, any number of them and any bytes left in the buffer.     *)
(*                                                                         *)
(* StaleBytesHarmless: a message is dispatched only once enough of it has  *)
(* been seen to be there (Measured); the dispatchers look no further.      *)
(* CompletedWasDone: the camera is ahead of the completions by the call in *)
(* hand and by nothing else (Ahead).                                       *)
(***************************************************************************)
EXTENDS ViscaProperties, SequenceTheorems, FiniteSetTheorems, FunctionTheorems, TLAPS

sessionState == <<vars, layer>>

\* What the socket may hold under the layer l.
Bytes == UNION {WellFormed[l] \cup Malformed[l] : l \in Layer}
Messages(l) == {r \in [client : Client, bytes : Bytes] :
    r.client \in Conforming => r.bytes \in WellFormed[l]}

\* The bytes that were seen to be there before a request is dispatched.
Measured ==
    /\ step \in {"command", "inquiry"} =>
        /\ layer = "sony" => length >= VOIP_HEADER_LENGTH + 5
        /\ layer = "visca" /\ client \in Conforming => length >= 4
    /\ step = "command" /\ layer = "visca" /\ client \in Conforming =>
        /\ length >= 5
        /\ message[3] = 6 /\ message[4] \in 2..3 => length >= 15

BufferInv ==
    /\ layer \in Layer
    /\ inbox \in Seq(Messages(layer))
    /\ length \in 0..MessageLength
    /\ DOMAIN message = 1..MessageLength
    /\ Measured

------------------------------------------------------------------------------
\* Up to the length received, a cleared buffer reads as the buffer does.
LEMMA ClearedReads ==
    ASSUME NEW i \in Int, 0 <= i, i < length, length \in 0..MessageLength
    PROVE  data(Cleared, i) = data(message, i)
  <1>1. i + 1 \in 1..MessageLength /\ i + 1 <= length
    BY DEF MessageLength
  <1> QED
    BY <1>1 DEF data, Cleared

\* Every datagram has a byte, and no more than the buffer holds.
LEMMA DatagramLength ==
    ASSUME NEW l \in Layer, NEW r \in Messages(l)
    PROVE  Len(r.bytes) \in 1..MessageLength
  <1>1. r.bytes \in Bytes
    BY DEF Messages
  <1>2. IsDatagram(r.bytes)
    BY <1>1, DatagramAssumption DEF Bytes
  <1> QED
    BY <1>2 DEF IsDatagram

\* A datagram read into the buffer is there, byte for byte.
LEMMA ReceivedReads ==
    ASSUME NEW d, NEW rest, NEW i \in 1..MessageLength, i <= Len(d)
    PROVE  Received(d, rest)[i] = d[i]
  BY DEF Received

\* The layer is one of two.
LEMMA Layers == \A l \in Layer : l = "visca" \/ l = "sony"
  BY DEF Layer

\* Every datagram a controller may send is one the socket may hold.
LEMMA SendableMessages ==
    ASSUME NEW c \in Client, layer \in Layer, NEW d \in Sendable(c)
    PROVE  [client |-> c, bytes |-> d] \in Messages(layer)
  <1>1. d \in Bytes
    BY DEF Sendable, Bytes
  <1>2. c \in Conforming => d \in WellFormed[layer]
    BY DEF Sendable
  <1> QED
    BY <1>1, <1>2 DEF Messages

------------------------------------------------------------------------------
LEMMA InitBuffer == Init /\ layer \in Layer => BufferInv
  <1> SUFFICES ASSUME Init, layer \in Layer PROVE BufferInv
    OBVIOUS
  <1>1. inbox \in Seq(Messages(layer))
    BY DEF Init
  <1>2. length \in 0..MessageLength /\ DOMAIN message = 1..MessageLength
    BY DEF Init, MessageLength
  <1>3. Measured
    BY DEF Init, Measured
  <1> QED
    BY <1>1, <1>2, <1>3 DEF BufferInv

\* What taking a datagram out of the socket means for the buffer.
LEMMA TakeKeeps ==
    ASSUME BufferInv, TakeNext, UNCHANGED layer
    PROVE  /\ inbox' \in Seq(Messages(layer'))
           /\ Head(inbox) \in Messages(layer)
           /\ length' = Len(Head(inbox).bytes)
           /\ length' \in 1..MessageLength
           /\ client' = Head(inbox).client
  <1>1. /\ inbox # <<>> /\ inbox' = Tail(inbox)
        /\ length' = Len(Head(inbox).bytes) /\ client' = Head(inbox).client
    BY DEF TakeNext
  <1>2. inbox \in Seq(Messages(layer)) /\ layer \in Layer
    BY DEF BufferInv
  <1>3. Head(inbox) \in Messages(layer) /\ Tail(inbox) \in Seq(Messages(layer))
    BY <1>1, <1>2
  <1>4. Len(Head(inbox).bytes) \in 1..MessageLength
    BY <1>2, <1>3, DatagramLength
  <1>5. layer' = layer
    OBVIOUS
  <1>6. Messages(layer') = Messages(layer)
    BY <1>5
  <1> QED
    BY <1>1, <1>3, <1>4, <1>6

\* visca.c: a conforming controller sends nothing short, and what it sends is
\* read from the start of the buffer.
LEMMA ReceiveMeasured ==
    ASSUME BufferInv, Receive, layer = "visca", UNCHANGED layer
    PROVE  Measured'
  <1> DEFINE d == Head(inbox).bytes
  <1>1. TakeNext
    BY DEF Receive
  <1>2. /\ Head(inbox) \in Messages(layer) /\ length' = Len(d)
        /\ length' \in 1..MessageLength /\ client' = Head(inbox).client
    BY <1>1, TakeKeeps
  <1>3. SUFFICES ASSUME step' \in {"command", "inquiry"}, client' \in Conforming
                 PROVE  /\ length' >= 4
                        /\ step' = "command" =>
                            /\ length' >= 5
                            /\ message'[3] = 6 /\ message'[4] \in 2..3 => length' >= 15
    BY DEF Measured
  <1>4. d \in WellFormed["visca"]
    BY <1>2, <1>3 DEF Messages
  <1>5. PICK rest \in Rest : message' = Received(d, rest)
    BY DEF Receive
  <1>6. /\ message'[1] = \h81
        /\ step' = "command" => message'[2] = 1
        /\ step' = "inquiry" => message'[2] = 9
    BY <1>3 DEF Receive
  <1>7. Len(d) \in Nat /\ Len(d) >= 2
    BY <1>2, <1>4, CompleteAssumption DEF MessageLength
  <1>8. message'[1] = d[1] /\ message'[2] = d[2]
    BY <1>5, <1>7, ReceivedReads DEF MessageLength
  <1>9. CASE step' = "inquiry"
    <2>1. IsKnown(d)
      BY <1>4, <1>6, <1>8, <1>9, CompleteAssumption
    <2> QED
      BY <1>2, <1>7, <1>9, <2>1 DEF IsKnown
  <1>10. CASE step' = "command"
    <2>1. IsComplete(d)
      BY <1>4, <1>6, <1>8, <1>10, CompleteAssumption
    <2>2. Len(d) >= 5
      BY <2>1 DEF IsComplete
    <2>3. message'[3] = d[3] /\ message'[4] = d[4]
      BY <1>5, <1>7, <2>2, ReceivedReads DEF MessageLength
    <2> QED
      BY <1>2, <1>7, <2>1, <2>2, <2>3 DEF IsComplete
  <1> QED
    BY <1>3, <1>9, <1>10

\* sony_visca.c looks at the length itself.
LEMMA RequestLength ==
    ASSUME NEW m, NEW n \in Int, IsCommand(m, n) \/ IsInquiry(m, n)
    PROVE  n >= VOIP_HEADER_LENGTH + 5
  <1>1. payload_length(n) >= 5
    BY DEF IsCommand, IsInquiry
  <1> QED
    BY <1>1 DEF payload_length, VOIP_HEADER_LENGTH

LEMMA SonyReceiveMeasured ==
    ASSUME BufferInv, SonyReceive, layer = "sony", UNCHANGED layer
    PROVE  Measured'
  <1>1. SUFFICES ASSUME step' \in {"command", "inquiry"}
                 PROVE  length' >= VOIP_HEADER_LENGTH + 5
    BY DEF Measured
  <1>2. NextStep(message', length') \in {"command", "inquiry"}
    BY <1>1 DEF SonyReceive
  <1>3. IsCommand(message', length') \/ IsInquiry(message', length')
    BY <1>2 DEF NextStep
  <1>4. length' \in 1..MessageLength
    BY TakeKeeps DEF SonyReceive
  <1>5. length' \in Int
    BY <1>4 DEF MessageLength
  <1> QED
    BY <1>3, <1>5, RequestLength

\* No step of a handler but the first touches what was received.
LEMMA LaterSteps ==
    ASSUME NEW op, NEW n,
           Dispatch(op) \/ Complete(op) \/ Inquire(op, n) \/ SoapDies(op)
    PROVE  /\ UNCHANGED <<inbox, message, length, client>>
           /\ step' \in {"command", "inquiry"} => step' = step
  <1>1. CASE Dispatch(op)
    BY <1>1 DEF Dispatch
  <1>2. CASE Complete(op)
    BY <1>2 DEF Complete
  <1>3. CASE Inquire(op, n)
    BY <1>3 DEF Inquire
  <1>4. CASE SoapDies(op)
    BY <1>4 DEF SoapDies
  <1> QED
    BY <1>1, <1>2, <1>3, <1>4

\* What leaves the buffer alone and dispatches nothing new keeps the invariant.
LEMMA BufferLeftAlone ==
    ASSUME BufferInv, UNCHANGED <<layer, message, length, client>>,
           inbox' \in Seq(Messages(layer)),
           step' \in {"command", "inquiry"} => step' = step
    PROVE  BufferInv'
  <1>1. /\ layer' = layer /\ message' = message /\ length' = length /\ client' = client
    OBVIOUS
  <1>2. Messages(layer') = Messages(layer)
    BY <1>1
  <1>3. Measured'
    BY <1>1 DEF BufferInv, Measured
  <1> QED
    BY <1>1, <1>2, <1>3 DEF BufferInv

LEMMA NextBuffer == BufferInv /\ [Next]_sessionState => BufferInv'
  <1> SUFFICES ASSUME BufferInv, [Next]_sessionState PROVE BufferInv'
    OBVIOUS
  <1>0. inbox \in Seq(Messages(layer)) /\ layer \in Layer
    BY DEF BufferInv
  <1>1. CASE UNCHANGED sessionState
    <2>1. UNCHANGED <<layer, message, length, client, inbox, step>>
      BY <1>1 DEF sessionState, vars
    <2> QED
      BY <1>0, <2>1, BufferLeftAlone
  <1>2. ASSUME NEW c \in Client, NEW d \in Sendable(c), Send(c, d), UNCHANGED layer
        PROVE  BufferInv'
    <2>1. [client |-> c, bytes |-> d] \in Messages(layer)
      BY <1>0, SendableMessages
    <2>2. inbox' = Append(inbox, [client |-> c, bytes |-> d])
      BY <1>2 DEF Send
    <2>3. inbox' \in Seq(Messages(layer))
      BY <1>0, <2>1, <2>2
    <2>4. UNCHANGED <<message, length, client, step>>
      BY <1>2 DEF Send
    <2> QED
      BY <1>2, <2>3, <2>4, BufferLeftAlone
  <1>3. ASSUME Receive, layer = "visca", UNCHANGED layer
        PROVE  BufferInv'
    <2>1. Measured'
      BY <1>3, ReceiveMeasured
    <2>2. DOMAIN message' = 1..MessageLength
      BY <1>3 DEF Receive, Received
    <2>3. inbox' \in Seq(Messages(layer')) /\ length' \in 1..MessageLength
      BY <1>3, TakeKeeps DEF Receive
    <2> QED
      BY <1>0, <1>3, <2>1, <2>2, <2>3 DEF BufferInv, MessageLength
  <1>4. ASSUME SonyReceive, layer = "sony", UNCHANGED layer
        PROVE  BufferInv'
    <2>1. Measured'
      BY <1>4, SonyReceiveMeasured
    <2>2. DOMAIN message' = 1..MessageLength
      BY <1>4 DEF SonyReceive, Received, visca_header_convert_endianness
    <2>3. inbox' \in Seq(Messages(layer')) /\ length' \in 1..MessageLength
      BY <1>4, TakeKeeps DEF SonyReceive
    <2> QED
      BY <1>0, <1>4, <2>1, <2>2, <2>3 DEF BufferInv, MessageLength
  <1>5. ASSUME NEW op, NEW n, UNCHANGED layer,
               Dispatch(op) \/ Complete(op) \/ Inquire(op, n) \/ SoapDies(op)
        PROVE  BufferInv'
    <2>1. UNCHANGED <<inbox, message, length, client>> /\ (step' \in {"command", "inquiry"} => step' = step)
      BY <1>5, LaterSteps
    <2> QED
      BY <1>0, <1>5, <2>1, BufferLeftAlone
  <1>6. ASSUME handle_udp_message, UNCHANGED layer
        PROVE  BufferInv'
    <2>1. CASE layer = "visca" /\ Handle
      BY <1>3, <1>5, <1>6, <2>1 DEF Handle
    <2>2. CASE layer = "sony" /\ SonyHandle
      BY <1>4, <1>5, <1>6, <2>2 DEF SonyHandle
    <2> QED
      BY <1>6, <2>1, <2>2 DEF handle_udp_message
  <1> QED
    BY <1>1, <1>2, <1>6 DEF Next

THEOREM SpecBuffer == Spec => []BufferInv
  <1>1. LayeredInit => BufferInv
    BY InitBuffer DEF LayeredInit
  <1>2. BufferInv /\ [Next]_<<vars, layer>> => BufferInv'
    BY NextBuffer DEF sessionState
  <1> QED
    BY <1>1, <1>2, PTL DEF Spec

------------------------------------------------------------------------------
\* The dispatcher of visca.c looks at bytes 2 to 7 and, for a preset, 10 to 13.
LEMMA CommandReads ==
    ASSUME NEW m1, NEW m2, NEW n \in Nat, n >= 5,
           m1[3] = 6 /\ m1[4] \in 2..3 => n >= 15,
           \A i \in 0..14 : i < n => data(m1, i) = data(m2, i)
    PROVE  CommandOperation(m1, n) = CommandOperation(m2, n)
  <1>1. /\ data(m1, 2) = data(m2, 2) /\ data(m1, 3) = data(m2, 3)
        /\ data(m1, 4) = data(m2, 4)
    OBVIOUS
  <1>2. n = 9 => /\ data(m1, 5) = data(m2, 5) /\ data(m1, 6) = data(m2, 6)
                 /\ data(m1, 7) = data(m2, 7)
    OBVIOUS
  <1>3. data(m1, 2) = 6 /\ data(m1, 3) \in 2..3 =>
            /\ data(m1, 5) = data(m2, 5)
            /\ PresetNumber(m1) = PresetNumber(m2)
    <2> SUFFICES ASSUME data(m1, 2) = 6, data(m1, 3) \in 2..3
                 PROVE  /\ data(m1, 5) = data(m2, 5)
                        /\ PresetNumber(m1) = PresetNumber(m2)
      OBVIOUS
    <2>1. n >= 15
      BY DEF data
    <2>2. /\ data(m1, 5) = data(m2, 5) /\ data(m1, 10) = data(m2, 10)
          /\ data(m1, 11) = data(m2, 11) /\ data(m1, 12) = data(m2, 12)
          /\ data(m1, 13) = data(m2, 13)
      BY <2>1
    <2> QED
      BY <2>2 DEF PresetNumber
  <1> QED
    BY <1>1, <1>2, <1>3 DEF CommandOperation

\* The dispatcher of sony_visca_commands.c looks at bytes 2 to 4 of the payload
\* and, once it has nine, at 5 to 7.
LEMMA SonyReads ==
    ASSUME NEW m1, NEW m2, NEW n \in Nat, n >= 13,
           \A i \in 0..16 : i < n => data(m1, i) = data(m2, i)
    PROVE  SonyOperation(m1, n) = SonyOperation(m2, n)
  <1>1. /\ payload(m1, 2) = payload(m2, 2) /\ payload(m1, 3) = payload(m2, 3)
        /\ payload(m1, 4) = payload(m2, 4)
    BY DEF payload, VOIP_HEADER_LENGTH
  <1>2. payload_length(n) = 9 =>
            /\ payload(m1, 5) = payload(m2, 5) /\ payload(m1, 6) = payload(m2, 6)
            /\ payload(m1, 7) = payload(m2, 7)
    BY DEF payload, payload_length, VOIP_HEADER_LENGTH
  <1>3. dispatch_04(m1) = dispatch_04(m2)
    BY <1>1 DEF dispatch_04
  <1>4. dispatch_pan_tilt_drive(m1, n) = dispatch_pan_tilt_drive(m2, n)
    BY <1>1, <1>2 DEF dispatch_pan_tilt_drive
  <1>5. dispatch_05(m1) = dispatch_05(m2) /\ dispatch_7e(m1) = dispatch_7e(m2)
    BY DEF dispatch_05, dispatch_7e
  <1> QED
    BY <1>1, <1>3, <1>4, <1>5 DEF SonyOperation

\* Once measured, a command means what it would mean in a cleared buffer.
LEMMA CommandHarmless ==
    ASSUME BufferInv, step = "command"
    PROVE
        /\ layer = "sony" => SonyOperation(message, length) = SonyOperation(Cleared, length)
        /\ layer = "visca" /\ client \in Conforming =>
                CommandOperation(message, length) = CommandOperation(Cleared, length)
  <1>1. length \in Nat /\ length \in 0..MessageLength
    BY DEF BufferInv, MessageLength
  <1>2. \A i \in 0..16 : i < length => data(message, i) = data(Cleared, i)
    BY <1>1, ClearedReads
  <1>3. CASE layer = "sony"
    <2>1. length >= 13
      BY <1>3 DEF BufferInv, Measured, VOIP_HEADER_LENGTH
    <2> QED
      BY <1>1, <1>2, <1>3, <2>1, SonyReads
  <1>4. CASE layer = "visca" /\ client \in Conforming
    <2>1. length >= 5 /\ (message[3] = 6 /\ message[4] \in 2..3 => length >= 15)
      BY <1>4 DEF BufferInv, Measured
    <2>2. \A i \in 0..14 : i < length => data(message, i) = data(Cleared, i)
      BY <1>2
    <2> QED
      BY <1>1, <1>4, <2>1, <2>2, CommandReads
  <1> QED
    BY <1>3, <1>4

\* So does an inquiry, as far as it makes the camera do anything.
LEMMA InquiryHarmless ==
    ASSUME BufferInv, step = "inquiry"
    PROVE
        /\ layer = "sony" => (IsSonyPositionInquiry(message) <=> IsSonyPositionInquiry(Cleared))
        /\ layer = "visca" /\ client \in Conforming =>
                (IsPositionInquiry(message) <=> IsPositionInquiry(Cleared))
  <1>1. length \in Nat /\ length \in 0..MessageLength
    BY DEF BufferInv, MessageLength
  <1>2. \A i \in 0..11 : i < length => data(message, i) = data(Cleared, i)
    BY <1>1, ClearedReads
  <1>3. CASE layer = "sony"
    <2>1. length >= 13
      BY <1>3 DEF BufferInv, Measured, VOIP_HEADER_LENGTH
    <2>2. /\ data(message, 9) = data(Cleared, 9) /\ data(message, 10) = data(Cleared, 10)
          /\ data(message, 11) = data(Cleared, 11)
      BY <1>1, <1>2, <2>1
    <2>3. \A i \in 1..3 : payload(message, i) = payload(Cleared, i)
      BY <2>2 DEF payload, VOIP_HEADER_LENGTH
    <2> QED
      BY <1>3, <2>3 DEF IsSonyPositionInquiry
  <1>4. CASE layer = "visca" /\ client \in Conforming
    <2>1. length >= 4
      BY <1>4 DEF BufferInv, Measured
    <2>2. data(message, 2) = data(Cleared, 2) /\ data(message, 3) = data(Cleared, 3)
      BY <1>1, <1>2, <2>1
    <2> QED
      BY <1>4, <2>2 DEF IsPositionInquiry
  <1> QED
    BY <1>3, <1>4

\* So does every request that is dispatched.
LEMMA MeasuredHarmless == BufferInv => StaleBytesHarmless
  BY CommandHarmless, InquiryHarmless DEF StaleBytesHarmless

\* Nothing the camera does is decided by what is left in the receive buffer
\* from another message, whatever is received: of the one layer from anybody,
\* of the other from the controllers that send complete requests.
THEOREM StaleBytes == Spec => []StaleBytesHarmless
  <1>1. BufferInv => StaleBytesHarmless
    BY MeasuredHarmless
  <1> QED
    BY <1>1, SpecBuffer, PTL

------------------------------------------------------------------------------
\* What the message in hand makes the camera do, on the layer in use.
Doing == IF layer = "sony" THEN SonyOperation(message, length)
                           ELSE CommandOperation(message, length)

IsSequence(s) == \E S : s \in Seq(S)

\* The camera is ahead of the completions by the command in hand, if it has
\* been carried out, and once the process is dead by the last call at most.
Ahead ==
    /\ alive /\ step # "completion" => camera = completed
    /\ alive /\ step = "completion" => camera = Carried(completed, Doing)
    /\ camera = completed \/ \E op : camera = Append(completed, op)

AheadInv == layer \in Layer /\ IsSequence(completed) /\ Ahead

\* A sequence carried on is a sequence, no longer than by one, that it starts.
LEMMA AppendedSequence ==
    ASSUME NEW s, IsSequence(s), NEW op
    PROVE  /\ IsSequence(Append(s, op))
           /\ IsPrefix(s, Append(s, op))
           /\ Len(s) \in Nat /\ Len(Append(s, op)) = Len(s) + 1
  <1>1. PICK S : s \in Seq(S)
    BY DEF IsSequence
  <1>2. s \in Seq(S \cup {op})
    BY <1>1
  <1>3. Append(s, op) \in Seq(S \cup {op})
    BY <1>2
  <1>4. Len(s) \in Nat /\ Len(Append(s, op)) = Len(s) + 1
    BY <1>2
  <1>5. SubSeq(s, 1, Len(s)) = SubSeq(Append(s, op), 1, Len(s))
    BY <1>2
  <1> QED
    BY <1>3, <1>4, <1>5 DEF IsSequence, IsPrefix

LEMMA CarriedSequence ==
    ASSUME NEW s, IsSequence(s), NEW op
    PROVE  IsSequence(Carried(s, op))
  BY AppendedSequence DEF Carried

\* A sequence is a prefix of itself.
LEMMA PrefixOfItself ==
    ASSUME NEW s, IsSequence(s)
    PROVE  IsPrefix(s, s) /\ Len(s) \in Nat
  <1>1. PICK S : s \in Seq(S)
    BY DEF IsSequence
  <1> QED
    BY <1>1 DEF IsPrefix

LEMMA AheadIsDone == AheadInv => CompletedWasDone
  <1> SUFFICES ASSUME AheadInv PROVE CompletedWasDone
    OBVIOUS
  <1>1. IsSequence(completed) /\ (alive /\ step # "completion" => completed = camera)
    BY DEF AheadInv, Ahead
  <1>2. CASE camera = completed
    <2>1. IsPrefix(completed, camera) /\ Len(completed) \in Nat /\ Len(camera) = Len(completed)
      BY <1>1, <1>2, PrefixOfItself
    <2> QED
      BY <1>1, <2>1 DEF CompletedWasDone
  <1>3. CASE \E op : camera = Append(completed, op)
    <2>1. PICK op : camera = Append(completed, op)
      BY <1>3
    <2>2. /\ IsPrefix(completed, camera) /\ Len(completed) \in Nat
          /\ Len(camera) = Len(completed) + 1
      BY <1>1, <2>1, AppendedSequence
    <2> QED
      BY <1>1, <2>2 DEF CompletedWasDone
  <1> QED
    BY <1>2, <1>3 DEF AheadInv, Ahead

------------------------------------------------------------------------------
LEMMA InitAhead == Init /\ layer \in Layer => AheadInv
  <1> SUFFICES ASSUME Init, layer \in Layer PROVE AheadInv
    OBVIOUS
  <1>1. completed = <<>> /\ camera = <<>> /\ step = "idle"
    BY DEF Init
  <1>2. completed \in Seq({})
    BY <1>1
  <1> QED
    BY <1>1, <1>2 DEF AheadInv, IsSequence, Ahead

\* Steps that leave the camera and the completions as they are.
LEMMA AheadLeftAlone ==
    ASSUME AheadInv, UNCHANGED <<layer, camera, completed, alive>>,
           \/ UNCHANGED <<message, length, step>>
           \/ step # "completion" /\ step' # "completion"
    PROVE  AheadInv'
  <1>1. layer' = layer /\ camera' = camera /\ completed' = completed /\ alive' = alive
    OBVIOUS
  <1>2. CASE UNCHANGED <<message, length, step>>
    <2>1. step' = step /\ message' = message /\ length' = length
      BY <1>2
    <2>2. Doing' = Doing
      BY <1>1, <2>1 DEF Doing
    <2>3. Ahead'
      BY <1>1, <2>1, <2>2 DEF AheadInv, Ahead, Carried
    <2> QED
      BY <1>1, <2>3 DEF AheadInv, IsSequence
  <1>3. CASE step # "completion" /\ step' # "completion"
    <2>1. Ahead'
      BY <1>1, <1>3 DEF AheadInv, Ahead
    <2> QED
      BY <1>1, <2>1 DEF AheadInv, IsSequence
  <1> QED
    BY <1>2, <1>3

LEMMA DispatchAhead ==
    ASSUME AheadInv, UNCHANGED layer, Dispatch(Doing)
    PROVE  AheadInv'
  <1>1. /\ layer' = layer /\ completed' = completed /\ alive' = alive
        /\ message' = message /\ length' = length
        /\ step' = "completion" /\ step = "command"
        /\ camera' = Carried(camera, Doing) /\ alive
    BY DEF Dispatch
  <1>2. camera = completed
    BY <1>1 DEF AheadInv, Ahead
  <1>3. Doing' = Doing
    BY <1>1 DEF Doing
  <1>4. camera' = Carried(completed, Doing)
    BY <1>1, <1>2
  <1>5. camera' = completed' \/ \E op : camera' = Append(completed', op)
    BY <1>1, <1>4 DEF Carried
  <1>6. camera' = Carried(completed', Doing')
    BY <1>1, <1>3, <1>4
  <1>7. Ahead'
    BY <1>1, <1>5, <1>6 DEF Ahead, Carried
  <1> QED
    BY <1>1, <1>7 DEF AheadInv, IsSequence

LEMMA CompleteAhead ==
    ASSUME AheadInv, UNCHANGED layer, Complete(Doing)
    PROVE  AheadInv'
  <1>1. /\ layer' = layer /\ camera' = camera /\ step' = "idle" /\ alive
        /\ step = "completion" /\ completed' = Carried(completed, Doing)
    BY DEF Complete
  <1>2. camera = Carried(completed, Doing)
    BY <1>1 DEF AheadInv, Ahead
  <1>3. camera' = completed'
    BY <1>1, <1>2
  <1>4. Ahead'
    BY <1>1, <1>3 DEF Ahead
  <1>5. IsSequence(completed')
    BY <1>1, CarriedSequence DEF AheadInv
  <1> QED
    BY <1>1, <1>4, <1>5 DEF AheadInv, IsSequence

LEMMA InquireAhead ==
    ASSUME AheadInv, UNCHANGED layer, NEW op, NEW n, Inquire(op, n)
    PROVE  AheadInv'
  <1>1. /\ layer' = layer /\ step' = "idle" /\ step = "inquiry" /\ alive
        /\ camera' = Carried(camera, op) /\ completed' = Carried(completed, op)
    BY DEF Inquire
  <1>2. camera = completed
    BY <1>1 DEF AheadInv, Ahead
  <1>3. camera' = completed'
    BY <1>1, <1>2
  <1>4. Ahead'
    BY <1>1, <1>3 DEF Ahead
  <1>5. IsSequence(completed')
    BY <1>1, CarriedSequence DEF AheadInv
  <1> QED
    BY <1>1, <1>4, <1>5 DEF AheadInv, IsSequence

LEMMA DyingAhead ==
    ASSUME AheadInv, UNCHANGED layer, NEW op, SoapDies(op)
    PROVE  AheadInv'
  <1>1. /\ layer' = layer /\ completed' = completed /\ alive /\ alive' = FALSE
        /\ step # "completion" /\ camera' \in {camera, Append(camera, op)}
    BY DEF SoapDies
  <1>2. camera = completed
    BY <1>1 DEF AheadInv, Ahead
  <1>3. camera' = completed' \/ \E o : camera' = Append(completed', o)
    BY <1>1, <1>2
  <1>4. Ahead'
    BY <1>1, <1>3 DEF Ahead
  <1> QED
    BY <1>1, <1>4 DEF AheadInv, IsSequence

\* Where a command is dispatched or completed, what is in hand is the command.
LEMMA InHandIsDoing ==
    ASSUME step # "inquiry"
    PROVE  /\ layer = "visca" => InHand = Doing
           /\ layer = "sony" => SonyInHand = Doing
  BY DEF InHand, SonyInHand, Doing

LEMMA NextAhead == AheadInv /\ [Next]_sessionState => AheadInv'
  <1> SUFFICES ASSUME AheadInv, [Next]_sessionState PROVE AheadInv'
    OBVIOUS
  <1>1. CASE UNCHANGED sessionState
    <2>1. UNCHANGED <<layer, camera, completed, alive, message, length, step>>
      BY <1>1 DEF sessionState, vars
    <2> QED
      BY <2>1, AheadLeftAlone
  <1>2. ASSUME NEW c, NEW d, Send(c, d), UNCHANGED layer PROVE AheadInv'
    <2>1. UNCHANGED <<camera, completed, alive, message, length, step>>
      BY <1>2 DEF Send
    <2> QED
      BY <1>2, <2>1, AheadLeftAlone
  <1>3. ASSUME Receive, UNCHANGED layer PROVE AheadInv'
    <2>1. UNCHANGED <<camera, completed, alive>> /\ step = "idle"
      BY <1>3 DEF Receive, TakeNext
    <2>2. step' # "completion"
      BY <1>3 DEF Receive
    <2> QED
      BY <1>3, <2>1, <2>2, AheadLeftAlone
  <1>4. ASSUME SonyReceive, UNCHANGED layer PROVE AheadInv'
    <2>1. UNCHANGED <<camera, completed, alive>> /\ step = "idle"
      BY <1>4 DEF SonyReceive, TakeNext
    <2>2. step' = NextStep(message', length')
      BY <1>4 DEF SonyReceive
    <2>3. step' # "completion"
      BY <2>2, Zenon DEF NextStep
    <2> QED
      BY <1>4, <2>1, <2>3, AheadLeftAlone
  <1>5. ASSUME layer = "visca", UNCHANGED layer, Dispatch(InHand) \/ Complete(InHand)
        PROVE AheadInv'
    <2>1. step # "inquiry"
      BY <1>5 DEF Dispatch, Complete
    <2>2. InHand = Doing
      BY <1>5, <2>1, InHandIsDoing
    <2> QED
      BY <1>5, <2>2, DispatchAhead, CompleteAhead
  <1>6. ASSUME layer = "sony", UNCHANGED layer, Dispatch(SonyInHand) \/ Complete(SonyInHand)
        PROVE AheadInv'
    <2>1. step # "inquiry"
      BY <1>6 DEF Dispatch, Complete
    <2>2. SonyInHand = Doing
      BY <1>6, <2>1, InHandIsDoing
    <2> QED
      BY <1>6, <2>2, DispatchAhead, CompleteAhead
  <1>7. ASSUME handle_udp_message, UNCHANGED layer
        PROVE  AheadInv'
    <2>1. CASE layer = "visca" /\ Handle
      BY <1>3, <1>5, <1>7, <2>1, InquireAhead, DyingAhead DEF Handle
    <2>2. CASE layer = "sony" /\ SonyHandle
      BY <1>4, <1>6, <1>7, <2>2, InquireAhead, DyingAhead DEF SonyHandle
    <2> QED
      BY <1>7, <2>1, <2>2 DEF handle_udp_message
  <1> QED
    BY <1>1, <1>2, <1>7 DEF Next

\* No completion without the operation, no operation twice, and when the
\* process dies in a call, that call is the only one carried out and not
\* completed.
THEOREM Completed == Spec => []CompletedWasDone
  <1>1. LayeredInit => AheadInv
    BY InitAhead DEF LayeredInit
  <1>2. AheadInv /\ [Next]_<<vars, layer>> => AheadInv'
    BY NextAhead DEF sessionState
  <1>3. AheadInv => CompletedWasDone
    BY AheadIsDone
  <1> QED
    BY <1>1, <1>2, <1>3, PTL DEF Spec

------------------------------------------------------------------------------
(* Types.                                                                    *)

ByteMessage(m) == DOMAIN m = 1..MessageLength /\ \A i \in 1..MessageLength : m[i] \in 0..255

Untaken == \E taken \in 0..Len(sent) : inbox = SubSeq(sent, taken + 1, Len(sent))

TypeInv ==
    /\ sent \in Seq(Messages(layer))
    /\ Untaken
    /\ ByteMessage(message)
    /\ client \in Client
    /\ step \in Steps
    /\ alive \in BOOLEAN

\* The tail of a suffix is a suffix, and so is a suffix both are added to.
LEMMA SuffixTail ==
    ASSUME NEW S, NEW s \in Seq(S), NEW k \in 0..Len(s), SubSeq(s, k + 1, Len(s)) # <<>>
    PROVE  /\ k + 1 \in 0..Len(s)
           /\ Tail(SubSeq(s, k + 1, Len(s))) = SubSeq(s, k + 2, Len(s))
  <1>1. k \in Nat /\ Len(s) \in Nat /\ k < Len(s)
    BY SubSeqEmpty
  <1>2. /\ 1..Len(s) = DOMAIN s /\ k + 1 \in 1..Len(s)
    BY <1>1
  <1>3. Tail(SubSeq(s, k + 1, Len(s))) = SubSeq(s, k + 1 + 1, Len(s))
    BY <1>1, <1>2, HeadTailOfSubSeq
  <1> QED
    BY <1>1, <1>3

LEMMA SuffixAppend ==
    ASSUME NEW S, NEW s \in Seq(S), NEW k \in 0..Len(s), NEW e \in S
    PROVE  /\ k \in 0..Len(Append(s, e))
           /\ Append(SubSeq(s, k + 1, Len(s)), e)
                = SubSeq(Append(s, e), k + 1, Len(Append(s, e)))
  OBVIOUS

\* What is read from the socket is bytes, with whatever lies beyond.
LEMMA ReceivedBytes ==
    ASSUME NEW d, IsDatagram(d), NEW rest \in Rest, ByteMessage(message)
    PROVE  ByteMessage(Received(d, rest))
  <1>1. \A i \in 1..MessageLength : rest[i] \in 0..255
    BY JunkAssumption DEF Rest, ByteMessage
  <1>2. \A i \in 1..MessageLength : i <= Len(d) => d[i] \in 0..255
    <2>1. d \in Seq(0..255) /\ Len(d) \in Nat
      BY DEF IsDatagram, MessageLength
    <2>2. \A i \in 1..Len(d) : d[i] \in 0..255
      BY <2>1, ElementOfSeq
    <2> QED
      BY <2>1, <2>2 DEF MessageLength
  <1> QED
    BY <1>1, <1>2 DEF ByteMessage, Received

\* The conversion of the header permutes its bytes.
LEMMA ConvertedBytes ==
    ASSUME NEW m, ByteMessage(m)
    PROVE  ByteMessage(visca_header_convert_endianness(m))
  <1>1. \A i \in 1..8 : <<2, 1, 4, 3, 8, 7, 6, 5>>[i] \in 1..8
    OBVIOUS
  <1>2. \A i \in 1..8 : m[<<2, 1, 4, 3, 8, 7, 6, 5>>[i]] \in 0..255
    BY <1>1 DEF ByteMessage, MessageLength
  <1> QED
    BY <1>2 DEF ByteMessage, visca_header_convert_endianness, VOIP_HEADER_LENGTH, MessageLength

LEMMA InitType == LayeredInit => TypeInv
  <1> SUFFICES ASSUME LayeredInit PROVE TypeInv
    OBVIOUS
  <1>1. /\ inbox = <<>> /\ sent = <<>> /\ client \in Client /\ step = "idle"
        /\ alive = TRUE /\ message = [i \in 1..MessageLength |-> 0]
    BY DEF LayeredInit, Init
  <1>2. sent \in Seq(Messages(layer)) /\ Untaken
    BY <1>1 DEF Untaken
  <1>3. ByteMessage(message)
    BY <1>1 DEF ByteMessage
  <1> QED
    BY <1>1, <1>2, <1>3 DEF TypeInv, Steps

\* Taking a datagram leaves a suffix of what was sent.
LEMMA TakeType ==
    ASSUME BufferInv, TypeInv, TakeNext, UNCHANGED layer
    PROVE  /\ sent' \in Seq(Messages(layer')) /\ Untaken'
           /\ client' \in Client /\ alive' \in BOOLEAN
           /\ IsDatagram(Head(inbox).bytes)
  <1>1. /\ inbox # <<>> /\ inbox' = Tail(inbox) /\ sent' = sent
        /\ client' = Head(inbox).client /\ alive' = alive
    BY DEF TakeNext
  <1>2. Head(inbox) \in Messages(layer) /\ layer' = layer
    BY TakeKeeps
  <1>3. Head(inbox).client \in Client /\ IsDatagram(Head(inbox).bytes)
    <2>1. Head(inbox).client \in Client /\ Head(inbox).bytes \in Bytes
      BY <1>2 DEF Messages
    <2> QED
      BY <2>1, DatagramAssumption DEF Bytes
  <1>4. sent \in Seq(Messages(layer)) /\ Messages(layer') = Messages(layer)
    BY <1>2 DEF TypeInv
  <1>5. PICK k \in 0..Len(sent) : inbox = SubSeq(sent, k + 1, Len(sent))
    BY DEF TypeInv, Untaken
  <1>6. k + 1 \in 0..Len(sent) /\ inbox' = SubSeq(sent, k + 2, Len(sent))
    BY <1>1, <1>4, <1>5, SuffixTail
  <1>7. k + 2 = k + 1 + 1
    BY <1>5
  <1>8. Untaken'
    BY <1>1, <1>6, <1>7 DEF Untaken
  <1> QED
    BY <1>1, <1>3, <1>4, <1>8 DEF TypeInv

LEMMA SendType ==
    ASSUME BufferInv, TypeInv, NEW c \in Client, NEW d \in Sendable(c), Send(c, d),
           UNCHANGED layer
    PROVE  TypeInv'
  <1>1. PICK r : r = [client |-> c, bytes |-> d]
    OBVIOUS
  <1>2. /\ sent' = Append(sent, r) /\ inbox' = Append(inbox, r)
        /\ UNCHANGED <<message, client, step, alive>>
    BY <1>1 DEF Send
  <1>3. r \in Messages(layer)
    BY <1>1, SendableMessages DEF BufferInv
  <1>4. sent \in Seq(Messages(layer)) /\ layer' = layer
    BY DEF TypeInv
  <1>5. PICK k \in 0..Len(sent) : inbox = SubSeq(sent, k + 1, Len(sent))
    BY DEF TypeInv, Untaken
  <1>6. k \in 0..Len(sent') /\ inbox' = SubSeq(sent', k + 1, Len(sent'))
    BY <1>2, <1>3, <1>4, <1>5, SuffixAppend
  <1>7. Untaken'
    BY <1>6 DEF Untaken
  <1>8. sent' \in Seq(Messages(layer))
    BY <1>2, <1>3, <1>4
  <1>9. Messages(layer') = Messages(layer)
    BY <1>4
  <1>10. ByteMessage(message')
    BY <1>2 DEF TypeInv, ByteMessage
  <1> QED
    BY <1>2, <1>7, <1>8, <1>9, <1>10 DEF TypeInv, ByteMessage

LEMMA LaterType ==
    ASSUME TypeInv, UNCHANGED layer, NEW op, NEW n,
           Dispatch(op) \/ Complete(op) \/ Inquire(op, n) \/ SoapDies(op)
    PROVE  TypeInv'
  <1>1. UNCHANGED <<inbox, message, client, layer>>
    BY LaterSteps
  <1>2. sent' = sent /\ step' \in Steps /\ alive' \in BOOLEAN
    BY DEF TypeInv, Dispatch, Complete, Inquire, SoapDies, Steps
  <1>3. Untaken'
    BY <1>1, <1>2 DEF TypeInv, Untaken
  <1>4. ByteMessage(message')
    BY <1>1 DEF TypeInv, ByteMessage
  <1>5. Messages(layer') = Messages(layer)
    BY <1>1
  <1> QED
    BY <1>1, <1>2, <1>3, <1>4, <1>5 DEF TypeInv, ByteMessage

LEMMA NextType == BufferInv /\ TypeInv /\ [Next]_sessionState => TypeInv'
  <1> SUFFICES ASSUME BufferInv, TypeInv, [Next]_sessionState PROVE TypeInv'
    OBVIOUS
  <1>1. CASE UNCHANGED sessionState
    BY <1>1 DEF sessionState, vars, TypeInv, Untaken, ByteMessage, Messages
  <1>2. ASSUME Receive, UNCHANGED layer PROVE TypeInv'
    <2>1. PICK rest \in Rest : message' = Received(Head(inbox).bytes, rest)
      BY <1>2 DEF Receive
    <2>2. TakeNext
      BY <1>2 DEF Receive
    <2>3. ByteMessage(message')
      BY <1>2, <2>1, <2>2, TakeType, ReceivedBytes DEF TypeInv
    <2>4. step' \in Steps
      BY <1>2 DEF Receive, Steps
    <2> QED
      BY <1>2, <2>2, <2>3, <2>4, TakeType DEF TypeInv, ByteMessage
  <1>3. ASSUME SonyReceive, UNCHANGED layer PROVE TypeInv'
    <2>1. PICK rest \in Rest :
            message' = visca_header_convert_endianness(Received(Head(inbox).bytes, rest))
      BY <1>3 DEF SonyReceive
    <2>2. TakeNext
      BY <1>3 DEF SonyReceive
    <2>3. ByteMessage(Received(Head(inbox).bytes, rest))
      BY <1>3, <2>2, TakeType, ReceivedBytes DEF TypeInv
    <2>4. ByteMessage(message')
      BY <2>1, <2>3, ConvertedBytes
    <2>5. NextStep(message', length') \in Steps
      BY Zenon DEF NextStep, Steps
    <2>6. step' \in Steps
      BY <1>3, <2>5 DEF SonyReceive
    <2> QED
      BY <1>3, <2>2, <2>4, <2>6, TakeType DEF TypeInv, ByteMessage
  <1>4. ASSUME handle_udp_message, UNCHANGED layer PROVE TypeInv'
    <2>1. CASE Handle
      BY <1>2, <1>4, <2>1, LaterType DEF Handle
    <2>2. CASE SonyHandle
      BY <1>3, <1>4, <2>2, LaterType DEF SonyHandle
    <2> QED
      BY <1>4, <2>1, <2>2 DEF handle_udp_message
  <1> QED
    BY <1>1, <1>4, SendType DEF Next

LEMMA TypesOfInvariants == BufferInv /\ TypeInv => TypeOK
  <1> SUFFICES ASSUME BufferInv, TypeInv PROVE TypeOK
    OBVIOUS
  <1>1. inbox \in Seq(Messages(layer)) /\ layer \in Layer
    BY DEF BufferInv
  <1>2. \A k \in DOMAIN inbox : inbox[k] \in Messages(layer)
    BY <1>1
  <1>3. ASSUME NEW k \in DOMAIN inbox
        PROVE  inbox[k].client \in Client /\ IsDatagram(inbox[k].bytes)
    <2>1. inbox[k].client \in Client /\ inbox[k].bytes \in Bytes
      BY <1>2 DEF Messages
    <2> QED
      BY <2>1, DatagramAssumption DEF Bytes
  <1> QED
    BY <1>3 DEF TypeOK, BufferInv, TypeInv, Untaken, ByteMessage

\* Bytes are bytes and fit the buffer, and what waits in the socket is what was
\* sent last.
THEOREM TypeCorrect == Spec => []TypeOK
  <1>1. LayeredInit => TypeInv
    BY InitType
  <1>2. BufferInv /\ TypeInv /\ [Next]_<<vars, layer>> => TypeInv'
    BY NextType DEF sessionState
  <1>3. BufferInv /\ TypeInv => TypeOK
    BY TypesOfInvariants
  <1> QED
    BY <1>1, <1>2, <1>3, SpecBuffer, PTL DEF Spec

(***************************************************************************)
(* The conversation keeps to ViscaSession, and control replies echo, for   *)
(* any controllers, datagrams and leftovers.                               *)
(***************************************************************************)

------------------------------------------------------------------------------
(* The n-th of a finite set of places.                                       *)

UpTo(k, places) == {j \in places : j <= k}

\* The places up to k are no more than all of them, and at least one if k is
\* among them.
LEMMA UpToFinite ==
    ASSUME NEW places \in SUBSET Nat, IsFiniteSet(places), NEW k \in Nat
    PROVE  /\ IsFiniteSet(UpTo(k, places))
           /\ Cardinality(UpTo(k, places)) \in 0..Cardinality(places)
           /\ Cardinality(places) \in Nat
           /\ k \in places => Cardinality(UpTo(k, places)) >= 1
  <1>1. UpTo(k, places) \in SUBSET places
    BY DEF UpTo
  <1>2. /\ IsFiniteSet(UpTo(k, places))
        /\ Cardinality(UpTo(k, places)) <= Cardinality(places)
    BY <1>1, FS_Subset
  <1>3. Cardinality(UpTo(k, places)) \in Nat /\ Cardinality(places) \in Nat
    BY <1>2, FS_CardinalityType
  <1>4. k \in places => Cardinality(UpTo(k, places)) # 0
    BY <1>2, FS_EmptySet DEF UpTo
  <1> QED
    BY <1>2, <1>3, <1>4

\* Two places of a set are of different ranks.
LEMMA RankDistinct ==
    ASSUME NEW places \in SUBSET Nat, IsFiniteSet(places),
           NEW i \in places, NEW k \in places,
           Cardinality(UpTo(i, places)) = Cardinality(UpTo(k, places))
    PROVE  i = k
  <1>1. ASSUME NEW a \in places, NEW b \in places, a < b,
               Cardinality(UpTo(a, places)) = Cardinality(UpTo(b, places))
        PROVE  FALSE
    <2>0. \A j \in places : j <= a => j <= b
      BY <1>1
    <2>1. UpTo(a, places) \in SUBSET UpTo(b, places)
      BY <2>0, Zenon DEF UpTo
    <2>2. IsFiniteSet(UpTo(b, places))
      BY UpToFinite
    <2>3. UpTo(a, places) = UpTo(b, places)
      BY <1>1, <2>1, <2>2, FS_Subset
    <2>4. b \in UpTo(b, places) /\ b \notin UpTo(a, places)
      BY <1>1 DEF UpTo
    <2> QED
      BY <2>3, <2>4
  <1>2. i \in Nat /\ k \in Nat
    OBVIOUS
  <1> QED
    BY <1>1, <1>2

\* A place is the one its own count says.
LEMMA NthPlace ==
    ASSUME NEW places \in SUBSET Nat, IsFiniteSet(places), NEW k \in places
    PROVE  Nth(Cardinality(UpTo(k, places)), places) = k
  <1> DEFINE n == Cardinality(UpTo(k, places))
  <1>1. \A i \in places : Cardinality(UpTo(i, places)) = n => i = k
    BY RankDistinct
  <1>2. \E i \in places : Cardinality({j \in places : j <= i}) = n
    BY DEF UpTo
  <1>3. /\ Nth(n, places) \in places
        /\ Cardinality({j \in places : j <= Nth(n, places)}) = n
    BY <1>2 DEF Nth
  <1> QED
    BY <1>1, <1>3 DEF UpTo

\* There are as many ranks as places.
LEMMA NthExists ==
    ASSUME NEW places \in SUBSET Nat, IsFiniteSet(places),
           NEW n \in 1..Cardinality(places)
    PROVE  \E k \in places : Cardinality(UpTo(k, places)) = n
  <1> DEFINE rank == [k \in places |-> Cardinality(UpTo(k, places))]
             last == Cardinality(places)
  <1>1. last \in Nat /\ \A k \in places : Cardinality(UpTo(k, places)) \in 1..last
    BY UpToFinite, FS_CardinalityType
  <1>2. rank \in [places -> 1..last]
    BY <1>1
  <1>3. \A a, b \in places : rank[a] = rank[b] => a = b
    BY RankDistinct
  <1>4. rank \in Injection(places, 1..last)
    BY <1>2, <1>3, Fun_IsInj
  <1>5. IsFiniteSet(1..last) /\ Cardinality(1..last) = last
    BY <1>1, FS_Interval
  <1>6. rank \in Surjection(places, 1..last)
    BY <1>4, <1>5, FS_Injection
  <1>7. PICK k \in places : rank[k] = n
    BY <1>6 DEF Surjection
  <1> QED
    BY <1>7

\* A count within range names a place.
LEMMA NthInPlaces ==
    ASSUME NEW places \in SUBSET Nat, IsFiniteSet(places),
           NEW n \in 1..Cardinality(places)
    PROVE  Nth(n, places) \in places
  BY NthExists, NthPlace

\* A place beyond all others comes last and moves none of them.
LEMMA NthExtended ==
    ASSUME NEW places \in SUBSET Nat, IsFiniteSet(places),
           NEW m \in Nat, \A k \in places : k < m
    PROVE  /\ IsFiniteSet(places \cup {m})
           /\ Cardinality(places \cup {m}) = Cardinality(places) + 1
           /\ \A n \in 1..Cardinality(places) :
                    Nth(n, places \cup {m}) = Nth(n, places)
           /\ Nth(Cardinality(places) + 1, places \cup {m}) = m
  <1> DEFINE more == places \cup {m}
  <1>1. m \notin places
    OBVIOUS
  <1>2. IsFiniteSet(more) /\ Cardinality(more) = Cardinality(places) + 1
    BY <1>1, FS_AddElement
  <1>3. more \in SUBSET Nat
    OBVIOUS
  <1>4. ASSUME NEW n \in 1..Cardinality(places)
        PROVE  Nth(n, more) = Nth(n, places)
    <2>1. PICK k \in places : Cardinality(UpTo(k, places)) = n
      BY NthExists
    <2>2. UpTo(k, more) = UpTo(k, places)
      BY DEF UpTo
    <2>3. Nth(n, places) = k
      BY <2>1, NthPlace
    <2>4. k \in more /\ Cardinality(UpTo(k, more)) = n
      BY <2>1, <2>2
    <2>5. Nth(n, more) = k
      BY <1>2, <1>3, <2>4, NthPlace
    <2> QED
      BY <2>3, <2>5
  <1>5. UpTo(m, more) = more
    <2>1. \A j \in more : j \in Nat /\ j <= m
      OBVIOUS
    <2> QED
      BY <2>1 DEF UpTo
  <1>6. Nth(Cardinality(more), more) = m
    BY <1>2, <1>3, <1>5, NthPlace
  <1> QED
    BY <1>2, <1>4, <1>6

------------------------------------------------------------------------------
(* What a complete request is taken for.                                     *)

\* The inquiries of visca.c are told apart by two bytes.
LEMMA AnswerReads ==
    ASSUME NEW m1, NEW m2, data(m1, 2) = data(m2, 2), data(m1, 3) = data(m2, 3)
    PROVE  AnswerLength(m1) = AnswerLength(m2)
  <1>1. IsPositionInquiry(m1) = IsPositionInquiry(m2)
    BY DEF IsPositionInquiry
  <1> QED
    BY <1>1, Zenon DEF AnswerLength

\* Those of sony_visca_inquiries.c by four, and by two more after a 7E.
LEMMA SonyAnswerReads ==
    ASSUME NEW m1, NEW m2,
           \A i \in 1..4 : payload(m1, i) = payload(m2, i),
           payload(m1, 2) = \h7E =>
                payload(m1, 5) = payload(m2, 5) /\ payload(m1, 6) = payload(m2, 6)
    PROVE  SonyAnswerLength(m1) = SonyAnswerLength(m2)
  <1>1. /\ payload(m1, 1) = payload(m2, 1) /\ payload(m1, 2) = payload(m2, 2)
        /\ payload(m1, 3) = payload(m2, 3) /\ payload(m1, 4) = payload(m2, 4)
    OBVIOUS
  <1>2. dispatch_01(m1) = dispatch_01(m2)
    BY <1>1, Zenon DEF dispatch_01
  <1>3. /\ dispatch_09_00(m1) = dispatch_09_00(m2)
        /\ dispatch_09_04(m1) = dispatch_09_04(m2)
        /\ dispatch_09_06(m1) = dispatch_09_06(m2)
    BY <1>1, Zenon DEF dispatch_09_00, dispatch_09_04, dispatch_09_06
  <1>4. dispatch_09_05_42(m1) = dispatch_09_05_42(m2)
    BY <1>1, Zenon DEF dispatch_09_05_42
  <1>5. dispatch_09_05(m1) = dispatch_09_05(m2)
    BY <1>1, <1>4, Zenon DEF dispatch_09_05
  <1>6. dispatch_09_7e_01(m1) = dispatch_09_7e_01(m2)
    BY <1>1, Zenon DEF dispatch_09_7e_01
  <1>7. payload(m1, 2) = \h7E => dispatch_09_7e_04_20(m1) = dispatch_09_7e_04_20(m2)
    BY <1>1, Zenon DEF dispatch_09_7e_04_20
  <1>8. payload(m1, 2) = \h7E => dispatch_09_7e_04(m1) = dispatch_09_7e_04(m2)
    BY <1>1, <1>7, Zenon DEF dispatch_09_7e_04
  <1>9. payload(m1, 2) = \h7E => dispatch_09_7e(m1) = dispatch_09_7e(m2)
    BY <1>1, <1>6, <1>8, Zenon DEF dispatch_09_7e
  <1>10. dispatch_09(m1) = dispatch_09(m2)
    <2>1. CASE payload(m1, 2) = \h7E
      <3>1. dispatch_09_7e(m1) = dispatch_09_7e(m2)
        BY <1>9, <2>1
      <3> QED
        BY <1>1, <1>3, <1>5, <3>1, Zenon DEF dispatch_09
    <2>2. CASE payload(m1, 2) # \h7E
      <3>1. payload(m2, 2) # \h7E
        BY <1>1, <2>2
      <3> QED
        BY <1>1, <1>3, <1>5, <2>2, <3>1, SMT DEF dispatch_09
    <2> QED
      BY <2>1, <2>2
  <1> QED
    BY <1>1, <1>2, <1>10, Zenon DEF SonyAnswerLength

\* The length of the answer to the inquiry in the buffer m, on either layer.
LayerAnswer(m) == IF layer = "sony" THEN SonyAnswerLength(m) ELSE AnswerLength(m)

\* What the step in hand works on.
KindOfStep(s) == IF s = "idle" THEN "none" ELSE IF s = "inquiry" THEN "inquiry" ELSE "command"

\* What a datagram asks for is in its first two bytes.
LEMMA KindReads ==
    ASSUME NEW d, IsDatagram(d), Len(d) >= 2, layer \in Layer
    PROVE  /\ layer = "visca" =>
                /\ RequestKind(d) = "command" <=> d[1] = \h81 /\ d[2] = 1
                /\ RequestKind(d) = "inquiry" <=> d[1] = \h81 /\ d[2] = 9
           /\ layer = "sony" =>
                /\ RequestKind(d) = "command" <=> d[1] = 1 /\ d[2] = 0
                /\ RequestKind(d) = "inquiry" <=> d[1] = 1 /\ d[2] = \h10
           /\ RequestKind(d) \in {"command", "inquiry", "none"}
  <1>0. d \in Seq(0..255) /\ Len(d) \in Nat
    BY DEF IsDatagram, MessageLength
  <1>1. SubSeq(d, 1, 2) = <<d[1], d[2]>>
    <2>0. \A i \in 1..2 : i \in 1..Len(d)
      BY <1>0
    <2>1. \A i \in 1..2 : d[i] \in 0..255
      BY <1>0, <2>0, ElementOfSeq
    <2>2. /\ SubSeq(d, 1, 2) \in Seq(0..255) /\ Len(SubSeq(d, 1, 2)) = 2
          /\ \A i \in 1..2 : SubSeq(d, 1, 2)[i] = d[1 + i - 1]
      BY <2>1, SubSeqProperties, SMTT(30)
    <2>3. d[1] \in 0..255 /\ d[2] \in 0..255
      BY <2>1
    <2>4. SubSeq(d, 1, 2)[1] = d[1] /\ SubSeq(d, 1, 2)[2] = d[2]
      BY <2>2
    <2>5. <<d[1], d[2]>> \in Seq(0..255) /\ Len(<<d[1], d[2]>>) = 2
      BY <2>3
    <2>6. \A i \in 1..2 : SubSeq(d, 1, 2)[i] = <<d[1], d[2]>>[i]
      BY <2>4
    <2> QED
      BY <2>2, <2>5, <2>6, SeqEqual
  <1>2. \A a, b : SubSeq(d, 1, 2) = <<a, b>> <=> d[1] = a /\ d[2] = b
    BY <1>1
  <1> QED
    BY <1>2, Layers DEF RequestKind

\* What a conforming controller's datagram sets going is what it asks for, and
\* an inquiry of its has an answer.
Understood(c) ==
    step = "inquiry" /\ client = c => LayerAnswer(message) # 0

\* What a conforming controller sent is one of its layer's datagrams, and is
\* received whole.
LEMMA ConformingDatagram ==
    ASSUME BufferInv, TypeInv, TakeNext, UNCHANGED layer, client' \in Conforming
    PROVE  /\ Head(inbox).bytes \in WellFormed[layer]
           /\ IsDatagram(Head(inbox).bytes) /\ Len(Head(inbox).bytes) >= 2
           /\ length' = Len(Head(inbox).bytes)
  <1> DEFINE d == Head(inbox).bytes
  <1>1. /\ Head(inbox) \in Messages(layer) /\ length' = Len(d)
        /\ length' \in 1..MessageLength /\ client' = Head(inbox).client
    BY TakeKeeps
  <1>2. d \in WellFormed[layer] /\ IsDatagram(d)
    BY <1>1, TakeType DEF Messages
  <1>3. Len(d) >= 2
    BY <1>2, CompleteAssumption, SonyCompleteAssumption, Layers DEF BufferInv
  <1> QED
    BY <1>1, <1>2, <1>3

\* visca.c takes a datagram of a conforming controller for what it is.
LEMMA ReceiveUnderstands ==
    ASSUME BufferInv, TypeInv, Receive, layer = "visca", UNCHANGED layer,
           client' \in Conforming
    PROVE  /\ RequestKind(Head(inbox).bytes) = KindOfStep(step')
           /\ step' = "inquiry" => AnswerLength(message') # 0
  <1> DEFINE d == Head(inbox).bytes
  <1>1. /\ d \in WellFormed["visca"] /\ IsDatagram(d) /\ Len(d) >= 2 /\ Len(d) \in Nat
    BY ConformingDatagram DEF Receive, IsDatagram, MessageLength
  <1>2. PICK rest \in Rest : message' = Received(d, rest)
    BY DEF Receive
  <1>3. \A i \in 1..4 : i <= Len(d) => message'[i] = d[i]
    BY <1>2, ReceivedReads DEF MessageLength
  <1>4. message'[1] = d[1] /\ message'[2] = d[2]
    BY <1>1, <1>3
  <1>5. RequestKind(d) = KindOfStep(step')
    <2>1. /\ RequestKind(d) = "command" <=> d[1] = \h81 /\ d[2] = 1
          /\ RequestKind(d) = "inquiry" <=> d[1] = \h81 /\ d[2] = 9
          /\ RequestKind(d) \in {"command", "inquiry", "none"}
      <3>1. layer \in Layer
        BY DEF BufferInv
      <3> QED
        BY <1>1, <3>1, KindReads
    <2>2. step' = IF d[1] = \h81 /\ d[2] = 1 THEN "command"
                  ELSE IF d[1] = \h81 /\ d[2] = 9 THEN "inquiry" ELSE "idle"
      BY <1>4 DEF Receive
    <2> QED
      BY <2>1, <2>2 DEF KindOfStep
  <1>6. ASSUME step' = "inquiry" PROVE AnswerLength(message') # 0
    <2>1. d[1] = \h81 /\ d[2] = 9
      BY <1>4, <1>6 DEF Receive
    <2>2. Len(d) >= 4 /\ AnswerLength(d) > 0
      BY <1>1, <2>1, CompleteAssumption DEF IsKnown
    <2>3. message'[3] = d[3] /\ message'[4] = d[4]
      BY <1>3, <2>2
    <2>4. data(message', 2) = data(d, 2) /\ data(message', 3) = data(d, 3)
      BY <2>3 DEF data
    <2>5. AnswerLength(message') = AnswerLength(d)
      BY <2>4, AnswerReads
    <2> QED
      BY <2>2, <2>5
  <1> QED
    BY <1>5, <1>6

\* A converted header holds the numbers the bytes stand for.
LEMMA HeaderReads ==
    ASSUME NEW d, IsDatagram(d), Len(d) >= VOIP_HEADER_LENGTH
    PROVE  LET m == visca_header_convert_endianness(d)
           IN  /\ payload_type(m) = d[2] + 256 * d[1]
               /\ header_payload_length(m) = d[4] + 256 * d[3]
               /\ \A i \in 1..8 : d[i] \in 0..255
  <1>1. d \in Seq(0..255) /\ Len(d) \in Nat /\ Len(d) >= 8
    BY DEF IsDatagram, MessageLength, VOIP_HEADER_LENGTH
  <1>2. \A i \in 1..8 : i \in 1..Len(d)
    BY <1>1
  <1>3. \A i \in 1..8 : d[i] \in 0..255 /\ i \in DOMAIN d
    BY <1>1, <1>2, ElementOfSeq, LenProperties
  <1>4. \A i \in 1..8 : visca_header_convert_endianness(d)[i]
                            = d[<<2, 1, 4, 3, 8, 7, 6, 5>>[i]]
    BY <1>3 DEF visca_header_convert_endianness, VOIP_HEADER_LENGTH
  <1>5. /\ visca_header_convert_endianness(d)[1] = d[2]
        /\ visca_header_convert_endianness(d)[2] = d[1]
        /\ visca_header_convert_endianness(d)[3] = d[4]
        /\ visca_header_convert_endianness(d)[4] = d[3]
    BY <1>4
  <1> QED
    BY <1>3, <1>5 DEF payload_type, header_payload_length, data

\* Arithmetic on bytes.
LEMMA BytesAreNumbers == \A n \in 0..255 : n \in Nat /\ n <= 255
  OBVIOUS

\* A type is known by its two bytes.
LEMMA TypeBytes == \A a, b \in Nat : b <= 255 =>
    /\ b + 256 * a = \h0100 => a = 1 /\ b = 0
    /\ b + 256 * a = \h0110 => a = 1 /\ b = \h10
    /\ b + 256 * a = \h0200 => a = 2 /\ b = 0
  OBVIOUS

\* Arithmetic on places.
LEMMA InRange == \A b \in Int : \A n \in 1..b : n \in Nat /\ 1 <= n /\ n <= b
  OBVIOUS

\* A header that was received whole is converted whatever lies beyond.
LEMMA ConvertedReads ==
    ASSUME NEW d, IsDatagram(d), Len(d) >= VOIP_HEADER_LENGTH, NEW rest,
           NEW i \in Int, 0 <= i, i < Len(d)
    PROVE  data(visca_header_convert_endianness(Received(d, rest)), i)
                = data(visca_header_convert_endianness(d), i)
  <1>0. Len(d) \in 1..24 /\ d \in Seq(0..255) /\ Len(d) >= 8
    BY DEF IsDatagram, MessageLength, VOIP_HEADER_LENGTH
  <1>1. Len(d) \in Nat /\ Len(d) <= 24
    BY <1>0, InRange, 24 \in Int, Zenon
  <1>2. \A j \in 1..8 : <<2, 1, 4, 3, 8, 7, 6, 5>>[j] \in 1..8
    OBVIOUS
  <1>3. \A j \in 1..Len(d) : /\ Received(d, rest)[j] = d[j]
                             /\ j \in DOMAIN d /\ j \in DOMAIN Received(d, rest)
    <2>1. DOMAIN d = 1..Len(d) /\ DOMAIN Received(d, rest) = 1..24
      BY <1>0, LenProperties DEF Received, MessageLength
    <2>2. \A j \in 1..Len(d) : j \in 1..24 /\ j <= Len(d)
      BY <1>1
    <2>3. \A j \in 1..Len(d) : Received(d, rest)[j] = d[j]
      BY <2>2, ReceivedReads DEF MessageLength
    <2> QED
      BY <2>1, <2>2, <2>3
  <1>4. i + 1 \in 1..Len(d)
    BY <1>1
  <1>5. CASE i + 1 <= 8
    <2>1. <<2, 1, 4, 3, 8, 7, 6, 5>>[i + 1] \in 1..Len(d)
      BY <1>0, <1>1, <1>2, <1>4, <1>5
    <2> QED
      BY <1>3, <1>4, <1>5, <2>1 DEF visca_header_convert_endianness, VOIP_HEADER_LENGTH, data
  <1>6. CASE ~(i + 1 <= 8)
    BY <1>3, <1>4, <1>6 DEF visca_header_convert_endianness, VOIP_HEADER_LENGTH, data
  <1> QED
    BY <1>5, <1>6

\* No header can hold a length below zero.
LEMMA ShortHasNoPayload ==
    ASSUME NEW m, ByteMessage(m), NEW n \in Int, n < VOIP_HEADER_LENGTH
    PROVE  ~IsPayload(m, n)
  <1>1. m[3] \in 0..255 /\ m[4] \in 0..255
    BY DEF ByteMessage, MessageLength
  <1>2. m[3] + 256 * m[4] >= 0 /\ n - 8 < 0
    <2>1. m[3] \in Nat /\ m[4] \in Nat
      BY <1>1
    <2> QED
      BY <2>1 DEF VOIP_HEADER_LENGTH
  <1>3. header_payload_length(m) = m[3] + 256 * m[4] /\ payload_length(n) = n - 8
    BY DEF header_payload_length, payload_length, data, VOIP_HEADER_LENGTH
  <1> QED
    BY <1>1, <1>2, <1>3 DEF IsPayload

\* What a datagram read whole is taken for, by its type.
LEMMA PayloadRead ==
    ASSUME TypeInv, NEW d, IsDatagram(d), NEW rest \in Rest, NEW m,
           m = visca_header_convert_endianness(Received(d, rest))
    PROVE  IsPayload(m, Len(d)) =>
                /\ Len(d) >= VOIP_HEADER_LENGTH
                /\ IsPayload(visca_header_convert_endianness(d), Len(d))
                /\ payload_type(m) = d[2] + 256 * d[1]
                /\ header_payload_length(m) = d[4] + 256 * d[3]
                /\ \A i \in 1..8 : d[i] \in 0..255
  <1> SUFFICES ASSUME IsPayload(m, Len(d))
               PROVE  /\ Len(d) >= VOIP_HEADER_LENGTH
                      /\ IsPayload(visca_header_convert_endianness(d), Len(d))
                      /\ payload_type(m) = d[2] + 256 * d[1]
                      /\ header_payload_length(m) = d[4] + 256 * d[3]
                      /\ \A i \in 1..8 : d[i] \in 0..255
    OBVIOUS
  <1> DEFINE h == visca_header_convert_endianness(d)
  <1>1. Len(d) \in Int /\ VOIP_HEADER_LENGTH = 8
    BY DEF IsDatagram, MessageLength, VOIP_HEADER_LENGTH
  <1>2. ByteMessage(m)
    BY ReceivedBytes, ConvertedBytes DEF TypeInv
  <1>3. Len(d) >= 8
    BY <1>1, <1>2, ShortHasNoPayload
  <1>4. \A i \in 0..7 : data(m, i) = data(h, i)
    BY <1>1, <1>3, ConvertedReads
  <1>5. data(m, 0) = data(h, 0) /\ data(m, 1) = data(h, 1)
        /\ data(m, 2) = data(h, 2) /\ data(m, 3) = data(h, 3)
    BY <1>4
  <1>6. /\ payload_type(h) = d[2] + 256 * d[1]
        /\ header_payload_length(h) = d[4] + 256 * d[3]
        /\ \A i \in 1..8 : d[i] \in 0..255
    BY <1>1, <1>3, HeaderReads
  <1>7. /\ payload_type(m) = payload_type(h)
        /\ header_payload_length(m) = header_payload_length(h)
    BY <1>5 DEF payload_type, header_payload_length
  <1> QED
    BY <1>1, <1>3, <1>6, <1>7 DEF IsPayload

\* So does sony_visca.c, and it acknowledges commands only, or answers a
\* control message.
LEMMA SonyReceiveUnderstands ==
    ASSUME BufferInv, TypeInv, SonyReceive, layer = "sony", UNCHANGED layer,
           client' \in Conforming
    PROVE  /\ RequestKind(Head(inbox).bytes) = KindOfStep(step')
           /\ step' = "inquiry" => SonyAnswerLength(message') # 0
           /\ FirstReply(message', length') =
                IF step' = "command" THEN <<AckReply>>
                ELSE IF payload_type(message') = \h0200 /\ IsPayload(message', length')
                        /\ ControlAnswered(message', length')
                     THEN <<compose_control_reply(message')>> ELSE <<>>
  <1> DEFINE d == Head(inbox).bytes
             m == message'
             h == visca_header_convert_endianness(d)
             type == d[2] + 256 * d[1]
  <1>1. /\ d \in WellFormed["sony"] /\ IsDatagram(d) /\ Len(d) >= 2
        /\ length' = Len(d) /\ Len(d) \in Int
    BY ConformingDatagram DEF SonyReceive, IsDatagram, MessageLength
  <1>2. PICK rest \in Rest : m = visca_header_convert_endianness(Received(d, rest))
    BY DEF SonyReceive
  <1>3. step' = NextStep(m, Len(d))
    BY <1>1 DEF SonyReceive
  <1>4. IsPayload(m, Len(d)) =>
            /\ IsPayload(h, Len(d)) /\ Len(d) >= 8
            /\ payload_type(m) = type
            /\ \A i \in 1..8 : d[i] \in 0..255
    BY <1>1, <1>2, PayloadRead DEF VOIP_HEADER_LENGTH
  <1>5. /\ RequestKind(d) = "command" <=> d[1] = 1 /\ d[2] = 0
        /\ RequestKind(d) = "inquiry" <=> d[1] = 1 /\ d[2] = \h10
        /\ RequestKind(d) \in {"command", "inquiry", "none"}
    <2>1. layer \in Layer
      BY DEF BufferInv
    <2> QED
      BY <1>1, <2>1, KindReads
  <1>6. Len(d) >= 8 => \A i \in 0..15 : i < Len(d) => data(m, i) = data(h, i)
    BY <1>1, <1>2, ConvertedReads DEF VOIP_HEADER_LENGTH
  <1>7. CASE RequestKind(d) \in {"command", "inquiry"}
    <2>1. IsSonyComplete(d) /\ d[1] = 1 /\ d[2] \in {0, \h10}
      BY <1>1, <1>5, <1>7, SonyCompleteAssumption
    <2>2. Len(d) >= 13 /\ IsPayload(h, Len(d))
      BY <2>1 DEF IsSonyComplete, VOIP_HEADER_LENGTH
    <2>3. \A i \in 0..12 : data(m, i) = data(h, i)
      BY <1>1, <1>6, <2>2
    <2>4. /\ data(m, 0) = data(h, 0) /\ data(m, 1) = data(h, 1)
          /\ data(m, 2) = data(h, 2) /\ data(m, 3) = data(h, 3)
      BY <2>3
    <2>5. IsPayload(m, Len(d)) /\ payload_type(m) = payload_type(h)
      BY <2>2, <2>4 DEF IsPayload, header_payload_length, payload_type
    <2>6. \A i \in 0..4 : payload(m, i) = payload(h, i)
      BY <2>3 DEF payload, VOIP_HEADER_LENGTH
    <2>7. payload(m, 0) = payload(h, 0) /\ payload(m, 1) = payload(h, 1)
          /\ payload(m, 2) = payload(h, 2)
      BY <2>6
    <2>8. CASE RequestKind(d) = "command"
      <3>1. IsCommand(h, Len(d))
        BY <1>5, <2>1, <2>8 DEF IsSonyComplete
      <3>2. IsCommand(m, Len(d))
        BY <3>1, <2>5, <2>7 DEF IsCommand
      <3>3. step' = "command"
        BY <1>3, <2>5, <3>2 DEF NextStep
      <3>4. payload_type(m) = \h0100
        BY <3>2 DEF IsCommand
      <3>5. FirstReply(m, Len(d)) = <<AckReply>>
        BY <2>5, <3>4 DEF FirstReply
      <3> QED
        BY <1>1, <2>8, <3>3, <3>5 DEF KindOfStep
    <2>9. CASE RequestKind(d) = "inquiry"
      <3>1. /\ IsInquiry(h, Len(d)) /\ SonyAnswerLength(h) > 0
            /\ payload(h, 2) = \h7E => Len(d) >= 15
        BY <1>5, <2>1, <2>9 DEF IsSonyComplete, VOIP_HEADER_LENGTH
      <3>2. IsInquiry(m, Len(d)) /\ payload_type(m) = \h0110
        BY <3>1, <2>5, <2>7 DEF IsInquiry
      <3>3. ~IsCommand(m, Len(d))
        BY <3>2 DEF IsCommand
      <3>4. step' = "inquiry"
        BY <1>3, <2>5, <3>2, <3>3 DEF NextStep
      <3>5. payload(m, 2) = \h7E =>
                payload(m, 5) = payload(h, 5) /\ payload(m, 6) = payload(h, 6)
        BY <1>1, <1>6, <2>2, <2>7, <3>1 DEF payload, VOIP_HEADER_LENGTH
      <3>6. SonyAnswerLength(m) = SonyAnswerLength(h)
        BY <2>6, <3>5, SonyAnswerReads
      <3>7. payload_type(m) # \h0100 /\ payload_type(m) # \h0200
        BY <3>2
      <3>8. FirstReply(m, Len(d)) = <<>>
        BY <2>5, <3>7 DEF FirstReply
      <3> QED
        BY <1>1, <2>9, <3>1, <3>4, <3>6, <3>7, <3>8 DEF KindOfStep
    <2> QED
      BY <1>7, <2>8, <2>9
  <1>8. CASE RequestKind(d) = "none"
    <2>1. IsPayload(m, Len(d)) => payload_type(m) # \h0100 /\ payload_type(m) # \h0110
      <3> SUFFICES ASSUME IsPayload(m, Len(d))
                   PROVE  payload_type(m) # \h0100 /\ payload_type(m) # \h0110
        OBVIOUS
      <3>1. d[1] \in 0..255 /\ d[2] \in 0..255 /\ payload_type(m) = d[2] + 256 * d[1]
        BY <1>4
      <3>2. ~(d[1] = 1 /\ d[2] = 0) /\ ~(d[1] = 1 /\ d[2] = \h10)
        BY <1>5, <1>8
      <3>3. d[1] \in Nat /\ d[2] \in Nat /\ d[2] <= 255
        BY <3>1, BytesAreNumbers, Zenon
      <3>4. PICK a \in Nat, b \in Nat : a = d[1] /\ b = d[2] /\ b <= 255
        BY <3>3
      <3>5. /\ b + 256 * a = \h0100 => a = 1 /\ b = 0
            /\ b + 256 * a = \h0110 => a = 1 /\ b = \h10
        BY <3>4, TypeBytes
      <3>6. payload_type(m) = b + 256 * a
        BY <3>1, <3>4
      <3> QED
        BY <3>2, <3>4, <3>5, <3>6
    <2>2. IsPayload(m, Len(d)) => ~IsCommand(m, Len(d)) /\ ~IsInquiry(m, Len(d))
      BY <2>1 DEF IsCommand, IsInquiry
    <2>3. step' = "idle"
      BY <1>3, <2>2 DEF NextStep
    <2>4. FirstReply(m, Len(d)) =
                IF payload_type(m) = \h0200 /\ IsPayload(m, Len(d))
                        /\ ControlAnswered(m, Len(d))
                THEN <<compose_control_reply(m)>> ELSE <<>>
      <3>1. CASE IsPayload(m, Len(d))
        BY <2>1, <3>1 DEF FirstReply
      <3>2. CASE ~IsPayload(m, Len(d))
        BY <3>2 DEF FirstReply
      <3> QED
        BY <3>1, <3>2
    <2> QED
      BY <1>1, <1>8, <2>3, <2>4 DEF KindOfStep
  <1> QED
    BY <1>5, <1>7, <1>8

------------------------------------------------------------------------------
(* Replies, in a sequence s of them.                                         *)

OfType(s, type) == {k \in DOMAIN s : s[k].type = type}

Acknowledged(s) == \E k \in OfType(s, "ack") :
    \A j \in DOMAIN s : j > k => s[j].type = "control"

\* A sequence of replies is one.
LEMMA SequenceDomain ==
    ASSUME NEW s, IsSequence(s)
    PROVE  Len(s) \in Nat /\ DOMAIN s = 1..Len(s)
  BY LenProperties DEF IsSequence

\* One more reply leaves the earlier ones in their places.
LEMMA AppendReads ==
    ASSUME NEW s, IsSequence(s), NEW r
    PROVE  /\ IsSequence(Append(s, r))
           /\ DOMAIN Append(s, r) = (DOMAIN s) \cup {Len(s) + 1}
           /\ \A k \in DOMAIN s : Append(s, r)[k] = s[k] /\ k \in Nat /\ k <= Len(s)
           /\ Append(s, r)[Len(s) + 1] = r
           /\ Len(s) \in Nat
  <1>1. PICK S : s \in Seq(S)
    BY DEF IsSequence
  <1>2. s \in Seq(S \cup {r}) /\ r \in S \cup {r}
    BY <1>1
  <1>3. /\ Append(s, r) \in Seq(S \cup {r}) /\ Len(Append(s, r)) = Len(s) + 1
        /\ \A k \in 1..Len(s) : Append(s, r)[k] = s[k]
        /\ Append(s, r)[Len(s) + 1] = r
    BY <1>2, AppendProperties
  <1>4. Len(s) \in Nat /\ DOMAIN s = 1..Len(s) /\ DOMAIN Append(s, r) = 1..(Len(s) + 1)
    BY <1>1, <1>3, LenProperties
  <1>5. 1..(Len(s) + 1) = 1..Len(s) \cup {Len(s) + 1}
    BY <1>4
  <1> QED
    BY <1>3, <1>4, <1>5 DEF IsSequence

\* The replies of a type are finitely many.
LEMMA OfTypeFinite ==
    ASSUME NEW s, IsSequence(s), NEW type
    PROVE  /\ IsFiniteSet(OfType(s, type)) /\ OfType(s, type) \subseteq Nat
           /\ Cardinality(OfType(s, type)) \in Nat
  <1>1. Len(s) \in Nat /\ DOMAIN s = 1..Len(s)
    BY SequenceDomain
  <1>2. OfType(s, type) \in SUBSET (1..Len(s))
    BY <1>1 DEF OfType
  <1>3. IsFiniteSet(1..Len(s))
    BY <1>1, FS_Interval
  <1> QED
    BY <1>1, <1>2, <1>3, FS_Subset, FS_CardinalityType

\* One more reply of a type, or none.
LEMMA OfTypeAppended ==
    ASSUME NEW s, IsSequence(s), NEW r, NEW type
    PROVE  /\ OfType(Append(s, r), type) =
                IF r.type = type THEN OfType(s, type) \cup {Len(s) + 1}
                                 ELSE OfType(s, type)
           /\ Len(s) + 1 \notin OfType(s, type)
           /\ Cardinality(OfType(Append(s, r), type)) =
                IF r.type = type THEN Cardinality(OfType(s, type)) + 1
                                 ELSE Cardinality(OfType(s, type))
  <1>1. OfType(Append(s, r), type) =
                IF r.type = type THEN OfType(s, type) \cup {Len(s) + 1}
                                 ELSE OfType(s, type)
    <2>1. ASSUME NEW k PROVE k \in OfType(Append(s, r), type) <=>
            k \in OfType(s, type) \/ (r.type = type /\ k = Len(s) + 1)
      BY AppendReads DEF OfType
    <2> QED
      BY <2>1
  <1>2. Len(s) + 1 \notin OfType(s, type)
    BY AppendReads DEF OfType
  <1> QED
    BY <1>1, <1>2, OfTypeFinite, FS_AddElement

\* Whether the last reply but for control replies is an ack, after one more.
LEMMA AcknowledgedAppended ==
    ASSUME NEW s, IsSequence(s), NEW r
    PROVE  Acknowledged(Append(s, r)) <=>
                r.type = "ack" \/ (r.type = "control" /\ Acknowledged(s))
  <1> DEFINE n == Len(s) + 1
             t == Append(s, r)
  <1>1. /\ DOMAIN t = (DOMAIN s) \cup {n} /\ t[n] = r /\ n \in Nat
        /\ \A k \in DOMAIN s : t[k] = s[k] /\ k \in Nat /\ k < n
    <2>1. Len(s) \in Nat
      BY AppendReads
    <2>2. \A k \in DOMAIN s : t[k] = s[k] /\ k \in Nat /\ k <= Len(s)
      BY AppendReads
    <2>3. \A k \in DOMAIN s : k < n
      BY <2>1, <2>2
    <2> QED
      BY <2>1, <2>2, <2>3, AppendReads
  <1> HIDE DEF n, t
  <1>2. CASE r.type = "ack"
    <2>1. n \in OfType(t, "ack")
      BY <1>1, <1>2 DEF OfType
    <2>2. \A j \in DOMAIN t : ~(j > n)
      BY <1>1
    <2>3. Acknowledged(t)
      BY <2>1, <2>2 DEF Acknowledged
    <2> QED
      BY <1>2, <2>3 DEF t
  <1>3. CASE r.type = "control"
    <2>1. ASSUME Acknowledged(s) PROVE Acknowledged(t)
      <3>1. PICK k \in OfType(s, "ack") : \A j \in DOMAIN s : j > k => s[j].type = "control"
        BY <2>1 DEF Acknowledged
      <3>2. k \in OfType(t, "ack")
        BY <1>1, <3>1 DEF OfType
      <3>3. \A j \in DOMAIN t : j > k => t[j].type = "control"
        BY <1>1, <1>3, <3>1
      <3> QED
        BY <3>2, <3>3 DEF Acknowledged
    <2>2. ASSUME Acknowledged(t) PROVE Acknowledged(s)
      <3>1. PICK k \in OfType(t, "ack") : \A j \in DOMAIN t : j > k => t[j].type = "control"
        BY <2>2 DEF Acknowledged
      <3>2. k # n
        BY <1>1, <1>3, <3>1 DEF OfType
      <3>3. k \in OfType(s, "ack")
        BY <1>1, <3>1, <3>2 DEF OfType
      <3>4. \A j \in DOMAIN s : j > k => s[j].type = "control"
        BY <1>1, <3>1
      <3> QED
        BY <3>3, <3>4 DEF Acknowledged
    <2> QED
      BY <1>3, <2>1, <2>2 DEF t
  <1>4. CASE r.type \notin {"ack", "control"}
    <2>1. ASSUME Acknowledged(t) PROVE FALSE
      <3>1. PICK k \in OfType(t, "ack") : \A j \in DOMAIN t : j > k => t[j].type = "control"
        BY <2>1 DEF Acknowledged
      <3>2. k \in DOMAIN t /\ k # n
        BY <1>1, <1>4, <3>1 DEF OfType
      <3>3. n > k
        BY <1>1, <3>2
      <3> QED
        BY <1>1, <1>4, <3>1, <3>3
    <2> QED
      BY <1>4, <2>1 DEF t
  <1> QED
    BY <1>2, <1>3, <1>4

\* The same, of a controller's replies.
LEMMA PlacesOfType ==
    ASSUME NEW c
    PROVE  /\ \A type : Places(c, type) = OfType(replies[c], type)
           /\ c \in Acked <=> c \in Conforming /\ Acknowledged(replies[c])
  BY DEF Places, OfType, Acked, Acknowledged

------------------------------------------------------------------------------
(* Requests, and what is owed.                                               *)

Kind == {"command", "inquiry"}

\* A datagram is a command, an inquiry or no request.
LEMMA RequestKinds == \A d : RequestKind(d) \in Kind \cup {"none"}
  BY DEF RequestKind, Kind

\* The requests of a controller are finitely many of the datagrams sent.
LEMMA RequestPlaces ==
    ASSUME TypeInv, NEW c
    PROVE  /\ Requests(c) \in SUBSET Nat /\ IsFiniteSet(Requests(c))
           /\ Cardinality(Requests(c)) \in Nat
           /\ Len(sent) \in Nat /\ DOMAIN sent = 1..Len(sent)
           /\ \A k \in Requests(c) : k \in 1..Len(sent) /\ RequestKind(sent[k].bytes) \in Kind
  <1>1. Len(sent) \in Nat /\ DOMAIN sent = 1..Len(sent)
    BY LenProperties DEF TypeInv
  <1>2. Requests(c) \in SUBSET (1..Len(sent))
    BY <1>1 DEF Requests
  <1>3. \A k \in Requests(c) : RequestKind(sent[k].bytes) \in Kind
    BY RequestKinds DEF Requests
  <1>4. IsFiniteSet(1..Len(sent))
    BY <1>1, FS_Interval
  <1> QED
    BY <1>1, <1>2, <1>3, <1>4, FS_Subset, FS_CardinalityType

\* As many as are not answered are owed, each of its kind.
LEMMA OwedReads ==
    ASSUME TypeInv, NEW c, Answered(c) \in 0..Cardinality(Requests(c))
    PROVE  /\ Owed(c) \in Seq(Kind)
           /\ Len(Owed(c)) = Cardinality(Requests(c)) - Answered(c)
           /\ \A n \in 1..Len(Owed(c)) :
                Owed(c)[n] = RequestKind(sent[Nth(Answered(c) + n, Requests(c))].bytes)
  <1> DEFINE long == Cardinality(Requests(c)) - Answered(c)
  <1>1. Cardinality(Requests(c)) \in Nat /\ Answered(c) \in Nat /\ long \in Nat
    BY RequestPlaces
  <1>2. ASSUME NEW n \in 1..long
        PROVE  RequestKind(sent[Nth(Answered(c) + n, Requests(c))].bytes) \in Kind
    <2>1. Answered(c) + n \in 1..Cardinality(Requests(c))
      BY <1>1
    <2>2. Nth(Answered(c) + n, Requests(c)) \in Requests(c)
      BY <2>1, RequestPlaces, NthInPlaces
    <2> QED
      BY <2>2, RequestPlaces
  <1>3. Owed(c) \in [1..long -> Kind]
    BY <1>2 DEF Owed
  <1>4. Owed(c) \in Seq(Kind)
    BY <1>1, <1>3
  <1>5. Len(Owed(c)) = long
    BY <1>1, <1>3, <1>4, LenProperties
  <1> QED
    BY <1>4, <1>5 DEF Owed

\* The oldest of them is the first request after those answered.
LEMMA OwedHead ==
    ASSUME TypeInv, NEW c, NEW k \in Requests(c),
           Answered(c) = Cardinality({j \in Requests(c) : j < k})
    PROVE  /\ Answered(c) + 1 \in 1..Cardinality(Requests(c))
           /\ Owed(c) # <<>>
           /\ Head(Owed(c)) = RequestKind(sent[k].bytes)
  <1> DEFINE before == {j \in Requests(c) : j < k}
             upto == UpTo(k, Requests(c))
  <1>1. /\ Requests(c) \in SUBSET Nat /\ IsFiniteSet(Requests(c))
        /\ Cardinality(Requests(c)) \in Nat
    BY RequestPlaces
  <1>2. upto = before \cup {k} /\ k \notin before
    <2>1. \A j \in Requests(c) : j <= k <=> j < k \/ j = k
      BY <1>1
    <2>2. k \notin before
      BY <1>1
    <2> QED
      BY <2>1, <2>2, Zenon DEF UpTo
  <1>3. /\ IsFiniteSet(upto) /\ Cardinality(upto) \in 0..Cardinality(Requests(c))
    BY <1>1, UpToFinite
  <1>4. IsFiniteSet(before) /\ Cardinality(before) \in Nat
    BY <1>2, <1>3, FS_Subset, FS_CardinalityType
  <1>5. Cardinality(upto) = Answered(c) + 1
    BY <1>2, <1>4, FS_AddElement
  <1>6. Answered(c) + 1 \in 1..Cardinality(Requests(c)) /\ Answered(c) \in Nat
    BY <1>1, <1>3, <1>4, <1>5
  <1>7. Nth(Answered(c) + 1, Requests(c)) = k
    BY <1>1, <1>5, NthPlace
  <1>8. Answered(c) \in 0..Cardinality(Requests(c))
    BY <1>1, <1>6
  <1>9. /\ Owed(c) \in Seq(Kind) /\ Len(Owed(c)) \in Nat /\ Len(Owed(c)) >= 1
        /\ Owed(c)[1] = RequestKind(sent[k].bytes)
    <2>1. Len(Owed(c)) = Cardinality(Requests(c)) - Answered(c) /\ Owed(c) \in Seq(Kind)
      BY <1>8, OwedReads
    <2>2. Len(Owed(c)) \in Nat /\ Len(Owed(c)) >= 1
      BY <1>1, <1>6, <2>1
    <2>3. 1 \in 1..Len(Owed(c))
      BY <2>2
    <2> QED
      BY <1>7, <1>8, <2>1, <2>2, <2>3, OwedReads
  <1> QED
    BY <1>6, <1>9

\* Answering it leaves the others.
LEMMA OwedAnswered ==
    ASSUME TypeInv, TypeInv', UNCHANGED <<sent, layer>>, NEW c,
           Answered(c) + 1 \in 1..Cardinality(Requests(c)),
           Answered(c) \in Nat, Answered(c)' = Answered(c) + 1
    PROVE  Owed(c)' = Tail(Owed(c)) /\ Owed(c) # <<>>
  <1>1. sent' = sent /\ layer' = layer
    OBVIOUS
  <1>2. Requests(c)' = Requests(c) /\ \A d : RequestKind(d)' = RequestKind(d)
    BY <1>1 DEF Requests, RequestKind
  <1>3. Cardinality(Requests(c)) \in Nat
    BY RequestPlaces
  <1>4. /\ Owed(c) \in Seq(Kind)
        /\ Len(Owed(c)) = Cardinality(Requests(c)) - Answered(c)
        /\ \A n \in 1..Len(Owed(c)) :
            Owed(c)[n] = RequestKind(sent[Nth(Answered(c) + n, Requests(c))].bytes)
    BY <1>3, OwedReads
  <1>5. Owed(c)' = [n \in 1..(Len(Owed(c)) - 1) |-> Owed(c)[n + 1]]
    <2>1. Owed(c)' = [n \in 1..(Cardinality(Requests(c)) - (Answered(c) + 1)) |->
            RequestKind(sent[Nth((Answered(c) + 1) + n, Requests(c))].bytes)]
      BY <1>1, <1>2 DEF Owed
    <2>2. Cardinality(Requests(c)) - (Answered(c) + 1) = Len(Owed(c)) - 1
      BY <1>3, <1>4
    <2>3. ASSUME NEW n \in 1..(Len(Owed(c)) - 1)
          PROVE  Owed(c)[n + 1] =
                    RequestKind(sent[Nth((Answered(c) + 1) + n, Requests(c))].bytes)
      <3>1. Len(Owed(c)) \in Nat
        BY <1>4, LenProperties
      <3>2. n + 1 \in 1..Len(Owed(c)) /\ Answered(c) + (n + 1) = (Answered(c) + 1) + n
        BY <3>1
      <3> QED
        BY <1>4, <3>2
    <2> QED
      BY <2>1, <2>2, <2>3
  <1>6. Len(Owed(c)) \in Nat /\ Len(Owed(c)) >= 1
    BY <1>3, <1>4
  <1>7. Owed(c) # <<>>
    BY <1>6
  <1>8. Tail(Owed(c)) = [n \in 1..(Len(Owed(c)) - 1) |-> Owed(c)[n + 1]]
    <2>1. /\ Tail(Owed(c)) \in Seq(Kind) /\ Len(Tail(Owed(c))) = Len(Owed(c)) - 1
          /\ \A n \in 1..Len(Tail(Owed(c))) : Tail(Owed(c))[n] = Owed(c)[n + 1]
      BY <1>4, <1>7, HeadTailProperties
    <2> QED
      BY <2>1, LenProperties
  <1> QED
    BY <1>5, <1>7, <1>8

\* A datagram sent is one more request of its sender or none.
LEMMA RequestAdded ==
    ASSUME TypeInv, UNCHANGED layer, NEW r, r \in Messages(layer),
           sent' = Append(sent, r), NEW c
    PROVE  /\ Requests(c)' = Requests(c) \cup
                (IF r.client = c /\ RequestKind(r.bytes) # "none"
                 THEN {Len(sent) + 1} ELSE {})
           /\ \A k \in 1..Len(sent) : sent'[k] = sent[k]
           /\ sent'[Len(sent) + 1] = r
           /\ \A d : RequestKind(d)' = RequestKind(d)
  <1>1. sent \in Seq(Messages(layer)) /\ layer' = layer
    BY DEF TypeInv
  <1>2. IsSequence(sent)
    BY <1>1 DEF IsSequence
  <1>3. /\ DOMAIN sent' = (DOMAIN sent) \cup {Len(sent) + 1}
        /\ \A k \in DOMAIN sent : sent'[k] = sent[k]
        /\ sent'[Len(sent) + 1] = r
    BY <1>2, AppendReads
  <1>4. \A d : RequestKind(d)' = RequestKind(d)
    BY <1>1 DEF RequestKind
  <1>5. DOMAIN sent = 1..Len(sent)
    BY <1>2, SequenceDomain
  <1>6. ASSUME NEW k
        PROVE  k \in Requests(c)' <=> k \in Requests(c) \cup
                (IF r.client = c /\ RequestKind(r.bytes) # "none"
                 THEN {Len(sent) + 1} ELSE {})
    <2>1. k \in Requests(c)' <=>
            /\ k \in DOMAIN sent'
            /\ sent'[k].client = c /\ RequestKind(sent'[k].bytes) # "none"
      BY <1>4 DEF Requests
    <2>2. k \in Requests(c) <=>
            /\ k \in DOMAIN sent
            /\ sent[k].client = c /\ RequestKind(sent[k].bytes) # "none"
      BY DEF Requests
    <2>3. CASE k \in DOMAIN sent
      <3>1. k # Len(sent) + 1
        BY <1>2, <2>3, SequenceDomain
      <3> QED
        BY <1>3, <2>1, <2>2, <2>3, <3>1
    <2>4. CASE k = Len(sent) + 1
      <3>1. k \notin DOMAIN sent
        BY <1>2, <2>4, SequenceDomain
      <3> QED
        BY <1>3, <2>1, <2>2, <2>4, <3>1
    <2>5. CASE k \notin DOMAIN sent /\ k # Len(sent) + 1
      BY <1>3, <2>1, <2>2, <2>5
    <2> QED
      BY <2>3, <2>4, <2>5
  <1> QED
    BY <1>3, <1>4, <1>5, <1>6

\* Arithmetic on places.
LEMMA LastOrBefore == \A l \in Nat : \A n \in 1..(l + 1) : n \in 1..l \/ n = l + 1
  OBVIOUS

\* A further request is owed after all others.
LEMMA OwedRequested ==
    ASSUME TypeInv, TypeInv', UNCHANGED layer, NEW r, r \in Messages(layer),
           sent' = Append(sent, r), NEW c,
           Answered(c) \in 0..Cardinality(Requests(c)), Answered(c)' = Answered(c)
    PROVE  Owed(c)' = IF r.client = c /\ RequestKind(r.bytes) # "none"
                      THEN Append(Owed(c), RequestKind(r.bytes)) ELSE Owed(c)
  <1> DEFINE all == Requests(c)
             a == Answered(c)
             new == Len(sent) + 1
             k == RequestKind(r.bytes)
             long == Cardinality(all) - a
  <1>1. /\ all \in SUBSET Nat /\ IsFiniteSet(all) /\ Cardinality(all) \in Nat
        /\ Len(sent) \in Nat /\ \A p \in all : p \in 1..Len(sent)
    BY RequestPlaces
  <1>2. /\ \A p \in 1..Len(sent) : sent'[p] = sent[p]
        /\ sent'[new] = r /\ \A d : RequestKind(d)' = RequestKind(d)
    BY RequestAdded
  <1>3. Owed(c) \in Seq(Kind) /\ Len(Owed(c)) = long /\ a \in Nat /\ long \in Nat
    BY <1>1, OwedReads
  <1>4. ASSUME NEW n \in 1..long
        PROVE  /\ Nth(a + n, all) \in all
               /\ RequestKind(sent'[Nth(a + n, all)].bytes)
                    = RequestKind(sent[Nth(a + n, all)].bytes)
    <2>1. a + n \in 1..Cardinality(all)
      BY <1>1, <1>3
    <2>2. Nth(a + n, all) \in all
      BY <1>1, <2>1, NthInPlaces
    <2>3. sent'[Nth(a + n, all)] = sent[Nth(a + n, all)]
      BY <1>1, <1>2, <2>2
    <2> QED
      BY <2>2, <2>3
  <1>5. CASE ~(r.client = c /\ k # "none")
    <2>0. Requests(c)' = all \cup {}
      BY <1>5, RequestAdded, Zenon
    <2>1. Requests(c)' = all
      BY <2>0
    <2>2. Owed(c)' = [n \in 1..long |-> RequestKind(sent'[Nth(a + n, all)].bytes)]
      BY <1>2, <2>1 DEF Owed
    <2>3. Owed(c)' = Owed(c)
      BY <1>4, <2>2 DEF Owed
    <2> QED
      BY <1>5, <2>3
  <1>6. CASE r.client = c /\ k # "none"
    <2>1. Requests(c)' = all \cup {new}
      BY <1>6, RequestAdded
    <2>2. new \in Nat /\ \A p \in all : p < new
      <3>1. \A p \in all : p \in Nat /\ p <= Len(sent)
        <4>1. \A p \in 1..Len(sent) : p \in Nat /\ p <= Len(sent)
          BY <1>1
        <4> QED
          BY <1>1, <4>1
      <3> QED
        BY <1>1, <3>1
    <2>3. /\ Cardinality(all \cup {new}) = Cardinality(all) + 1
          /\ \A n \in 1..Cardinality(all) : Nth(n, all \cup {new}) = Nth(n, all)
          /\ Nth(Cardinality(all) + 1, all \cup {new}) = new
      BY <1>1, <2>2, NthExtended
    <2>4. Owed(c)' = [n \in 1..(Cardinality(all \cup {new}) - a) |->
                        RequestKind(sent'[Nth(a + n, all \cup {new})].bytes)]
      BY <1>2, <2>1 DEF Owed
    <2>5. Cardinality(all \cup {new}) - a = long + 1
      BY <1>1, <1>3, <2>3
    <2>6. ASSUME NEW n \in 1..(long + 1)
          PROVE  RequestKind(sent'[Nth(a + n, all \cup {new})].bytes)
                    = Append(Owed(c), k)[n]
      <3>1. CASE n \in 1..long
        <4>1. a + n \in 1..Cardinality(all)
          BY <1>1, <1>3, <3>1
        <4>2. Nth(a + n, all \cup {new}) = Nth(a + n, all)
          BY <2>3, <4>1
        <4>3. Append(Owed(c), k)[n] = Owed(c)[n]
          BY <1>3, <3>1
        <4>4. Owed(c)[n] = RequestKind(sent[Nth(a + n, all)].bytes)
          BY <3>1 DEF Owed
        <4> QED
          BY <1>4, <3>1, <4>2, <4>3, <4>4
      <3>2. CASE n = long + 1
        <4>1. a + n = Cardinality(all) + 1
          BY <1>1, <1>3, <3>2
        <4>2. Nth(a + n, all \cup {new}) = new
          BY <2>3, <4>1
        <4>3. Append(Owed(c), k)[n] = k
          BY <1>3, <3>2
        <4> QED
          BY <1>2, <4>2, <4>3
      <3>3. n \in 1..long \/ n = long + 1
        BY <1>3, LastOrBefore
      <3> QED
        BY <3>1, <3>2, <3>3
    <2>7. k \in Kind
      BY <1>6, RequestKinds
    <2>8. /\ Append(Owed(c), k) \in Seq(Kind)
          /\ Len(Append(Owed(c), k)) = long + 1
      BY <1>3, <2>7, AppendProperties
    <2>9. Append(Owed(c), k) = [n \in 1..(long + 1) |-> Append(Owed(c), k)[n]]
      BY <2>8, LenProperties
    <2>10. Owed(c)' = [n \in 1..(long + 1) |-> Append(Owed(c), k)[n]]
      BY <2>4, <2>5, <2>6
    <2> QED
      BY <1>6, <2>9, <2>10
  <1> QED
    BY <1>5, <1>6

\* What leaves the requests and the answers alone leaves what is owed.
LEMMA OwedKept ==
    ASSUME UNCHANGED <<sent, layer>>, NEW c, Answered(c)' = Answered(c)
    PROVE  Owed(c)' = Owed(c)
  <1>1. sent' = sent /\ layer' = layer
    OBVIOUS
  <1>2. Requests(c)' = Requests(c) /\ \A d : RequestKind(d)' = RequestKind(d)
    BY <1>1 DEF Requests, RequestKind
  <1> QED
    BY <1>1, <1>2 DEF Owed

------------------------------------------------------------------------------
(* The invariant: of the datagrams taken so far every request is answered,   *)
(* but the one in hand, and that is acknowledged once it is dispatched.      *)

taken == Len(sent) - Len(inbox)

Busy(c) == step # "idle" /\ client = c

Done(c) == {k \in Requests(c) : k <= taken /\ (Busy(c) => k # taken)}

Orderly(c) ==
    /\ Answered(c) = Cardinality(Done(c))
    /\ Busy(c) =>
            /\ taken \in Requests(c)
            /\ RequestKind(sent[taken].bytes) = KindOfStep(step)
            /\ step = "inquiry" => LayerAnswer(message) # 0
    /\ Acknowledged(replies[c]) <=> Busy(c) /\ step # "inquiry"

RepliesInv ==
    replies = [c \in Client |-> replies[c]] /\ \A c \in Client : IsSequence(replies[c])

SessionInv == RepliesInv /\ \A c \in Conforming : Orderly(c)

\* One reply more, to the controller p.
Replied(p, r) == replies' = [replies EXCEPT ![p] = Append(@, r)]

\* A reply counts as an answer of its receiver alone, and only a completion does.
LEMMA RepliedReads ==
    ASSUME RepliesInv, NEW p \in Client, NEW r, Replied(p, r)
    PROVE  /\ RepliesInv'
           /\ \A c \in Client :
                /\ Answered(c)' = IF c = p /\ r.type = "completion"
                                  THEN Answered(c) + 1 ELSE Answered(c)
                /\ c # p => (Acknowledged(replies[c])' <=> Acknowledged(replies[c]))
                /\ c = p => (Acknowledged(replies[c])' <=>
                        r.type = "ack" \/ (r.type = "control" /\ Acknowledged(replies[c])))
  <1>0. IsSequence(replies[p])
    BY DEF RepliesInv
  <1>1. /\ DOMAIN replies' = Client /\ replies'[p] = Append(replies[p], r)
        /\ \A c \in Client : c # p => replies'[c] = replies[c]
    BY DEF RepliesInv, Replied
  <1>2. \A c \in Client : IsSequence(replies'[c])
    <2>1. IsSequence(Append(replies[p], r))
      BY <1>0, AppendReads
    <2> QED
      BY <1>1, <2>1 DEF RepliesInv
  <1>3. ASSUME NEW c \in Client
        PROVE  Answered(c)' = IF c = p /\ r.type = "completion"
                              THEN Answered(c) + 1 ELSE Answered(c)
    <2>1. /\ Answered(c) = Cardinality(OfType(replies[c], "completion"))
          /\ Answered(c)' = Cardinality(OfType(replies'[c], "completion"))
      BY DEF Answered, Places, OfType
    <2>2. Cardinality(OfType(Append(replies[p], r), "completion")) =
                IF r.type = "completion" THEN Cardinality(OfType(replies[p], "completion")) + 1
                                         ELSE Cardinality(OfType(replies[p], "completion"))
      BY <1>0, OfTypeAppended
    <2>3. CASE c = p
      BY <1>1, <2>1, <2>2, <2>3
    <2>4. CASE c # p
      BY <1>1, <2>1, <2>4
    <2> QED
      BY <2>3, <2>4
  <1>4. ASSUME NEW c \in Client
        PROVE  /\ c # p => (Acknowledged(replies[c])' <=> Acknowledged(replies[c]))
               /\ c = p => (Acknowledged(replies[c])' <=>
                        r.type = "ack" \/ (r.type = "control" /\ Acknowledged(replies[c])))
    <2>1. Acknowledged(replies[c])' <=> Acknowledged(replies'[c])
      BY DEF Acknowledged, OfType
    <2>0. Acknowledged(Append(replies[p], r)) <=>
                r.type = "ack" \/ (r.type = "control" /\ Acknowledged(replies[p]))
      BY <1>0, AcknowledgedAppended
    <2>2. CASE c = p
      <3>1. replies'[c] = Append(replies[p], r) /\ replies[c] = replies[p]
        BY <1>1, <2>2
      <3>2. Acknowledged(replies'[c]) <=>
                r.type = "ack" \/ (r.type = "control" /\ Acknowledged(replies[c]))
        BY <2>0, <3>1, Zenon
      <3> QED
        BY <2>1, <2>2, <3>2, Zenon
    <2>3. CASE c # p
      BY <1>1, <2>1, <2>3
    <2> QED
      BY <2>2, <2>3
  <1>5. replies' = [c \in Client |-> replies'[c]]
    BY DEF Replied, RepliesInv
  <1> QED
    BY <1>2, <1>3, <1>4, <1>5 DEF RepliesInv

\* The datagrams taken are the first of those sent, and the next to be taken is
\* the next of them.
LEMMA TakenReads ==
    ASSUME TypeInv
    PROVE  /\ taken \in Nat /\ taken <= Len(sent) /\ Len(sent) \in Nat
           /\ inbox # <<>> => /\ taken + 1 \in 1..Len(sent)
                              /\ Head(inbox) = sent[taken + 1]
                              /\ Len(Tail(inbox)) = Len(inbox) - 1
           /\ Len(inbox) \in Nat /\ IsSequence(inbox)
  <1>1. sent \in Seq(Messages(layer)) /\ Len(sent) \in Nat
    BY LenProperties DEF TypeInv
  <1>2. PICK k \in 0..Len(sent) : inbox = SubSeq(sent, k + 1, Len(sent))
    BY DEF TypeInv, Untaken
  <1>3. k \in Nat /\ k <= Len(sent) /\ k + 1 \in Int /\ Len(sent) \in Int
    BY <1>1
  <1>4. \A i \in (k + 1)..Len(sent) : sent[i] \in Messages(layer)
    BY <1>1, <1>3, ElementOfSeq
  <1>5. /\ inbox \in Seq(Messages(layer))
        /\ Len(inbox) = IF k + 1 <= Len(sent) THEN Len(sent) - (k + 1) + 1 ELSE 0
        /\ \A i \in 1..(Len(sent) - (k + 1) + 1) : inbox[i] = sent[(k + 1) + i - 1]
    BY <1>2, <1>3, <1>4, SubSeqProperties, SMTT(30)
  <1>6. Len(inbox) = Len(sent) - k /\ taken = k
    BY <1>1, <1>3, <1>5 DEF taken
  <1>7. ASSUME inbox # <<>>
        PROVE  /\ k + 1 \in 1..Len(sent) /\ Head(inbox) = sent[k + 1]
               /\ Len(Tail(inbox)) = Len(inbox) - 1
    <2>1. Len(inbox) >= 1
      BY <1>3, <1>5, <1>6, <1>7, EmptySeq
    <2>2. k + 1 \in 1..Len(sent) /\ 1 \in 1..(Len(sent) - (k + 1) + 1)
      BY <1>1, <1>3, <1>6, <2>1
    <2>3. inbox[1] = sent[k + 1]
      BY <1>3, <1>5, <2>2
    <2> QED
      BY <1>5, <1>7, <2>2, <2>3, HeadTailProperties
  <1> QED
    BY <1>1, <1>3, <1>5, <1>6, <1>7 DEF IsSequence

\* The invariant holds initially.
LEMMA InitSession == LayeredInit => SessionInv
  <1> SUFFICES ASSUME LayeredInit PROVE SessionInv
    OBVIOUS
  <1>1. /\ sent = <<>> /\ step = "idle" /\ replies = [c \in Client |-> <<>>]
    BY DEF LayeredInit, Init
  <1>2. ASSUME NEW c \in Client
        PROVE  IsSequence(replies[c]) /\ DOMAIN replies[c] = {}
    <2>1. replies[c] = <<>> /\ <<>> \in Seq({})
      BY <1>1
    <2> QED
      BY <2>1 DEF IsSequence
  <1>3. ASSUME NEW c \in Conforming PROVE Orderly(c)
    <2>1. ~Busy(c) /\ Requests(c) = {}
      BY <1>1 DEF Busy, Requests
    <2>2. DOMAIN replies[c] = {}
      BY <1>2, ConformingAssumption
    <2>3. Done(c) = {} /\ Places(c, "completion") = {} /\ ~Acknowledged(replies[c])
      BY <2>1, <2>2 DEF Done, Places, Acknowledged, OfType
    <2>4. Answered(c) = Cardinality(Done(c))
      BY <2>3 DEF Answered
    <2> QED
      BY <2>1, <2>3, <2>4, Zenon DEF Orderly
  <1> QED
    BY <1>1, <1>2, <1>3 DEF SessionInv, RepliesInv

\* What takes, sends and says nothing, and goes on with what it was doing.
LEMMA SessionLeftAlone ==
    ASSUME SessionInv, UNCHANGED <<sent, inbox, layer, client, message, replies>>,
           KindOfStep(step') = KindOfStep(step)
    PROVE  /\ SessionInv'
           /\ \A c : Owed(c)' = Owed(c)
           /\ Acked' = Acked
  <1>1. /\ sent' = sent /\ inbox' = inbox /\ layer' = layer /\ client' = client
        /\ message' = message /\ replies' = replies
    OBVIOUS
  <1>2. (step' = "idle" <=> step = "idle") /\ (step' = "inquiry" <=> step = "inquiry")
    BY DEF KindOfStep
  <1>3. RepliesInv'
    BY <1>1 DEF SessionInv, RepliesInv, IsSequence
  <1>4. ASSUME NEW c
        PROVE  /\ Requests(c)' = Requests(c) /\ Answered(c)' = Answered(c)
               /\ (Busy(c)' <=> Busy(c)) /\ Done(c)' = Done(c)
               /\ (Acknowledged(replies[c])' <=> Acknowledged(replies[c]))
    <2>1. \A d : RequestKind(d)' = RequestKind(d)
      BY <1>1 DEF RequestKind
    <2>2. Requests(c)' = Requests(c)
      BY <1>1, <2>1 DEF Requests
    <2>3. (Busy(c)' <=> Busy(c)) /\ taken' = taken
      BY <1>1, <1>2 DEF Busy, taken
    <2>4. Done(c)' = Done(c)
      BY <2>2, <2>3 DEF Done
    <2> QED
      BY <1>1, <2>2, <2>3, <2>4 DEF Answered, Places, Acknowledged, OfType
  <1>5. ASSUME NEW c \in Conforming PROVE Orderly(c)'
    <2>1. Orderly(c)
      BY DEF SessionInv
    <2>2. Answered(c)' = Cardinality(Done(c)')
      BY <1>4, <2>1 DEF Orderly
    <2>3. ASSUME Busy(c)'
          PROVE  /\ taken' \in Requests(c)'
                 /\ RequestKind(sent[taken].bytes)' = KindOfStep(step')
                 /\ step' = "inquiry" => LayerAnswer(message)' # 0
      <3>1. Busy(c)
        BY <1>4, <2>3
      <3>2. LayerAnswer(message)' = LayerAnswer(message) /\ taken' = taken
        BY <1>1 DEF LayerAnswer, taken
      <3>3. RequestKind(sent[taken].bytes)' = RequestKind(sent[taken].bytes)
        BY <1>1 DEF RequestKind, taken
      <3> QED
        BY <1>2, <1>4, <2>1, <3>1, <3>2, <3>3 DEF Orderly
    <2>4. Acknowledged(replies[c])' <=> Busy(c)' /\ step' # "inquiry"
      BY <1>2, <1>4, <2>1, Zenon DEF Orderly
    <2> QED
      BY <2>2, <2>3, <2>4, Zenon DEF Orderly
  <1>6. \A c : Owed(c)' = Owed(c)
    BY <1>1, <1>4, OwedKept
  <1>7. Acked' = Acked
    BY <1>1 DEF Acked, Places
  <1> QED
    BY <1>3, <1>5, <1>6, <1>7 DEF SessionInv

\* A datagram that is sent is not one taken.
LEMMA SendOrderly ==
    ASSUME SessionInv, TypeInv, NEW r, r \in Messages(layer),
           sent' = Append(sent, r), inbox' = Append(inbox, r),
           UNCHANGED <<layer, client, message, replies, step>>
    PROVE  SessionInv'
  <1>1. /\ layer' = layer /\ client' = client /\ step' = step
        /\ message' = message /\ replies' = replies
    OBVIOUS
  <1>2. taken' = taken /\ taken \in Nat /\ taken <= Len(sent) /\ Len(sent) \in Nat
    <2>1. IsSequence(sent) /\ sent \in Seq(Messages(layer))
      BY DEF TypeInv, IsSequence
    <2>2. Len(sent') = Len(sent) + 1
      BY <2>1, AppendedSequence
    <2>3. Len(inbox') = Len(inbox) + 1
      BY TakenReads, AppendedSequence
    <2>4. taken' = Len(sent') - Len(inbox')
      BY DEF taken
    <2> QED
      BY <2>2, <2>3, <2>4, TakenReads DEF taken
  <1>3. RepliesInv'
    BY <1>1 DEF SessionInv, RepliesInv, IsSequence
  <1>4. ASSUME NEW c \in Conforming PROVE Orderly(c)'
    <2>1. Orderly(c)
      BY DEF SessionInv
    <2>2. Requests(c)' = Requests(c) \/ Requests(c)' = Requests(c) \cup {Len(sent) + 1}
      <3>1. Requests(c)' = Requests(c) \cup
                (IF r.client = c /\ RequestKind(r.bytes) # "none"
                 THEN {Len(sent) + 1} ELSE {})
        BY RequestAdded
      <3> QED
        BY <3>1
    <2>3. (Busy(c)' <=> Busy(c)) /\ Answered(c)' = Answered(c)
          /\ (Acknowledged(replies[c])' <=> Acknowledged(replies[c]))
      BY <1>1 DEF Busy, Answered, Places, Acknowledged, OfType
    <2>4. ~(Len(sent) + 1 <= taken)
      BY <1>2
    <2>5. Done(c)' = Done(c)
      BY <1>2, <2>2, <2>3, <2>4 DEF Done
    <2>6. ASSUME Busy(c)'
          PROVE  /\ taken' \in Requests(c)'
                 /\ RequestKind(sent[taken].bytes)' = KindOfStep(step')
                 /\ step' = "inquiry" => LayerAnswer(message)' # 0
      <3>1. /\ taken \in Requests(c) /\ RequestKind(sent[taken].bytes) = KindOfStep(step)
            /\ step = "inquiry" => LayerAnswer(message) # 0
        BY <2>1, <2>3, <2>6 DEF Orderly
      <3>2. taken' \in Requests(c)' /\ taken \in 1..Len(sent)
        BY <1>2, <2>2, <3>1, RequestPlaces
      <3>3. sent'[taken'] = sent[taken]
        BY <1>2, <3>2, RequestAdded
      <3>4. RequestKind(sent[taken].bytes)' = RequestKind(sent[taken].bytes)
        BY <1>1, <3>3 DEF RequestKind
      <3>5. LayerAnswer(message)' = LayerAnswer(message)
        BY <1>1 DEF LayerAnswer
      <3> QED
        BY <1>1, <3>1, <3>2, <3>4, <3>5
    <2>7. Answered(c)' = Cardinality(Done(c)')
      BY <2>1, <2>3, <2>5 DEF Orderly
    <2>8. Acknowledged(replies[c])' <=> Busy(c)' /\ step' # "inquiry"
      BY <1>1, <2>1, <2>3, Zenon DEF Orderly
    <2> QED
      BY <2>6, <2>7, <2>8, Zenon DEF Orderly
  <1> QED
    BY <1>3, <1>4 DEF SessionInv

\* What taking a datagram comes to on either layer: at most one reply, which
\* completes nothing, and a conforming controller is understood.
Receives ==
    /\ TakeNext /\ UNCHANGED layer
    /\ \/ UNCHANGED replies
       \/ \E r : r.type \in {"ack", "control"} /\ Replied(client', r)
    /\ client' \in Conforming =>
        /\ RequestKind(Head(inbox).bytes) = KindOfStep(step')
        /\ step' = "inquiry" => LayerAnswer(message)' # 0
        /\ step' = "command" => \E r : r.type = "ack" /\ Replied(client', r)
        /\ step' # "command" => \/ UNCHANGED replies
                                \/ \E r : r.type = "control" /\ Replied(client', r)
    /\ step' \in {"idle", "command", "inquiry"}

\* epoll_handle_read_queue_udp with visca.c is a step that takes a datagram ...
LEMMA ReceiveReceives ==
    ASSUME BufferInv, TypeInv, Receive, layer = "visca", UNCHANGED layer
    PROVE  Receives
  <1>1. TakeNext /\ step' \in {"idle", "command", "inquiry"}
    BY DEF Receive
  <1>2. AckReply.type = "ack"
    BY DEF AckReply
  <1>3. /\ step' = "command" => Replied(client', AckReply)
        /\ step' # "command" => UNCHANGED replies
    BY DEF Receive, Replied
  <1>4. client' \in Conforming =>
            /\ RequestKind(Head(inbox).bytes) = KindOfStep(step')
            /\ step' = "inquiry" => AnswerLength(message') # 0
    BY ReceiveUnderstands
  <1>5. LayerAnswer(message)' = AnswerLength(message')
    BY DEF LayerAnswer
  <1> QED
    BY <1>1, <1>2, <1>3, <1>4, <1>5 DEF Receives

\* A reply or none, behind those a controller was sent before.
LEMMA RepliedFirst ==
    ASSUME RepliesInv, NEW p \in Client, NEW first,
           replies' = [replies EXCEPT ![p] = @ \o first]
    PROVE  /\ first = <<>> => UNCHANGED replies
           /\ \A r : first = <<r>> => Replied(p, r)
  <1>1. IsSequence(replies[p]) /\ p \in DOMAIN replies
    BY DEF RepliesInv
  <1>2. ASSUME first = <<>> PROVE UNCHANGED replies
    <2>1. replies[p] \o <<>> = replies[p]
      BY <1>1, ConcatEmptySeq DEF IsSequence
    <2>2. replies' = [replies EXCEPT ![p] = replies[p]]
      BY <1>2, <2>1
    <2> QED
      BY <2>2 DEF RepliesInv
  <1>3. ASSUME NEW r, first = <<r>> PROVE Replied(p, r)
    <2>1. PICK S : replies[p] \in Seq(S)
      BY <1>1 DEF IsSequence
    <2>2. replies[p] \in Seq(S \cup {r}) /\ r \in S \cup {r}
      BY <2>1
    <2>3. replies[p] \o <<r>> = Append(replies[p], r)
      BY <2>2, AppendIsConcat
    <2> QED
      BY <1>3, <2>3 DEF Replied
  <1> QED
    BY <1>2, <1>3

\* ... and so it is with sony_visca.c.
LEMMA SonyReceiveReceives ==
    ASSUME BufferInv, TypeInv, RepliesInv, SonyReceive, layer = "sony", UNCHANGED layer
    PROVE  Receives
  <1> DEFINE first == FirstReply(message', length')
             echo == compose_control_reply(message')
  <1>1. /\ TakeNext /\ step' = NextStep(message', length')
        /\ replies' = [replies EXCEPT ![client'] = @ \o first]
    BY DEF SonyReceive
  <1>2. step' \in {"idle", "command", "inquiry"}
    BY <1>1 DEF NextStep
  <1>3. client' \in Client
    BY <1>1, TakeType
  <1>4. AckReply.type = "ack" /\ echo.type = "control"
    BY DEF AckReply, compose_control_reply
  <1>5. first \in {<<>>, <<AckReply>>, <<echo>>}
    BY DEF FirstReply
  <1>6. /\ first = <<>> => UNCHANGED replies
        /\ \A r : first = <<r>> => Replied(client', r)
    BY <1>1, <1>3, RepliedFirst
  <1>7. UNCHANGED replies \/ \E r : r.type \in {"ack", "control"} /\ Replied(client', r)
    BY <1>4, <1>5, <1>6
  <1>8. client' \in Conforming =>
            /\ RequestKind(Head(inbox).bytes) = KindOfStep(step')
            /\ step' = "inquiry" => SonyAnswerLength(message') # 0
            /\ step' = "command" => first = <<AckReply>>
            /\ step' # "command" => first \in {<<>>, <<echo>>}
    BY SonyReceiveUnderstands
  <1>9. client' \in Conforming =>
        /\ step' = "command" => \E r : r.type = "ack" /\ Replied(client', r)
        /\ step' # "command" => \/ UNCHANGED replies
                                \/ \E r : r.type = "control" /\ Replied(client', r)
    BY <1>4, <1>6, <1>8
  <1>10. LayerAnswer(message)' = SonyAnswerLength(message')
    BY DEF LayerAnswer
  <1> QED
    BY <1>1, <1>2, <1>7, <1>8, <1>9, <1>10 DEF Receives

\* A controller whose datagram is in nobody's hands has no answered request but
\* those taken, and is not acknowledged.
LEMMA IdleOrderly ==
    ASSUME SessionInv, NEW c \in Conforming, ~Busy(c)
    PROVE  /\ Done(c) = {k \in Requests(c) : k <= taken}
           /\ Answered(c) = Cardinality({k \in Requests(c) : k <= taken})
           /\ ~Acknowledged(replies[c])
  <1>1. Orderly(c)
    BY DEF SessionInv
  <1>2. Done(c) = {k \in Requests(c) : k <= taken}
    BY DEF Done
  <1>3. Answered(c) = Cardinality(Done(c))
    BY <1>1 DEF Orderly
  <1>4. ~Acknowledged(replies[c])
    BY <1>1, Zenon DEF Orderly
  <1> QED
    BY <1>2, <1>3, <1>4

\* A controller none of whose datagrams is handled, after replies that complete
\* nothing to it or to others.
LEMMA Unanswered ==
    ASSUME RepliesInv, NEW p \in Client,
           UNCHANGED replies \/ \E r : r.type \in {"ack", "control"} /\ Replied(p, r)
    PROVE  /\ RepliesInv'
           /\ \A c \in Client : Answered(c)' = Answered(c)
           /\ \A c \in Client :
                c # p => (Acknowledged(replies[c])' <=> Acknowledged(replies[c]))
  <1>1. CASE UNCHANGED replies
    <2>1. replies' = replies
      BY <1>1
    <2>2. RepliesInv'
      BY <2>1 DEF RepliesInv, IsSequence
    <2>3. \A c : Answered(c)' = Answered(c)
      BY <2>1 DEF Answered, Places
    <2>4. \A c : Acknowledged(replies[c])' <=> Acknowledged(replies[c])
      BY <2>1 DEF Acknowledged, OfType
    <2> QED
      BY <2>2, <2>3, <2>4
  <1>2. ASSUME NEW r, r.type \in {"ack", "control"}, Replied(p, r)
        PROVE  /\ RepliesInv'
               /\ \A c \in Client : Answered(c)' = Answered(c)
               /\ \A c \in Client :
                    c # p => (Acknowledged(replies[c])' <=> Acknowledged(replies[c]))
    <2>1. r.type # "completion"
      BY <1>2
    <2>2. RepliesInv' /\ \A c \in Client : Answered(c)' = Answered(c)
      BY <1>2, <2>1, RepliedReads
    <2>3. \A c \in Client :
                c # p => (Acknowledged(replies[c])' <=> Acknowledged(replies[c]))
      BY <1>2, RepliedReads, Zenon
    <2> QED
      BY <2>2, <2>3
  <1> QED
    BY <1>1, <1>2

\* Such a step keeps the invariant and answers nothing yet.
LEMMA ReceivesOrderly ==
    ASSUME BufferInv, TypeInv, SessionInv, Receives
    PROVE  /\ SessionInv'
           /\ \A c : Requests(c)' = Requests(c)
           /\ \A c \in Conforming : Owed(c)' = Owed(c) /\ ~Busy(c)
           /\ taken' = taken + 1 /\ sent' = sent
           /\ client' = sent[taken + 1].client
           /\ client' \in Client
  <1>1. /\ TakeNext /\ UNCHANGED layer /\ step = "idle" /\ inbox # <<>>
        /\ inbox' = Tail(inbox) /\ sent' = sent /\ layer' = layer
        /\ client' = Head(inbox).client /\ client' \in Client
    BY TakeType DEF Receives, TakeNext
  <1>2. /\ taken' = taken + 1 /\ taken \in Nat
        /\ taken + 1 \in 1..Len(sent) /\ Head(inbox) = sent[taken + 1]
    <2>1. taken' = Len(sent) - Len(Tail(inbox))
      BY <1>1 DEF taken
    <2> QED
      BY <1>1, <2>1, TakenReads DEF taken
  <1>3. /\ \A c : Requests(c)' = Requests(c)
        /\ \A d : RequestKind(d)' = RequestKind(d)
    <2>1. \A d : RequestKind(d)' = RequestKind(d)
      BY <1>1 DEF RequestKind
    <2> QED
      BY <1>1, <2>1 DEF Requests
  <1>4. /\ RepliesInv'
        /\ \A c \in Client : Answered(c)' = Answered(c)
        /\ \A c \in Client : c # client' =>
                (Acknowledged(replies[c])' <=> Acknowledged(replies[c]))
    BY <1>1, Unanswered DEF SessionInv, Receives
  <1>5. \A c \in Client : Owed(c)' = Owed(c)
    BY <1>1, <1>4, OwedKept
  <1>6. \A c : ~Busy(c)
    BY <1>1 DEF Busy
  <1>7. ASSUME NEW c \in Conforming PROVE Orderly(c)'
    <2>1. c \in Client
      BY ConformingAssumption
    <2>2. /\ Answered(c) = Cardinality({k \in Requests(c) : k <= taken})
          /\ ~Acknowledged(replies[c])
      BY <1>6, IdleOrderly
    <2>3. taken + 1 \in Requests(c) <=>
                client' = c /\ RequestKind(Head(inbox).bytes) # "none"
      <3>1. taken + 1 \in DOMAIN sent
        BY <1>2, RequestPlaces
      <3> QED
        BY <1>1, <1>2, <3>1 DEF Requests
    <2>4. Busy(c)' <=> client' = c /\ KindOfStep(step') # "none"
      BY DEF Busy, KindOfStep
    <2>5. client' = c => RequestKind(Head(inbox).bytes) = KindOfStep(step')
      BY DEF Receives
    <2>6. Busy(c)' <=> taken + 1 \in Requests(c)
      BY <2>3, <2>4, <2>5
    <2>7. Done(c)' = {k \in Requests(c) : k <= taken + 1 /\ (Busy(c)' => k # taken + 1)}
      BY <1>2, <1>3 DEF Done
    <2>8. \A k \in Requests(c) : k <= taken + 1 /\ k # taken + 1 <=> k <= taken
      <3>1. \A k \in Requests(c) : k \in Nat
        BY RequestPlaces
      <3> QED
        BY <1>2, <3>1
    <2>9. Done(c)' = {k \in Requests(c) : k <= taken}
      BY <2>6, <2>7, <2>8
    <2>10. Answered(c)' = Cardinality(Done(c)')
      BY <1>4, <2>1, <2>2, <2>9
    <2>11. ASSUME Busy(c)'
           PROVE  /\ taken' \in Requests(c)'
                  /\ RequestKind(sent[taken].bytes)' = KindOfStep(step')
                  /\ step' = "inquiry" => LayerAnswer(message)' # 0
      <3>1. taken' \in Requests(c)' /\ client' = c
        BY <1>2, <1>3, <2>4, <2>6, <2>11
      <3>2. RequestKind(sent[taken].bytes)' = RequestKind(Head(inbox).bytes)
        <4>1. sent'[taken'].bytes = Head(inbox).bytes
          BY <1>1, <1>2
        <4> QED
          BY <1>3, <4>1
      <3>3. step' = "inquiry" => LayerAnswer(message)' # 0
        BY <3>1 DEF Receives
      <3> QED
        BY <2>5, <3>1, <3>2, <3>3
    <2>12. Acknowledged(replies[c])' <=> Busy(c)' /\ step' # "inquiry"
      <3>1. CASE client' # c
        <4>1. ~Busy(c)'
          BY <2>4, <3>1
        <4> QED
          BY <1>4, <2>1, <2>2, <3>1, <4>1, Zenon
      <3>2. CASE client' = c /\ step' = "command"
        <4>1. PICK r : r.type = "ack" /\ Replied(c, r)
          BY <3>2 DEF Receives
        <4>2. Acknowledged(replies[c])'
          BY <2>1, <4>1, RepliedReads, Zenon DEF SessionInv
        <4>3. Busy(c)' /\ step' # "inquiry"
          BY <3>2 DEF Busy
        <4> QED
          BY <4>2, <4>3, Zenon
      <3>3. CASE client' = c /\ step' # "command"
        <4>1. UNCHANGED replies \/ \E r : r.type = "control" /\ Replied(c, r)
          BY <3>3 DEF Receives
        <4>2. ASSUME UNCHANGED replies PROVE ~Acknowledged(replies[c])'
          <5>1. replies' = replies
            BY <4>2
          <5>2. Acknowledged(replies[c])' <=> Acknowledged(replies[c])
            BY <5>1 DEF Acknowledged, OfType
          <5> QED
            BY <2>2, <5>2, Zenon
        <4>3. ASSUME NEW r, r.type = "control", Replied(c, r)
              PROVE  ~Acknowledged(replies[c])'
          <5>1. r.type # "ack"
            BY <4>3
          <5> QED
            BY <2>1, <2>2, <4>3, <5>1, RepliedReads, Zenon DEF SessionInv
        <4>4. ~(Busy(c)' /\ step' # "inquiry")
          BY <3>3 DEF Busy, Receives
        <4>5. ~Acknowledged(replies[c])'
          BY <4>1, <4>2, <4>3, Zenon
        <4> QED
          BY <4>4, <4>5, Zenon
      <3> QED
        BY <3>1, <3>2, <3>3, Zenon
    <2> QED
      BY <2>10, <2>11, <2>12, Zenon DEF Orderly
  <1> QED
    BY <1>1, <1>2, <1>3, <1>4, <1>5, <1>6, <1>7, ConformingAssumption DEF SessionInv

\* What ends the handling of a message: a completion, which only an inquiry
\* nobody knows goes without, and no conforming controller sends one.
Finishes ==
    /\ step # "idle" /\ step' = "idle"
    /\ UNCHANGED <<sent, inbox, layer, client, message, alive>>
    /\ \/ UNCHANGED replies /\ client \notin Conforming
       \/ \E r : r.type = "completion" /\ Replied(client, r)

\* A completion finishes a request ...
LEMMA CompleteFinishes ==
    ASSUME NEW op, Complete(op), UNCHANGED layer
    PROVE  Finishes /\ alive
  <1>1. CompletionReply(0).type = "completion"
    BY DEF CompletionReply
  <1>2. Replied(client, CompletionReply(0))
    BY DEF Complete, SendReply, Replied
  <1>3. /\ step # "idle" /\ step' = "idle" /\ alive
        /\ UNCHANGED <<sent, inbox, layer, client, message, alive>>
    BY DEF Complete
  <1> QED
    BY <1>1, <1>2, <1>3 DEF Finishes

\* ... and so does the answer to an inquiry.
LEMMA InquireFinishes ==
    ASSUME SessionInv, NEW op, Inquire(op, LayerAnswer(message)), UNCHANGED layer
    PROVE  Finishes /\ alive
  <1> DEFINE n == LayerAnswer(message)
  <1>1. /\ step = "inquiry" /\ step' = "idle" /\ alive
        /\ UNCHANGED <<sent, inbox, layer, client, message, alive>>
        /\ IF n = 0 THEN UNCHANGED replies ELSE SendReply(CompletionReply(n))
    BY DEF Inquire
  <1>2. CompletionReply(n).type = "completion"
    BY DEF CompletionReply
  <1>3. n # 0 => Replied(client, CompletionReply(n))
    BY <1>1 DEF SendReply, Replied
  <1>4. client \in Conforming => n # 0
    <2> SUFFICES ASSUME client \in Conforming PROVE n # 0
      OBVIOUS
    <2>1. Orderly(client) /\ Busy(client)
      BY <1>1 DEF SessionInv, Busy
    <2> QED
      BY <1>1, <2>1 DEF Orderly
  <1> QED
    BY <1>1, <1>2, <1>3, <1>4 DEF Finishes

\* A step that finishes a request keeps the invariant, and what it finishes is
\* the oldest request its controller is owed.
LEMMA FinishesOrderly ==
    ASSUME TypeInv, SessionInv, Finishes
    PROVE  /\ SessionInv'
           /\ \A c \in Conforming : c # client => Answered(c)' = Answered(c)
           /\ client \in Conforming =>
                /\ Answered(client)' = Answered(client) + 1
                /\ taken \in Requests(client)
                /\ Answered(client) = Cardinality({k \in Requests(client) : k < taken})
                /\ Answered(client) \in Nat
                /\ ~Acknowledged(replies[client])'
           /\ \A c \in Conforming : c # client =>
                (Acknowledged(replies[c])' <=> Acknowledged(replies[c]))
  <1>1. /\ step # "idle" /\ step' = "idle" /\ client \in Client
        /\ sent' = sent /\ inbox' = inbox /\ layer' = layer /\ client' = client
        /\ message' = message
    BY DEF Finishes, TypeInv
  <1>2. (\A c : Requests(c)' = Requests(c)) /\ taken' = taken
    <2>1. \A d : RequestKind(d)' = RequestKind(d)
      BY <1>1 DEF RequestKind
    <2> QED
      BY <1>1, <2>1 DEF Requests, taken
  <1>3. \A c : ~Busy(c)'
    BY <1>1 DEF Busy
  <1>4. /\ RepliesInv'
        /\ \A c \in Client : c # client => Answered(c)' = Answered(c)
        /\ client \in Conforming => Answered(client)' = Answered(client) + 1
    <2>1. CASE UNCHANGED replies /\ client \notin Conforming
      <3>1. replies' = replies
        BY <2>1
      <3>2. RepliesInv' /\ \A c : Answered(c)' = Answered(c)
        BY <3>1 DEF SessionInv, RepliesInv, IsSequence, Answered, Places
      <3> QED
        BY <2>1, <3>2
    <2>2. ASSUME NEW r, r.type = "completion", Replied(client, r)
          PROVE  /\ RepliesInv'
                 /\ \A c \in Client : c # client => Answered(c)' = Answered(c)
                 /\ Answered(client)' = Answered(client) + 1
      BY <1>1, <2>2, RepliedReads DEF SessionInv
    <2> QED
      BY <2>1, <2>2 DEF Finishes
  <1>5. /\ \A c \in Client : c # client =>
                (Acknowledged(replies[c])' <=> Acknowledged(replies[c]))
        /\ client \in Conforming => ~Acknowledged(replies[client])'
    <2>1. CASE UNCHANGED replies /\ client \notin Conforming
      <3>1. replies' = replies
        BY <2>1
      <3>2. \A c : Acknowledged(replies[c])' <=> Acknowledged(replies[c])
        BY <3>1 DEF Acknowledged, OfType
      <3> QED
        BY <2>1, <3>2, Zenon
    <2>2. ASSUME NEW r, r.type = "completion", Replied(client, r)
          PROVE  /\ \A c \in Client : c # client =>
                        (Acknowledged(replies[c])' <=> Acknowledged(replies[c]))
                 /\ ~Acknowledged(replies[client])'
      <3>1. r.type # "ack" /\ r.type # "control"
        BY <2>2
      <3> QED
        BY <1>1, <2>2, <3>1, RepliedReads, Zenon DEF SessionInv
    <2> QED
      BY <2>1, <2>2, Zenon DEF Finishes
  <1>6. ASSUME client \in Conforming
        PROVE  /\ taken \in Requests(client)
               /\ Done(client) = {k \in Requests(client) : k < taken}
               /\ Answered(client) = Cardinality(Done(client))
               /\ Answered(client) \in Nat
               /\ Cardinality({k \in Requests(client) : k <= taken}) = Answered(client) + 1
    <2>1. Orderly(client) /\ Busy(client)
      BY <1>1, <1>6 DEF SessionInv, Busy
    <2>2. taken \in Requests(client) /\ Answered(client) = Cardinality(Done(client))
      BY <2>1 DEF Orderly
    <2>3. Done(client) = {k \in Requests(client) : k <= taken /\ k # taken}
      BY <2>1 DEF Done
    <2>4. /\ Requests(client) \in SUBSET Nat /\ IsFiniteSet(Requests(client))
          /\ taken \in Nat
      BY <2>2, RequestPlaces
    <2>5. \A k \in Requests(client) : k <= taken /\ k # taken <=> k < taken
      BY <2>4
    <2>6. Done(client) = {k \in Requests(client) : k < taken}
      BY <2>3, <2>5
    <2>7. IsFiniteSet(Done(client)) /\ Cardinality(Done(client)) \in Nat
      BY <2>3, <2>4, FS_Subset, FS_CardinalityType
    <2>8. {k \in Requests(client) : k <= taken} = Done(client) \cup {taken}
          /\ taken \notin Done(client)
      BY <2>2, <2>3, <2>4
    <2>9. Cardinality(Done(client) \cup {taken}) = Cardinality(Done(client)) + 1
      BY <2>7, <2>8, FS_AddElement
    <2> QED
      BY <2>2, <2>6, <2>7, <2>8, <2>9
  <1>7. ASSUME NEW c \in Conforming PROVE Orderly(c)'
    <2>1. Done(c)' = {k \in Requests(c) : k <= taken} /\ c \in Client
      BY <1>2, <1>3, ConformingAssumption DEF Done
    <2>2. Answered(c)' = Cardinality(Done(c)')
      <3>1. CASE c = client
        <4>1. Answered(c)' = Answered(client)'
          BY <1>1, <3>1 DEF Answered, Places
        <4> QED
          BY <1>4, <1>6, <2>1, <3>1, <4>1
      <3>2. CASE c # client
        <4>1. ~Busy(c)
          BY <3>2 DEF Busy
        <4> QED
          BY <1>4, <2>1, <3>2, <4>1, IdleOrderly
      <3> QED
        BY <3>1, <3>2
    <2>3. ~Acknowledged(replies[c])'
      <3>1. CASE c = client
        <4>1. Acknowledged(replies[c])' <=> Acknowledged(replies[client])'
          BY <1>1, <3>1 DEF Acknowledged, OfType
        <4> QED
          BY <1>5, <3>1, <4>1, Zenon
      <3>2. CASE c # client
        <4>1. ~Busy(c)
          BY <3>2 DEF Busy
        <4>2. ~Acknowledged(replies[c])
          BY <4>1, IdleOrderly
        <4> QED
          BY <1>5, <2>1, <3>2, <4>2, Zenon
      <3> QED
        BY <3>1, <3>2
    <2> QED
      BY <1>3, <2>2, <2>3, Zenon DEF Orderly
  <1> QED
    BY <1>4, <1>5, <1>6, <1>7, ConformingAssumption DEF SessionInv

------------------------------------------------------------------------------
(* Each step is one of the session, or none.                                 *)

\* Steps of the abstract session: none,
LEMMA MapsToNothing ==
    ASSUME \A c \in Conforming : Owed(c)' = Owed(c), Acked' = Acked, alive' = alive
    PROVE  UNCHANGED Session!sessionVars
  BY DEF Session!sessionVars

\* a request,
LEMMA MapsToRequest ==
    ASSUME NEW p \in Conforming, NEW kind \in Kind,
           \A c \in Conforming : Owed(c)' = IF c = p THEN Append(Owed(c), kind) ELSE Owed(c),
           Acked' = Acked, alive' = alive
    PROVE  Session!SessionNext
  <1>1. Session!Request(p, kind)
    BY DEF Session!Request
  <1>2. kind \in Session!RequestKind
    BY DEF Session!RequestKind, Kind
  <1> QED
    BY <1>1, <1>2 DEF Session!SessionNext

\* an ack,
LEMMA MapsToAck ==
    ASSUME NEW p \in Conforming, alive, alive' = alive,
           Owed(p) # <<>>, Head(Owed(p)) = "command",
           p \notin Acked, Acked' = Acked \cup {p},
           \A c \in Conforming : Owed(c)' = Owed(c)
    PROVE  Session!SessionNext
  <1>1. Session!Ack(p)
    BY DEF Session!Ack
  <1> QED
    BY <1>1 DEF Session!SessionNext

\* a completion,
LEMMA MapsToCompletion ==
    ASSUME NEW p \in Conforming, alive, alive' = alive,
           Owed(p) # <<>>, Head(Owed(p)) = "command" => p \in Acked,
           Acked' = Acked \ {p},
           \A c \in Conforming : Owed(c)' = IF c = p THEN Tail(Owed(c)) ELSE Owed(c)
    PROVE  Session!SessionNext
  <1>1. Session!Completion(p)
    BY DEF Session!Completion
  <1> QED
    BY <1>1 DEF Session!SessionNext

\* and the proxy's end.
LEMMA MapsToFail ==
    ASSUME \A c \in Conforming : Owed(c)' = Owed(c), Acked' = Acked, alive' = FALSE
    PROVE  Session!SessionNext
  <1>1. Session!Fail
    BY DEF Session!Fail
  <1> QED
    BY <1>1 DEF Session!SessionNext

\* No more is answered than was asked for.
LEMMA AnsweredBound ==
    ASSUME TypeInv, SessionInv, NEW c \in Conforming
    PROVE  Answered(c) \in 0..Cardinality(Requests(c))
  <1>1. Orderly(c)
    BY DEF SessionInv
  <1>2. Answered(c) = Cardinality(Done(c)) /\ Done(c) \in SUBSET Requests(c)
    BY <1>1 DEF Orderly, Done
  <1>3. IsFiniteSet(Requests(c)) /\ Cardinality(Requests(c)) \in Nat
    BY RequestPlaces
  <1>4. IsFiniteSet(Done(c)) /\ Cardinality(Done(c)) <= Cardinality(Requests(c))
    BY <1>2, <1>3, FS_Subset
  <1>5. Cardinality(Done(c)) \in Nat
    BY <1>4, FS_CardinalityType
  <1> QED
    BY <1>2, <1>3, <1>4, <1>5

\* A datagram sent is a request of the abstract session, or nothing to it.
LEMMA SendMaps ==
    ASSUME BufferInv, TypeInv, TypeInv', SessionInv, UNCHANGED layer,
           NEW p \in Client, NEW d \in Sendable(p), Send(p, d)
    PROVE  SessionInv' /\ [Session!SessionNext]_(Session!sessionVars)
  <1>1. PICK r : r = [client |-> p, bytes |-> d]
    OBVIOUS
  <1>2. /\ r \in Messages(layer) /\ r.client = p /\ r.bytes = d
        /\ sent' = Append(sent, r) /\ inbox' = Append(inbox, r)
        /\ UNCHANGED <<layer, client, message, replies, step>> /\ alive' = alive
    BY <1>1, SendableMessages DEF BufferInv, Send
  <1>3. SessionInv'
    BY <1>2, SendOrderly
  <1>4. \A c : Answered(c)' = Answered(c)
    BY <1>2 DEF Answered, Places
  <1>5. Acked' = Acked
    BY <1>2 DEF Acked, Places
  <1>6. ASSUME NEW c \in Conforming
        PROVE  Owed(c)' = IF p = c /\ RequestKind(d) # "none"
                          THEN Append(Owed(c), RequestKind(d)) ELSE Owed(c)
    <2>1. Answered(c) \in 0..Cardinality(Requests(c)) /\ Answered(c)' = Answered(c)
      BY <1>4, AnsweredBound
    <2>2. Owed(c)' = IF r.client = c /\ RequestKind(r.bytes) # "none"
                     THEN Append(Owed(c), RequestKind(r.bytes)) ELSE Owed(c)
      BY <1>2, <2>1, OwedRequested
    <2> QED
      BY <1>2, <2>2
  <1>7. CASE p \in Conforming /\ RequestKind(d) # "none"
    <2>1. RequestKind(d) \in Kind
      BY <1>7, RequestKinds
    <2>2. \A c \in Conforming :
            Owed(c)' = IF c = p THEN Append(Owed(c), RequestKind(d)) ELSE Owed(c)
      BY <1>6, <1>7
    <2> QED
      BY <1>2, <1>3, <1>5, <1>7, <2>1, <2>2, MapsToRequest
  <1>8. CASE ~(p \in Conforming /\ RequestKind(d) # "none")
    <2>1. \A c \in Conforming : Owed(c)' = Owed(c)
      BY <1>6, <1>8
    <2> QED
      BY <1>2, <1>3, <1>5, <2>1, MapsToNothing
  <1> QED
    BY <1>7, <1>8

\* A datagram taken is an ack of it, or nothing.
LEMMA ReceivesMaps ==
    ASSUME BufferInv, TypeInv, SessionInv, Receives
    PROVE  SessionInv' /\ [Session!SessionNext]_(Session!sessionVars)
  <1>1. /\ SessionInv'
        /\ \A c : Requests(c)' = Requests(c)
        /\ \A c \in Conforming : Owed(c)' = Owed(c) /\ ~Busy(c)
        /\ taken' = taken + 1 /\ sent' = sent /\ client' \in Client
    BY ReceivesOrderly
  <1>2. alive /\ alive' = alive /\ step = "idle"
    BY DEF Receives, TakeNext
  <1>3. \A c : c \in Acked <=> c \in Conforming /\ Acknowledged(replies[c])
    BY PlacesOfType
  <1>4. \A c : c \in Acked' <=> c \in Conforming /\ Acknowledged(replies[c])'
    BY DEF Acked, Places, OfType, Acknowledged
  <1>5. \A c \in Conforming : Acknowledged(replies[c])' <=> Busy(c)' /\ step' # "inquiry"
    BY <1>1, Zenon DEF SessionInv, Orderly
  <1>6. Acked = {}
    <2>1. \A c \in Conforming : ~Acknowledged(replies[c])
      BY <1>1, IdleOrderly
    <2> QED
      BY <1>3, <2>1, Zenon
  <1>7. CASE client' \in Conforming /\ step' = "command"
    <2>1. PICK p \in Conforming : p = client'
      BY <1>7
    <2>2. \A c : Busy(c)' /\ step' # "inquiry" <=> c = p
      BY <1>7, <2>1 DEF Busy
    <2>3. \A c : c \in Acked' <=> c = p
      BY <1>4, <1>5, <2>1, <2>2, Zenon
    <2>4. Acked' = Acked \cup {p} /\ p \notin Acked
      BY <1>6, <2>3
    <2>5. /\ taken' \in Requests(p)' /\ RequestKind(sent[taken].bytes)' = "command"
      <3>1. Orderly(p)' /\ Busy(p)'
        BY <1>1, <2>1, <2>2, <1>7 DEF SessionInv, Busy
      <3> QED
        BY <1>7, <3>1 DEF Orderly, KindOfStep
    <2>6. /\ taken + 1 \in Requests(p)
          /\ RequestKind(sent[taken + 1].bytes) = "command"
      <3>1. taken' = taken + 1 /\ sent' = sent /\ layer' = layer
        BY <1>1 DEF Receives
      <3>2. RequestKind(sent[taken].bytes)' = RequestKind(sent[taken + 1].bytes)
        BY <3>1 DEF RequestKind
      <3> QED
        BY <1>1, <2>5, <3>1, <3>2
    <2>7. Answered(p) = Cardinality({j \in Requests(p) : j < taken + 1})
      <3>1. Answered(p) = Cardinality({j \in Requests(p) : j <= taken})
        BY <1>1, <2>1, IdleOrderly
      <3>2. \A j \in Requests(p) : j \in Nat /\ taken \in Nat
        BY RequestPlaces, TakenReads
      <3>3. \A j \in Requests(p) : j <= taken <=> j < taken + 1
        BY <3>2
      <3>4. {j \in Requests(p) : j <= taken} = {j \in Requests(p) : j < taken + 1}
        BY <3>3
      <3> QED
        BY <3>1, <3>4
    <2>8. Owed(p) # <<>> /\ Head(Owed(p)) = "command"
      BY <2>6, <2>7, OwedHead
    <2> QED
      BY <1>1, <1>2, <2>1, <2>4, <2>8, MapsToAck
  <1>8. CASE ~(client' \in Conforming /\ step' = "command")
    <2>1. \A c \in Conforming : ~(Busy(c)' /\ step' # "inquiry")
      BY <1>8 DEF Busy, Receives
    <2>2. Acked' = Acked
      BY <1>4, <1>5, <1>6, <2>1, Zenon
    <2> QED
      BY <1>1, <1>2, <2>2, MapsToNothing
  <1> QED
    BY <1>7, <1>8

\* A request finished is a completion of it, or nothing.
LEMMA FinishesMaps ==
    ASSUME TypeInv, TypeInv', SessionInv, Finishes, alive
    PROVE  SessionInv' /\ [Session!SessionNext]_(Session!sessionVars)
  <1>1. /\ SessionInv'
        /\ \A c \in Conforming : c # client => Answered(c)' = Answered(c)
        /\ \A c \in Conforming : c # client =>
                (Acknowledged(replies[c])' <=> Acknowledged(replies[c]))
    BY FinishesOrderly
  <1>2. /\ sent' = sent /\ layer' = layer /\ client' = client /\ step # "idle"
        /\ alive' = alive
    BY DEF Finishes
  <1>3. \A c : c \in Acked <=> c \in Conforming /\ Acknowledged(replies[c])
    BY PlacesOfType
  <1>4. \A c : c \in Acked' <=> c \in Conforming /\ Acknowledged(replies[c])'
    BY DEF Acked, Places, OfType, Acknowledged
  <1>5. \A c \in Conforming : c # client => Owed(c)' = Owed(c)
    BY <1>1, <1>2, OwedKept
  <1>6. CASE client \in Conforming
    <2>1. PICK p \in Conforming : p = client
      BY <1>6
    <2>2. /\ Answered(p)' = Answered(p) + 1 /\ taken \in Requests(p)
          /\ Answered(p) = Cardinality({k \in Requests(p) : k < taken})
          /\ Answered(p) \in Nat
      <3>1. /\ Answered(client)' = Answered(client) + 1 /\ taken \in Requests(client)
            /\ Answered(client) = Cardinality({k \in Requests(client) : k < taken})
            /\ Answered(client) \in Nat
        BY <1>6, FinishesOrderly
      <3>2. Answered(p)' = Answered(client)'
        BY <1>2, <2>1 DEF Answered, Places
      <3> QED
        BY <2>1, <3>1, <3>2
    <2>3. ~Acknowledged(replies[p])'
      <3>1. ~Acknowledged(replies[client])'
        BY <1>6, FinishesOrderly
      <3>2. Acknowledged(replies[p])' <=> Acknowledged(replies[client])'
        BY <1>2, <2>1 DEF Acknowledged, OfType
      <3> QED
        BY <3>1, <3>2, Zenon
    <2>4. /\ Owed(p) # <<>> /\ Head(Owed(p)) = RequestKind(sent[taken].bytes)
          /\ Answered(p) + 1 \in 1..Cardinality(Requests(p))
      BY <2>2, OwedHead
    <2>5. Owed(p)' = Tail(Owed(p))
      BY <1>2, <2>2, <2>4, OwedAnswered
    <2>6. Orderly(p) /\ Busy(p)
      BY <1>2, <2>1 DEF SessionInv, Busy
    <2>7. Head(Owed(p)) = "command" => p \in Acked
      <3>1. Head(Owed(p)) = KindOfStep(step)
        BY <2>4, <2>6 DEF Orderly
      <3>2. Head(Owed(p)) = "command" => step # "inquiry"
        BY <3>1 DEF KindOfStep
      <3>3. step # "inquiry" => Acknowledged(replies[p])
        BY <2>6, Zenon DEF Orderly
      <3> QED
        BY <1>3, <3>2, <3>3, Zenon
    <2>8. Acked' = Acked \ {p}
      <3>1. \A c : c \in Acked' <=> c \in Acked /\ c # p
        BY <1>1, <1>3, <1>4, <2>1, <2>3, Zenon
      <3> QED
        BY <3>1
    <2>9. \A c \in Conforming : Owed(c)' = IF c = p THEN Tail(Owed(c)) ELSE Owed(c)
      BY <1>5, <2>1, <2>5
    <2> QED
      BY <1>1, <1>2, <2>4, <2>7, <2>8, <2>9, MapsToCompletion
  <1>7. CASE client \notin Conforming
    <2>1. \A c \in Conforming : Owed(c)' = Owed(c)
      BY <1>5, <1>7
    <2>2. Acked' = Acked
      <3>1. \A c : c \in Acked' <=> c \in Acked
        BY <1>1, <1>3, <1>4, <1>7, Zenon
      <3> QED
        BY <3>1
    <2> QED
      BY <1>1, <1>2, <2>1, <2>2, MapsToNothing
  <1> QED
    BY <1>6, <1>7

\* The steps after a datagram was taken.
LEMMA LaterMaps ==
    ASSUME TypeInv, TypeInv', SessionInv, UNCHANGED layer, NEW op,
           \/ Dispatch(op) \/ Complete(op)
           \/ Inquire(op, LayerAnswer(message)) \/ SoapDies(op)
    PROVE  SessionInv' /\ [Session!SessionNext]_(Session!sessionVars)
  <1>1. CASE Dispatch(op)
    <2>1. /\ UNCHANGED <<sent, inbox, layer, client, message, replies>>
          /\ KindOfStep(step') = KindOfStep(step) /\ alive' = alive
      BY <1>1 DEF Dispatch, KindOfStep
    <2> QED
      BY <2>1, SessionLeftAlone, MapsToNothing
  <1>2. CASE SoapDies(op)
    <2>1. /\ UNCHANGED <<sent, inbox, layer, client, message, replies>>
          /\ step' = step /\ alive' = FALSE
      BY <1>2 DEF SoapDies
    <2>2. KindOfStep(step') = KindOfStep(step)
      BY <2>1
    <2> QED
      BY <2>1, <2>2, SessionLeftAlone, MapsToFail
  <1>3. CASE Complete(op)
    BY <1>3, CompleteFinishes, FinishesMaps
  <1>4. CASE Inquire(op, LayerAnswer(message))
    BY <1>4, InquireFinishes, FinishesMaps
  <1> QED
    BY <1>1, <1>2, <1>3, <1>4

\* Every step.
LEMMA NextMaps ==
    BufferInv /\ TypeInv /\ TypeInv' /\ SessionInv /\ [Next]_sessionState
        => SessionInv' /\ [Session!SessionNext]_(Session!sessionVars)
  <1> SUFFICES ASSUME BufferInv, TypeInv, TypeInv', SessionInv, [Next]_sessionState
               PROVE  SessionInv' /\ [Session!SessionNext]_(Session!sessionVars)
    OBVIOUS
  <1>1. CASE UNCHANGED sessionState
    <2>1. UNCHANGED <<sent, inbox, layer, client, message, replies, step, alive>>
      BY <1>1 DEF sessionState, vars
    <2>2. KindOfStep(step') = KindOfStep(step) /\ alive' = alive
      BY <2>1
    <2> QED
      BY <2>1, <2>2, SessionLeftAlone, MapsToNothing
  <1>2. CASE Next
    <2>1. UNCHANGED layer
      BY <1>2 DEF Next
    <2>2. ASSUME NEW c \in Client, NEW d \in Sendable(c), Send(c, d)
          PROVE  SessionInv' /\ [Session!SessionNext]_(Session!sessionVars)
      BY <2>1, <2>2, SendMaps
    <2>3. CASE layer = "visca" /\ Handle
      <3>1. LayerAnswer(message) = AnswerLength(message)
        BY <2>3 DEF LayerAnswer
      <3>2. ASSUME Receive PROVE Receives
        BY <2>1, <2>3, <3>2, ReceiveReceives
      <3>3. \/ Receive
            \/ \E op : \/ Dispatch(op) \/ Complete(op)
                       \/ Inquire(op, LayerAnswer(message)) \/ SoapDies(op)
        BY <2>3, <3>1 DEF Handle
      <3> QED
        BY <2>1, <3>2, <3>3, ReceivesMaps, LaterMaps
    <2>4. CASE layer = "sony" /\ SonyHandle
      <3>1. LayerAnswer(message) = SonyAnswerLength(message)
        BY <2>4 DEF LayerAnswer
      <3>2. ASSUME SonyReceive PROVE Receives
        BY <2>1, <2>4, <3>2, SonyReceiveReceives DEF SessionInv
      <3>3. \/ SonyReceive
            \/ \E op : \/ Dispatch(op) \/ Complete(op)
                       \/ Inquire(op, LayerAnswer(message)) \/ SoapDies(op)
        BY <2>4, <3>1 DEF SonyHandle
      <3> QED
        BY <2>1, <3>2, <3>3, ReceivesMaps, LaterMaps
    <2> QED
      BY <1>2, <2>2, <2>3, <2>4 DEF Next, handle_udp_message
  <1> QED
    BY <1>1, <1>2

\* Initially nothing is owed.
LEMMA InitMaps == LayeredInit => Session!SessionInit
  <1> SUFFICES ASSUME LayeredInit PROVE Session!SessionInit
    OBVIOUS
  <1>1. /\ sent = <<>> /\ replies = [c \in Client |-> <<>>] /\ alive = TRUE
    BY DEF LayeredInit, Init
  <1>2. ASSUME NEW c \in Conforming
        PROVE  Owed(c) = <<>> /\ c \notin Acked
    <2>1. Requests(c) = {}
      BY <1>1 DEF Requests
    <2>2. DOMAIN replies[c] = {}
      BY <1>1, ConformingAssumption
    <2>3. Places(c, "completion") = {} /\ c \notin Acked
      BY <2>2 DEF Places, Acked
    <2>4. Cardinality(Requests(c)) = 0 /\ Answered(c) = 0
      BY <2>1, <2>3, FS_EmptySet DEF Answered
    <2> QED
      BY <2>3, <2>4 DEF Owed
  <1>3. Acked = {}
    BY <1>2 DEF Acked
  <1> QED
    BY <1>1, <1>2, <1>3 DEF Session!SessionInit

\* Whatever a controller that sends complete requests is sent, it is sent in the
\* order the comment in sony_visca.c draws: an ack for the oldest command that
\* awaits one, then its completion, one completion for an inquiry, and nothing
\* it did not ask for; on either layer, whatever the other controllers send.
\* (That the answers come, ImplementsSession, is left to the run.)
THEOREM SessionKept == Spec => Session!SessionInit /\ [][Session!SessionNext]_(Session!sessionVars)
  <1>1. LayeredInit => TypeInv /\ SessionInv /\ Session!SessionInit
    BY InitType, InitSession, InitMaps
  <1>2. BufferInv /\ TypeInv /\ [Next]_<<vars, layer>> => TypeInv'
    BY NextType DEF sessionState
  <1>3. BufferInv /\ TypeInv /\ TypeInv' /\ SessionInv /\ [Next]_<<vars, layer>>
            => SessionInv' /\ [Session!SessionNext]_(Session!sessionVars)
    BY NextMaps DEF sessionState
  <1> QED
    BY <1>1, <1>2, <1>3, SpecBuffer, PTL DEF Spec

------------------------------------------------------------------------------
(* Control replies.                                                          *)

\* Four bytes of a datagram, as they are compared.
LEMMA FourBytes ==
    ASSUME NEW d \in Seq(0..255), NEW k \in Nat, k + 4 <= Len(d)
    PROVE  SubSeq(d, k + 1, k + 4) = [i \in 1..4 |-> d[k + i]]
  <1>1. Len(d) \in Nat
    OBVIOUS
  <1>2. \A i \in (k + 1)..(k + 4) : d[i] \in 0..255
    <2>1. \A i \in (k + 1)..(k + 4) : i \in 1..Len(d)
      BY <1>1
    <2> QED
      BY <2>1, ElementOfSeq
  <1>3. /\ SubSeq(d, k + 1, k + 4) \in Seq(0..255)
        /\ Len(SubSeq(d, k + 1, k + 4)) = 4
        /\ \A i \in 1..4 : SubSeq(d, k + 1, k + 4)[i] = d[k + i]
    <2>1. PICK m \in Int, n \in Int : m = k + 1 /\ n = k + 4
      OBVIOUS
    <2>2. /\ SubSeq(d, m, n) \in Seq(0..255)
          /\ Len(SubSeq(d, m, n)) = n - m + 1
          /\ \A i \in 1..(n - m + 1) : SubSeq(d, m, n)[i] = d[m + i - 1]
      <3>1. m <= n
        BY <2>1
      <3>2. \A i \in m..n : d[i] \in 0..255
        BY <1>2, <2>1
      <3> QED
        BY <3>1, <3>2, SubSeqProperties, SMTT(30)
    <2>3. n - m + 1 = 4 /\ \A i \in 1..4 : m + i - 1 = k + i
      BY <2>1
    <2> QED
      BY <2>1, <2>2, <2>3
  <1>4. SubSeq(d, k + 1, k + 4) = [i \in 1..4 |-> SubSeq(d, k + 1, k + 4)[i]]
    BY <1>3, LenProperties
  <1> QED
    BY <1>3, <1>4

\* The first four bytes of a datagram.
LEMMA FirstBytes ==
    ASSUME NEW d \in Seq(0..255), 4 <= Len(d), NEW w, NEW x, NEW y, NEW z
    PROVE  SubSeq(d, 1, 4) = <<w, x, y, z>> <=>
                d[1] = w /\ d[2] = x /\ d[3] = y /\ d[4] = z
  <1>1. SubSeq(d, 1, 4) = [i \in 1..4 |-> d[i]]
    <2>1. SubSeq(d, 0 + 1, 0 + 4) = [i \in 1..4 |-> d[0 + i]]
      BY FourBytes
    <2>2. \A i \in 1..4 : 0 + i = i
      OBVIOUS
    <2> QED
      BY <2>1, <2>2
  <1>2. <<w, x, y, z>> = [i \in 1..4 |-> <<w, x, y, z>>[i]]
    OBVIOUS
  <1>3. ASSUME d[1] = w, d[2] = x, d[3] = y, d[4] = z
        PROVE  SubSeq(d, 1, 4) = <<w, x, y, z>>
    <2>1. \A i \in 1..4 : d[i] = <<w, x, y, z>>[i]
      BY <1>3
    <2> QED
      BY <1>1, <1>2, <2>1
  <1>4. ASSUME SubSeq(d, 1, 4) = <<w, x, y, z>>
        PROVE  d[1] = w /\ d[2] = x /\ d[3] = y /\ d[4] = z
    <2>1. \A i \in 1..4 : d[i] = <<w, x, y, z>>[i]
      BY <1>1, <1>2, <1>4
    <2>2. d[1] = <<w, x, y, z>>[1] /\ d[2] = <<w, x, y, z>>[2]
          /\ d[3] = <<w, x, y, z>>[3] /\ d[4] = <<w, x, y, z>>[4]
      BY <2>1
    <2> QED
      BY <2>2
  <1> QED
    BY <1>3, <1>4

\* What is sent for the sequence number: the bytes that were received.
LEMMA EchoBytes ==
    ASSUME NEW d, IsDatagram(d), Len(d) >= VOIP_HEADER_LENGTH, NEW rest
    PROVE  compose_control_reply(visca_header_convert_endianness(Received(d, rest))).seq
                = SubSeq(d, 5, 8)
  <1> DEFINE m == visca_header_convert_endianness(Received(d, rest))
             b == visca_header_convert_endianness(m)
  <1>1. d \in Seq(0..255) /\ Len(d) \in Nat /\ Len(d) >= 8
    BY DEF IsDatagram, MessageLength, VOIP_HEADER_LENGTH
  <1>2. SubSeq(d, 5, 8) = [i \in 1..4 |-> d[4 + i]]
    <2>1. SubSeq(d, 4 + 1, 4 + 4) = [i \in 1..4 |-> d[4 + i]]
      BY <1>1, FourBytes
    <2> QED
      BY <2>1
  <1>3. \A i \in 1..8 : Received(d, rest)[i] = d[i] /\ i \in DOMAIN Received(d, rest)
    <2>1. \A i \in 1..8 : i <= Len(d) /\ i \in 1..MessageLength
      BY <1>1 DEF MessageLength
    <2>2. \A i \in 1..8 : Received(d, rest)[i] = d[i]
      BY <2>1, ReceivedReads
    <2> QED
      BY <2>1, <2>2 DEF Received
  <1>4. \A i \in 1..8 : <<2, 1, 4, 3, 8, 7, 6, 5>>[i] \in 1..8
    OBVIOUS
  <1>5. \A i \in 1..8 : i \in DOMAIN m /\ m[i] = d[<<2, 1, 4, 3, 8, 7, 6, 5>>[i]]
    BY <1>3, <1>4 DEF visca_header_convert_endianness, VOIP_HEADER_LENGTH
  <1>6. \A i \in 1..8 : b[i] = m[<<2, 1, 4, 3, 8, 7, 6, 5>>[i]]
    BY <1>5 DEF visca_header_convert_endianness, VOIP_HEADER_LENGTH
  <1>7. /\ b[5] = d[5] /\ b[6] = d[6] /\ b[7] = d[7] /\ b[8] = d[8]
    <2>1. /\ b[5] = m[8] /\ b[6] = m[7] /\ b[7] = m[6] /\ b[8] = m[5]
      BY <1>6
    <2>2. /\ m[8] = d[5] /\ m[7] = d[6] /\ m[6] = d[7] /\ m[5] = d[8]
      BY <1>5
    <2> QED
      BY <2>1, <2>2
  <1> HIDE DEF b
  <1>8. seq_number(b) = [i \in 1..4 |-> d[4 + i]]
    <2>1. \A i \in 1..4 : (3 + i) + 1 = 4 + i
      OBVIOUS
    <2>2. \A i \in 1..4 : b[4 + i] = d[4 + i]
      BY <1>7
    <2>3. \A i \in 1..4 : data(b, 3 + i) = d[4 + i]
      BY <2>1, <2>2 DEF data
    <2> QED
      BY <2>3 DEF seq_number
  <1>9. compose_control_reply(m).seq = seq_number(b)
    BY DEF compose_control_reply, b
  <1> QED
    BY <1>2, <1>8, <1>9

\* A length that fits a byte.
LEMMA LengthBytes == \A a, b, n \in Nat : n <= 16 /\ b + 256 * a = n => a = 0 /\ b = n
  OBVIOUS

\* A control reply is sent for a control message, and for a RESET always.
LEMMA ControlRead ==
    ASSUME TypeInv, NEW d, IsDatagram(d), NEW rest \in Rest, NEW m,
           m = visca_header_convert_endianness(Received(d, rest))
    PROVE  /\ IsPayload(m, Len(d)) /\ payload_type(m) = \h0200 => IsControl(d)
           /\ IsReset(d) => /\ IsPayload(m, Len(d)) /\ payload_type(m) = \h0200
                            /\ ControlAnswered(m, Len(d))
           /\ IsControl(d) => Len(d) >= 8
  <1> DEFINE h == visca_header_convert_endianness(d)
  <1>1. d \in Seq(0..255) /\ Len(d) \in 1..24 /\ VOIP_HEADER_LENGTH = 8
    BY DEF IsDatagram, MessageLength, VOIP_HEADER_LENGTH
  <1>2. Len(d) \in Nat /\ Len(d) <= 24
    BY <1>1, InRange, 24 \in Int, Zenon
  <1>3. ASSUME IsPayload(m, Len(d)), payload_type(m) = \h0200 PROVE IsControl(d)
    <2>1. /\ Len(d) >= 8 /\ payload_type(m) = d[2] + 256 * d[1]
          /\ header_payload_length(m) = d[4] + 256 * d[3]
          /\ \A i \in 1..8 : d[i] \in 0..255
      BY <1>1, <1>3, PayloadRead
    <2>2. PICK n1 \in Nat, n2 \in Nat, n3 \in Nat, n4 \in Nat :
                n1 = d[1] /\ n2 = d[2] /\ n3 = d[3] /\ n4 = d[4] /\ n2 <= 255
      <3>1. d[1] \in 0..255 /\ d[2] \in 0..255 /\ d[3] \in 0..255 /\ d[4] \in 0..255
        BY <2>1
      <3>2. /\ d[1] \in Nat /\ d[2] \in Nat /\ d[3] \in Nat /\ d[4] \in Nat
            /\ d[2] <= 255
        BY <3>1, BytesAreNumbers, Zenon
      <3> QED
        BY <3>2
    <2>3. n1 = 2 /\ n2 = 0
      <3>1. n2 + 256 * n1 = \h0200
        BY <1>3, <2>1, <2>2
      <3> QED
        BY <2>2, <3>1, TypeBytes
    <2>4. PICK n \in Nat : n = Len(d) - 8 /\ n <= 16
      BY <1>2, <2>1
    <2>5. n3 = 0 /\ n4 = n
      <3>1. n4 + 256 * n3 = n
        BY <1>1, <1>3, <2>1, <2>2, <2>4 DEF IsPayload, payload_length
      <3> QED
        BY <2>4, <3>1, LengthBytes
    <2>6. SubSeq(d, 1, 4) = <<2, 0, 0, Len(d) - 8>>
      <3>1. d[1] = 2 /\ d[2] = 0 /\ d[3] = 0 /\ d[4] = Len(d) - 8
        BY <2>2, <2>3, <2>4, <2>5
      <3>2. 4 <= Len(d)
        BY <1>2, <2>1
      <3>3. \A w, x, y, z : SubSeq(d, 1, 4) = <<w, x, y, z>> <=>
                d[1] = w /\ d[2] = x /\ d[3] = y /\ d[4] = z
        BY <1>1, <3>2, FirstBytes
      <3> QED
        BY <3>1, <3>3
    <2> QED
      BY <1>1, <2>1, <2>6 DEF IsControl
  <1>4. ASSUME IsReset(d)
        PROVE  /\ IsPayload(m, Len(d)) /\ payload_type(m) = \h0200
               /\ ControlAnswered(m, Len(d))
    <2>1. Len(d) > 8 /\ SubSeq(d, 1, 4) = <<2, 0, 0, Len(d) - 8>> /\ d[9] = 1
      BY <1>1, <1>4 DEF IsReset
    <2>2. d[1] = 2 /\ d[2] = 0 /\ d[3] = 0 /\ d[4] = Len(d) - 8
      <3>1. 4 <= Len(d)
        BY <1>2, <2>1
      <3>2. \A w, x, y, z : SubSeq(d, 1, 4) = <<w, x, y, z>> <=>
                d[1] = w /\ d[2] = x /\ d[3] = y /\ d[4] = z
        BY <1>1, <3>1, FirstBytes
      <3> QED
        BY <2>1, <3>2
    <2>3. payload_type(h) = \h0200 /\ header_payload_length(h) = Len(d) - 8
      <3>1. /\ payload_type(h) = d[2] + 256 * d[1]
            /\ header_payload_length(h) = d[4] + 256 * d[3]
        BY <1>1, <1>2, <2>1, HeaderReads
      <3> QED
        BY <1>2, <2>2, <3>1
    <2>4. \A i \in 0..8 : data(m, i) = data(h, i)
      BY <1>1, <1>2, <2>1, ConvertedReads
    <2>5. /\ data(m, 0) = data(h, 0) /\ data(m, 1) = data(h, 1)
          /\ data(m, 2) = data(h, 2) /\ data(m, 3) = data(h, 3)
          /\ data(m, 8) = data(h, 8)
      BY <2>4
    <2>6. IsPayload(m, Len(d)) /\ payload_type(m) = \h0200
      BY <1>1, <2>3, <2>5
      DEF IsPayload, header_payload_length, payload_type, payload_length
    <2>7. payload(m, 0) = 1
      <3>1. 9 \in 1..Len(d)
        BY <1>2, <2>1
      <3>2. 9 \in DOMAIN d
        BY <1>1, <3>1, LenProperties
      <3>3. h[9] = d[9]
        BY <3>2 DEF visca_header_convert_endianness, VOIP_HEADER_LENGTH
      <3> QED
        BY <1>1, <2>1, <2>5, <3>3 DEF payload, data
    <2> QED
      BY <2>6, <2>7 DEF ControlAnswered
  <1> QED
    BY <1>1, <1>3, <1>4 DEF IsControl

\* The replies of a type a step adds, by the step.
LEMMA NewPlaces ==
    ASSUME RepliesInv, NEW type
    PROVE  /\ UNCHANGED replies => \A c : Places(c, type)' = Places(c, type)
           /\ \A p \in Client : \A r : Replied(p, r) => \A c \in Client :
                /\ Places(c, type)' \ Places(c, type) =
                        IF c = p /\ r.type = type THEN {Len(replies[p]) + 1} ELSE {}
                /\ replies'[p][Len(replies[p]) + 1] = r
  <1>1. ASSUME UNCHANGED replies PROVE \A c : Places(c, type)' = Places(c, type)
    BY <1>1 DEF Places
  <1>2. ASSUME NEW p \in Client, NEW r, Replied(p, r), NEW c \in Client
        PROVE  /\ Places(c, type)' \ Places(c, type) =
                        IF c = p /\ r.type = type THEN {Len(replies[p]) + 1} ELSE {}
               /\ replies'[p][Len(replies[p]) + 1] = r
    <2>1. IsSequence(replies[p])
      BY DEF RepliesInv
    <2>2. /\ replies'[p] = Append(replies[p], r)
          /\ c # p => replies'[c] = replies[c]
      BY <1>2 DEF Replied, RepliesInv
    <2>3. /\ Places(c, type) = OfType(replies[c], type)
          /\ Places(c, type)' = OfType(replies'[c], type)
      BY DEF Places, OfType
    <2>4. /\ OfType(Append(replies[p], r), type) =
                IF r.type = type THEN OfType(replies[p], type) \cup {Len(replies[p]) + 1}
                                 ELSE OfType(replies[p], type)
          /\ Len(replies[p]) + 1 \notin OfType(replies[p], type)
      BY <2>1, OfTypeAppended
    <2>5. Append(replies[p], r)[Len(replies[p]) + 1] = r
      BY <2>1, AppendReads
    <2> QED
      BY <2>2, <2>3, <2>4, <2>5
  <1> QED
    BY <1>1, <1>2

\* A step that takes nothing, or says nothing that is a control reply.
LEMMA EchoesNothing ==
    ASSUME RepliesInv, client \in Client,
           inbox' = inbox \/ sent' # sent,
           \/ UNCHANGED replies
           \/ \E r : r.type # "control" /\ Replied(client, r)
    PROVE  EchoStep
  <1>1. \A c \in Client : Places(c, "control")' \ Places(c, "control") = {}
    <2>1. CASE UNCHANGED replies
      BY <2>1, NewPlaces
    <2>2. ASSUME NEW r, r.type # "control", Replied(client, r)
          PROVE  \A c \in Client : Places(c, "control")' \ Places(c, "control") = {}
      BY <2>2, NewPlaces
    <2> QED
      BY <2>1, <2>2
  <1> QED
    BY <1>1 DEF EchoStep

\* visca.c sends no control replies ...
LEMMA ReceiveEchoes ==
    ASSUME BufferInv, TypeInv, RepliesInv, Receive, layer = "visca", UNCHANGED layer
    PROVE  EchoStep
  <1>1. client' \in Client
    BY TakeType DEF Receive
  <1>2. UNCHANGED replies \/ Replied(client', AckReply)
    BY DEF Receive, Replied
  <1>3. AckReply.type # "control"
    BY DEF AckReply
  <1>4. \A c \in Client : Places(c, "control")' \ Places(c, "control") = {}
    <2>1. CASE UNCHANGED replies
      BY <2>1, NewPlaces
    <2>2. CASE Replied(client', AckReply)
      BY <1>1, <1>3, <2>2, NewPlaces
    <2> QED
      BY <1>2, <2>1, <2>2
  <1> QED
    BY <1>4 DEF EchoStep

\* ... and sony_visca.c one for a control message at most, with its number.
LEMMA SonyReceiveEchoes ==
    ASSUME BufferInv, TypeInv, RepliesInv, SonyReceive, layer = "sony", UNCHANGED layer
    PROVE  EchoStep
  <1> DEFINE d == Head(inbox).bytes
             m == message'
             first == FirstReply(m, Len(d))
             echo == compose_control_reply(m)
             n == Len(replies[client']) + 1
             new(c) == Places(c, "control")' \ Places(c, "control")
  <1>1. /\ TakeNext /\ length' = Len(d) /\ client' = Head(inbox).client
        /\ client' \in Client /\ IsDatagram(d)
    BY TakeType, TakeKeeps DEF SonyReceive
  <1>2. PICK rest \in Rest : m = visca_header_convert_endianness(Received(d, rest))
    BY DEF SonyReceive
  <1>3. replies' = [replies EXCEPT ![client'] = @ \o first]
    BY <1>1 DEF SonyReceive
  <1>4. /\ first = <<>> => UNCHANGED replies
        /\ \A r : first = <<r>> => Replied(client', r)
    BY <1>1, <1>3, RepliedFirst
  <1>5. AckReply.type # "control" /\ echo.type = "control"
    BY DEF AckReply, compose_control_reply
  <1>6. /\ IsPayload(m, Len(d)) /\ payload_type(m) = \h0200 => IsControl(d)
        /\ IsReset(d) => /\ IsPayload(m, Len(d)) /\ payload_type(m) = \h0200
                         /\ ControlAnswered(m, Len(d))
        /\ IsControl(d) => Len(d) >= 8
    BY <1>1, <1>2, ControlRead
  <1>7. inbox' # inbox /\ sent' = sent
    <2>1. inbox' = Tail(inbox) /\ inbox # <<>> /\ sent' = sent
      BY <1>1 DEF TakeNext
    <2>2. Len(Tail(inbox)) = Len(inbox) - 1 /\ Len(inbox) \in Nat
      BY <2>1, TakenReads
    <2>3. Len(inbox) - 1 # Len(inbox)
      BY <2>2
    <2>4. Tail(inbox) # inbox
      BY <2>2, <2>3, Zenon
    <2> QED
      BY <2>1, <2>4
  <1>8. CASE IsPayload(m, Len(d)) /\ payload_type(m) = \h0200 /\ ControlAnswered(m, Len(d))
    <2>1. first = <<echo>>
      BY <1>8 DEF FirstReply
    <2>2. Replied(client', echo)
      BY <1>4, <2>1
    <2>3. \A c \in Client : new(c) = IF c = client' THEN {n} ELSE {}
      BY <1>1, <1>5, <2>2, NewPlaces
    <2>4. replies'[client'][n] = echo
      BY <1>1, <2>2, NewPlaces
    <2>5. IsControl(d) /\ echo.seq = SubSeq(d, 5, 8)
      BY <1>1, <1>2, <1>6, <1>8, EchoBytes DEF VOIP_HEADER_LENGTH
    <2>6. ASSUME NEW c \in Client
          PROVE  /\ client' = c /\ IsReset(d) => new(c) # {}
                 /\ \A k \in new(c) :
                        /\ client' = c /\ IsControl(d)
                        /\ new(c) = {k} /\ replies'[c][k].seq = SubSeq(d, 5, 8)
      BY <2>3, <2>4, <2>5
    <2> QED
      BY <1>1, <1>7, <2>6 DEF EchoStep
  <1>9. CASE ~(IsPayload(m, Len(d)) /\ payload_type(m) = \h0200 /\ ControlAnswered(m, Len(d)))
    <2>1. first = <<>> \/ first = <<AckReply>>
      BY <1>9 DEF FirstReply
    <2>2. UNCHANGED replies \/ Replied(client', AckReply)
      BY <1>4, <2>1
    <2>3. \A c \in Client : new(c) = {}
      <3>1. CASE UNCHANGED replies
        BY <3>1, NewPlaces
      <3>2. CASE Replied(client', AckReply)
        BY <1>1, <1>5, <3>2, NewPlaces
      <3> QED
        BY <2>2, <3>1, <3>2
    <2>4. ~IsReset(d)
      BY <1>6, <1>9
    <2> QED
      BY <2>3, <2>4 DEF EchoStep
  <1> QED
    BY <1>8, <1>9

\* Every step.
LEMMA NextEchoes ==
    BufferInv /\ TypeInv /\ SessionInv /\ [Next]_sessionState => EchoStep
  <1> SUFFICES ASSUME BufferInv, TypeInv, SessionInv, [Next]_sessionState
               PROVE  EchoStep
    OBVIOUS
  <1>1. RepliesInv /\ client \in Client
    BY DEF SessionInv, TypeInv
  <1>2. CASE UNCHANGED sessionState
    <2>1. UNCHANGED <<replies, inbox>>
      BY <1>2 DEF sessionState, vars
    <2> QED
      BY <1>1, <2>1, EchoesNothing
  <1>3. ASSUME NEW c \in Client, NEW d \in Sendable(c), Send(c, d)
        PROVE  EchoStep
    <2>1. sent' = Append(sent, [client |-> c, bytes |-> d]) /\ UNCHANGED replies
      BY <1>3 DEF Send
    <2>2. sent' # sent
      <3>1. IsSequence(sent)
        BY DEF TypeInv, IsSequence
      <3>2. Len(sent') = Len(sent) + 1 /\ Len(sent) \in Nat
        BY <2>1, <3>1, AppendedSequence
      <3> QED
        BY <3>2
    <2> QED
      BY <1>1, <2>1, <2>2, EchoesNothing
  <1>4. ASSUME NEW op, NEW n, Dispatch(op) \/ Complete(op) \/ Inquire(op, n) \/ SoapDies(op)
        PROVE  EchoStep
    <2>1. inbox' = inbox
      BY <1>4 DEF Dispatch, Complete, Inquire, SoapDies
    <2>2. CompletionReply(0).type # "control" /\ CompletionReply(n).type # "control"
      BY DEF CompletionReply
    <2>3. \/ UNCHANGED replies \/ Replied(client, CompletionReply(0))
          \/ Replied(client, CompletionReply(n))
      BY <1>4 DEF Dispatch, Complete, Inquire, SoapDies, SendReply, Replied
    <2> QED
      BY <1>1, <2>1, <2>2, <2>3, EchoesNothing
  <1>5. ASSUME handle_udp_message, UNCHANGED layer PROVE EchoStep
    <2>1. CASE layer = "visca" /\ Handle
      BY <1>1, <1>4, <1>5, <2>1, ReceiveEchoes DEF Handle
    <2>2. CASE layer = "sony" /\ SonyHandle
      BY <1>1, <1>4, <1>5, <2>2, SonyReceiveEchoes DEF SonyHandle
    <2> QED
      BY <1>5, <2>1, <2>2 DEF handle_udp_message
  <1> QED
    BY <1>2, <1>3, <1>5 DEF Next

\* A control message is answered once, to its sender, with the sequence number
\* it came with, a RESET always, and nothing else is, whoever else is talking:
\* handle_control_command.
THEOREM Echoes == Spec => ControlEchoes
  <1>1. LayeredInit => TypeInv /\ SessionInv
    BY InitType, InitSession
  <1>2. BufferInv /\ TypeInv /\ [Next]_<<vars, layer>> => TypeInv'
    BY NextType DEF sessionState
  <1>3. BufferInv /\ TypeInv /\ TypeInv' /\ SessionInv /\ [Next]_<<vars, layer>>
            => SessionInv'
    BY NextMaps DEF sessionState
  <1>4. BufferInv /\ TypeInv /\ SessionInv /\ [Next]_<<vars, layer>> => EchoStep
    BY NextEchoes DEF sessionState
  <1> QED
    BY <1>1, <1>2, <1>3, <1>4, SpecBuffer, PTL DEF Spec, ControlEchoes

============================================================================
