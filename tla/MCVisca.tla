------------------------------ MODULE MCVisca ------------------------------
(***************************************************************************)
(* Small instances of the conversation: two controllers, of which one may  *)
(* send anything, and a handful of datagrams for each layer.               *)
(***************************************************************************)
EXTENDS ViscaProperties

CONSTANTS c1, c2

Controllers == {c1, c2}

Patient == {c1}

ZoomTele(p) == <<\h81, 1, 4, 7, \h20 + p, \hFF>>
ZoomStop == <<\h81, 1, 4, 7, 0, \hFF>>
AutoFocus == <<\h81, 1, 4, \h38, 2, \hFF>>
UpLeft == <<\h81, 1, 6, 1, 12, 24, 1, 1, \hFF>>
StopMoving == <<\h81, 1, 6, 1, 12, 24, 3, 3, \hFF>>
Home == <<\h81, 1, 6, 4, \hFF>>
Absolute(preset) == <<\h81, 1, 6, 2, 12, 24, 0, 0, 0, 0, 0, 0, 0, preset, \hFF>>
PositionInquiry == <<\h81, 9, 6, \h12, \hFF>>
ZoomInquiry == <<\h81, 9, 4, \h47, \hFF>>
FocusModeInquiry == <<\h81, 9, 4, \h38, \hFF>>
ForAnotherDevice == <<\h82, 1, 6, 4, \hFF>>
Reply == <<\h81, \h40, \hFF>>

\* A command with its last bytes missing.
Short(d) == SubSeq(d, 1, Len(d) - 2)

\* A payload behind its header; the sequence number has four different bytes.
Message(type, n, load) == type \o <<0, n, 1, 2, 3, Len(load)>> \o load
Sony(type, load) == Message(type, Len(load), load)

Command == <<1, 0>>
Inquiry == <<1, \h10>>
CommandReply == <<1, \h11>>
Control == <<2, 0>>

\* Every operation the camera has, a stub, inquiries of each length of answer,
\* and messages nobody answers.
Everyday == [visca |-> {ZoomTele(5), ZoomStop, AutoFocus, UpLeft, StopMoving,
                Home, Absolute(2), PositionInquiry, ZoomInquiry,
                FocusModeInquiry, ForAnotherDevice, Reply},
             sony |-> {Sony(Command, d) : d \in {ZoomTele(5), UpLeft, StopMoving, Home}}
                \cup {Sony(Inquiry, d) : d \in {PositionInquiry, FocusModeInquiry}}
                \cup {Sony(Control, <<1>>), Sony(CommandReply, Reply)}]

\* Commands cut short, a length that is not the payload's, an inquiry nobody
\* knows, control messages, and datagrams shorter than a header.
Odd == [visca |-> {Short(ZoomStop), Short(StopMoving), <<\h81, 9, 7>>},
        sony |-> {Sony(Command, Short(ZoomTele(5))), Message(Command, 5, ZoomStop),
            Sony(Command, Short(StopMoving)), Sony(Inquiry, <<\h81, 9, 7, 0, \hFF>>),
            Sony(Control, <<15, 1>>), Sony(Control, <<>>), Control, Home}]

=============================================================================
