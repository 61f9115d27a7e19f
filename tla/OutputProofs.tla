---------------------------- MODULE OutputProofs ----------------------------
(***************************************************************************)
(* From the text a child prints to the port of a camera.                   *)
(*                                                                         *)
(* Where create_unique_port_from_ip deserves its name, and where a port    *)
(* has a bit, for every address.  The string a child's output is read      *)
(* into: for any texts, cut anywhere by the pipe, and any lengths of the   *)
(* buffers, it is the beginning of the text and fits into its buffer with  *)
(* the zero behind it.  The two together: whatever is read of the text is  *)
(* a line of it, so that the whole implements the port numbering; and no   *)
(* line with an address is passed over, nor its digits misread.            *)
(*                                                                         *)
(* string_ensure_fits_substring is defined as the least number of          *)
(* extensions; EnoughExtensions shows that the loop comes to an end.       *)
(***************************************************************************)
EXTENDS CommandOutput, SequenceTheorems, WellFoundedInduction, TLAPS

Byte == 0..255

\* Networks whose ports all have a bit in used_ports_bitset, ...
CoveredNetworks == {2, 3} \cup (11..32) \cup (101..132) \cup (201..232)

\* ... and those among them whose ports differ between networks, too.
DistinctNetworks == 11..32

\* Within one network 192.168.n.x no two cameras get the same port, unless n
\* is 111 or 222 (11.100 and 111.00 read alike there).
THEOREM HostsDistinct ==
    ASSUME NEW n \in Byte \ {111, 222}, NEW x \in Byte, NEW y \in Byte,
           create_unique_port_from_ip(<<n, x>>) = create_unique_port_from_ip(<<n, y>>)
    PROVE  x = y
  <1>1. CASE n < 10
    BY <1>1 DEF Byte, create_unique_port_from_ip, first_part, offset
  <1>2. CASE n >= 10 /\ n < 100
    BY <1>2 DEF Byte, create_unique_port_from_ip, first_part, offset
  <1>3. CASE n >= 100
    BY <1>3 DEF Byte, create_unique_port_from_ip, first_part, offset
  <1> QED
    BY <1>1, <1>2, <1>3 DEF Byte

\* Cameras anywhere in the networks 192.168.11 to 192.168.32 get ports of
\* their own.
THEOREM NetworksDistinct ==
    ASSUME NEW a \in DistinctNetworks \X Byte, NEW b \in DistinctNetworks \X Byte,
           create_unique_port_from_ip(a) = create_unique_port_from_ip(b)
    PROVE  a = b
  <1>1. PICK m \in 11..32, x \in 0..255 : a = <<m, x>>
    BY DEF DistinctNetworks, Byte
  <1>2. PICK n \in 11..32, y \in 0..255 : b = <<n, y>>
    BY DEF DistinctNetworks, Byte
  <1>3. m * offset(x) + x = n * offset(y) + y
    BY <1>1, <1>2 DEF create_unique_port_from_ip, first_part
  <1>4. x < 100 /\ y < 100 => m = n /\ x = y
    BY <1>3 DEF offset
  <1>5. x >= 100 /\ y >= 100 => m = n /\ x = y
    BY <1>3 DEF offset
  <1>6. ~(x < 100 /\ y >= 100) /\ ~(x >= 100 /\ y < 100)
    BY <1>3 DEF offset
  <1> QED
    BY <1>1, <1>2, <1>4, <1>5, <1>6

\* BITTEST and BITSET stay inside the array for every host of these networks,
\* and of no other network.
THEOREM CoveredExactly ==
    ASSUME NEW n \in Byte
    PROVE  n \in CoveredNetworks
             <=> \A x \in Byte : HasBit(create_unique_port_from_ip(<<n, x>>))
  <1>1. ASSUME n \in CoveredNetworks, NEW x \in Byte
        PROVE  HasBit(create_unique_port_from_ip(<<n, x>>))
    BY <1>1 DEF CoveredNetworks, Byte, create_unique_port_from_ip, first_part,
                offset, HasBit, BITNSLOTS, NPORTS
  <1>2. ASSUME n \notin CoveredNetworks
        PROVE  \E x \in {1, 200} : ~HasBit(create_unique_port_from_ip(<<n, x>>))
    BY <1>2 DEF CoveredNetworks, Byte, create_unique_port_from_ip, first_part,
                offset, HasBit, BITNSLOTS, NPORTS
  <1>3. {1, 200} \subseteq Byte
    BY DEF Byte
  <1> QED
    BY <1>1, <1>2, <1>3

------------------------------------------------------------------------------
\* The bits set are those of the sockets, and each socket has the port of its
\* camera.
SocketsMatch ==
    /\ \A p \in used_ports : \E s \in socket : s.port = p
    /\ \A s \in socket : s.port \in used_ports
    /\ \A s \in socket : s.port = create_unique_port_from_ip(s.camera)
    /\ \A a \in announced : \E s \in socket : s.camera = a

PortInv == TypeOK /\ bitset = "intact" /\ SocketsMatch

\* Every address has a port of the range, and a bit.
LEMMA PortRange ==
    ASSUME NEW a \in DistinctNetworks \X Byte
    PROVE  /\ create_unique_port_from_ip(a) \in BitPort
           /\ HasBit(create_unique_port_from_ip(a))
  <1>1. PICK m \in 11..32, x \in 0..255 : a = <<m, x>>
    BY DEF DistinctNetworks, Byte
  <1>2. create_unique_port_from_ip(a) = m * offset(x) + x
    BY <1>1 DEF create_unique_port_from_ip, first_part
  <1>3. /\ m * offset(x) + x \in Int
        /\ m * offset(x) + x >= 1024
        /\ m * offset(x) + x <= 32767
    BY DEF offset
  <1> DEFINE p == m * offset(x) + x
  <1> HIDE DEF p
  <1>4. p \in Int /\ p >= 1024 /\ p <= 32767
    BY <1>3 DEF p
  <1>5. p \in BitPort
    <2>1. BITNSLOTS = 3968
      BY DEF BITNSLOTS, NPORTS
    <2>2. 1024 + 8 * BITNSLOTS - 1 = 32767
      BY <2>1
    <2> DEFINE top == 1024 + 8 * BITNSLOTS - 1
    <2>3. top \in Int /\ p <= top
      BY <1>4, <2>2
    <2> HIDE DEF top
    <2>4. p \in 1024..top
      BY <1>4, <2>3
    <2> QED
      BY <2>4 DEF BitPort, top
  <1>6. HasBit(p)
    BY <1>4 DEF HasBit, BITNSLOTS, NPORTS
  <1> QED
    BY <1>2, <1>5, <1>6 DEF p

\* When all cameras are in the networks 192.168.11 to 192.168.32, each one
\* announced has a socket of its own, and no bit outside the bitset is touched.
THEOREM EachCameraServed ==
    ASSUME Address \subseteq DistinctNetworks \X Byte
    PROVE  Spec => [](EachCameraItsSocket /\ BitsetCoversPorts)
  <1>1. Init => PortInv
    <2>1. Init => announced \subseteq Address /\ used_ports \subseteq BitPort
                  /\ socket \subseteq [camera : Address, port : BitPort]
      BY DEF Init
    <2>2. Init => bitset = "intact"
      BY DEF Init
    <2>3. Init => SocketsMatch
      BY DEF Init, SocketsMatch
    <2> QED
      BY <2>1, <2>2, <2>3 DEF PortInv, TypeOK
  <1>2. PortInv /\ [Next]_vars => PortInv'
    <2> SUFFICES ASSUME PortInv, [Next]_vars
                 PROVE  PortInv'
      OBVIOUS
    <2>1. ASSUME NEW a \in Address, address_mngr_add_address(a)
          PROVE  PortInv'
      <3> DEFINE port == create_unique_port_from_ip(a)
      <3>1. a \in DistinctNetworks \X Byte
        OBVIOUS
      <3>2. port \in BitPort
        BY <3>1, PortRange
      <3> HIDE DEF port
      <3>3. CASE port \in used_ports
        <4>1. UNCHANGED <<used_ports, socket, bitset>> /\ announced' = announced \cup {a}
          BY <2>1, <3>3 DEF address_mngr_add_address, port
        <4>2. PICK s \in socket : s.port = port
          BY <3>3 DEF PortInv, SocketsMatch
        <4>3. s.camera \in Address /\ create_unique_port_from_ip(s.camera) = port
          BY <4>2 DEF PortInv, SocketsMatch, TypeOK
        <4>4. s.camera = a
          BY <3>1, <4>3, NetworksDistinct DEF port
        <4>5. SocketsMatch'
          BY <4>1, <4>2, <4>4 DEF PortInv, SocketsMatch
        <4>6. announced' \subseteq Address /\ UNCHANGED <<used_ports, socket>>
          BY <4>1 DEF PortInv, TypeOK
        <4>7. bitset' = "intact"
          BY <4>1 DEF PortInv, TypeOK
        <4> QED
          BY <4>5, <4>6, <4>7 DEF PortInv, TypeOK
      <3>4. CASE port \notin used_ports
        <4> DEFINE new == [camera |-> a, port |-> port]
        <4>1. /\ used_ports' = used_ports \cup {port}
              /\ socket' = socket \cup {new}
              /\ announced' = announced \cup {a}
              /\ UNCHANGED bitset
          BY <2>1, <3>4 DEF address_mngr_add_address, port
        <4>2. new \in [camera : Address, port : BitPort] /\ new.port = port /\ new.camera = a
          BY <3>2
        <4> HIDE DEF new
        <4>3. /\ announced' \subseteq Address
              /\ used_ports' \subseteq BitPort
              /\ socket' \subseteq [camera : Address, port : BitPort]
          BY <3>2, <4>1, <4>2 DEF PortInv, TypeOK
        <4>7. bitset' = "intact"
          BY <4>1 DEF PortInv, TypeOK
        <4>4. /\ \A p \in used_ports' : \E s \in socket' : s.port = p
              /\ \A s \in socket' : s.port \in used_ports'
          BY <4>1, <4>2 DEF PortInv, SocketsMatch
        <4>5. \A s \in socket' : s.port = create_unique_port_from_ip(s.camera)
          BY <4>1, <4>2 DEF PortInv, SocketsMatch, port
        <4>6. \A b \in announced' : \E s \in socket' : s.camera = b
          BY <4>1, <4>2 DEF PortInv, SocketsMatch
        <4> QED
          BY <4>3, <4>4, <4>5, <4>6, <4>7 DEF PortInv, TypeOK, SocketsMatch
      <3> QED
        BY <3>3, <3>4
    <2>2. ASSUME NEW a \in Address, AddressOutsideBitset(a)
          PROVE  FALSE
      BY <2>2, PortRange DEF AddressOutsideBitset
    <2>3. CASE UNCHANGED vars
      <3>1. UNCHANGED <<announced, used_ports, socket, bitset>>
        BY <2>3 DEF vars
      <3>2. SocketsMatch'
        BY <3>1 DEF PortInv, SocketsMatch
      <3>3. TypeOK' /\ bitset' = "intact"
        BY <3>1 DEF PortInv, TypeOK
      <3> QED
        BY <3>2, <3>3 DEF PortInv
    <2> QED
      BY <2>1, <2>2, <2>3 DEF Next
  <1>3. PortInv => EachCameraItsSocket /\ BitsetCoversPorts
    <2> SUFFICES ASSUME PortInv
                 PROVE  EachCameraItsSocket /\ BitsetCoversPorts
      OBVIOUS
    <2>1. ASSUME NEW s \in socket, NEW t \in socket, s.port = t.port \/ s.camera = t.camera
          PROVE  s = t
      <3>1. /\ s \in [camera : Address, port : BitPort]
            /\ t \in [camera : Address, port : BitPort]
        BY Zenon DEF PortInv, TypeOK
      <3>2. s.port = create_unique_port_from_ip(s.camera) /\ t.port = create_unique_port_from_ip(t.camera)
        BY DEF PortInv, SocketsMatch
      <3>3. s.camera = t.camera
        BY <2>1, <3>1, <3>2, NetworksDistinct
      <3> QED
        BY <3>1, <3>2, <3>3
    <2>2. \A a \in announced : \E s \in socket :
                s.camera = a /\ s.port = create_unique_port_from_ip(a)
      BY DEF PortInv, SocketsMatch
    <2> QED
      BY <2>1, <2>2 DEF PortInv, EachCameraItsSocket, BitsetCoversPorts
  <1> QED
    BY <1>1, <1>2, <1>3, PTL DEF Spec

------------------------------------------------------------------------------
TextTypeOK ==
    /\ output \in Seq(Nat) /\ script \in Seq(Nat) /\ pipe \in Seq(Nat)
    /\ command_output \in Seq(Nat)
    /\ command_output_len \in Nat

TextInv == TextTypeOK /\ OutputWhole

------------------------------------------------------------------------------
\* Texts put together in either order.
LEMMA Associative ==
    \A s, t, u \in Seq(Nat) : (s \o t) \o u = s \o (t \o u)
  <1> SUFFICES ASSUME NEW s \in Seq(Nat), NEW t \in Seq(Nat), NEW u \in Seq(Nat)
               PROVE  (s \o t) \o u = s \o (t \o u)
    OBVIOUS
  <1> QED
    BY ConcatAssociative

\* A text cut in two is the two parts.
LEMMA CutInTwo ==
    ASSUME NEW s \in Seq(Nat), NEW n \in 0..Len(s)
    PROVE  /\ SubSeq(s, 1, n) \in Seq(Nat) /\ SubSeq(s, n + 1, Len(s)) \in Seq(Nat)
           /\ SubSeq(s, 1, n) \o SubSeq(s, n + 1, Len(s)) = s
           /\ Len(SubSeq(s, 1, n)) = n
  <1>1. Len(s) \in Nat /\ n \in Nat /\ n <= Len(s)
    OBVIOUS
  <1>2. \A i \in 1..n : s[i] \in Nat
    BY <1>1
  <1>3. \A i \in (n + 1)..Len(s) : s[i] \in Nat
    BY <1>1
  <1>4. SubSeq(s, 1, n) \in Seq(Nat) /\ SubSeq(s, n + 1, Len(s)) \in Seq(Nat)
    BY <1>1, <1>2, <1>3, SubSeqProperties, SMTT(30)
  <1>5. Len(SubSeq(s, 1, n)) = n
    BY <1>1, <1>2, SubSeqProperties, SMTT(30)
  <1>6. SubSeq(s, 1, n) \o SubSeq(s, n + 1, Len(s)) = SubSeq(s, 1, Len(s))
    <2>1. /\ 1 \in 1..(Len(s) + 1) /\ n \in (1 - 1)..Len(s) /\ Len(s) \in n..Len(s)
      BY <1>1
    <2> QED
      BY <2>1, ConcatAdjacentSubSeq, Zenon
  <1>7. SubSeq(s, 1, Len(s)) = s
    BY SubSeqFull
  <1> QED
    BY <1>4, <1>5, <1>6, <1>7

\* Some number of extensions makes up for what is missing, and none less.
LEMMA EnoughExtensions ==
    ASSUME NEW missing \in Nat, missing > 0
    PROVE  \E k \in 1..missing :
                /\ k * ExtendLength >= missing
                /\ (k - 1) * ExtendLength < missing
  <1> DEFINE k == (missing + ExtendLength - 1) \div ExtendLength
  <1>1. ExtendLength \in Nat /\ ExtendLength >= 1
    BY LengthAssumption
  <1>2. k \in Int
    BY <1>1
  <1>3. /\ k * ExtendLength <= missing + ExtendLength - 1
        /\ missing + ExtendLength - 1 < (k + 1) * ExtendLength
    BY <1>1
  <1>4. /\ (k - 1) * ExtendLength = k * ExtendLength - ExtendLength
        /\ (k + 1) * ExtendLength = k * ExtendLength + ExtendLength
    BY <1>1, <1>2
  <1> HIDE DEF k
  <1>5. k * ExtendLength \in Int
    BY <1>1, <1>2
  <1>6. k * ExtendLength >= missing /\ (k - 1) * ExtendLength < missing
    BY <1>1, <1>3, <1>4, <1>5
  <1>7. k >= 1
    <2> SUFFICES ASSUME k <= 0 PROVE FALSE
      BY <1>2
    <2>1. k * ExtendLength <= 0
      BY <1>1, <1>2
    <2> QED
      BY <2>1, <1>5, <1>6
  <1>8. k <= missing
    <2> SUFFICES ASSUME k - 1 >= missing PROVE FALSE
      BY <1>2
    <2>1. (k - 1) * ExtendLength >= k - 1
      BY <1>1, <1>2
    <2> QED
      BY <2>1, <1>1, <1>2, <1>6
  <1> QED
    BY <1>2, <1>6, <1>7, <1>8

\* A string that fits into its buffer is given one the text to be added fits
\* into as well.
LEMMA BufferGrows ==
    ASSUME TextInv, NEW needle \in Seq(Nat)
    PROVE  LET grown == string_ensure_fits_substring(command_output, needle)
           IN  grown \in Nat /\ Len(command_output) + Len(needle) < grown
  <1>1. /\ command_output_len \in Nat /\ Len(command_output) \in Nat
        /\ Len(command_output) < command_output_len /\ Len(needle) \in Nat
    BY DEF TextInv, TextTypeOK, OutputWhole
  <1>2. ExtendLength \in Nat /\ ExtendLength >= 1
    BY LengthAssumption
  <1> DEFINE lengths == {command_output_len + k * ExtendLength : k \in 0..Len(needle) + 1}
             Least(length) ==
                /\ Fits(length, Len(command_output), Len(needle))
                /\ length > command_output_len
                    => ~Fits(length - ExtendLength, Len(command_output), Len(needle))
  <1>3. \E length \in lengths : Least(length)
    <2>1. CASE Fits(command_output_len, Len(command_output), Len(needle))
      <3>1. 0 * ExtendLength = 0
        BY <1>2
      <3>2. command_output_len = command_output_len + 0 * ExtendLength
        BY <1>1, <3>1
      <3>3. command_output_len \in lengths
        BY <1>1, <3>2
      <3>4. Least(command_output_len)
        BY <1>1, <2>1
      <3> QED
        BY <3>3, <3>4
    <2>2. CASE ~Fits(command_output_len, Len(command_output), Len(needle))
      <3>1. PICK missing \in Int :
                missing = Len(command_output) + Len(needle) + 1 - command_output_len
        BY <1>1
      <3>2. missing > 0 /\ missing \in Nat /\ missing <= Len(needle)
        BY <1>1, <2>2, <3>1 DEF Fits
      <3>3. PICK k \in 1..missing : /\ k * ExtendLength >= missing
                                    /\ (k - 1) * ExtendLength < missing
        BY <3>2, EnoughExtensions
      <3>4. PICK extension \in Nat : extension = k * ExtendLength
        BY <1>2, <3>2, <3>3
      <3>5. (k - 1) * ExtendLength = extension - ExtendLength
        BY <1>2, <3>2, <3>3, <3>4
      <3>6. k \in 0..Len(needle) + 1
        BY <1>1, <3>2, <3>3
      <3>7. command_output_len + extension \in lengths
        BY <3>4, <3>6
      <3>8. extension >= missing /\ extension - ExtendLength < missing
        BY <3>3, <3>4, <3>5
      <3>9. Least(command_output_len + extension)
        BY <1>1, <1>2, <3>1, <3>8 DEF Fits
      <3> QED
        BY <3>7, <3>9
    <2> QED
      BY <2>1, <2>2
  <1>4. \A length \in lengths : length \in Nat
    BY <1>1, <1>2
  <1> DEFINE grown == CHOOSE length \in lengths : Least(length)
  <1>5. grown \in lengths /\ Least(grown)
    BY <1>3
  <1>6. string_ensure_fits_substring(command_output, needle) = grown
    BY DEF string_ensure_fits_substring
  <1>7. grown \in Nat /\ Fits(grown, Len(command_output), Len(needle))
    BY <1>4, <1>5
  <1> HIDE DEF grown
  <1> QED
    BY <1>1, <1>6, <1>7 DEF Fits

------------------------------------------------------------------------------
\* The text is in order initially ...
LEMMA InitText == OutputInit => TextInv
  <1> SUFFICES ASSUME OutputInit PROVE TextInv
    OBVIOUS
  <1>1. /\ output = <<>> /\ script = <<>> /\ pipe = <<>> /\ command_output = <<>>
        /\ command_output_len = InitialLength
    BY DEF OutputInit
  <1>2. InitialLength \in Nat /\ InitialLength > 0
    BY LengthAssumption
  <1>3. <<>> \in Seq(Nat) /\ Len(<<>>) = 0
    OBVIOUS
  <1>4. <<>> \o <<>> \o <<>> = <<>>
    BY <1>3, ConcatEmptySeq
  <1> QED
    BY <1>1, <1>2, <1>3, <1>4 DEF TextInv, TextTypeOK, OutputWhole

\* Steps that do not touch the text.
LEMMA TextLeftAlone == TextInv /\ UNCHANGED commandVars => TextInv'
  BY DEF TextInv, TextTypeOK, OutputWhole, commandVars

\* ... when a discovery is started,
LEMMA DiscoverText == TextInv /\ Discover => TextInv'
  <1> SUFFICES ASSUME TextInv, Discover PROVE TextInv'
    OBVIOUS
  <1>1. PICK lines \in Outputs : output' = Printed(lines)
    BY DEF Discover
  <1>2. /\ script' = output' /\ pipe' = <<>> /\ command_output' = <<>>
        /\ command_output_len' = InitialLength
    BY DEF Discover
  <1>3. output' \in Seq(Nat)
    BY <1>1, OutputsAssumption
  <1>4. InitialLength \in Nat /\ InitialLength > 0
    BY LengthAssumption
  <1>5. <<>> \in Seq(Nat) /\ Len(<<>>) = 0 /\ <<>> \o <<>> = <<>>
    BY ConcatEmptySeq
  <1>6. <<>> \o <<>> \o output' = output'
    BY <1>3, <1>5, ConcatEmptySeq
  <1> QED
    BY <1>2, <1>3, <1>4, <1>5, <1>6 DEF TextInv, TextTypeOK, OutputWhole

\* when it prints,
LEMMA PrintsText == TextInv /\ ChildPrints => TextInv'
  <1> SUFFICES ASSUME TextInv, ChildPrints PROVE TextInv'
    OBVIOUS
  <1>1. PICK n \in 1..Len(script) : /\ pipe' = pipe \o SubSeq(script, 1, n)
                                    /\ script' = SubSeq(script, n + 1, Len(script))
    BY DEF ChildPrints
  <1>2. UNCHANGED <<output, command_output, command_output_len>>
    BY DEF ChildPrints
  <1>3. /\ script \in Seq(Nat) /\ pipe \in Seq(Nat) /\ command_output \in Seq(Nat)
        /\ command_output \o pipe \o script = output
    BY DEF TextInv, TextTypeOK, OutputWhole
  <1>4. n \in 0..Len(script)
    BY <1>1
  <1>5. PICK a \in Seq(Nat), b \in Seq(Nat) :
            a = SubSeq(script, 1, n) /\ b = SubSeq(script, n + 1, Len(script)) /\ a \o b = script
    BY <1>3, <1>4, CutInTwo
  <1>6. pipe' = pipe \o a /\ script' = b
    BY <1>1, <1>5
  <1>7. pipe \o a \in Seq(Nat)
    BY <1>3, ConcatProperties
  <1>8. (command_output \o (pipe \o a)) \o b = (command_output \o pipe) \o (a \o b)
    <2>1. command_output \o pipe \in Seq(Nat)
      BY <1>3, ConcatProperties
    <2>2. command_output \o (pipe \o a) = (command_output \o pipe) \o a
      BY <1>3, <1>5, Associative, Zenon
    <2>3. ((command_output \o pipe) \o a) \o b = (command_output \o pipe) \o (a \o b)
      BY <2>1, <1>5, Associative, Zenon
    <2> QED
      BY <2>2, <2>3
  <1>9. command_output' \o pipe' \o script' = output'
    BY <1>2, <1>3, <1>5, <1>6, <1>8
  <1>10. script' \in Seq(Nat) /\ pipe' \in Seq(Nat)
    BY <1>5, <1>6, <1>7
  <1> QED
    BY <1>2, <1>9, <1>10 DEF TextInv, TextTypeOK, OutputWhole

\* when a piece is read,
LEMMA PipeText == TextInv /\ epoll_handle_pipe => TextInv'
  <1> SUFFICES ASSUME TextInv, epoll_handle_pipe PROVE TextInv'
    OBVIOUS
  <1>1. /\ script \in Seq(Nat) /\ pipe \in Seq(Nat) /\ command_output \in Seq(Nat)
        /\ command_output \o pipe \o script = output
    BY DEF TextInv, TextTypeOK, OutputWhole
  <1>2. PICK n \in 0..Len(pipe) : /\ string_concat(SubSeq(pipe, 1, n))
                                  /\ pipe' = SubSeq(pipe, n + 1, Len(pipe))
    <2> DEFINE n == IF Len(pipe) < ReadLength THEN Len(pipe) ELSE ReadLength
    <2>1. string_concat(SubSeq(pipe, 1, n)) /\ pipe' = SubSeq(pipe, n + 1, Len(pipe))
      BY DEF epoll_handle_pipe
    <2>2. n \in 0..Len(pipe)
      BY <1>1, LengthAssumption
    <2> HIDE DEF n
    <2> QED
      BY <2>1, <2>2
  <1>3. PICK a \in Seq(Nat), b \in Seq(Nat) :
            a = SubSeq(pipe, 1, n) /\ b = SubSeq(pipe, n + 1, Len(pipe)) /\ a \o b = pipe
    BY <1>1, CutInTwo
  <1>4. /\ command_output' = command_output \o a /\ pipe' = b
        /\ command_output_len' = string_ensure_fits_substring(command_output, a)
    BY <1>2, <1>3 DEF string_concat
  <1>5. UNCHANGED <<output, script>>
    BY DEF epoll_handle_pipe
  <1>6. command_output_len' \in Nat /\ Len(command_output) + Len(a) < command_output_len'
    BY <1>4, BufferGrows
  <1>7. command_output' \in Seq(Nat) /\ Len(command_output') = Len(command_output) + Len(a)
    BY <1>1, <1>3, <1>4, ConcatProperties
  <1>8. (command_output \o a) \o b = command_output \o pipe
    <2>1. (command_output \o a) \o b = command_output \o (a \o b)
      BY <1>1, <1>3, Associative, Zenon
    <2> QED
      BY <2>1, <1>3
  <1>9. command_output' \o pipe' \o script' = output'
    BY <1>1, <1>4, <1>5, <1>8
  <1>10. pipe' \in Seq(Nat)
    BY <1>3, <1>4
  <1> QED
    BY <1>1, <1>5, <1>6, <1>7, <1>9, <1>10 DEF TextInv, TextTypeOK, OutputWhole

\* and so after every step.
LEMMA NextText == TextInv /\ [OutputNext]_outputVars => TextInv'
  <1> SUFFICES ASSUME TextInv, [OutputNext]_outputVars PROVE TextInv'
    OBVIOUS
  <1>1. CASE Discover
    BY <1>1, DiscoverText
  <1>2. CASE ChildPrints
    BY <1>2, PrintsText
  <1>3. CASE epoll_handle_pipe
    BY <1>3, PipeText
  <1>4. ASSUME NEW exit_code \in {0, 1}, command_output_ready(exit_code)
        PROVE  TextInv'
    BY <1>4, TextLeftAlone DEF command_output_ready
  <1>5. CASE AddLine
    BY <1>5, TextLeftAlone DEF AddLine
  <1>6. CASE LinesDone
    BY <1>6, TextLeftAlone DEF LinesDone
  <1>7. CASE UNCHANGED outputVars
    BY <1>7, TextLeftAlone DEF outputVars
  <1> QED
    BY <1>1, <1>2, <1>3, <1>4, <1>5, <1>6, <1>7 DEF OutputNext

\* The buffer always has room for the string and its zero, and string, pipe
\* and what is still to be printed make up the child's text.
THEOREM Whole == OutputSpec => []OutputWhole
  <1>1. OutputInit => TextInv
    BY InitText
  <1>2. TextInv /\ [OutputNext]_outputVars => TextInv'
    BY NextText
  <1>3. TextInv => OutputWhole
    BY DEF TextInv
  <1> QED
    BY <1>1, <1>2, <1>3, PTL DEF OutputSpec

------------------------------------------------------------------------------
\* What is left for strtok begins with a line of the text the child printed,
\* and that text has no error in it.
LinesOfText ==
    /\ stage \in {"reading", "lines"} => \E lines \in Outputs : output = Printed(lines)
    /\ stage = "lines" =>
        /\ ErrorText \notin Range(output)
        /\ rest = <<>> \/ \E i \in 1..Len(output) :
                /\ i = 1 \/ output[i - 1] = Newline
                /\ rest = SubSeq(output, i, Len(output))

OutputInv == TextInv /\ OutputTypeOK /\ LinesOfText

\* A set of naturals that is not empty has a least member.
LEMMA LeastOf ==
    ASSUME NEW S \in SUBSET Nat, S # {}
    PROVE  Min(S) \in S /\ \A y \in S : Min(S) <= y
  <1> DEFINE less == {ss \in Nat \X Nat : ss[1] < ss[2]}
  <1>1. less = OpToRel(<, Nat)
    BY Zenon DEF OpToRel
  <1>2. IsWellFoundedOn(less, Nat)
    BY <1>1, NatLessThanWellFounded, Zenon
  <1>3. PICK x \in S : \A y \in S : ~(<<y, x>> \in less)
    BY <1>2, WFMin, Zenon
  <1>4. ASSUME NEW y \in S, y < x PROVE FALSE
    <2>1. <<y, x>> \in Nat \X Nat /\ <<y, x>>[1] < <<y, x>>[2]
      BY <1>4
    <2>2. <<y, x>> \in less
      BY <2>1, Zenon
    <2> QED
      BY <2>2, <1>3
  <1>5. \A y \in S : x <= y
    BY <1>4
  <1> QED
    BY <1>5 DEF Min

\* Where a token begins, if there is one.
LEMMA FirstThere ==
    ASSUME NEW text \in Seq(Nat), First(text) # 0
    PROVE  First(text) \in 1..Len(text)
  <1> DEFINE I == {i \in 1..Len(text) : text[i] # Newline}
  <1>1. First(text) = IF I # {} THEN Min(I) ELSE 0
    BY DEF First, SelectInSeq
  <1>2. I \in SUBSET Nat
    OBVIOUS
  <1> QED
    BY <1>1, <1>2, LeastOf

\* Nothing is in an empty text.
LEMMA NoneInEmpty == First(<<>>) = 0
  <1>1. <<>> \in Seq(Nat) /\ Len(<<>>) = 0
    OBVIOUS
  <1>2. First(<<>>) # 0 => First(<<>>) \in 1..Len(<<>>)
    BY <1>1, FirstThere, Zenon
  <1>3. 1..Len(<<>>) = {}
    BY <1>1
  <1> QED
    BY <1>2, <1>3

\* Where a line ends: at its newline, or behind the text.
LEMMA NewlineThere ==
    ASSUME NEW text \in Seq(Nat)
    PROVE  /\ NewlineIn(text) \in 1..(Len(text) + 1)
           /\ NewlineIn(text) <= Len(text) => text[NewlineIn(text)] = Newline
  <1> DEFINE closed == text \o <<Newline>>
             I == {i \in 1..Len(closed) : closed[i] = Newline}
  <1>1. Newline \in Nat
    BY DEF Newline
  <1>2. /\ Len(closed) = Len(text) + 1 /\ closed[Len(text) + 1] = Newline
        /\ \A i \in 1..Len(text) : closed[i] = text[i]
    BY <1>1
  <1>3. NewlineIn(text) = IF I # {} THEN Min(I) ELSE 0
    BY DEF NewlineIn, SelectInSeq
  <1>4. I \in SUBSET Nat /\ Len(text) + 1 \in I
    BY <1>2
  <1>5. NewlineIn(text) \in I
    BY <1>3, <1>4, LeastOf
  <1> HIDE DEF closed
  <1> QED
    BY <1>2, <1>5

\* The end of an end of a text.
LEMMA EndOfEnd ==
    ASSUME NEW text \in Seq(Nat), NEW i \in 1..Len(text),
           NEW n \in 1..(Len(text) - i + 1)
    PROVE  /\ SubSeq(text, i, Len(text)) \in Seq(Nat)
           /\ Len(SubSeq(text, i, Len(text))) = Len(text) - i + 1
           /\ SubSeq(text, i, Len(text))[n] = text[i + n - 1]
           /\ SubSeq(SubSeq(text, i, Len(text)), n, Len(SubSeq(text, i, Len(text))))
                = SubSeq(text, i + n - 1, Len(text))
  <1>1. Len(text) \in Nat /\ i \in Int /\ n \in Int /\ i <= Len(text)
    OBVIOUS
  <1>2. \A k \in i..Len(text) : text[k] \in Nat
    BY <1>1
  <1>3. /\ SubSeq(text, i, Len(text)) \in Seq(Nat)
        /\ Len(SubSeq(text, i, Len(text))) = Len(text) - i + 1
        /\ \A k \in 1..(Len(text) - i + 1) : SubSeq(text, i, Len(text))[k] = text[k + i - 1]
    BY <1>1, <1>2, SubSeqProperties, SMTT(30)
  <1>4. n + i - 1 = i + n - 1
    BY <1>1
  <1>5. SubSeq(SubSeq(text, i, Len(text)), n, Len(text) - i + 1)
            = SubSeq(text, i + n - 1, i + (Len(text) - i + 1) - 1)
    <2>1. Len(text) \in 1..Len(text) /\ Len(text) - i + 1 \in 1..(Len(text) - i + 1)
      BY <1>1
    <2> QED
      BY <2>1, SubSeqOfSubSeq
  <1>6. i + (Len(text) - i + 1) - 1 = Len(text)
    BY <1>1
  <1> QED
    BY <1>3, <1>4, <1>5, <1>6

\* Behind the token that begins with a line, the text goes on with a line.
LEMMA AfterLine ==
    ASSUME NEW text \in Seq(Nat), NEW i \in 1..Len(text), NEW following,
           following = SubSeq(text, i, Len(text)), First(following) # 0
    PROVE  \/ AfterToken(following) = <<>>
           \/ \E j \in 2..Len(text) :
                /\ text[j - 1] = Newline
                /\ AfterToken(following) = SubSeq(text, j, Len(text))
  <1>1. Len(text) \in Nat /\ i \in Int /\ 1 <= i /\ i <= Len(text)
    OBVIOUS
  <1>2. following \in Seq(Nat) /\ Len(following) = Len(text) - i + 1
    <2>1. 1 \in 1..(Len(text) - i + 1)
      BY <1>1
    <2> QED
      BY <2>1, EndOfEnd
  <1>3. PICK f \in 1..(Len(text) - i + 1) : f = First(following)
    BY <1>2, FirstThere
  <1>4. PICK b \in 1..Len(text) : b = i + f - 1
    BY <1>1, <1>3
  <1>5. Stripped(following) = SubSeq(text, b, Len(text))
    BY <1>2, <1>3, <1>4, EndOfEnd DEF Stripped
  <1>6. PICK s \in Seq(Nat) : s = Stripped(following) /\ Len(s) = Len(text) - b + 1
    <2>1. 1 \in 1..(Len(text) - b + 1)
      BY <1>1, <1>4
    <2> QED
      BY <2>1, <1>5, EndOfEnd
  <1>7. PICK n \in 1..(Len(s) + 1) : n = NewlineIn(s) /\ (n <= Len(s) => s[n] = Newline)
    BY NewlineThere
  <1>8. AfterToken(following) = SubSeq(s, n + 1, Len(s))
    BY <1>6, <1>7 DEF AfterToken
  <1>9. CASE n >= Len(s)
    <2>1. Len(s) \in Int /\ n + 1 \in Int /\ Len(s) < n + 1
      BY <1>9
    <2> QED
      BY <1>8, <2>1, SubSeqEmpty
  <1>10. CASE n < Len(s)
    <2>1. /\ n \in 1..(Len(text) - b + 1) /\ n + 1 \in 1..(Len(text) - b + 1)
          /\ Len(s) = Len(text) - b + 1
      BY <1>1, <1>4, <1>6, <1>10
    <2>2. SubSeq(s, n + 1, Len(s)) = SubSeq(text, b + (n + 1) - 1, Len(text))
      BY <1>5, <1>6, <2>1, EndOfEnd
    <2>3. s[n] = text[b + n - 1]
      BY <1>5, <1>6, <2>1, EndOfEnd
    <2>4. PICK j \in 2..Len(text) : j = b + n /\ j = b + (n + 1) - 1 /\ j - 1 = b + n - 1
      BY <1>1, <1>4, <2>1
    <2>5. text[j - 1] = Newline
      BY <1>7, <1>10, <2>3, <2>4
    <2> QED
      BY <1>8, <2>2, <2>4, <2>5
  <1> QED
    BY <1>7, <1>9, <1>10

\* A port with a bit is one of those of the bitset.
LEMMA PortWithBit ==
    ASSUME NEW a \in Address, HasBit(create_unique_port_from_ip(a))
    PROVE  create_unique_port_from_ip(a) \in BitPort
  <1>1. PICK m \in 0..255, x \in 0..255 : a = <<m, x>>
    <2>1. a \in Byte \X Byte
      BY AddressAssumption DEF Byte
    <2>2. a[1] \in Byte /\ a[2] \in Byte /\ a = <<a[1], a[2]>>
      BY <2>1
    <2> QED
      BY <2>2 DEF Byte
  <1>2. PICK f \in Int, o \in Int : f = first_part(m, x) /\ o = offset(x)
    BY DEF first_part, offset
  <1>3. PICK port \in Int : port = f * o + x
    OBVIOUS
  <1>4. create_unique_port_from_ip(a) = port
    BY <1>1, <1>2, <1>3 DEF create_unique_port_from_ip
  <1>5. BITNSLOTS = 3968
    BY DEF BITNSLOTS, NPORTS
  <1>6. port - 1024 >= 0 /\ (port - 1024) \div 8 < 3968
    BY <1>4, <1>5 DEF HasBit
  <1>7. port >= 1024 /\ port <= 32767
    BY <1>6
  <1>8. 1024 + 8 * BITNSLOTS - 1 = 32767
    BY <1>5
  <1> QED
    BY <1>4, <1>7, <1>8 DEF BitPort

\* Adding a camera keeps the type of the port numbering.
LEMMA AddTyped ==
    ASSUME TypeOK, NEW a \in Address,
           address_mngr_add_address(a) \/ AddressOutsideBitset(a)
    PROVE  TypeOK'
  <1>1. CASE address_mngr_add_address(a)
    <2> DEFINE port == create_unique_port_from_ip(a)
    <2>1. port \in BitPort
      BY <1>1, PortWithBit DEF address_mngr_add_address
    <2>2. /\ announced' = announced \cup {a}
          /\ \/ UNCHANGED <<used_ports, socket>>
             \/ /\ used_ports' = used_ports \cup {port}
                /\ socket' = socket \cup {[camera |-> a, port |-> port]}
          /\ UNCHANGED bitset
      BY <1>1 DEF address_mngr_add_address
    <2>3. [camera |-> a, port |-> port] \in [camera : Address, port : BitPort]
      BY <2>1
    <2> HIDE DEF port
    <2> QED
      BY <2>1, <2>2, <2>3 DEF TypeOK
  <1>2. CASE AddressOutsideBitset(a)
    BY <1>2 DEF AddressOutsideBitset, TypeOK
  <1> QED
    BY <1>1, <1>2

\* When nothing is left to print or to read, the string is the text.
LEMMA StringIsText ==
    ASSUME TextInv, script = <<>>, pipe = <<>>
    PROVE  command_output = output
  <1>1. command_output \in Seq(Nat) /\ command_output \o <<>> \o <<>> = output
    BY DEF TextInv, TextTypeOK, OutputWhole
  <1>2. command_output \o <<>> = command_output
    BY <1>1, ConcatEmptySeq
  <1> QED
    BY <1>1, <1>2

\* What AddLine hands over is a camera.
LEMMA LineIsCamera ==
    ASSUME OutputInv, AddLine
    PROVE  \/ UNCHANGED numberingVars /\ memory' = "overrun"
           \/ /\ \E a \in Address : address_mngr_add_address(a) \/ AddressOutsideBitset(a)
              /\ UNCHANGED memory
  <1> DEFINE line == Parsed(Token(rest))
  <1>1. stage = "lines" /\ First(rest) # 0
    BY DEF AddLine
  <1>2. rest # <<>>
    BY <1>1, NoneInEmpty
  <1>3. /\ ErrorText \notin Range(output)
        /\ \E lines \in Outputs : output = Printed(lines)
        /\ \E i \in 1..Len(output) :
                /\ i = 1 \/ output[i - 1] = Newline
                /\ rest = SubSeq(output, i, Len(output))
    BY <1>1, <1>2 DEF OutputInv, LinesOfText
  <1>4. line.outside \/ \E a \in Address : a[1] = line.bytes[3] /\ a[2] = line.bytes[4]
    <2>1. PICK lines \in Outputs : output = Printed(lines)
      BY <1>3
    <2>2. PICK i \in 1..Len(output) :
                /\ i = 1 \/ output[i - 1] = Newline
                /\ rest = SubSeq(output, i, Len(output))
      BY <1>3
    <2>3. ErrorText \notin Range(output)
      BY <1>3
    <2> HIDE DEF line
    <2>4. \A k \in 1..Len(output) :
            (k = 1 \/ output[k - 1] = Newline)
                /\ First(SubSeq(output, k, Len(output))) # 0
            => \/ Parsed(Token(SubSeq(output, k, Len(output)))).outside
               \/ \E a \in Address :
                    /\ a[1] = Parsed(Token(SubSeq(output, k, Len(output)))).bytes[3]
                    /\ a[2] = Parsed(Token(SubSeq(output, k, Len(output)))).bytes[4]
      BY <2>1, <2>3, AddressesAssumption, Zenon
    <2> QED
      BY <1>1, <2>2, <2>4, Zenon DEF line
  <1>5. CASE line.outside
    BY <1>5, Zenon DEF AddLine
  <1>6. CASE ~line.outside
    <2>1. /\ address_mngr_add_address(Camera(line)) \/ AddressOutsideBitset(Camera(line))
          /\ UNCHANGED memory
      BY <1>6, Zenon DEF AddLine
    <2>2. PICK a \in Address : a[1] = line.bytes[3] /\ a[2] = line.bytes[4]
      BY <1>4, <1>6
    <2> HIDE DEF line
    <2>3. Camera(line) = <<a[1], a[2]>>
      BY <2>2 DEF Camera
    <2>4. a = <<a[1], a[2]>>
      BY AddressAssumption
    <2>5. Camera(line) \in Address
      BY <2>3, <2>4
    <2> QED
      BY <2>1, <2>5, Zenon
  <1> QED
    BY <1>5, <1>6

\* The invariant holds initially.
LEMMA InitOutput == OutputInit => OutputInv
  <1> SUFFICES ASSUME OutputInit PROVE OutputInv
    OBVIOUS
  <1>1. TextInv
    BY InitText
  <1>2. stage = "idle" /\ memory = "intact" /\ Init
    BY DEF OutputInit
  <1>3. TypeOK
    BY <1>2 DEF Init, TypeOK
  <1>4. command_output_len \in Nat
    BY <1>1 DEF TextInv, TextTypeOK
  <1>5. LinesOfText
    BY <1>2 DEF LinesOfText
  <1> QED
    BY <1>1, <1>2, <1>3, <1>4, <1>5 DEF OutputInv, OutputTypeOK

\* The text's part of the invariant, and what follows from it.
LEMMA TextKept ==
    ASSUME OutputInv, [OutputNext]_outputVars
    PROVE  TextInv' /\ command_output_len' \in Nat
  BY NextText DEF OutputInv, TextInv, TextTypeOK

\* The port numbering's variables change by what it may do.
LEMMA NumberingKept ==
    ASSUME OutputInv, [OutputNext]_outputVars
    PROVE  [Next]_vars
  <1>1. CASE AddLine
    <2>1. \/ UNCHANGED numberingVars
          \/ \E a \in Address : address_mngr_add_address(a) \/ AddressOutsideBitset(a)
      BY <1>1, LineIsCamera
    <2> QED
      BY <2>1 DEF Next, vars, numberingVars
  <1>2. CASE UNCHANGED numberingVars
    BY <1>2 DEF vars, numberingVars
  <1>3. AddLine \/ UNCHANGED numberingVars
    BY Zenon DEF OutputNext, Discover, ChildPrints, epoll_handle_pipe,
                 command_output_ready, LinesDone, outputVars
  <1> QED
    BY <1>1, <1>2, <1>3

\* The steps of the numbering keep its types ...
LEMMA NumberingTyped ==
    ASSUME TypeOK, [Next]_vars
    PROVE  TypeOK'
  <1>1. CASE Next
    BY <1>1, AddTyped DEF Next
  <1>2. CASE UNCHANGED vars
    BY <1>2 DEF vars, TypeOK
  <1> QED
    BY <1>1, <1>2

\* ... and so do those of the output.
LEMMA OutputTyped ==
    ASSUME OutputInv, [OutputNext]_outputVars
    PROVE  OutputTypeOK'
  <1>1. TypeOK'
    BY NumberingKept, NumberingTyped DEF OutputInv, OutputTypeOK
  <1>2. command_output_len' \in Nat
    BY TextKept
  <1>3. /\ stage \in {"idle", "reading", "lines", "dead"}
        /\ memory \in {"intact", "overrun"}
    BY DEF OutputInv, OutputTypeOK
  <1>4. /\ stage' \in {"idle", "reading", "lines", "dead"}
        /\ memory' \in {"intact", "overrun"}
    <2>1. CASE Discover
      BY <1>3, <2>1 DEF Discover
    <2>2. CASE ChildPrints
      BY <1>3, <2>2 DEF ChildPrints
    <2>3. CASE epoll_handle_pipe
      BY <1>3, <2>3 DEF epoll_handle_pipe
    <2>4. ASSUME NEW exit_code \in {0, 1}, command_output_ready(exit_code)
          PROVE  /\ stage' \in {"idle", "reading", "lines", "dead"}
                 /\ memory' \in {"intact", "overrun"}
      BY <1>3, <2>4 DEF command_output_ready
    <2>5. CASE AddLine
      <3>1. UNCHANGED stage
        BY <2>5 DEF AddLine
      <3>2. memory' \in {memory, "overrun"}
        BY <2>5, LineIsCamera
      <3> QED
        BY <1>3, <3>1, <3>2
    <2>6. CASE LinesDone
      BY <1>3, <2>6 DEF LinesDone
    <2>7. CASE UNCHANGED outputVars
      BY <1>3, <2>7 DEF outputVars
    <2> QED
      BY <2>1, <2>2, <2>3, <2>4, <2>5, <2>6, <2>7 DEF OutputNext
  <1> QED
    BY <1>1, <1>2, <1>4 DEF OutputTypeOK

\* While neither the text nor what is left of it changes, ...
LEMMA LinesLeftAlone ==
    ASSUME LinesOfText, UNCHANGED <<output, stage, rest>>
    PROVE  LinesOfText'
  BY Zenon DEF LinesOfText

\* The lines still to be read are lines of the text, after every step.
LEMMA LinesKept ==
    ASSUME OutputInv, [OutputNext]_outputVars
    PROVE  LinesOfText'
  <1>1. LinesOfText
    BY DEF OutputInv
  <1>2. output \in Seq(Nat)
    BY DEF OutputInv, TextInv, TextTypeOK
  <1>3. CASE Discover
    <2>1. stage' = "reading" /\ \E lines \in Outputs : output' = Printed(lines)
      BY <1>3 DEF Discover
    <2> QED
      BY <2>1 DEF LinesOfText
  <1>4. CASE ChildPrints
    BY <1>1, <1>4, LinesLeftAlone DEF ChildPrints
  <1>5. CASE epoll_handle_pipe
    BY <1>1, <1>5, LinesLeftAlone DEF epoll_handle_pipe
  <1>6. ASSUME NEW exit_code \in {0, 1}, command_output_ready(exit_code)
        PROVE  LinesOfText'
    <2>1. /\ stage = "reading" /\ script = <<>> /\ pipe = <<>>
          /\ UNCHANGED commandVars
          /\ \/ stage' \in {"idle", "dead"}
             \/ ~Failed(exit_code) /\ rest' = command_output /\ stage' = "lines"
      BY <1>6 DEF command_output_ready
    <2>2. UNCHANGED output
      BY <2>1 DEF commandVars
    <2>3. CASE stage' \in {"idle", "dead"}
      BY <2>3 DEF LinesOfText
    <2>4. CASE ~Failed(exit_code) /\ rest' = command_output /\ stage' = "lines"
      <3>1. command_output = output
        BY <2>1, StringIsText DEF OutputInv
      <3>2. ErrorText \notin Range(output)
        BY <2>4, <3>1 DEF Failed
      <3>3. \E lines \in Outputs : output = Printed(lines)
        BY <1>1, <2>1 DEF LinesOfText
      <3>4. \/ rest' = <<>>
            \/ 1 \in 1..Len(output) /\ rest' = SubSeq(output, 1, Len(output))
        <4>1. Len(output) \in Nat /\ (Len(output) = 0 => output = <<>>)
          BY <1>2
        <4>2. SubSeq(output, 1, Len(output)) = output
          BY <1>2, SubSeqFull
        <4> QED
          BY <2>4, <3>1, <4>1, <4>2
      <3> QED
        BY <2>2, <2>4, <3>2, <3>3, <3>4 DEF LinesOfText
    <2> QED
      BY <2>1, <2>3, <2>4
  <1>7. CASE AddLine
    <2>1. /\ stage = "lines" /\ First(rest) # 0
          /\ rest' = AfterToken(rest) /\ UNCHANGED <<output, stage>>
      BY <1>7 DEF AddLine, commandVars
    <2>2. \/ AfterToken(rest) = <<>>
          \/ \E j \in 2..Len(output) :
                /\ output[j - 1] = Newline
                /\ AfterToken(rest) = SubSeq(output, j, Len(output))
      <3>1. CASE rest = <<>>
        BY <2>1, <3>1, NoneInEmpty
      <3>2. CASE rest # <<>>
        <4>1. PICK i \in 1..Len(output) : rest = SubSeq(output, i, Len(output))
          BY <1>1, <2>1, <3>2 DEF LinesOfText
        <4> QED
          BY <1>2, <2>1, <4>1, AfterLine
      <3> QED
        BY <3>1, <3>2
    <2>3. rest' = <<>> \/ \E j \in 1..Len(output) :
                /\ j = 1 \/ output[j - 1] = Newline
                /\ rest' = SubSeq(output, j, Len(output))
      BY <2>1, <2>2
    <2> QED
      BY <1>1, <2>1, <2>3 DEF LinesOfText
  <1>8. CASE LinesDone
    BY <1>8 DEF LinesDone, LinesOfText
  <1>9. CASE UNCHANGED outputVars
    BY <1>1, <1>9, LinesLeftAlone DEF outputVars, commandVars
  <1> QED
    BY <1>3, <1>4, <1>5, <1>6, <1>7, <1>8, <1>9 DEF OutputNext

\* Every step keeps the invariant.
LEMMA NextOutput == OutputInv /\ [OutputNext]_outputVars => OutputInv'
  BY TextKept, OutputTyped, LinesKept DEF OutputInv

\* The types, for any cameras, texts and lengths: whatever is read of a child's
\* text, only cameras are announced and only ports of the bitset given out.
THEOREM OutputTypeCorrect == OutputSpec => []OutputTypeOK
  <1>1. OutputInv => OutputTypeOK
    BY DEF OutputInv
  <1> QED
    BY <1>1, InitOutput, NextOutput, PTL DEF OutputSpec

\* From the characters of the text to the ports: however the pipe cuts the
\* text and the buffers grow, command_output_ready gives the address manager
\* nothing but cameras, one at a time, and otherwise leaves its state alone.
THEOREM OutputImplements == OutputSpec => ImplementsPortAssignment
  <1>1. OutputInit => Init
    BY DEF OutputInit
  <1>2. OutputInv /\ [OutputNext]_outputVars => [Next]_vars
    BY NumberingKept
  <1> QED
    BY <1>1, <1>2, InitOutput, NextOutput, PTL
    DEF OutputSpec, ImplementsPortAssignment, Spec

\* So that a camera named in a text in these networks has a socket of its own.
THEOREM NamedCameraServed ==
    ASSUME Address \subseteq DistinctNetworks \X Byte
    PROVE  OutputSpec => []EachCameraItsSocket
  <1>1. Spec => []EachCameraItsSocket
    BY EachCameraServed, PTL
  <1>2. OutputSpec => Spec
    BY OutputImplements DEF ImplementsPortAssignment
  <1> QED
    BY <1>1, <1>2, PTL

------------------------------------------------------------------------------
(* What is read of a line: the loop over its characters, one at a time.      *)

\* Induction over the naturals, with a set for the property.
LEMMA NatInduct ==
    ASSUME NEW S, 0 \in S, \A n \in Nat : n \in S => n + 1 \in S
    PROVE  \A n \in Nat : n \in S
  <1> DEFINE T == Nat \ S
  <1> SUFFICES ASSUME T # {} PROVE FALSE
    OBVIOUS
  <1>1. T \in SUBSET Nat
    OBVIOUS
  <1>2. PICK m \in T : \A y \in T : m <= y
    <2> HIDE DEF T
    <2> QED
      BY <1>1, LeastOf
  <1>3. m # 0 /\ m - 1 \in Nat
    OBVIOUS
  <1>4. m - 1 \in S
    BY <1>2, <1>3
  <1> QED
    BY <1>2, <1>3, <1>4

NothingRead == [bytes |-> <<0, 0, 0, 0>>, idx |-> 0, outside |-> FALSE]

ReadChar(so, c) ==
    IF c = Dot THEN [so EXCEPT !.idx = @ + 1]
    ELSE IF so.idx > 3 THEN [so EXCEPT !.outside = TRUE]
    ELSE [so EXCEPT !.bytes[so.idx + 1] = 10 * @ + c]

\* The equation behind FoldLeft, which folds over sets of places.
Folds(text, D, g) ==
    g = [s \in SUBSET D |-> IF s = {} THEN NothingRead
                            ELSE ReadChar(g[s \ {Max(s)}], text[Max(s)])]

\* It has a solution for a text of any length, by induction on the length.
LEMMA FoldsExists ==
    ASSUME NEW text
    PROVE  \A n \in Nat : \E g : Folds(text, 1..n, g)
  <1> DEFINE S == {n \in Nat : \E g : Folds(text, 1..n, g)}
  <1>1. 0 \in S
    <2>1. PICK g : g = [s \in SUBSET {} |-> NothingRead]
      OBVIOUS
    <2>2. 1..0 = {} /\ \A s \in SUBSET {} : s = {}
      OBVIOUS
    <2>3. g = [s \in SUBSET (1..0) |-> IF s = {} THEN NothingRead
                            ELSE ReadChar(g[s \ {Max(s)}], text[Max(s)])]
      BY <2>1, <2>2, Zenon
    <2>4. Folds(text, 1..0, g)
      BY <2>3, Zenon DEF Folds
    <2> QED
      BY <2>4
  <1>2. ASSUME NEW n \in Nat, n \in S PROVE n + 1 \in S
    <2>1. PICK g : Folds(text, 1..n, g)
      BY <1>2
    <2>2. PICK m \in Nat : m = n + 1
      OBVIOUS
    <2>3. PICK h : h = [s \in SUBSET (1..m) |->
                            IF m \in s THEN ReadChar(g[s \ {m}], text[m]) ELSE g[s]]
      OBVIOUS
    <2>4. \A s \in SUBSET (1..n) :
            g[s] = IF s = {} THEN NothingRead ELSE ReadChar(g[s \ {Max(s)}], text[Max(s)])
      BY <2>1, Zenon DEF Folds
    <2>5. ASSUME NEW s \in SUBSET (1..m)
          PROVE  h[s] = IF s = {} THEN NothingRead
                        ELSE ReadChar(h[s \ {Max(s)}], text[Max(s)])
      <3>1. CASE m \in s
        <4>1. Max(s) = m
          <5>1. \A y \in s : m >= y
            BY <2>2
          <5>2. \A x \in s : x >= m => x = m
            BY <2>2
          <5> QED
            BY <3>1, <5>1, <5>2 DEF Max
        <4>2. s \ {m} \in SUBSET (1..m) /\ m \notin s \ {m}
          OBVIOUS
        <4>3. h[s \ {m}] = g[s \ {m}]
          BY <2>3, <4>2, Zenon
        <4>4. h[s] = ReadChar(g[s \ {m}], text[m])
          BY <2>3, <3>1, Zenon
        <4> QED
          BY <3>1, <4>1, <4>3, <4>4, Zenon
      <3>2. CASE m \notin s
        <4>1. s \in SUBSET (1..n)
          BY <2>2, <3>2
        <4>2. s \ {Max(s)} \in SUBSET (1..m) /\ m \notin s \ {Max(s)}
          BY <3>2
        <4>3. h[s] = g[s] /\ h[s \ {Max(s)}] = g[s \ {Max(s)}]
          BY <2>3, <3>2, <4>2, Zenon
        <4> QED
          BY <2>4, <4>1, <4>3, Zenon
      <3> QED
        BY <3>1, <3>2
    <2>6. h = [s \in SUBSET (1..m) |-> h[s]]
      BY <2>3, Zenon
    <2>7. Folds(text, 1..m, h)
      BY <2>5, <2>6, Zenon DEF Folds
    <2> QED
      BY <2>2, <2>7
  <1>3. \A n \in Nat : n \in S
    <2> HIDE DEF S
    <2> QED
      BY <1>1, <1>2, NatInduct
  <1> QED
    BY <1>3

\* So what is read of a text is read character by character.
Reads(text, so) ==
    /\ so[0] = NothingRead
    /\ \A n \in 1..Len(text) : so[n] = ReadChar(so[n - 1], text[n])

\* ... and what FoldLeft gives for the text is what the last step gives.
LEMMA ParsedReads ==
    ASSUME NEW text \in Seq(Nat)
    PROVE  \E so : Reads(text, so) /\ Parsed(text) = so[Len(text)]
  <1>1. DOMAIN text = 1..Len(text) /\ Len(text) \in Nat
    OBVIOUS
  <1>2. PICK g : g = (CHOOSE h : Folds(text, DOMAIN text, h))
    OBVIOUS
  <1>3. Folds(text, DOMAIN text, g)
    BY <1>1, <1>2, FoldsExists, Zenon
  <1>4. Parsed(text) = g[DOMAIN text]
    BY <1>2, Zenon DEF Parsed, FoldLeft, MapThenFoldSet, Folds, ReadChar, NothingRead
  <1>5. \A s \in SUBSET (1..Len(text)) :
            g[s] = IF s = {} THEN NothingRead ELSE ReadChar(g[s \ {Max(s)}], text[Max(s)])
    BY <1>1, <1>3, Zenon DEF Folds
  <1>6. PICK so : so = [n \in 0..Len(text) |-> g[1..n]]
    OBVIOUS
  <1>7. so[0] = NothingRead
    <2>1. 0 \in 0..Len(text) /\ 1..0 = {} /\ {} \in SUBSET (1..Len(text))
      BY <1>1
    <2> QED
      BY <1>5, <1>6, <2>1
  <1>8. ASSUME NEW n \in 1..Len(text)
        PROVE  so[n] = ReadChar(so[n - 1], text[n])
    <2>1. n \in 0..Len(text) /\ n - 1 \in 0..Len(text) /\ n \in 1..n
          /\ 1..n \in SUBSET (1..Len(text)) /\ (1..n) \ {n} = 1..(n - 1)
      BY <1>1
    <2>2. Max(1..n) = n
      <3>1. \A y \in 1..n : n >= y
        OBVIOUS
      <3>2. \A x \in 1..n : x >= n => x = n
        OBVIOUS
      <3> QED
        BY <2>1, <3>1, <3>2 DEF Max
    <2>3. g[1..n] = ReadChar(g[1..(n - 1)], text[n])
      BY <1>5, <2>1, <2>2, Zenon
    <2> QED
      BY <1>6, <2>1, <2>3, Zenon
  <1>9. Parsed(text) = so[Len(text)]
    <2>1. Len(text) \in 0..Len(text)
      BY <1>1
    <2> QED
      BY <1>1, <1>4, <1>6, <2>1, Zenon
  <1> QED
    BY <1>7, <1>8, <1>9, Zenon DEF Reads

\* What has been read of a line when its k-th number, counted from 0, is n so
\* far and the others are those of b.
Number(b, k, n) == [bytes |-> [b EXCEPT ![k + 1] = n], idx |-> k, outside |-> FALSE]

Numbers == [1..4 -> Nat]

\* A digit where there is a number for it.
LEMMA DigitKept ==
    ASSUME NEW so, so.idx \in Nat, so.idx <= 3, NEW c, c # Dot
    PROVE  ReadChar(so, c) = [so EXCEPT !.bytes[so.idx + 1] = 10 * @ + c]
  BY DEF ReadChar

\* A digit is added to the number being read.
LEMMA DigitRead ==
    ASSUME NEW b \in Numbers, NEW k \in 0..3, NEW n \in Nat, NEW c \in 0..9
    PROVE  ReadChar(Number(b, k, n), c) = Number(b, k, 10 * n + c)
  <1>1. c # Dot
    BY DEF Dot
  <1>2. PICK m \in Nat : m = 10 * n + c
    OBVIOUS
  <1>3. PICK i \in 1..4 : i = k + 1
    OBVIOUS
  <1>4. PICK p, q, no : p = [b EXCEPT ![i] = n] /\ q = [b EXCEPT ![i] = m] /\ no = FALSE
    OBVIOUS
  <1>5. p[i] = n /\ q = [p EXCEPT ![i] = m]
    BY <1>4 DEF Numbers
  <1>6. PICK so : so = [bytes |-> p, idx |-> k, outside |-> no]
    OBVIOUS
  <1>7. Number(b, k, n) = so /\ Number(b, k, m) = [bytes |-> q, idx |-> k, outside |-> no]
    BY <1>3, <1>4, <1>6 DEF Number
  <1>8. so.idx = k /\ so.bytes = p
    BY <1>6
  <1>9. ReadChar(so, c) = [so EXCEPT !.bytes[i] = m]
    <2>1. ReadChar(so, c) = [so EXCEPT !.bytes[so.idx + 1] = 10 * @ + c]
      BY <1>1, <1>8, DigitKept
    <2> QED
      BY <1>2, <1>3, <1>5, <1>8, <2>1
  <1>10. [so EXCEPT !.bytes[i] = m] = [so EXCEPT !.bytes = q]
    BY <1>5, <1>8
  <1>11. [so EXCEPT !.bytes = q] = [bytes |-> q, idx |-> k, outside |-> no]
    <2>1. [[bytes |-> p, idx |-> k, outside |-> no] EXCEPT !.bytes = q]
            = [bytes |-> q, idx |-> k, outside |-> no]
      OBVIOUS
    <2> QED
      BY <1>6, <2>1
  <1> QED
    BY <1>2, <1>7, <1>9, <1>10, <1>11

\* A dot ends a number, and the next one begins with 0.
LEMMA DotRead ==
    ASSUME NEW b \in Numbers, NEW k \in 0..2, NEW n \in Nat, b[k + 2] = 0
    PROVE  ReadChar(Number(b, k, n), Dot) = Number([b EXCEPT ![k + 1] = n], k + 1, 0)
  <1>1. PICK i \in 1..4, j \in 1..4 : i = k + 1 /\ j = k + 2 /\ j = (k + 1) + 1
    OBVIOUS
  <1>2. PICK p, no : p = [b EXCEPT ![i] = n] /\ no = FALSE
    OBVIOUS
  <1>3. [p EXCEPT ![j] = 0] = p
    <2>1. p \in [1..4 -> Nat] /\ p[j] = 0
      BY <1>1, <1>2 DEF Numbers
    <2> QED
      BY <2>1
  <1>4. PICK so : so = [bytes |-> p, idx |-> k, outside |-> no]
    OBVIOUS
  <1>5. Number(b, k, n) = so /\ Number(p, k + 1, 0) = [bytes |-> p, idx |-> k + 1, outside |-> no]
    BY <1>1, <1>2, <1>3, <1>4 DEF Number
  <1>6. ReadChar(so, Dot) = [so EXCEPT !.idx = @ + 1]
    BY DEF ReadChar
  <1>7. so.idx = k
    BY <1>4
  <1>8. [[bytes |-> p, idx |-> k, outside |-> no] EXCEPT !.idx = k + 1]
            = [bytes |-> p, idx |-> k + 1, outside |-> no]
    OBVIOUS
  <1> QED
    BY <1>1, <1>2, <1>4, <1>5, <1>6, <1>7, <1>8

\* A decimal number without its last digit, and that digit.
LEMMA DivMod ==
    ASSUME NEW n \in Int
    PROVE  /\ 10 * (n \div 10) + (n % 10) = n
           /\ (n \div 10) \div 10 = n \div 100
  <1>1. PICK q \in Int : q = n \div 10
    OBVIOUS
  <1>2. 10 * q <= n /\ n < 10 * q + 10
    BY <1>1
  <1>3. n % 10 = n - 10 * q
    BY <1>1, <1>2
  <1>4. PICK p \in Int : p = q \div 10
    OBVIOUS
  <1>5. 10 * p <= q /\ q < 10 * p + 10
    BY <1>4
  <1>6. 100 * p <= n /\ n < 100 * p + 100
    BY <1>2, <1>5
  <1>7. p = n \div 100
    BY <1>6
  <1>8. 10 * (n \div 10) + (n % 10) = n
    BY <1>1, <1>3
  <1>9. (n \div 10) \div 10 = n \div 100
    BY <1>1, <1>4, <1>7
  <1> QED
    BY <1>8, <1>9

\* A text with one more character.
LEMMA Appended ==
    ASSUME NEW s \in Seq(Nat), NEW c \in Nat
    PROVE  /\ s \o <<c>> \in Seq(Nat)
           /\ Len(s \o <<c>>) = Len(s) + 1
           /\ (s \o <<c>>)[Len(s) + 1] = c
           /\ \A j \in 1..Len(s) : (s \o <<c>>)[j] = s[j]
  OBVIOUS

\* Two characters, and three, written as one text.
LEMMA Joined ==
    ASSUME NEW a \in Nat, NEW b \in Nat, NEW c \in Nat
    PROVE  <<a>> \o <<b>> = <<a, b>> /\ <<a>> \o <<b>> \o <<c>> = <<a, b, c>>
  <1> DEFINE s == <<a>> \o <<b>>
             t == s \o <<c>>
  <1>1. <<a>> \in Seq(Nat) /\ Len(<<a>>) = 1 /\ <<a>>[1] = a
    OBVIOUS
  <1>2. s \in Seq(Nat) /\ Len(s) = 2 /\ s[1] = a /\ s[2] = b
    BY <1>1, Appended
  <1> HIDE DEF s
  <1>3. t \in Seq(Nat) /\ Len(t) = 3 /\ t[1] = a /\ t[2] = b /\ t[3] = c
    <2>1. 1 \in 1..Len(s) /\ 2 \in 1..Len(s) /\ Len(s) + 1 = 3
      BY <1>2
    <2>2. /\ t \in Seq(Nat) /\ Len(t) = Len(s) + 1 /\ t[Len(s) + 1] = c
          /\ \A j \in 1..Len(s) : t[j] = s[j]
      BY <1>2, Appended
    <2> HIDE DEF t
    <2> QED
      BY <1>2, <2>1, <2>2
  <1> HIDE DEF t
  <1>4. s = <<a, b>> /\ t = <<a, b, c>>
    BY <1>2, <1>3
  <1> QED
    BY <1>4 DEF s, t

\* The digits of a byte.
LEMMA DigitsAre ==
    ASSUME NEW n \in Byte
    PROVE  \/ n < 10 /\ Digits(n) = <<n>>
           \/ n >= 10 /\ n < 100 /\ Digits(n) = <<n \div 10, n % 10>>
           \/ n >= 100 /\ Digits(n) = <<n \div 100, (n \div 10) % 10, n % 10>>
  <1>1. n \in Int /\ 0 <= n /\ n <= 255
    BY DEF Byte
  <1>2. CASE n < 10
    <2>1. n % 10 = n /\ ~(n >= 100) /\ ~(n >= 10)
      BY <1>1, <1>2
    <2>2. Digits(n) = <<>> \o <<>> \o <<n>>
      BY <2>1, Zenon DEF Digits
    <2>3. <<>> \o <<>> \o <<n>> = <<n>>
      BY <1>1
    <2> QED
      BY <1>2, <2>2, <2>3
  <1>3. CASE n >= 10 /\ n < 100
    <2>1. (n \div 10) % 10 = n \div 10 /\ ~(n >= 100)
      BY <1>1, <1>3
    <2>2. Digits(n) = <<>> \o <<n \div 10>> \o <<n % 10>>
      BY <1>3, <2>1, Zenon DEF Digits
    <2>3. <<>> \o <<n \div 10>> \o <<n % 10>> = <<n \div 10, n % 10>>
      <3>1. n \div 10 \in Nat /\ n % 10 \in Nat
        BY <1>1
      <3>2. <<>> \o <<n \div 10>> = <<n \div 10>>
        BY <3>1
      <3> QED
        BY <3>1, <3>2, Joined
    <2> QED
      BY <1>3, <2>2, <2>3
  <1>4. CASE n >= 100
    <2>1. n >= 10
      BY <1>1, <1>4
    <2>2. Digits(n) = <<n \div 100>> \o <<(n \div 10) % 10>> \o <<n % 10>>
      BY <1>4, <2>1, Zenon DEF Digits
    <2>3. <<n \div 100>> \o <<(n \div 10) % 10>> \o <<n % 10>>
            = <<n \div 100, (n \div 10) % 10, n % 10>>
      <3>1. n \div 100 \in Nat /\ (n \div 10) % 10 \in Nat /\ n % 10 \in Nat
        BY <1>1
      <3> QED
        BY <3>1, Joined
    <2> QED
      BY <1>4, <2>2, <2>3
  <1> QED
    BY <1>1, <1>2, <1>3, <1>4

\* They are one to three digits, ...
LEMMA DigitsTyped ==
    ASSUME NEW n \in Byte
    PROVE  /\ Digits(n) \in Seq(Nat)
           /\ Len(Digits(n)) \in 1..3
           /\ \A j \in 1..Len(Digits(n)) : Digits(n)[j] \in 0..9
  <1>1. n \in Int /\ 0 <= n /\ n <= 255
    BY DEF Byte
  <1>2. PICK u \in Nat, d \in Nat, h \in Nat, s \in Nat :
            u = n % 10 /\ d = (n \div 10) % 10 /\ h = n \div 100 /\ s = n \div 10
    BY <1>1
  <1>3. u \in 0..9 /\ d \in 0..9 /\ h \in 0..9 /\ (n < 100 => s \in 0..9)
    BY <1>1, <1>2
  <1>4. CASE n < 10 /\ Digits(n) = <<n>>
    BY <1>1, <1>4
  <1>5. CASE n < 100 /\ Digits(n) = <<s, u>>
    BY <1>3, <1>5
  <1>6. CASE Digits(n) = <<h, d, u>>
    BY <1>3, <1>6
  <1> QED
    BY <1>2, <1>4, <1>5, <1>6, DigitsAre

\* The characters u stand in text behind the first i.
StandsAt(u, text, i) ==
    /\ i + Len(u) <= Len(text)
    /\ \A j \in 1..Len(u) : text[i + j] = u[j]

\* ... and read back as the number they were printed for.
LEMMA NumberRead ==
    ASSUME NEW text \in Seq(Nat), NEW so, Reads(text, so),
           NEW n \in Byte, NEW b \in Numbers, NEW k \in 0..3,
           NEW i \in Nat, StandsAt(Digits(n), text, i), so[i] = Number(b, k, 0)
    PROVE  so[i + Len(Digits(n))] = Number(b, k, n)
  <1>1. n \in Int /\ 0 <= n /\ n <= 255
    BY DEF Byte
  <1>2. \A j \in 1..Len(Digits(n)) : so[i + j] = ReadChar(so[(i + j) - 1], Digits(n)[j])
    <2> SUFFICES ASSUME NEW j \in 1..Len(Digits(n))
                 PROVE  so[i + j] = ReadChar(so[(i + j) - 1], Digits(n)[j])
      OBVIOUS
    <2>1. i + j \in 1..Len(text)
      BY DigitsTyped DEF StandsAt
    <2> QED
      BY <2>1 DEF Reads, StandsAt
  <1>3. \A j \in 1..Len(Digits(n)) : Digits(n)[j] \in 0..9
    BY DigitsTyped
  <1>4. \A m \in Nat, c \in 0..9 : ReadChar(Number(b, k, m), c) = Number(b, k, 10 * m + c)
    BY DigitRead
  <1>5. \A c \in 0..9 : ReadChar(Number(b, k, 0), c) = Number(b, k, c)
    <2> SUFFICES ASSUME NEW c \in 0..9
                 PROVE  ReadChar(Number(b, k, 0), c) = Number(b, k, c)
      OBVIOUS
    <2>1. 10 * 0 + c = c
      OBVIOUS
    <2>2. ReadChar(Number(b, k, 0), c) = Number(b, k, 10 * 0 + c)
      BY <1>4, Zenon
    <2> QED
      BY <2>1, <2>2
  <1>6. (i + 1) - 1 = i /\ (i + 2) - 1 = i + 1 /\ (i + 3) - 1 = i + 2
    OBVIOUS
  <1>7. CASE n < 10 /\ Digits(n) = <<n>>
    <2>1. Len(Digits(n)) = 1 /\ Digits(n)[1] = n /\ 1 \in 1..1 /\ n \in 0..9
      BY <1>1, <1>7
    <2>2. so[i + 1] = ReadChar(Number(b, k, 0), n)
      BY <1>2, <1>6, <2>1
    <2> QED
      BY <1>5, <2>1, <2>2
  <1>8. CASE n >= 10 /\ n < 100 /\ Digits(n) = <<n \div 10, n % 10>>
    <2>1. /\ Len(Digits(n)) = 2 /\ Digits(n)[1] = n \div 10 /\ Digits(n)[2] = n % 10
          /\ 1 \in 1..2 /\ 2 \in 1..2
      BY <1>8
    <2>2. n \div 10 \in 0..9 /\ n % 10 \in 0..9
      BY <1>3, <2>1
    <2>3. so[i + 1] = Number(b, k, n \div 10)
      <3>1. so[i + 1] = ReadChar(Number(b, k, 0), n \div 10)
        BY <1>2, <1>6, <2>1
      <3> QED
        BY <1>5, <2>2, <3>1
    <2>4. so[i + 2] = Number(b, k, 10 * (n \div 10) + (n % 10))
      <3>1. so[i + 2] = ReadChar(Number(b, k, n \div 10), n % 10)
        BY <1>2, <1>6, <2>1, <2>3
      <3>2. ReadChar(Number(b, k, n \div 10), n % 10)
                = Number(b, k, 10 * (n \div 10) + (n % 10))
        <4>1. n \div 10 \in Nat
          BY <2>2
        <4> QED
          BY <1>4, <2>2, <4>1, Zenon
      <3> QED
        BY <3>1, <3>2
    <2>5. 10 * (n \div 10) + (n % 10) = n
      BY <1>1, DivMod
    <2> QED
      BY <2>1, <2>4, <2>5
  <1>9. CASE n >= 100 /\ Digits(n) = <<n \div 100, (n \div 10) % 10, n % 10>>
    <2>1. /\ Len(Digits(n)) = 3 /\ Digits(n)[1] = n \div 100
          /\ Digits(n)[2] = (n \div 10) % 10 /\ Digits(n)[3] = n % 10
          /\ 1 \in 1..3 /\ 2 \in 1..3 /\ 3 \in 1..3
      BY <1>9
    <2>2. n \div 100 \in 0..9 /\ (n \div 10) % 10 \in 0..9 /\ n % 10 \in 0..9
      BY <1>3, <2>1
    <2>3. so[i + 1] = Number(b, k, n \div 100)
      <3>1. so[i + 1] = ReadChar(Number(b, k, 0), n \div 100)
        BY <1>2, <1>6, <2>1
      <3> QED
        BY <1>5, <2>2, <3>1
    <2>4. so[i + 2] = Number(b, k, n \div 10)
      <3>1. so[i + 2] = ReadChar(Number(b, k, n \div 100), (n \div 10) % 10)
        BY <1>2, <1>6, <2>1, <2>3
      <3>2. 10 * (n \div 100) + ((n \div 10) % 10) = n \div 10
        <4>1. n \div 10 \in Int
          BY <1>1
        <4> QED
          BY <1>1, <4>1, DivMod
      <3>3. n \div 100 \in Nat
        BY <2>2
      <3>4. ReadChar(Number(b, k, n \div 100), (n \div 10) % 10)
                = Number(b, k, 10 * (n \div 100) + ((n \div 10) % 10))
        BY <1>4, <2>2, <3>3, Zenon
      <3> QED
        BY <3>1, <3>2, <3>4
    <2>5. so[i + 3] = Number(b, k, 10 * (n \div 10) + (n % 10))
      <3>1. so[i + 3] = ReadChar(Number(b, k, n \div 10), n % 10)
        BY <1>2, <1>6, <2>1, <2>4
      <3>2. n \div 10 \in Nat
        BY <1>1
      <3>3. ReadChar(Number(b, k, n \div 10), n % 10)
                = Number(b, k, 10 * (n \div 10) + (n % 10))
        BY <1>4, <2>2, <3>2, Zenon
      <3> QED
        BY <3>1, <3>3
    <2>6. 10 * (n \div 10) + (n % 10) = n
      BY <1>1, DivMod
    <2> QED
      BY <2>1, <2>5, <2>6
  <1> QED
    BY <1>7, <1>8, <1>9, DigitsAre
------------------------------------------------------------------------------
(* The address of a camera, as it is printed.                                *)

\* What every printed address begins with.
Prefix == <<1, 9, 2, Dot, 1, 6, 8, Dot>>

\* d is this prefix, u, a dot and v.
LaidOut(d, u, v) ==
    /\ Len(d) = 9 + Len(u) + Len(v)
    /\ \A j \in 1..8 : d[j] = Prefix[j]
    /\ \A j \in 1..Len(u) : d[8 + j] = u[j]
    /\ d[9 + Len(u)] = Dot
    /\ \A j \in 1..Len(v) : d[9 + Len(u) + j] = v[j]

\* Two texts, one behind the other.
LEMMA Chained ==
    ASSUME NEW s \in Seq(Nat), NEW t \in Seq(Nat)
    PROVE  /\ s \o t \in Seq(Nat)
           /\ Len(s \o t) = Len(s) + Len(t)
           /\ \A j \in 1..Len(s) : (s \o t)[j] = s[j]
           /\ \A j \in 1..Len(t) : (s \o t)[Len(s) + j] = t[j]
  OBVIOUS

\* The characters of 192.168.n.x, one after the other.
LEMMA DottedAre ==
    ASSUME NEW n \in Byte, NEW x \in Byte
    PROVE  /\ Dotted(<<n, x>>) \in Seq(Nat)
           /\ LaidOut(Dotted(<<n, x>>), Digits(n), Digits(x))
  <1>1. PICK u \in Seq(Nat), v \in Seq(Nat) : u = Digits(n) /\ v = Digits(x)
    BY DigitsTyped
  <1>2. PICK s \in Seq(Nat) : s = Prefix /\ Len(s) = 8
    <2>1. 10 \in Nat
      OBVIOUS
    <2>2. Prefix = <<1, 9, 2, 10, 1, 6, 8, 10>>
      BY DEF Prefix, Dot
    <2>3. <<1, 9, 2, 10, 1, 6, 8, 10>> \in Seq(Nat) /\ Len(<<1, 9, 2, 10, 1, 6, 8, 10>>) = 8
      OBVIOUS
    <2> QED
      BY <2>2, <2>3
  <1>3. Dotted(<<n, x>>) = ((s \o u) \o <<Dot>>) \o v
    BY <1>1, <1>2 DEF Dotted, Prefix
  <1> DEFINE t == s \o u
             w == t \o <<Dot>>
             d == w \o v
  <1>4. /\ t \in Seq(Nat) /\ Len(t) = 8 + Len(u)
        /\ \A j \in 1..8 : t[j] = s[j]
        /\ \A j \in 1..Len(u) : t[8 + j] = u[j]
    <2>1. /\ t \in Seq(Nat) /\ Len(t) = Len(s) + Len(u)
          /\ \A j \in 1..Len(s) : t[j] = s[j]
          /\ \A j \in 1..Len(u) : t[Len(s) + j] = u[j]
      BY Chained
    <2> HIDE DEF t
    <2> QED
      BY <1>2, <2>1
  <1>5. /\ w \in Seq(Nat) /\ Len(w) = 9 + Len(u)
        /\ \A j \in 1..(8 + Len(u)) : w[j] = t[j]
        /\ w[9 + Len(u)] = Dot
    <2> HIDE DEF t
    <2>1. Dot \in Nat
      BY DEF Dot
    <2>2. /\ w \in Seq(Nat) /\ Len(w) = Len(t) + 1
          /\ \A j \in 1..Len(t) : w[j] = t[j]
          /\ w[Len(t) + 1] = Dot
      BY <1>4, <2>1, Appended
    <2>3. Len(t) + 1 = 9 + Len(u)
      BY <1>4
    <2> HIDE DEF w
    <2> QED
      BY <1>4, <2>2, <2>3
  <1>6. /\ d \in Seq(Nat) /\ Len(d) = 9 + Len(u) + Len(v)
        /\ \A j \in 1..(9 + Len(u)) : d[j] = w[j]
        /\ \A j \in 1..Len(v) : d[9 + Len(u) + j] = v[j]
    <2> HIDE DEF w
    <2>1. /\ d \in Seq(Nat) /\ Len(d) = Len(w) + Len(v)
          /\ \A j \in 1..Len(w) : d[j] = w[j]
          /\ \A j \in 1..Len(v) : d[Len(w) + j] = v[j]
      BY <1>5, Chained
    <2> HIDE DEF d
    <2> QED
      BY <1>5, <2>1
  <1>7. Dotted(<<n, x>>) = d
    BY <1>3
  <1> HIDE DEF t, w, d
  <1>8. /\ \A j \in 1..8 : d[j] = s[j]
        /\ \A j \in 1..Len(u) : d[8 + j] = u[j]
        /\ d[9 + Len(u)] = Dot
    <2>1. Len(u) \in Nat
      OBVIOUS
    <2>2. ASSUME NEW j \in 1..(8 + Len(u)) PROVE d[j] = t[j]
      BY <1>5, <1>6, <2>1
    <2>3. d[9 + Len(u)] = Dot
      BY <1>5, <1>6, <2>1
    <2>4. ASSUME NEW j \in 1..8 PROVE d[j] = s[j]
      <3>1. j \in 1..(8 + Len(u))
        BY <2>1
      <3> QED
        BY <1>4, <2>2, <3>1
    <2>5. ASSUME NEW j \in 1..Len(u) PROVE d[8 + j] = u[j]
      <3>1. 8 + j \in 1..(8 + Len(u))
        BY <2>1
      <3> QED
        BY <1>4, <2>2, <3>1
    <2> QED
      BY <2>3, <2>4, <2>5
  <1> QED
    BY <1>1, <1>2, <1>6, <1>7, <1>8 DEF LaidOut

\* No character of it is a newline.
LEMMA DottedPlain ==
    ASSUME NEW n \in Byte, NEW x \in Byte, NEW j \in 1..Len(Dotted(<<n, x>>))
    PROVE  Dotted(<<n, x>>)[j] # Newline
  <1>1. PICK d \in Seq(Nat), u \in Seq(Nat), v \in Seq(Nat) :
            d = Dotted(<<n, x>>) /\ u = Digits(n) /\ v = Digits(x) /\ LaidOut(d, u, v)
    BY DigitsTyped, DottedAre
  <1>2. PICK l \in 1..3 : l = Len(u)
    BY <1>1, DigitsTyped
  <1>3. /\ Len(d) = 9 + l + Len(v)
        /\ \A i \in 1..8 : d[i] = Prefix[i]
        /\ \A i \in 1..l : d[8 + i] = u[i]
        /\ d[9 + l] = Dot
        /\ \A i \in 1..Len(v) : d[9 + l + i] = v[i]
    BY <1>1, <1>2 DEF LaidOut
  <1>4. (\A i \in 1..l : u[i] \in 0..9) /\ (\A i \in 1..Len(v) : v[i] \in 0..9)
    BY <1>1, <1>2, DigitsTyped
  <1>5. j \in Int /\ 1 <= j /\ j <= 9 + l + Len(v)
    BY <1>1, <1>3
  <1>6. CASE j \in 1..8
    <2>1. \A i \in 1..8 : Prefix[i] # Newline
      BY DEF Prefix, Dot, Newline
    <2> QED
      BY <1>1, <1>3, <1>6, <2>1
  <1>7. CASE j \in 9..(8 + l)
    <2>1. PICK i \in 1..l : j = 8 + i
      BY <1>2, <1>7
    <2>2. d[j] \in 0..9
      BY <1>3, <1>4, <2>1
    <2> QED
      BY <1>1, <2>2 DEF Newline
  <1>8. CASE j = 9 + l
    BY <1>1, <1>3, <1>8 DEF Dot, Newline
  <1>9. CASE j > 9 + l
    <2>1. PICK i \in 1..Len(v) : j = 9 + l + i
      <3>1. PICK k \in Int : k = j - 9 - l
        BY <1>5
      <3>2. k \in 1..Len(v) /\ j = 9 + l + k
        BY <1>5, <1>9, <3>1
      <3> QED
        BY <3>2
    <2>2. d[j] \in 0..9
      BY <1>3, <1>4, <2>1
    <2> QED
      BY <1>1, <2>2 DEF Newline
  <1> QED
    BY <1>2, <1>5, <1>6, <1>7, <1>8, <1>9

\* create_unique_port_from_ip reads the last two numbers of an address as they
\* were printed, and puts no digit outside its four bytes.
LEMMA DottedRead ==
    ASSUME NEW n \in Byte, NEW x \in Byte
    PROVE  /\ Camera(Parsed(Dotted(<<n, x>>))) = <<n, x>>
           /\ ~Parsed(Dotted(<<n, x>>)).outside
  <1>1. PICK d \in Seq(Nat), u \in Seq(Nat), v \in Seq(Nat) :
            d = Dotted(<<n, x>>) /\ u = Digits(n) /\ v = Digits(x) /\ LaidOut(d, u, v)
    BY DigitsTyped, DottedAre
  <1>2. PICK l \in 1..3, m \in 1..3 : l = Len(u) /\ m = Len(v)
    BY <1>1, DigitsTyped
  <1>3. /\ Len(d) = 9 + l + m
        /\ \A i \in 1..8 : d[i] = Prefix[i]
        /\ \A i \in 1..l : d[8 + i] = u[i]
        /\ d[9 + l] = Dot
        /\ \A i \in 1..m : d[9 + l + i] = v[i]
    BY <1>1, <1>2 DEF LaidOut
  <1>4. PICK so : Reads(d, so) /\ Parsed(d) = so[Len(d)]
    BY <1>3, ParsedReads
  <1>5. \A i \in 1..(9 + l + m) : so[i] = ReadChar(so[i - 1], d[i])
    BY <1>3, <1>4 DEF Reads
  <1>6. 192 \in Byte /\ 168 \in Byte /\ Digits(192) = <<1, 9, 2>> /\ Digits(168) = <<1, 6, 8>>
    <2>1. 192 \in Byte /\ 168 \in Byte
      BY DEF Byte
    <2>2. 192 \div 100 = 1 /\ (192 \div 10) % 10 = 9 /\ 192 % 10 = 2
      OBVIOUS
    <2>3. 168 \div 100 = 1 /\ (168 \div 10) % 10 = 6 /\ 168 % 10 = 8
      OBVIOUS
    <2>4. Digits(192) = <<1, 9, 2>>
      BY <2>1, <2>2, DigitsAre
    <2>5. Digits(168) = <<1, 6, 8>>
      BY <2>1, <2>3, DigitsAre
    <2> QED
      BY <2>1, <2>4, <2>5
  <1>7. /\ d[1] = 1 /\ d[2] = 9 /\ d[3] = 2 /\ d[4] = Dot
        /\ d[5] = 1 /\ d[6] = 6 /\ d[7] = 8 /\ d[8] = Dot
    BY <1>3 DEF Prefix
  <1>8. PICK b0 \in Numbers, b1 \in Numbers, b2 \in Numbers, b3 \in Numbers :
            /\ b0 = <<0, 0, 0, 0>> /\ b1 = <<192, 0, 0, 0>>
            /\ b2 = <<192, 168, 0, 0>> /\ b3 = <<192, 168, n, 0>>
    <2>1. n \in Nat
      BY DEF Byte
    <2>2. /\ <<0, 0, 0, 0>> \in [1..4 -> Nat] /\ <<192, 0, 0, 0>> \in [1..4 -> Nat]
          /\ <<192, 168, 0, 0>> \in [1..4 -> Nat]
      OBVIOUS
    <2>3. <<192, 168, n, 0>> \in [1..4 -> Nat]
      BY <2>1
    <2> QED
      BY <2>2, <2>3 DEF Numbers
  <1>9. b0 \in Numbers /\ b1 \in Numbers /\ b2 \in Numbers /\ b3 \in Numbers
    OBVIOUS
  <1>10. d \in Seq(Nat) /\ n \in Byte /\ x \in Byte /\ 192 \in Byte /\ 168 \in Byte
    BY <1>6
  <1>11. ASSUME NEW e \in Byte, NEW b \in Numbers, NEW k \in 0..3, NEW i \in Nat,
                StandsAt(Digits(e), d, i), so[i] = Number(b, k, 0)
         PROVE  so[i + Len(Digits(e))] = Number(b, k, e)
    BY <1>4, <1>10, <1>11, NumberRead
  <1>12. so[0] = Number(b0, 0, 0)
    <2>1. [b0 EXCEPT ![0 + 1] = 0] = <<0, 0, 0, 0>>
      BY <1>8
    <2> QED
      BY <1>4, <2>1 DEF Reads, NothingRead, Number
  <1>13. so[3] = Number(b0, 0, 192)
    <2>1. PICK i \in Nat : i = 0
      OBVIOUS
    <2>2. Digits(192) \in Seq(Nat) /\ Len(Digits(192)) = 3
      <3>1. <<1, 9, 2>> \in Seq(Nat) /\ Len(<<1, 9, 2>>) = 3
        OBVIOUS
      <3> QED
        BY <1>6, <3>1, Zenon
    <2>3. Digits(192)[1] = 1 /\ Digits(192)[2] = 9 /\ Digits(192)[3] = 2
      BY <1>6
    <2>4. \A j \in 1..Len(Digits(192)) : d[i + j] = Digits(192)[j]
      <3>1. /\ d[i + 1] = Digits(192)[1]
            /\ d[i + 2] = Digits(192)[2]
            /\ d[i + 3] = Digits(192)[3]
        BY <1>7, <2>1, <2>3
      <3>2. \A j \in 1..3 : j = 1 \/ j = 2 \/ j = 3
        OBVIOUS
      <3>3. \A j \in 1..3 : d[i + j] = Digits(192)[j]
        BY <3>1, <3>2, Zenon
      <3> QED
        BY <2>2, <3>3
    <2>5. i + Len(Digits(192)) <= Len(d) /\ i + Len(Digits(192)) = 3
      <3>1. 3 <= Len(d)
        BY <1>2, <1>3
      <3>2. i + 3 = 3
        BY <2>1
      <3> QED
        BY <2>2, <3>1, <3>2
    <2>6. so[i] = Number(b0, 0, 0)
      BY <1>12, <2>1
    <2>7. i \in Nat
      OBVIOUS
    <2>8. 0 \in 0..3
      OBVIOUS
    <2>9. StandsAt(Digits(192), d, i)
      BY <2>4, <2>5 DEF StandsAt
    <2>10. so[i + Len(Digits(192))] = Number(b0, 0, 192)
      <3>1. PICK e \in Byte : e = 192
        BY <1>10
      <3>2. PICK k \in 0..3 : k = 0
        BY <2>8
      <3>3. StandsAt(Digits(e), d, i) /\ so[i] = Number(b0, k, 0)
        BY <2>6, <2>9, <3>1, <3>2
      <3>4. so[i + Len(Digits(e))] = Number(b0, k, e)
        BY <1>9, <1>11, <2>7, <3>3, Zenon
      <3> QED
        BY <3>1, <3>2, <3>4
    <2> QED
      BY <2>5, <2>10
  <1>14. so[4] = Number(b1, 1, 0)
    <2>1. so[4] = ReadChar(so[3], Dot)
      BY <1>2, <1>3, <1>5, <1>7
    <2>2. b0[0 + 2] = 0 /\ 192 \in Nat /\ 0 \in 0..2
      BY <1>8 DEF Byte
    <2>3. ReadChar(Number(b0, 0, 192), Dot) = Number([b0 EXCEPT ![0 + 1] = 192], 0 + 1, 0)
      BY <1>9, <2>2, DotRead, Zenon
    <2>4. b1 = [b0 EXCEPT ![0 + 1] = 192] /\ 0 + 1 = 1
      BY <1>8
    <2> QED
      BY <1>13, <2>1, <2>3, <2>4
  <1>15. so[7] = Number(b1, 1, 168)
    <2>1. PICK i \in Nat : i = 4
      OBVIOUS
    <2>2. Digits(168) \in Seq(Nat) /\ Len(Digits(168)) = 3
      <3>1. <<1, 6, 8>> \in Seq(Nat) /\ Len(<<1, 6, 8>>) = 3
        OBVIOUS
      <3> QED
        BY <1>6, <3>1, Zenon
    <2>3. Digits(168)[1] = 1 /\ Digits(168)[2] = 6 /\ Digits(168)[3] = 8
      BY <1>6
    <2>4. \A j \in 1..Len(Digits(168)) : d[i + j] = Digits(168)[j]
      <3>1. /\ d[i + 1] = Digits(168)[1]
            /\ d[i + 2] = Digits(168)[2]
            /\ d[i + 3] = Digits(168)[3]
        BY <1>7, <2>1, <2>3
      <3>2. \A j \in 1..3 : j = 1 \/ j = 2 \/ j = 3
        OBVIOUS
      <3>3. \A j \in 1..3 : d[i + j] = Digits(168)[j]
        BY <3>1, <3>2, Zenon
      <3> QED
        BY <2>2, <3>3
    <2>5. i + Len(Digits(168)) <= Len(d) /\ i + Len(Digits(168)) = 7
      <3>1. 7 <= Len(d)
        BY <1>2, <1>3
      <3>2. i + 3 = 7
        BY <2>1
      <3> QED
        BY <2>2, <3>1, <3>2
    <2>6. so[i] = Number(b1, 1, 0)
      BY <1>14, <2>1
    <2>7. i \in Nat
      OBVIOUS
    <2>8. 1 \in 0..3
      OBVIOUS
    <2>9. StandsAt(Digits(168), d, i)
      BY <2>4, <2>5 DEF StandsAt
    <2>10. so[i + Len(Digits(168))] = Number(b1, 1, 168)
      <3>1. PICK e \in Byte : e = 168
        BY <1>10
      <3>2. PICK k \in 0..3 : k = 1
        BY <2>8
      <3>3. StandsAt(Digits(e), d, i) /\ so[i] = Number(b1, k, 0)
        BY <2>6, <2>9, <3>1, <3>2
      <3>4. so[i + Len(Digits(e))] = Number(b1, k, e)
        BY <1>9, <1>11, <2>7, <3>3, Zenon
      <3> QED
        BY <3>1, <3>2, <3>4
    <2> QED
      BY <2>5, <2>10
  <1>16. so[8] = Number(b2, 2, 0)
    <2>1. so[8] = ReadChar(so[7], Dot)
      BY <1>2, <1>3, <1>5, <1>7
    <2>2. b1[1 + 2] = 0 /\ 168 \in Nat /\ 1 \in 0..2
      BY <1>8 DEF Byte
    <2>3. ReadChar(Number(b1, 1, 168), Dot) = Number([b1 EXCEPT ![1 + 1] = 168], 1 + 1, 0)
      BY <1>9, <2>2, DotRead, Zenon
    <2>4. b2 = [b1 EXCEPT ![1 + 1] = 168] /\ 1 + 1 = 2
      BY <1>8
    <2> QED
      BY <1>15, <2>1, <2>3, <2>4
  <1>17. so[8 + l] = Number(b2, 2, n)
    <2>1. PICK i \in Nat : i = 8
      OBVIOUS
    <2>2. \A j \in 1..Len(Digits(n)) : d[i + j] = Digits(n)[j]
      BY <1>1, <1>2, <1>3, <2>1
    <2>3. i + Len(Digits(n)) <= Len(d) /\ i + Len(Digits(n)) = 8 + l
      BY <1>1, <1>2, <1>3, <2>1
    <2>4. so[i] = Number(b2, 2, 0)
      BY <1>16, <2>1
    <2>5. i \in Nat
      OBVIOUS
    <2>6. 2 \in 0..3
      OBVIOUS
    <2>7. StandsAt(Digits(n), d, i)
      BY <2>2, <2>3 DEF StandsAt
    <2>8. so[i + Len(Digits(n))] = Number(b2, 2, n)
      BY <1>9, <1>10, <1>11, <2>4, <2>5, <2>6, <2>7, Zenon
    <2> QED
      BY <2>3, <2>8
  <1>18. so[9 + l] = Number(b3, 3, 0)
    <2>1. so[9 + l] = ReadChar(so[8 + l], Dot)
      <3>1. 9 + l \in 1..(9 + l + m) /\ (9 + l) - 1 = 8 + l
        BY <1>2
      <3> QED
        BY <1>3, <1>5, <3>1
    <2>2. b2[2 + 2] = 0 /\ n \in Nat /\ 2 \in 0..2
      BY <1>8 DEF Byte
    <2>3. ReadChar(Number(b2, 2, n), Dot) = Number([b2 EXCEPT ![2 + 1] = n], 2 + 1, 0)
      BY <1>9, <2>2, DotRead, Zenon
    <2>4. b3 = [b2 EXCEPT ![2 + 1] = n] /\ 2 + 1 = 3
      BY <1>8
    <2> QED
      BY <1>17, <2>1, <2>3, <2>4
  <1>19. so[9 + l + m] = Number(b3, 3, x)
    <2>1. PICK i \in Nat : i = 9 + l
      BY <1>2
    <2>2. \A j \in 1..Len(Digits(x)) : d[i + j] = Digits(x)[j]
      BY <1>1, <1>2, <1>3, <2>1
    <2>3. i + Len(Digits(x)) <= Len(d) /\ i + Len(Digits(x)) = 9 + l + m
      BY <1>1, <1>2, <1>3, <2>1
    <2>4. so[i] = Number(b3, 3, 0)
      BY <1>18, <2>1
    <2>5. i \in Nat
      OBVIOUS
    <2>6. 3 \in 0..3
      OBVIOUS
    <2>7. StandsAt(Digits(x), d, i)
      BY <2>2, <2>3 DEF StandsAt
    <2>8. so[i + Len(Digits(x))] = Number(b3, 3, x)
      BY <1>9, <1>10, <1>11, <2>4, <2>5, <2>6, <2>7, Zenon
    <2> QED
      BY <2>3, <2>8
  <1>20. [b3 EXCEPT ![3 + 1] = x] = <<192, 168, n, x>>
    BY <1>8
  <1>21. Parsed(d) = [bytes |-> <<192, 168, n, x>>, idx |-> 3, outside |-> FALSE]
    BY <1>3, <1>4, <1>19, <1>20 DEF Number
  <1>22. Parsed(d).bytes[3] = n /\ Parsed(d).bytes[4] = x /\ ~Parsed(d).outside
    BY <1>21
  <1> QED
    BY <1>1, <1>22 DEF Camera
------------------------------------------------------------------------------
(* Where an address stands in a text, and what strtok makes of it.           *)

\* Where a token begins: behind newlines only.
LEMMA FirstIs ==
    ASSUME NEW text \in Seq(Nat), NEW i \in 1..Len(text), text[i] # Newline
    PROVE  First(text) \in 1..i
  <1> DEFINE I == {j \in 1..Len(text) : text[j] # Newline}
  <1>1. First(text) = IF I # {} THEN Min(I) ELSE 0
    BY DEF First, SelectInSeq
  <1>2. I \in SUBSET Nat /\ i \in I
    OBVIOUS
  <1>3. Min(I) \in I /\ Min(I) <= i
    BY <1>2, LeastOf
  <1> QED
    BY <1>1, <1>2, <1>3

\* Where a line ends: no newline is before it.
LEMMA NewlineIs ==
    ASSUME NEW text \in Seq(Nat), NEW i \in 1..Len(text), text[i] = Newline
    PROVE  NewlineIn(text) \in 1..i /\ text[NewlineIn(text)] = Newline
  <1> DEFINE closed == text \o <<Newline>>
             I == {j \in 1..Len(closed) : closed[j] = Newline}
  <1>1. Newline \in Nat
    BY DEF Newline
  <1>2. /\ Len(closed) = Len(text) + 1
        /\ \A j \in 1..Len(text) : closed[j] = text[j]
    BY <1>1
  <1>3. NewlineIn(text) = IF I # {} THEN Min(I) ELSE 0
    BY DEF NewlineIn, SelectInSeq
  <1>4. I \in SUBSET Nat /\ i \in I
    BY <1>2
  <1>5. Min(I) \in I /\ Min(I) <= i
    BY <1>4, LeastOf
  <1>6. NewlineIn(text) \in I /\ NewlineIn(text) <= i
    BY <1>3, <1>4, <1>5
  <1> HIDE DEF closed
  <1> QED
    BY <1>2, <1>6

\* d stands in text at i, on a line of its own.
Stands(text, i, d) ==
    /\ i \in 1..(Len(text) - Len(d))
    /\ i = 1 \/ text[i - 1] = Newline
    /\ \A j \in 1..Len(d) : text[i + j - 1] = d[j]
    /\ text[i + Len(d)] = Newline

\* What Named asks of an address, character by character.
LEMMA StandsThere ==
    ASSUME NEW text \in Seq(Nat), NEW d \in Seq(Nat), NEW i \in 1..(Len(text) - Len(d))
    PROVE  SubSeq(text, i, i + Len(d)) = d \o <<Newline>>
             <=> /\ \A j \in 1..Len(d) : text[i + j - 1] = d[j]
                 /\ text[i + Len(d)] = Newline
  <1>1. Newline \in Nat /\ Len(d) \in Nat /\ Len(text) \in Nat /\ i \in Int /\ 1 <= i
        /\ i + Len(d) <= Len(text)
    BY DEF Newline
  <1> DEFINE u == SubSeq(text, i, i + Len(d))
             v == d \o <<Newline>>
  <1>2. /\ u \in Seq(Nat) /\ Len(u) = Len(d) + 1
        /\ \A j \in 1..(Len(d) + 1) : u[j] = text[i + j - 1]
    <2>1. \A k \in i..(i + Len(d)) : text[k] \in Nat
      BY <1>1
    <2>2. u \in Seq(Nat) /\ Len(u) = (i + Len(d)) - i + 1
          /\ \A k \in 1..((i + Len(d)) - i + 1) : u[k] = text[k + i - 1]
      BY <1>1, <2>1, SubSeqProperties, SMTT(30)
    <2>3. (i + Len(d)) - i + 1 = Len(d) + 1
      BY <1>1
    <2>4. \A k \in 1..(Len(d) + 1) : k + i - 1 = i + k - 1
      BY <1>1
    <2> HIDE DEF u
    <2> QED
      BY <2>2, <2>3, <2>4
  <1>3. /\ v \in Seq(Nat) /\ Len(v) = Len(d) + 1
        /\ v[Len(d) + 1] = Newline
        /\ \A j \in 1..Len(d) : v[j] = d[j]
    BY <1>1, Appended
  <1> HIDE DEF u, v
  <1>4. u = v <=> \A j \in 1..(Len(d) + 1) : u[j] = v[j]
    BY <1>2, <1>3
  <1>5. (\A j \in 1..(Len(d) + 1) : u[j] = v[j])
            <=> (\A j \in 1..Len(d) : u[j] = v[j]) /\ u[Len(d) + 1] = v[Len(d) + 1]
    BY <1>1
  <1>6. u[Len(d) + 1] = text[i + Len(d)]
    <2>1. Len(d) + 1 \in 1..(Len(d) + 1) /\ i + (Len(d) + 1) - 1 = i + Len(d)
      BY <1>1
    <2> QED
      BY <1>2, <2>1
  <1>7. (\A j \in 1..Len(d) : u[j] = v[j])
            <=> (\A j \in 1..Len(d) : text[i + j - 1] = d[j])
    <2>1. ASSUME NEW j \in 1..Len(d) PROVE u[j] = text[i + j - 1] /\ v[j] = d[j]
      <3>1. j \in 1..(Len(d) + 1)
        BY <1>1
      <3> QED
        BY <1>2, <1>3, <3>1
    <2> QED
      BY <2>1
  <1> QED
    BY <1>3, <1>4, <1>5, <1>6, <1>7 DEF u, v

\* Texts of the same characters are the same.
LEMMA SameText ==
    ASSUME NEW s \in Seq(Nat), NEW t \in Seq(Nat), Len(s) = Len(t),
           \A j \in 1..Len(s) : s[j] = t[j]
    PROVE  s = t
  OBVIOUS

\* strtok makes a token of an address that stands on a line of its own, or
\* leaves it on a line of its own in what is still to be read.
LEMMA TokenTaken ==
    ASSUME NEW text \in Seq(Nat), NEW d \in Seq(Nat), Len(d) > 0,
           \A j \in 1..Len(d) : d[j] # Newline,
           NEW i, Stands(text, i, d)
    PROVE  /\ First(text) # 0
           /\ \/ Token(text) = d
              \/ /\ AfterToken(text) \in Seq(Nat)
                 /\ \E k : Stands(AfterToken(text), k, d)
  <1>1. /\ Len(d) \in Nat /\ Len(text) \in Nat /\ i \in Int /\ 1 <= i
        /\ i + Len(d) <= Len(text)
        /\ i = 1 \/ text[i - 1] = Newline
        /\ \A j \in 1..Len(d) : text[i + j - 1] = d[j]
        /\ text[i + Len(d)] = Newline
    BY DEF Stands
  <1>2. text[i] # Newline
    <2>1. 1 \in 1..Len(d) /\ i + 1 - 1 = i
      BY <1>1
    <2> QED
      BY <1>1, <2>1
  <1>3. PICK f \in 1..i : f = First(text)
    <2>1. i \in 1..Len(text)
      BY <1>1
    <2> QED
      BY <1>2, <2>1, FirstIs
  <1>4. f \in 1..Len(text) /\ f \in Int /\ 1 <= f /\ f <= i
    BY <1>1, <1>3
  <1>5. PICK s \in Seq(Nat) : /\ s = Stripped(text) /\ s = SubSeq(text, f, Len(text))
                              /\ Len(s) = Len(text) - f + 1
                              /\ \A k \in 1..(Len(text) - f + 1) : s[k] = text[f + k - 1]
    <2>1. 1 \in 1..(Len(text) - f + 1)
      BY <1>1, <1>4
    <2>2. SubSeq(text, f, Len(text)) \in Seq(Nat)
          /\ Len(SubSeq(text, f, Len(text))) = Len(text) - f + 1
      BY <1>4, <2>1, EndOfEnd
    <2>3. \A k \in 1..(Len(text) - f + 1) : SubSeq(text, f, Len(text))[k] = text[f + k - 1]
      BY <1>4, EndOfEnd
    <2> QED
      BY <1>3, <2>2, <2>3 DEF Stripped
  <1>6. CASE f = i
    <2>1. \A j \in 1..Len(d) : s[j] = d[j]
      BY <1>1, <1>5, <1>6
    <2>2. Len(d) + 1 \in 1..Len(s) /\ s[Len(d) + 1] = Newline
      <3>1. Len(d) + 1 \in 1..(Len(text) - f + 1) /\ f + (Len(d) + 1) - 1 = i + Len(d)
        BY <1>1, <1>6
      <3> QED
        BY <1>1, <1>5, <3>1
    <2>3. PICK n \in 1..(Len(d) + 1) : n = NewlineIn(s) /\ s[n] = Newline
      BY <2>2, NewlineIs
    <2>4. n = Len(d) + 1
      <3>1. n \in 1..Len(d) => s[n] # Newline
        BY <2>1
      <3> QED
        BY <1>1, <2>3, <3>1
    <2>5. Token(text) = SubSeq(s, 1, Len(d))
      <3>1. (Len(d) + 1) - 1 = Len(d)
        BY <1>1
      <3> QED
        BY <1>5, <2>3, <2>4, <3>1 DEF Token
    <2>6. /\ SubSeq(s, 1, Len(d)) \in Seq(Nat) /\ Len(SubSeq(s, 1, Len(d))) = Len(d)
          /\ \A k \in 1..Len(d) : SubSeq(s, 1, Len(d))[k] = s[k]
      <3>1. ASSUME NEW k \in 1..Len(d) PROVE s[k] \in Nat
        <4>1. k \in 1..Len(s)
          BY <1>1, <2>2
        <4> QED
          BY <4>1
      <3>2. /\ SubSeq(s, 1, Len(d)) \in Seq(Nat) /\ Len(SubSeq(s, 1, Len(d))) = Len(d) - 1 + 1
            /\ \A k \in 1..(Len(d) - 1 + 1) : SubSeq(s, 1, Len(d))[k] = s[k + 1 - 1]
        BY <1>1, <3>1, SubSeqProperties, SMTT(30)
      <3>3. Len(d) - 1 + 1 = Len(d) /\ \A k \in 1..Len(d) : k + 1 - 1 = k
        BY <1>1
      <3> QED
        BY <3>2, <3>3
    <2> DEFINE token == SubSeq(s, 1, Len(d))
    <2>7. /\ token \in Seq(Nat) /\ d \in Seq(Nat) /\ Len(token) = Len(d)
          /\ \A k \in 1..Len(token) : token[k] = d[k]
      BY <2>1, <2>6
    <2> HIDE DEF token
    <2>8. token = d
      BY <2>7, SameText
    <2> QED
      BY <1>3, <2>5, <2>8 DEF token
  <1>7. CASE f < i
    <2>1. i - f \in 1..Len(s) /\ s[i - f] = Newline
      <3>1. i - f \in 1..(Len(text) - f + 1) /\ f + (i - f) - 1 = i - 1 /\ i # 1
        BY <1>1, <1>4, <1>7
      <3> QED
        BY <1>1, <1>5, <3>1
    <2>2. PICK n \in 1..(i - f) : n = NewlineIn(s)
      BY <2>1, NewlineIs
    <2>3. n + 1 \in 1..(Len(text) - f + 1) /\ f + (n + 1) - 1 = f + n
      <3>1. n \in Int /\ 1 <= n /\ n <= i - f
        BY <1>4, <2>2
      <3>2. 1 <= n + 1 /\ n + 1 <= Len(text) - f + 1
        <4>1. i <= Len(text) /\ i \in Int /\ f \in Int /\ Len(text) \in Int
          BY <1>1
        <4> QED
          BY <3>1, <4>1
      <3> QED
        BY <1>4, <3>1, <3>2
    <2>4. AfterToken(text) = SubSeq(text, f + n, Len(text))
      <3>1. AfterToken(text) = SubSeq(s, n + 1, Len(s))
        BY <1>5, <2>2 DEF AfterToken
      <3>2. SubSeq(s, n + 1, Len(s)) = SubSeq(text, f + (n + 1) - 1, Len(text))
        BY <1>4, <1>5, <2>3, EndOfEnd
      <3> QED
        BY <2>3, <3>1, <3>2
    <2>5. PICK b \in 1..i : b = f + n
      BY <1>1, <1>4, <2>2
    <2>6. b \in 1..Len(text)
      BY <1>1, <2>5
    <2>7. PICK r \in Seq(Nat) : /\ r = AfterToken(text)
                                /\ Len(r) = Len(text) - b + 1
                                /\ \A k \in 1..(Len(text) - b + 1) : r[k] = text[b + k - 1]
      <3>1. 1 \in 1..(Len(text) - b + 1)
        BY <1>1, <2>5
      <3>2. SubSeq(text, b, Len(text)) \in Seq(Nat)
            /\ Len(SubSeq(text, b, Len(text))) = Len(text) - b + 1
        BY <2>6, <3>1, EndOfEnd
      <3>3. \A k \in 1..(Len(text) - b + 1) : SubSeq(text, b, Len(text))[k] = text[b + k - 1]
        BY <2>6, EndOfEnd
      <3> QED
        BY <2>4, <2>5, <3>2, <3>3
    <2>8. PICK k \in Int : k = i - b + 1
      BY <1>1
    <2>9. b \in Int /\ 1 <= b /\ b <= i /\ Len(text) - b + 1 \in Int
      BY <1>1, <2>5
    <2>10. k \in 1..(Len(r) - Len(d))
      BY <1>1, <2>5, <2>7, <2>8
    <2>11. k = 1 \/ r[k - 1] = Newline
      <3>1. k # 1 => k - 1 \in 1..(Len(text) - b + 1) /\ b + (k - 1) - 1 = i - 1 /\ i # 1
        <4>1. k # 1 => k - 1 >= 1 /\ i # 1
          BY <1>1, <2>8, <2>9
        <4>2. k - 1 <= Len(text) - b + 1 /\ b + (k - 1) - 1 = i - 1
          BY <1>1, <2>8, <2>9
        <4> QED
          BY <1>1, <2>9, <4>1, <4>2
      <3> QED
        BY <1>1, <2>7, <3>1
    <2>12. ASSUME NEW j \in 1..Len(d) PROVE r[k + j - 1] = d[j]
      <3>1. k + j - 1 \in 1..(Len(text) - b + 1) /\ b + (k + j - 1) - 1 = i + j - 1
        BY <1>1, <2>5, <2>8
      <3> QED
        BY <1>1, <2>7, <3>1
    <2>13. r[k + Len(d)] = Newline
      <3>1. k + Len(d) \in 1..(Len(text) - b + 1) /\ b + (k + Len(d)) - 1 = i + Len(d)
        <4>1. PICK m \in Nat : m = Len(d)
          BY <1>1
        <4>2. PICK l \in Nat : l = Len(text)
          BY <1>1
        <4>3. k + m \in 1..(l - b + 1) /\ b + (k + m) - 1 = i + m
          BY <1>1, <2>8, <2>9, <4>1, <4>2
        <4> QED
          BY <4>1, <4>2, <4>3
      <3> QED
        BY <1>1, <2>7, <3>1
    <2>14. Stands(r, k, d)
      BY <2>10, <2>11, <2>12, <2>13 DEF Stands
    <2> QED
      BY <1>3, <2>7, <2>14
  <1>8. f = i \/ f < i
    BY <1>1, <1>4
  <1> QED
    BY <1>6, <1>7, <1>8, Zenon
------------------------------------------------------------------------------
\* An address as the pair of its bytes.
LEMMA AddressBytes ==
    ASSUME NEW a \in Address
    PROVE  \E n \in Byte, x \in Byte : a = <<n, x>>
  <1>1. a \in Byte \X Byte
    BY AddressAssumption DEF Byte
  <1> QED
    BY <1>1

\* An address as it is printed: some characters, no newline among them.
LEMMA Printable ==
    ASSUME NEW a \in Address
    PROVE  /\ Dotted(a) \in Seq(Nat) /\ Len(Dotted(a)) > 0
           /\ \A j \in 1..Len(Dotted(a)) : Dotted(a)[j] # Newline
  <1>1. PICK n \in Byte, x \in Byte : a = <<n, x>>
    BY AddressBytes
  <1>2. Dotted(<<n, x>>) \in Seq(Nat) /\ LaidOut(Dotted(<<n, x>>), Digits(n), Digits(x))
    BY DottedAre
  <1>3. PICK d \in Seq(Nat), u \in Seq(Nat), v \in Seq(Nat) :
            d = Dotted(a) /\ u = Digits(n) /\ v = Digits(x) /\ LaidOut(d, u, v)
    BY <1>1, <1>2, DigitsTyped
  <1>4. Len(d) > 0
    <2>1. Len(d) = 9 + Len(u) + Len(v)
      BY <1>3 DEF LaidOut
    <2> QED
      BY <2>1
  <1>5. \A j \in 1..Len(Dotted(<<n, x>>)) : Dotted(<<n, x>>)[j] # Newline
    BY DottedPlain
  <1> QED
    BY <1>1, <1>3, <1>4, <1>5

\* Named, with the places an address stands at.
LEMMA NamedIs ==
    ASSUME NEW text \in Seq(Nat), NEW a \in Address
    PROVE  a \in Named(text) <=> \E i : Stands(text, i, Dotted(a))
  <1>1. PICK d \in Seq(Nat) : d = Dotted(a)
    BY Printable
  <1>2. a \in Named(text) <=> \E i \in 1..(Len(text) - Len(d)) :
            /\ i = 1 \/ text[i - 1] = Newline
            /\ SubSeq(text, i, i + Len(d)) = d \o <<Newline>>
    BY <1>1, Zenon DEF Named
  <1>3. \A i \in 1..(Len(text) - Len(d)) :
            (/\ i = 1 \/ text[i - 1] = Newline
             /\ SubSeq(text, i, i + Len(d)) = d \o <<Newline>>) <=> Stands(text, i, d)
    <2> SUFFICES ASSUME NEW i \in 1..(Len(text) - Len(d))
                 PROVE  (/\ i = 1 \/ text[i - 1] = Newline
                         /\ SubSeq(text, i, i + Len(d)) = d \o <<Newline>>)
                            <=> Stands(text, i, d)
      OBVIOUS
    <2>1. SubSeq(text, i, i + Len(d)) = d \o <<Newline>>
             <=> /\ \A j \in 1..Len(d) : text[i + j - 1] = d[j]
                 /\ text[i + Len(d)] = Newline
      BY StandsThere
    <2> QED
      BY <2>1, Zenon DEF Stands
  <1>4. \A i : Stands(text, i, d) => i \in 1..(Len(text) - Len(d))
    BY DEF Stands
  <1> QED
    BY <1>1, <1>2, <1>3, <1>4, Zenon

\* A camera named in what is left to read is the next line, or is named in
\* what is left behind that.
LEMMA NextNamed ==
    ASSUME NEW text \in Seq(Nat), NEW a \in Named(text)
    PROVE  /\ First(text) # 0
           /\ \/ Camera(Parsed(Token(text))) = a /\ ~Parsed(Token(text)).outside
              \/ a \in Named(AfterToken(text))
  <1>1. a \in Address
    BY DEF Named
  <1>2. PICK d \in Seq(Nat) : /\ d = Dotted(a) /\ Len(d) > 0
                              /\ \A j \in 1..Len(d) : d[j] # Newline
    BY <1>1, Printable
  <1>3. PICK i : Stands(text, i, d)
    BY <1>1, <1>2, NamedIs
  <1>4. /\ First(text) # 0
        /\ \/ Token(text) = d
           \/ /\ AfterToken(text) \in Seq(Nat)
              /\ \E k : Stands(AfterToken(text), k, d)
    BY <1>2, <1>3, TokenTaken
  <1>5. CASE Token(text) = d
    <2>1. PICK n \in Byte, x \in Byte : a = <<n, x>>
      BY <1>1, AddressBytes
    <2>2. Camera(Parsed(Dotted(a))) = a /\ ~Parsed(Dotted(a)).outside
      BY <2>1, DottedRead
    <2> QED
      BY <1>2, <1>4, <1>5, <2>2
  <1>6. CASE AfterToken(text) \in Seq(Nat) /\ \E k : Stands(AfterToken(text), k, d)
    BY <1>1, <1>2, <1>4, <1>6, NamedIs
  <1> QED
    BY <1>4, <1>5, <1>6

\* While its lines are read, every camera the text names has been announced or
\* is named in what is left.
NamedLater == Intact /\ stage = "lines" => Named(output) \subseteq announced \cup Named(rest)

\* What is left of a text is a text.
LEMMA RestIsText ==
    ASSUME OutputInv, stage = "lines"
    PROVE  rest \in Seq(Nat)
  <1>1. output \in Seq(Nat)
    BY DEF OutputInv, TextInv, TextTypeOK
  <1>2. CASE rest = <<>>
    BY <1>2
  <1>3. ASSUME NEW i \in 1..Len(output), rest = SubSeq(output, i, Len(output))
        PROVE  rest \in Seq(Nat)
    <2>1. 1 \in 1..(Len(output) - i + 1)
      BY <1>1
    <2> QED
      BY <1>1, <1>3, <2>1, EndOfEnd
  <1> QED
    BY <1>2, <1>3 DEF OutputInv, LinesOfText

\* A line read is announced, when its camera was to be.
LEMMA NamedKeptByLine ==
    ASSUME OutputInv, NamedLater, AddLine
    PROVE  NamedLater'
  <1> SUFFICES ASSUME Intact', NEW a \in Named(output)
               PROVE  a \in announced' \cup Named(rest')
    <2>1. UNCHANGED output
      BY DEF AddLine, commandVars
    <2> QED
      BY <2>1 DEF NamedLater, Named
  <1>1. Intact /\ stage = "lines" /\ rest' = AfterToken(rest)
    BY DEF AddLine
  <1>2. memory' = "intact" /\ bitset' = "intact"
    BY DEF Intact
  <1>3. rest \in Seq(Nat)
    BY <1>1, RestIsText
  <1> DEFINE line == Parsed(Token(rest))
  <1>4. CASE a \in announced
    <2>1. announced \subseteq announced'
      BY Zenon DEF AddLine, address_mngr_add_address, AddressOutsideBitset, numberingVars
    <2> QED
      BY <1>4, <2>1
  <1>5. CASE a \in Named(rest)
    <2>1. \/ Camera(line) = a /\ ~line.outside
          \/ a \in Named(rest')
      BY <1>1, <1>3, <1>5, NextNamed
    <2>2. CASE Camera(line) = a /\ ~line.outside
      <3>1. address_mngr_add_address(a) \/ AddressOutsideBitset(a)
        BY <2>2, Zenon DEF AddLine
      <3>2. ~AddressOutsideBitset(a)
        BY <1>2 DEF AddressOutsideBitset
      <3>3. a \in announced'
        BY <3>1, <3>2 DEF address_mngr_add_address
      <3> QED
        BY <3>3
    <2> QED
      BY <2>1, <2>2
  <1> QED
    BY <1>1, <1>4, <1>5 DEF NamedLater

\* Nothing else undoes it; at the first strtok the whole text is left.
LEMMA NamedKept ==
    ASSUME OutputInv, NamedLater, [OutputNext]_outputVars
    PROVE  NamedLater'
  <1>1. CASE Discover
    BY <1>1 DEF Discover, NamedLater
  <1>2. CASE ChildPrints
    <2>1. UNCHANGED <<output, rest, stage, memory, announced, bitset>>
      BY <1>2 DEF ChildPrints, numberingVars
    <2> QED
      BY <2>1 DEF NamedLater, Named, Intact
  <1>3. CASE epoll_handle_pipe
    BY <1>3 DEF epoll_handle_pipe, NamedLater
  <1>4. ASSUME NEW exit_code \in {0, 1}, command_output_ready(exit_code)
        PROVE  NamedLater'
    <2>1. /\ stage = "reading" /\ script = <<>> /\ pipe = <<>>
          /\ UNCHANGED commandVars
          /\ stage' \in {"idle", "dead"} \/ rest' = command_output
      BY <1>4 DEF command_output_ready
    <2>2. UNCHANGED output /\ command_output = output
      BY <2>1, StringIsText DEF commandVars, OutputInv
    <2> QED
      BY <2>1, <2>2 DEF NamedLater, Named
  <1>5. CASE AddLine
    BY <1>5, NamedKeptByLine
  <1>6. CASE LinesDone
    BY <1>6 DEF LinesDone, NamedLater
  <1>7. CASE UNCHANGED outputVars
    <2>1. UNCHANGED <<output, rest, stage, memory, announced, bitset>>
      BY <1>7 DEF outputVars, commandVars, numberingVars
    <2> QED
      BY <2>1 DEF NamedLater, Named, Intact
  <1> QED
    BY <1>1, <1>2, <1>3, <1>4, <1>5, <1>6, <1>7 DEF OutputNext

\* When strtok finds no line any more, every camera the text named on a line
\* of its own has been announced: for any texts and cameras, the pipe cutting
\* the text anywhere, and whatever other lines there are.
THEOREM EveryLine == OutputSpec => EveryLineAdded
  <1>1. OutputInit => NamedLater
    BY DEF OutputInit, NamedLater
  <1>2. OutputInv /\ NamedLater /\ [OutputNext]_outputVars => NamedLater'
    BY NamedKept
  <1>3. OutputInv /\ NamedLater /\ [OutputNext]_outputVars
            => [stage = "lines" /\ stage' = "idle" => Named(output) \subseteq announced]_outputVars
    <2> SUFFICES ASSUME OutputInv, NamedLater, OutputNext, stage = "lines", stage' = "idle",
                        NEW a \in Named(output)
                 PROVE  a \in announced
      OBVIOUS
    <2>1. LinesDone
      BY DEF OutputNext, Discover, ChildPrints, epoll_handle_pipe, command_output_ready,
             AddLine
    <2>2. Intact /\ First(rest) = 0
      BY <2>1 DEF LinesDone
    <2>3. a \notin Named(rest)
      BY <2>2, RestIsText, NextNamed
    <2> QED
      BY <2>2, <2>3 DEF NamedLater
  <1> QED
    BY <1>1, <1>2, <1>3, InitOutput, NextOutput, PTL DEF OutputSpec, EveryLineAdded

==============================================================================
