--------------------------- MODULE PortAssignment ---------------------------
(***************************************************************************)
(* Which UDP port a discovered camera gets, and the bitset that remembers  *)
(* the ports given out (address_manager.c).                                *)
(*                                                                         *)
(* `discover | grep 192' prints dotted addresses; the port depends on the  *)
(* last two bytes of an address only, so an address is that pair.          *)
(***************************************************************************)
EXTENDS Integers, FiniteSets

CONSTANT Address    \* cameras, as <<byte3, byte4>> of their addresses

ASSUME AddressAssumption == Address \subseteq (0..255) \X (0..255)

VARIABLES
    announced,      \* addresses discovery has printed so far
    used_ports,     \* ports whose bit is set
    socket,         \* the cameras that got a socket, each with its port
    bitset          \* "overrun" once a bit outside used_ports_bitset was touched

vars == <<announced, used_ports, socket, bitset>>

NPORTS == 32768 - 1024
BITNSLOTS == (NPORTS + 7) \div 8

\* The three rules for the leading digits; the last two exclude each other.
first_part(byte3, byte4) ==
    IF byte3 < 10 THEN byte3 * 10
    ELSE IF byte3 >= 100 /\ byte4 >= 100 THEN byte3 % 100
    ELSE byte3

OffsetAlways100(byte4) == 100       \* mutant: room for two digits only
offset(byte4) == IF byte4 < 100 THEN 100 ELSE 1000

create_unique_port_from_ip(a) == first_part(a[1], a[2]) * offset(a[2]) + a[2]

\* BITSLOT and BITMASK name a bit of the array.  A negative index names none,
\* not even where C's division rounds it to slot 0: the shift is by less than 0.
HasBitBelowEnd(port) ==             \* mutant: ports below 1024 forgotten
    (port - 1024) \div 8 < BITNSLOTS
HasBit(port) == port - 1024 >= 0 /\ (port - 1024) \div 8 < BITNSLOTS

------------------------------------------------------------------------------
Init ==
    /\ announced = {}
    /\ used_ports = {}
    /\ socket = {}
    /\ bitset = "intact"

\* address_mngr_add_address with a port whose bit exists: a port given out
\* before is dropped, whoever has it; any other gets a socket.
address_mngr_add_address(a) ==
    LET port == create_unique_port_from_ip(a)
    IN  /\ bitset = "intact" /\ HasBit(port)
        /\ announced' = announced \cup {a}
        /\ \/ /\ port \in used_ports
              /\ UNCHANGED <<used_ports, socket>>
           \/ /\ port \notin used_ports
              /\ used_ports' = used_ports \cup {port}
              /\ socket' = socket \cup {[camera |-> a, port |-> port]}
        /\ UNCHANGED bitset

\* The bit tested lies outside the array: nothing is known of what follows.
AddressOutsideBitset(a) ==
    /\ bitset = "intact" /\ ~HasBit(create_unique_port_from_ip(a))
    /\ announced' = announced \cup {a}
    /\ bitset' = "overrun"
    /\ UNCHANGED <<used_ports, socket>>

Next ==
    \E a \in Address : address_mngr_add_address(a) \/ AddressOutsideBitset(a)

Spec == Init /\ [][Next]_vars

------------------------------------------------------------------------------
BitPort == 1024..(1024 + 8 * BITNSLOTS - 1)

TypeOK ==
    /\ announced \subseteq Address
    /\ used_ports \subseteq BitPort
    /\ socket \subseteq [camera : Address, port : BitPort]
    /\ bitset \in {"intact", "overrun"}

\* Every camera discovery announced has one socket, of the port the log says
\* was assigned to it ("address manager: address '%s' assigned port %d"), and
\* shares it with no other camera, however often and in whatever order the
\* addresses come.
EachCameraItsSocket ==
    bitset = "intact" =>
        /\ \A a \in announced : \E s \in socket :
                s.camera = a /\ s.port = create_unique_port_from_ip(a)
        /\ \A s, t \in socket : s.port = t.port \/ s.camera = t.camera => s = t

\* Every port assigned has its bit in used_ports_bitset, whose size is NPORTS.
BitsetCoversPorts == bitset = "intact"

==============================================================================
