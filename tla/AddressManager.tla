---------------------------- MODULE AddressManager ----------------------------
(***************************************************************************)
(* address_manager.c: which UDP port stands for which camera.              *)
(*                                                                         *)
(* The AVL tree is abstracted to the set of entries in it.  The tree does  *)
(* not reject a key it already holds, so an entry is identified by all its *)
(* fields and a lookup may find any entry with the key (which one depends  *)
(* on the rotations since; AvlTree.tla models the tree itself).            *)
(* An entry remembers the port, as the log line written at its insertion   *)
(* does; the program's soap_instance does not.                             *)
(***************************************************************************)
EXTENDS Epoll

CONSTANTS
    Port,       \* UDP ports
    NoPort,
    PortOf      \* create_unique_port_from_ip; not injective in general

ASSUME PortAssumption ==
    /\ NoPort \notin Port
    /\ PortOf \in [Camera -> Port]

VARIABLES
    used_ports,   \* used_ports_bitset
    sock,         \* kernel: the port each descriptor is a bound UDP socket of
    address_map   \* the entries of the AVL tree

addressVars == <<used_ports, sock, address_map>>

Entry == [key : Fd, port : Port, camera : Camera]

\* What address_mngr_add_address asks for, given an address.
Request(c) == [port |-> PortOf[c], camera |-> c]

AddressInit ==
    /\ used_ports = {}
    /\ sock = [f \in Fd |-> NoPort]
    /\ address_map = {}

AddressTypeOK ==
    /\ used_ports \subseteq Port
    /\ sock \in [Fd -> Port \cup {NoPort}]
    /\ address_map \subseteq Entry

\* The entries avl_tree_find may return for a descriptor.
LookupAnyNode(f) == address_map     \* mutant: the search stops at the root
Lookup(f) == {a \in address_map : a.key = f}

\* BITTEST: an address whose port is taken is dropped without a word.
NeverTaken(port) == FALSE           \* mutant: the test is dropped
PortTaken(port) == port \in used_ports

\* BITSET and socket_create_udp.  The socket is bound with SO_REUSEPORT, so
\* the kernel accepts a port that is bound already: the bitset is the only
\* thing that keeps two sockets from sharing one.
ClaimPort(port, f) ==
    /\ used_ports' = used_ports \cup {port}
    /\ sock' = [sock EXCEPT ![f] = port]

\* avl_tree_insert(&address_map, fd, instance).
InsertByPort(f, request) ==         \* mutant: the arguments are mixed up
    address_map' = address_map \cup
        {[key |-> request.port, port |-> request.port, camera |-> request.camera]}
InsertInstance(f, request) ==
    address_map' = address_map \cup
        {[key |-> f, port |-> request.port, camera |-> request.camera]}

==============================================================================
