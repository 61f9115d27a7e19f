--------------------------- MODULE RegistryProofs ---------------------------
(***************************************************************************)
(* The event loop implements CameraRegistry, as long as no client sends an *)
(* empty datagram.                                                         *)
(*                                                                         *)
(* A step of the loop claims a port (AddressBound), serves it              *)
(* (AddressReady), abandons it (AddressUnreachable, ProbeDies), or leaves  *)
(* the registry alone (Untouched).  What the mapping needs besides the     *)
(* tables (IInv, RoutesMatch) is that every entry of the tree is of a      *)
(* socket that is watched, so that none is there already for the one       *)
(* whose camera is being probed.                                           *)
(***************************************************************************)
EXTENDS WorkerProofs

EntriesWatched == \A a \in address_map : interest[a.key] # NoEvent

MapInv == IInv /\ RoutesMatch /\ EntriesWatched

Probing(p) == pc = "probe" /\ sock[new_fd] = p

------------------------------------------------------------------------------
(* The mapping, case by case, before and after a step.                       *)

LEMMA StatusNow ==
    ASSUME NEW p \in Port
    PROVE  /\ p \notin used_ports => registryStatus[p] = "free"
           /\ p \in used_ports /\ Probing(p) => registryStatus[p] = "probing"
           /\ p \in used_ports /\ ~Probing(p) /\ Serving(p) =>
                    registryStatus[p] = "serving"
           /\ p \in used_ports /\ ~Probing(p) /\ ~Serving(p) =>
                    registryStatus[p] = "lost"
  BY Zenon DEF registryStatus, Probing

LEMMA StatusThen ==
    ASSUME NEW p \in Port
    PROVE  /\ p \notin used_ports' => registryStatus'[p] = "free"
           /\ p \in used_ports' /\ Probing(p)' => registryStatus'[p] = "probing"
           /\ p \in used_ports' /\ ~Probing(p)' /\ Serving(p)' =>
                    registryStatus'[p] = "serving"
           /\ p \in used_ports' /\ ~Probing(p)' /\ ~Serving(p)' =>
                    registryStatus'[p] = "lost"
  BY Zenon DEF registryStatus, Probing

LEMMA CameraNow ==
    ASSUME NEW p \in Port
    PROVE  /\ registryStatus[p] = "probing" => registryCamera[p] = Head(todo).camera
           /\ registryStatus[p] = "serving" =>
                    registryCamera[p] = (CHOOSE a \in EntriesOf(p) : TRUE).camera
           /\ registryStatus[p] \in {"free", "lost"} => registryCamera[p] = NoCamera
  BY Zenon DEF registryCamera

LEMMA CameraThen ==
    ASSUME NEW p \in Port
    PROVE  /\ registryStatus'[p] = "probing" => registryCamera'[p] = Head(todo').camera
           /\ registryStatus'[p] = "serving" =>
                    registryCamera'[p] = (CHOOSE a \in EntriesOf(p)' : TRUE).camera
           /\ registryStatus'[p] \in {"free", "lost"} => registryCamera'[p] = NoCamera
  BY Zenon DEF registryCamera

\* Both are functions of the port.
LEMMA MappedFunctions ==
    /\ registryStatus = [p \in Port |-> registryStatus[p]]
    /\ registryCamera = [p \in Port |-> registryCamera[p]]
    /\ registryStatus' = [p \in Port |-> registryStatus'[p]]
    /\ registryCamera' = [p \in Port |-> registryCamera'[p]]
  <1>1. registryStatus = [p \in Port |-> registryStatus[p]]
    BY Zenon DEF registryStatus
  <1>2. registryCamera = [p \in Port |-> registryCamera[p]]
    BY DEF registryCamera
  <1>3. registryStatus' = [p \in Port |-> registryStatus'[p]]
    BY Zenon DEF registryStatus
  <1>4. registryCamera' = [p \in Port |-> registryCamera'[p]]
    BY DEF registryCamera
  <1> QED
    BY <1>1, <1>2, <1>3, <1>4

\* A port seen alike before and after a step is mapped alike.
LEMMA SameMapping ==
    ASSUME NEW p \in Port,
           p \in used_ports <=> p \in used_ports',
           Probing(p) <=> Probing(p)',
           Serving(p) <=> Serving(p)',
           Probing(p) => todo' = todo,
           EntriesOf(p)' = EntriesOf(p)
    PROVE  /\ registryStatus'[p] = registryStatus[p]
           /\ registryCamera'[p] = registryCamera[p]
  <1>1. CASE p \notin used_ports
    BY <1>1, StatusNow, StatusThen, CameraNow, CameraThen
  <1>2. CASE p \in used_ports /\ Probing(p)
    BY <1>2, StatusNow, StatusThen, CameraNow, CameraThen
  <1>3. CASE p \in used_ports /\ ~Probing(p) /\ Serving(p)
    <2>1. registryStatus[p] = "serving" /\ registryStatus'[p] = "serving"
      BY <1>3, StatusNow, StatusThen
    <2>2. /\ registryCamera[p] = (CHOOSE a \in EntriesOf(p) : TRUE).camera
          /\ registryCamera'[p] = (CHOOSE a \in EntriesOf(p)' : TRUE).camera
      BY <2>1, CameraNow, CameraThen
    <2> QED
      BY <2>1, <2>2
  <1>4. CASE p \in used_ports /\ ~Probing(p) /\ ~Serving(p)
    BY <1>4, StatusNow, StatusThen, CameraNow, CameraThen
  <1> QED
    BY <1>1, <1>2, <1>3, <1>4

------------------------------------------------------------------------------
(* Steps that leave the registry alone.                                      *)

LEMMA Untouched ==
    ASSUME UNCHANGED <<used_ports, sock, address_map>>,
           \A f \in Fd : sock[f] # NoPort =>
                (interest[f] # NoEvent <=> interest'[f] # NoEvent),
           \/ pc # "probe" /\ pc' # "probe"
           \/ UNCHANGED <<pc, new_fd, todo>>
    PROVE  UNCHANGED <<registryStatus, registryCamera>>
  <1>1. used_ports' = used_ports /\ sock' = sock /\ address_map' = address_map
    OBVIOUS
  <1>2. ASSUME NEW p \in Port
        PROVE  /\ registryStatus'[p] = registryStatus[p]
               /\ registryCamera'[p] = registryCamera[p]
    <2>1. Probing(p) <=> Probing(p)'
      BY <1>1 DEF Probing
    <2>2. Probing(p) => todo' = todo
      BY DEF Probing
    <2>3. Serving(p) <=> Serving(p)'
      BY <1>1, PortAssumption DEF Serving
    <2>4. EntriesOf(p)' = EntriesOf(p)
      BY <1>1 DEF EntriesOf
    <2> QED
      BY <1>1, <2>1, <2>2, <2>3, <2>4, SameMapping
  <1> QED
    BY <1>2, MappedFunctions

------------------------------------------------------------------------------
(* The entries stay with watched sockets.                                    *)

LEMMA NoEmptyStep ==
    ASSUME "empty" \notin Datagram, IInv
    PROVE  ~UdpEmpty
  <1> SUFFICES ASSUME UdpEmpty PROVE FALSE
    OBVIOUS
  <1> USE DEF IInv, TypeOK, EpollTypeOK
  <1>1. current \in Fd
    BY DEF UdpEmpty, CurrentRegistered, Handling, current, EventRecord
  <1>2. Head(queue[current]) \in Datagram
    BY <1>1, TailType DEF UdpEmpty
  <1> QED
    BY <1>2 DEF UdpEmpty

\* Which descriptors of sockets are watched changes with AddressReady only.
LEMMA SocketsWatched ==
    ASSUME "empty" \notin Datagram, IInv, [Next]_vars, ~AddressReady
    PROVE  \A f \in Fd : sock[f] # NoPort => interest'[f] = interest[f]
  <1> USE DEF IInv, TypeOK, EpollTypeOK
  <1>1. CASE Environment \/ UNCHANGED vars
    BY <1>1, EnvironmentStep DEF vars, epollVars
  <1>2. CASE FreeCommand
    BY <1>2, FreeCommandEvent
  <1>3. CASE Start \/ epoll_handle_timer
    <2>1. CASE UNCHANGED <<epollVars, pipe, childVars>>
      BY <2>1 DEF epollVars
    <2>2. ASSUME NEW f \in Fd, NEW e \in Event, NEW p \in Pid, NEW output \in Outputs,
                 RunCommand(f, e, p, output)
          PROVE  \A g \in Fd : sock[g] # NoPort => interest'[g] = interest[g]
      <3>1. sock[f] = NoPort /\ interest' = [interest EXCEPT ![f] = e]
        BY <2>2 DEF RunCommand, Lowest, Free, epoll_add_fd
      <3> QED
        BY <3>1
    <2> QED
      BY <1>3, <2>1, <2>2 DEF Start, epoll_handle_timer, worker_do_external_discovery,
            run_command
  <1>4. CASE Thread /\ ~UdpEmpty /\ ~FreeCommand /\ ~Start /\ ~epoll_handle_timer
    <2>1. interest' = interest
      BY <1>4 DEF Thread, DiscoveryDies, EpollWait, Dispatch, BatchDone,
            epoll_handle_signal, ReadTimer, UdpMessage, UdpMessageDies, UdpDrained,
            PipeRead, PipeDrained, Reap, AddressTaken, AddressBound, AddressDies,
            AddressUnreachable, ProbeDies, AddressesDone, Die, epollVars
    <2> QED
      BY <2>1
  <1> QED
    BY <1>1, <1>2, <1>3, <1>4, NoEmptyStep, Zenon DEF Next

\* An entry is of a bound socket.
LEMMA EntryOfSocket ==
    ASSUME IInv, RoutesMatch, NEW a \in address_map
    PROVE  a.key \in Fd /\ sock[a.key] = a.port /\ sock[a.key] # NoPort
  BY PortAssumption DEF IInv, TypeOK, AddressTypeOK, Entry, RoutesMatch

LEMMA NextEntriesWatched ==
    ASSUME "empty" \notin Datagram, MapInv, [Next]_vars
    PROVE  EntriesWatched'
  <1>1. CASE AddressReady
    <2>1. PICK e \in Event : epoll_add_fd(e, new_fd, Readable(new_fd))
      BY <1>1 DEF AddressReady
    <2>2. interest' = [interest EXCEPT ![new_fd] = e] /\ e # NoEvent
      BY <2>1, EventAssumption DEF epoll_add_fd
    <2>3. new_fd \in Fd /\ interest \in [Fd -> Event \cup {NoEvent}]
      BY <1>1 DEF MapInv, IInv, TypeOK, EpollTypeOK, AddressReady, ProbeBound
    <2>4. address_map' = address_map \cup
            {[key |-> new_fd, port |-> Head(todo).port, camera |-> Head(todo).camera]}
      BY <1>1 DEF AddressReady, InsertInstance
    <2>5. \A a \in address_map : a.key \in Fd /\ interest[a.key] # NoEvent
      BY EntryOfSocket DEF MapInv, EntriesWatched
    <2> QED
      BY <2>2, <2>3, <2>4, <2>5 DEF EntriesWatched
  <1>2. CASE ~AddressReady
    <2>1. address_map' = address_map
      <3>1. CASE Thread
        BY <1>2, <3>1, NoEmptyStep DEF MapInv, Thread, Start, DiscoveryDies, EpollWait,
            Dispatch, BatchDone, epoll_handle_signal, epoll_handle_timer, ReadTimer,
            UdpMessage, UdpMessageDies, UdpDrained, PipeRead, PipeDrained, Reap,
            FreeCommand, AddressTaken, AddressBound, AddressDies, AddressUnreachable,
            ProbeDies, AddressesDone, Die, addressVars
      <3>2. CASE Environment \/ UNCHANGED vars
        BY <3>2, EnvironmentStep DEF addressVars, vars
      <3> QED
        BY <3>1, <3>2 DEF Next
    <2>2. \A a \in address_map : interest'[a.key] = interest[a.key]
      BY <1>2, EntryOfSocket, SocketsWatched DEF MapInv
    <2> QED
      BY <2>1, <2>2 DEF MapInv, EntriesWatched
  <1> QED
    BY <1>1, <1>2

------------------------------------------------------------------------------
(* The steps of the registry.                                                *)

\* A socket is bound to a port nobody has asked for: the port is claimed.
LEMMA BoundClaims ==
    ASSUME MapInv, AddressBound
    PROVE  \E p \in Port, c \in Camera : Registry!Claim(p, c)
  <1> USE DEF MapInv, IInv, TypeOK, EpollTypeOK, AddressTypeOK
  <1>1. Head(todo) \in [port : Port, camera : Camera]
    BY TailType DEF AddressBound
  <1>2. PICK r \in [port : Port, camera : Camera] : r = Head(todo)
    BY <1>1
  <1>3. PICK f \in Fd : Lowest(f) /\ ClaimPort(r.port, f) /\ new_fd' = f
    BY <1>2 DEF AddressBound
  <1>4. /\ r.port \in Port /\ r.camera \in Camera /\ r.port \notin used_ports
        /\ used_ports' = used_ports \cup {r.port}
        /\ sock' = [sock EXCEPT ![f] = r.port] /\ sock[f] = NoPort
        /\ pc = "add" /\ pc' = "probe" /\ todo' = todo
        /\ address_map' = address_map /\ interest' = interest
    BY <1>2, <1>3 DEF AddressBound, ClaimPort, PortTaken, Lowest, Free, epollVars
  <1>5. ASSUME NEW q \in Port
        PROVE  ~Probing(q) /\ registryStatus[q] # "probing"
    <2>1. ~Probing(q)
      BY <1>4 DEF Probing
    <2> QED
      BY <2>1, StatusNow
  <1>6. registryStatus[r.port] = "free"
    BY <1>4, StatusNow
  <1>7. registryStatus'[r.port] = "probing" /\ registryCamera'[r.port] = r.camera
    <2>1. Probing(r.port)' /\ r.port \in used_ports'
      BY <1>3, <1>4 DEF Probing
    <2>2. registryStatus'[r.port] = "probing"
      BY <1>4, <2>1, StatusThen
    <2> QED
      BY <1>2, <1>4, <2>2, CameraThen
  <1>8. ASSUME NEW q \in Port, q # r.port
        PROVE  /\ registryStatus'[q] = registryStatus[q]
               /\ registryCamera'[q] = registryCamera[q]
    <2>1. ~Probing(q)'
      BY <1>3, <1>4, <1>8 DEF Probing
    <2>2. ~Probing(q)
      BY <1>5
    <2>3. \A g \in Fd : sock'[g] = q <=> sock[g] = q
      BY <1>4, <1>8, PortAssumption
    <2>4. Serving(q) <=> Serving(q)'
      BY <1>4, <2>3 DEF Serving
    <2>5. \A a \in address_map : a.key \in Fd
      BY EntryOfSocket
    <2>6. EntriesOf(q)' = EntriesOf(q)
      BY <1>4, <2>3, <2>5 DEF EntriesOf
    <2>7. q \in used_ports <=> q \in used_ports'
      BY <1>4, <1>8
    <2> QED
      BY <2>1, <2>2, <2>4, <2>6, <2>7, SameMapping
  <1>9. /\ registryStatus' = [registryStatus EXCEPT ![r.port] = "probing"]
        /\ registryCamera' = [registryCamera EXCEPT ![r.port] = r.camera]
    BY <1>7, <1>8, MappedFunctions
  <1>10. Registry!Claim(r.port, r.camera)
    BY <1>5, <1>6, <1>9 DEF Registry!Claim
  <1> QED
    BY <1>4, <1>10

\* What is known while a camera is probed.
LEMMA WhileProbing ==
    ASSUME MapInv, pc = "probe"
    PROVE  LET p == sock[new_fd]
           IN  /\ new_fd \in Fd /\ p \in Port /\ p \in used_ports /\ p # NoPort
               /\ interest[new_fd] = NoEvent /\ ~Serving(p)
               /\ Head(todo).port = p
               /\ registryStatus[p] = "probing"
               /\ registryCamera[p] = Head(todo).camera
               /\ EntriesOf(p) = {}
               /\ \A g \in Fd : sock[g] = p => g = new_fd
  <1> USE DEF MapInv, IInv, TypeOK, EpollTypeOK, AddressTypeOK
  <1>1. /\ new_fd \in Fd /\ todo # <<>> /\ sock[new_fd] = Head(todo).port
        /\ interest[new_fd] = NoEvent
    BY DEF ProbeBound
  <1>2. sock[new_fd] \in Port
    <2>1. Head(todo) \in [port : Port, camera : Camera]
      BY <1>1, TailType
    <2> QED
      BY <1>1, <2>1
  <1>3. sock[new_fd] # NoPort /\ sock[new_fd] \in used_ports
    BY <1>1, <1>2, PortAssumption DEF TablesAgree, DescriptorUse
  <1>4. \A g \in Fd : sock[g] = sock[new_fd] => g = new_fd
    BY <1>1, <1>3 DEF TablesAgree, NoSharedPort
  <1>5. ~Serving(sock[new_fd])
    BY <1>1, <1>4 DEF Serving
  <1>6. EntriesOf(sock[new_fd]) = {}
    BY <1>1, <1>4, EntryOfSocket DEF EntriesOf, EntriesWatched
  <1>7. Probing(sock[new_fd])
    BY DEF Probing
  <1>8. registryStatus[sock[new_fd]] = "probing"
    BY <1>2, <1>3, <1>7, StatusNow
  <1>9. registryCamera[sock[new_fd]] = Head(todo).camera
    BY <1>2, <1>8, CameraNow
  <1> QED
    BY <1>1, <1>2, <1>3, <1>4, <1>5, <1>6, <1>8, <1>9

\* The socket is watched and has its entry: the port is served.
LEMMA ReadyServes ==
    ASSUME MapInv, AddressReady
    PROVE  \E p \in Port : Registry!Serve(p)
  <1>1. PICK p : p = sock[new_fd]
    OBVIOUS
  <1>2. /\ pc = "probe" /\ pc' = "add" /\ used_ports' = used_ports /\ sock' = sock
    BY DEF AddressReady
  <1>3. /\ new_fd \in Fd /\ p \in Port /\ p \in used_ports
        /\ Head(todo).port = p
        /\ registryStatus[p] = "probing"
        /\ registryCamera[p] = Head(todo).camera
        /\ EntriesOf(p) = {}
        /\ \A g \in Fd : sock[g] = p => g = new_fd
    BY <1>1, <1>2, WhileProbing
  <1>4. PICK e \in Event : epoll_add_fd(e, new_fd, Readable(new_fd))
    BY DEF AddressReady
  <1>5. /\ interest' = [interest EXCEPT ![new_fd] = e] /\ e # NoEvent
        /\ interest \in [Fd -> Event \cup {NoEvent}]
    BY <1>4, EventAssumption DEF epoll_add_fd, MapInv, IInv, TypeOK, EpollTypeOK
  <1>6. PICK a : /\ a = [key |-> new_fd, port |-> Head(todo).port,
                         camera |-> Head(todo).camera]
                 /\ address_map' = address_map \cup {a}
    BY DEF AddressReady, InsertInstance
  <1>7. \A q \in Port : ~Probing(q)'
    BY <1>2 DEF Probing
  <1>8. registryStatus'[p] = "serving"
    <2>1. Serving(p)'
      BY <1>1, <1>2, <1>3, <1>5 DEF Serving
    <2> QED
      BY <1>2, <1>3, <1>7, <2>1, StatusThen
  <1>9. registryCamera'[p] = registryCamera[p]
    <2>1. EntriesOf(p)' = {a}
      <3>1. \A b \in address_map : sock[b.key] # p
        BY <1>3 DEF EntriesOf
      <3>2. a.key = new_fd
        BY <1>6
      <3> QED
        BY <1>1, <1>2, <1>6, <3>1, <3>2 DEF EntriesOf
    <2>2. (CHOOSE b \in {a} : TRUE) = a
      OBVIOUS
    <2>3. registryCamera'[p] = a.camera
      BY <1>3, <1>8, <2>1, <2>2, CameraThen
    <2> QED
      BY <1>3, <1>6, <2>3
  <1>10. ASSUME NEW q \in Port, q # p
         PROVE  /\ registryStatus'[q] = registryStatus[q]
                /\ registryCamera'[q] = registryCamera[q]
    <2>1. ~Probing(q) /\ ~Probing(q)'
      BY <1>1, <1>7, <1>10 DEF Probing
    <2>2. Serving(q) <=> Serving(q)'
      BY <1>1, <1>2, <1>3, <1>5, <1>10 DEF Serving
    <2>3. EntriesOf(q)' = EntriesOf(q)
      BY <1>1, <1>2, <1>6, <1>10 DEF EntriesOf
    <2> QED
      BY <1>2, <2>1, <2>2, <2>3, SameMapping
  <1>11. /\ registryStatus' = [registryStatus EXCEPT ![p] = "serving"]
         /\ registryCamera' = registryCamera
    BY <1>3, <1>8, <1>9, <1>10, MappedFunctions
  <1> QED
    BY <1>3, <1>11 DEF Registry!Serve

\* The camera does not answer, or the process dies: the port is lost.
LEMMA FailureAbandons ==
    ASSUME MapInv, AddressUnreachable \/ ProbeDies
    PROVE  \E p \in Port : Registry!Abandon(p)
  <1>1. PICK p : p = sock[new_fd]
    OBVIOUS
  <1>2. /\ pc = "probe" /\ pc' # "probe"
        /\ UNCHANGED <<used_ports, sock, address_map, interest>>
    BY DEF AddressUnreachable, ProbeDies, Die, addressVars, epollVars
  <1>3. /\ new_fd \in Fd /\ p \in Port /\ p \in used_ports /\ ~Serving(p)
        /\ registryStatus[p] = "probing"
    BY <1>1, <1>2, WhileProbing
  <1>4. \A q \in Port : ~Probing(q)'
    BY <1>2 DEF Probing
  <1>5. registryStatus'[p] = "lost" /\ registryCamera'[p] = NoCamera
    <2>1. ~Serving(p)'
      BY <1>2, <1>3 DEF Serving
    <2> QED
      BY <1>2, <1>3, <1>4, <2>1, StatusThen, CameraThen
  <1>6. ASSUME NEW q \in Port, q # p
        PROVE  /\ registryStatus'[q] = registryStatus[q]
               /\ registryCamera'[q] = registryCamera[q]
    <2>1. ~Probing(q) /\ ~Probing(q)'
      BY <1>1, <1>4, <1>6 DEF Probing
    <2>2. Serving(q) <=> Serving(q)'
      BY <1>2 DEF Serving
    <2>3. EntriesOf(q)' = EntriesOf(q)
      BY <1>2 DEF EntriesOf
    <2> QED
      BY <1>2, <2>1, <2>2, <2>3, SameMapping
  <1>7. /\ registryStatus' = [registryStatus EXCEPT ![p] = "lost"]
        /\ registryCamera' = [registryCamera EXCEPT ![p] = NoCamera]
    BY <1>5, <1>6, MappedFunctions
  <1> QED
    BY <1>3, <1>7 DEF Registry!Abandon

------------------------------------------------------------------------------
\* Every other step.
LEMMA OthersStutter ==
    ASSUME "empty" \notin Datagram, MapInv, [Next]_vars, ~AddressBound,
           ~AddressReady, ~AddressUnreachable, ~ProbeDies
    PROVE  UNCHANGED <<registryStatus, registryCamera>>
  <1>1. \A f \in Fd : sock[f] # NoPort => interest'[f] = interest[f]
    BY SocketsWatched DEF MapInv
  <1>2. CASE Environment \/ UNCHANGED vars
    <2>1. UNCHANGED <<addressVars, threadVars>>
      BY <1>2, EnvironmentStep DEF vars
    <2>2. UNCHANGED <<used_ports, sock, address_map, pc, new_fd, todo>>
      BY <2>1 DEF addressVars, threadVars
    <2> QED
      BY <1>1, <2>2, Untouched
  <1>3. CASE Thread
    <2>1. UNCHANGED <<used_ports, sock, address_map>>
      BY <1>3, NoEmptyStep DEF MapInv, Thread, Start, DiscoveryDies, EpollWait,
            Dispatch, BatchDone, epoll_handle_signal, epoll_handle_timer, ReadTimer,
            UdpMessage, UdpMessageDies, UdpDrained, PipeRead, PipeDrained, Reap,
            FreeCommand, AddressTaken, AddressDies, AddressesDone, Die, addressVars
    <2>2. pc # "probe"
      BY <1>3, NoEmptyStep DEF MapInv, Thread, Start, DiscoveryDies, EpollWait,
            Dispatch, BatchDone, epoll_handle_signal, epoll_handle_timer, ReadTimer,
            UdpMessage, UdpMessageDies, UdpDrained, PipeRead, PipeDrained, Reap,
            FreeCommand, AddressTaken, AddressDies, AddressesDone
    <2>3. pc' # "probe"
      <3>1. ASSUME NEW b \in batch, Dispatch(b) PROVE pc' # "probe"
        <4>1. ev[b.ev].type \in EventType
          BY DEF MapInv, IInv, TypeOK, EpollTypeOK, BatchRegistered, EventRecord
        <4> QED
          BY <3>1, <4>1 DEF Dispatch, EventType
      <3>2. CASE ~(\E b \in batch : Dispatch(b))
        BY <1>3, <2>2, <3>2, NoEmptyStep DEF MapInv, Thread, Start, DiscoveryDies,
            EpollWait, BatchDone, AfterBatch, epoll_handle_signal, epoll_handle_timer,
            ReadTimer, UdpMessage, ContinueReading, UdpMessageDies, UdpDrained,
            PipeRead, PipeDrained, AfterDrained, Reap, FreeCommand, AddressTaken,
            AddressDies, AddressesDone, Die, threadVars
      <3> QED
        BY <3>1, <3>2
    <2> QED
      BY <1>1, <2>1, <2>2, <2>3, Untouched
  <1> QED
    BY <1>2, <1>3 DEF Next

LEMMA NextRegistry ==
    ASSUME "empty" \notin Datagram, MapInv, [Next]_vars
    PROVE  [Registry!RegistryNext]_(Registry!registryVars)
  <1>1. CASE AddressBound
    BY <1>1, BoundClaims DEF Registry!RegistryNext
  <1>2. CASE AddressReady
    BY <1>2, ReadyServes DEF Registry!RegistryNext
  <1>3. CASE AddressUnreachable \/ ProbeDies
    BY <1>3, FailureAbandons DEF Registry!RegistryNext
  <1>4. CASE ~AddressBound /\ ~AddressReady /\ ~AddressUnreachable /\ ~ProbeDies
    BY <1>4, OthersStutter DEF Registry!registryVars
  <1> QED
    BY <1>1, <1>2, <1>3, <1>4

LEMMA InitRegistry == Init => Registry!RegistryInit
  <1> SUFFICES ASSUME Init PROVE Registry!RegistryInit
    OBVIOUS
  <1>1. ASSUME NEW p \in Port
        PROVE  registryStatus[p] = "free" /\ registryCamera[p] = NoCamera
    BY StatusNow, CameraNow DEF Init, AddressInit
  <1> QED
    BY <1>1, MappedFunctions DEF Registry!RegistryInit

\* Without empty datagrams a port is probed at most once and for one camera at
\* a time, and then stands for that camera for as long as the proxy lives or is
\* given up for good: what the loop does to sockets, bitset, tree and events is
\* a CameraRegistry, whatever clients, children, cameras and the clock do.
THEOREM RegistryImplemented ==
    ASSUME "empty" \notin Datagram
    PROVE  Spec => ImplementsRegistry
  <1>1. Init => RoutesMatch /\ EntriesWatched /\ Registry!RegistryInit
    BY InitRegistry DEF Init, AddressInit, RoutesMatch, EntriesWatched
  <1>2. MapInv /\ [Next]_vars => RoutesMatch' /\ EntriesWatched'
    BY NextRoutesMatch, NextEntriesWatched DEF MapInv
  <1>3. MapInv /\ [Next]_vars => [Registry!RegistryNext]_(Registry!registryVars)
    BY NextRegistry
  <1>4. MapInv <=> IInv /\ RoutesMatch /\ EntriesWatched
    BY DEF MapInv
  <1> QED
    BY <1>1, <1>2, <1>3, <1>4, Inductive, PTL
       DEF Spec, ImplementsRegistry, Registry!RegistrySpec
=============================================================================
