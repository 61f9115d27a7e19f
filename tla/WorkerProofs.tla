----------------------------- MODULE WorkerProofs -----------------------------
(***************************************************************************)
(* Proofs about Worker.tla, for any number of descriptors, ports, cameras, *)
(* children and datagrams, and any bounds.                                 *)
(***************************************************************************)
EXTENDS WorkerProperties, TLAPS

------------------------------------------------------------------------------
(* Sequences.                                                                *)

\* What strtok leaves for the next round, and the queue recvfrom leaves.
LEMMA TailType ==
    ASSUME NEW S, NEW s \in Seq(S), s # <<>>
    PROVE  /\ Tail(s) \in Seq(S)
           /\ Head(s) \in S
  OBVIOUS

\* A read() splits the contents of a pipe into two sequences of lines.
LEMMA ReadType ==
    ASSUME NEW S, NEW s \in Seq(S), s # <<>>
    PROVE  /\ SubSeq(s, 1, ReadLength(s)) \in Seq(S)
           /\ SubSeq(s, ReadLength(s) + 1, Len(s)) \in Seq(S)
  <1>1. Len(s) \in Nat /\ ReadLength(s) \in 1..Len(s)
    BY WorkerAssumption DEF ReadLength
  <1>2. \A i \in 1..Len(s) : s[i] \in S
    OBVIOUS
  <1> QED
    BY <1>1, <1>2

\* command_output_ready turns each line of the output into a request.
LEMMA RequestType ==
    ASSUME NEW s \in Seq(Camera)
    PROVE  [i \in 1..Len(s) |-> Request(s[i])] \in Seq([port : Port, camera : Camera])
  <1>1. \A i \in 1..Len(s) : Request(s[i]) \in [port : Port, camera : Camera]
    BY PortAssumption DEF Request
  <1>2. Len(s) \in Nat
    OBVIOUS
  <1> QED
    BY <1>1, <1>2

------------------------------------------------------------------------------
(* Types.                                                                    *)

LEMMA EnvironmentType ==
    ASSUME TypeOK, Environment
    PROVE  TypeOK'
PROOF
  <1> USE DEF TypeOK, EpollTypeOK, AddressTypeOK, EventRecord, vars, epollVars,
              addressVars, threadVars, envVars, childVars
  <1>1. ASSUME NEW f \in Fd, NEW d \in Datagram, Arrive(f, d)
        PROVE  TypeOK'
    BY <1>1, WorkerAssumption DEF Arrive, Notify
  <1>2. CASE TimerExpires
    BY <1>2, FdAssumption, WorkerAssumption DEF TimerExpires, Notify
  <1>3. CASE Interrupt
    BY <1>3, FdAssumption DEF Interrupt, Notify
  <1>4. ASSUME NEW p \in Pid, ChildWrites(p)
        PROVE  TypeOK'
    BY <1>4 DEF ChildWrites, NotifyPipe, Notify
  <1>5. ASSUME NEW p \in Pid, ChildCloses(p)
        PROVE  TypeOK'
    BY <1>5 DEF ChildCloses, NotifyPipe, Notify, ChildState
  <1>6. ASSUME NEW p \in Pid, ChildExits(p)
        PROVE  TypeOK'
    BY <1>6 DEF ChildExits, ChildState
  <1> QED
    BY <1>1, <1>2, <1>3, <1>4, <1>5, <1>6 DEF Environment

LEMMA DiscoveryType ==
    ASSUME TypeOK, worker_do_external_discovery
    PROVE  /\ EpollTypeOK'
           /\ pipe' \in [Fd -> Pid \cup {NoPid}]
           /\ child' \in [Pid -> ChildState]
           /\ script' \in [Pid -> Seq(Camera)]
           /\ sent' \in [Pid -> Seq(Camera)]
           /\ status' \in [Pid -> {"none", "ok", "bad"}]
PROOF
  <1> USE DEF TypeOK
  <1>1. CASE UNCHANGED <<epollVars, pipe, childVars>>
    BY <1>1 DEF epollVars, childVars, EpollTypeOK
  <1>2. ASSUME NEW f \in Fd, NEW e \in Event, NEW p \in Pid, NEW output \in Outputs,
               RunCommand(f, e, p, output)
        PROVE  /\ EpollTypeOK'
               /\ pipe' \in [Fd -> Pid \cup {NoPid}]
               /\ child' \in [Pid -> ChildState]
               /\ script' \in [Pid -> Seq(Camera)]
               /\ sent' \in [Pid -> Seq(Camera)]
               /\ status' \in [Pid -> {"none", "ok", "bad"}]
    <2>1. NewEvent(f, "pipe") \in EventRecord
      BY DEF NewEvent, EventRecord, EventType
    <2>2. [ev EXCEPT ![e] = NewEvent(f, "pipe")] \in [Event -> EventRecord]
      BY <2>1 DEF EpollTypeOK
    <2>3. ASSUME NEW r \in EventRecord
          PROVE  ForChild(r, p) \in EventRecord
      <3>1. r.fd \in Fd /\ r.type \in EventType /\ <<>> \in Seq(Camera)
        BY DEF EventRecord
      <3> QED
        BY <3>1 DEF ForChild, EventRecord
    <2>4. ev' \in [Event -> EventRecord]
      BY <1>2, <2>2, <2>3 DEF RunCommand
    <2>5. EpollTypeOK'
      BY <1>2, <2>4 DEF RunCommand, epoll_add_fd, EpollTypeOK
    <2>6. output \in Seq(Camera)
      BY WorkerAssumption
    <2>7. /\ script' \in [Pid -> Seq(Camera)]
          /\ sent' \in [Pid -> Seq(Camera)]
      BY <1>2, <2>6 DEF RunCommand
    <2> QED
      BY <1>2, <2>5, <2>7 DEF RunCommand, ChildState
  <1> QED
    BY <1>1, <1>2 DEF worker_do_external_discovery, run_command

\* The steps of the thread.  Dispatch needs more than types: that the type of
\* an event in the batch is one that epoll_handle_event knows.
LEMMA ThreadType ==
    ASSUME IInv, Thread
    PROVE  TypeOK'
PROOF
  <1> USE DEF IInv, TypeOK, EpollTypeOK, AddressTypeOK, PcValue, epollVars,
              addressVars, threadVars, envVars, childVars
  <1>1. CASE Start
    BY <1>1, DiscoveryType DEF Start
  <1>2. CASE DiscoveryDies
    BY <1>2 DEF DiscoveryDies, Die
  <1>3. CASE EpollWait
    <2>1. \A f \in Ready : interest[f] \in Event
      BY DEF Ready, BatchRegistered
    <2>2. \A f \in Ready : Readable(f) \in BOOLEAN /\ HungUp(f) \in BOOLEAN
      BY Zenon DEF Readable, HungUp
    <2>3. batch' \subseteq BatchEntry
      BY <1>3, <2>1, <2>2 DEF EpollWait, BatchEntry
    <2> QED
      BY <1>3, <2>3 DEF EpollWait
  <1>4. ASSUME NEW b \in batch, Dispatch(b)
        PROVE  TypeOK'
    <2>1. ev[b.ev].type \in {"udp", "pipe", "signal", "timer"}
      <3>1. b.ev \in Event /\ ev[b.ev].fd \in Fd /\ interest[ev[b.ev].fd] = b.ev
        BY DEF BatchRegistered, BatchEntry, EventRecord
      <3> QED
        BY <3>1, EventAssumption DEF TablesAgree, Registered
    <2>2. b.ev \in Event
      BY DEF BatchEntry
    <2>3. close_after_read' \in BOOLEAN
      BY <1>4 DEF Dispatch, BatchEntry
    <2>4. pc' \in PcValue
      BY <1>4, <2>1 DEF Dispatch
    <2> QED
      BY <1>4, <2>2, <2>3, <2>4 DEF Dispatch
  <1>5. CASE BatchDone
    BY <1>5 DEF BatchDone, AfterBatch
  <1>6. CASE epoll_handle_signal
    BY <1>6 DEF epoll_handle_signal
  <1>7. CASE epoll_handle_timer
    BY <1>7, DiscoveryType DEF epoll_handle_timer
  <1>8. CASE ReadTimer
    BY <1>8 DEF ReadTimer
  <1>9. CASE UdpMessage
    <2>1. current \in Fd
      BY <1>9 DEF UdpMessage, CurrentRegistered, Handling, current, EventRecord
    <2>2. queue' \in [Fd -> Seq(Datagram)]
      BY <1>9, <2>1, TailType DEF UdpMessage
    <2> QED
      BY <1>9, <2>2 DEF UdpMessage, ContinueReading
  <1>10. CASE UdpMessageDies
    BY <1>10 DEF UdpMessageDies, Die
  <1>11. CASE UdpEmpty
    <2>1. queue' \in [Fd -> Seq(Datagram)]
      <3>1. <<>> \in Seq(Datagram)
        OBVIOUS
      <3>2. queue' = [queue EXCEPT ![current] = <<>>]
        BY <1>11 DEF UdpEmpty
      <3> QED
        BY <3>1, <3>2
    <2>2. EpollTypeOK' /\ AddressTypeOK'
      BY <1>11 DEF UdpEmpty, epoll_close_fd
    <2> QED
      BY <1>11, <2>1, <2>2 DEF UdpEmpty
  <1>12. CASE UdpDrained
    BY <1>12 DEF UdpDrained
  <1>13. CASE PipeRead
    <2> DEFINE p == pipe[current]
    <2>1. cur \in Event /\ current \in Fd /\ p \in Pid /\ sent[p] # <<>>
      <3>1. /\ cur \in Event /\ interest[current] = cur /\ ev[cur].type = "pipe"
            /\ sent[p] # <<>>
        BY <1>13 DEF PipeRead, CurrentRegistered, Handling
      <3>2. current \in Fd
        BY <3>1 DEF current, EventRecord
      <3>3. pipe[current] # NoPid
        BY <3>1, <3>2, EventAssumption DEF TablesAgree, Registered
      <3> QED
        BY <3>1, <3>2, <3>3
    <2> DEFINE head == SubSeq(sent[p], 1, ReadLength(sent[p]))
               tail == SubSeq(sent[p], ReadLength(sent[p]) + 1, Len(sent[p]))
    <2>2. head \in Seq(Camera) /\ tail \in Seq(Camera)
      BY <2>1, ReadType
    <2>3. ev[cur].output \o head \in Seq(Camera)
      BY <2>1, <2>2 DEF EventRecord
    <2>4. ev' = [ev EXCEPT ![cur].output = ev[cur].output \o head]
      BY <1>13 DEF PipeRead
    <2>5. ev' \in [Event -> EventRecord]
      BY <2>1, <2>3, <2>4 DEF EventRecord
    <2>6. sent' \in [Pid -> Seq(Camera)]
      BY <1>13, <2>1, <2>2 DEF PipeRead
    <2> QED
      BY <1>13, <2>5, <2>6 DEF PipeRead
  <1>14. CASE PipeDrained
    BY <1>14 DEF PipeDrained, AfterDrained
  <1>15. CASE Reap
    <2>1. ev[cur].output \in Seq(Camera)
      BY <1>15 DEF Reap, CurrentRegistered, Handling, EventRecord
    <2>2. todo' \in Seq([port : Port, camera : Camera])
      BY <1>15, <2>1, RequestType DEF Reap
    <2>3. child' \in [Pid -> ChildState]
      BY <1>15 DEF Reap, ChildState
    <2>4. pc' \in PcValue /\ can_do_discovery' \in BOOLEAN
      BY <1>15 DEF Reap
    <2> QED
      BY <1>15, <2>2, <2>3, <2>4 DEF Reap
  <1>16. CASE FreeCommand
    BY <1>16 DEF FreeCommand, epoll_close_fd, ll_delete_node
  <1>17. CASE AddressTaken
    BY <1>17, TailType DEF AddressTaken
  <1>18. CASE AddressBound
    <2>1. Head(todo) \in [port : Port, camera : Camera]
      BY <1>18, TailType DEF AddressBound
    <2>2. AddressTypeOK'
      BY <1>18, <2>1 DEF AddressBound, ClaimPort
    <2> QED
      BY <1>18, <2>2 DEF AddressBound
  <1>19. CASE AddressDies
    BY <1>19 DEF AddressDies, Die
  <1>20. CASE AddressReady
    <2>1. /\ new_fd \in Fd
          /\ Head(todo) \in [port : Port, camera : Camera]
          /\ Tail(todo) \in Seq([port : Port, camera : Camera])
      BY <1>20, TailType DEF AddressReady, ProbeBound
    <2>2. NewEvent(new_fd, "udp") \in EventRecord
      BY <2>1 DEF NewEvent, EventRecord, EventType
    <2>3. ev' \in [Event -> EventRecord]
      BY <1>20, <2>2 DEF AddressReady
    <2>4. address_map' \subseteq Entry
      BY <1>20, <2>1 DEF AddressReady, InsertInstance, Entry
    <2> QED
      BY <1>20, <2>1, <2>3, <2>4 DEF AddressReady, epoll_add_fd
  <1>21. CASE AddressUnreachable
    BY <1>21, TailType DEF AddressUnreachable, ProbeBound
  <1>22. CASE ProbeDies
    BY <1>22 DEF ProbeDies, Die
  <1>23. CASE AddressesDone
    BY <1>23 DEF AddressesDone
  <1> QED
    BY <1>1, <1>2, <1>3, <1>4, <1>5, <1>6, <1>7, <1>8, <1>9, <1>10, <1>11, <1>12,
       <1>13, <1>14, <1>15, <1>16, <1>17, <1>18, <1>19, <1>20, <1>21, <1>22, <1>23
       DEF Thread

------------------------------------------------------------------------------
(* Tables.                                                                   *)

\* A free descriptor is not registered, and no entry of a tracked pipe event
\* names it.
LEMMA FreeUnregistered ==
    ASSUME TypeOK, TablesAgree, NEW f \in Fd, Free(f)
    PROVE  /\ interest[f] = NoEvent
           /\ \A e \in tracked : ev[e].type = "pipe" => ev[e].fd # f
PROOF
  <1>1. interest[f] = NoEvent
    BY DEF TablesAgree, Registered, Free
  <1>2. \A e \in tracked : e # NoEvent
    BY EventAssumption DEF TypeOK, EpollTypeOK
  <1> QED
    BY <1>1, <1>2 DEF TablesAgree, PipesRegistered

LEMMA TablesUnchanged ==
    ASSUME TablesAgree, UNCHANGED <<tracked, ev, interest, addressVars, pipe>>
    PROVE  TablesAgree'
PROOF
  <1> USE DEF addressVars
  <1>1. DescriptorUse'
    BY DEF TablesAgree, DescriptorUse
  <1>2. NoSharedPort'
    BY Zenon DEF TablesAgree, NoSharedPort
  <1>3. Registered' /\ PipesRegistered'
    BY DEF TablesAgree, Registered, PipesRegistered
  <1>4. RoutesExist'
    BY DEF TablesAgree, RoutesExist, Lookup
  <1> QED
    BY <1>1, <1>2, <1>3, <1>4 DEF TablesAgree

\* A new pipe: the descriptor and the event are fresh, and the walk that looks
\* for the event finds this one and no other.
LEMMA RunCommandEvent ==
    ASSUME TypeOK, TablesAgree, NEW f \in Fd, NEW e \in Event, NEW p \in Pid,
           NEW output \in Outputs, RunCommand(f, e, p, output)
    PROVE  /\ Free(f) /\ interest[f] = NoEvent /\ e \notin tracked
           /\ ev'[e].fd = f /\ ev'[e].type = "pipe" /\ ev'[e].pid = p
           /\ \A x \in Event \ {e} : ev'[x] = ev[x]
           /\ tracked' = tracked \cup {e}
           /\ interest' = [interest EXCEPT ![f] = e]
           /\ pipe' = [pipe EXCEPT ![f] = p]
           /\ edge' = edge
PROOF
  <1> DEFINE added == [ev EXCEPT ![e] = NewEvent(f, "pipe")]
             own == {x \in tracked \cup {e} : IsPipeEvent(added[x], f)}
  <1>1. Free(f) /\ e \notin tracked
    BY DEF RunCommand, Lowest, epoll_add_fd
  <1>2. /\ interest[f] = NoEvent
        /\ \A x \in tracked : ev[x].type = "pipe" => ev[x].fd # f
    BY <1>1, FreeUnregistered
  <1>3. added \in [Event -> {added[x] : x \in Event}] /\ added[e] = NewEvent(f, "pipe")
        /\ \A x \in Event \ {e} : added[x] = ev[x]
    BY DEF TypeOK, EpollTypeOK
  <1>4. own = {e}
    <2>1. e \in own
      BY <1>3 DEF IsPipeEvent, NewEvent
    <2>2. \A x \in tracked : x \notin own
      BY <1>1, <1>2, <1>3 DEF IsPipeEvent, TypeOK, EpollTypeOK
    <2> QED
      BY <2>1, <2>2
  <1>5. ev' = [x \in Event |-> IF x \in own THEN ForChild(added[x], p) ELSE added[x]]
    BY Zenon DEF RunCommand
  <1>6. /\ ev'[e] = ForChild(NewEvent(f, "pipe"), p)
        /\ \A x \in Event \ {e} : ev'[x] = ev[x]
    BY <1>3, <1>4, <1>5
  <1> QED
    BY <1>1, <1>2, <1>6 DEF RunCommand, epoll_add_fd, ForChild, NewEvent

LEMMA DiscoveryTables ==
    ASSUME TypeOK, TablesAgree, worker_do_external_discovery, UNCHANGED addressVars
    PROVE  TablesAgree'
PROOF
  <1>1. CASE UNCHANGED <<epollVars, pipe, childVars>>
    BY <1>1, TablesUnchanged DEF epollVars
  <1>2. ASSUME NEW f \in Fd, NEW e \in Event, NEW p \in Pid, NEW output \in Outputs,
               RunCommand(f, e, p, output)
        PROVE  TablesAgree'
    <2> USE DEF TypeOK, EpollTypeOK, AddressTypeOK
    <2> /\ Free(f) /\ interest[f] = NoEvent /\ e \notin tracked
        /\ ev'[e].fd = f /\ ev'[e].type = "pipe" /\ ev'[e].pid = p
        /\ \A x \in Event \ {e} : ev'[x] = ev[x]
        /\ tracked' = tracked \cup {e}
        /\ interest' = [interest EXCEPT ![f] = e]
        /\ pipe' = [pipe EXCEPT ![f] = p]
      BY <1>2, RunCommandEvent
    <2> e # NoEvent /\ p # NoPid
      BY EventAssumption, PidAssumption
    <2> sock' = sock /\ used_ports' = used_ports /\ address_map' = address_map
      BY DEF addressVars
    <2>1. DescriptorUse'
      BY DEF TablesAgree, DescriptorUse, Free
    <2>2. NoSharedPort'
      BY Zenon DEF TablesAgree, NoSharedPort
    <2>3. ASSUME NEW g \in Fd, interest'[g] # NoEvent
          PROVE  \/ g = f
                 \/ /\ g # f /\ interest'[g] = interest[g] /\ interest[g] \in tracked
                    /\ interest[g] # e /\ ev'[interest[g]] = ev[interest[g]]
                    /\ pipe'[g] = pipe[g]
      BY <2>3 DEF TablesAgree, Registered
    <2>4. Registered'
      <3> SUFFICES ASSUME NEW g \in Fd, interest'[g] # NoEvent
                   PROVE  /\ interest'[g] \in tracked'
                          /\ ev'[interest'[g]].fd = g
                          /\ LET r == ev'[interest'[g]]
                             IN \/ r.type = "udp" /\ sock[g] # NoPort
                                \/ r.type = "pipe" /\ pipe'[g] # NoPid /\ r.pid = pipe'[g]
                                \/ r.type = "signal" /\ g = SignalFd
                                \/ r.type = "timer" /\ g = TimerFd
        BY Zenon DEF Registered
      <3>1. CASE g = f
        BY <3>1
      <3>2. CASE g # f
        BY <3>2, <2>3 DEF TablesAgree, Registered
      <3> QED
        BY <3>1, <3>2
    <2>5. PipesRegistered'
      <3>1. \A g \in Fd : pipe'[g] # NoPid => interest'[g] # NoEvent
        BY DEF TablesAgree, PipesRegistered
      <3>2. \A x \in tracked : ev[x].type = "pipe" => ev[x].fd # f
        BY FreeUnregistered
      <3>3. ASSUME NEW x \in tracked', ev'[x].type = "pipe"
            PROVE  interest'[ev'[x].fd] = x
        <4>1. CASE x = e
          BY <4>1
        <4>2. CASE x # e
          <5>1. x \in tracked /\ ev'[x] = ev[x] /\ ev[x].fd \in Fd /\ ev[x].fd # f
            BY <4>2, <3>2, <3>3 DEF EventRecord
          <5> QED
            BY <5>1, <3>3 DEF TablesAgree, PipesRegistered
        <4> QED
          BY <4>1, <4>2
      <3> QED
        BY <3>1, <3>3 DEF PipesRegistered
    <2>6. RoutesExist'
      <3> SUFFICES ASSUME NEW g \in Fd, interest'[g] # NoEvent,
                          ev'[interest'[g]].type = "udp"
                   PROVE  Lookup(g) # {}
        BY DEF RoutesExist, Lookup
      <3>1. g # f
        BY DEF TypeOK
      <3> QED
        BY <3>1, <2>3 DEF TablesAgree, RoutesExist
    <2> QED
      BY <2>1, <2>2, <2>4, <2>5, <2>6 DEF TablesAgree
  <1> QED
    BY <1>1, <1>2 DEF worker_do_external_discovery, run_command

\* UdpEmpty closes the socket of the current event and leaves its event behind.
LEMMA UdpEmptyTables ==
    ASSUME IInv, UdpEmpty
    PROVE  TablesAgree'
PROOF
  <1> USE DEF IInv, TypeOK, EpollTypeOK, AddressTypeOK
  <1>1. /\ current \in Fd /\ interest[current] = cur /\ ev[cur].type = "udp"
        /\ cur \in Event
    BY DEF UdpEmpty, CurrentRegistered, Handling, current, EventRecord
  <1>2. /\ tracked' = tracked /\ ev' = ev /\ used_ports' = used_ports
        /\ address_map' = address_map /\ pipe' = pipe
        /\ interest' = [interest EXCEPT ![current] = NoEvent]
        /\ sock' = [sock EXCEPT ![current] = NoPort]
    BY DEF UdpEmpty, epoll_close_fd
  <1>3. sock[current] # NoPort /\ pipe[current] = NoPid
    BY <1>1, EventAssumption DEF TablesAgree, Registered, DescriptorUse
  <1>4. DescriptorUse'
    BY <1>1, <1>2 DEF TablesAgree, DescriptorUse
  <1>5. NoSharedPort'
    <2>1. ASSUME NEW f \in Fd, NEW g \in Fd, sock'[f] # NoPort, sock'[f] = sock'[g]
          PROVE  sock[f] # NoPort /\ sock[f] = sock[g]
      BY <1>1, <1>2, <2>1
    <2> QED
      BY <2>1, Zenon DEF TablesAgree, NoSharedPort
  <1>6. Registered'
    BY <1>1, <1>2, <1>3 DEF TablesAgree, Registered
  <1>7. PipesRegistered'
    <2>1. \A f \in Fd : pipe'[f] # NoPid => interest'[f] # NoEvent
      BY <1>2, <1>3 DEF TablesAgree, PipesRegistered
    <2>2. ASSUME NEW e \in tracked, ev[e].type = "pipe"
          PROVE  interest'[ev[e].fd] = e
      <3>1. interest[ev[e].fd] = e /\ ev[e].fd \in Fd
        BY <2>2 DEF TablesAgree, PipesRegistered, EventRecord
      <3>2. ev[e].fd # current
        BY <1>1, <2>2, <3>1
      <3> QED
        BY <1>2, <3>1, <3>2
    <2> QED
      BY <1>2, <2>1, <2>2 DEF PipesRegistered
  <1>8. RoutesExist'
    BY <1>1, <1>2 DEF TablesAgree, RoutesExist, Lookup
  <1> QED
    BY <1>4, <1>5, <1>6, <1>7, <1>8 DEF TablesAgree

\* A read() changes nothing but the output collected in the current event.
LEMMA PipeReadEvent ==
    ASSUME TypeOK, PipeRead
    PROVE  /\ \A e \in Event : /\ ev'[e].fd = ev[e].fd
                               /\ ev'[e].type = ev[e].type
                               /\ ev'[e].pid = ev[e].pid
           /\ UNCHANGED <<tracked, interest, edge, addressVars, pipe, threadVars>>
PROOF
  <1>1. ev' = [ev EXCEPT ![cur].output =
                    @ \o SubSeq(sent[pipe[current]], 1, ReadLength(sent[pipe[current]]))]
    BY DEF PipeRead
  <1> QED
    BY <1>1 DEF PipeRead, TypeOK, EpollTypeOK, EventRecord, addressVars, threadVars

LEMMA PipeReadTables ==
    ASSUME IInv, PipeRead
    PROVE  TablesAgree'
PROOF
  <1> USE DEF IInv, TypeOK, EpollTypeOK
  <1>1. /\ \A e \in Event : /\ ev'[e].fd = ev[e].fd
                            /\ ev'[e].type = ev[e].type
                            /\ ev'[e].pid = ev[e].pid
        /\ UNCHANGED <<tracked, interest, addressVars, pipe>>
    BY PipeReadEvent
  <1> USE <1>1 DEF addressVars
  <1>2. DescriptorUse'
    BY DEF TablesAgree, DescriptorUse
  <1>3. NoSharedPort'
    BY Zenon DEF TablesAgree, NoSharedPort
  <1>4. Registered'
    <2> SUFFICES ASSUME NEW f \in Fd, interest'[f] # NoEvent
                 PROVE  /\ interest'[f] \in tracked'
                        /\ ev'[interest'[f]].fd = f
                        /\ LET r == ev'[interest'[f]]
                           IN \/ r.type = "udp" /\ sock'[f] # NoPort
                              \/ r.type = "pipe" /\ pipe'[f] # NoPid /\ r.pid = pipe'[f]
                              \/ r.type = "signal" /\ f = SignalFd
                              \/ r.type = "timer" /\ f = TimerFd
      BY Zenon DEF Registered
    <2> DEFINE e == interest[f]
    <2>1. e \in Event /\ interest'[f] = e /\ e # NoEvent
      OBVIOUS
    <2>2. ev'[e].fd = ev[e].fd /\ ev'[e].type = ev[e].type /\ ev'[e].pid = ev[e].pid
      BY <1>1, <2>1
    <2>3. /\ e \in tracked /\ ev[e].fd = f
          /\ \/ ev[e].type = "udp" /\ sock[f] # NoPort
             \/ ev[e].type = "pipe" /\ pipe[f] # NoPid /\ ev[e].pid = pipe[f]
             \/ ev[e].type = "signal" /\ f = SignalFd
             \/ ev[e].type = "timer" /\ f = TimerFd
      BY <2>1, Zenon DEF TablesAgree, Registered
    <2> QED
      BY <2>1, <2>2, <2>3
  <1>5. PipesRegistered'
    BY DEF TablesAgree, PipesRegistered
  <1>6. RoutesExist'
    BY DEF TablesAgree, RoutesExist, Lookup
  <1> QED
    BY <1>2, <1>3, <1>4, <1>5, <1>6 DEF TablesAgree

\* free_command deletes exactly the event it has worked for.
LEMMA FreeCommandEvent ==
    ASSUME IInv, FreeCommand
    PROVE  /\ cur \in tracked /\ current \in Fd /\ interest[current] = cur
           /\ pipe[current] # NoPid /\ sock[current] = NoPort
           /\ current \notin {SignalFd, TimerFd}
           /\ tracked' = tracked \ {cur}
           /\ interest' = [interest EXCEPT ![current] = NoEvent]
           /\ pipe' = [pipe EXCEPT ![current] = NoPid]
           /\ edge' = edge \ {current}
           /\ UNCHANGED <<ev, addressVars>>
PROOF
  <1> USE DEF IInv, TypeOK, EpollTypeOK
  <1>1. /\ cur \in tracked /\ cur \in Event /\ current \in Fd
        /\ interest[current] = cur /\ ev[cur].type = "pipe"
    BY DEF FreeCommand, CurrentRegistered, Handling, current, EventRecord
  <1>2. pipe[current] # NoPid
    BY <1>1, EventAssumption DEF TablesAgree, Registered
  <1>3. sock[current] = NoPort /\ current \notin {SignalFd, TimerFd}
    BY <1>1, <1>2 DEF TablesAgree, DescriptorUse
  <1>4. \A e \in tracked : IsPipeEvent(ev[e], current) => e = cur
    BY <1>1 DEF TablesAgree, PipesRegistered, IsPipeEvent
  <1>5. tracked' = tracked \ {cur}
    BY <1>4 DEF FreeCommand, ll_delete_node
  <1> QED
    BY <1>1, <1>2, <1>3, <1>5 DEF FreeCommand, epoll_close_fd

LEMMA FreeCommandTables ==
    ASSUME IInv, FreeCommand
    PROVE  TablesAgree'
PROOF
  <1> USE DEF IInv, TypeOK, EpollTypeOK
  <1>1. /\ cur \in tracked /\ current \in Fd /\ interest[current] = cur
        /\ tracked' = tracked \ {cur}
        /\ interest' = [interest EXCEPT ![current] = NoEvent]
        /\ pipe' = [pipe EXCEPT ![current] = NoPid]
        /\ UNCHANGED <<ev, addressVars>>
    BY FreeCommandEvent
  <1> USE DEF addressVars
  <1>2. DescriptorUse'
    BY <1>1 DEF TablesAgree, DescriptorUse
  <1>3. NoSharedPort'
    BY <1>1, Zenon DEF TablesAgree, NoSharedPort
  <1>4. ASSUME NEW f \in Fd, interest'[f] # NoEvent
        PROVE  /\ f # current /\ interest'[f] = interest[f] /\ pipe'[f] = pipe[f]
               /\ interest[f] # cur
    <2>1. f # current /\ interest'[f] = interest[f] /\ pipe'[f] = pipe[f]
      BY <1>1, <1>4
    <2>2. ev[interest[f]].fd = f /\ ev[cur].fd = current
      BY <2>1, <1>4 DEF TablesAgree, Registered, current
    <2> QED
      BY <2>1, <2>2
  <1>5. Registered'
    BY <1>1, <1>4 DEF TablesAgree, Registered
  <1>6. PipesRegistered'
    BY <1>1 DEF TablesAgree, PipesRegistered, EventRecord, current
  <1>7. RoutesExist'
    BY <1>1, <1>4 DEF TablesAgree, RoutesExist, Lookup
  <1> QED
    BY <1>2, <1>3, <1>5, <1>6, <1>7 DEF TablesAgree

\* A new socket: the bit of its port was clear, so no other socket has it.
LEMMA AddressBoundTables ==
    ASSUME IInv, AddressBound
    PROVE  TablesAgree'
PROOF
  <1> USE DEF IInv, TypeOK, EpollTypeOK, AddressTypeOK
  <1> DEFINE port == Head(todo).port
  <1>1. PICK f \in Fd : Lowest(f) /\ ClaimPort(port, f)
    BY DEF AddressBound
  <1>2. Free(f) /\ interest[f] = NoEvent
    BY <1>1, FreeUnregistered DEF Lowest
  <1>3. port \in Port /\ port # NoPort /\ port \notin used_ports
    <2>1. Head(todo) \in [port : Port, camera : Camera]
      BY TailType DEF AddressBound
    <2> QED
      BY <2>1, PortAssumption DEF AddressBound, PortTaken
  <1>4. /\ sock' = [sock EXCEPT ![f] = port]
        /\ used_ports' = used_ports \cup {port}
        /\ UNCHANGED <<tracked, ev, interest, address_map, pipe>>
    BY <1>1 DEF AddressBound, ClaimPort, epollVars
  <1>5. DescriptorUse'
    BY <1>2, <1>4 DEF TablesAgree, DescriptorUse, Free
  <1>6. NoSharedPort'
    <2> SUFFICES ASSUME NEW g \in Fd, NEW h \in Fd, sock'[g] # NoPort, sock'[g] = sock'[h]
                 PROVE  g = h
      BY Zenon DEF NoSharedPort
    <2>1. \A x \in Fd : sock[x] # port
      BY <1>3 DEF TablesAgree, DescriptorUse
    <2>2. CASE g # f /\ h # f
      <3>1. sock[g] # NoPort /\ sock[g] = sock[h]
        BY <1>4, <2>2
      <3> QED
        BY <3>1, Zenon DEF TablesAgree, NoSharedPort
    <2>3. CASE g = f \/ h = f
      BY <1>4, <2>1, <2>3
    <2> QED
      BY <2>2, <2>3
  <1>7. Registered'
    BY <1>2, <1>4 DEF TablesAgree, Registered
  <1>8. PipesRegistered'
    BY <1>4 DEF TablesAgree, PipesRegistered
  <1>9. RoutesExist'
    BY <1>4 DEF TablesAgree, RoutesExist, Lookup
  <1> QED
    BY <1>5, <1>6, <1>7, <1>8, <1>9 DEF TablesAgree

\* The socket is registered with a fresh event, and gets an entry.
LEMMA AddressReadyTables ==
    ASSUME IInv, AddressReady
    PROVE  TablesAgree'
PROOF
  <1> USE DEF IInv, TypeOK, EpollTypeOK, AddressTypeOK
  <1>1. PICK e \in Event : /\ epoll_add_fd(e, new_fd, Readable(new_fd))
                           /\ ev' = [ev EXCEPT ![e] = NewEvent(new_fd, "udp")]
    BY DEF AddressReady
  <1>2. /\ new_fd \in Fd /\ interest[new_fd] = NoEvent /\ sock[new_fd] # NoPort
    <2>1. Head(todo) \in [port : Port, camera : Camera]
      BY TailType DEF AddressReady, ProbeBound
    <2> QED
      BY <2>1, PortAssumption DEF AddressReady, ProbeBound
  <1>3. /\ e \notin tracked /\ e # NoEvent
        /\ ev'[e].fd = new_fd /\ ev'[e].type = "udp"
        /\ \A x \in Event \ {e} : ev'[x] = ev[x]
        /\ tracked' = tracked \cup {e}
        /\ interest' = [interest EXCEPT ![new_fd] = e]
        /\ UNCHANGED <<used_ports, sock, pipe>>
    BY <1>1, EventAssumption DEF AddressReady, epoll_add_fd, NewEvent
  <1>4. address_map \subseteq address_map' /\ \E a \in address_map' : a.key = new_fd
    <2> DEFINE a == [key |-> new_fd, port |-> Head(todo).port, camera |-> Head(todo).camera]
    <2>1. address_map' = address_map \cup {a} /\ a.key = new_fd
      BY DEF AddressReady, InsertInstance
    <2> QED
      BY <2>1
  <1>5. pipe[new_fd] = NoPid
    BY <1>2 DEF TablesAgree, DescriptorUse
  <1>6. DescriptorUse'
    BY <1>3 DEF TablesAgree, DescriptorUse
  <1>7. NoSharedPort'
    BY <1>3, Zenon DEF TablesAgree, NoSharedPort
  <1>8. ASSUME NEW f \in Fd, f # new_fd, interest'[f] # NoEvent
        PROVE  /\ interest'[f] = interest[f] /\ interest[f] \in tracked
               /\ ev'[interest[f]] = ev[interest[f]]
    BY <1>2, <1>3, <1>8 DEF TablesAgree, Registered
  <1>9. Registered'
    <2> SUFFICES ASSUME NEW f \in Fd, interest'[f] # NoEvent
                 PROVE  /\ interest'[f] \in tracked'
                        /\ ev'[interest'[f]].fd = f
                        /\ LET r == ev'[interest'[f]]
                           IN \/ r.type = "udp" /\ sock'[f] # NoPort
                              \/ r.type = "pipe" /\ pipe'[f] # NoPid /\ r.pid = pipe'[f]
                              \/ r.type = "signal" /\ f = SignalFd
                              \/ r.type = "timer" /\ f = TimerFd
      BY Zenon DEF Registered
    <2>1. CASE f = new_fd
      BY <2>1, <1>2, <1>3
    <2>2. CASE f # new_fd
      BY <2>2, <1>3, <1>8 DEF TablesAgree, Registered
    <2> QED
      BY <2>1, <2>2
  <1>10. PipesRegistered'
    <2>1. \A f \in Fd : pipe'[f] # NoPid => interest'[f] # NoEvent
      BY <1>3 DEF TablesAgree, PipesRegistered
    <2>2. ASSUME NEW x \in tracked', ev'[x].type = "pipe"
          PROVE  interest'[ev'[x].fd] = x
      <3>1. x # e /\ x \in tracked /\ ev'[x] = ev[x]
        BY <1>3, <2>2
      <3>2. interest[ev[x].fd] = x /\ ev[x].fd \in Fd
        BY <2>2, <3>1 DEF TablesAgree, PipesRegistered, EventRecord
      <3>3. ev[x].fd # new_fd
        BY <1>2, <3>1, <3>2, EventAssumption
      <3> QED
        BY <1>3, <3>1, <3>2, <3>3
    <2> QED
      BY <2>1, <2>2 DEF PipesRegistered
  <1>11. RoutesExist'
    <2> SUFFICES ASSUME NEW f \in Fd, interest'[f] # NoEvent, ev'[interest'[f]].type = "udp"
                 PROVE  \E a \in address_map' : a.key = f
      BY DEF RoutesExist, Lookup
    <2>1. CASE f = new_fd
      BY <2>1, <1>4
    <2>2. CASE f # new_fd
      BY <2>2, <1>4, <1>8 DEF TablesAgree, RoutesExist, Lookup
    <2> QED
      BY <2>1, <2>2
  <1> QED
    BY <1>6, <1>7, <1>9, <1>10, <1>11 DEF TablesAgree

\* Every step of the thread.
LEMMA ThreadTables ==
    ASSUME IInv, Thread
    PROVE  TablesAgree'
PROOF
  <1>1. CASE Start \/ epoll_handle_timer
    BY <1>1, DiscoveryTables DEF IInv, Start, epoll_handle_timer
  <1>2. CASE UdpEmpty
    BY <1>2, UdpEmptyTables
  <1>3. CASE PipeRead
    BY <1>3, PipeReadTables
  <1>4. CASE FreeCommand
    BY <1>4, FreeCommandTables
  <1>5. CASE AddressBound
    BY <1>5, AddressBoundTables
  <1>6. CASE AddressReady
    BY <1>6, AddressReadyTables
  <1>7. CASE \/ DiscoveryDies \/ EpollWait \/ (\E b \in batch : Dispatch(b))
             \/ BatchDone \/ epoll_handle_signal \/ ReadTimer
             \/ UdpMessage \/ UdpMessageDies \/ UdpDrained
             \/ PipeDrained \/ Reap
             \/ AddressTaken \/ AddressDies \/ AddressUnreachable \/ ProbeDies
             \/ AddressesDone
    <2>1. UNCHANGED <<tracked, ev, interest, addressVars, pipe>>
      BY <1>7 DEF DiscoveryDies, Die, EpollWait, Dispatch, BatchDone,
            epoll_handle_signal, ReadTimer, UdpMessage, UdpMessageDies, UdpDrained,
            PipeDrained, Reap, AddressTaken, AddressDies, AddressUnreachable,
            ProbeDies, AddressesDone, epollVars
    <2> QED
      BY <2>1, TablesUnchanged DEF IInv
  <1> QED
    BY <1>1, <1>2, <1>3, <1>4, <1>5, <1>6, <1>7, Zenon DEF Thread

------------------------------------------------------------------------------
(* The environment.                                                          *)

\* Whatever clients, children, the clock and the user do, the thread and the
\* tables stay as they are, and only registered descriptors become ready.
LEMMA EnvironmentStep ==
    ASSUME Environment
    PROVE  /\ UNCHANGED <<tracked, ev, interest, addressVars, pipe, threadVars>>
           /\ \A f \in edge' : f \in edge \/ interest[f] # NoEvent
PROOF
  <1>1. CASE \E f \in Fd, d \in Datagram : Arrive(f, d)
    BY <1>1 DEF Arrive, Notify
  <1>2. CASE TimerExpires
    BY <1>2 DEF TimerExpires, Notify
  <1>3. CASE Interrupt
    BY <1>3 DEF Interrupt, Notify
  <1>4. ASSUME NEW p \in Pid, ChildWrites(p) \/ ChildCloses(p)
        PROVE  /\ UNCHANGED <<tracked, ev, interest, addressVars, pipe, threadVars>>
               /\ \A f \in edge' : f \in edge \/ interest[f] # NoEvent
    BY <1>4 DEF ChildWrites, ChildCloses, NotifyPipe, Notify
  <1>5. ASSUME NEW p \in Pid, ChildExits(p)
        PROVE  /\ UNCHANGED <<tracked, ev, interest, addressVars, pipe, threadVars>>
               /\ \A f \in edge' : f \in edge \/ interest[f] # NoEvent
    BY <1>5 DEF ChildExits, epollVars
  <1> QED
    BY <1>1, <1>2, <1>3, <1>4, <1>5 DEF Environment

LEMMA EnvironmentKeeps ==
    ASSUME IInv, Environment
    PROVE  IInv'
PROOF
  <1>1. /\ UNCHANGED <<tracked, ev, interest, addressVars, pipe, threadVars>>
        /\ \A f \in edge' : f \in edge \/ interest[f] # NoEvent
    BY EnvironmentStep
  <1>2. TypeOK'
    BY EnvironmentType DEF IInv
  <1>3. TablesAgree'
    BY <1>1, TablesUnchanged DEF IInv
  <1>4. BatchRegistered'
    BY <1>1 DEF IInv, BatchRegistered, Handling, threadVars
  <1>5. CurrentRegistered' /\ ProbeBound' /\ FirstDiscovery'
    BY <1>1 DEF IInv, CurrentRegistered, ProbeBound, FirstDiscovery, Handling, current, threadVars,
          addressVars
  <1>6. DescriptorLeft'
    BY <1>1 DEF IInv, DescriptorLeft, Free, threadVars, addressVars
  <1> QED
    BY <1>2, <1>3, <1>4, <1>5, <1>6 DEF IInv

------------------------------------------------------------------------------
(* The batch and the current event.                                          *)

\* Steps that leave the tables, the ready list, the batch and the current
\* event alone, and do not start to handle an event.
LEMMA BatchUnchanged ==
    ASSUME IInv, UNCHANGED <<tracked, ev, interest, edge, batch, cur>>,
           Handling' => Handling
    PROVE  BatchRegistered'
  BY DEF IInv, BatchRegistered

\* Steps that register a new event e for a descriptor that had none.
LEMMA BatchExtended ==
    ASSUME IInv, NEW f \in Fd, NEW e \in Event \ tracked, interest[f] = NoEvent,
           tracked' = tracked \cup {e},
           interest' = [interest EXCEPT ![f] = e],
           \A x \in Event \ {e} : ev'[x] = ev[x],
           edge' \subseteq edge \cup {f},
           UNCHANGED <<batch, cur>>,
           Handling' => Handling
    PROVE  BatchRegistered'
PROOF
  <1> USE DEF IInv, TypeOK, EpollTypeOK
  <1>1. \A g \in edge' : interest'[g] # NoEvent
    BY EventAssumption DEF BatchRegistered
  <1>2. ASSUME NEW b \in batch
        PROVE  /\ b.ev \in tracked' /\ interest'[ev'[b.ev].fd] = b.ev
               /\ b.hup => ev'[b.ev].type = "pipe"
               /\ Handling' => b.ev # cur
    <2>1. b.ev \in tracked /\ interest[ev[b.ev].fd] = b.ev /\ ev'[b.ev] = ev[b.ev]
      BY DEF BatchRegistered
    <2>2. ev[b.ev].fd # f /\ ev[b.ev].fd \in Fd
      BY <2>1, EventAssumption DEF EventRecord
    <2> QED
      BY <2>1, <2>2 DEF BatchRegistered
  <1> QED
    BY <1>1, <1>2 DEF BatchRegistered

\* Steps that close the descriptor of the current event; the rest of the batch
\* is about other descriptors.
LEMMA BatchClosed ==
    ASSUME IInv, Handling, ~Handling',
           tracked \ {cur} \subseteq tracked',
           interest' = [interest EXCEPT ![current] = NoEvent],
           edge' = edge \ {current},
           UNCHANGED <<ev, batch>>
    PROVE  BatchRegistered'
PROOF
  <1> USE DEF IInv, TypeOK, EpollTypeOK
  <1>1. cur \in tracked /\ interest[current] = cur
    BY DEF CurrentRegistered
  <1>2. \A g \in edge' : interest'[g] # NoEvent
    BY DEF BatchRegistered
  <1>3. ASSUME NEW b \in batch
        PROVE  b.ev \in tracked' /\ interest'[ev[b.ev].fd] = b.ev
    <2>1. /\ b.ev \in tracked /\ b.ev # cur /\ interest[ev[b.ev].fd] = b.ev
          /\ ev[b.ev].fd \in Fd
      BY DEF BatchRegistered, EventRecord
    <2>2. ev[b.ev].fd # current
      BY <1>1, <2>1
    <2> QED
      BY <2>1, <2>2
  <1> QED
    BY <1>2, <1>3 DEF BatchRegistered

LEMMA EpollWaitBatch ==
    ASSUME IInv, EpollWait
    PROVE  BatchRegistered'
PROOF
  <1> USE DEF IInv, TypeOK, EpollTypeOK
  <1>1. /\ UNCHANGED <<tracked, ev, interest>> /\ edge' = {} /\ ~Handling'
        /\ batch' = {[ev |-> interest[f], in |-> Readable(f), hup |-> HungUp(f)] : f \in Ready}
    BY DEF EpollWait, Handling
  <1>2. ASSUME NEW f \in Ready
        PROVE  /\ interest[f] \in tracked /\ ev[interest[f]].fd = f
               /\ HungUp(f) => ev[interest[f]].type = "pipe"
    <2>1. f \in Fd /\ interest[f] # NoEvent
      BY DEF Ready, BatchRegistered
    <2>2. interest[f] \in tracked /\ ev[interest[f]].fd = f
      BY <2>1 DEF TablesAgree, Registered
    <2>3. HungUp(f) => ev[interest[f]].type = "pipe"
      BY <2>1 DEF HungUp, TablesAgree, Registered, DescriptorUse
    <2> QED
      BY <2>2, <2>3
  <1> DEFINE entry(f) == [ev |-> interest[f], in |-> Readable(f), hup |-> HungUp(f)]
  <1>3. \A b \in batch' : \E f \in Ready : b = entry(f)
    BY <1>1, Zenon
  <1>4. \A f \in Ready : entry(f).ev = interest[f] /\ entry(f).hup = HungUp(f)
    BY Zenon
  <1>5. ASSUME NEW b \in batch', NEW c \in batch', b.ev = c.ev
        PROVE  b = c
    <2>1. PICK f \in Ready : b = entry(f)
      BY <1>3
    <2>2. PICK g \in Ready : c = entry(g)
      BY <1>3
    <2>3. interest[f] = interest[g]
      BY <1>4, <1>5, <2>1, <2>2, Zenon
    <2>4. f = g
      BY <1>2, <2>3
    <2> QED
      BY <2>1, <2>2, <2>4
  <1>6. ASSUME NEW b \in batch'
        PROVE  /\ b.ev \in tracked /\ interest[ev[b.ev].fd] = b.ev
               /\ b.hup => ev[b.ev].type = "pipe"
    <2>1. PICK f \in Ready : b = entry(f)
      BY <1>3
    <2>2. b.ev = interest[f] /\ b.hup = HungUp(f)
      BY <1>4, <2>1, Zenon
    <2> QED
      BY <1>2, <2>2, Zenon
  <1> QED
    BY <1>1, <1>5, <1>6 DEF BatchRegistered

LEMMA ThreadBatch ==
    ASSUME IInv, Thread
    PROVE  BatchRegistered'
PROOF
  <1>1. CASE Start \/ epoll_handle_timer
    <2>1. UNCHANGED <<batch, cur>> /\ (Handling' => Handling)
      BY <1>1 DEF Start, epoll_handle_timer, Handling
    <2>2. CASE UNCHANGED <<epollVars, pipe, childVars>>
      BY <2>1, <2>2, BatchUnchanged DEF epollVars
    <2>3. ASSUME NEW f \in Fd, NEW e \in Event, NEW p \in Pid, NEW output \in Outputs,
                 RunCommand(f, e, p, output)
          PROVE  BatchRegistered'
      <3>1. /\ interest[f] = NoEvent /\ e \notin tracked
            /\ \A x \in Event \ {e} : ev'[x] = ev[x]
            /\ tracked' = tracked \cup {e}
            /\ interest' = [interest EXCEPT ![f] = e]
            /\ edge' = edge
        BY <2>3, RunCommandEvent DEF IInv
      <3> QED
        BY <2>1, <3>1, BatchExtended
    <2> QED
      BY <1>1, <2>2, <2>3 DEF Start, epoll_handle_timer, worker_do_external_discovery,
            run_command
  <1>2. CASE EpollWait
    BY <1>2, EpollWaitBatch
  <1>3. ASSUME NEW b \in batch, Dispatch(b)
        PROVE  BatchRegistered'
    BY <1>3 DEF Dispatch, IInv, BatchRegistered, epollVars
  <1>4. CASE UdpEmpty
    <2>1. Handling /\ ~Handling'
      BY <1>4 DEF UdpEmpty, Handling
    <2> QED
      BY <1>4, <2>1, BatchClosed DEF UdpEmpty, epoll_close_fd
  <1>5. CASE PipeRead
    BY <1>5, PipeReadEvent DEF IInv, TypeOK, EpollTypeOK, BatchRegistered, BatchEntry,
          Handling, threadVars
  <1>6. CASE FreeCommand
    <2>1. Handling /\ ~Handling' /\ batch' = batch
      BY <1>6 DEF FreeCommand, Handling
    <2> QED
      BY <1>6, <2>1, BatchClosed, FreeCommandEvent
  <1>7. CASE AddressReady
    <2>1. PICK e \in Event : /\ epoll_add_fd(e, new_fd, Readable(new_fd))
                             /\ ev' = [ev EXCEPT ![e] = NewEvent(new_fd, "udp")]
      BY <1>7 DEF AddressReady
    <2>2. /\ new_fd \in Fd /\ interest[new_fd] = NoEvent
          /\ UNCHANGED <<batch, cur>> /\ (Handling' => Handling)
      BY <1>7 DEF AddressReady, IInv, ProbeBound, Handling
    <2>3. /\ e \notin tracked /\ tracked' = tracked \cup {e}
          /\ interest' = [interest EXCEPT ![new_fd] = e]
          /\ edge' \subseteq edge \cup {new_fd}
          /\ \A x \in Event \ {e} : ev'[x] = ev[x]
      BY <2>1 DEF epoll_add_fd, IInv, TypeOK, EpollTypeOK
    <2> QED
      BY <2>2, <2>3, BatchExtended
  <1>8. CASE \/ DiscoveryDies
             \/ BatchDone \/ epoll_handle_signal \/ ReadTimer
             \/ UdpMessage \/ UdpMessageDies \/ UdpDrained
             \/ PipeDrained \/ Reap
             \/ AddressTaken \/ AddressBound \/ AddressDies \/ AddressUnreachable
             \/ ProbeDies \/ AddressesDone
    <2>1. UNCHANGED <<tracked, ev, interest, edge, batch, cur>>
      BY <1>8 DEF DiscoveryDies, Die, BatchDone,
            epoll_handle_signal, ReadTimer, UdpMessage, UdpMessageDies, UdpDrained,
            PipeDrained, Reap, AddressTaken, AddressBound, AddressDies,
            AddressUnreachable, ProbeDies, AddressesDone, epollVars
    <2>2. Handling' => Handling
      BY <1>8 DEF Handling, DiscoveryDies, Die, BatchDone, AfterBatch,
            epoll_handle_signal, ReadTimer, UdpMessage, ContinueReading, UdpMessageDies,
            UdpDrained, PipeDrained, AfterDrained, Reap, AddressTaken, AddressBound,
            AddressDies, AddressUnreachable, ProbeDies, AddressesDone
    <2> QED
      BY <2>1, <2>2, BatchUnchanged
  <1> QED
    BY <1>1, <1>2, <1>3, <1>4, <1>5, <1>6, <1>7, <1>8, Zenon DEF Thread

LEMMA ThreadCurrent ==
    ASSUME IInv, Thread
    PROVE  CurrentRegistered'
PROOF
  <1> USE DEF IInv, TypeOK, EpollTypeOK
  <1>1. CASE Start \/ epoll_handle_timer
    <2>1. cur' = cur /\ (Handling' => pc = "timer" /\ pc' = "tick")
      BY <1>1 DEF Start, epoll_handle_timer, Handling, FirstDiscovery
    <2>2. CASE UNCHANGED <<epollVars, pipe, childVars>>
      BY <2>1, <2>2 DEF epollVars, CurrentRegistered, Handling, current
    <2>3. ASSUME NEW f \in Fd, NEW e \in Event, NEW p \in Pid, NEW output \in Outputs,
                 RunCommand(f, e, p, output)
          PROVE  CurrentRegistered'
      <3>1. /\ interest[f] = NoEvent /\ e \notin tracked
            /\ \A x \in Event \ {e} : ev'[x] = ev[x]
            /\ tracked' = tracked \cup {e}
            /\ interest' = [interest EXCEPT ![f] = e]
        BY <2>3, RunCommandEvent
      <3> SUFFICES ASSUME Handling'
                   PROVE  /\ cur' \in tracked' /\ interest'[current'] = cur'
                          /\ ev'[cur'].type = "timer" /\ pc' = "tick"
        BY DEF CurrentRegistered
      <3>2. /\ cur \in tracked /\ interest[current] = cur /\ ev[cur].type = "timer"
            /\ cur' = cur /\ pc' = "tick"
        BY <2>1 DEF CurrentRegistered, Handling
      <3>3. ev'[cur] = ev[cur] /\ current' = current
        BY <3>1, <3>2 DEF current
      <3>4. current # f /\ current \in Fd
        BY <3>1, <3>2, EventAssumption DEF current, EventRecord
      <3> QED
        BY <3>1, <3>2, <3>3, <3>4
    <2> QED
      BY <1>1, <2>2, <2>3 DEF Start, epoll_handle_timer, worker_do_external_discovery,
            run_command
  <1>2. ASSUME NEW b \in batch, Dispatch(b)
        PROVE  CurrentRegistered'
    <2>1. /\ b.ev \in tracked /\ interest[ev[b.ev].fd] = b.ev
          /\ b.hup => ev[b.ev].type = "pipe"
          /\ ev[b.ev].type \in EventType
      BY DEF BatchRegistered, EventRecord
    <2>2. /\ UNCHANGED <<tracked, ev, interest>> /\ cur' = b.ev
          /\ pc' = IF HangupOnly(b) THEN "reap" ELSE ev[b.ev].type
      BY <1>2 DEF Dispatch, epollVars
    <2>3. current' = ev[b.ev].fd
      BY <2>2 DEF current
    <2> QED
      BY <2>1, <2>2, <2>3 DEF CurrentRegistered, HangupOnly, EventType
  <1>3. CASE PipeRead
    BY <1>3, PipeReadEvent DEF CurrentRegistered, Handling, current, threadVars
  <1>4. CASE AddressReady
    <2>1. PICK e \in Event : /\ epoll_add_fd(e, new_fd, Readable(new_fd))
                             /\ ev' = [ev EXCEPT ![e] = NewEvent(new_fd, "udp")]
      BY <1>4 DEF AddressReady
    <2>2. /\ new_fd \in Fd /\ interest[new_fd] = NoEvent
          /\ cur' = cur /\ pc = "probe" /\ pc' = "add"
      BY <1>4 DEF AddressReady, ProbeBound
    <2>3. /\ e \notin tracked /\ tracked' = tracked \cup {e}
          /\ interest' = [interest EXCEPT ![new_fd] = e]
          /\ \A x \in Event \ {e} : ev'[x] = ev[x]
      BY <2>1 DEF epoll_add_fd
    <2> SUFFICES ASSUME cur # NoEvent
                 PROVE  /\ cur \in tracked' /\ interest'[current'] = cur
                        /\ ev'[cur].type = "pipe"
      BY <2>2 DEF CurrentRegistered, Handling
    <2>4. cur \in tracked /\ interest[current] = cur /\ ev[cur].type = "pipe"
      BY <2>2 DEF CurrentRegistered, Handling
    <2>5. ev'[cur] = ev[cur] /\ current' = current
      BY <2>2, <2>3, <2>4 DEF current
    <2>6. current # new_fd /\ current \in Fd
      BY <2>2, <2>4 DEF current, EventRecord
    <2> QED
      BY <2>3, <2>4, <2>5, <2>6
  <1>5. CASE EpollWait \/ UdpEmpty \/ FreeCommand \/ DiscoveryDies \/ BatchDone
             \/ epoll_handle_signal \/ ReadTimer \/ UdpMessageDies \/ UdpDrained
             \/ AddressDies \/ ProbeDies
    <2>1. ~Handling'
      BY <1>5 DEF EpollWait, UdpEmpty, FreeCommand, DiscoveryDies, Die, BatchDone,
            AfterBatch, epoll_handle_signal, ReadTimer, UdpMessageDies, UdpDrained,
            AddressDies, ProbeDies, Handling
    <2> QED
      BY <2>1 DEF CurrentRegistered
  <1>6. CASE UdpMessage \/ PipeDrained \/ Reap \/ AddressTaken \/ AddressBound
             \/ AddressUnreachable \/ AddressesDone
    <2>1. UNCHANGED <<tracked, ev, interest, cur>>
      BY <1>6 DEF UdpMessage, PipeDrained, Reap, AddressTaken, AddressBound,
            AddressUnreachable, AddressesDone, epollVars
    <2>2. Handling' => /\ Handling
                       /\ \/ pc' = "udp" /\ pc = "udp"
                          \/ /\ pc \in {"pipe", "reap", "add", "probe"}
                             /\ pc' \in {"reap", "free", "add", "probe"}
      BY <1>6 DEF UdpMessage, ContinueReading, PipeDrained, AfterDrained, Reap,
            AddressTaken, AddressBound, AddressUnreachable, AddressesDone, Handling
    <2> QED
      BY <2>1, <2>2 DEF CurrentRegistered, current
  <1> QED
    BY <1>1, <1>2, <1>3, <1>4, <1>5, <1>6, Zenon DEF Thread

\* AddressBound alone leads to "probe".
LEMMA ThreadProbe ==
    ASSUME IInv, Thread
    PROVE  ProbeBound'
PROOF
  <1> USE DEF IInv, TypeOK, EpollTypeOK, AddressTypeOK
  <1>1. CASE AddressBound
    <2>1. PICK f \in Fd : Lowest(f) /\ ClaimPort(Head(todo).port, f) /\ new_fd' = f
      BY <1>1 DEF AddressBound
    <2>2. interest[f] = NoEvent
      BY <2>1, FreeUnregistered DEF Lowest
    <2> QED
      BY <1>1, <2>1, <2>2 DEF AddressBound, ProbeBound, ClaimPort, epollVars
  <1>2. ASSUME NEW b \in batch, Dispatch(b)
        PROVE  ProbeBound'
    <2>1. ev[b.ev].type \in EventType
      BY DEF BatchRegistered, EventRecord
    <2> QED
      BY <1>2, <2>1 DEF Dispatch, ProbeBound, EventType
  <1>3. CASE ~AddressBound /\ ~(\E b \in batch : Dispatch(b))
    <2>1. pc' # "probe"
      BY <1>3 DEF Thread, Start, DiscoveryDies, EpollWait, BatchDone, AfterBatch,
            epoll_handle_signal, epoll_handle_timer, ReadTimer, UdpMessage,
            ContinueReading, UdpMessageDies, UdpEmpty, UdpDrained, PipeRead,
            PipeDrained, AfterDrained, Reap, FreeCommand, AddressTaken, AddressDies,
            AddressReady, AddressUnreachable, ProbeDies, AddressesDone, Die, threadVars
    <2> QED
      BY <2>1 DEF ProbeBound
  <1> QED
    BY <1>1, <1>2, <1>3, Zenon

LEMMA ThreadFirstDiscovery ==
    ASSUME IInv, Thread
    PROVE  FirstDiscovery'
PROOF
  <1> USE DEF IInv, TypeOK, EpollTypeOK, FirstDiscovery
  <1>1. ASSUME NEW b \in batch, Dispatch(b)
        PROVE  FirstDiscovery'
    <2>1. b.ev # NoEvent /\ ev[b.ev].type \in EventType
      BY EventAssumption DEF BatchRegistered, EventRecord
    <2> QED
      BY <1>1, <2>1 DEF Dispatch, EventType
  <1>2. CASE Reap
    <2>1. cur # NoEvent
      BY <1>2, EventAssumption DEF Reap, CurrentRegistered, Handling
    <2> QED
      BY <1>2, <2>1 DEF Reap
  <1>3. CASE ~Reap /\ ~(\E b \in batch : Dispatch(b))
    BY <1>3 DEF Thread, Start, DiscoveryDies, EpollWait, BatchDone, AfterBatch,
          epoll_handle_signal, epoll_handle_timer, ReadTimer, UdpMessage,
          ContinueReading, UdpMessageDies, UdpEmpty, UdpDrained, PipeRead,
          PipeDrained, AfterDrained, FreeCommand, AddressTaken, AddressBound,
          AddressDies, AddressReady, AddressUnreachable, ProbeDies, AddressesDone,
          Die, threadVars
  <1> QED
    BY <1>1, <1>2, <1>3, Zenon

\* run_command needs two free descriptors and keeps one; free_command frees one.
LEMMA ThreadDescriptorLeft ==
    ASSUME IInv, Thread
    PROVE  DescriptorLeft'
PROOF
  <1> USE DEF IInv, TypeOK, EpollTypeOK, AddressTypeOK
  <1> DEFINE Left == \E f \in Fd : Free(f)
             LoopPc == {"wait", "dispatch", "signal", "timer", "tick", "udp", "pipe", "reap"}
  <1>1. CASE Start \/ epoll_handle_timer
    <2>1. CASE UNCHANGED <<epollVars, pipe, childVars>> /\ ~can_do_discovery
      <3>1. epoll_handle_timer /\ Left
        BY <1>1, <2>1 DEF Start, epoll_handle_timer, FirstDiscovery, DescriptorLeft
      <3> QED
        BY <2>1, <3>1 DEF DescriptorLeft, Free, epoll_handle_timer, addressVars
    <2>2. ASSUME NEW f \in Fd, NEW e \in Event, NEW p \in Pid, NEW output \in Outputs,
                 RunCommand(f, e, p, output)
          PROVE  DescriptorLeft'
      <3>1. PICK g \in Fd, h \in Fd : g # h /\ Free(g) /\ Free(h)
        BY <2>2 DEF RunCommand, PipePossible
      <3>2. PICK k \in Fd : k # f /\ Free(k)
        BY <3>1
      <3>3. sock' = sock /\ pipe' = [pipe EXCEPT ![f] = p]
        BY <1>1, <2>2 DEF Start, epoll_handle_timer, RunCommand, addressVars
      <3>4. Free(k)'
        BY <3>2, <3>3 DEF Free
      <3> QED
        BY <3>4 DEF DescriptorLeft
    <2> QED
      BY <1>1, <2>1, <2>2 DEF Start, epoll_handle_timer, worker_do_external_discovery,
            run_command
  <1>2. CASE UdpEmpty
    <2>1. PICK f \in Fd : Free(f)
      BY <1>2 DEF UdpEmpty, DescriptorLeft
    <2>2. Free(f)'
      BY <1>2, <2>1 DEF UdpEmpty, Free
    <2> QED
      BY <2>2 DEF DescriptorLeft
  <1>3. CASE FreeCommand
    <2>1. Free(current)' /\ current \in Fd /\ current' = current
      BY <1>3, FreeCommandEvent DEF FreeCommand, Free, addressVars, current
    <2> QED
      BY <2>1 DEF DescriptorLeft
  <1>4. CASE \/ EpollWait \/ (\E b \in batch : Dispatch(b)) \/ BatchDone
             \/ epoll_handle_signal \/ ReadTimer \/ UdpMessage \/ UdpDrained
             \/ PipeRead \/ PipeDrained
    <2>1. pc \in LoopPc /\ UNCHANGED <<sock, pipe>>
      BY <1>4 DEF EpollWait, Dispatch, BatchDone, epoll_handle_signal, ReadTimer,
            UdpMessage, UdpDrained, PipeRead, PipeDrained, addressVars
    <2> QED
      BY <2>1 DEF DescriptorLeft, Free
  <1>5. CASE \/ DiscoveryDies \/ UdpMessageDies \/ Reap \/ AddressTaken \/ AddressBound
             \/ AddressDies \/ AddressReady \/ AddressUnreachable \/ ProbeDies
             \/ AddressesDone
    <2>1. pc' \notin LoopPc
      BY <1>5 DEF DiscoveryDies, UdpMessageDies, Reap, AddressTaken, AddressBound,
            AddressDies, AddressReady, AddressUnreachable, ProbeDies, AddressesDone, Die
    <2> QED
      BY <2>1 DEF DescriptorLeft
  <1> QED
    BY <1>1, <1>2, <1>3, <1>4, <1>5, Zenon DEF Thread

------------------------------------------------------------------------------
(* The inductive invariant and what follows from it.                         *)

LEMMA InitIInv ==
    ASSUME Init
    PROVE  IInv
PROOF
  <1> USE FdAssumption, EventAssumption, PidAssumption DEF Init, EpollInit, AddressInit
  <1>1. ev \in [Event -> EventRecord]
    <2>1. \A f \in Fd, t \in EventType : NewEvent(f, t) \in EventRecord
      BY DEF NewEvent, EventRecord
    <2> QED
      BY <2>1 DEF EventType
  <1>2. TypeOK
    <2>1. EpollTypeOK
      BY <1>1 DEF EpollTypeOK
    <2>2. AddressTypeOK
      BY DEF AddressTypeOK
    <2>3. <<>> \in Seq(Datagram) /\ <<>> \in Seq(Camera)
      OBVIOUS
    <2>4. /\ queue \in [Fd -> Seq(Datagram)] /\ sent \in [Pid -> Seq(Camera)]
          /\ script \in [Pid -> Seq(Camera)]
      BY <2>3
    <2>5. ticks \in 0..MaxTicks /\ arrived \in 0..MaxDatagrams
      BY WorkerAssumption
    <2> QED
      BY <2>1, <2>2, <2>4, <2>5, WorkerAssumption DEF TypeOK, PcValue, ChildState
  <1>3. DescriptorUse /\ NoSharedPort
    BY DEF DescriptorUse, NoSharedPort
  <1>4. Registered /\ PipesRegistered /\ RoutesExist
    BY DEF Registered, PipesRegistered, RoutesExist, NewEvent
  <1>5. BatchRegistered /\ CurrentRegistered /\ ProbeBound /\ FirstDiscovery
        /\ DescriptorLeft
    BY DEF BatchRegistered, CurrentRegistered, Handling, ProbeBound, FirstDiscovery,
           DescriptorLeft
  <1> QED
    BY <1>2, <1>3, <1>4, <1>5 DEF IInv, TablesAgree

LEMMA NextIInv ==
    ASSUME IInv, [Next]_vars
    PROVE  IInv'
PROOF
  <1>1. CASE Thread
    BY <1>1, ThreadType, ThreadTables, ThreadBatch, ThreadCurrent, ThreadProbe,
       ThreadFirstDiscovery, ThreadDescriptorLeft DEF IInv
  <1>2. CASE Environment
    BY <1>2, EnvironmentKeeps
  <1>3. CASE UNCHANGED vars
    <2>1. /\ UNCHANGED <<tracked, ev, interest, edge, addressVars, pipe, threadVars>>
          /\ UNCHANGED <<queue, envVars, childVars>>
      BY <1>3 DEF vars, epollVars
    <2>2. TypeOK'
      BY <2>1 DEF IInv, TypeOK, EpollTypeOK, AddressTypeOK, addressVars, threadVars,
            envVars, childVars
    <2>3. TablesAgree'
      BY <2>1, TablesUnchanged DEF IInv
    <2>4. BatchRegistered' /\ CurrentRegistered' /\ ProbeBound' /\ FirstDiscovery'
      BY <2>1 DEF IInv, BatchRegistered, CurrentRegistered, ProbeBound, FirstDiscovery,
            Handling, current, threadVars, addressVars
    <2>5. DescriptorLeft'
      BY <2>1 DEF IInv, DescriptorLeft, Free, threadVars, addressVars
    <2> QED
      BY <2>2, <2>3, <2>4, <2>5 DEF IInv
  <1> QED
    BY <1>1, <1>2, <1>3 DEF Next

\* The tables of the kernel and of the program agree at every moment of every
\* run, whatever clients, children and the clock do.
THEOREM Inductive == Spec => []IInv
PROOF
  <1>1. Init => IInv
    BY InitIInv
  <1>2. IInv /\ [Next]_vars => IInv'
    BY NextIInv
  <1> QED
    BY <1>1, <1>2, PTL DEF Spec

\* Every variable keeps its type: no wild descriptor, event or port.
THEOREM TypeCorrect == Spec => []TypeOK
PROOF
  <1>1. IInv => TypeOK
    BY DEF IInv
  <1> QED
    BY <1>1, Inductive, PTL

\* SO_REUSEPORT never takes effect: two open sockets have two ports.
THEOREM PortsNotShared == Spec => []NoSharedPort
PROOF
  <1>1. IInv => NoSharedPort
    BY DEF IInv, TablesAgree
  <1> QED
    BY <1>1, Inductive, PTL

\* main_loop and its handlers never follow a pointer to a freed event_t, nor
\* one that was registered for another descriptor.
THEOREM NoDanglingEvent == Spec => []EventsLive
PROOF
  <1>1. IInv => EventsLive
    <2> SUFFICES ASSUME IInv
                 PROVE  EventsLive
      OBVIOUS
    <2>1. \A f \in Fd : interest[f] # NoEvent =>
                interest[f] \in tracked /\ ev[interest[f]].fd = f
      BY DEF IInv, TablesAgree, Registered
    <2>2. \A b \in batch : b.ev \in tracked /\ interest[ev[b.ev].fd] = b.ev
      BY DEF IInv, BatchRegistered
    <2>3. pc \notin {"start", "wait", "dispatch", "stopped", "dead"} /\ cur # NoEvent
            => Handling
      BY DEF IInv, TypeOK, PcValue, Handling
    <2> QED
      BY <2>1, <2>2, <2>3 DEF IInv, CurrentRegistered, EventsLive
  <1> QED
    BY <1>1, Inductive, PTL

\* The die() of address_mngr_get_soap_instance_from_fd is never reached.
THEOREM LookupFinds == Spec => []LookupDefined
PROOF
  <1>1. IInv => LookupDefined
    <2> SUFFICES ASSUME IInv, pc = "udp"
                 PROVE  Lookup(current) # {}
      BY DEF LookupDefined
    <2>1. cur \in tracked /\ interest[current] = cur /\ ev[cur].type = "udp"
      BY DEF IInv, CurrentRegistered, Handling
    <2>2. current \in Fd /\ cur # NoEvent
      BY <2>1, EventAssumption DEF IInv, TypeOK, EpollTypeOK, EventRecord, current
    <2> QED
      BY <2>1, <2>2 DEF IInv, TablesAgree, RoutesExist
  <1> QED
    BY <1>1, Inductive, PTL

\* print_mem_usage finds a descriptor for /proc/self/status on every tick.
THEOREM DescriptorAlwaysLeft == Spec => []DescriptorLeft
PROOF
  <1>1. IInv => DescriptorLeft
    BY DEF IInv
  <1> QED
    BY <1>1, Inductive, PTL

------------------------------------------------------------------------------
(* Routing.                                                                  *)

\* Without empty datagrams no socket is closed, so an entry never outlives the
\* socket whose descriptor is its key.
LEMMA NextRoutesMatch ==
    ASSUME "empty" \notin Datagram, IInv, RoutesMatch, [Next]_vars
    PROVE  RoutesMatch'
PROOF
  <1> USE DEF IInv, TypeOK, EpollTypeOK, AddressTypeOK
  <1>1. CASE UdpEmpty
    <2>1. current \in Fd
      BY <1>1 DEF UdpEmpty, CurrentRegistered, Handling, current, EventRecord
    <2>2. Head(queue[current]) \in Datagram
      BY <1>1, <2>1, TailType DEF UdpEmpty
    <2> QED
      BY <1>1, <2>2 DEF UdpEmpty
  <1>2. CASE AddressBound
    <2>1. PICK f \in Fd : Lowest(f) /\ ClaimPort(Head(todo).port, f)
      BY <1>2 DEF AddressBound
    <2>2. \A a \in address_map : a.key \in Fd /\ a.port # NoPort /\ sock[a.key] = a.port
      BY PortAssumption DEF RoutesMatch, Entry
    <2>3. \A a \in address_map : a.key # f
      BY <2>1, <2>2 DEF Lowest, Free
    <2> QED
      BY <1>2, <2>1, <2>2, <2>3 DEF AddressBound, ClaimPort, RoutesMatch
  <1>3. CASE AddressReady
    <2> DEFINE a == [key |-> new_fd, port |-> Head(todo).port, camera |-> Head(todo).camera]
    <2>1. address_map' = address_map \cup {a} /\ sock' = sock
      BY <1>3 DEF AddressReady, InsertInstance
    <2>2. sock[a.key] = a.port
      BY <1>3 DEF AddressReady, ProbeBound
    <2> QED
      BY <2>1, <2>2 DEF RoutesMatch
  <1>4. CASE (Thread /\ ~UdpEmpty /\ ~AddressBound /\ ~AddressReady) \/ UNCHANGED vars
    <2>1. UNCHANGED <<sock, address_map>>
      BY <1>4 DEF Thread, Start, DiscoveryDies, EpollWait, Dispatch, BatchDone,
            epoll_handle_signal, epoll_handle_timer, ReadTimer, UdpMessage,
            UdpMessageDies, UdpDrained, PipeRead, PipeDrained, Reap, FreeCommand,
            AddressTaken, AddressDies, AddressUnreachable, ProbeDies, AddressesDone,
            Die, addressVars, vars
    <2> QED
      BY <2>1 DEF RoutesMatch
  <1>5. CASE Environment
    BY <1>5, EnvironmentStep DEF RoutesMatch, addressVars
  <1> QED
    BY <1>1, <1>2, <1>3, <1>4, <1>5, Zenon DEF Next

\* As long as no client sends an empty datagram, every command is carried out
\* by the camera the log names for the port it came in on.
THEOREM RoutingCorrect ==
    ASSUME "empty" \notin Datagram
    PROVE  Spec => []CommandReachesCamera
PROOF
  <1>1. Init => RoutesMatch
    BY DEF Init, AddressInit, RoutesMatch
  <1>2. IInv /\ RoutesMatch /\ [Next]_vars => RoutesMatch'
    BY NextRoutesMatch
  <1>3. IInv /\ RoutesMatch => CommandReachesCamera
    <2> SUFFICES ASSUME RoutesMatch
                 PROVE  CommandReachesCamera
      OBVIOUS
    <2>1. \A a \in Lookup(current) : a \in address_map /\ a.key = current
      BY DEF Lookup
    <2> QED
      BY <2>1 DEF CommandReachesCamera, RoutesMatch
  <1> QED
    BY <1>1, <1>2, <1>3, Inductive, PTL DEF Spec

(***************************************************************************)
(* The children of the loop: each has one pipe until it is reaped, and is  *)
(* reaped once, after the last of its output was read.                     *)
(***************************************************************************)

------------------------------------------------------------------------------
(* What the tables say of pipes.                                             *)

\* The current event of the pipe handlers is the one of its pipe.
LEMMA CurrentPipe ==
    ASSUME IInv, \/ pc \in {"pipe", "reap", "free"}
                 \/ pc \in {"add", "probe"} /\ cur # NoEvent
    PROVE  /\ cur \in tracked /\ current \in Fd /\ interest[current] = cur
           /\ pipe[current] \in Pid /\ ev[cur].pid = pipe[current]
PROOF
  <1> USE DEF IInv, TypeOK, EpollTypeOK
  <1>1. /\ cur \in tracked /\ cur \in Event /\ current \in Fd
        /\ interest[current] = cur /\ ev[cur].type = "pipe"
    BY DEF CurrentRegistered, Handling, current, EventRecord
  <1>2. pipe[current] # NoPid /\ ev[cur].pid = pipe[current]
    BY <1>1, EventAssumption DEF TablesAgree, Registered
  <1> QED
    BY <1>1, <1>2

\* An event in the batch stands for a descriptor of its own.
LEMMA BatchEvent ==
    ASSUME IInv, NEW b \in batch
    PROVE  /\ b.ev \in tracked /\ b.ev \in Event /\ ev[b.ev].fd \in Fd
           /\ interest[ev[b.ev].fd] = b.ev
           /\ Handling => b.ev # cur /\ ev[b.ev].fd # current
PROOF
  <1> USE DEF IInv, TypeOK, EpollTypeOK
  <1>1. /\ b.ev \in tracked /\ b.ev \in Event /\ ev[b.ev].fd \in Fd
        /\ interest[ev[b.ev].fd] = b.ev
    BY DEF BatchRegistered, EventRecord
  <1>2. Handling => b.ev # cur
    BY DEF BatchRegistered
  <1>3. Handling => interest[current] = cur
    BY DEF CurrentRegistered
  <1> QED
    BY <1>1, <1>2, <1>3

\* What a descriptor's pipe is watched by.
LEMMA PipeWatched ==
    ASSUME IInv, NEW f \in Fd, pipe[f] # NoPid
    PROVE  /\ pipe[f] \in Pid
           /\ interest[f] \in tracked /\ interest[f] # NoEvent
           /\ ev[interest[f]].fd = f
           /\ ev[interest[f]].type = "pipe" /\ ev[interest[f]].pid = pipe[f]
PROOF
  <1> USE DEF IInv, TypeOK, EpollTypeOK
  <1>1. interest[f] # NoEvent
    BY DEF TablesAgree, PipesRegistered
  <1>2. sock[f] = NoPort /\ f # SignalFd /\ f # TimerFd
    BY DEF TablesAgree, DescriptorUse
  <1> QED
    BY <1>1, <1>2 DEF TablesAgree, Registered

------------------------------------------------------------------------------
(* Steps.                                                                    *)

\* Steps that leave children and pipes alone, and go neither into the pipe's
\* handlers nor into or out of what follows a waitpid.
LEMMA ChildrenAlone ==
    ASSUME IInv, ChildInv,
           UNCHANGED <<child, sent, pipe, cur>>,
           batch' \subseteq batch,
           \A x \in tracked : ev'[x].fd = ev[x].fd,
           \A f \in Fd : pipe[f] # NoPid => interest'[f] = interest[f],
           pc' \notin {"pipe", "reap"},
           pc' \in {"add", "probe", "free"} => pc \in {"add", "probe", "free"},
           pc \in {"add", "probe", "free", "dead"} /\ cur # NoEvent =>
                pc' \in {"add", "probe", "free", "dead"}
    PROVE  ChildInv'
PROOF
  <1>1. ChildHasPipe' /\ PipesDistinct'
    BY DEF ChildInv, ChildHasPipe, PipesDistinct, Alive
  <1>2. \A f \in Fd : pipe[f] # NoPid /\ ~Alive(pipe[f]) =>
            pc' \in {"add", "probe", "free", "dead"} /\ cur = interest'[f]
    BY PipeWatched DEF ChildInv, DeadPipeCurrent
  <1>3. ASSUME pc' \in {"add", "probe", "free"}, cur # NoEvent
        PROVE  ~Alive(pipe[current'])
    <2>1. cur \in tracked /\ ~Alive(pipe[current])
      <3>1. pc \in {"add", "probe", "free"}
        BY <1>3
      <3> QED
        BY <1>3, <3>1, CurrentPipe DEF ChildInv, DeadPipeCurrent
    <2> QED
      BY <2>1 DEF current
  <1>4. DeadPipeCurrent'
    BY <1>2, <1>3 DEF DeadPipeCurrent, Alive
  <1>5. HangupsTrue'
    <2> SUFFICES ASSUME NEW b \in batch', b.hup
                 PROVE  /\ HungUp(ev[b.ev].fd)'
                        /\ ~b.in => sent'[pipe'[ev'[b.ev].fd]] = <<>>
      BY DEF HangupsTrue
    <2>1. b \in batch /\ b.ev \in tracked
      BY BatchEvent
    <2>2. HungUp(ev[b.ev].fd) /\ (~b.in => sent[pipe[ev[b.ev].fd]] = <<>>)
      BY <2>1 DEF ChildInv, HangupsTrue
    <2> QED
      BY <2>1, <2>2 DEF HungUp
  <1>6. ReapReady'
    BY DEF ReapReady
  <1> QED
    BY <1>1, <1>4, <1>5, <1>6 DEF ChildInv

\* run_command forks a child that had been reaped, and so has no pipe yet.
LEMMA RunCommandChildren ==
    ASSUME IInv, ChildInv, pc \in {"start", "timer"}, pc' \in {"wait", "tick"},
           UNCHANGED <<batch, cur>>,
           NEW f \in Fd, NEW e \in Event, NEW p \in Pid, NEW output \in Outputs,
           RunCommand(f, e, p, output)
    PROVE  ChildInv'
PROOF
  <1> USE DEF IInv, TypeOK, EpollTypeOK
  <1>1. /\ Free(f) /\ e \notin tracked
        /\ \A x \in Event \ {e} : ev'[x] = ev[x]
        /\ pipe' = [pipe EXCEPT ![f] = p]
    BY RunCommandEvent
  <1>2. /\ ~Alive(p) /\ child' = [child EXCEPT ![p] = "running"]
        /\ sent' = [sent EXCEPT ![p] = <<>>]
    BY DEF RunCommand, CanFork, Alive
  <1>3. \A g \in Fd : pipe[g] # NoPid => Alive(pipe[g]) /\ pipe[g] # p /\ g # f
    BY <1>1, <1>2 DEF ChildInv, DeadPipeCurrent, Free
  <1>4. ChildHasPipe'
    <2> SUFFICES ASSUME NEW q \in Pid, Alive(q)'
                 PROVE  \E g \in Fd : pipe'[g] = q
      BY DEF ChildHasPipe
    <2>1. CASE q = p
      BY <1>1, <2>1
    <2>2. CASE q # p
      <3>1. Alive(q)
        BY <1>2, <2>2 DEF Alive
      <3>2. PICK g \in Fd : pipe[g] = q
        BY <3>1 DEF ChildInv, ChildHasPipe
      <3> QED
        BY <1>1, <1>3, <3>2, PidAssumption
    <2> QED
      BY <2>1, <2>2
  <1>5. PipesDistinct'
    BY <1>1, <1>3 DEF ChildInv, PipesDistinct
  <1>6. DeadPipeCurrent'
    <2>1. \A g \in Fd : pipe'[g] # NoPid => Alive(pipe[g])'
      BY <1>1, <1>2, <1>3 DEF Alive
    <2> QED
      BY <2>1 DEF DeadPipeCurrent, Alive
  <1>7. HangupsTrue'
    <2> SUFFICES ASSUME NEW b \in batch, b.hup
                 PROVE  /\ HungUp(ev[b.ev].fd)'
                        /\ ~b.in => sent'[pipe'[ev'[b.ev].fd]] = <<>>
      BY DEF HangupsTrue
    <2>1. b.ev \in tracked /\ ev[b.ev].fd \in Fd /\ ev'[b.ev] = ev[b.ev]
      BY <1>1, BatchEvent
    <2>2. HungUp(ev[b.ev].fd) /\ (~b.in => sent[pipe[ev[b.ev].fd]] = <<>>)
      BY DEF ChildInv, HangupsTrue
    <2>3. pipe'[ev[b.ev].fd] = pipe[ev[b.ev].fd] /\ pipe[ev[b.ev].fd] # p
      BY <1>1, <1>3, <2>1, <2>2 DEF HungUp
    <2>4. pipe[ev[b.ev].fd] \in Pid
      BY <2>1, <2>2 DEF HungUp
    <2> QED
      BY <1>2, <2>1, <2>2, <2>3, <2>4 DEF HungUp
  <1>8. ReapReady'
    BY DEF ReapReady
  <1> QED
    BY <1>4, <1>5, <1>6, <1>7, <1>8 DEF ChildInv

\* epoll_wait reports what the kernel knows at that moment.
LEMMA EpollWaitChildren ==
    ASSUME IInv, ChildInv, EpollWait
    PROVE  ChildInv'
PROOF
  <1>1. /\ UNCHANGED <<child, sent, pipe, cur, ev, interest>>
        /\ pc = "wait" /\ pc' = "dispatch"
        /\ batch' = {[ev |-> interest[f], in |-> Readable(f), hup |-> HungUp(f)] : f \in Ready}
    BY DEF EpollWait, childVars
  <1>2. ChildHasPipe' /\ PipesDistinct' /\ DeadPipeCurrent' /\ ReapReady'
    BY <1>1 DEF ChildInv, ChildHasPipe, PipesDistinct, DeadPipeCurrent, ReapReady, Alive
  <1> DEFINE entry(f) == [ev |-> interest[f], in |-> Readable(f), hup |-> HungUp(f)]
  <1>3. \A b \in batch' : \E f \in Ready : b = entry(f)
    BY <1>1, Zenon
  <1>4. \A f \in Ready : /\ entry(f).ev = interest[f] /\ entry(f).hup = HungUp(f)
                         /\ entry(f).in = Readable(f)
    BY Zenon
  <1>5. ASSUME NEW f \in Ready, HungUp(f)
        PROVE  ev[interest[f]].fd = f /\ (~Readable(f) => sent[pipe[f]] = <<>>)
    <2>1. f \in Fd /\ pipe[f] # NoPid
      BY <1>5 DEF Ready, HungUp, IInv, TypeOK, EpollTypeOK
    <2> QED
      BY <2>1, PipeWatched DEF Readable
  <1>6. ASSUME NEW b \in batch', b.hup
        PROVE  HungUp(ev[b.ev].fd) /\ (~b.in => sent[pipe[ev[b.ev].fd]] = <<>>)
    <2>1. PICK f \in Ready : b = entry(f)
      BY <1>3
    <2>2. b.ev = interest[f] /\ b.hup = HungUp(f) /\ b.in = Readable(f)
      BY <1>4, <2>1, Zenon
    <2>3. HungUp(f)
      BY <1>6, <2>2, Zenon
    <2>4. ev[interest[f]].fd = f /\ (~Readable(f) => sent[pipe[f]] = <<>>)
      BY <1>5, <2>3
    <2> QED
      BY <2>2, <2>3, <2>4, Zenon
  <1>7. HangupsTrue'
    BY <1>1, <1>6 DEF HangupsTrue, HungUp
  <1> QED
    BY <1>2, <1>7 DEF ChildInv

\* A hangup goes to waitpid at once, or is remembered while the pipe is read.
LEMMA DispatchChildren ==
    ASSUME IInv, ChildInv, NEW b \in batch, Dispatch(b)
    PROVE  ChildInv'
PROOF
  <1>1. /\ UNCHANGED <<child, sent, pipe, ev, interest>>
        /\ pc = "dispatch" /\ cur' = b.ev /\ batch' = batch \ {b}
        /\ pc' = IF HangupOnly(b) THEN "reap" ELSE ev[b.ev].type
        /\ close_after_read' = (b.hup /\ b.in)
    BY DEF Dispatch, childVars, epollVars
  <1>2. ChildHasPipe' /\ PipesDistinct'
    BY <1>1 DEF ChildInv, ChildHasPipe, PipesDistinct, Alive
  <1>3. \A f \in Fd : pipe[f] # NoPid => Alive(pipe[f])
    BY <1>1 DEF ChildInv, DeadPipeCurrent
  <1>4. pc' \notin {"add", "probe", "free"}
    <2>1. ev[b.ev].type \in EventType
      BY BatchEvent DEF IInv, TypeOK, EpollTypeOK, EventRecord
    <2> QED
      BY <1>1, <2>1 DEF EventType
  <1>5. DeadPipeCurrent'
    BY <1>1, <1>3, <1>4 DEF DeadPipeCurrent, Alive
  <1>6. HangupsTrue'
    BY <1>1 DEF ChildInv, HangupsTrue, HungUp
  <1>7. b.hup => HungUp(ev[b.ev].fd) /\ (~b.in => sent[pipe[ev[b.ev].fd]] = <<>>)
    BY DEF ChildInv, HangupsTrue
  <1>8. pc' = "pipe" /\ close_after_read' => HungUp(current)'
    BY <1>1, <1>7 DEF current, HungUp
  <1>9. pc' = "reap" => HungUp(current)' /\ sent'[pipe'[current']] = <<>>
    <2>1. ev[b.ev].type # "reap"
      BY BatchEvent DEF IInv, TypeOK, EpollTypeOK, EventRecord, EventType
    <2> QED
      BY <1>1, <1>7, <2>1 DEF current, HungUp, HangupOnly
  <1> QED
    BY <1>2, <1>5, <1>6, <1>8, <1>9 DEF ChildInv, ReapReady

\* A read() takes from one child's pipe only.
LEMMA PipeReadChildren ==
    ASSUME IInv, ChildInv, PipeRead
    PROVE  ChildInv'
PROOF
  <1>1. /\ UNCHANGED <<child, pipe, interest, pc, cur, batch, close_after_read>>
        /\ \A e \in Event : ev'[e].fd = ev[e].fd
    BY PipeReadEvent DEF IInv, PipeRead, threadVars
  <1>2. pc = "pipe" /\ cur \in Event /\ current \in Fd /\ pipe[current] \in Pid
        /\ sent[pipe[current]] # <<>>
    BY CurrentPipe DEF PipeRead, IInv, TypeOK, EpollTypeOK
  <1>3. \A q \in Pid : q # pipe[current] => sent'[q] = sent[q]
    BY DEF PipeRead, IInv, TypeOK
  <1>4. ChildHasPipe' /\ PipesDistinct' /\ DeadPipeCurrent'
    BY <1>1, <1>2 DEF ChildInv, ChildHasPipe, PipesDistinct, DeadPipeCurrent, Alive
  <1>5. HangupsTrue'
    <2> SUFFICES ASSUME NEW b \in batch, b.hup
                 PROVE  /\ HungUp(ev[b.ev].fd)'
                        /\ ~b.in => sent'[pipe'[ev'[b.ev].fd]] = <<>>
      BY <1>1 DEF HangupsTrue
    <2>1. b.ev \in Event /\ ev[b.ev].fd \in Fd
      BY BatchEvent
    <2>2. HungUp(ev[b.ev].fd) /\ (~b.in => sent[pipe[ev[b.ev].fd]] = <<>>)
      BY DEF ChildInv, HangupsTrue
    <2>3. pipe[ev[b.ev].fd] \in Pid
      BY <2>1, <2>2, PipeWatched DEF HungUp
    <2> QED
      BY <1>1, <1>2, <1>3, <2>1, <2>2, <2>3 DEF HungUp
  <1>6. ReapReady'
    BY <1>1, <1>2 DEF ChildInv, ReapReady, HungUp, current
  <1> QED
    BY <1>4, <1>5, <1>6 DEF ChildInv

\* The end of a pipe that hung up leads to waitpid, any other back to the batch.
LEMMA PipeDrainedChildren ==
    ASSUME IInv, ChildInv, PipeDrained
    PROVE  ChildInv'
PROOF
  <1>1. /\ UNCHANGED <<child, sent, pipe, ev, interest, cur, batch>>
        /\ pc = "pipe" /\ sent[pipe[current]] = <<>>
        /\ pc' = IF close_after_read THEN "reap" ELSE "dispatch"
    BY DEF PipeDrained, AfterDrained, childVars, epollVars
  <1>2. ChildHasPipe' /\ PipesDistinct' /\ HangupsTrue'
    BY <1>1 DEF ChildInv, ChildHasPipe, PipesDistinct, HangupsTrue, Alive, HungUp
  <1>3. DeadPipeCurrent'
    BY <1>1 DEF ChildInv, DeadPipeCurrent, Alive
  <1>4. ReapReady'
    BY <1>1 DEF ChildInv, ReapReady, HungUp, current
  <1> QED
    BY <1>2, <1>3, <1>4 DEF ChildInv

\* waitpid takes the child of the current pipe, which no other pipe has.
LEMMA ReapChildren ==
    ASSUME IInv, ChildInv, Reap
    PROVE  ChildInv'
PROOF
  <1> USE DEF IInv, TypeOK, EpollTypeOK
  <1>1. /\ pc = "reap" /\ current \in Fd /\ interest[current] = cur
        /\ pipe[current] \in Pid /\ ev[cur].pid = pipe[current]
    BY CurrentPipe DEF Reap
  <1>2. /\ UNCHANGED <<sent, pipe, ev, interest, cur, batch>>
        /\ child[pipe[current]] = "zombie"
        /\ child' = [child EXCEPT ![pipe[current]] = "reaped"]
        /\ pc' \in {"free", "dead", "add"}
    BY <1>1 DEF Reap, epollVars
  <1>3. \A q \in Pid : q # pipe[current] => (Alive(q)' <=> Alive(q))
    BY <1>1, <1>2 DEF Alive
  <1>4. \A q \in Pid : q = pipe[current] => ~Alive(q)'
    BY <1>1, <1>2 DEF Alive
  <1>5. ChildHasPipe'
    <2> SUFFICES ASSUME NEW q \in Pid, Alive(q)'
                 PROVE  \E f \in Fd : pipe[f] = q
      BY <1>2 DEF ChildHasPipe
    <2>1. q # pipe[current]
      BY <1>2, <1>4
    <2> QED
      BY <1>3, <2>1 DEF ChildInv, ChildHasPipe
  <1>6. PipesDistinct'
    BY <1>2 DEF ChildInv, PipesDistinct
  <1>7. DeadPipeCurrent'
    <2>1. ASSUME NEW f \in Fd, pipe[f] # NoPid, ~Alive(pipe[f])'
          PROVE  cur = interest[f]
      <3>1. Alive(pipe[f])
        BY <1>1, <2>1 DEF ChildInv, DeadPipeCurrent
      <3>2. pipe[f] = pipe[current]
        BY <1>2, <1>3, <2>1, <3>1
      <3>3. f = current
        BY <1>1, <2>1, <3>2 DEF ChildInv, PipesDistinct
      <3> QED
        BY <1>1, <3>3
    <2>2. \A f \in Fd : pipe'[f] # NoPid /\ ~Alive(pipe[f])' =>
              pc' \in {"add", "probe", "free", "dead"} /\ cur' = interest'[f]
      BY <1>2, <2>1
    <2>3. ~Alive(pipe[current])'
      BY <1>1, <1>2, <1>4 DEF current
    <2> QED
      BY <2>2, <2>3 DEF DeadPipeCurrent
  <1>8. HangupsTrue'
    <2> SUFFICES ASSUME NEW b \in batch, b.hup
                 PROVE  /\ HungUp(ev[b.ev].fd)'
                        /\ ~b.in => sent[pipe[ev[b.ev].fd]] = <<>>
      BY <1>2 DEF HangupsTrue
    <2>1. ev[b.ev].fd \in Fd /\ ev[b.ev].fd # current
      BY <1>1, BatchEvent DEF Handling
    <2>2. HungUp(ev[b.ev].fd) /\ (~b.in => sent[pipe[ev[b.ev].fd]] = <<>>)
      BY DEF ChildInv, HangupsTrue
    <2>3. pipe[ev[b.ev].fd] \in Pid /\ pipe[ev[b.ev].fd] # pipe[current]
      BY <1>1, <2>1, <2>2, PidAssumption DEF ChildInv, PipesDistinct, HungUp
    <2> QED
      BY <1>2, <2>2, <2>3 DEF HungUp
  <1>9. ReapReady'
    BY <1>2 DEF ReapReady
  <1> QED
    BY <1>5, <1>6, <1>7, <1>8, <1>9 DEF ChildInv

\* free_command closes the pipe of a child that is reaped.
LEMMA FreeCommandChildren ==
    ASSUME IInv, ChildInv, FreeCommand
    PROVE  ChildInv'
PROOF
  <1> USE DEF IInv, TypeOK, EpollTypeOK
  <1>1. /\ cur \in tracked /\ current \in Fd /\ interest[current] = cur
        /\ pipe' = [pipe EXCEPT ![current] = NoPid]
        /\ ev' = ev
    BY FreeCommandEvent
  <1>2. pc = "free" /\ pc' = "dispatch" /\ UNCHANGED <<child, sent, batch>>
    BY DEF FreeCommand, childVars
  <1>3. ~Alive(pipe[current])
    BY <1>1, <1>2, EventAssumption DEF ChildInv, DeadPipeCurrent
  <1>4. ChildHasPipe'
    BY <1>1, <1>2, <1>3 DEF ChildInv, ChildHasPipe, Alive
  <1>5. PipesDistinct'
    BY <1>1 DEF ChildInv, PipesDistinct
  <1>6. DeadPipeCurrent'
    <2>1. ASSUME NEW f \in Fd, f # current, pipe[f] # NoPid
          PROVE  Alive(pipe[f])
      <3>1. ev[interest[f]].fd = f
        BY <2>1, PipeWatched
      <3>2. cur # interest[f]
        BY <2>1, <3>1 DEF current
      <3> QED
        BY <2>1, <3>2 DEF ChildInv, DeadPipeCurrent
    <2>2. \A f \in Fd : pipe'[f] # NoPid => Alive(pipe[f])'
      BY <1>1, <1>2, <2>1 DEF Alive
    <2> QED
      BY <1>2, <2>2 DEF DeadPipeCurrent
  <1>7. HangupsTrue'
    <2> SUFFICES ASSUME NEW b \in batch, b.hup
                 PROVE  /\ HungUp(ev[b.ev].fd)'
                        /\ ~b.in => sent'[pipe'[ev'[b.ev].fd]] = <<>>
      BY <1>2 DEF HangupsTrue
    <2>1. ev[b.ev].fd \in Fd /\ ev[b.ev].fd # current
      BY <1>2, BatchEvent DEF Handling
    <2> QED
      BY <1>1, <1>2, <2>1 DEF ChildInv, HangupsTrue, HungUp
  <1>8. ReapReady'
    BY <1>2 DEF ReapReady
  <1> QED
    BY <1>4, <1>5, <1>6, <1>7, <1>8 DEF ChildInv

\* The environment leaves the thread alone; a child that has closed its output
\* writes no more, and does not come back.
LEMMA EnvironmentChildren ==
    ASSUME IInv, ChildInv, Environment
    PROVE  ChildInv'
PROOF
  <1> USE DEF IInv, TypeOK
  <1>1. UNCHANGED <<ev, interest, pipe, pc, cur, batch, close_after_read>>
    BY EnvironmentStep DEF threadVars
  <1>2. /\ \A q \in Pid : Alive(q)' <=> Alive(q)
        /\ \A q \in Pid : child[q] \in {"closed", "zombie"} =>
                child'[q] \in {"closed", "zombie"} /\ sent'[q] = sent[q]
    <2>1. CASE \E f \in Fd, d \in Datagram : Arrive(f, d)
      BY <2>1 DEF Arrive, childVars, Alive
    <2>2. CASE TimerExpires \/ Interrupt
      BY <2>2 DEF TimerExpires, Interrupt, childVars, Alive
    <2>3. ASSUME NEW p \in Pid, ChildWrites(p)
          PROVE  /\ child' = child /\ child[p] = "running"
                 /\ \A q \in Pid : q # p => sent'[q] = sent[q]
      BY <2>3 DEF ChildWrites
    <2>4. ASSUME NEW p \in Pid, ChildCloses(p)
          PROVE  /\ child' = [child EXCEPT ![p] = "closed"] /\ child[p] = "running"
                 /\ sent' = sent
      BY <2>4 DEF ChildCloses
    <2>5. ASSUME NEW p \in Pid, ChildExits(p)
          PROVE  /\ child' = [child EXCEPT ![p] = "zombie"] /\ child[p] = "closed"
                 /\ sent' = sent
      BY <2>5 DEF ChildExits
    <2> QED
      BY <2>1, <2>2, <2>3, <2>4, <2>5 DEF Environment, Alive
  <1>3. ChildHasPipe' /\ PipesDistinct'
    BY <1>1, <1>2 DEF ChildInv, ChildHasPipe, PipesDistinct
  <1>4. \A f \in Fd : pipe[f] # NoPid => pipe[f] \in Pid
    BY PipeWatched
  <1>5. DeadPipeCurrent'
    <2>1. \A f \in Fd : pipe[f] # NoPid /\ ~Alive(pipe[f])' =>
              pc \in {"add", "probe", "free", "dead"} /\ cur = interest[f]
      BY <1>1, <1>2, <1>4 DEF ChildInv, DeadPipeCurrent
    <2>2. pc \in {"add", "probe", "free"} /\ cur # NoEvent => ~Alive(pipe[current])'
      BY <1>1, <1>2, CurrentPipe DEF ChildInv, DeadPipeCurrent, current
    <2> QED
      BY <1>1, <2>1, <2>2 DEF DeadPipeCurrent, Alive
  <1>6. \A f \in Fd : HungUp(f) =>
            HungUp(f)' /\ (sent[pipe[f]] = <<>> => sent'[pipe[f]] = <<>>)
    BY <1>1, <1>2, <1>4 DEF HungUp
  <1>7. HangupsTrue'
    BY <1>1, <1>6, BatchEvent DEF ChildInv, HangupsTrue, HungUp
  <1>8. ReapReady'
    BY <1>1, <1>6, CurrentPipe DEF ChildInv, ReapReady, HungUp, current
  <1> QED
    BY <1>3, <1>5, <1>7, <1>8 DEF ChildInv

\* The steps about sockets, signals, the timer and addresses.
LEMMA QuietChildren ==
    ASSUME IInv, ChildInv,
           \/ DiscoveryDies \/ BatchDone \/ epoll_handle_signal \/ ReadTimer
           \/ UdpMessage \/ UdpMessageDies \/ UdpEmpty \/ UdpDrained
           \/ AddressTaken \/ AddressBound \/ AddressDies
           \/ AddressReady \/ AddressUnreachable \/ ProbeDies \/ AddressesDone
    PROVE  ChildInv'
PROOF
  <1> USE DEF IInv, TypeOK, EpollTypeOK
  <1>1. CASE UdpEmpty
    <2>1. /\ current \in Fd /\ pipe[current] = NoPid
          /\ interest' = [interest EXCEPT ![current] = NoEvent]
      <3>1. /\ current \in Fd /\ interest[current] = cur /\ cur \in Event
            /\ ev[cur].type = "udp"
        BY <1>1 DEF UdpEmpty, CurrentRegistered, Handling, current, EventRecord
      <3> QED
        BY <1>1, <3>1, EventAssumption
        DEF UdpEmpty, epoll_close_fd, TablesAgree, Registered, DescriptorUse
    <2>2. \A f \in Fd : pipe[f] # NoPid => interest'[f] = interest[f]
      BY <2>1
    <2> QED
      BY <1>1, <2>2, ChildrenAlone DEF UdpEmpty, childVars
  <1>2. CASE AddressReady
    <2>1. PICK e \in Event : /\ epoll_add_fd(e, new_fd, Readable(new_fd))
                             /\ ev' = [ev EXCEPT ![e] = NewEvent(new_fd, "udp")]
      BY <1>2 DEF AddressReady
    <2>2. /\ e \notin tracked /\ interest' = [interest EXCEPT ![new_fd] = e]
          /\ \A x \in tracked : ev'[x] = ev[x]
      BY <2>1 DEF epoll_add_fd
    <2>3. \A f \in Fd : pipe[f] # NoPid => interest'[f] = interest[f]
      BY <1>2, <2>2, PipeWatched DEF AddressReady, ProbeBound
    <2> QED
      BY <1>2, <2>2, <2>3, ChildrenAlone DEF AddressReady, childVars
  <1>3. CASE AddressesDone
    <2>1. pc = "add" /\ pc' = IF cur = NoEvent THEN "start" ELSE "free"
      BY <1>3 DEF AddressesDone
    <2>2. UNCHANGED <<child, sent, pipe, cur, batch, ev, interest>>
      BY <1>3 DEF AddressesDone, childVars, epollVars
    <2> QED
      BY <2>1, <2>2, ChildrenAlone
  <1>4. CASE BatchDone
    <2>1. pc = "dispatch" /\ pc' \in {"wait", "stopped"}
      BY <1>4 DEF BatchDone, AfterBatch
    <2>2. UNCHANGED <<child, sent, pipe, cur, batch, ev, interest>>
      BY <1>4 DEF BatchDone, childVars, epollVars
    <2> QED
      BY <2>1, <2>2, ChildrenAlone
  <1>5. CASE \/ DiscoveryDies \/ UdpMessageDies \/ AddressDies \/ ProbeDies
    <2>1. Die
      BY <1>5 DEF DiscoveryDies, UdpMessageDies, AddressDies, ProbeDies
    <2>2. pc' = "dead" /\ UNCHANGED <<child, sent, pipe, cur, batch, ev, interest>>
      BY <2>1 DEF Die, childVars, epollVars
    <2> QED
      BY <2>2, ChildrenAlone
  <1>6. CASE \/ epoll_handle_signal \/ ReadTimer \/ UdpMessage \/ UdpDrained
    <2>1. pc \in {"signal", "tick", "udp"} /\ pc' \in {"dispatch", "udp"}
      BY <1>6 DEF epoll_handle_signal, ReadTimer, UdpMessage, UdpDrained, ContinueReading
    <2>2. UNCHANGED <<child, sent, pipe, cur, batch, ev, interest>>
      BY <1>6 DEF epoll_handle_signal, ReadTimer, UdpMessage, UdpDrained, childVars, epollVars
    <2> QED
      BY <2>1, <2>2, ChildrenAlone
  <1>7. CASE AddressTaken \/ AddressBound \/ AddressUnreachable
    <2>1. pc \in {"add", "probe"} /\ pc' \in {"add", "probe"}
      BY <1>7 DEF AddressTaken, AddressBound, AddressUnreachable
    <2>2. UNCHANGED <<child, sent, pipe, cur, batch, ev, interest>>
      BY <1>7 DEF AddressTaken, AddressBound, AddressUnreachable, childVars, epollVars
    <2> QED
      BY <2>1, <2>2, ChildrenAlone
  <1> QED
    BY <1>1, <1>2, <1>3, <1>4, <1>5, <1>6, <1>7

LEMMA DiscoveryChildren ==
    ASSUME IInv, ChildInv, Start \/ epoll_handle_timer
    PROVE  ChildInv'
PROOF
  <1>1. /\ pc \in {"start", "timer"} /\ pc' \in {"wait", "tick"}
        /\ UNCHANGED <<batch, cur>> /\ worker_do_external_discovery
    BY DEF Start, epoll_handle_timer
  <1>2. CASE UNCHANGED <<epollVars, pipe, childVars>>
    BY <1>1, <1>2, ChildrenAlone DEF epollVars, childVars
  <1>3. ASSUME NEW f \in Fd, NEW e \in Event, NEW p \in Pid, NEW output \in Outputs,
               RunCommand(f, e, p, output)
        PROVE  ChildInv'
    BY <1>1, <1>3, RunCommandChildren
  <1> QED
    BY <1>1, <1>2, <1>3 DEF worker_do_external_discovery, run_command

LEMMA NextChildren ==
    ASSUME IInv, ChildInv, [Next]_vars
    PROVE  ChildInv'
PROOF
  <1>1. CASE Environment
    BY <1>1, EnvironmentChildren
  <1>2. CASE Start \/ epoll_handle_timer
    BY <1>2, DiscoveryChildren
  <1>3. CASE EpollWait
    BY <1>3, EpollWaitChildren
  <1>4. CASE \E b \in batch : Dispatch(b)
    BY <1>4, DispatchChildren
  <1>5. CASE PipeRead
    BY <1>5, PipeReadChildren
  <1>6. CASE PipeDrained
    BY <1>6, PipeDrainedChildren
  <1>7. CASE Reap
    BY <1>7, ReapChildren
  <1>8. CASE FreeCommand
    BY <1>8, FreeCommandChildren
  <1>9. CASE \/ DiscoveryDies \/ BatchDone \/ epoll_handle_signal \/ ReadTimer
             \/ UdpMessage \/ UdpMessageDies \/ UdpEmpty \/ UdpDrained
             \/ AddressTaken \/ AddressBound \/ AddressDies
             \/ AddressReady \/ AddressUnreachable \/ ProbeDies \/ AddressesDone
    BY <1>9, QuietChildren
  <1>10. CASE UNCHANGED vars
    <2>1. UNCHANGED <<child, sent, pipe, cur, batch, ev, interest, pc, close_after_read>>
      BY <1>10 DEF vars, epollVars, childVars, threadVars
    <2> QED
      BY <2>1 DEF ChildInv, ChildHasPipe, PipesDistinct, DeadPipeCurrent, HangupsTrue,
            ReapReady, Alive, HungUp, current
  <1> QED
    BY <1>1, <1>2, <1>3, <1>4, <1>5, <1>6, <1>7, <1>8, <1>9, <1>10, Zenon DEF Next, Thread

LEMMA InitChildren ==
    ASSUME Init
    PROVE  ChildInv
PROOF
  <1>1. /\ \A p \in Pid : ~Alive(p)
        /\ \A f \in Fd : pipe[f] = NoPid
        /\ pc = "add" /\ cur = NoEvent /\ batch = {}
    BY DEF Init, Alive
  <1> QED
    BY <1>1 DEF ChildInv, ChildHasPipe, PipesDistinct, DeadPipeCurrent, HangupsTrue,
          ReapReady

------------------------------------------------------------------------------
(* What follows.                                                             *)

\* However many discoveries are in flight, pipes and children belong together
\* one to one, and every hangup reported is acted on while it is true.
THEOREM ChildrenInductive == Spec => []ChildInv
PROOF
  <1>1. Init => ChildInv
    BY InitChildren
  <1>2. IInv /\ ChildInv /\ [Next]_vars => ChildInv'
    BY NextChildren
  <1> QED
    BY <1>1, <1>2, Inductive, PTL DEF Spec

\* No child is forgotten, none is waited for twice, and the die() after waitpid
\* is not reached.
THEOREM NoChildLost == Spec => []ChildrenAccounted
PROOF
  <1>1. IInv /\ ChildInv => ChildrenAccounted
    <2> SUFFICES ASSUME IInv, ChildInv
                 PROVE  ChildrenAccounted
      OBVIOUS
    <2>1. ASSUME NEW p \in Pid, Alive(p)
          PROVE  \E f \in Fd : /\ pipe[f] = p
                               /\ interest[f] # NoEvent
                               /\ ev[interest[f]].type = "pipe"
                               /\ ev[interest[f]].pid = p
      <3>1. PICK f \in Fd : pipe[f] = p
        BY <2>1 DEF ChildInv, ChildHasPipe
      <3>2. pipe[f] # NoPid
        BY <3>1, PidAssumption
      <3> QED
        BY <3>1, <3>2, PipeWatched
    <2>2. \A f \in Fd : pipe[f] # NoPid /\ ~Alive(pipe[f]) =>
              pc \in {"add", "probe", "free", "dead"} /\ cur = interest[f]
      BY DEF ChildInv, DeadPipeCurrent
    <2>3. pc = "reap" => Alive(ev[cur].pid)
      BY CurrentPipe DEF ChildInv, ReapReady, HungUp, Alive
    <2> QED
      BY <2>1, <2>2, <2>3 DEF ChildrenAccounted
  <1> QED
    BY <1>1, Inductive, ChildrenInductive, PTL

\* command_output_ready never sees a truncated list of addresses.
THEOREM OutputComplete == Spec => OutputReadBeforeReap
PROOF
  <1>1. IInv /\ ChildInv /\ [Next]_vars
            => [\A p \in Pid : Alive(p) /\ child'[p] = "reaped" => sent[p] = <<>>]_vars
    <2> SUFFICES ASSUME IInv, ChildInv, Next, NEW p \in Pid, Alive(p), child'[p] = "reaped"
                 PROVE  sent[p] = <<>>
      OBVIOUS
    <2>1. CASE Reap
      <3>1. /\ ev[cur].pid = pipe[current] /\ sent[pipe[current]] = <<>>
            /\ child' = [child EXCEPT ![ev[cur].pid] = "reaped"]
        BY <2>1, CurrentPipe DEF Reap, ChildInv, ReapReady
      <3> QED
        BY <3>1 DEF Alive
    <2>2. CASE Start \/ epoll_handle_timer
      <3>1. \/ child' = child
            \/ \E q \in Pid : child' = [child EXCEPT ![q] = "running"]
        BY <2>2 DEF Start, epoll_handle_timer, worker_do_external_discovery, run_command,
              RunCommand, childVars
      <3> QED
        BY <3>1 DEF Alive, IInv, TypeOK
    <2>3. CASE Environment
      <3>1. \/ child' = child
            \/ \E q \in Pid, c \in {"closed", "zombie"} : child' = [child EXCEPT ![q] = c]
        BY <2>3 DEF Environment, Arrive, TimerExpires, Interrupt, ChildWrites, ChildCloses,
              ChildExits, childVars
      <3> QED
        BY <3>1 DEF Alive, IInv, TypeOK
    <2>4. CASE Thread /\ ~Reap /\ ~Start /\ ~epoll_handle_timer
      <3>1. child' = child
        BY <2>4 DEF Thread, DiscoveryDies, EpollWait, Dispatch, BatchDone,
              epoll_handle_signal, ReadTimer, UdpMessage, UdpMessageDies, UdpEmpty,
              UdpDrained, PipeRead, PipeDrained, FreeCommand, AddressTaken,
              AddressBound, AddressDies, AddressReady, AddressUnreachable, ProbeDies,
              AddressesDone, Die, childVars
      <3> QED
        BY <3>1 DEF Alive
    <2> QED
      BY <2>1, <2>2, <2>3, <2>4 DEF Next
  <1> QED
    BY <1>1, Inductive, ChildrenInductive, PTL DEF Spec, OutputReadBeforeReap

\* Once can_do_discovery is 0 it stays so, and no other child is forked.
THEOREM DiscoveryOff == Spec => DiscoveryStaysOff
PROOF
  <1>1. IInv /\ [Next]_vars
            => [~can_do_discovery =>
                    ~can_do_discovery' /\ \A p \in Pid : Alive(p)' => Alive(p)]_vars
    <2> SUFFICES ASSUME IInv, Next, can_do_discovery = FALSE
                 PROVE  /\ can_do_discovery' = FALSE
                        /\ \A p \in Pid : Alive(p)' => Alive(p)
      BY DEF IInv, TypeOK
    <2>1. CASE Start \/ epoll_handle_timer
      BY <2>1 DEF Start, epoll_handle_timer, worker_do_external_discovery, childVars, Alive
    <2>2. CASE Environment
      <3>1. can_do_discovery' = can_do_discovery
        BY <2>2, EnvironmentStep DEF threadVars
      <3>2. \/ child' = child
            \/ \E q \in Pid, c \in {"closed", "zombie"} :
                    Alive(q) /\ child' = [child EXCEPT ![q] = c]
        BY <2>2 DEF Environment, Arrive, TimerExpires, Interrupt, ChildWrites, ChildCloses,
              ChildExits, childVars, Alive
      <3> QED
        BY <3>1, <3>2 DEF Alive, IInv, TypeOK
    <2>3. CASE Reap
      <3>1. can_do_discovery' = FALSE /\ child' = [child EXCEPT ![ev[cur].pid] = "reaped"]
        BY <2>3 DEF Reap
      <3> QED
        BY <3>1 DEF Alive, IInv, TypeOK
    <2>4. CASE Thread /\ ~Reap /\ ~Start /\ ~epoll_handle_timer
      <3>1. child' = child /\ can_do_discovery' = can_do_discovery
        BY <2>4 DEF Thread, DiscoveryDies, EpollWait, Dispatch, BatchDone,
              epoll_handle_signal, ReadTimer, UdpMessage, UdpMessageDies, UdpEmpty,
              UdpDrained, PipeRead, PipeDrained, FreeCommand, AddressTaken,
              AddressBound, AddressDies, AddressReady, AddressUnreachable, ProbeDies,
              AddressesDone, Die, childVars, threadVars
      <3> QED
        BY <3>1 DEF Alive
    <2> QED
      BY <2>1, <2>2, <2>3, <2>4 DEF Next
  <1> QED
    BY <1>1, Inductive, PTL DEF Spec, DiscoveryStaysOff

==============================================================================
