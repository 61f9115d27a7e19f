--------------------------- MODULE WorkerProperties ---------------------------
(***************************************************************************)
(* What makes the event loop of Worker.tla correct.                        *)
(***************************************************************************)
EXTENDS Worker

CONSTANT NoCamera

ASSUME NoCameraAssumption == NoCamera \notin Camera

\* Two open sockets are never bound to the same port, although SO_REUSEPORT
\* (socket_create_udp) lets the kernel accept that: the bitset of
\* address_mngr_add_address_by_port alone prevents it, across the config file
\* and any number of discoveries in flight.
NoSharedPort ==
    \A f, g \in Fd : sock[f] # NoPort /\ sock[f] = sock[g] => f = g

\* No pointer to a freed event_t is left anywhere: not in the kernel's
\* interest list, not in the rest of the batch main_loop walks, and not in
\* state->current_event while a handler runs.  Each still describes the
\* descriptor it was registered for.
EventsLive ==
    /\ \A f \in Fd : interest[f] # NoEvent =>
            interest[f] \in tracked /\ ev[interest[f]].fd = f
    /\ \A b \in batch : b.ev \in tracked /\ interest[ev[b.ev].fd] = b.ev
    /\ pc \notin {"start", "wait", "dispatch", "stopped", "dead"} /\ cur # NoEvent =>
            cur \in tracked /\ interest[current] = cur

\* address_mngr_get_soap_instance_from_fd finds an instance for every datagram
\* the loop hands to the VISCA layer: its die() is not reached.
LookupDefined ==
    pc = "udp" => Lookup(current) # {}

\* A command that comes in on a port goes to the camera that the log ("add
\* address map fd %d -> port %d -> address %s") names for that port, whichever
\* entry of the tree the lookup finds.
CommandReachesCamera ==
    pc = "udp" => \A a \in Lookup(current) : a.port = sock[current]

\* No child is forgotten and none is waited for twice: a child not yet reaped
\* is the child_pid of a registered pipe event, a pipe whose child is reaped is
\* on its way to free_command, and waitpid always has a child to wait for (its
\* die() is not reached).
ChildrenAccounted ==
    /\ \A p \in Pid : Alive(p) =>
            \E f \in Fd : /\ pipe[f] = p
                          /\ interest[f] # NoEvent
                          /\ ev[interest[f]].type = "pipe"
                          /\ ev[interest[f]].pid = p
    /\ \A f \in Fd : pipe[f] # NoPid /\ ~Alive(pipe[f]) =>
            pc \in {"add", "probe", "free", "dead"} /\ cur = interest[f]
    /\ pc = "reap" => Alive(ev[cur].pid)

\* Whenever the loop runs there is a descriptor left to open: print_mem_usage
\* can open /proc/self/status on every tick (its die() is not reached), and a
\* SOAP call can connect.  run_command, which needs two at once, is what dies
\* of exhaustion.
DescriptorLeft ==
    pc \in {"wait", "dispatch", "signal", "timer", "tick", "udp", "pipe", "reap"} =>
        \E f \in Fd : Free(f)

\* Both ways to a waitpid (a hangup without input, and close_after_read) come
\* after the last byte of the child's output was read: command_output_ready
\* never works on a truncated list.
OutputReadBeforeReap ==
    [][\A p \in Pid : Alive(p) /\ child'[p] = "reaped" => sent[p] = <<>>]_vars

\* Once a discovery failed, can_do_discovery stays 0 and no timer tick forks
\* another child.  Children already in flight are still collected.
DiscoveryStaysOff ==
    [][~can_do_discovery =>
        /\ ~can_do_discovery'
        /\ \A p \in Pid : Alive(p)' => Alive(p)]_vars

\* Datagrams that wait at a registered socket are all read in the end, whether
\* they came before EPOLL_CTL_ADD, while the loop was elsewhere, or between two
\* recvfroms: the edge triggered loop misses no edge.
DatagramServed ==
    \A f \in Fd :
        queue[f] # <<>> /\ interest[f] # NoEvent ~> queue[f] = <<>> \/ Ended

\* Every child that exits is reaped, or the program ends first: EPOLLHUP is
\* acted on whether it comes alone, with input, or between two reads.
ZombieReaped ==
    \A p \in Pid : child[p] = "zombie" ~> child[p] # "zombie" \/ Ended

\* ^C ends the main loop, even while the thread waits for a child.
InterruptStops == interrupted ~> Ended

------------------------------------------------------------------------------
(* The inductive invariant behind the state properties above.                *)

\* A handler is at work on cur.
Handling ==
    \/ pc \in {"signal", "timer", "tick", "udp", "pipe", "reap", "free"}
    \/ pc \in {"add", "probe"} /\ cur # NoEvent

\* Each descriptor is the signalfd, the timerfd, a socket or a pipe, and one
\* of these only; a socket's port is claimed.
DescriptorUse ==
    \A f \in Fd :
        /\ f \in {SignalFd, TimerFd} => sock[f] = NoPort /\ pipe[f] = NoPid
        /\ sock[f] # NoPort => pipe[f] = NoPid /\ sock[f] \in used_ports

\* The event registered for a descriptor is allocated, and says what the
\* descriptor is.
Registered ==
    \A f \in Fd : interest[f] # NoEvent =>
        LET r == ev[interest[f]]
        IN  /\ interest[f] \in tracked
            /\ r.fd = f
            /\ \/ r.type = "udp" /\ sock[f] # NoPort
               \/ r.type = "pipe" /\ pipe[f] # NoPid /\ r.pid = pipe[f]
               \/ r.type = "signal" /\ f = SignalFd
               \/ r.type = "timer" /\ f = TimerFd

\* Every pipe is registered, and no pipe event outlives its registration.
PipesRegistered ==
    /\ \A f \in Fd : pipe[f] # NoPid => interest[f] # NoEvent
    /\ \A e \in tracked : ev[e].type = "pipe" => interest[ev[e].fd] = e

\* What is ready is registered; what is in the batch still is, appears once,
\* and is not what is being handled; only pipes hang up.
BatchRegistered ==
    /\ \A f \in edge : interest[f] # NoEvent
    /\ \A b \in batch :
            /\ b.ev \in tracked /\ interest[ev[b.ev].fd] = b.ev
            /\ b.hup => ev[b.ev].type = "pipe"
            /\ Handling => b.ev # cur
    /\ \A b, c \in batch : b.ev = c.ev => b = c

\* The handler that runs is the one for the type of the current event.
CurrentRegistered ==
    Handling =>
        /\ cur \in tracked /\ interest[current] = cur
        /\ pc \in {"signal", "timer", "udp", "pipe"} => ev[cur].type = pc
        /\ pc = "tick" => ev[cur].type = "timer"
        /\ pc \in {"reap", "free", "add", "probe"} => ev[cur].type = "pipe"

\* Between ClaimPort and epoll_add_fd the new socket is bound and unwatched.
ProbeBound ==
    pc = "probe" =>
        /\ new_fd \in Fd /\ todo # <<>>
        /\ sock[new_fd] = Head(todo).port
        /\ interest[new_fd] = NoEvent

\* A watched socket has an entry.
RoutesExist ==
    \A f \in Fd : interest[f] # NoEvent /\ ev[interest[f]].type = "udp" =>
        Lookup(f) # {}

\* Discovery is on until the loop has handled its first event.
FirstDiscovery ==
    /\ pc = "start" => cur = NoEvent
    /\ cur = NoEvent => can_do_discovery

\* What holds of the tables of the kernel and of the program at every moment.
TablesAgree ==
    /\ DescriptorUse
    /\ NoSharedPort
    /\ Registered
    /\ PipesRegistered
    /\ RoutesExist

IInv ==
    /\ TypeOK
    /\ TablesAgree
    /\ BatchRegistered
    /\ CurrentRegistered
    /\ ProbeBound
    /\ FirstDiscovery
    /\ DescriptorLeft

------------------------------------------------------------------------------
(* The inductive invariant behind what is said of children.                  *)

\* Every child not yet reaped has a pipe, and no two pipes one child.
ChildHasPipe == \A p \in Pid : Alive(p) => \E f \in Fd : pipe[f] = p

PipesDistinct ==
    \A f, g \in Fd : pipe[f] # NoPid /\ pipe[f] = pipe[g] => f = g

\* The pipe of a reaped child is the current one, on its way to free_command,
\* and what is on its way there is the pipe of a reaped child.
DeadPipeCurrent ==
    /\ \A f \in Fd : pipe[f] # NoPid /\ ~Alive(pipe[f]) =>
            pc \in {"add", "probe", "free", "dead"} /\ cur = interest[f]
    /\ pc \in {"add", "probe", "free"} /\ cur # NoEvent => ~Alive(pipe[current])

\* A hangup in the batch is still true when its turn comes, and a hangup
\* without input leaves nothing in the pipe.
HangupsTrue ==
    \A b \in batch : b.hup =>
        HungUp(ev[b.ev].fd) /\ (~b.in => sent[pipe[ev[b.ev].fd]] = <<>>)

\* waitpid is called once the child has closed a pipe that is read to its end.
ReapReady ==
    /\ pc = "pipe" /\ close_after_read => HungUp(current)
    /\ pc = "reap" => HungUp(current) /\ sent[pipe[current]] = <<>>

\* Pipes and children belong together one to one, and a hangup is acted on while
\* it is true: what makes ChildrenAccounted and OutputReadBeforeReap last from
\* one epoll_wait to the next, and over the starts of other children.
ChildInv ==
    /\ ChildHasPipe
    /\ PipesDistinct
    /\ DeadPipeCurrent
    /\ HangupsTrue
    /\ ReapReady

------------------------------------------------------------------------------
(* Routing.                                                                  *)

\* As long as no client sends an empty datagram, no socket is ever closed, and
\* every entry of the tree belongs to the socket it was made for.
RoutesMatch == \A a \in address_map : sock[a.key] = a.port

------------------------------------------------------------------------------
(* The registry of ports that the loop implements.                           *)

Serving(p) == \E f \in Fd : sock[f] = p /\ interest[f] # NoEvent

registryStatus == [p \in Port |->
    IF p \notin used_ports THEN "free"
    ELSE IF pc = "probe" /\ sock[new_fd] = p THEN "probing"
    ELSE IF Serving(p) THEN "serving" ELSE "lost"]

EntriesOf(p) == {a \in address_map : sock[a.key] = p}

\* The camera a lookup would find for the descriptor of the port.
registryCamera == [p \in Port |->
    IF registryStatus[p] = "probing" THEN Head(todo).camera
    ELSE IF registryStatus[p] = "serving" THEN (CHOOSE a \in EntriesOf(p) : TRUE).camera
    ELSE NoCamera]

Registry == INSTANCE CameraRegistry
                WITH status <- registryStatus, camera <- registryCamera

\* As long as clients send no empty datagram, what the loop does to sockets,
\* bitset, tree and events is, seen from outside, a CameraRegistry.
ImplementsRegistry == Registry!RegistrySpec

==============================================================================
