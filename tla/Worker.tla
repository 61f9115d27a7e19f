-------------------------------- MODULE Worker --------------------------------
(***************************************************************************)
(* worker.c: the proxy's one thread.  It fills the address map from the    *)
(* configuration, starts a discovery child, and then serves an edge        *)
(* triggered epoll loop over UDP sockets (one per camera), the pipes of    *)
(* discovery children, a 30 second timer and a signalfd.                   *)
(*                                                                         *)
(* `pc' says which function the thread is in; `cur' is                     *)
(* state->current_event, and state->current is always ev[cur].fd.          *)
(* The environment (clients, children, the clock, a user pressing ^C)      *)
(* moves between any two steps of the thread.                              *)
(***************************************************************************)
EXTENDS AddressManager

CONSTANTS
    Configured,     \* [ports] of the config file: a sequence of requests
    Outputs,        \* what `discover' may print: sequences of addresses
    Datagram,       \* "visca" (>= 1 byte) and, when allowed, "empty" (0 bytes)
    NoFd,
    ReadMax,        \* lines per read(): VOPROXYD_PIPE_READ_BUFFER_LENGTH
    OutputLimit,    \* lines accepted from a child: the 4096 characters
    MaxTicks,       \* bound: timer expirations
    MaxDatagrams,   \* bound: datagrams sent by clients
    MayInterrupt    \* bound: whether the user interrupts the program

ASSUME WorkerAssumption ==
    /\ Configured \in Seq([port : Port, camera : Camera])
    /\ Outputs \subseteq Seq(Camera)
    /\ Datagram \subseteq {"visca", "empty"}
    /\ NoFd \notin Fd
    /\ ReadMax \in Nat \ {0}
    /\ OutputLimit \in Nat
    /\ MaxTicks \in Nat
    /\ MaxDatagrams \in Nat
    /\ MayInterrupt \in BOOLEAN

VARIABLES
    pc,                 \* where the thread is
    cur,                \* state->current_event
    batch,              \* events[] of epoll_wait not yet looked at
    close_after_read,   \* state->close_after_read
    running,            \* the local of main_loop
    can_do_discovery,   \* the static of worker.c
    todo,               \* addresses still to be added: rest of strtok/config
    new_fd,             \* the socket just bound, while its camera is probed
    queue,              \* kernel: datagrams waiting at each socket
    pipe,               \* kernel: the child whose output each descriptor reads
    sent,               \* kernel: lines in the pipe of each child
    timer_due,          \* kernel: the timerfd is readable
    interrupted,        \* kernel: a SIGINT is pending in the signalfd
    child,              \* the life of each discovery child
    script,             \* what each child has still to print
    status,             \* how each child ended, once it has
    ticks, arrived      \* counters for the bounds

threadVars == <<pc, cur, batch, close_after_read, running, can_do_discovery,
                todo, new_fd>>
envVars == <<timer_due, interrupted, ticks, arrived>>
childVars == <<sent, child, script, status>>
vars == <<epollVars, addressVars, threadVars, queue, pipe, envVars, childVars>>

PcValue == {"start", "wait", "dispatch", "signal", "timer", "tick", "udp", "pipe", "reap",
            "add", "probe", "free", "stopped", "dead"}

\* "closed": the child has closed its end of the pipe and is about to exit.
ChildState == {"unborn", "running", "closed", "zombie", "reaped"}

BatchEntry == [ev : Event, in : BOOLEAN, hup : BOOLEAN]

TypeOK ==
    /\ EpollTypeOK
    /\ AddressTypeOK
    /\ pc \in PcValue
    /\ cur \in Event \cup {NoEvent}
    /\ batch \subseteq BatchEntry
    /\ close_after_read \in BOOLEAN
    /\ running \in BOOLEAN
    /\ can_do_discovery \in BOOLEAN
    /\ todo \in Seq([port : Port, camera : Camera])
    /\ new_fd \in Fd \cup {NoFd}
    /\ queue \in [Fd -> Seq(Datagram)]
    /\ pipe \in [Fd -> Pid \cup {NoPid}]
    /\ sent \in [Pid -> Seq(Camera)]
    /\ timer_due \in BOOLEAN
    /\ interrupted \in BOOLEAN
    /\ child \in [Pid -> ChildState]
    /\ script \in [Pid -> Seq(Camera)]
    /\ status \in [Pid -> {"none", "ok", "bad"}]
    /\ ticks \in 0..MaxTicks
    /\ arrived \in 0..MaxDatagrams

Init ==
    /\ EpollInit
    /\ AddressInit
    /\ pc = "add"
    /\ cur = NoEvent
    /\ batch = {}
    /\ close_after_read = FALSE
    /\ running = TRUE
    /\ can_do_discovery = TRUE
    /\ todo = Configured
    /\ new_fd = NoFd
    /\ queue = [f \in Fd |-> <<>>]
    /\ pipe = [f \in Fd |-> NoPid]
    /\ sent = [p \in Pid |-> <<>>]
    /\ timer_due = FALSE
    /\ interrupted = FALSE
    /\ child = [p \in Pid |-> "unborn"]
    /\ script = [p \in Pid |-> <<>>]
    /\ status = [p \in Pid |-> "none"]
    /\ ticks = 0
    /\ arrived = 0

------------------------------------------------------------------------------
(* The kernel's view of a descriptor.                                        *)

Free(f) ==
    f \notin {SignalFd, TimerFd} /\ sock[f] = NoPort /\ pipe[f] = NoPid

\* A new descriptor is always the lowest free one.
Lowest(f) == Free(f) /\ \A g \in Fd : Free(g) => f <= g

\* EPOLLIN and EPOLLHUP, as polled when epoll_wait returns.
Readable(f) ==
    \/ sock[f] # NoPort /\ queue[f] # <<>>
    \/ pipe[f] # NoPid /\ sent[pipe[f]] # <<>>
    \/ f = TimerFd /\ timer_due
    \/ f = SignalFd /\ interrupted

HungUp(f) == pipe[f] # NoPid /\ child[pipe[f]] \in {"closed", "zombie"}

Alive(p) == child[p] \in {"running", "closed", "zombie"}

Ended == pc \in {"stopped", "dead"}

current == ev[cur].fd

------------------------------------------------------------------------------
(* The environment.                                                          *)

\* A client sends a datagram to the port of a bound socket.
Arrive(f, d) ==
    /\ ~Ended /\ sock[f] # NoPort
    /\ arrived < MaxDatagrams
    /\ arrived' = arrived + 1
    /\ queue' = [queue EXCEPT ![f] = Append(@, d)]
    /\ Notify(f)
    /\ UNCHANGED <<tracked, ev, interest, addressVars, threadVars, pipe,
                   timer_due, interrupted, ticks, childVars>>

\* The 30 second interval of add_timer runs out.
TimerExpires ==
    /\ ~Ended /\ ticks < MaxTicks
    /\ ticks' = ticks + 1
    /\ timer_due' = TRUE
    /\ Notify(TimerFd)
    /\ UNCHANGED <<tracked, ev, interest, addressVars, threadVars, queue, pipe,
                   interrupted, arrived, childVars>>

\* SIGINT is blocked for the process and arrives at the signalfd.
Interrupt ==
    /\ ~Ended /\ MayInterrupt /\ ~interrupted /\ running
    /\ interrupted' = TRUE
    /\ Notify(SignalFd)
    /\ UNCHANGED <<tracked, ev, interest, addressVars, threadVars, queue, pipe,
                   timer_due, ticks, arrived, childVars>>

\* Something happened to the pipe of child p.
NotifyPipe(p) == \E f \in Fd : pipe[f] = p /\ Notify(f)

ChildWrites(p) ==
    /\ ~Ended /\ child[p] = "running" /\ script[p] # <<>>
    /\ sent' = [sent EXCEPT ![p] = Append(@, Head(script[p]))]
    /\ script' = [script EXCEPT ![p] = Tail(@)]
    /\ NotifyPipe(p)
    /\ UNCHANGED <<tracked, ev, interest, addressVars, threadVars, queue, pipe,
                   envVars, child, status>>

\* The last write end of the pipe goes away, whether or not `discover' was
\* done: the shell reports the status of `cut', not of `discover'.
ChildCloses(p) ==
    /\ ~Ended /\ child[p] = "running"
    /\ child' = [child EXCEPT ![p] = "closed"]
    /\ NotifyPipe(p)
    /\ UNCHANGED <<tracked, ev, interest, addressVars, threadVars, queue, pipe,
                   envVars, sent, script, status>>

\* "bad": a status other than 0, or an output that has "not found" or "ERROR"
\* in it.
ChildExits(p) ==
    /\ ~Ended /\ child[p] = "closed"
    /\ child' = [child EXCEPT ![p] = "zombie"]
    /\ \E s \in {"ok", "bad"} : status' = [status EXCEPT ![p] = s]
    /\ UNCHANGED <<epollVars, addressVars, threadVars, queue, pipe, envVars,
                   sent, script>>

------------------------------------------------------------------------------
(* run_command and the discovery timer.                                      *)

\* die(): the process exits, whatever it was doing.
Die ==
    /\ pc' = "dead"
    /\ UNCHANGED <<epollVars, addressVars, cur, batch, close_after_read, running,
                   can_do_discovery, todo, new_fd, queue, pipe, envVars,
                   childVars>>

\* pipe2 needs two descriptors at once; the write end is closed after fork.
OneFree == \E f \in Fd : Free(f)      \* mutant: room for the read end only
PipePossible ==
    \E f, g \in Fd : f # g /\ Free(f) /\ Free(g)

\* The test with which run_command and free_command find "their" event again.
IsPipeEventAnyFd(r, f) == r.type = "pipe"       \* mutant: no test of the fd
IsPipeEvent(r, f) == r.type = "pipe" /\ r.fd = f

ForChild(r, p) == [fd |-> r.fd, type |-> r.type, pid |-> p, output |-> <<>>]

CanFork(p) == child[p] \in {"unborn", "reaped"}

\* run_command, once the kernel has chosen the descriptor f, the allocator the
\* event e and fork the child p.  A second walk over the tracked list finds the
\* event that epoll_add_fd has just allocated.
RunCommand(f, e, p, output) ==
    LET added == [ev EXCEPT ![e] = NewEvent(f, "pipe")]
        own == {x \in tracked \cup {e} : IsPipeEvent(added[x], f)}
    IN  /\ PipePossible /\ Lowest(f) /\ CanFork(p)
        /\ pipe' = [pipe EXCEPT ![f] = p]
        /\ child' = [child EXCEPT ![p] = "running"]
        /\ script' = [script EXCEPT ![p] = output]
        /\ sent' = [sent EXCEPT ![p] = <<>>]
        /\ status' = [status EXCEPT ![p] = "none"]
        /\ epoll_add_fd(e, f, FALSE)
        /\ ev' = [x \in Event |-> IF x \in own THEN ForChild(added[x], p)
                                               ELSE added[x]]

run_command ==
    \E f \in Fd, e \in Event, p \in Pid, output \in Outputs :
        RunCommand(f, e, p, output)

CannotRunCommand ==
    \/ ~PipePossible
    \/ \A p \in Pid : ~CanFork(p)
    \/ tracked = Event

\* worker_do_external_discovery.
DiscoverAlways == run_command       \* mutant: can_do_discovery is not asked
worker_do_external_discovery ==
    \/ /\ can_do_discovery
       /\ run_command
    \/ /\ ~can_do_discovery
       /\ UNCHANGED <<epollVars, pipe, childVars>>

\* main: the first discovery, after the configuration and before the loop.
Start ==
    /\ pc = "start"
    /\ worker_do_external_discovery
    /\ pc' = "wait"
    /\ UNCHANGED <<addressVars, cur, batch, close_after_read, running,
                   can_do_discovery, todo, new_fd, queue, envVars>>

DiscoveryDies ==
    /\ pc \in {"start", "timer"}
    /\ can_do_discovery /\ CannotRunCommand
    /\ Die

------------------------------------------------------------------------------
(* main_loop and the dispatch of one event.                                  *)

Ready == {f \in edge : Readable(f) \/ HungUp(f)}

\* epoll_wait(-1) returns every descriptor that is ready (there are fewer than
\* VOPROXYD_MAX_EPOLL_EVENTS), each with the pointer it was registered with.
\* The order inside a batch is left open.
EpollWait ==
    /\ pc = "wait" /\ Ready # {}
    /\ batch' = {[ev |-> interest[f], in |-> Readable(f), hup |-> HungUp(f)]
                    : f \in Ready}
    /\ edge' = {}
    /\ pc' = "dispatch"
    /\ UNCHANGED <<tracked, ev, interest, addressVars, cur, close_after_read,
                   running, can_do_discovery, todo, new_fd, queue, pipe,
                   envVars, childVars>>

\* The test of epoll_handle_event for epoll_handle_hangup.
AnyHangup(b) == b.hup               \* mutant: input is left in the pipe
HangupOnly(b) == b.hup /\ ~b.in

\* One turn of the for loop of main_loop up to the handler epoll_handle_event
\* chooses.  A hangup without input goes to epoll_handle_hangup, which starts
\* with waitpid; with input, close_after_read remembers it.
Dispatch(b) ==
    /\ pc = "dispatch" /\ b \in batch
    /\ batch' = batch \ {b}
    /\ cur' = b.ev
    /\ close_after_read' = (b.hup /\ b.in)
    /\ pc' = IF HangupOnly(b) THEN "reap" ELSE ev[b.ev].type
    /\ UNCHANGED <<epollVars, addressVars, running, can_do_discovery, todo,
                   new_fd, queue, pipe, envVars, childVars>>

\* The test of the while loop.
LoopForever == "wait"               \* mutant: running is not tested
AfterBatch == IF running THEN "wait" ELSE "stopped"

\* The end of the for loop and the test of the while loop.  Leaving it frees
\* the tracked events and closes the descriptors.
BatchDone ==
    /\ pc = "dispatch" /\ batch = {}
    /\ pc' = AfterBatch
    /\ UNCHANGED <<epollVars, addressVars, cur, batch, close_after_read, running,
                   can_do_discovery, todo, new_fd, queue, pipe, envVars,
                   childVars>>

\* epoll_handle_signal: the rest of the batch is still handled.
epoll_handle_signal ==
    /\ pc = "signal"
    /\ running' = FALSE
    /\ interrupted' = FALSE
    /\ pc' = "dispatch"
    /\ UNCHANGED <<epollVars, addressVars, cur, batch, close_after_read,
                   can_do_discovery, todo, new_fd, queue, pipe, timer_due,
                   ticks, arrived, childVars>>

\* epoll_handle_timer, first the discovery ...
epoll_handle_timer ==
    /\ pc = "timer"
    /\ worker_do_external_discovery
    /\ pc' = "tick"
    /\ UNCHANGED <<addressVars, cur, batch, close_after_read, running,
                   can_do_discovery, todo, new_fd, queue, envVars>>

\* ... then print_mem_usage, and the read that takes every expiration so far off the timerfd.
ReadTimer ==
    /\ pc = "tick"
    /\ timer_due' = FALSE
    /\ pc' = "dispatch"
    /\ UNCHANGED <<epollVars, addressVars, cur, batch, close_after_read, running,
                   can_do_discovery, todo, new_fd, queue, pipe, interrupted,
                   ticks, arrived, childVars>>

------------------------------------------------------------------------------
(* epoll_handle_read_queue_udp: one recvfrom per step, until one says stop.  *)

\* What the loop does after a message: `return 1'.
ReadOnce == "dispatch"              \* mutant: one recvfrom per event
ContinueReading == "udp"

\* A datagram with something in it goes to the VISCA layer, which looks up the
\* instance of the descriptor and answers; then the loop goes round again.
UdpMessage ==
    /\ pc = "udp"
    /\ queue[current] # <<>> /\ Head(queue[current]) # "empty"
    /\ Lookup(current) # {}
    /\ queue' = [queue EXCEPT ![current] = Tail(@)]
    /\ pc' = ContinueReading
    /\ UNCHANGED <<epollVars, addressVars, cur, batch, close_after_read, running,
                   can_do_discovery, todo, new_fd, pipe, envVars, childVars>>

\* The camera did not answer, or answered with a fault: soap_die.
UdpMessageDies ==
    /\ pc = "udp"
    /\ queue[current] # <<>> /\ Head(queue[current]) # "empty"
    /\ Die

\* message_length = 0 is taken for the end of a connection.  The event, the
\* bit of the port and the entry of the tree stay behind.
UdpEmpty ==
    /\ pc = "udp"
    /\ queue[current] # <<>> /\ Head(queue[current]) = "empty"
    /\ epoll_close_fd(current)
    /\ sock' = [sock EXCEPT ![current] = NoPort]
    /\ queue' = [queue EXCEPT ![current] = <<>>]
    /\ pc' = "dispatch"
    /\ UNCHANGED <<tracked, ev, used_ports, address_map, cur, batch,
                   close_after_read, running, can_do_discovery, todo, new_fd,
                   pipe, envVars, childVars>>

\* EAGAIN.
UdpDrained ==
    /\ pc = "udp"
    /\ queue[current] = <<>>
    /\ pc' = "dispatch"
    /\ UNCHANGED <<epollVars, addressVars, cur, batch, close_after_read, running,
                   can_do_discovery, todo, new_fd, queue, pipe, envVars,
                   childVars>>

------------------------------------------------------------------------------
(* epoll_handle_pipe_queue, epoll_handle_hangup and command_output_ready.    *)

\* What one read() takes from a pipe that holds s.
ReadLength(s) == IF Len(s) < ReadMax THEN Len(s) ELSE ReadMax

\* One read() that returns data, and string_concat.
PipeRead ==
    /\ pc = "pipe"
    /\ LET p == pipe[current]
           n == ReadLength(sent[p])
       IN  /\ sent[p] # <<>>
           /\ ev' = [ev EXCEPT ![cur].output = @ \o SubSeq(sent[p], 1, n)]
           /\ sent' = [sent EXCEPT ![p] = SubSeq(@, n + 1, Len(@))]
    /\ UNCHANGED <<tracked, interest, edge, addressVars, threadVars, queue, pipe,
                   envVars, child, script, status>>

HangupForgotten == "dispatch"       \* mutant: close_after_read is not tested
AfterDrained == IF close_after_read THEN "reap" ELSE "dispatch"

\* A read() that returns 0 or EAGAIN.
PipeDrained ==
    /\ pc = "pipe"
    /\ sent[pipe[current]] = <<>>
    /\ pc' = AfterDrained
    /\ close_after_read' = FALSE
    /\ UNCHANGED <<epollVars, addressVars, cur, batch, running,
                   can_do_discovery, todo, new_fd, queue, pipe, envVars,
                   childVars>>

\* waitpid returns, and the checks of command_output_ready up to strtok: a bad
\* status turns discovery off for good, an output too long is fatal.
Reap ==
    /\ pc = "reap"
    /\ LET p == ev[cur].pid
           output == ev[cur].output
       IN  /\ child[p] = "zombie"
           /\ child' = [child EXCEPT ![p] = "reaped"]
           /\ \/ /\ status[p] = "bad"
                 /\ can_do_discovery' = FALSE
                 /\ pc' = "free"
                 /\ UNCHANGED todo
              \/ /\ status[p] = "ok" /\ Len(output) > OutputLimit
                 /\ pc' = "dead"
                 /\ UNCHANGED <<can_do_discovery, todo>>
              \/ /\ status[p] = "ok" /\ Len(output) <= OutputLimit
                 /\ todo' = [i \in 1..Len(output) |-> Request(output[i])]
                 /\ pc' = "add"
                 /\ UNCHANGED can_do_discovery
    /\ UNCHANGED <<epollVars, addressVars, cur, batch, close_after_read, running,
                   new_fd, queue, pipe, envVars, sent, script, status>>

\* free_command: close the pipe and delete the event whose descriptor it was,
\* the first one found on the tracked list.
FreeCommand ==
    /\ pc = "free"
    /\ epoll_close_fd(current)
    /\ pipe' = [pipe EXCEPT ![current] = NoPid]
    /\ \E e \in tracked :
            /\ IsPipeEvent(ev[e], current)
            /\ ll_delete_node(e)
    /\ pc' = "dispatch"
    /\ UNCHANGED <<ev, addressVars, cur, batch, close_after_read, running,
                   can_do_discovery, todo, new_fd, queue, envVars, childVars>>

------------------------------------------------------------------------------
(* address_mngr_add_address_by_port, for the head of todo.                   *)

AddressTaken ==
    /\ pc = "add" /\ todo # <<>>
    /\ PortTaken(Head(todo).port)
    /\ todo' = Tail(todo)
    /\ UNCHANGED <<epollVars, addressVars, pc, cur, batch, close_after_read,
                   running, can_do_discovery, new_fd, queue, pipe, envVars,
                   childVars>>

\* BITSET and socket_create_udp; soap_instance_allocate is next, and takes as
\* long as the camera takes to answer.
AddressBound ==
    /\ pc = "add" /\ todo # <<>>
    /\ ~PortTaken(Head(todo).port)
    /\ \E f \in Fd :
            /\ Lowest(f)
            /\ ClaimPort(Head(todo).port, f)
            /\ new_fd' = f
    /\ pc' = "probe"
    /\ UNCHANGED <<epollVars, address_map, cur, batch, close_after_read, running,
                   can_do_discovery, todo, queue, pipe, envVars, childVars>>

\* No descriptor is free.
AddressDies ==
    /\ pc = "add" /\ todo # <<>>
    /\ ~PortTaken(Head(todo).port)
    /\ \A f \in Fd : ~Free(f)
    /\ Die

\* The camera answered: worker_add_udp_fd and avl_tree_insert.
AddressReady ==
    /\ pc = "probe"
    /\ \E e \in Event :
            /\ epoll_add_fd(e, new_fd, Readable(new_fd))
            /\ ev' = [ev EXCEPT ![e] = NewEvent(new_fd, "udp")]
    /\ InsertInstance(new_fd, Head(todo))
    /\ new_fd' = NoFd
    /\ todo' = Tail(todo)
    /\ pc' = "add"
    /\ UNCHANGED <<used_ports, sock, cur, batch, close_after_read, running,
                   can_do_discovery, queue, pipe, envVars, childVars>>

\* soap_instance_allocate returned NULL.  The bit stays set and the socket
\* stays open and bound, watched by nobody.
AddressUnreachable ==
    /\ pc = "probe"
    /\ new_fd' = NoFd
    /\ todo' = Tail(todo)
    /\ pc' = "add"
    /\ UNCHANGED <<epollVars, addressVars, cur, batch, close_after_read, running,
                   can_do_discovery, queue, pipe, envVars, childVars>>

\* The camera has services but no profiles, or no device information once it
\* is inserted: die.
ProbeDies ==
    /\ pc = "probe"
    /\ Die

\* The end of strtok's loop, or of the config file.
AddressesDone ==
    /\ pc = "add" /\ todo = <<>>
    /\ pc' = IF cur = NoEvent THEN "start" ELSE "free"
    /\ UNCHANGED <<epollVars, addressVars, cur, batch, close_after_read, running,
                   can_do_discovery, todo, new_fd, queue, pipe, envVars,
                   childVars>>

------------------------------------------------------------------------------
\* The thread, where it is free to move.
Thread ==
    \/ Start \/ DiscoveryDies
    \/ EpollWait \/ (\E b \in batch : Dispatch(b)) \/ BatchDone
    \/ epoll_handle_signal \/ epoll_handle_timer \/ ReadTimer
    \/ UdpMessage \/ UdpMessageDies \/ UdpEmpty \/ UdpDrained
    \/ PipeRead \/ PipeDrained \/ Reap \/ FreeCommand
    \/ AddressTaken \/ AddressBound \/ AddressDies
    \/ AddressReady \/ AddressUnreachable \/ ProbeDies \/ AddressesDone

Environment ==
    \/ \E f \in Fd, d \in Datagram : Arrive(f, d)
    \/ TimerExpires
    \/ Interrupt
    \/ \E p \in Pid : ChildWrites(p) \/ ChildCloses(p) \/ ChildExits(p)

Next == Thread \/ Environment

Spec == Init /\ [][Next]_vars

\* A discovery child closes its pipe at last, and then exits; the thread runs
\* whenever it can.  Nothing is assumed of clients, the clock or the user.
Fairness ==
    /\ WF_vars(Thread)
    /\ \A p \in Pid : WF_vars(ChildCloses(p)) /\ WF_vars(ChildExits(p))

FairSpec == Spec /\ Fairness

==============================================================================
