-------------------------------- MODULE Epoll --------------------------------
(***************************************************************************)
(* epoll.c and the kernel object behind it.                                *)
(*                                                                         *)
(* The program allocates an event_t for every descriptor it watches, links *)
(* it into state->tracked_events, and hands its ADDRESS to the kernel      *)
(* (ep_event.data.ptr).  An event is therefore modelled by its identity:   *)
(* `tracked' is the set of allocated events, ev[e] the contents of the     *)
(* memory at e, interest[f] the pointer the kernel holds for descriptor f. *)
(* Registration is edge triggered (EPOLLET): `edge' is the kernel's ready  *)
(* list, the descriptors on which something happened since they were last  *)
(* reported.                                                               *)
(***************************************************************************)
EXTENDS Naturals, Sequences, FiniteSets

CONSTANTS
    Fd,           \* descriptors the process may hold (RLIMIT_NOFILE)
    Event,        \* addresses of event_t allocations
    NoEvent,      \* "not registered"
    Pid,          \* process identifiers of discovery children
    NoPid,        \* the zero of a calloc'ed child_pid
    Camera,       \* network addresses of cameras
    SignalFd, SignalEvent,   \* opened by worker_init
    TimerFd, TimerEvent

ASSUME FdAssumption ==
    /\ Fd \subseteq Nat
    /\ SignalFd \in Fd
    /\ TimerFd \in Fd
    /\ SignalFd # TimerFd

ASSUME EventAssumption ==
    /\ NoEvent \notin Event
    /\ SignalEvent \in Event
    /\ TimerEvent \in Event
    /\ SignalEvent # TimerEvent

ASSUME PidAssumption == NoPid \notin Pid

VARIABLES
    tracked,      \* state->tracked_events, as a set of addresses
    ev,           \* the event_t at each address
    interest,     \* the kernel's interest list: descriptor -> event pointer
    edge          \* the kernel's ready list

epollVars == <<tracked, ev, interest, edge>>

EventType == {"none", "signal", "timer", "udp", "pipe"}

\* struct event_t; `output' is command_output, as the lines in it.
EventRecord ==
    [fd : Fd, type : EventType, pid : Pid \cup {NoPid}, output : Seq(Camera)]

\* The contents of a freshly calloc'ed event after epoll_add_fd filled it in.
NewEvent(f, type) ==
    [fd |-> f, type |-> type, pid |-> NoPid, output |-> <<>>]

\* worker_init has registered the signal and the timer descriptor.
EpollInit ==
    /\ tracked = {SignalEvent, TimerEvent}
    /\ ev = [e \in Event |->
                CASE e = SignalEvent -> NewEvent(SignalFd, "signal")
                  [] e = TimerEvent  -> NewEvent(TimerFd, "timer")
                  [] OTHER           -> NewEvent(SignalFd, "none")]
    /\ interest = [f \in Fd |->
                CASE f = SignalFd -> SignalEvent
                  [] f = TimerFd  -> TimerEvent
                  [] OTHER        -> NoEvent]
    /\ edge = {}

EpollTypeOK ==
    /\ tracked \subseteq Event
    /\ ev \in [Event -> EventRecord]
    /\ interest \in [Fd -> Event \cup {NoEvent}]
    /\ edge \subseteq Fd

\* epoll_add_fd without the contents of the event: a new node on the tracked
\* list and an EPOLL_CTL_ADD, which puts a descriptor that is already readable
\* on the ready list at once.
epoll_add_fd(e, f, readable) ==
    /\ e \in Event \ tracked
    /\ tracked' = tracked \cup {e}
    /\ interest' = [interest EXCEPT ![f] = e]
    /\ edge' = IF readable THEN edge \cup {f} ELSE edge

\* epoll_close_fd: EPOLL_CTL_DEL and close().  The event itself is NOT freed,
\* nor unlinked from the tracked list.
epoll_close_fd(f) ==
    /\ interest' = [interest EXCEPT ![f] = NoEvent]
    /\ edge' = edge \ {f}

\* ll_delete_node: unlink the node and free the event in it.
ll_delete_node(e) == tracked' = tracked \ {e}

\* A descriptor became readable or hung up; only a registered one is noticed.
Notify(f) == edge' = IF interest[f] # NoEvent THEN edge \cup {f} ELSE edge

==============================================================================
