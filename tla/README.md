# voproxyd in TLA+

voproxyd is a proxy between VISCA-over-IP controllers and ONVIF cameras. It finds
cameras (from a config file and by running an external `discover` command),
opens one UDP port per camera, and translates the VISCA datagrams that arrive on
a port into SOAP calls to that port's camera. It is one process with one thread
around an edge-triggered `epoll` loop; discovery runs in child processes whose
output comes back through pipes.

The repository has no tests and no documentation of its own: the comments, the
log texts and the skeleton config file in `config.c` are all it says about what
it is meant to do. The modules here are translated from the C code.

## 1. Inventory

| Part | Source | State it keeps | Operations | Talks to |
|---|---|---|---|---|
| event loop | `worker.c` | `state` (`current`, `current_event`, `close_after_read`, `tracked_events`), `can_do_discovery`, the loop's `running` | `main_loop`, one handler per descriptor type, `run_command`, `command_output_ready`, `free_command` | everything below |
| event list | `epoll.c` | a list of allocated `event_t`; the kernel's interest list holds pointers into it | `epoll_add_fd`, `epoll_close_fd`, `ll_delete_node` | kernel, worker |
| address manager | `address_manager.c` | `used_ports_bitset`, the tree `address_map` from descriptor to `soap_instance` | add by address or by port, look up by descriptor or by ip | sockets, AVL tree, worker, config |
| AVL tree | `avltree.c` | the tree | insert, find, delete | address manager |
| SOAP instance | `soap_instance.c`, `bridge_inquiries.c:372-393` | `profile_idx`, `current_preset`, `preset_range_min/max` | allocate (probes the camera), position inquiry saves a preset | camera |
| VISCA dispatch | `visca.c` | none; reads the receive buffer of the caller | acknowledge, dispatch, complete; inquire | bridge, UDP client |
| bridge, SOAP calls | `bridge_commands.c`, `bridge_inquiries.c`, `soap_ptz.c`, `soap_utils.c` | none | one function per VISCA command; about ten of them make a SOAP call, the others only log | camera |
| configuration | `config.c` | `g_config` (credentials) | find the file, parse it line by line | address manager, instances |
| Sony VISCA layer | `sony_visca*.c` | none; converts the header in the receive buffer | an alternative to `visca.c` with a header, sequence numbers and control messages; its call is commented out (`worker.c:190`) | bridge, UDP client |
| discovery output | `worker.c:45-72`, `:285-360`, `address_manager.c:27-58` | the growing string of each command | collect the pieces, check the whole, split at newlines, turn a line into a port number | children, address manager |
| start-up | `main.c`, `daemonize.c`, `run_command` | `g_daemonize`, log file, the descriptors inherited | argument parsing, double fork, standard descriptors, the order of initialisation | everything |
| WS-Discovery | `discovery.c`, `wsdd_callbacks.c` | none | disabled in `main.c:121,123` | gSOAP |
| helpers | `buffer.c`, `socket.c`, `log.h`, `errors.h` | none | | |

**What is hard.** Nothing here runs in parallel with the thread inside the
process, but the kernel, the discovery children, the cameras and the clients
move between any two of its steps:

- edge triggering: an edge that comes while a socket or a pipe is being drained
  must not be lost, and a hangup may come with or without data;
- `epoll` returns a *batch* of pointers to events; a handler that runs for one
  of them closes descriptors and frees an event while the others wait;
- descriptor numbers are reused at once, and the program finds events and
  instances again by descriptor number;
- several discoveries can be in flight, each adding addresses that the config
  file or another discovery has added already;
- a SOAP call blocks the thread, may fail, and a failure ends the process;
- the receive buffer is not cleared between datagrams, so what follows a short
  message is an earlier one;
- a pipe cuts the output of a discovery anywhere, and the buffer it is put
  together in grows meanwhile;
- every descriptor made at start-up takes the lowest free number, which is a
  standard one if the program was started with that one closed;
- `SO_REUSEPORT` silences the kernel's own check for two sockets on a port.

`PROJECT.json` lists the hazards one by one, each at its line.


## 2. Modules

Each module stands for one part of the program and is commented with the
functions it translates; `PROJECT.json` maps every definition to its lines.

| Module | Models | State | Extended or used by |
|---|---|---|---|
| `Epoll` | `epoll.c` and the kernel's side of it | `tracked` (the list of events), `ev` (their contents), `interest` (descriptor → event pointer), `edge` (the kernel's ready list) | `AddressManager` |
| `AddressManager` | `address_manager.c` as the loop sees it | `used_ports`, `sock` (the port each descriptor is bound to), `address_map` (a set of entries keyed by descriptor) | `Worker` |
| `Worker` | `worker.c`, the order of `main`, clients, children, clock, `^C` | `pc`, `cur`, `batch`, `close_after_read`, `todo`, …, and the kernel's queues, pipes and children | `WorkerProperties` |
| `WorkerProperties` | what must hold of the loop, the inductive invariant, the refinement mapping | – | `MCWorker`, `WorkerProofs`, `RegistryProofs` |
| `CameraRegistry` | *abstract*: a port is claimed once, probed, and serves one camera or is given up | `status`, `camera` by port | `WorkerProperties` |
| `PortAssignment` | the port number of an address, and the bitset | `used_ports`, `socket`, `bitset` | `CommandOutput`, `MCPort` |
| `CommandOutput` | a discovery's output from the characters in the pipe to the sockets: `epoll_handle_pipe`, `string_concat`, `command_output_ready`, the loop that reads the four numbers | `script`, `pipe`, `command_output` and its buffer's length, `rest`, `stage` | `MCOutput`, `OutputProofs` |
| `AvlTree` | `avltree.c`, as pure recursive functions on trees of up to `MaxHeight` levels | `root` | `Config`, `AvlProofs` |
| `EntrySet` | *abstract*: the set of entries the tree stands for, several of which may have one key | `entries` | `AvlTree` |
| `PresetRing` | position inquiries and absolute moves: the ring of presets | `current_preset`, the camera's presets, the replies under way | `MCPreset`, `PresetProofs` |
| `Visca` | `visca.c` and the SOAP call each command leads to | the receive buffer, `step`, `replies`, `camera` | `SonyVisca` |
| `SonyVisca` | `sony_visca*.c` on the same buffer: the header, its conversion in place, the checks of type and length, the dispatchers | those of `Visca` | `ViscaProperties` |
| `ViscaProperties` | the conversation on either layer, what must hold of it, the refinement mapping | `layer` | `MCVisca`, `ViscaProofs` |
| `ViscaSession` | *abstract*: request, ack, completion, per controller | `owed`, `acked` | `ViscaProperties` |
| `Config` | `config.c`, with the instances its lines make and change | `contents` of the places searched, `file` (lines read), the tree, the instances | `MCConfig`, `ConfigProofs` |
| `Startup` | `main`, `daemonize`, `worker_init`, both sides of `run_command`, `syslog`, by descriptors, processes and sessions | `pc`, `fds`, `session`, `cwd` of each process, `log_fd`, `LogFile` | `StartupProofs` |
| `WorkerProofs`, `RegistryProofs`, `OutputProofs`, `AvlProofs`, `ConfigProofs`, `PresetProofs`, `ViscaProofs`, `StartupProofs` | the theorems of section 4 | – | `RegistryProofs` extends `WorkerProofs`, `ConfigProofs` instantiates `AvlProofs` |

**How state and actions correspond to the code.** The one thread is a program
counter: an action is one system call or one call of a handler with everything
it does up to the next point where the outside world can interfere. In `Worker`
these points are the system calls (`epoll_wait`, `recvfrom`, `read`,
`waitpid`, `socket` and the camera's answer to the probe); `pc = "udp"` is inside
`epoll_handle_read_queue_udp`, `"pipe"` inside `epoll_handle_pipe_queue`,
`"reap"` at `waitpid`, `"add"` and `"probe"` inside
`address_mngr_add_address_by_port`, `"free"` at `free_command`. Pointers to
`event_t` are members of `Event`, so that a pointer that is kept after `free` and
allocated again for another descriptor is a different thing from a descriptor
number that is reused, and both can happen. Descriptor numbers are integers and
the kernel hands out the lowest free one. An `epoll_wait` returns a set: the
order of the events in a batch is left open. In `Visca` the steps are the sends
and the SOAP call of one request; bytes are numbers, because the dispatcher
looks at them without looking at the length. `SonyVisca` shares that buffer and
those steps; which layer the handler was built to call is the constant `layer`
of a behaviour. In `CommandOutput` an action is one `read`, one call of
`command_output_ready` up to its loop, or one line of that loop; it takes one
child at a time, since several in flight are `Worker`'s subject and their
strings are separate. In `Config` an action is one line of the file. In
`Startup` it is one system call that makes, moves or passes on a descriptor, a
process, a session or a directory, with its failure, or the messages next to it,
and four processes take their steps side by side.

`Worker` knows an output as a set of addresses and a port as a model value;
`CommandOutput` and `PortAssignment` fill these in with characters and numbers.
`ImplementsPortAssignment` says that the longer way from the text to the port
leads to where `PortAssignment` starts from the numbers.

**Mutants.** A definition commented `mutant` is an alternative to the one that
follows it, with a slip a programmer could make (a dropped test, a wrong
comparison). Each property was checked to fail when the mutant takes the place
of the original. They are part of no specification.

## 3. What the runs check

Run a configuration with `tlc -config X.cfg M`; the times are for two workers.

| Run | Configuration | What it shows | Size |
|---|---|---|---|
| `worker_safety` | `MCWorker_safety` | types, no shared port, no dangling event pointer, every lookup defined, every child accounted for, output complete before it is used, discovery once off stays off, always a descriptor to spare; and that `IInv` and `ChildInv` of the proofs hold | 761 000 states, 26 s |
| `worker_registry` | `MCWorker_registry` | commands reach the camera the log names; the loop implements `CameraRegistry` | 2.1 million, 85 s |
| `worker_liveness` | `MCWorker_liveness` | datagrams are served, children reaped, `^C` ends the loop | 21 000, 6 s |
| `worker_empty` | `MCWorker_empty` | *violated*: an empty datagram misroutes later commands | |
| `command_output` | `MCOutput` | wherever the pipe cuts it, an output is put together whole in a buffer large enough, every camera on a line of its own is added, and each has a socket of its own; the text's ports are `PortAssignment`'s | 306 000, 16 s |
| `port_shared` | `MCPort_shared` | *violated*: two networks share ports | |
| `preset_ring` | `MCPreset_ring` | a remembered preset number recalls its position | 250 000, 5 s |
| `visca_session` | `MCVisca_session` | on either layer, each controller gets its acks and completions and none is a lie; no leftover byte moves a camera; a control reply answers its request | 932 000, 90 s |
| `avl_tree` | `MCAvlTree` | the tree is balanced and ordered and implements a set of entries | 28 000, 15 s |
| `config_file` | `MCConfig_file` | settings reach their camera; edited files are kept | 3.9 million, 40 s |
| `config_prefix` | `MCConfig_prefix` | *violated*: the name of a section occurs in another camera's endpoint | |
| `startup` | `MCStartup` | a daemon is detached, a discovery's output reaches its pipe and nothing else leaks into the child, messages go where the options say, the launcher returns | 4 300, 2 s |

**The bounds, and why they are enough.**

- *Worker.* Two discovery children (so that two can be in flight, at start and
  at a tick of the timer), three allocatable events and three or four free
  descriptors (so that a pointer and a descriptor number are both reused by
  something of a different kind), two ports, and an output that names a camera
  twice, a configured one and a colliding one. `ReadMax = 2` makes an output need more
  than one `read`, and `OutputLimit = 2` lets `worker_registry` reach the output
  that is too long. One or two datagrams: the second is the one that arrives
  while the first is handled. Events are symmetric except the two that
  `worker_init` registers. The liveness run has no symmetry.
  `worker_safety` has three free descriptors only, so that a pipe or a socket may
  find none left and the process dies there; with fewer of them a number is also
  sooner used again.
- *Discovery output.* Two discoveries, so that a camera is named again by the
  second; five cameras at the edges of the rules for the offset and of the
  digits, one of which (192.168.1.1) has no bit; outputs of up to three lines,
  with empty lines, an error, and a line of more than four numbers. The buffers
  (4 at first, 8 more each time, reads of up to 16) keep the order of the code's
  (1024, 4096, 8192): a read may need several extensions. A limit of 35 lets the longest
  output be too long. `port_shared` takes its addresses from two networks. The
  proofs cover the rest.
- *Presets.* Two instances with ranges 1–3 and 0–1, four inquiries and one
  restart: each ring goes round at least once. `MaxSaves` and `MaxRestarts` are
  the only bounds and the proof has neither.
- *VISCA.* Three datagrams by two controllers, on either layer: an ack and a
  completion can each be preceded by another controller's, and a short message
  can follow a long one with the same first bytes. `Everyday` has a request for
  every operation the camera has, a stub, an inquiry of each length of answer,
  and messages nobody answers; `Odd`, which one of the two may send as well,
  those cut short or with a wrong length. The byte on the stack before the first
  datagram is 0 or 1. The proofs have none of these bounds.
- *AVL tree.* Five keys with up to two entries each reach every rotation, single
  and double, at insertion and at deletion. `MaxHeight = 5` is never met: ten entries
  fit into four levels. The proofs cover every height.
- *Config.* Five lines are what it takes to make two instances of one camera
  and one of another, in any order, and to set an option twice; three entries
  are what it takes for a rotation. Two starts are a skeleton and its use. The tree is
  allowed as many levels as there may be lines, more than it can have. A section
  is looked for by `strstr` in the endpoints, so `Config` takes as a constant
  which names occur in which camera's endpoint besides its own (`Contained`), an
  address like `1` or `2.168` as well as the beginning of another one; any such
  relation is allowed. It is empty in `config_file`, where no address is a part
  of another; `config_prefix` has two that begin alike.
- *Start-up.* No bound but the thirteen descriptors, which are more than any
  process ever has open: every combination of the options, of standard
  descriptors that are closed at the start, and of a syslog daemon that runs or
  does not.

**Fairness.** `FairSpec` of `Worker` assumes weak fairness of the thread, and of
each child's closing its output and exiting. The thread is the only one of the
process; the only calls that block it are `epoll_wait`, `waitpid` (a step of
`Reap`, enabled when the child has exited) and SOAP calls, which have timeouts
of three seconds (`soap_global.c:13`). That a child ends is an assumption about
the external `discover`: if it never does, the proxy blocks in `waitpid` as soon
as the child has closed its output, and nothing is served. Nothing is assumed of
clients, the clock, cameras or the user. `ViscaProperties` assumes weak
fairness of the thread only, `Startup` of each process: the scheduler runs them
all, and none of their calls waits for anything but `waitpid` for the middle
process, which waits for nothing. `CHECK_DEADLOCK FALSE` stands where the process may end (`die`,
`^C`) or the bounded environment may have nothing left to do.

## 4. What is proved

TLAPS checks these for every value of the constants.

`WorkerProofs` – from `WorkerAssumption`, `NoCameraAssumption` and the
assumptions of `Epoll` and `AddressManager` (signalfd and timerfd are different
descriptors, their events different events):

- `Inductive`: `Spec => []IInv`. None of the safety properties is inductive by
  itself. That no event in the batch dangles (`EventsLive`) needs to know that
  `free_command`, which searches the list by type and descriptor number, finds
  the event of its own pipe; that needs every pipe event on the list to be the
  registered one of its descriptor (`PipesRegistered`), and no other event of the
  batch to be the one being handled (`BatchRegistered`). `IInv` is these facts
  together with the types, what each descriptor is used for, the socket that is
  bound but not yet watched while its camera is probed (`ProbeBound`), and the
  spare descriptor.
- `TypeCorrect`, `PortsNotShared`, `NoDanglingEvent`, `LookupFinds`,
  `DescriptorAlwaysLeft`: consequences of it.
- `RoutingCorrect`: when `"empty"` is not a member of `Datagram`, a command goes
  to the camera of its port. The extra invariant is `RoutesMatch`: without empty
  datagrams no socket is closed, so an entry of the tree stays with the socket it
  was made for. `worker_empty` shows the hypothesis is needed.

and, on the children, from the same assumptions:

- `ChildrenInductive`: `Spec => []ChildInv`. That a `waitpid` has a child to wait
  for (`ChildrenAccounted`) is not inductive: between the `epoll_wait` that
  reports a hangup and its turn in the batch other children end and new ones are
  forked, whose pipes may take the descriptors just closed. `ChildInv` says that
  pipes and children belong together one to one (`ChildHasPipe`,
  `PipesDistinct`), that the one pipe of a reaped child is the one being handled
  (`DeadPipeCurrent`), and that a hangup in the batch is still true when its turn
  comes (`HangupsTrue`).
- `NoChildLost`, `OutputComplete`, `DiscoveryOff`: `ChildrenAccounted`,
  `OutputReadBeforeReap` and `DiscoveryStaysOff`.

`RegistryProofs` – `RegistryImplemented`: when `"empty"` is not a member of
`Datagram`, `Spec => ImplementsRegistry`. Every step of the loop claims a port,
serves it, abandons it, or is a stutter of the registry (`OthersStutter`). The
invariant is `IInv`, `RoutesMatch` and `EntriesWatched`, that every entry of the
tree belongs to a socket that is watched: a socket whose camera is still being
probed has none, so the probe's outcome is the only thing that decides its
port's status.

`OutputProofs` – from `LengthAssumption` (lengths are positive),
`OutputsAssumption` (texts are texts) and `AddressesAssumption` (`Address` has
every camera that a line of a text stands for):

- `HostsDistinct` and `NetworksDistinct` say for which networks the port numbers
  are unique, `CoveredExactly` for which they have a bit in the bitset, and
  `EachCameraServed` concludes `EachCameraItsSocket` for cameras in 192.168.11 to
  192.168.32.
- `Whole`: `OutputSpec => []OutputWhole`, which is inductive once the types are
  added. `string_ensure_fits_substring` is defined as the least number of
  extensions that is enough; `EnoughExtensions` shows that there is one, that is,
  that the loop in the code ends.
- `OutputTypeCorrect` and `OutputImplements`: `OutputSpec => []OutputTypeOK` and
  `OutputSpec => ImplementsPortAssignment`. What is left to `strtok` is always the
  end of a text that some child printed (`LinesOfText`), so each line that
  `command_output_ready` takes off it is a line of that text, and gives either no
  camera or one `PortAssignment` knows. Each step is then a step of
  `PortAssignment` or leaves its variables alone.
- `EveryLine`: `OutputSpec => EveryLineAdded`. The invariant is `NamedLater`:
  while lines are read, a camera the text names has been announced or is named in
  what is left. Two lemmas carry it. `DottedRead`: the characters of an address
  are read back as the same bytes. `FoldLeft` folds over sets of places, so an
  induction over the length (`FoldsExists`, with a set for the property) first
  turns it into one character after the other (`Reads`); a number is then read
  digit by digit (`NumberRead`). `TokenTaken`: wherever an address stands on a
  line of its own, `strtok` takes that line next or leaves the address on a line
  of its own behind what it takes.
- `NamedCameraServed`: with the refinement, `EachCameraItsSocket` for the cameras
  a text names.

`AvlProofs` – from `TreeAssumption` (keys are integers), for any keys, data and
number of levels. An induction over the tree cannot use the library's theorems,
whose property is an operator; `NatInduct` and `TreeInduct` state it for *sets*,
a property being the set of trees that have it. What a recursive function means
is proved in two steps. `RecursiveExists`: a function of a node and its values
for the children has a solution on all trees, built level by level. The
`...Reads` lemmas: so each of `insert`, `find`, `min_node`, `delete_min`,
`delete_key`, `Entries` and `Subtrees` satisfies the equation it is defined by.
`Good` says of a tree that it is in balance and that each entry fits between
those on its left and on its right, with equal keys allowed on either side. The
lemma on `balance` (`BalanceGood`, from the four rotations) takes two good trees
that differ by at most two levels, which is all an insertion or a deletion one
level down can do, and says what entries and which height come out. Then
`InsertGood`, `DeleteGood` and `FindGood` follow by induction, and

- `Searchable`: `Spec => []SearchTree`,
- `Found`: `Spec => []FindAgrees`,
- `SetImplemented`: `Spec => ImplementsEntrySet`.

`ConfigProofs` – from `ConfigAssumption`, with any number of lines and starts.
`SameInsert` shows that the tree of `Config` is the one of `AvlProofs`. The search
by address is recursive too, and gets its equation the same way;
`SearchFinds` says that it finds a matching instance if there is one. `ConfigInv`
is that the entries of the tree are the instances, each named after its line,
that the tree has no more levels than there were lines, that no port was claimed
without a line, and that only an edited file has given credentials.

- `ConfigTypes`: `Spec => []TypeOK`; `EditedKept`: `Spec => EditedFileKept`.
- `SettingsApart` and `LastWord`: `Spec => []SettingsStayApart` and
  `Spec => []LastWordCounts`, if no section's name occurs in the endpoint of a
  camera with another address (`AddressesApart`), with any sections otherwise;
  `config_prefix` shows the hypothesis is needed. Each is
  inductive once a step is known to be one of two kinds (`EveryStep`): it reads a
  camera's setting and sets it on an instance of that camera if there is one, or
  it touches no setting at all.

`ViscaProofs` – for any controllers, datagrams and leftovers, from
`ConformingAssumption`, `DatagramAssumption` (bytes, at most a buffer of them),
`CompleteAssumption` (a conforming controller's commands have every byte
`visca.c` may look at, and its inquiries are known) and `JunkAssumption`:

- `StaleBytes`: `Spec => []StaleBytesHarmless`. The invariant is `Measured`: a
  command or an inquiry comes to be dispatched only after enough of it was seen to
  be there, by the layer's own checks (`sony_visca.c:59` and `:83`) or because the
  controller conforms. The lemmas show that the dispatchers read no further, so
  that a cleared buffer reads the same.
- `Completed`: `Spec => []CompletedWasDone`. The strengthening is that the camera
  is ahead of the completions by exactly the call in hand (`AheadInv`), which
  says when it is ahead and by which operation.
- `TypeCorrect`: `Spec => []TypeOK`; that the inbox is the end of what was sent
  needs the lemmas on suffixes.
- `SessionKept`: `Spec => Session!SessionInit /\ [][Session!SessionNext]_...`, the
  safety half of `ImplementsSession`: every step of either layer, seen through the
  histories, is a step of the abstract conversation or a stutter. `owed` and
  `acked` are defined by counting: the n-th request of a controller (`Nth`,
  `Requests`) is answered if n answers were sent. So a datagram taken in adds to
  the end of the queue, an answer takes from its front, and nothing else is
  touched; that the front is the request in hand is the invariant. From
  `SonyCompleteAssumption` for the Sony layer.
- `Echoes`: `Spec => ControlEchoes`.

`PresetProofs` – from `RangeAssumption` (a range of natural numbers below 65536,
the minimum not above the maximum) and `BoundAssumption`: `RingInductive` proves
`RingInv`, that the ring is less than a lap ahead of every save it remembers and
that the camera still stores it; `TypeCorrect`, `RecallCorrect` and `RangeKept` follow. The
strengthening is needed because `RecallReturns` says nothing of where the ring
stands, and so nothing of what the next inquiry overwrites.

`StartupProofs` – from `LastFdAssumption` (at least the thirteen descriptors the
program needs), for any number of descriptors above: `TypeCorrect`, `Detached`
(`DaemonDetached`), `Collected` (`ChildOutputCollected`) and `LogsReach`
(`LogReachesTarget`). The invariant follows the course of the processes: which of
them has forked, what each place may have open, and what the log stream is. A
descriptor is always the lowest free one, so at each step the table is known to
be free from some number on (`Room`), and there is room for the next. What
survives an `exec` is what has no close-on-exec flag; when the standard
descriptors were closed at the start, the first four that `worker_init` makes
fill them, all with that flag, and `run_command` puts the pipe over two of them.

**Checked by TLC only.** Liveness (`DatagramServed`, `ZombieReaped`,
`InterruptStops`, `LauncherReturns`, the liveness half of `ImplementsSession`),
which is beyond this prover. Every safety property of a passing run, action
properties and refinements included, is stated by a theorem.

## 5. Where the code disagrees with itself

Three runs end in a counterexample, each against a line of the source
(`PROJECT.json`, "findings"): an empty datagram closes a camera's socket and
leaves its tree entry (`worker_empty`); `create_unique_port_from_ip` is not
unique (`port_shared`); a section of the config file may configure another
camera (`config_prefix`).

Others are known and have no run of their own:

- A ring starts at 0 whatever `preset_range_min` is, so with a minimum above 1
  its first lap overwrites presets outside its range (`bridge_inquiries.c:379`).
  `RangeKept` has the hypothesis.
- Networks 192.168.0, 192.168.1 and 192.168.4 to 192.168.10, among others, have
  ports without a bit in the bitset; `CoveredExactly` lists the networks that have
  none.
- An inquiry that `dispatch_queries` does not know gets no reply, while the
  comment at `sony_visca.c:215` draws one for every inquiry.
- `handle_visca_command` of `sony_visca.c` acknowledges a command before it
  checks it: one that is too short, or is for another device, gets an ack and
  never a completion. `ImplementsSession` is about the controllers that send
  complete requests.
- The launcher of a daemon exits with success whatever became of the daemon
  (`daemonize.c:31`). A log file that cannot be opened is noticed by a crash at
  the first message (`main.c:68`); `Crash` models it.
- When a standard descriptor is closed at the start, the log file takes its
  number and `daemonize` puts `/dev/null` over it. `LogReachesTarget` and
  `DaemonDetached` have the hypothesis, so for the case that one was closed they
  say less: that a daemon has its session and directory, and that a syslog
  daemon's messages reach syslog.
- The comment at `bridge_commands.c:773` gives zoom speeds as 0 to 7; the nibble
  that reaches the function is 0 to 15.
- A short datagram is completed with bytes of an earlier one (`worker.c:200`);
  `StaleBytesHarmless` says for whom this cannot matter: on the Sony layer, which
  the program does not call today, for any datagram, and in `visca.c` for
  controllers that send complete messages.

## 6. What is not modelled

- *WS-Discovery*: its calls are commented out (`main.c:121,123`), and what is
  left are callbacks that gSOAP would make. The Sony layer, whose call is
  commented out too, is modelled as it would behave with its call put back.
- *The end of the program*: the destructors and what they free.
- *TCP and inotify handlers, `EPOLLERR`, `EPOLLRDHUP`*: no descriptor of this
  program reaches them. `epoll_handle_event` returns for an inotify event before
  its handler.
- *Failures of the kernel's own calls* other than running out of descriptors or
  processes in the event loop (`epoll_ctl`, `malloc`): each is a `die`. At
  start-up every call of `daemonize` and both sides of `run_command` may fail;
  `dup3` fails only where the source and the target are one descriptor.
- *A `sendto` that fails* (`socket.c:130`): it is logged and the caller goes on
  as if it had not, so the next steps are the same. `replies` in `Visca` is what
  was handed to the socket, and `CompletedWasDone` and `ImplementsSession` speak
  of that; whether it arrived is the network's, here as with any datagram.
- *A child that is stopped rather than ended*, which `WUNTRACED` reports to
  `waitpid` as well.
- *Log texts and the printing of buffers*; arguments that are only logged.
- *Generated and third-party code* (gSOAP, inih), credentials, snapshots.

## 7. Plan

Done: the event loop with its tables and children and its refinement of the
registry, the discovery output down to the port numbers, the AVL tree, the
presets, the VISCA conversation on both layers, the configuration, start-up; and
a theorem for every safety property the passing runs check. What is left, in
order:

1. Rings with a minimum above 1 and numbers beyond two bytes in `PresetRing`,
   as far as something in the source says what they should do.
2. `Startup` composed with `Config`: the directory a daemon looks into.
