\* Discovery only (no configured camera), with empty datagrams and an interrupt,
\* and one descriptor short of two pipes and two sockets at once.
CONSTANTS
    c1 = c1
    c2 = c2
    c3 = c3
    p1 = p1
    p2 = p2
    e1 = e1
    e2 = e2
    e3 = e3
    sigev = sigev
    timev = timev
    NoEvent = NoEvent
    NoPid = NoPid
    NoPort = NoPort
    NoFd = NoFd
    NoCamera = NoCamera
    Fd <- MCFd3
    SignalFd = 8
    TimerFd = 9
    Event <- MCEvent3
    SignalEvent <- sigev
    TimerEvent <- timev
    Pid = {1, 2}
    Camera = {c1, c2}
    Port = {p1, p2}
    PortOf <- MCPortOf2
    Configured <- NoConfig
    Outputs <- ShortOutputs
    Datagram = {"visca", "empty"}
    ReadMax = 2
    OutputLimit = 2
    MaxTicks = 1
    MaxDatagrams = 1
    MayInterrupt = TRUE
SPECIFICATION Spec
CHECK_DEADLOCK FALSE
SYMMETRY MCSymmetry
INVARIANTS TypeOK NoSharedPort EventsLive LookupDefined ChildrenAccounted DescriptorLeft IInv ChildInv
PROPERTIES OutputReadBeforeReap DiscoveryStaysOff
