\* The scheduling questions: one tick, one datagram, short outputs, an interrupt.
CONSTANTS
    c1 = c1
    c2 = c2
    c3 = c3
    p1 = p1
    p2 = p2
    e1 = e1
    e2 = e2
    e3 = e3
    sigev = sigev
    timev = timev
    NoEvent = NoEvent
    NoPid = NoPid
    NoPort = NoPort
    NoFd = NoFd
    NoCamera = NoCamera
    Fd <- MCFd3
    SignalFd = 8
    TimerFd = 9
    Event <- MCEvent2
    SignalEvent <- sigev
    TimerEvent <- timev
    Pid = {1}
    Camera = {c1, c2}
    Port = {p1, p2}
    PortOf <- MCPortOf2
    Configured <- NoConfig
    Outputs <- OneOutput
    Datagram = {"visca"}
    ReadMax = 2
    OutputLimit = 2
    MaxTicks = 1
    MaxDatagrams = 2
    MayInterrupt = TRUE
SPECIFICATION FairSpec
CHECK_DEADLOCK FALSE
PROPERTIES DatagramServed ZombieReaped InterruptStops
