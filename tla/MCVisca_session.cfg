\* One controller sends complete messages, the other anything; three in all, on
\* either layer.
CONSTANTS
    c1 = c1
    c2 = c2
    Client <- Controllers
    Conforming <- Patient
    WellFormed <- Everyday
    Malformed <- Odd
    Junk = {0, 1}
    MaxDatagrams = 3
SPECIFICATION Spec
INVARIANTS TypeOK CompletedWasDone StaleBytesHarmless
PROPERTIES ControlEchoes ImplementsSession
CHECK_DEADLOCK FALSE
