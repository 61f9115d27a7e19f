\* Two discoveries over five cameras in three networks, until a camera has a
\* port outside the bitset; buffers short enough to be filled and extended.
CONSTANTS
    Address <- Neighbours
    Outputs <- NeighbourOutputs
    InitialLength = 4
    ExtendLength = 8
    ReadLength = 16
    OutputLimit = 35
    MaxCommands = 2
SPECIFICATION OutputSpec
CHECK_DEADLOCK FALSE
INVARIANTS OutputTypeOK EachCameraItsSocket OutputWhole
PROPERTIES EveryLineAdded ImplementsPortAssignment
