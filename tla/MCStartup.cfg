\* Every combination of options, standard descriptors and a syslog daemon.
CONSTANTS
    LastFd = 12
SPECIFICATION Spec
INVARIANTS TypeOK DaemonDetached ChildOutputCollected LogReachesTarget
PROPERTIES LauncherReturns
CHECK_DEADLOCK FALSE
