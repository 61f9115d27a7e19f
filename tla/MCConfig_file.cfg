\* Files of up to five lines about two cameras, neither address a part of the
\* other, on three ports.
CONSTANTS
    Address = {"192.168.1.2", "192.168.1.30"}
    Section = {"192.168.1.2", "192.168.1.30"}
    Contained <- Nothing
    Port = {9002, 9003, 9004}
    Setting = {"profile_idx"}
    Value = {1, 2}
    Default = 0
    MaxLines = 5
    MaxStarts = 2
    FirstContents <- NoneOrHome
SPECIFICATION Spec
CHECK_DEADLOCK FALSE
INVARIANTS TypeOK SettingsStayApart LastWordCounts
PROPERTY EditedFileKept
