\* A camera whose address begins with the address of another one.
CONSTANTS
    Address = {"192.168.1.2", "192.168.1.20"}
    Section = {"192.168.1.2", "192.168.1.20"}
    Contained <- Beginning
    Port = {9002, 9020}
    Setting = {"profile_idx"}
    Value = {1}
    Default = 0
    MaxLines = 3
    MaxStarts = 1
    FirstContents <- OneFile
SPECIFICATION Spec
CHECK_DEADLOCK FALSE
INVARIANT SettingsStayApart
