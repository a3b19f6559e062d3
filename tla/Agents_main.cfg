SPECIFICATION FairSpec
CONSTANTS
    s1 = s1
    s2 = s2
    s3 = s3
    None = None
    Unknown = Unknown
    Thread = {1}
    Cwd = {c}
    CwdOf <- SameFolder
    Missing = {}
    Sid <- ThreeSids
    IdleSlots = 0
    MaxLive = 1
    MaxFaults = 1
    MaxWindows = 2
    Prompts = {"permission"}
    Moves = {"exit", "kill", "husk", "restart", "shutdown", "corrupt", "settings", "limit", "logout", "delete"}
INVARIANT OwnedOnce
PROPERTIES KeptAndSpared TidiesUp
