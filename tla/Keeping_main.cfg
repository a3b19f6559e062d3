SPECIFICATION SumSpec
CONSTANTS
    MaxOwed = 2
    MaxWire = 2
    MaxCommands = 2
    MaxFaults = 1
    Person = {a, b}
    None = None
    MaxLogins = 2
    MaxCodes = 2
    MaxLogouts = 1
    MaxRestarts = 1
    MaxWindow = 2
    MaxProbes = 3
    MaxFailures = 1
    Options = 2
    Asks <- Forms
    Levels = {1, 2}
    ModeCycle = 3
    Retries = 1
    MaxJobs = 3
    MaxEvents = 2
    Keys = {"routes", "machines"}
    Skipped = {"machines"}
    Editors = {e1, e2}
    Nobody = Nobody
    MaxChanges = 3
    MaxFails = 1
    Thread = {c1}
    Dm = {}
    LoopLimit = 1
    DedupCap = 2
    MaxPosts = 3
    MaxLate = 1
    MaxWaiting = 1
    MaxDowns = 1
    Channel = {c}
    Writer = {p, q}
    Topic <- Topics
    Machines = {m}
    Gateway = g
    Nothing = Nothing
    MaxSeen = 4
    MaxBreaks = 1
INVARIANTS PresenceIsTrue OwnerIsWhoSignedIn GateFollowsTheWalls KeysLandWhereMeant SettingsHold GateHolds FrontHolds
PROPERTIES WorkingEnds SeatUsable 
CHECK_DEADLOCK FALSE
