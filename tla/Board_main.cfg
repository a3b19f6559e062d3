SPECIFICATION FairSpec
CONSTANTS
    t1 = t1
    t2 = t2
    None = None
    Tool <- OneTool
    MaxRounds = 2
    MaxRows = 2
    MaxCalls = 2
    MaxFaults = 1
INVARIANT RoundsShownTrue
PROPERTY Drawn
CHECK_DEADLOCK FALSE
