SPECIFICATION MoveFairSpec
CONSTANTS
    None = None
    Machine = {g, a, b}
    Gateway = g
    Slices = 2
    MaxPosts = 2
    MaxMoves = 2
    MaxFaults = 1
INVARIANTS WellKept OneAgent
PROPERTIES InOnePlace MovesEnd
CHECK_DEADLOCK FALSE
