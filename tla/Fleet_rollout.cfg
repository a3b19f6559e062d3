SPECIFICATION FairSpec
CONSTANTS
    g = g
    a = a
    b = b
    x = x
    y = y
    None = None
    Me = g
    Box <- Three
    Fresh <- OneFresh
    Rank <- RankThree
    Version <- Versions
    Target <- ToTwo
    Old <- OnlyB
    Strangers <- OnlyB
    MaxUpdates = 1
    MaxRenames = 0
    MaxFaults = 1
    Faults <- Breakdowns
INVARIANT RolloutIsTrue
PROPERTIES GoesOneByOne RolloutEnds
CHECK_DEADLOCK FALSE
