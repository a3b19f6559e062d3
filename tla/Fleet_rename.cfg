SPECIFICATION FairSpec
CONSTANTS
    g = g
    a = a
    b = b
    x = x
    y = y
    None = None
    Me = g
    Box <- Three
    Fresh <- OneFresh
    Rank <- RankThree
    Version <- OneVersion
    Target <- OneVersion
    Old <- Nobody
    Strangers <- Nobody
    MaxUpdates = 0
    MaxRenames = 1
    MaxFaults = 2
    Faults <- AllButCrash
INVARIANT OneName
PROPERTY ServedAgain
CHECK_DEADLOCK FALSE
