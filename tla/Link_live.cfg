SPECIFICATION FairSpec
CONSTANTS
    m1 = m1
    m2 = m2
    c1 = c1
    c2 = c2
    c3 = c3
    NoConn = NoConn
    Machines <- OneMachine
    Conns <- TwoConns
    MaxNews = 0
    MaxQueue = 1
    Moves <- AllMoves
PROPERTY LinksRenewed
CHECK_DEADLOCK FALSE
