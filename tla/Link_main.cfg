SPECIFICATION Spec
CONSTANTS
    m1 = m1
    m2 = m2
    c1 = c1
    c2 = c2
    c3 = c3
    NoConn = NoConn
    Machines <- OneMachine
    Conns <- TwoConns
    MaxNews = 2
    MaxQueue = 1
    Moves <- CutsAndExits
INVARIANTS OrderSurvives HomeCatchesUp
PROPERTY KeepsNames
SYMMETRY Swaps
CHECK_DEADLOCK FALSE
