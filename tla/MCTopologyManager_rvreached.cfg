CONSTANTS
    Node = {1, 2, 3, 4}
    Bit <- Bits
    LID <- LinkIDs
    iLID <- NodeIDs
    TM = 1
    RV = 3
    Conf <- Confs
    Tie = {"first", "last"}
    shortestPath <- Igraph
    Reports <- AllReports
    Requests <- SomeRequests
SPECIFICATION Spec
INVARIANT RVReached
CHECK_DEADLOCK FALSE
