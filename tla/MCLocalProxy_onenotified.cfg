CONSTANTS
    Host = {1, 2, 3}
    Fragment = {"a", "b", "i", "path"}
    MaxDepth = 2
    Bit = {"l", "m", "r", "r2", "t"}
    NoFID = NoFID
    NodeID = {"x"}
    IsRV = FALSE
    DefaultRV <- RV1
    DefaultTM <- TM1
    pathMgmtIID <- PathID
    Inputs <- AllInputs
SPECIFICATION MCSpec
INVARIANT OnlyOneNotified
CHECK_DEADLOCK FALSE
