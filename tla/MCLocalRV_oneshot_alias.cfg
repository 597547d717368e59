CONSTANTS
    Node = {"n1", "n2"}
    LocalProxy = "n1"
    Fragment = {"a", "b", "c", "d", "e", "k"}
    ScopeObj <- Scopes
    ItemObj <- Items
    NoScope = NoScope
    KnownRoots = {"a", "b"}
    Requests <- AllRequests
SPECIFICATION MCSpec
INVARIANTS OneShot
CHECK_DEADLOCK FALSE
