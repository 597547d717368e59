CONSTANTS
    Node = {"n1", "n2"}
    LocalProxy = "n1"
    Fragment = {"a", "b", "c", "d", "e", "k"}
    ScopeObj <- Scopes
    ItemObj <- Items
    NoScope = NoScope
    KnownRoots = {"k"}
    Requests <- AllRequests
SPECIFICATION MCSpec
INVARIANTS StoreConsistent OneShot LinkIsRecursion
PROPERTIES RegistrationsKept ChangesAnnounced
