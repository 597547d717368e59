SPECIFICATION MCSpec
CONSTANTS
    Port = {"api", "mgm"}
    Process = {"p", "q"}
    MaxSent <- MCMaxSent
    BitVec = {"a", "b"}
    WORD = 2
    BitSizes = {1, 3, 4, 5}
    MaxOps = 4
    Writes <- MCWrites
    MaxSize = 3
    Monitor = {1, 2}
    LinksOf <- MCLinksOf
    LIDBits <- MCLIDBits
    ConfPrios <- MCConfPrios
    QueueLens = {300}
    Item = {1}
    MetaPrios = {15}
    EXPIRATION_TIME = 1
    MaxClock = 3
    TeNode = {"a", "b", "c"}
    TeEdges <- MCTeEdges
    TeRequests <- MCTeRequests
    MaxRounds = 2
    MaxCounted = 9
    RsNode = {1, 2, 3, 4}
    RsLinks <- MCRsLinks
    Native <- MCNative
    OverICN <- MCOverICN
    MaxChanges = 2
    App = {"tm", "nap"}
    HASH = 65536
    DataPoints = {"topology", "CMC_GROUP_SIZE", "LATENCY"}
    Scenarios <- MCScenarios
    NapNode = 3
    Fqdn = {"f"}
    MaxRequests = 1
    MaxTurns = 2
    Bit = {1, 2, 3, 4, 5, 6, 7, 8, 9, 10, 11, 12, 13, 14}
    IsLabel <- MCIsLabel
    IsAddress <- MCIsAddress
    ADD <- MCADD
    DELETE <- MCDELETE
    Networks <- MCNetworks
    NodeRequests <- MCNodeRequests
    MaxNodeRequests = 3
    BITS = 16
    SdnSwitch = {"s1", "s2"}
    SdnHost = {"tm", "h"}
    TmHost = "tm"
    TmSwitch = "s1"
    SdnPorts <- MCSdnPorts
    SdnEvents <- MCSdnEvents
    SdnQueries <- MCSdnQueries
    SdnScripts <- MCSdnScripts
    SimApp = {"p", "q"}
    SimPid = {1, 2}
    SimCalls <- MCSimCalls
    SimNode = {1, 2, 3, 4}
    SimTM = 1
    SimEdge <- MCSimEdge
    SimCable <- MCSimCable
    SimRequests <- MCSimRequests
    MaxSim = 4
INVARIANTS
    NothingStranded BitsAsMeant  QoSPathsCurrent 
    BrokenPathsReplaced    SimDelivers
CHECK_DEADLOCK FALSE
