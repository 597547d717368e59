SPECIFICATION MCSpec
CONSTANTS
    Nap = {1, 2}
    Conn = {1, 2}
    Fd = {1, 2}
    ServerFd = {1, 2}
    Resource = {1, 2}
    ENIGMA = 1
    Scripts <- MCScripts
    Bit <- MCBit
    Mask <- MCMask
    Uint <- MCUint
    Configs <- MCConfigs
    Packet <- MCPacket
    Dst <- MCDst
    Size <- MCSize
    MaxPayload = 2
    MaxIpPayload = 2
    SetupNap = {1, 2, 3}
    Deployments <- MCDeployments
    Captured <- MCCaptured
    SurrogateOf <- MCSurrogateOf
    WebOf <- MCWebOf
    HASH = 65536
    CoapRequests <- MCCoapRequests
    MaxCoapRequests = 3
    AcPublisher = {"p"}
    AcSubscriber = {"s", "u"}
    AcPassword <- MCAcPassword
    MAX_PACKET = 5
    JavaPlans <- MCJavaPlans
    JavaEvents <- MCJavaEvents
    Caller = {"a", "worker"}
    Plans <- MCPlans
    OVERFLOW = 2
INVARIANTS
     LongestPrefix PacketsIntact PacketsGoHome
     OnlyMatched EventsOwned AsMade SelectorAwake
CHECK_DEADLOCK FALSE
