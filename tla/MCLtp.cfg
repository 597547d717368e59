CONSTANTS
    n1 = n1
    n2 = n2
    s1 = s1
    s2 = s2
    Nid = {n1, n2}
    Sk = {s1, s2}
    ENIGMA = 2
    Loads <- ResponseLoads
    MaxFragments = 6
SPECIFICATION MCSpec
INVARIANTS
    DeliveredAsSent
    UsefulAnswer
    ScanFindsRange
PROPERTIES
    ImplementsService
    
