CONSTANTS
    Node = {1, 2, 3, 4, 5}
    Bit <- Bits
    Link <- Net
    iLID <- Internal
    Packet <- Packets
    source <- Sources
    fidOf <- FIDs
    MaxPublished = 2
SPECIFICATION FairSpec
INVARIANTS FramesSound RightlyDelivered
PROPERTIES DeliveredAndGone
CHECK_DEADLOCK FALSE
