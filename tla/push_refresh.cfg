SPECIFICATION FairSpec
CONSTANTS
    Kinds <- QueueKinds
    Lists <- AllLists
    Deliveries <- Frames
    Idle = Idle
INVARIANTS TypeOK Coalesced NoDeliveryLost
PROPERTY Reread
