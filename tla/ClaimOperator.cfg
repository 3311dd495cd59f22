SPECIFICATION Spec
CONSTANTS
    servo = servo
    ecu = ecu
    old = old
    Node <- NodeNodes
    CanNode <- NodeNodes
    Dict <- Dicts
    Ends <- NodeEnds
    Offered <- NodeOffers
    Form <- ByCall
    Subscribed <- NoCallbacks
    Reaction <- NoReaction
    Junk <- AnyJunk
    QueueCap = 2
    MaxPublish = 2
CHECK_DEADLOCK FALSE
INVARIANT PublishedLocally
