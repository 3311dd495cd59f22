SPECIFICATION FairSpec
CONSTANTS
    servo = servo
    ecu = ecu
    old = old
    Node <- ThreeNodes
    CanNode <- ThreeNodes
    Dict <- Dicts
    Ends <- EndsOf
    Offered <- OfferedBy
    Form <- Copies
    Subscribed <- CallbacksOf
    Reaction <- EcuReacts
    Junk <- AnyJunk
    QueueCap = 3
    MaxPublish = 2
CHECK_DEADLOCK FALSE
INVARIANTS
    TypeOK
    LinkedOnce
    CallbackReadsIt
    WriterReadsLast
    CurrentWhenDrained
PROPERTIES
    OneItemAtATime
    ImplementsDissemination
    Converges
