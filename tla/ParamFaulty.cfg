SPECIFICATION FairSpec
CONSTANTS
    host = host
    servo = servo
    srv = srv
    cli = cli
    cli2 = cli2
    cli3 = cli3
    v0 = v0
    v1 = v1
    Node <- TwoNodes
    CanNode <- TwoNodes
    Server <- OneServer
    Client <- OneClient
    Host <- HostOfPair
    Address <- AddressOfPair
    BoundTo <- BoundPair
    Value <- InitOnly
    InitValue = v0
    DefaultFormat = "CANExtended"
    LocalValue <- NoValue
    Dict <- SameDictOne
    Index <- JustZero
    MaxReq = 2
    RetryMax = 1
    LoopCap = 0
    PoolCap = 10
    Faults <- LoseAndDup
    QueueCap = 3
    LoopLocked = FALSE
    Prompt = FALSE
    Pipelined = FALSE
INVARIANTS
    TypeOK
    CallbackOnce
    RetryBudget
PROPERTIES
    AppliedInIssueOrder
    EveryRequestAnswered
