SPECIFICATION Spec
CONSTANTS
    host = host
    servo = servo
    srv = srv
    cli = cli
    cli2 = cli2
    cli3 = cli3
    v0 = v0
    v1 = v1
    Node <- TwoNodes
    CanNode <- TwoNodes
    Server <- OneServer
    Client <- OneClient
    Host <- HostOfPair
    Address <- AddressOfPair
    BoundTo <- BoundPair
    Value <- InitOnly
    InitValue = v0
    DefaultFormat = "CANExtended"
    LocalValue <- NoValue
    Dict <- DictsDiffer
    Index <- ZeroToThree
    MaxReq = 1
    RetryMax = 1
    LoopCap = 0
    PoolCap = 10
    Faults <- NoFaults
    QueueCap = 4
    LoopLocked = TRUE
    Prompt = TRUE
    Pipelined = FALSE
INVARIANT InputNeverCrashes
