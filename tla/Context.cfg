SPECIFICATION FairSpec
CONSTANTS
    Servers <- ServersMade
    Clients <- ClientsBound
    Channel = {1, 2}
    Frame <- Frames
    ItemSize = 2
    MAX_LOCAL_NODE_NUM = 2
    MaxBind = 2
    MaxFrame = 2
CHECK_DEADLOCK FALSE
INVARIANTS
    TypeOK
    OneInstancePerAddress
    HandledOnce
    NothingHalfDone
    ReadRegular
    WholeWhenAlone
PROPERTIES
    DestructorReturns
    EveryRequestHandled
