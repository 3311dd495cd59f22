SPECIFICATION Spec
CONSTANTS
    Item <- Gains
    ItemSize = 2
    MaxStore = 3
INVARIANTS
    TypeOK
    WrittenOnlyWhileOpen
    ReadRegular
    TornReadHasCause
