SPECIFICATION Spec
CONSTANTS
    ServiceInput <- AnyServiceInput
    FastInput <- EdgeFastInput
CHECK_DEADLOCK FALSE
INVARIANTS
    ServiceRoundTrip
    FastRoundTrip
    OneContextTakesIt
    DumpFits
