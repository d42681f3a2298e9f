CONSTANTS
    on = on
    off = off
    ByteSpace = 4
    IndexSpace = 7
    Slots = 2
    Datum <- MCDatum
    MaxPoints = 4
SPECIFICATION Spec
INVARIANTS
    FaithfulOrRejected
    RangesAgree
CHECK_DEADLOCK FALSE
