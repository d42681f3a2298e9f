CONSTANTS
    None = None
    SeqSpace = 64
    Address = {}
    BlockSize = 2
    Payloads <- MCPayloads
    Glitches = {0, 5, 20, 100}
    MaxSent = 3
    MaxFaults = 2
SPECIFICATION Spec
INVARIANTS
    TypeOK
    NothingInvented
    InStep
CHECK_DEADLOCK FALSE
