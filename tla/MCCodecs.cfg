CONSTANTS
    None = None
    SeqSpace = 64
    Address = {}
    BlockSize = 2
    ByteSpace = 256
    IndexSpace = 65536
    Alphabet = {0, 100, 255}
    Damage = {1, 128, 255}
    MaxPayload = 3
    Functions = {"Read", "Response"}
    Objects <- MCObjects
    MaxObjects = 2
    MaxPadding = 2
SPECIFICATION Building
INVARIANTS
    FramesRoundTrip
    DamageNoticed
    CrcIsRemainder
    FragmentsRoundTrip
    CutNeverInvents
    PaddingSkipped
    EventsReadAlike
CHECK_DEADLOCK FALSE
