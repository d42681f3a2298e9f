\* Bursts of up to SeqSpace - 1 lost segments: the most the sequence numbers
\* can tell from an uninterrupted stream.
CONSTANTS
    None = None
    SeqSpace = 3
    Lengths <- MCLengths
    MaxMessages = 4
    MaxBurst = 2
    MaxDuplicates = 2
SPECIFICATION Spec
INVARIANTS
    TypeOK
    NoSplice
    FullInv
PROPERTIES
    IntactDelivered
    ImplementsLossyChannel
