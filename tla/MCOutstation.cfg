CONSTANTS
    None = None
    outstation = outstation
    m1 = m1
    m2 = m2
    SeqSpace = 3
    Address <- MCAddress
    Own = outstation
    Masters <- MCMasters
    Requests <- MCRequests
    ResponseChunks = 11
    CountSpace = 6
    MaxResets = 1
    MaxCollected = 2
SPECIFICATION Spec
INVARIANTS
    TypeOK
    ResetIsolation
    ResponsesNumbered
    NeverDeaf
    IInv
