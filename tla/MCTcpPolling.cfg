CONSTANTS
    None = None
    station = station
    controller = controller
    SeqSpace = 3
    AppSeqSpace = 3
    Address <- MCAddress
    Own = station
    Master = controller
    Style = "OutstationToMaster"
    IdleCloses = FALSE
    Contents = {"readable", "undecodable", "unencodable"}
    ResponseChunks = 2
    CountSpace = 12
    MaxUpdates = 1
    MaxFaults = 3
SPECIFICATION Spec
INVARIANTS
    TypeOK
    IInv
PROPERTIES
    AnswersItsPoll
    ImplementsPollService
    Recovers
