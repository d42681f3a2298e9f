CONSTANTS
    None = None
    station = station
    controller = controller
    other = other
    SeqSpace = 3
    AppSeqSpace = 3
    Address <- MCAddress
    Own = station
    Master = controller
    Style = "OutstationToMaster"
    Stray <- MCStray
    Patient = TRUE
    Contents = {"readable", "undecodable", "unencodable"}
    ResponseChunks = 2
    CountSpace = 12
    MaxUpdates = 1
    MaxFaults = 2
    MaxRestarts = 1
SPECIFICATION Spec
INVARIANTS
    TypeOK
    IInv
    NothingLeftOver
PROPERTIES
    AnswersItsPoll
    ImplementsPollService
    RecoversOrStops
CHECK_DEADLOCK FALSE
