CONSTANTS
    None = None
    station = station
    controller = controller
    SeqSpace = 3
    AppSeqSpace = 3
    Address <- MCAddress
    Own = station
    Master = controller
    Style = "OutstationToMaster"
    IdleCloses = TRUE
    Contents = {"readable"}
    ResponseChunks = 2
    CountSpace = 12
    MaxUpdates = 1
    MaxFaults = 0
SPECIFICATION Spec
PROPERTY PollsContinuously
