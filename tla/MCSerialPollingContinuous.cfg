CONSTANTS
    None = None
    station = station
    controller = controller
    other = other
    SeqSpace = 3
    AppSeqSpace = 3
    Address <- MCAddress
    Own = station
    Master = controller
    Style = "OutstationToMaster"
    Stray <- MCStray
    Patient = TRUE
    Contents = {"readable"}
    ResponseChunks = 2
    CountSpace = 12
    MaxUpdates = 1
    MaxFaults = 1
    MaxRestarts = 0
SPECIFICATION Spec
PROPERTY PollsContinuously
CHECK_DEADLOCK FALSE
