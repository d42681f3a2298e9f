CONSTANTS
    None = None
    on = on
    off = off
    ByteSpace = 3
    IndexSpace = 4
    Group <- MCGroup
    Datum = {on, off}
    DefaultDatum = on
    CommandLines <- MCCommandLines
    Tasks = {t1, t2}
    MaxCommands = 2
SPECIFICATION Spec
INVARIANTS
    TypeOK
    IInv
PROPERTIES
    AnswerIsSnapshot
    ShowsWhatWasConfirmed
    OnlyNewIndicesSilence
    CommandsFinish
CHECK_DEADLOCK FALSE
