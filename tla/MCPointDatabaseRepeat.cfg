CONSTANTS
    None = None
    on = on
    off = off
    ByteSpace = 3
    IndexSpace = 4
    Group <- MCGroup
    Datum = {on, off}
    DefaultDatum = on
    CommandLines <- MCRepeated
    Tasks = {t1, t2}
    MaxCommands = 2
SPECIFICATION Spec
PROPERTY ShowsWhatWasConfirmed
CHECK_DEADLOCK FALSE
