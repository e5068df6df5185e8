SPECIFICATION MpvSpec
CONSTANTS
    RadioStations = {s1, s2}
    None = None
    MaxCalls = 4
    MaxExits = 2
CHECK_DEADLOCK FALSE
INVARIANTS
    WriterRunsWhileNeeded
    PlaysWhatWasAsked
    TitleCatchesUp
PROPERTIES
    ComesToBeHeard
