SPECIFICATION StartupSpec
CONSTANTS
    SavedStations <- MCSavedStations
    None = None
    Torn = Torn
    NotWhole = NotWhole
    Unusable = Unusable
    Marked <- MCMarked
    MaxCuts = 2
    Half = 8192
    Edits <- MCEdits
INVARIANTS
    FilesDecide
PROPERTIES
    RadioComesBack
    MemoryPromise
