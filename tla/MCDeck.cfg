SPECIFICATION DeckSpec
CONSTANTS
    NumStations = 1
    Remembered <- MCRemembered
    Tracks = {}
    NoTrack = NoTrack
    Positions <- MCPositions
    Titles = {}
    NoTitle = NoTitle
    DeckButtons = {"Play", "Pause"}
    MaxRequests = 3
    MaxEvents = 4
    MaxPhoneActs = 3
    MaxFailures = 1
INVARIANTS
    PictureCatchesUp
    OneSourceHeard
PROPERTIES
    ResumesLiveSession
    OverlapEnds
