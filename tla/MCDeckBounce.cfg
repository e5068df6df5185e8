SPECIFICATION BounceSpec
CONSTANTS
    NumStations = 1
    Remembered <- MCRemembered
    Tracks = {}
    NoTrack = NoTrack
    Positions <- MCPositions
    Titles = {}
    NoTitle = NoTitle
    DeckButtons = {"Play", "Pause"}
    MaxRequests = 3
    MaxEvents = 3
    MaxPhoneActs = 1
    MaxFailures = 0
PROPERTIES
    NoBounceBack
