SPECIFICATION PanelSpec
CONSTANTS
    PanelButtons = {eject, play}
    Leds = {shuffle}
    MaxMoves = 5
INVARIANTS
    LowLineIsNoticed
    MovesAreNoticed
    LedsAsSet
PROPERTIES
    ComesToRest
