SPECIFICATION Spec
CONSTANTS
    MaxTimers = 3
    Delays <- MCDelays
    MaxTime = 4
PROPERTIES
    Promise
