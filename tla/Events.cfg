CONSTANTS
    MaxEvents = 4
    ReadLimit = 2
    MaxReconnects = 1
    MaxFaults = 2
SPECIFICATION FairSpec
INVARIANTS MissedOnlyByMirror NothingLeftBehind
PROPERTIES StreamEnds EventsArrive
CHECK_DEADLOCK FALSE
