CONSTANTS
    MaxEvents = 3
    ReadLimit = 2
    MaxReconnects = 1
    MaxFaults = 0
SPECIFICATION FairSpec
PROPERTIES ClientCompletes
CHECK_DEADLOCK FALSE
