CONSTANTS
    InputSize = 5
    OutputSize = 5
    TextLengths <- MCTextLengths
    MaxReceived = 8
    MaxEvent = 3
SPECIFICATION Spec
INVARIANTS TypeOK NothingLostInMoving StoredLinesShown
PROPERTY FullForEver
CHECK_DEADLOCK FALSE
