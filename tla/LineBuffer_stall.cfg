CONSTANTS
    InputSize = 5
    OutputSize = 5
    TextLengths <- MCTextLengths
    MaxReceived = 8
    MaxEvent = 3
SPECIFICATION Spec
INVARIANT EveryLineShown
CHECK_DEADLOCK FALSE
