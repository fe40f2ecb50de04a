CONSTANTS
    ByteBase = 4
    Kelvin = 2
    EventSize = 3
    Values <- MCSmallValues
    MaxValues = 4
SPECIFICATION SensorSpec
INVARIANT OnlySentShown
CHECK_DEADLOCK FALSE
