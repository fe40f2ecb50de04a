CONSTANTS
    ByteBase = 4
    Kelvin = 2
    EventSize = 3
    Values <- MCValues
    MaxValues = 4
SPECIFICATION SensorSpec
INVARIANTS ShownAsSent BytesAccounted
CHECK_DEADLOCK FALSE
