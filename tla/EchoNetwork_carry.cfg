CONSTANTS
    ByteBase = 256
    Devices <- MCOneDevice
    Guest <- MCGuest
    Pings <- MCCarryingPings
    OtherFrames = {}
    MaxOthers = 0
    Broadcast = "ff"
    PaddedSize = 46
SPECIFICATION FairSpec
PROPERTY PingAnswered
CHECK_DEADLOCK FALSE
