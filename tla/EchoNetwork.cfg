CONSTANTS
    ByteBase = 256
    Devices <- MCDevices
    Guest <- MCGuest
    Pings <- MCPings
    OtherFrames <- MCOtherFrames
    MaxOthers = 1
    Broadcast = "ff"
    PaddedSize = 46
SPECIFICATION FairSpec
INVARIANTS OneReplyPerRequest RepliesReadable ArpCacheTruthful
PROPERTY PingAnswered
CHECK_DEADLOCK FALSE
