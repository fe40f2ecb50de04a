CONSTANTS
    ByteBase = 4
    MinFrameSize = 2
    BufferSize = 5
    GuestFrames <- MCGuestFrames
    MaxFrames = 3
SPECIFICATION FairSpec
PROPERTY NothingRelayedOnceClosed
CHECK_DEADLOCK FALSE
