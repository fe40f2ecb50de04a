CONSTANTS
    ByteBase = 4
    MinFrameSize = 2
    BufferSize = 5
    GuestFrames <- MCGuestFrames
    MaxFrames = 3
SPECIFICATION FairSpec
INVARIANTS TypeOK NoBufferOverrun RelayedInOrder DamageConfined ShutdownJustified
PROPERTIES RelaySpec EveryFrameRelayed LostPeerStopsAdapter
CHECK_DEADLOCK FALSE
