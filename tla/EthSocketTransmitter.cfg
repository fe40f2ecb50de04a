CONSTANTS
    ByteBase = 4
    MinFrameSize = 2
    BufferSize = 5
    BusFrames <- MCBusFrames
    MaxDeliveries = 3
    Window = 6
SPECIFICATION FairSpec
INVARIANTS TypeOK GuestGetsPrefix BytesConserved
PROPERTIES RelaySpec HandlerReturns
CHECK_DEADLOCK FALSE
