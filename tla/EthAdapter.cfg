CONSTANTS
    ByteBase = 4
    MinFrameSize = 2
    BufferSize = 2
    Frames <- MCFrames
    MaxFrames = 3
    Window = 4
    AnswerWindow = 7
SPECIFICATION FairSpec
INVARIANT AnswersInOrder
PROPERTIES ServesBothDirections EveryFrameAnswered HandlerStrandedInCircleOnly
CHECK_DEADLOCK FALSE
