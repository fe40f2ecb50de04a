CONSTANTS
    Sockets = {s1, s2}
    NoSocket = NoSocket
    CommandLines <- MCCommandLines
SPECIFICATION FairSpec
INVARIANTS TypeOK NoUseAfterDestroy StartedOnlyComplete SuccessIsClean ExitCodeOfFirstMistake ClashingNameIsGiven
PROPERTIES BrokenSocketEndsProcess InterruptEndsProcess
CHECK_DEADLOCK FALSE
