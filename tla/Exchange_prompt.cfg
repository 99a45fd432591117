\* A prompt link: three commands, two attempts each.
CONSTANTS
    NumCommands = 3
    MaxAttempts = 2
    FlushFrames = 1
    LateReplies = FALSE
SPECIFICATION FairSpec
INVARIANTS TypeOK RightResponse ExecutedIfAccepted
PROPERTIES ImplementsRemoteCall HandlingEnds
CHECK_DEADLOCK FALSE
