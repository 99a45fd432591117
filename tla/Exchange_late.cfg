\* A link that may deliver a response after the host has given up waiting.
CONSTANTS
    NumCommands = 3
    MaxAttempts = 2
    FlushFrames = 1
    LateReplies = TRUE
SPECIFICATION Spec
INVARIANTS AnswersKeepOrder StaleNeedsTimeout
PROPERTY DeviceKeepsOrder
CHECK_DEADLOCK FALSE
