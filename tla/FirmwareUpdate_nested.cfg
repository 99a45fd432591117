\* Two firmware dialogs, the second opened by the handler of a connect task.
CONSTANTS
    Images = {"old", "new"}
    NoImage = "none"
    Depth = 2
    NumRecords = 1
    MaxAttempts = 1
    Capacity = 1
    LateReplies = FALSE
    MaxTasks = 0
    MaxModals = 3
    MaxClicks = 3
    MaxMishaps = 0
SPECIFICATION Spec
INVARIANT BootsWholeImage
CHECK_DEADLOCK FALSE
