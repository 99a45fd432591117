\* One firmware dialog at a time, on a prompt link.
CONSTANTS
    Images = {old, new}
    NoImage = none
    Depth = 1
    NumRecords = 2
    MaxAttempts = 2
    Capacity = 1
    LateReplies = FALSE
    MaxTasks = 1
    MaxModals = 2
    MaxClicks = 3
    MaxMishaps = 1
SPECIFICATION Spec
SYMMETRY ImageSymmetry
INVARIANTS TypeOK BootsWholeImage ErasedStaysInBootloader SuccessMeansNew
CHECK_DEADLOCK FALSE
