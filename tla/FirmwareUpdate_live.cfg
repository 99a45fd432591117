\* Fairness: one image is enough, what is written where is the other run's.
CONSTANTS
    Images = {"new"}
    NoImage = "none"
    Depth = 1
    NumRecords = 1
    MaxAttempts = 2
    Capacity = 1
    LateReplies = FALSE
    MaxTasks = 1
    MaxModals = 2
    MaxClicks = 2
    MaxMishaps = 1
SPECIFICATION FairSpec
PROPERTIES UpdateEnds ConnectReturnsUnlessDeclined
CHECK_DEADLOCK FALSE
