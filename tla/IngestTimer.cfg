\* A tick falls into a batch under way; handlers overtake each other.
CONSTANTS
    File = {1}
    NoFile = 0
    FileId <- MCFileId
    Faults = {}
    Handler = {h1, h2}
    Preemption = TRUE
    MaxCrashes = 0
    Archive = {}
    Content <- OwnContent
    Date <- MCDate
    ProcessOnStartup = FALSE
    ProcessOnCompletion = FALSE
    ProcessOnTimer = TRUE
    AllowProcessingOlderFiles = TRUE
    MaxTicks = 1
    MaxRestarts = 0
    Worker = {w1, w2}
    TidyLags = FALSE
    MaxClusterings = 4
SPECIFICATION FairSpec
PROPERTIES SemaphoresReturn
CHECK_DEADLOCK FALSE
