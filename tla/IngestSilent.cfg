\* A batch handed over twice: both sources are skipped once.
CONSTANTS
    File = {1}
    NoFile = 0
    FileId <- MCFileId
    Faults = {}
    Handler = {h1, h2}
    Preemption = FALSE
    MaxCrashes = 0
    Archive = {}
    Content <- OwnContent
    Date <- MCDate
    ProcessOnStartup = FALSE
    ProcessOnCompletion = TRUE
    ProcessOnTimer = TRUE
    AllowProcessingOlderFiles = TRUE
    MaxTicks = 1
    MaxRestarts = 0
    Worker = {w1, w2}
    TidyLags = FALSE
    MaxClusterings = 4
SPECIFICATION FairSpec
PROPERTIES MergedIsAnnounced
CHECK_DEADLOCK FALSE
