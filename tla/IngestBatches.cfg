\* Cycles started at start-up and by completions; nothing fails.
CONSTANTS
    File = {1, 2}
    NoFile = 0
    FileId <- MCFileId
    Faults = {}
    Handler = {h1, h2}
    Preemption = FALSE
    MaxCrashes = 0
    Archive = {10}
    Content <- OwnContent
    Date <- MCDate
    ProcessOnStartup = TRUE
    ProcessOnCompletion = TRUE
    ProcessOnTimer = FALSE
    AllowProcessingOlderFiles = TRUE
    MaxTicks = 0
    MaxRestarts = 0
    Worker = {w1, w2}
    TidyLags = FALSE
    MaxClusterings = 4
SPECIFICATION FairSpec
INVARIANTS
    TypeOK
PROPERTIES
    KeepsBatches
    HandedOverIsMerged
CHECK_DEADLOCK FALSE
