\* Timer ticks and a restart fall anywhere, in the middle of a batch too.
CONSTANTS
    File = {1, 2}
    NoFile = 0
    FileId <- MCFileId
    Faults = {"clear"}
    Archive = {10}
    Content <- OwnContent
    Date <- MCDate
    ProcessOnStartup = FALSE
    ProcessOnCompletion = TRUE
    ProcessOnTimer = TRUE
    AllowProcessingOlderFiles = TRUE
    MaxTicks = 1
    MaxRestarts = 1
SPECIFICATION FairSpec
INVARIANTS
    FileSyncTypeOK
PROPERTIES CycleEnds Drains
CHECK_DEADLOCK FALSE
