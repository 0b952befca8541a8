\* Older files are refused, and archives arrive: the refusal can be got round.
CONSTANTS
    File = {1, 2, 3}
    NoFile = 0
    FileId <- MCFileId
    Faults = {}
    Archive = {10}
    Content <- OwnContent
    Date <- MCDate
    ProcessOnStartup = TRUE
    ProcessOnCompletion = TRUE
    ProcessOnTimer = FALSE
    AllowProcessingOlderFiles = FALSE
    MaxTicks = 0
    MaxRestarts = 0
SPECIFICATION FairSpec
PROPERTIES NeverOlder
CHECK_DEADLOCK FALSE
