\* Import or DbInteractions stops once and is started again; rows cannot always be
\* written, and both files share a primary key.
CONSTANTS
    File = {1, 2}
    NoFile = 0
    FileId <- SharedId
    Faults = {"merge", "create"}
    Handler = {h1, h2}
    Preemption = FALSE
    MaxCrashes = 1
    Archive = {}
    Content <- OwnContent
    Date <- MCDate
    ProcessOnStartup = TRUE
    ProcessOnCompletion = TRUE
    ProcessOnTimer = FALSE
    AllowProcessingOlderFiles = FALSE
    MaxTicks = 0
    MaxRestarts = 0
    Worker = {w1, w2}
    TidyLags = FALSE
    MaxClusterings = 2
SPECIFICATION Spec
SYMMETRY Interchangeable
PROPERTIES
    MergeSeesItsFile
    NeverOlder
    NeverHandedOverTwice
CHECK_DEADLOCK FALSE
