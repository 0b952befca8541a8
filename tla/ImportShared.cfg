\* Any messages, rows and clearings; staging may fail, handlers overtake each other.
CONSTANTS
    File = {f1, f2}
    NoFile = nofile
    FileId <- MCFileId
    Faults = {"stage"}
    Handler = {h1, h2}
    Preemption = TRUE
    MaxCrashes = 0
    MaxInbox = 1
    MaxRows = 1
    Recorded = {"delius"}
    MaxAnnounced = 1
SPECIFICATION Spec
SYMMETRY Interchangeable
INVARIANTS ImportTypeOK Exclusive Correlated StagedByHolder MergesDontMix
CHECK_DEADLOCK FALSE
