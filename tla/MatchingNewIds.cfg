\* Two clusters become one while a record is new.
CONSTANTS
    Node = {1, 4, 7}
    NodeName <- MCNodeName
    MaxHardLinks = 0
    Certain = 4
    MaxNodeCount = 3
    Data <- NewcomerData
    Networks <- NoNetworks
    MaxSaves = 0
    MaxRounds = 2
    MaxFaults = 0
SPECIFICATION Spec
PROPERTIES
    NewIdsAreNew
CHECK_DEADLOCK FALSE
