\* A path of five records is cut up.
CONSTANTS
    Node = {1, 2, 3, 4, 5, 6, 7}
    NodeName <- MCNodeName
    MaxHardLinks = 0
    Certain = 4
    MaxNodeCount = 5
    Data <- PathData
    Networks <- NoNetworks
    MaxSaves = 0
    MaxRounds = 1
    MaxFaults = 0
SPECIFICATION Spec
INVARIANTS
    SubgraphsAreComplete
CHECK_DEADLOCK FALSE
