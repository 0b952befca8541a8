\* Two rounds over changing data, a crash or failure anywhere, a hard link, a save.
CONSTANTS
    Node = {1, 2, 3, 4, 5, 6, 7, 8}
    NodeName <- MCNodeName
    MaxHardLinks = 1
    Certain = 4
    MaxNodeCount = 5
    Data <- RoundsData
    Networks <- RoundsNetworks
    MaxRounds = 2
    MaxFaults = 1
    MaxSaves = 1
SPECIFICATION FairSpec
INVARIANTS
    TypeOK
    ClustersAreComponents
    RescoredEdgeWins
    CompleteOrCut
    OldMembersAgree
    PrimaryBelongs
PROPERTIES
    HardLinksStay
    NewClustersAreSeparate
    PruningEnds
CHECK_DEADLOCK FALSE
