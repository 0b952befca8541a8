\* A cluster of three records, an empty one to be had, two edits, a round and a late save.
CONSTANTS
    r1 = r1
    r2 = r2
    r3 = r3
    r4 = r4
    Record = {r1, r2, r3}
    UPCI = {1, 2}
    Probability = {80, 100}
    Operator = {o1}
    Hash <- MCHash
    MaxEdits = 2
    Start <- OneCluster
    Outcomes <- OneOutcome
    MaxEvents = 1
    MaxLate = 1
SPECIFICATION Spec
SYMMETRY Alike
INVARIANTS
    TypeOK
    TracksClusters
    LooksCurrent
    ChangesAreListed
    ReassignedAreLinked
    KeepsRecords
    SearchAgrees
