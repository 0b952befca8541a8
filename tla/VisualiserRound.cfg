\* A save falls into a round, between the edges and the clusters.
CONSTANTS
    r1 = r1
    r2 = r2
    r3 = r3
    r4 = r4
    Record = {r1, r2, r3, r4}
    UPCI = {1, 2}
    Probability = {80, 100}
    Operator = {o1}
    Hash <- MCHash
    MaxEdits = 0
    Start <- TwoClusters
    Outcomes <- TwoOutcome
    MaxEvents = 1
    MaxLate = 0
SPECIFICATION Spec
PROPERTIES SavedIdsAreMeaningless
