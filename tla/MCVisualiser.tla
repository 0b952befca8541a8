------------------------------ MODULE MCVisualiser ------------------------------
(* Instances of Visualiser for TLC. *)
EXTENDS Visualiser, TLC

CONSTANTS r1, r2, r3, r4

MCHash == [c \in UPCI |-> -390 * c]
Pair(a, b, i) == [from |-> a, to |-> b, probability |-> 80, temp |-> i]

\* Three records of one cluster, as every round finds them.
OneCluster == [r \in Record |-> 1]
OneOutcome == {{Pair(r1, r2, 1), Pair(r1, r3, 1)}}
\* r2 and r3 are alike in all that.
Alike == Permutations({r2, r3})

\* Two clusters of two records.
TwoClusters == [r \in Record |-> IF r \in {r1, r2} THEN 1 ELSE 2]
TwoOutcome == {{Pair(r1, r2, 1), Pair(r3, r4, 2)}}
=============================================================================
