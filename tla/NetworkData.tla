------------------------------ MODULE NetworkData ------------------------------
(***************************************************************************)
(* What the Visualiser's page and the clustering database exchange:        *)
(* records, clusters named by their UPCIs, and the networks that operators *)
(* save (ClusterDto, NodeDto, EdgeDto, NetworkDto).  A UPCI stands for the *)
(* ClusterId too: reference.UPCI2 pairs them off.                          *)
(***************************************************************************)
EXTENDS Integers, Sequences, FiniteSets, Bags

CONSTANTS
    Record,         \* NodeKeys of records
    UPCI,           \* the clusters that reference.UPCI2 has names for
    Probability     \* probabilities of edges, in percent

Certain == 100
ASSUME NetworkAssumption ==
    /\ IsFiniteSet(Record) /\ UPCI \subseteq Nat
    /\ Record \cap UPCI = {}
    /\ Certain \in Probability /\ Probability \subseteq 0 .. 100

\* A cluster that is shown as a node has its UPCI for an id.
NodeId == Record \cup UPCI

\* What of a node and of a cluster's nodes goes over the wire.
Placement == [group : UPCI, hardLink : BOOLEAN]

Without(f, S) == [x \in DOMAIN f \ S |-> f[x]]
\* f, and g for what f does not hold.
Along(f, g) == [x \in DOMAIN f \cup DOMAIN g |-> IF x \in DOMAIN f THEN f[x] ELSE g[x]]
=============================================================================
