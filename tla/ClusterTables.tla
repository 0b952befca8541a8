----------------------------- MODULE ClusterTables -----------------------------
(***************************************************************************)
(* The tables of ClusterDb that its two halves share: records as nodes of  *)
(* a graph, and output.Clusters_EdgeProbabilities, the edges that hold the *)
(* current clusters together.                                              *)
(***************************************************************************)
EXTENDS Naturals, FiniteSets

CONSTANTS
    Node,       \* records, numbered in the order of (NodeName, NodeKey)
    NodeName    \* NodeName[n]: the system n comes from

ASSUME NodeAssumption ==
    /\ Node \subseteq Nat \ {0} /\ IsFiniteSet(Node)
    /\ NodeName \in [Node -> {"DELIUS", "NOMIS"}]
    /\ \A m, n \in Node : NodeName[m] = "DELIUS" /\ NodeName[n] = "NOMIS" => m < n

VARIABLES
    output,     \* output[e]: probability and temporary cluster of a kept edge
    at          \* the step the round has come to, "rest" between rounds

\* The rounds make the earlier of an edge's nodes its source; what operators save may
\* go either way.
Edge == {e \in Node \X Node : e[1] < e[2]}
Directed == {e \in Node \X Node : e[1] # e[2]}
Reverse(e) == <<e[2], e[1]>>
Ends(e) == {e[1], e[2]}
Touches(d, e) == Ends(d) \cap Ends(e) # {}

\* Tables of labelled edges are functions on the edges they hold.
Ids(T) == {T[e].id : e \in DOMAIN T}
NodesOf(T, i) == UNION {Ends(e) : e \in {d \in DOMAIN T : T[d].id = i}}
AllNodes(T) == UNION {Ends(e) : e \in DOMAIN T}

\* The rows of T, and those of U for what T does not hold.
Beside(T, U) == [e \in DOMAIN T \cup DOMAIN U |-> IF e \in DOMAIN T THEN T[e] ELSE U[e]]

\* ROW_NUMBER() over the columns of an edge.
RowNumber(e, E) ==
    Cardinality({d \in E : d[1] < e[1] \/ (d[1] = e[1] /\ d[2] <= e[2])})

At(step) == at = step
=============================================================================
