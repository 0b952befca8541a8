--------------------------- MODULE ClusterMembership ---------------------------
(***************************************************************************)
(* Step5 and Step6 of Phase2: every record has a row, and a permanent      *)
(* cluster, in output.ClusterMembership; the clusters a round arrives at   *)
(* (the table output) are mapped to permanent ones.  Meow hard-links the   *)
(* primary record of a participant at any moment; a round may be cut off   *)
(* between any two statements, for the procedures have no transaction.     *)
(***************************************************************************)
EXTENDS ClusterTables

CONSTANT MaxHardLinks   \* bound: records that get hard-linked

NoNode == 0
ASSUME MembershipAssumption == MaxHardLinks \in Nat

VARIABLES
    nodes,      \* input.Nodes
    member,     \* member[n]: the row of n, its cluster id 0 for NULL
    linkNode,   \* processing.LinkNodes: linkNode[i] stands for temporary cluster i
    seed,       \* @SeedClusterId
    clusters,   \* the ids in output.Clusters, each with a UPCI for good
    primary     \* primary[c]: the primary record of cluster c

tables == <<nodes, member, linkNode, seed, clusters, primary>>

MembershipTypeOK ==
    /\ nodes \subseteq Node
    /\ DOMAIN member \subseteq Node
    /\ member \in [DOMAIN member -> [id : Nat, hard : BOOLEAN]]
    /\ seed \in Nat
    /\ clusters \subseteq Nat
    /\ primary \in [clusters -> Node \cup {NoNode}]

MembershipInit ==
    /\ nodes = {} /\ member = <<>> /\ linkNode = <<>> /\ seed = 0
    /\ clusters = {} /\ primary = <<>>

Members(c) == {n \in DOMAIN member : member[n].id = c}
Known == {n \in DOMAIN member : member[n].id # 0}
Unassigned == {n \in DOMAIN member : member[n].id = 0}
Hard(n) == member[n].hard

\* ISNULL(MAX(...), 0) of the ids in S.
Largest(S) == CHOOSE m \in S \cup {0} : \A i \in S : i <= m
RankIn(i, S) == Cardinality({j \in S : j <= i})

-----------------------------------------------------------------------------
\* Step5: the nodes of the output and all records of the running pictures.
MaintainNodes(records) ==
    /\ At("nodes")
    /\ nodes' = nodes \cup AllNodes(output) \cup records
    /\ at' = "link"
    /\ UNCHANGED <<output, member, linkNode, seed, clusters, primary>>

\* The link node of temporary cluster i: a hard-linked one if there is one, any of
\* them (ROW_NUMBER breaks ties as it likes), else one with the lowest cluster id.
\* Which of those is all the same, as only its cluster is ever read.
Represents(n, i, rows) ==
    LET N == NodesOf(output, i)
        hard == {m \in N : rows[m].hard}
        rank(m) == IF rows[m].id = 0 THEN 99999999 ELSE rows[m].id
        lowest == {m \in N : \A o \in N : rank(m) <= rank(o)}
    IN  IF hard # {} THEN n \in hard ELSE n \in lowest /\ \A m \in lowest : n <= m

\* Step6: rows for the new nodes, and a link node for every temporary cluster.
Link ==
    /\ At("link")
    /\ LET rows == [n \in DOMAIN member \cup nodes |->
                       IF n \in DOMAIN member THEN member[n]
                       ELSE [id |-> 0, hard |-> FALSE]]
           best == [i \in Ids(output) |->
                       {n \in NodesOf(output, i) : Represents(n, i, rows)}]
       IN  /\ member' = rows
           /\ \E ln \in [Ids(output) -> UNION {best[i] : i \in Ids(output)}] :
                 /\ \A i \in Ids(output) : ln[i] \in best[i]
                 /\ linkNode' = ln
           /\ seed' = Largest({rows[n].id : n \in DOMAIN rows})
    /\ at' = "adopt"
    /\ UNCHANGED <<output, nodes, clusters, primary>>

\* The temporary cluster of a node of the output.
Home(n) == CHOOSE i \in DOMAIN linkNode : n \in NodesOf(output, i)
Linked(n) == \E i \in DOMAIN linkNode : n \in NodesOf(output, i)
Target(n) == member[linkNode[Home(n)]].id

\* Mutated: hard-linked records move with the others.
AdoptAll ==
    /\ At("adopt")
    /\ member' = [n \in DOMAIN member |->
          IF Linked(n) /\ member[n].id # 0 /\ Target(n) # 0
          THEN [member[n] EXCEPT !.id = Target(n)] ELSE member[n]]
    /\ at' = "found"
    /\ UNCHANGED <<output, nodes, linkNode, seed, clusters, primary>>

\* Mutated: only records with a higher cluster id move.
AdoptHigher ==
    /\ At("adopt")
    /\ member' = [n \in DOMAIN member |->
          IF Linked(n) /\ ~Hard(n) /\ member[n].id > Target(n) /\ Target(n) # 0
          THEN [member[n] EXCEPT !.id = Target(n)] ELSE member[n]]
    /\ at' = "found"
    /\ UNCHANGED <<output, nodes, linkNode, seed, clusters, primary>>

\* A record with a cluster moves to its link node's cluster, unless it is
\* hard-linked.  (No comparison with the NULL of a new record is true.)
Adopt ==
    /\ At("adopt")
    /\ member' = [n \in DOMAIN member |->
          IF Linked(n) /\ ~Hard(n) /\ member[n].id # 0 /\ Target(n) # 0
          THEN [member[n] EXCEPT !.id = Target(n)] ELSE member[n]]
    /\ at' = "found"
    /\ UNCHANGED <<output, nodes, linkNode, seed, clusters, primary>>

\* Temporary clusters whose link node has no cluster get a new one.
Found ==
    /\ At("found")
    /\ LET fresh == {i \in DOMAIN linkNode :
                        /\ member[linkNode[i]].id = 0
                        /\ \E n \in NodesOf(output, i) : ~Hard(n)}
       IN  member' = [n \in DOMAIN member |->
              IF Linked(n) /\ ~Hard(n) /\ Home(n) \in fresh
              THEN [member[n] EXCEPT !.id = seed + RankIn(Home(n), fresh)] ELSE member[n]]
    /\ at' = "settle"
    /\ UNCHANGED <<output, nodes, linkNode, seed, clusters, primary>>

\* Mutated: numbering starts from the seed of before.
SettleFromSeed ==
    /\ At("settle")
    /\ member' = [n \in DOMAIN member |->
             IF member[n].id # 0 THEN member[n]
             ELSE [member[n] EXCEPT !.id = seed + RankIn(n, Unassigned)]]
    /\ at' = "review"
    /\ UNCHANGED <<output, nodes, linkNode, seed, clusters, primary>>

\* Any record that is left gets a cluster of its own.
Settle ==
    /\ At("settle")
    /\ LET m == Largest({member[n].id : n \in DOMAIN member})
       IN  member' = [n \in DOMAIN member |->
              IF member[n].id # 0 THEN member[n]
              ELSE [member[n] EXCEPT !.id = m + RankIn(n, Unassigned)]]
    /\ at' = "review"
    /\ UNCHANGED <<output, nodes, linkNode, seed, clusters, primary>>

-----------------------------------------------------------------------------
\* The best candidates for primary record of a cluster: somebody in prison,
\* then somebody hard-linked; the membership probability decides the rest.
Best(c, active) ==
    LET inPrison == Members(c) \cap active
        first == IF inPrison # {} THEN inPrison ELSE Members(c)
        hard == {n \in first : Hard(n)}
    IN  IF hard # {} THEN hard ELSE first

\* Mutated: a primary record that left its cluster is kept.
PrimaryKept(c, first) ==
    LET kept == IF c \in clusters THEN primary[c] ELSE NoNode
    IN  IF Members(c) = {} THEN NoNode
        ELSE IF kept = NoNode \/ NodeName[kept] # NodeName[first] THEN first ELSE kept

\* What the primary record of c becomes if first is the best candidate.
Primary(c, first) ==
    LET kept == IF c \in clusters /\ primary[c] \in Members(c) THEN primary[c] ELSE NoNode
    IN  IF Members(c) = {} THEN NoNode
        ELSE IF kept = NoNode \/ NodeName[kept] # NodeName[first] THEN first ELSE kept

\* The rest of Step6: rows in output.Clusters, and a new primary record where it
\* has left the cluster, or where the best one is of the other system.
Review(active) ==
    /\ At("review")
    /\ clusters' = clusters \cup {member[n].id : n \in DOMAIN member}
    /\ LET contested == {c \in clusters' : Cardinality(Best(c, active)) > 1}
       IN  \E first \in [contested -> UNION {Best(c, active) : c \in contested}] :
              /\ \A c \in contested : first[c] \in Best(c, active)
              /\ primary' = [c \in clusters' |->
                    Primary(c, IF c \in contested THEN first[c]
                               ELSE CHOOSE n \in Best(c, active) : TRUE)]
    /\ linkNode' = <<>>
    /\ at' = "finish"
    /\ UNCHANGED <<output, nodes, member, seed>>

\* ParticipantCreatedIntegrationEventHandler: the record is found through its
\* cluster's UPCI.
HardLink(n) ==
    /\ n \in DOMAIN member /\ ~Hard(n) /\ member[n].id \in clusters
    /\ Cardinality({m \in DOMAIN member : Hard(m)}) < MaxHardLinks
    /\ member' = [member EXCEPT ![n].hard = TRUE]
    /\ UNCHANGED <<output, at, nodes, linkNode, seed, clusters, primary>>

MembershipStep(active) == Link \/ Adopt \/ Found \/ Settle \/ Review(active)
=============================================================================
