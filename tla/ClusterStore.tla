------------------------------ MODULE ClusterStore ------------------------------
(***************************************************************************)
(* The clustering database behind the Visualiser's page: what the API      *)
(* reads, saves and generates (VisualisationRepository,                    *)
(* ClusteringRepository), and what matching rounds and Meow do to the same *)
(* tables meanwhile.  A save is a transaction; the steps of a round are    *)
(* not, and minutes may pass between them.                                 *)
(***************************************************************************)
EXTENDS NetworkData

CONSTANTS
    Start,          \* Start[r]: the cluster of record r at first
    Outcomes,       \* what Steps 1 to 4 of a round may make of the edges
    MaxEvents       \* bound: rounds and hard links of Meow

VARIABLES
    membership,     \* output.ClusterMembership, the column ClusterMembershipProbability aside
    links,          \* output.Clusters_EdgeProbabilities
    clusters,       \* output.Clusters
    attributes,     \* search.ClusterAttributes: which record is searched under which cluster
    phase,          \* how far the round is
    events

storeVars == <<membership, links, clusters, attributes, phase, events>>

Row == [node : Record, cluster : UPCI, hard : BOOLEAN]
Link == [from : Record, to : Record, probability : Probability, temp : Int]
Meaningless == -1

ASSUME StoreAssumption ==
    /\ Start \in [Record -> UPCI]
    /\ Outcomes \subseteq SUBSET Link
    /\ \A links_ \in Outcomes : \A l \in links_ : l.temp # Meaningless
    /\ MaxEvents \in Nat

RowsOf(S) == {m \in membership : m.cluster \in S}
Names(rows) == {m.node : m \in rows}
Unique(rows) == \A m, n \in rows : m.node = n.node => m = n
AttributesOf(rows) == {[node |-> m.node, cluster |-> m.cluster] : m \in rows}
Temps(r) == {l.temp : l \in {k \in links : r \in {k.from, k.to}}}

StoreInit ==
    /\ membership = {[node |-> r, cluster |-> Start[r], hard |-> FALSE] : r \in Record}
    /\ links \in Outcomes
    /\ clusters = {Start[r] : r \in Record}
    /\ attributes = AttributesOf(membership)
    /\ phase = "rest" /\ events = 0

-----------------------------------------------------------------------------
(* The API *)

\* GetDetailsByUpciAsync: the records of a cluster and the edges that start there.
\* The keys of edges are unique to Entity Framework, whatever is in the table.
Placements(c) ==
    [r \in Names(RowsOf({c})) |->
        [group |-> c, hardLink |-> (CHOOSE m \in RowsOf({c}) : m.node = r).hard]]
LinksOf(c) == {l \in links : l.from \in Names(RowsOf({c}))}

\* GenerateClusterAsync: the row of cluster c, the one after the last, if c has a name.
Generate(c) ==
    /\ c - 1 \in clusters \cup {0} /\ \A d \in clusters : d < c
    /\ clusters' = clusters \cup {c}
    /\ UNCHANGED <<membership, links, attributes, phase, events>>

\* Mutated: the edges of a cluster that is shown as a node are kept.
KeptAll(network) == DOMAIN network.edges

\* SaveNetworkAsync.  Mappings from what the clusters hold now are looked up for every
\* record and every edge to keep; a missing or a double key is an exception, and
\* so is the average of the edges of a cluster that has several records and none.
Kept(network) == {e \in DOMAIN network.edges : e.from \in DOMAIN network.nodes}
Group(network, c) == {r \in DOMAIN network.nodes : network.nodes[r].group = c}
Averages(network) ==
    \A c \in network.upcis : Cardinality(Group(network, c)) > 1 =>
        \E e \in Kept(network) : e.from \in Group(network, c)

\* Mutated: what the clusters hold is not counted.
AcceptsAnyCount(network) ==
    /\ network.upcis \subseteq clusters
    /\ DOMAIN network.nodes \subseteq Names(RowsOf(network.upcis))
    /\ \A e \in Kept(network) :
          e.to \in Names(RowsOf(network.upcis)) /\ network.edges[e] = 1
    /\ Averages(network)

Accepts(network) ==
    LET existing == RowsOf(network.upcis)
        searched == {a \in attributes : a.cluster \in network.upcis}
    IN  /\ network.upcis \subseteq clusters
        /\ Cardinality(existing) = Cardinality(DOMAIN network.nodes)
        /\ Unique(existing) /\ Unique(searched)
        /\ DOMAIN network.nodes \subseteq Names(existing) \cap Names(searched)
        /\ \A e \in Kept(network) : e.to \in Names(existing) /\ network.edges[e] = 1
        /\ \A d, e \in Kept(network) : d.from = e.from /\ d.to = e.to => d = e
        /\ Averages(network)

\* Mutated: search is left as it is.
SaveUnsearched(network) ==
    /\ Accepts(network)
    /\ LET existing == RowsOf(network.upcis)
       IN  /\ membership' = (membership \ existing) \cup
                  {[node |-> r, cluster |-> network.nodes[r].group,
                    hard |-> network.nodes[r].hardLink] : r \in DOMAIN network.nodes}
           /\ links' = {l \in links : l.from \notin Names(existing)}
    /\ UNCHANGED <<clusters, attributes, phase, events>>

Save(network) ==
    /\ Accepts(network)
    /\ LET existing == RowsOf(network.upcis)
           rows == {[node |-> r, cluster |-> network.nodes[r].group,
                     hard |-> network.nodes[r].hardLink] : r \in DOMAIN network.nodes}
       IN  /\ membership' = (membership \ existing) \cup rows
           /\ links' = {l \in links : l.from \notin Names(existing)}
                  \cup {[from |-> e.from, to |-> e.to, probability |-> e.probability,
                         temp |-> Meaningless] : e \in Kept(network)}
           /\ attributes' = {a \in attributes : a.cluster \notin network.upcis}
                  \cup AttributesOf(rows)
    /\ UNCHANGED <<clusters, phase, events>>

-----------------------------------------------------------------------------
(* Rounds and Meow *)

Event == events < MaxEvents /\ events' = events + 1

\* Steps 1 to 4, from which the edges come out anew, with temporary clusters.
Resolve ==
    /\ phase = "rest" /\ Event
    /\ links' \in Outcomes
    /\ phase' = "resolved"
    /\ UNCHANGED <<membership, clusters, attributes>>

\* Whom Step6 may take for the link node of temporary cluster i.
LinkRows(i) ==
    LET rows == {m \in membership : i \in Temps(m.node)}
        hard == {m \in rows : m.hard}
    IN  IF hard # {} THEN hard ELSE {m \in rows : \A n \in rows : m.cluster <= n.cluster}

\* Step6 for records that have a cluster.  One in several temporary clusters, which
\* the steps before never make, goes with any of them.
Adopt ==
    /\ phase = "resolved"
    /\ LET temps == {l.temp : l \in links}
           moving == {m \in membership : ~m.hard /\ Temps(m.node) # {}}
       IN  \E ln \in [temps -> membership], by \in [moving -> temps] :
              /\ \A i \in temps : ln[i] \in LinkRows(i)
              /\ \A m \in moving : by[m] \in Temps(m.node)
              /\ membership' = (membership \ moving)
                     \cup {[m EXCEPT !.cluster = ln[by[m]].cluster] : m \in moving}
    /\ phase' = "adopted"
    /\ UNCHANGED <<links, clusters, attributes, events>>

\* Step7.
MaintainAttributes ==
    /\ phase = "adopted"
    /\ attributes' = AttributesOf(membership)
    /\ phase' = "rest"
    /\ UNCHANGED <<membership, links, clusters, events>>

\* ParticipantCreatedIntegrationEventHandler.
HardLink ==
    /\ Event
    /\ \E m \in membership :
          ~m.hard /\ membership' = (membership \ {m}) \cup {[m EXCEPT !.hard = TRUE]}
    /\ UNCHANGED <<links, clusters, attributes, phase>>

OthersStep == Resolve \/ Adopt \/ MaintainAttributes \/ HardLink
=============================================================================
