------------------------------ MODULE NetworkPage ------------------------------
(***************************************************************************)
(* The page of the Visualiser, as each operator has it open (network.js):  *)
(* a graph of records, edited in memory, and the modals and buttons around *)
(* it.  The edit and the save modal are static and hide everything else,   *)
(* so filling one in and submitting it is one step.  The find modal waits  *)
(* for an answer, and its x closes it meanwhile.                           *)
(***************************************************************************)
EXTENDS NetworkData

CONSTANTS
    Operator,       \* who has the page open
    Hash,           \* Hash[c]: what getNodeColor makes of the characters of c
    MaxEdits        \* bound: edits, on all pages together

ASSUME PageAssumption == MaxEdits \in Nat /\ Hash \in [UPCI -> Int]

VARIABLES
    nodes,          \* dataset.nodes, by id
    edges,          \* dataset.edges; vis gives each an id, so it is a bag
    changeTracker,  \* the changes that the save modal lists
    finding,        \* the find modal is shown
    mayReassign,    \* reassignCheckbox is enabled
    asked,          \* the request of the find modal that is pending
    loaded,         \* history: how a record stood when it was loaded
    pruned,         \* history: an edge was deleted or dragged elsewhere
    edits

dataset == <<nodes, edges>>
forms == <<finding, mayReassign, asked>>
history == <<loaded, pruned>>
pageVars == <<dataset, changeTracker, forms, history, edits>>

Looks == [shape : {"box", "ellipse", "hexagon"}, hue : 0 .. 359, starred : BOOLEAN,
          title : [upci : UPCI \cup {0}, hardLink : BOOLEAN]]
Node == [type : {"node", "cluster"}, group : UPCI, hardLink : BOOLEAN, look : Looks]
Edge == [from : NodeId, to : NodeId, probability : Probability,
         color : {"darkgreen", "green", "orange", "red"}, dashes : BOOLEAN]
NoRequest == [kind |-> "none", upci |-> 0]
Random == [kind |-> "random", upci |-> 0]
Details(c) == [kind |-> "details", upci |-> c]

-----------------------------------------------------------------------------
(* What is derived from the data, and what is asked of it *)

Hue(group) == (IF Hash[group] < 0 THEN -Hash[group] ELSE Hash[group]) % 360

\* saturateNode and saturateEdge: how a node and an edge look.
Look(n) ==
    [shape |-> IF n.type = "cluster" THEN "hexagon"
               ELSE IF n.hardLink THEN "box" ELSE "ellipse",
     hue |-> Hue(n.group),
     starred |-> n.hardLink,
     title |-> IF n.type = "node" THEN [upci |-> n.group, hardLink |-> n.hardLink]
               ELSE [upci |-> 0, hardLink |-> FALSE]]

SaturateNode(type, p) ==
    [type |-> type, group |-> p.group, hardLink |-> p.hardLink,
     look |-> Look([type |-> type, group |-> p.group, hardLink |-> p.hardLink])]

EdgeColor(p) ==
    IF p = 100 THEN "darkgreen" ELSE IF p > 75 THEN "green" ELSE IF p > 50 THEN "orange" ELSE "red"
SaturateEdge(from, to, p) ==
    [from |-> from, to |-> to, probability |-> p, color |-> EdgeColor(p), dashes |-> p = 100]

GetNodes(ns, group) == {i \in DOMAIN ns : ns[i].group = group}
GetClusters(ns) == {ns[i].group : i \in DOMAIN ns}
GetEdges(ns, es, group) == {e \in DOMAIN es : e.from \in GetNodes(ns, group)}
ClusterExists(ns, group) == \E i \in DOMAIN ns : ns[i].group = group
IsCluster(ns, id) == id \in DOMAIN ns /\ ns[id].type = "cluster"
EdgeExists(es, i, j) == \E e \in DOMAIN es : {e.from, e.to} = {i, j}
Touching(es, id) == {e \in DOMAIN es : id \in {e.from, e.to}}

\* Every cluster with its records and the edges from its nodes.
GetNetwork(ns, es) ==
    [upcis |-> GetClusters(ns),
     nodes |-> [i \in {j \in DOMAIN ns : ns[j].type = "node"} |->
                   [group |-> ns[i].group, hardLink |-> ns[i].hardLink]],
     edges |-> [e \in UNION {GetEdges(ns, es, c) : c \in GetClusters(ns)} |-> es[e]]]

-----------------------------------------------------------------------------
(* The page when it opens, and after signing in again *)

PageInit ==
    /\ nodes = [o \in Operator |-> <<>>] /\ edges = [o \in Operator |-> EmptyBag]
    /\ changeTracker = [o \in Operator |-> {}]
    /\ finding = [o \in Operator |-> FALSE] /\ mayReassign = [o \in Operator |-> FALSE]
    /\ asked = [o \in Operator |-> NoRequest]
    /\ loaded = [o \in Operator |-> <<>>] /\ pruned = [o \in Operator |-> FALSE]
    /\ edits = 0

\* redirectToSignIn leaves the page, and what was edited with it.
RedirectToSignIn(o) ==
    /\ nodes' = [nodes EXCEPT ![o] = <<>>] /\ edges' = [edges EXCEPT ![o] = EmptyBag]
    /\ changeTracker' = [changeTracker EXCEPT ![o] = {}]
    /\ finding' = [finding EXCEPT ![o] = FALSE]
    /\ mayReassign' = [mayReassign EXCEPT ![o] = FALSE]
    /\ asked' = [asked EXCEPT ![o] = NoRequest]
    /\ loaded' = [loaded EXCEPT ![o] = <<>>] /\ pruned' = [pruned EXCEPT ![o] = FALSE]
    /\ UNCHANGED edits

-----------------------------------------------------------------------------
(* Finding a cluster *)

AddNode(o) ==
    /\ ~finding[o]
    /\ finding' = [finding EXCEPT ![o] = TRUE]
    /\ UNCHANGED <<dataset, changeTracker, mayReassign, asked, history, edits>>

\* The find modal is hidden, by whatever: its reset counts the clusters.
Hidden(o, ns) ==
    /\ finding' = [finding EXCEPT ![o] = FALSE]
    /\ mayReassign' = [mayReassign EXCEPT ![o] = Cardinality(GetClusters(ns)) >= 2]

\* Cancel, or the x: nobody disables the x while the answer is awaited.
DismissFind(o) ==
    /\ finding[o]
    /\ Hidden(o, nodes[o])
    /\ UNCHANGED <<dataset, changeTracker, asked, history, edits>>

\* The buttons are disabled while a request is pending.
SubmitFind(o) ==
    /\ finding[o] /\ asked[o] = NoRequest
    /\ \E r \in {Random} \cup {Details(c) : c \in {u \in UPCI : ~ClusterExists(nodes[o], u)}} :
          asked' = [asked EXCEPT ![o] = r]
    /\ UNCHANGED <<dataset, changeTracker, finding, mayReassign, history, edits>>

\* The answer is cluster c: its nodes, with what is known of them, and its edges.
\* vis adds no node of them if it has one already; the error is only shown.
ClusterFound(o, c, placed, type, es) ==
    /\ asked' = [asked EXCEPT ![o] = NoRequest]
    /\ LET found == [i \in DOMAIN placed |-> SaturateNode(type, placed[i])]
       IN IF DOMAIN placed \cap DOMAIN nodes[o] # {}
          THEN UNCHANGED <<dataset, changeTracker, finding, mayReassign, history>>
          ELSE /\ nodes' = [nodes EXCEPT ![o] = Along(@, found)]
               /\ edges' = [edges EXCEPT ![o] = @ (+) SetToBag(es)]
               /\ changeTracker' = [changeTracker EXCEPT ![o] = @ \cup {<<"cluster", c>>}]
               /\ loaded' = [loaded EXCEPT ![o] =
                     IF type = "node" THEN Along(placed, @) ELSE @]
               /\ IF finding[o] THEN Hidden(o, nodes'[o])
                  ELSE UNCHANGED <<finding, mayReassign>>
               /\ UNCHANGED pruned
    /\ UNCHANGED edits

\* Any other answer is shown, and the buttons are enabled again.
FindRefused(o) ==
    /\ asked[o] # NoRequest
    /\ asked' = [asked EXCEPT ![o] = NoRequest]
    /\ UNCHANGED <<dataset, changeTracker, finding, mayReassign, history, edits>>

-----------------------------------------------------------------------------
(* Editing *)

Editing(o) == ~finding[o] /\ edits < MaxEdits /\ edits' = edits + 1

\* Mutated: an emptied cluster is not shown.
ReassignedNodesOnly(ns, n, to) ==
    LET destroyed == IF IsCluster(ns, to) THEN Without(ns, {to}) ELSE ns
    IN  [destroyed EXCEPT
            ![n] = SaturateNode("node", [group |-> to, hardLink |-> ns[n].hardLink])]

\* reassignNode: the node leaves its edges and its cluster behind.  A cluster that
\* gets empty is shown as a node, one that gets a record no longer is.
ReassignedNodes(ns, n, to) ==
    LET from == ns[n].group
        destroyed == IF IsCluster(ns, to) THEN Without(ns, {to}) ELSE ns
        emptied == IF Cardinality(GetNodes(destroyed, from)) = 1 THEN {from} ELSE {}
        shown == [c \in emptied |-> SaturateNode("cluster", [group |-> c, hardLink |-> FALSE])]
    IN  [Along(destroyed, shown) EXCEPT
            ![n] = SaturateNode("node", [group |-> to, hardLink |-> ns[n].hardLink])]

\* Mutated: the node keeps its edges.
ReassignedEdgesToo(ns, es, n, to) ==
    es (+) SetToBag({SaturateEdge(n, m, Certain) : m \in GetNodes(ns, to) \ {to}})

ReassignedEdges(ns, es, n, to) ==
    Without(es, Touching(es, n))
        (+) SetToBag({SaturateEdge(n, m, Certain) : m \in GetNodes(ns, to) \ {to}})

\* Mutated: how the node looks is not brought up to date.
SubmitEditUnsaturated(o, n, to, hard) ==
    /\ Editing(o)
    /\ nodes[o][n].type = "node"
    /\ to = nodes[o][n].group /\ hard # nodes[o][n].hardLink
    /\ nodes' = [nodes EXCEPT ![o][n].hardLink = hard]
    /\ changeTracker' = [changeTracker EXCEPT ![o] = @ \cup {<<"hardlink", n, hard>>}]
    /\ UNCHANGED <<edges, forms, history>>

\* Mutated: the hard link is compared when it has been set already.
SubmitEditUnlisted(o, n, to, hard) ==
    /\ Editing(o)
    /\ nodes[o][n].type = "node"
    /\ to = nodes[o][n].group /\ hard # nodes[o][n].hardLink
    /\ nodes' = [nodes EXCEPT ![o][n] = SaturateNode("node", [group |-> to, hardLink |-> hard])]
    /\ UNCHANGED <<edges, changeTracker, forms, history>>

\* editNode: the clusters that the form offers.
Offered(o, n) == GetClusters(nodes[o]) \ {nodes[o][n].group}

\* The edit form: a record gets another cluster, or not, and a hard link, or not.
SubmitEdit(o, n, to, hard) ==
    /\ Editing(o)
    /\ nodes[o][n].type = "node"
    /\ LET ns == nodes[o]
           moves == to # ns[n].group
           moved == IF moves THEN ReassignedNodes(ns, n, to) ELSE ns
       IN  /\ moves => mayReassign[o]
           /\ moves \/ hard # ns[n].hardLink
           /\ nodes' = [nodes EXCEPT ![o] =
                 [moved EXCEPT ![n] = SaturateNode("node", [group |-> to, hardLink |-> hard])]]
           /\ edges' = [edges EXCEPT ![o] = IF moves THEN ReassignedEdges(ns, @, n, to) ELSE @]
           /\ changeTracker' = [changeTracker EXCEPT ![o] = @
                 \cup (IF moves THEN {<<"reassigned", n, to>>} ELSE {})
                 \cup (IF hard # ns[n].hardLink THEN {<<"hardlink", n, hard>>} ELSE {})]
    /\ UNCHANGED <<forms, history>>

AddEdge(o, i, j) ==
    /\ Editing(o)
    /\ i # j /\ nodes[o][i].group = nodes[o][j].group
    /\ ~EdgeExists(edges[o], i, j)
    /\ edges' = [edges EXCEPT ![o] = @ (+) SetToBag({SaturateEdge(i, j, Certain)})]
    /\ changeTracker' = [changeTracker EXCEPT ![o] = @ \cup {<<"edge", i, j>>}]
    /\ UNCHANGED <<nodes, forms, history>>

\* vis shows an edge if it shows both its nodes.
Visible(o) == {e \in DOMAIN edges[o] : {e.from, e.to} \subseteq DOMAIN nodes[o]}

\* deleteEdge and editEdge are left to vis, which deletes what it is told to and lets
\* either end of an edge be dragged to any node.  Neither is tracked.
DeleteEdge(o, e) ==
    /\ Editing(o)
    /\ edges' = [edges EXCEPT ![o] = @ (-) SetToBag({e})]
    /\ pruned' = [pruned EXCEPT ![o] = TRUE]
    /\ UNCHANGED <<nodes, changeTracker, forms, loaded>>

DragEdge(o, e, i) ==
    /\ Editing(o)
    /\ \E d \in {[e EXCEPT !.from = i], [e EXCEPT !.to = i]} :
          d # e /\ edges' = [edges EXCEPT ![o] = (@ (-) SetToBag({e})) (+) SetToBag({d})]
    /\ pruned' = [pruned EXCEPT ![o] = TRUE]
    /\ UNCHANGED <<nodes, changeTracker, forms, loaded>>

Edit(o) ==
    \/ \E n \in DOMAIN nodes[o], hard \in BOOLEAN :
          \E to \in Offered(o, n) \cup {nodes[o][n].group} : SubmitEdit(o, n, to, hard)
    \/ \E i, j \in DOMAIN nodes[o] : AddEdge(o, i, j)
    \/ \E e \in Visible(o) :
          DeleteEdge(o, e) \/ \E i \in DOMAIN nodes[o] : DragEdge(o, e, i)

\* The save form sends this; the answer changes nothing on the page, be it good or bad.
SubmitSave(o) == ~finding[o] /\ UNCHANGED pageVars

PageStep(o) == AddNode(o) \/ DismissFind(o) \/ SubmitFind(o) \/ Edit(o)
=============================================================================
