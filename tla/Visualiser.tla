------------------------------- MODULE Visualiser -------------------------------
(***************************************************************************)
(* Operators with the page open beside one another, the API between the    *)
(* pages and the clustering database, matching rounds and Meow beside all  *)
(* that.  Nothing tells a page that the database has changed since it      *)
(* loaded a cluster.  A find is answered in one step: nothing can tell     *)
(* when in between the API read the database.  Nor can anything tell how   *)
(* long a save took, so it is sent and done in one step, or sent, given up *)
(* by the page and done later, or never.  A save that is refused, or an    *)
(* exception rolls back, changes nothing.                                  *)
(***************************************************************************)
EXTENDS NetworkPage, ClusterStore

CONSTANT MaxLate    \* bound: saves that outlive their request

ASSUME VisualiserAssumption == MaxLate \in Nat

VARIABLES
    late,           \* networks whose save the API may still be at
    lost            \* how many saves have outlived their request

NetworkOf(o) == GetNetwork(nodes[o], edges[o])

vars == <<pageVars, storeVars, late, lost>>

Init == PageInit /\ StoreInit /\ late = {} /\ lost = 0

\* The API answers a find: an empty cluster is one node, another its records.
AnswerDetails(o) ==
    LET c == asked[o].upci
        placed == Placements(c)
    IN  /\ asked[o] = Details(c) /\ c \in clusters
        /\ IF DOMAIN placed = {}
           THEN ClusterFound(o, c, [i \in {c} |-> [group |-> c, hardLink |-> FALSE]], "cluster", {})
           ELSE ClusterFound(o, c, placed, "node",
                    {SaturateEdge(l.from, l.to, l.probability) : l \in LinksOf(c)})
        /\ UNCHANGED <<storeVars, late, lost>>

AnswerRandom(o) ==
    /\ asked[o] = Random
    /\ \E c \in UPCI :
          /\ Generate(c)
          /\ ClusterFound(o, c, [i \in {c} |-> [group |-> c, hardLink |-> FALSE]], "cluster", {})
    /\ UNCHANGED <<late, lost>>

\* No such cluster, none left, or a failure; a cluster may have been generated.
AnswerNothing(o) ==
    /\ FindRefused(o)
    /\ \/ UNCHANGED storeVars
       \/ asked[o] = Random /\ \E c \in UPCI : Generate(c)
    /\ UNCHANGED <<late, lost>>

AnswerSave(o) == SubmitSave(o) /\ Save(NetworkOf(o)) /\ UNCHANGED <<late, lost>>

\* The page's request times out, and the API goes on.
SaveTimesOut(o) ==
    /\ lost < MaxLate
    /\ SubmitSave(o)
    /\ late' = late \cup {NetworkOf(o)}
    /\ lost' = lost + 1
    /\ UNCHANGED storeVars

SaveLate(network) == Save(network) /\ late' = late \ {network} /\ UNCHANGED <<pageVars, lost>>

\* The session has expired by the time the answer to a request is due.
AnswerUnauthorized(o) ==
    /\ asked[o] # NoRequest \/ ~finding[o]
    /\ RedirectToSignIn(o)
    /\ UNCHANGED <<storeVars, late, lost>>

Answer(o) ==
    \/ AnswerDetails(o) \/ AnswerRandom(o) \/ AnswerNothing(o)
    \/ AnswerSave(o) \/ SaveTimesOut(o) \/ AnswerUnauthorized(o)

Next ==
    \/ \E o \in Operator : Answer(o) \/ (PageStep(o) /\ UNCHANGED <<storeVars, late, lost>>)
    \/ \E network \in late : SaveLate(network)
    \/ OthersStep /\ UNCHANGED <<pageVars, late, lost>>

Spec == Init /\ [][Next]_vars

-----------------------------------------------------------------------------
(* Properties *)

TypeOK ==
    /\ \A o \in Operator :
          /\ DOMAIN nodes[o] \subseteq NodeId
          /\ \A i \in DOMAIN nodes[o] : nodes[o][i] \in Node
          /\ IsABag(edges[o]) /\ DOMAIN edges[o] \subseteq Edge
    /\ finding \in [Operator -> BOOLEAN] /\ mayReassign \in [Operator -> BOOLEAN]
    /\ membership \subseteq Row
    /\ links \subseteq Link
    /\ clusters \subseteq UPCI
    /\ attributes \subseteq [node : Record, cluster : UPCI]
    /\ phase \in {"rest", "resolved", "adopted"}

\* A cluster that was added to a page stays on it, whatever is reassigned
\* (network.js 470-472), as one empty node or with its records, never as both.
TracksClusters ==
    \A o \in Operator :
        /\ \A entry \in changeTracker[o] :
              entry[1] = "cluster" => ClusterExists(nodes[o], entry[2])
        /\ \A i \in DOMAIN nodes[o] :
              /\ nodes[o][i].type = "node" <=> i \in Record
              /\ nodes[o][i].type = "cluster" => GetNodes(nodes[o], i) = {i}

\* What an operator sees of a node is what would be saved of it.
LooksCurrent ==
    \A o \in Operator : \A i \in DOMAIN nodes[o] : nodes[o][i].look = Look(nodes[o][i])

\* Whatever has become of a record since it was loaded is in the list of changes that
\* the operator confirms.
ChangesAreListed ==
    \A o \in Operator : \A r \in DOMAIN loaded[o] :
        /\ nodes[o][r].group # loaded[o][r].group =>
              <<"reassigned", r, nodes[o][r].group>> \in changeTracker[o]
        /\ nodes[o][r].hardLink # loaded[o][r].hardLink =>
              <<"hardlink", r, nodes[o][r].hardLink>> \in changeTracker[o]

\* A record that was reassigned has one edge with everybody in its cluster, in
\* whatever order records came and went, unless edges were deleted or dragged.
ReassignedAreLinked ==
    \A o \in Operator : \A r, s \in DOMAIN nodes[o] \cap Record :
        (/\ ~pruned[o] /\ r # s
         /\ \E c \in UPCI : <<"reassigned", r, c>> \in changeTracker[o]
         /\ nodes[o][r].group = nodes[o][s].group)
            => \E e \in DOMAIN edges[o] :
                  Touching(edges[o], r) \cap Touching(edges[o], s) = {e} /\ edges[o][e] = 1

\* However old the network that is saved, every record has a row and one cluster.
KeepsRecords ==
    \A r \in Record : \E m \in membership : {n \in membership : n.node = r} = {m}

\* Between rounds, and until Step6, search finds every record under its cluster, and
\* under no other, whatever operators have saved.
SearchAgrees == phase # "adopted" => attributes = AttributesOf(membership)

\* VisualisationRepository 146: "Completely meaningless".  A record changes cluster in
\* Step6 along with a temporary cluster that the round has made.
SavedIdsAreMeaningless ==
    [][Adopt => \A m \in membership : m \notin membership' => Temps(m.node) # {Meaningless}]_vars
=============================================================================
