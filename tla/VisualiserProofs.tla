---------------------------- MODULE VisualiserProofs ----------------------------
(***************************************************************************)
(* Theorems about Visualiser, for any operators, records, edits, rounds    *)
(* and late saves.  A page is looked at by its values, so what an edit     *)
(* keeps is a lemma about a graph; the steps of Visualiser then only say   *)
(* which graph an operator has next.                                       *)
(***************************************************************************)
EXTENDS Visualiser, FiniteSetTheorems, TLAPS

-----------------------------------------------------------------------------
(* Bags *)

LEMMA AddedToBag ==
    ASSUME NEW B, IsABag(B), NEW S
    PROVE  /\ IsABag(B (+) SetToBag(S))
           /\ DOMAIN (B (+) SetToBag(S)) = DOMAIN B \cup S
           /\ \A e \in S \ DOMAIN B : (B (+) SetToBag(S))[e] = 1
           /\ \A e \in DOMAIN B \ S : (B (+) SetToBag(S))[e] = B[e]
BY DEF IsABag, SetToBag, \oplus

LEMMA TakenFromBag ==
    ASSUME NEW B, IsABag(B), NEW S
    PROVE  IsABag(B (-) SetToBag(S)) /\ DOMAIN (B (-) SetToBag(S)) \subseteq DOMAIN B
BY DEF IsABag, SetToBag, \ominus

LEMMA LeftInBag ==
    ASSUME NEW B, IsABag(B), NEW S
    PROVE  /\ IsABag(Without(B, S))
           /\ DOMAIN Without(B, S) = DOMAIN B \ S
           /\ \A e \in DOMAIN B \ S : Without(B, S)[e] = B[e]
BY DEF IsABag, Without

-----------------------------------------------------------------------------
(* Graphs *)

\* What the nodes of a page always are.
Graph(ns) ==
    /\ DOMAIN ns \subseteq NodeId /\ IsFiniteSet(DOMAIN ns)
    /\ \A i \in DOMAIN ns :
          /\ ns[i] \in Node
          /\ ns[i].look = Look(ns[i])
          /\ ns[i].type = "node" <=> i \in Record
          /\ ns[i].type = "cluster" => GetNodes(ns, i) = {i}

Drawn(es) == IsABag(es) /\ DOMAIN es \subseteq Edge

LEMMA NodeIs ==
    ASSUME NEW t \in {"node", "cluster"}, NEW p \in Placement
    PROVE  /\ SaturateNode(t, p) \in Node
           /\ SaturateNode(t, p).type = t
           /\ SaturateNode(t, p).group = p.group
           /\ SaturateNode(t, p).hardLink = p.hardLink
           /\ SaturateNode(t, p).look = Look(SaturateNode(t, p))
<1>1. p.group \in UPCI /\ p.hardLink \in BOOLEAN BY DEF Placement
<1>2. Hue(p.group) \in 0 .. 359
  <2>1. Hash[p.group] \in Int BY <1>1, PageAssumption
  <2> QED BY <2>1 DEF Hue
<1>3. Look([type |-> t, group |-> p.group, hardLink |-> p.hardLink]) \in Looks
  BY <1>1, <1>2 DEF Look, Looks
<1>4. SaturateNode(t, p) \in Node BY <1>1, <1>3 DEF SaturateNode, Node
<1>5. SaturateNode(t, p).look = Look(SaturateNode(t, p)) BY DEF SaturateNode, Look
<1> QED BY <1>4, <1>5 DEF SaturateNode

LEMMA EdgeIs ==
    ASSUME NEW i \in NodeId, NEW j \in NodeId, NEW p \in Probability
    PROVE  /\ SaturateEdge(i, j, p) \in Edge
           /\ SaturateEdge(i, j, p).from = i /\ SaturateEdge(i, j, p).to = j
BY DEF SaturateEdge, Edge, EdgeColor

\* What the edit form makes of the nodes.
Edited(ns, n, to, hard) ==
    [(IF to # ns[n].group THEN ReassignedNodes(ns, n, to) ELSE ns) EXCEPT
        ![n] = SaturateNode("node", [group |-> to, hardLink |-> hard])]

LEMMA EditedNodes ==
    ASSUME NEW ns, Graph(ns), NEW n \in DOMAIN ns, ns[n].type = "node",
           NEW to \in GetClusters(ns), NEW hard \in BOOLEAN
    PROVE  /\ Graph(Edited(ns, n, to, hard))
           /\ GetClusters(Edited(ns, n, to, hard)) = GetClusters(ns)
           /\ \A r \in Record : r \in DOMAIN Edited(ns, n, to, hard) <=> r \in DOMAIN ns
           /\ \A r \in Record \ {n} : r \in DOMAIN ns =>
                 Edited(ns, n, to, hard)[r] = ns[r]
           /\ Edited(ns, n, to, hard)[n] =
                 SaturateNode("node", [group |-> to, hardLink |-> hard])
           /\ n \in Record
<1> DEFINE from == ns[n].group
           new == Edited(ns, n, to, hard)
           it == SaturateNode("node", [group |-> to, hardLink |-> hard])
<1>1. n \in Record /\ n \notin UPCI BY NetworkAssumption DEF Graph
<1>2. from \in UPCI /\ to \in UPCI /\ \A i \in DOMAIN ns : ns[i].group \in UPCI
  BY DEF Graph, Node, GetClusters
<1>3. /\ it \in Node /\ it.type = "node" /\ it.group = to /\ it.hardLink = hard
      /\ it.look = Look(it)
  <2>1. [group |-> to, hardLink |-> hard] \in Placement BY <1>2 DEF Placement
  <2> QED BY <2>1, NodeIs
<1>4. \A i \in DOMAIN ns : ns[i].type = "cluster" <=> i \notin Record
  BY DEF Graph, Node
<1>5. \A i \in DOMAIN ns : ns[i].type = "cluster" =>
          ns[i].group = i /\ \A j \in DOMAIN ns : ns[j].group = i => j = i
  BY DEF Graph, GetNodes
<1>6. CASE to = from
  <2>1. new = [ns EXCEPT ![n] = it] BY <1>6 DEF Edited
  <2> HIDE DEF new, it
  <2>2. DOMAIN new = DOMAIN ns /\ \A i \in DOMAIN ns : new[i] = IF i = n THEN it ELSE ns[i]
    BY <2>1
  <2>3. \A i \in DOMAIN ns : new[i].group = ns[i].group BY <1>3, <1>6, <2>2
  <2>4. GetClusters(new) = GetClusters(ns) BY <2>2, <2>3 DEF GetClusters
  <2>5. \A i \in DOMAIN ns : GetNodes(new, i) = GetNodes(ns, i) BY <2>2, <2>3 DEF GetNodes
  <2>6. Graph(new) BY <1>1, <1>3, <2>2, <2>5 DEF Graph
  <2>7. /\ \A r \in Record : r \in DOMAIN new <=> r \in DOMAIN ns
        /\ \A r \in Record \ {n} : r \in DOMAIN ns => new[r] = ns[r]
        /\ new[n] = it
    BY <2>2
  <2> QED BY <1>1, <2>4, <2>6, <2>7 DEF new, it
<1>7. CASE to # from
  <2> DEFINE destroyed == IF IsCluster(ns, to) THEN Without(ns, {to}) ELSE ns
             emptied == IF Cardinality(GetNodes(destroyed, from)) = 1 THEN {from} ELSE {}
             shown == [c \in emptied |-> SaturateNode("cluster", [group |-> c, hardLink |-> FALSE])]
             still == SaturateNode("node", [group |-> to, hardLink |-> ns[n].hardLink])
             gone == IF IsCluster(ns, to) THEN {to} ELSE {}
  <2>1. ReassignedNodes(ns, n, to) = [Along(destroyed, shown) EXCEPT ![n] = still]
    BY DEF ReassignedNodes
  <2>2. new = [[Along(destroyed, shown) EXCEPT ![n] = still] EXCEPT ![n] = it]
    BY <1>7, <2>1 DEF Edited
  <2>3. n # to /\ n # from /\ n \notin gone BY <1>1, <1>2
  <2>4. DOMAIN destroyed = DOMAIN ns \ gone /\ \A i \in DOMAIN ns \ gone : destroyed[i] = ns[i]
    BY DEF Without
  <2>5. from \notin DOMAIN ns
    <3> SUFFICES ASSUME from \in DOMAIN ns PROVE FALSE OBVIOUS
    <3>1. ns[from].type = "cluster" BY <1>2, <1>4, NetworkAssumption
    <3> QED BY <1>5, <2>3, <3>1
  <2>6. to \in DOMAIN ns => to \in gone
    BY <1>2, <1>4, NetworkAssumption DEF IsCluster
  <2>7. shown = [c \in emptied |-> SaturateNode("cluster", [group |-> c, hardLink |-> FALSE])]
    OBVIOUS
  <2>8. DOMAIN new = (DOMAIN ns \ gone) \cup emptied
    BY <2>2, <2>4 DEF Along
  <2>9. n \in DOMAIN ns \ gone BY <2>3
  <2>10. new[n] = it BY <2>2, <2>8, <2>9 DEF Along
  <2>11. \A i \in DOMAIN ns \ gone : i # n => new[i] = ns[i]
    BY <2>2, <2>4 DEF Along
  <2>12. emptied \subseteq {from} OBVIOUS
  <2>13. \A c \in emptied : /\ new[c] = SaturateNode("cluster", [group |-> c, hardLink |-> FALSE])
                            /\ new[c] \in Node /\ new[c].type = "cluster" /\ new[c].group = c
                            /\ new[c].look = Look(new[c])
    <3> SUFFICES ASSUME NEW c \in emptied
                 PROVE  /\ new[c] = SaturateNode("cluster", [group |-> c, hardLink |-> FALSE])
                        /\ new[c] \in Node /\ new[c].type = "cluster" /\ new[c].group = c
                        /\ new[c].look = Look(new[c])
      OBVIOUS
    <3>1. c = from /\ c # n /\ c \notin DOMAIN destroyed BY <2>3, <2>4, <2>5
    <3>2. new[c] = SaturateNode("cluster", [group |-> c, hardLink |-> FALSE])
      BY <2>2, <3>1 DEF Along
    <3>3. [group |-> c, hardLink |-> FALSE] \in Placement BY <1>2, <3>1 DEF Placement
    <3> QED BY <3>2, <3>3, NodeIs
  <2>14. GetNodes(destroyed, from) = GetNodes(ns, from)
    <3>1. \A i \in gone : ns[i].group # from BY <1>5, <1>7 DEF IsCluster
    <3> QED BY <2>4, <3>1 DEF GetNodes
  <2>15. \/ emptied = {from} /\ GetNodes(ns, from) = {n}
         \/ emptied = {} /\ \E m \in GetNodes(ns, from) : m # n
    <3>1. n \in GetNodes(ns, from) /\ IsFiniteSet(GetNodes(ns, from))
      <4>1. GetNodes(ns, from) \in SUBSET DOMAIN ns BY DEF GetNodes
      <4> QED BY <4>1, FS_Subset DEF Graph, GetNodes
    <3>2. Cardinality(GetNodes(ns, from)) = 1 <=> \E x : GetNodes(ns, from) = {x}
      BY <3>1, FS_Singleton
    <3>3. CASE Cardinality(GetNodes(ns, from)) = 1 BY <2>14, <3>1, <3>2, <3>3
    <3>4. CASE Cardinality(GetNodes(ns, from)) # 1
      <4>1. GetNodes(ns, from) # {n} BY <3>2, <3>4
      <4> QED BY <2>14, <3>1, <3>4, <4>1
    <3> QED BY <3>3, <3>4
  <2> HIDE DEF new, it, destroyed, emptied, shown, still
  <2>16. \A i \in DOMAIN new : i = n \/ i \in DOMAIN ns \ gone \/ i \in emptied
    BY <2>8
  <2>17. GetClusters(new) = GetClusters(ns)
    <3>1. ASSUME NEW i \in DOMAIN new PROVE new[i].group \in GetClusters(ns)
      <4>1. from \in GetClusters(ns) BY DEF GetClusters
      <4>2. CASE i \in emptied BY <2>12, <2>13, <4>1, <4>2
      <4>3. CASE i # n /\ i \in DOMAIN ns \ gone BY <2>11, <4>3 DEF GetClusters
      <4> QED BY <1>3, <2>10, <2>16, <4>2, <4>3
    <3>2. ASSUME NEW i \in DOMAIN ns PROVE \E j \in DOMAIN new : new[j].group = ns[i].group
      <4>1. CASE i \in gone BY <1>3, <1>5, <2>8, <2>9, <2>10, <4>1 DEF IsCluster
      <4>2. CASE i = n
        <5>1. CASE emptied = {from} BY <2>8, <2>13, <4>2, <5>1
        <5>2. CASE \E m \in GetNodes(ns, from) : m # n
          <6>1. PICK m \in GetNodes(ns, from) : m # n BY <5>2
          <6>2. m \in DOMAIN ns /\ ns[m].group = from BY DEF GetNodes
          <6>3. m \notin gone BY <1>5, <1>7, <6>2 DEF IsCluster
          <6> QED BY <2>8, <2>11, <4>2, <6>1, <6>2, <6>3
        <5> QED BY <2>15, <5>1, <5>2
      <4>3. CASE i # n /\ i \notin gone BY <2>8, <2>11, <4>3
      <4> QED BY <4>1, <4>2, <4>3
    <3> QED BY <3>1, <3>2 DEF GetClusters
  <2>18. Graph(new)
    <3>1. DOMAIN new \subseteq NodeId BY <1>2, <2>8, <2>12 DEF Graph, NodeId
    <3>2. IsFiniteSet(DOMAIN new)
      <4>1. IsFiniteSet(DOMAIN ns \ gone) BY FS_Subset, DOMAIN ns \ gone \in SUBSET DOMAIN ns DEF Graph
      <4>2. IsFiniteSet((DOMAIN ns \ gone) \cup {from}) BY <4>1, FS_AddElement
      <4>3. DOMAIN new \in SUBSET ((DOMAIN ns \ gone) \cup {from}) BY <2>8, <2>12
      <4> QED BY <4>2, <4>3, FS_Subset
    <3>3. ASSUME NEW i \in DOMAIN new PROVE new[i] \in Node /\ new[i].look = Look(new[i])
      <4>1. CASE i = n BY <1>3, <2>10, <4>1
      <4>2. CASE i \in emptied BY <2>13, <4>2
      <4>3. CASE i # n /\ i \in DOMAIN ns \ gone BY <2>11, <4>3 DEF Graph
      <4> QED BY <2>16, <4>1, <4>2, <4>3
    <3>4. ASSUME NEW i \in DOMAIN new PROVE new[i].type = "node" <=> i \in Record
      <4>1. CASE i = n BY <1>1, <1>3, <2>10, <4>1
      <4>2. CASE i \in emptied BY <1>2, <2>12, <2>13, <4>2, NetworkAssumption
      <4>3. CASE i # n /\ i \in DOMAIN ns \ gone BY <2>11, <4>3 DEF Graph
      <4> QED BY <2>16, <4>1, <4>2, <4>3
    <3>5. ASSUME NEW i \in DOMAIN new, new[i].type = "cluster" PROVE GetNodes(new, i) = {i}
      <4>1. CASE i \in emptied
        <5>1. i = from /\ GetNodes(ns, from) = {n} /\ emptied = {from} BY <2>12, <2>15, <4>1
        <5>2. new[i].group = i BY <2>13, <4>1
        <5>3. ASSUME NEW j \in DOMAIN new, new[j].group = i PROVE j = i
          <6>1. j # n BY <1>3, <1>7, <2>10, <5>1, <5>3
          <6> QED BY <2>11, <2>16, <5>1, <5>3, <6>1 DEF GetNodes
        <5> QED BY <5>2, <5>3 DEF GetNodes
      <4>2. CASE i # n /\ i \in DOMAIN ns \ gone
        <5>1. new[i] = ns[i] /\ ns[i].type = "cluster" /\ ns[i].group = i BY <1>5, <2>11, <3>5, <4>2
        <5>2. i # from /\ i # to BY <2>5, <2>6, <4>2
        <5>3. ASSUME NEW j \in DOMAIN new, new[j].group = i PROVE j = i
          BY <1>3, <1>5, <2>10, <2>11, <2>12, <2>13, <2>16, <5>1, <5>2, <5>3
        <5> QED BY <5>1, <5>3 DEF GetNodes
      <4>3. i # n BY <1>3, <2>10, <3>5
      <4> QED BY <2>16, <4>1, <4>2, <4>3
    <3> QED BY <3>1, <3>2, <3>3, <3>4, <3>5 DEF Graph
  <2>19. \A r \in Record : r \notin gone /\ r \notin emptied
    BY <1>2, <2>12, NetworkAssumption
  <2>20. /\ \A r \in Record : r \in DOMAIN new <=> r \in DOMAIN ns
         /\ \A r \in Record \ {n} : r \in DOMAIN ns => new[r] = ns[r]
    BY <2>8, <2>11, <2>19
  <2> QED BY <1>1, <2>10, <2>17, <2>18, <2>20 DEF new, it
<1> QED BY <1>6, <1>7

-----------------------------------------------------------------------------
(* Pages *)

Tracked(ns, track) ==
    /\ \A entry \in track : entry[1] = "cluster" => entry[2] \in GetClusters(ns)
    /\ \A r \in Record, c \in UPCI : <<"reassigned", r, c>> \in track => r \in DOMAIN ns

Listed(ns, track, old) ==
    /\ DOMAIN old \subseteq DOMAIN ns \cap Record
    /\ \A r \in DOMAIN old :
          /\ ns[r].group # old[r].group => <<"reassigned", r, ns[r].group>> \in track
          /\ ns[r].hardLink # old[r].hardLink => <<"hardlink", r, ns[r].hardLink>> \in track

\* e is the one edge between r and s.
OneEdge(es, r, s, e) == Touching(es, r) \cap Touching(es, s) = {e} /\ es[e] = 1

Linked(ns, es, track) ==
    \A r, s \in DOMAIN ns \cap Record :
        (/\ r # s /\ \E c \in UPCI : <<"reassigned", r, c>> \in track
         /\ ns[r].group = ns[s].group)
            => \E e \in DOMAIN es : OneEdge(es, r, s, e)

\* A find asks for a cluster that is not on the page, and none gets there meanwhile.
Asking(ns, ask) == ask.kind = "details" => ask.upci \in UPCI \ GetClusters(ns)

\* What is true of a page that has these nodes, edges, changes, this request and this
\* history, when the clusters of the database are cl.
Page(ns, es, track, ask, old, cut, cl) ==
    /\ Graph(ns) /\ Drawn(es) /\ GetClusters(ns) \subseteq cl
    /\ Tracked(ns, track) /\ Listed(ns, track, old) /\ Asking(ns, ask)
    /\ ~cut => Linked(ns, es, track)

LEMMA EmptyPage == ASSUME NEW cl PROVE Page(<<>>, EmptyBag, {}, NoRequest, <<>>, FALSE, cl)
<1>1. DOMAIN <<>> = {} OBVIOUS
<1>2. IsFiniteSet({}) BY FS_EmptySet
<1>3. IsABag(EmptyBag) /\ DOMAIN EmptyBag = {} BY DEF IsABag, EmptyBag, SetToBag
<1> QED BY <1>1, <1>2, <1>3
        DEF Page, Graph, Drawn, GetClusters, Tracked, Listed, Asking, Linked, NoRequest

\* Whatever becomes of the database, clusters stay.
LEMMA PageStays ==
    ASSUME NEW ns, NEW es, NEW track, NEW ask, NEW old, NEW cut, NEW cl, NEW cm, cl \subseteq cm,
           Page(ns, es, track, ask, old, cut, cl)
    PROVE  Page(ns, es, track, ask, old, cut, cm)
BY DEF Page

\* An edit to the edges alone, once the page is cut.
LEMMA CutKeeps ==
    ASSUME NEW ns, NEW es, NEW track, NEW ask, NEW old, NEW cut, NEW cl,
           Page(ns, es, track, ask, old, cut, cl), NEW et, Drawn(et)
    PROVE  Page(ns, et, track, ask, old, TRUE, cl)
BY DEF Page

LEMMA EdgeKeeps ==
    ASSUME NEW ns, NEW es, NEW track, NEW ask, NEW old, NEW cut \in BOOLEAN, NEW cl,
           Page(ns, es, track, ask, old, cut, cl),
           NEW i \in DOMAIN ns, NEW j \in DOMAIN ns, i # j, ~EdgeExists(es, i, j)
    PROVE  Page(ns, es (+) SetToBag({SaturateEdge(i, j, Certain)}), track \cup {<<"edge", i, j>>},
                ask, old, cut, cl)
<1> DEFINE d == SaturateEdge(i, j, Certain)
           et == es (+) SetToBag({d})
           tt == track \cup {<<"edge", i, j>>}
<1>1. d \in Edge /\ d.from = i /\ d.to = j
  BY EdgeIs, NetworkAssumption DEF Page, Graph
<1> HIDE DEF d
<1>2. IsABag(es) /\ d \notin DOMAIN es BY <1>1 DEF Page, Drawn, EdgeExists
<1>3. IsABag(et) /\ DOMAIN et = DOMAIN es \cup {d} /\ \A e \in DOMAIN es : et[e] = es[e]
  <2>1. /\ IsABag(et) /\ DOMAIN et = DOMAIN es \cup {d}
        /\ \A e \in DOMAIN es \ {d} : et[e] = es[e]
    BY <1>2, AddedToBag, Zenon
  <2> QED BY <1>2, <2>1
<1> HIDE DEF et
<1>4. Drawn(et) BY <1>1, <1>3 DEF Page, Drawn
<1>5. Tracked(ns, tt) /\ Listed(ns, tt, old) BY DEF Page, Tracked, Listed
<1>6. ASSUME Linked(ns, es, track) PROVE Linked(ns, et, tt)
  <2> SUFFICES ASSUME NEW r \in DOMAIN ns \cap Record, NEW s \in DOMAIN ns \cap Record, r # s,
                      NEW c \in UPCI, <<"reassigned", r, c>> \in tt, ns[r].group = ns[s].group
               PROVE  \E e \in DOMAIN et : OneEdge(et, r, s, e)
    BY DEF Linked
  <2>1. PICK e \in DOMAIN es : OneEdge(es, r, s, e) BY <1>6 DEF Linked
  <2>2. {e.from, e.to} = {r, s} BY <2>1 DEF OneEdge, Touching
  <2>3. {i, j} # {r, s} BY <2>2 DEF EdgeExists
  <2>4. ~(r \in {d.from, d.to} /\ s \in {d.from, d.to}) BY <1>1, <2>3
  <2>5. Touching(et, r) \cap Touching(et, s) = Touching(es, r) \cap Touching(es, s)
    BY <1>3, <2>4 DEF Touching
  <2> QED BY <1>3, <2>1, <2>5 DEF OneEdge
<1> QED BY <1>4, <1>5, <1>6 DEF Page, et, d

\* What the edit form makes of the edges and of the list.
Relinked(ns, es, n, to) == IF to # ns[n].group THEN ReassignedEdges(ns, es, n, to) ELSE es
Extended(ns, track, n, to, hard) ==
    track \cup (IF to # ns[n].group THEN {<<"reassigned", n, to>>} ELSE {})
          \cup (IF hard # ns[n].hardLink THEN {<<"hardlink", n, hard>>} ELSE {})

\* What it lets an operator choose.
Editable(ns, n, to, hard) ==
    n \in DOMAIN ns /\ ns[n].type = "node" /\ to \in GetClusters(ns) /\ hard \in BOOLEAN

LEMMA EditKeeps ==
    ASSUME NEW ns, NEW es, NEW track, NEW ask, NEW old, NEW cut \in BOOLEAN, NEW cl,
           Page(ns, es, track, ask, old, cut, cl),
           NEW n, NEW to, NEW hard, Editable(ns, n, to, hard),
           NEW new, new = Edited(ns, n, to, hard),
           NEW et, et = Relinked(ns, es, n, to), NEW tt, tt = Extended(ns, track, n, to, hard)
    PROVE  Page(new, et, tt, ask, old, cut, cl)
<1> USE DEF Relinked, Extended
<1> DEFINE it == SaturateNode("node", [group |-> to, hardLink |-> hard])
           mates == GetNodes(ns, to) \ {to}
           added == {SaturateEdge(n, m, Certain) : m \in mates}
           left == Without(es, Touching(es, n))
<1> USE DEF Editable
<1>1. Graph(ns) /\ Drawn(es) BY DEF Page
<1>2. /\ Graph(new) /\ GetClusters(new) = GetClusters(ns) /\ new[n] = it /\ n \in Record
      /\ \A r \in Record : r \in DOMAIN new <=> r \in DOMAIN ns
      /\ \A r \in Record \ {n} : r \in DOMAIN ns => new[r] = ns[r]
  BY <1>1, EditedNodes
<1>3. it.group = to /\ it.hardLink = hard BY DEF SaturateNode
<1> HIDE DEF it
<1>4. \A m \in mates : /\ SaturateEdge(n, m, Certain) \in Edge
                       /\ SaturateEdge(n, m, Certain).from = n
                       /\ SaturateEdge(n, m, Certain).to = m
  <2>1. n \in NodeId /\ \A m \in mates : m \in NodeId BY <1>1 DEF Graph, GetNodes
  <2> QED BY <2>1, EdgeIs, NetworkAssumption
<1>5. IsABag(left) /\ DOMAIN left = DOMAIN es \ Touching(es, n) /\ \A e \in DOMAIN left : left[e] = es[e]
  <2>1. IsABag(es) BY <1>1 DEF Drawn
  <2>2. /\ IsABag(left) /\ DOMAIN left = DOMAIN es \ Touching(es, n)
        /\ \A e \in DOMAIN es \ Touching(es, n) : left[e] = es[e]
    BY <2>1, LeftInBag, Zenon
  <2> QED BY <2>2
<1>6. ASSUME to # ns[n].group
      PROVE  /\ IsABag(et) /\ DOMAIN et = (DOMAIN es \ Touching(es, n)) \cup added
             /\ \A e \in added : et[e] = 1
             /\ \A e \in DOMAIN es \ Touching(es, n) : et[e] = es[e]
  <2>1. et = left (+) SetToBag(added) BY <1>6 DEF ReassignedEdges
  <2> HIDE DEF left
  <2>2. \A e \in added : e.from = n BY <1>4
  <2>3. \A e \in added : e \notin DOMAIN left BY <1>5, <2>2 DEF Touching
  <2> HIDE DEF added
  <2>4. /\ IsABag(left (+) SetToBag(added))
        /\ DOMAIN (left (+) SetToBag(added)) = DOMAIN left \cup added
        /\ \A e \in added \ DOMAIN left : (left (+) SetToBag(added))[e] = 1
        /\ \A e \in DOMAIN left \ added : (left (+) SetToBag(added))[e] = left[e]
    <3>1. IsABag(left) BY <1>5
    <3> QED BY <3>1, AddedToBag, Zenon
  <2> QED BY <1>5, <2>1, <2>3, <2>4
<1> HIDE DEF left
<1>7. Drawn(et)
  <2>1. CASE to = ns[n].group BY <1>1, <2>1
  <2>2. CASE to # ns[n].group BY <1>1, <1>4, <1>6, <2>2 DEF Drawn
  <2> QED BY <2>1, <2>2
<1>8. Tracked(new, tt)
  <2>1. ASSUME NEW entry \in tt, entry[1] = "cluster" PROVE entry[2] \in GetClusters(ns)
    <3>1. entry \in track BY <2>1
    <3> QED BY <2>1, <3>1 DEF Page, Tracked
  <2>2. ASSUME NEW r \in Record, NEW c \in UPCI, <<"reassigned", r, c>> \in tt PROVE r \in DOMAIN ns
    <3>1. <<"reassigned", r, c>> \in track \/ r = n BY <2>2
    <3> QED BY <2>2, <3>1 DEF Page, Tracked
  <2> QED BY <1>2, <2>1, <2>2 DEF Tracked
<1>9. Listed(new, tt, old)
  <2>1. DOMAIN old \subseteq DOMAIN new \cap Record BY <1>2 DEF Page, Listed
  <2>2. ASSUME NEW r \in DOMAIN old
        PROVE  /\ new[r].group # old[r].group => <<"reassigned", r, new[r].group>> \in tt
               /\ new[r].hardLink # old[r].hardLink => <<"hardlink", r, new[r].hardLink>> \in tt
    <3>1. /\ r \in DOMAIN ns \cap Record
          /\ ns[r].group # old[r].group => <<"reassigned", r, ns[r].group>> \in track
          /\ ns[r].hardLink # old[r].hardLink => <<"hardlink", r, ns[r].hardLink>> \in track
      BY DEF Page, Listed
    <3>2. CASE r # n BY <1>2, <3>1, <3>2
    <3>3. CASE r = n BY <1>2, <1>3, <3>1, <3>3
    <3> QED BY <3>2, <3>3
  <2> QED BY <2>1, <2>2 DEF Listed
<1>10. Asking(new, ask) BY <1>2 DEF Page, Asking
<1>11. ASSUME Linked(ns, es, track) PROVE Linked(new, et, tt)
  <2> SUFFICES ASSUME NEW r \in DOMAIN new \cap Record, NEW s \in DOMAIN new \cap Record, r # s,
                      NEW c \in UPCI, <<"reassigned", r, c>> \in tt, new[r].group = new[s].group
               PROVE  \E e \in DOMAIN et : OneEdge(et, r, s, e)
    BY DEF Linked
  <2>1. r \in DOMAIN ns /\ s \in DOMAIN ns BY <1>2
  <2>2. ASSUME r # n, s # n
        PROVE  \E e \in DOMAIN es : OneEdge(es, r, s, e) /\ {e.from, e.to} = {r, s}
    <3>1. <<"reassigned", r, c>> \in track BY <2>2
    <3>2. ns[r].group = ns[s].group BY <1>2, <2>1, <2>2
    <3>3. PICK e \in DOMAIN es : OneEdge(es, r, s, e) BY <1>11, <2>1, <3>1, <3>2 DEF Linked
    <3> QED BY <3>3 DEF OneEdge, Touching
  <2>3. CASE to = ns[n].group
    <3>1. et = es /\ <<"reassigned", r, c>> \in track BY <2>3
    <3>2. \A q \in Record : q \in DOMAIN ns => new[q].group = ns[q].group BY <1>2, <1>3, <2>3
    <3>3. ns[r].group = ns[s].group BY <2>1, <3>2
    <3> QED BY <1>11, <2>1, <3>1, <3>3 DEF Linked
  <2>4. CASE to # ns[n].group /\ r # n /\ s # n
    <3>1. PICK e \in DOMAIN es : OneEdge(es, r, s, e) /\ {e.from, e.to} = {r, s} BY <2>2, <2>4
    <3>2. e \notin Touching(es, n) BY <2>4, <3>1 DEF Touching
    <3>3. \A d \in added : ~(r \in {d.from, d.to} /\ s \in {d.from, d.to}) BY <1>4, <2>4
    <3>4. \A d \in Touching(es, n) : ~(r \in {d.from, d.to} /\ s \in {d.from, d.to})
      BY <2>4 DEF Touching
    <3>5. Touching(et, r) \cap Touching(et, s) = Touching(es, r) \cap Touching(es, s)
      <4> HIDE DEF added
      <4>1. DOMAIN et = (DOMAIN es \ Touching(es, n)) \cup added BY <1>6, <2>4
      <4> QED BY <3>3, <3>4, <4>1 DEF Touching
    <3>6. e \in DOMAIN et /\ et[e] = es[e] BY <1>6, <2>4, <3>2
    <3> QED BY <3>1, <3>5, <3>6 DEF OneEdge
  <2>5. ASSUME to # ns[n].group, NEW m \in DOMAIN ns \cap Record, m # n, new[m].group = to
        PROVE  \E e \in DOMAIN et : OneEdge(et, n, m, e) /\ OneEdge(et, m, n, e)
    <3> DEFINE e == SaturateEdge(n, m, Certain)
    <3>1. m \in mates
      <4>1. ns[m].group = to BY <1>2, <2>5
      <4>2. to \in UPCI BY <1>1 DEF GetClusters, Graph, Node
      <4> QED BY <2>5, <4>1, <4>2, NetworkAssumption DEF GetNodes
    <3>2. e \in added /\ e.from = n /\ e.to = m BY <1>4, <3>1
    <3>3. e \in DOMAIN et /\ et[e] = 1 BY <1>6, <2>5, <3>2
    <3>4. ASSUME NEW d \in DOMAIN et, n \in {d.from, d.to}, m \in {d.from, d.to} PROVE d = e
      <4>1. d \in added BY <1>6, <2>5, <3>4 DEF Touching
      <4>2. PICK k \in mates : d = SaturateEdge(n, k, Certain) BY <4>1
      <4>3. k = m BY <1>4, <2>5, <3>4, <4>2
      <4> QED BY <4>2, <4>3
    <3> HIDE DEF e
    <3>5. Touching(et, n) \cap Touching(et, m) = {e} BY <3>2, <3>3, <3>4 DEF Touching
    <3> QED BY <3>3, <3>5 DEF OneEdge
  <2>6. CASE to # ns[n].group /\ r = n BY <1>2, <1>3, <2>1, <2>5, <2>6
  <2>7. CASE to # ns[n].group /\ s = n BY <1>2, <1>3, <2>1, <2>5, <2>7
  <2> QED BY <2>3, <2>4, <2>6, <2>7
<1> QED BY <1>2, <1>7, <1>8, <1>9, <1>10, <1>11 DEF Page

\* What a page becomes by it.
Shows(ns, placed, t) == Along(ns, [i \in DOMAIN placed |-> SaturateNode(t, placed[i])])
Draws(es, S) == es (+) SetToBag(S)
Lists(track, c) == track \cup {<<"cluster", c>>}
Knows(old, placed, t) == IF t = "node" THEN Along(placed, old) ELSE old

\* An answer to a find: cluster c, which the page has not, its nodes and its edges.
Answered(ns, c, placed, t, S) ==
    /\ c \in UPCI \ GetClusters(ns) /\ t \in {"node", "cluster"}
    /\ IsFiniteSet(DOMAIN placed) /\ DOMAIN placed # {}
    /\ \A i \in DOMAIN placed : placed[i] \in Placement /\ placed[i].group = c
    /\ t = "node" => DOMAIN placed \subseteq Record
    /\ t = "cluster" => DOMAIN placed = {c}
    /\ S \subseteq Edge /\ \A e \in S : e.from \in DOMAIN placed

LEMMA FoundKeeps ==
    ASSUME NEW ns, NEW es, NEW track, NEW ask, NEW old, NEW cut \in BOOLEAN, NEW cl,
           Page(ns, es, track, ask, old, cut, cl),
           NEW c \in cl, NEW placed, NEW t, NEW S, Answered(ns, c, placed, t, S),
           DOMAIN placed \cap DOMAIN ns = {},
           NEW new, new = Shows(ns, placed, t), NEW et, et = Draws(es, S),
           NEW tt, tt = Lists(track, c), NEW known, known = Knows(old, placed, t)
    PROVE  Page(new, et, tt, NoRequest, known, cut, cl)
<1> USE DEF Answered, Draws, Lists, Knows
<1>1. Graph(ns) /\ Drawn(es) BY DEF Page
<1>2. /\ DOMAIN new = DOMAIN ns \cup DOMAIN placed
      /\ \A i \in DOMAIN ns : new[i] = ns[i]
      /\ \A i \in DOMAIN placed : new[i] = SaturateNode(t, placed[i])
  BY DEF Along, Shows
<1>3. \A i \in DOMAIN placed : /\ new[i] \in Node /\ new[i].type = t /\ new[i].group = c
                               /\ new[i].hardLink = placed[i].hardLink /\ new[i].look = Look(new[i])
  BY <1>2, NodeIs
<1>4. GetClusters(new) = GetClusters(ns) \cup {c}
  <2>1. ASSUME NEW i \in DOMAIN new PROVE new[i].group \in GetClusters(ns) \cup {c}
    BY <1>2, <1>3 DEF GetClusters
  <2>2. \A i \in DOMAIN ns : i \in DOMAIN new /\ new[i].group = ns[i].group BY <1>2
  <2>3. \E i \in DOMAIN new : new[i].group = c BY <1>2, <1>3
  <2> QED BY <2>1, <2>2, <2>3 DEF GetClusters
<1>5. Graph(new)
  <2>1. DOMAIN new \subseteq NodeId BY <1>1, <1>2 DEF Graph, NodeId
  <2>2. IsFiniteSet(DOMAIN new)
    <3>1. IsFiniteSet(DOMAIN ns \cup DOMAIN placed) BY <1>1, FS_Union DEF Graph
    <3> QED BY <1>2, <3>1
  <2>3. \A i \in DOMAIN new : new[i] \in Node /\ new[i].look = Look(new[i])
    BY <1>1, <1>2, <1>3 DEF Graph
  <2>4. \A i \in DOMAIN new : new[i].type = "node" <=> i \in Record
    BY <1>1, <1>2, <1>3, NetworkAssumption DEF Graph
  <2>5. ASSUME NEW i \in DOMAIN new, new[i].type = "cluster" PROVE GetNodes(new, i) = {i}
    <3>1. CASE i \in DOMAIN ns
      <4>1. ns[i].type = "cluster" /\ GetNodes(ns, i) = {i} BY <1>1, <1>2, <2>5, <3>1 DEF Graph
      <4>2. i # c BY <4>1 DEF GetNodes, GetClusters
      <4> QED BY <1>2, <1>3, <4>1, <4>2 DEF GetNodes
    <3>2. CASE i \in DOMAIN placed
      <4>1. i = c /\ DOMAIN placed = {c} BY <1>3, <2>5, <3>2
      <4>2. \A j \in DOMAIN ns : ns[j].group # c BY DEF GetClusters
      <4> QED BY <1>2, <1>3, <4>1, <4>2 DEF GetNodes
    <3> QED BY <1>2, <3>1, <3>2
  <2> QED BY <2>1, <2>2, <2>3, <2>4, <2>5 DEF Graph
<1>6. /\ IsABag(et) /\ DOMAIN et = DOMAIN es \cup S
      /\ \A e \in DOMAIN es \ S : et[e] = es[e]
  <2>1. IsABag(es) BY <1>1 DEF Drawn
  <2>2. /\ IsABag(es (+) SetToBag(S)) /\ DOMAIN (es (+) SetToBag(S)) = DOMAIN es \cup S
        /\ \A e \in DOMAIN es \ S : (es (+) SetToBag(S))[e] = es[e]
    BY <2>1, AddedToBag, Zenon
  <2> QED BY <2>2
<1>7. Drawn(et) BY <1>1, <1>6 DEF Drawn
<1>8. Tracked(new, tt)
  <2>1. ASSUME NEW entry \in tt, entry[1] = "cluster" PROVE entry[2] \in GetClusters(new)
    <3>1. CASE entry \in track BY <1>4, <2>1, <3>1 DEF Page, Tracked
    <3>2. CASE entry = <<"cluster", c>> BY <1>4, <3>2
    <3> QED BY <2>1, <3>1, <3>2
  <2>2. ASSUME NEW r \in Record, NEW d \in UPCI, <<"reassigned", r, d>> \in tt PROVE r \in DOMAIN new
    <3>1. <<"reassigned", r, d>> \in track BY <2>2
    <3> QED BY <1>2, <3>1 DEF Page, Tracked
  <2> QED BY <2>1, <2>2 DEF Tracked
<1>9. Listed(new, tt, known)
  <2>1. /\ DOMAIN known \subseteq DOMAIN new \cap Record
        /\ \A r \in DOMAIN known :
              \/ r \in DOMAIN placed /\ known[r] = placed[r]
              \/ r \in DOMAIN old /\ known[r] = old[r]
    BY <1>2 DEF Along, Page, Listed
  <2>2. \A r \in DOMAIN old :
          /\ r \in DOMAIN ns
          /\ ns[r].group # old[r].group => <<"reassigned", r, ns[r].group>> \in track
          /\ ns[r].hardLink # old[r].hardLink => <<"hardlink", r, ns[r].hardLink>> \in track
    BY DEF Page, Listed
  <2>3. ASSUME NEW r \in DOMAIN known
        PROVE  /\ new[r].group # known[r].group => <<"reassigned", r, new[r].group>> \in tt
               /\ new[r].hardLink # known[r].hardLink => <<"hardlink", r, new[r].hardLink>> \in tt
    <3>1. CASE r \in DOMAIN placed /\ known[r] = placed[r] BY <1>3, <3>1
    <3>2. CASE r \in DOMAIN old /\ known[r] = old[r] BY <1>2, <2>2, <3>2
    <3> QED BY <2>1, <3>1, <3>2
  <2> QED BY <2>1, <2>3 DEF Listed
<1>10. ASSUME Linked(ns, es, track) PROVE Linked(new, et, tt)
  <2> SUFFICES ASSUME NEW r \in DOMAIN new \cap Record, NEW s \in DOMAIN new \cap Record, r # s,
                      NEW d \in UPCI, <<"reassigned", r, d>> \in tt, new[r].group = new[s].group
               PROVE  \E e \in DOMAIN et : OneEdge(et, r, s, e)
    BY DEF Linked
  <2>1. <<"reassigned", r, d>> \in track OBVIOUS
  <2>2. r \in DOMAIN ns /\ r \notin DOMAIN placed BY <2>1 DEF Page, Tracked
  <2>3. ns[r].group # c BY <2>2 DEF GetClusters
  <2>4. s \in DOMAIN ns /\ s \notin DOMAIN placed BY <1>2, <1>3, <2>2, <2>3
  <2>5. PICK e \in DOMAIN es : OneEdge(es, r, s, e) BY <1>2, <1>10, <2>1, <2>2, <2>4 DEF Linked
  <2>6. {e.from, e.to} = {r, s} BY <2>5 DEF OneEdge, Touching
  <2>7. \A f \in S : ~(r \in {f.from, f.to} /\ s \in {f.from, f.to}) BY <2>2, <2>4
  <2>8. e \notin S BY <2>2, <2>4, <2>6
  <2>9. Touching(et, r) \cap Touching(et, s) = Touching(es, r) \cap Touching(es, s)
    BY <1>6, <2>7 DEF Touching
  <2> QED BY <1>6, <2>5, <2>8, <2>9 DEF OneEdge
<1>11. Asking(new, NoRequest) BY DEF Asking, NoRequest
<1>12. GetClusters(new) \subseteq cl BY <1>4 DEF Page
<1> QED BY <1>5, <1>7, <1>8, <1>9, <1>10, <1>11, <1>12 DEF Page

-----------------------------------------------------------------------------
(* The invariant *)

Shown(o) ==
    Page(nodes[o], edges[o], changeTracker[o], asked[o], loaded[o], pruned[o], clusters)

Pages ==
    /\ DOMAIN nodes = Operator /\ DOMAIN edges = Operator /\ DOMAIN changeTracker = Operator
    /\ DOMAIN asked = Operator /\ DOMAIN loaded = Operator
    /\ finding \in [Operator -> BOOLEAN] /\ mayReassign \in [Operator -> BOOLEAN]
    /\ pruned \in [Operator -> BOOLEAN]
    /\ \A o \in Operator : Shown(o)

Store ==
    /\ membership \subseteq Row /\ links \subseteq Link /\ clusters \subseteq UPCI
    /\ attributes \subseteq [node : Record, cluster : UPCI]
    /\ phase \in {"rest", "resolved", "adopted"}
    /\ KeepsRecords /\ SearchAgrees

\* What a page sends to be saved, however long ago.
Network(network) ==
    /\ network.upcis \subseteq UPCI
    /\ DOMAIN network.nodes \subseteq Record
    /\ \A r \in DOMAIN network.nodes :
          network.nodes[r] \in Placement /\ network.nodes[r].group \in network.upcis
    /\ DOMAIN network.edges \subseteq Edge

IInv == Pages /\ Store /\ \A network \in late : Network(network)

LEMMA PageSends ==
    ASSUME NEW o \in Operator, Shown(o) PROVE Network(NetworkOf(o))
<1>1. Graph(nodes[o]) /\ Drawn(edges[o]) BY DEF Shown, Page
<1> DEFINE ns == nodes[o]
           sent == GetNetwork(ns, edges[o])
           kept == {j \in DOMAIN ns : ns[j].type = "node"}
<1>2. sent.upcis = GetClusters(ns) BY DEF GetNetwork
<1>3. sent.nodes = [i \in kept |-> [group |-> ns[i].group, hardLink |-> ns[i].hardLink]]
  BY DEF GetNetwork
<1>4. DOMAIN sent.edges \subseteq DOMAIN edges[o] BY DEF GetNetwork, GetEdges
<1>5. \A i \in DOMAIN ns : /\ ns[i].group \in UPCI /\ ns[i].hardLink \in BOOLEAN
                           /\ ns[i].type = "node" => i \in Record
  BY <1>1 DEF Graph, Node
<1> HIDE DEF sent
<1>6. sent.upcis \subseteq UPCI BY <1>2, <1>5 DEF GetClusters
<1>7. DOMAIN sent.nodes = kept /\ kept \subseteq Record BY <1>3, <1>5
<1>8. ASSUME NEW r \in kept PROVE sent.nodes[r] \in Placement /\ sent.nodes[r].group \in sent.upcis
  BY <1>2, <1>3, <1>5 DEF Placement, GetClusters
<1>9. DOMAIN sent.edges \subseteq Edge BY <1>1, <1>4 DEF Drawn
<1>10. Network(sent) BY <1>6, <1>7, <1>8, <1>9 DEF Network
<1> QED BY <1>10 DEF NetworkOf, sent

-----------------------------------------------------------------------------
(* Steps of the database *)

OneRow(rows, r) == \E m \in rows : {n \in rows : n.node = r} = {m}

\* Rows that change keep their record.
LEMMA RowsStay ==
    ASSUME NEW M, \A r \in Record : OneRow(M, r), NEW N, NEW f,
           \A m \in M : f[m] \in N /\ f[m].node = m.node, \A n \in N : \E m \in M : n = f[m]
    PROVE  \A r \in Record : OneRow(N, r)
<1> SUFFICES ASSUME NEW r \in Record PROVE OneRow(N, r) OBVIOUS
<1>1. PICK m \in M : {n \in M : n.node = r} = {m} BY DEF OneRow
<1>2. m.node = r /\ \A n \in M : n.node = r => n = m BY <1>1
<1>3. {n \in N : n.node = r} = {f[m]} BY <1>2
<1> QED BY <1>2, <1>3 DEF OneRow

\* Clusters that are saved hold as many records as are sent, hence these.
LEMMA SavesThemAll ==
    ASSUME Store, NEW network, Network(network), Accepts(network)
    PROVE  Names(RowsOf(network.upcis)) = DOMAIN network.nodes
<1> DEFINE existing == RowsOf(network.upcis)
           names == Names(existing)
           row == [r \in names |-> CHOOSE m \in existing : m.node = r]
<1>1. existing \subseteq membership /\ membership \subseteq Row BY DEF RowsOf, Store
<1>2. \A r \in Record : OneRow(membership, r) BY DEF Store, KeepsRecords, OneRow
<1>3. names \subseteq Record BY <1>1 DEF Names, Row
<1>4. \A m, n \in existing : m.node = n.node => m = n
  <2> SUFFICES ASSUME NEW m \in existing, NEW n \in existing, m.node = n.node PROVE m = n OBVIOUS
  <2>1. m.node \in Record BY <1>1 DEF Row
  <2>2. PICK k \in membership : {j \in membership : j.node = m.node} = {k} BY <1>2, <2>1 DEF OneRow
  <2> QED BY <1>1, <2>2
<1>5. \A m \in existing : m.node \in names BY DEF Names
<1>6. \A r \in names : \E m \in existing : m.node = r BY DEF Names
<1> HIDE DEF names, existing
<1>7. \A r \in names : row[r] \in existing /\ row[r].node = r BY <1>6
<1>8. \A m \in existing : row[m.node] = m BY <1>4, <1>5, <1>7
<1>9. row \in Bijection(names, existing)
  <2>1. row \in [names -> existing] BY <1>7
  <2>2. \A r, s \in names : row[r] = row[s] => r = s BY <1>7
  <2>3. \A m \in existing : \E r \in names : row[r] = m BY <1>5, <1>8
  <2> HIDE DEF row
  <2>4. row \in Injection(names, existing) BY <2>1, <2>2 DEF Injection, IsInjective
  <2>5. row \in Surjection(names, existing) BY <2>1, <2>3 DEF Surjection
  <2> QED BY <2>4, <2>5 DEF Bijection
<1>10. IsFiniteSet(names) BY <1>3, NetworkAssumption, FS_Subset
<1>11. Cardinality(existing) = Cardinality(names)
  <2>1. ExistsBijection(names, existing) BY <1>9 DEF ExistsBijection
  <2> QED BY <1>10, <2>1, FS_Bijection
<1>12. DOMAIN network.nodes \subseteq names BY DEF Accepts, existing, names
<1>13. Cardinality(DOMAIN network.nodes) = Cardinality(names) BY <1>11 DEF Accepts, existing
<1> HIDE DEF row
<1>14. DOMAIN network.nodes = names
  <2>1. DOMAIN network.nodes \in SUBSET names BY <1>12
  <2> QED BY <1>10, <1>13, <2>1, FS_Subset
<1> QED BY <1>14 DEF names, existing

LEMMA SaveKeeps ==
    ASSUME Store, NEW network, Network(network), Save(network)
    PROVE  Store' /\ clusters' = clusters
<1> DEFINE existing == RowsOf(network.upcis)
           rows == {[node |-> r, cluster |-> network.nodes[r].group,
                     hard |-> network.nodes[r].hardLink] : r \in DOMAIN network.nodes}
           sent == {[from |-> e.from, to |-> e.to, probability |-> e.probability,
                     temp |-> Meaningless] : e \in Kept(network)}
<1>1. /\ Accepts(network) /\ membership' = (membership \ existing) \cup rows
      /\ links' = {l \in links : l.from \notin Names(existing)} \cup sent
      /\ attributes' = {a \in attributes : a.cluster \notin network.upcis} \cup AttributesOf(rows)
      /\ clusters' = clusters /\ phase' = phase
  BY DEF Save
<1>2. Names(existing) = DOMAIN network.nodes BY <1>1, SavesThemAll
<1>3. \A r \in DOMAIN network.nodes :
          r \in Record /\ network.nodes[r].group \in UPCI /\ network.nodes[r].hardLink \in BOOLEAN
  BY DEF Network, Placement
<1>4. rows \subseteq Row BY <1>3 DEF Row
<1>5. sent \subseteq Link
  <2>1. ASSUME NEW e \in Kept(network)
        PROVE  e.from \in Record /\ e.to \in Record /\ e.probability \in Probability
    <3>1. e \in Edge /\ e.from \in DOMAIN network.nodes BY DEF Kept, Network
    <3>2. e.to \in DOMAIN network.nodes BY <1>1, <1>2 DEF Accepts
    <3> QED BY <1>3, <3>1, <3>2 DEF Edge
  <2>2. Meaningless \in Int BY DEF Meaningless
  <2> QED BY <2>1, <2>2 DEF Link
<1> HIDE DEF sent
<1>6. AttributesOf(rows) \subseteq [node : Record, cluster : UPCI] BY <1>4 DEF AttributesOf, Row
<1>7. ASSUME NEW r \in Record PROVE OneRow(membership', r)
  <2>1. PICK m \in membership : {n \in membership : n.node = r} = {m}
    BY DEF Store, KeepsRecords
  <2>2. CASE m.cluster \in network.upcis
    <3>1. m \in existing /\ r \in DOMAIN network.nodes BY <1>2, <2>1, <2>2 DEF RowsOf, Names
    <3> DEFINE k == [node |-> r, cluster |-> network.nodes[r].group,
                     hard |-> network.nodes[r].hardLink]
    <3>2. k \in rows /\ k.node = r /\ \A n \in rows : n.node = r => n = k BY <3>1
    <3> HIDE DEF k
    <3>3. {n \in membership' : n.node = r} = {k}
      <4> HIDE DEF rows, existing
      <4> QED BY <1>1, <2>1, <3>1, <3>2
    <3> QED BY <1>1, <3>2, <3>3 DEF OneRow
  <2>3. CASE m.cluster \notin network.upcis
    <3>1. m \notin existing BY <2>3 DEF RowsOf
    <3>2. r \notin Names(existing) BY <2>1, <3>1 DEF Names, RowsOf
    <3>3. \A n \in rows : n.node # r BY <1>2, <3>2
    <3>4. {n \in membership' : n.node = r} = {m}
      <4> HIDE DEF rows, existing
      <4> QED BY <1>1, <2>1, <3>1, <3>3
    <3> QED BY <1>1, <2>1, <3>1, <3>4 DEF OneRow
  <2> QED BY <2>2, <2>3
<1>8. SearchAgrees'
  <2> SUFFICES ASSUME phase # "adopted" PROVE attributes' = AttributesOf(membership')
    BY <1>1 DEF SearchAgrees
  <2>1. attributes = AttributesOf(membership) BY DEF Store, SearchAgrees
  <2> HIDE DEF rows
  <2> QED BY <1>1, <2>1 DEF AttributesOf, RowsOf
<1>9. KeepsRecords' BY <1>7 DEF KeepsRecords, OneRow
<1>10. membership' \subseteq Row /\ links' \subseteq Link BY <1>1, <1>4, <1>5 DEF Store
<1>11. attributes' \subseteq [node : Record, cluster : UPCI] BY <1>1, <1>6 DEF Store
<1> HIDE DEF rows, existing
<1> QED BY <1>1, <1>8, <1>9, <1>10, <1>11 DEF Store

\* A round or Meow changes the database, and no cluster goes.
LEMMA OthersKeep ==
    ASSUME Store, OthersStep PROVE Store' /\ clusters' = clusters
<1>1. /\ membership \subseteq Row /\ links \subseteq Link /\ clusters \subseteq UPCI
      /\ attributes \subseteq [node : Record, cluster : UPCI]
      /\ KeepsRecords /\ SearchAgrees
  BY DEF Store
<1>2. \A r \in Record : OneRow(membership, r) BY <1>1 DEF KeepsRecords, OneRow
<1>3. CASE Resolve
  <2>1. links' \subseteq Link BY <1>3, StoreAssumption DEF Resolve
  <2>2. KeepsRecords' /\ SearchAgrees' BY <1>1, <1>3 DEF Resolve, KeepsRecords, SearchAgrees, AttributesOf
  <2> QED BY <1>1, <1>3, <2>1, <2>2 DEF Resolve, Store
<1>4. CASE Adopt
  <2>1. \E f : /\ \A m \in membership : f[m] \in membership' /\ f[m].node = m.node
               /\ \A n \in membership' : n \in Row /\ \E m \in membership : n = f[m]
    <3> DEFINE temps == {l.temp : l \in links}
               moving == {m \in membership : ~m.hard /\ Temps(m.node) # {}}
    <3>1. PICK ln \in [temps -> membership], by \in [moving -> temps] :
              membership' = (membership \ moving)
                  \cup {[m EXCEPT !.cluster = ln[by[m]].cluster] : m \in moving}
      BY <1>4 DEF Adopt
    <3> DEFINE f == [m \in membership |->
                        IF m \in moving THEN [m EXCEPT !.cluster = ln[by[m]].cluster] ELSE m]
    <3>2. \A m \in moving : m \in membership /\ ln[by[m]].cluster \in UPCI
      <4> SUFFICES ASSUME NEW m \in moving PROVE m \in membership /\ ln[by[m]].cluster \in UPCI OBVIOUS
      <4>1. ln[by[m]] \in membership OBVIOUS
      <4> QED BY <1>1, <4>1 DEF Row
    <3>3. \A m \in membership : f[m] \in Row /\ f[m].node = m.node BY <1>1, <3>2 DEF Row
    <3>4. \A m \in membership :
              f[m] = IF m \in moving THEN [m EXCEPT !.cluster = ln[by[m]].cluster] ELSE m
      OBVIOUS
    <3> HIDE DEF f
    <3>5. ASSUME NEW n \in membership' PROVE \E m \in membership : n = f[m]
      BY <3>1, <3>2, <3>4, <3>5
    <3>6. ASSUME NEW m \in membership PROVE f[m] \in membership'
      BY <3>1, <3>4, <3>6
    <3> QED BY <3>3, <3>5, <3>6
  <2>2. PICK f : /\ \A m \in membership : f[m] \in membership' /\ f[m].node = m.node
                 /\ \A n \in membership' : n \in Row /\ \E m \in membership : n = f[m]
    BY <2>1
  <2>3. /\ \A m \in membership : f[m] \in membership' /\ f[m].node = m.node
        /\ \A n \in membership' : \E m \in membership : n = f[m]
    BY <2>2
  <2>4. \A r \in Record : OneRow(membership', r) BY <1>2, <2>3, RowsStay
  <2>5. membership' \subseteq Row BY <2>2
  <2>6. KeepsRecords' BY <2>4 DEF KeepsRecords, OneRow
  <2>7. phase' = "adopted" /\ SearchAgrees' BY <1>4 DEF Adopt, SearchAgrees
  <2> QED BY <1>1, <1>4, <2>5, <2>6, <2>7 DEF Adopt, Store
<1>5. CASE MaintainAttributes
  <2>1. AttributesOf(membership) \subseteq [node : Record, cluster : UPCI]
    BY <1>1 DEF AttributesOf, Row
  <2>2. KeepsRecords' /\ SearchAgrees'
    BY <1>1, <1>5 DEF MaintainAttributes, KeepsRecords, SearchAgrees, AttributesOf
  <2> QED BY <1>1, <1>5, <2>1, <2>2 DEF MaintainAttributes, Store
<1>6. CASE HardLink
  <2>1. PICK m \in membership : membership' = (membership \ {m}) \cup {[m EXCEPT !.hard = TRUE]}
    BY <1>6 DEF HardLink
  <2> DEFINE f == [n \in membership |-> IF n = m THEN [m EXCEPT !.hard = TRUE] ELSE n]
  <2>2. membership' = {f[n] : n \in membership} BY <2>1
  <2>3. \A n \in membership : f[n] \in Row /\ f[n].node = n.node /\ f[n].cluster = n.cluster
    BY <1>1 DEF Row
  <2> HIDE DEF f
  <2>4. \A r \in Record : OneRow(membership', r)
    <3>1. \A n \in membership : f[n] \in membership' /\ f[n].node = n.node BY <2>2, <2>3
    <3>2. \A k \in membership' : \E n \in membership : k = f[n] BY <2>2
    <3> QED BY <1>2, <3>1, <3>2, RowsStay
  <2>5. membership' \subseteq Row /\ KeepsRecords' BY <2>2, <2>3, <2>4 DEF KeepsRecords, OneRow
  <2>6. AttributesOf(membership') = AttributesOf(membership)
    BY <2>2, <2>3 DEF AttributesOf
  <2>7. SearchAgrees' BY <1>1, <1>6, <2>6 DEF HardLink, SearchAgrees, AttributesOf
  <2> QED BY <1>1, <1>6, <2>5, <2>7 DEF HardLink, Store
<1> QED BY <1>3, <1>4, <1>5, <1>6 DEF OthersStep

LEMMA GenerateKeeps ==
    ASSUME Store, NEW c \in UPCI, Generate(c)
    PROVE  Store' /\ clusters' = clusters \cup {c} /\ c \notin clusters
<1>1. clusters' = clusters \cup {c} /\ UNCHANGED <<membership, links, attributes, phase>>
  BY DEF Generate
<1>2. c \notin clusters
  <2> SUFFICES ASSUME c \in clusters PROVE FALSE OBVIOUS
  <2>1. c < c BY DEF Generate
  <2>2. c \in Nat BY NetworkAssumption
  <2> QED BY <2>1, <2>2
<1>3. Store' BY <1>1 DEF Store, KeepsRecords, SearchAgrees, AttributesOf
<1> QED BY <1>1, <1>2, <1>3

-----------------------------------------------------------------------------
(* Steps of a page *)

\* All that a step leaves alone when it is about the page of o.
Beside(o) ==
    /\ clusters \subseteq clusters'
    /\ DOMAIN nodes' = DOMAIN nodes /\ DOMAIN edges' = DOMAIN edges
    /\ DOMAIN changeTracker' = DOMAIN changeTracker
    /\ DOMAIN asked' = DOMAIN asked /\ DOMAIN loaded' = DOMAIN loaded
    /\ finding' \in [Operator -> BOOLEAN] /\ mayReassign' \in [Operator -> BOOLEAN]
    /\ pruned' \in [Operator -> BOOLEAN]
    /\ \A p \in Operator \ {o} :
          /\ nodes'[p] = nodes[p] /\ edges'[p] = edges[p]
          /\ changeTracker'[p] = changeTracker[p] /\ asked'[p] = asked[p]
          /\ loaded'[p] = loaded[p] /\ pruned'[p] = pruned[p]

LEMMA OnlyOne ==
    ASSUME Pages, NEW o \in Operator, Beside(o), Shown(o)' PROVE Pages'
<1>1. ASSUME NEW p \in Operator, p # o PROVE Shown(p)'
  <2>1. Shown(p) BY DEF Pages
  <2>2. /\ nodes'[p] = nodes[p] /\ edges'[p] = edges[p]
        /\ changeTracker'[p] = changeTracker[p] /\ asked'[p] = asked[p]
        /\ loaded'[p] = loaded[p] /\ pruned'[p] = pruned[p] /\ clusters \subseteq clusters'
    BY <1>1 DEF Beside
  <2> QED BY <2>1, <2>2, PageStays DEF Shown
<1>2. \A p \in Operator : Shown(p)' BY <1>1
<1> QED BY <1>2 DEF Pages, Beside

\* The page of o before and after a step.
LEMMA NoneChanges ==
    ASSUME Pages, clusters \subseteq clusters',
           UNCHANGED <<dataset, changeTracker, asked, history>>,
           finding' \in [Operator -> BOOLEAN], mayReassign' \in [Operator -> BOOLEAN]
    PROVE  Pages'
<1>1. /\ nodes' = nodes /\ edges' = edges /\ changeTracker' = changeTracker
      /\ asked' = asked /\ loaded' = loaded /\ pruned' = pruned
  BY DEF dataset, history
<1>2. ASSUME NEW p \in Operator PROVE Shown(p)'
  <2>1. Shown(p) BY DEF Pages
  <2> QED BY <1>1, <2>1, PageStays DEF Shown
<1> QED BY <1>1, <1>2 DEF Pages

LEMMA HiddenKeeps ==
    ASSUME Pages, NEW o \in Operator, NEW ns, Hidden(o, ns)
    PROVE  finding' \in [Operator -> BOOLEAN] /\ mayReassign' \in [Operator -> BOOLEAN]
<1>1. (Cardinality(GetClusters(ns)) >= 2) \in BOOLEAN OBVIOUS
<1> QED BY <1>1 DEF Hidden, Pages

LEMMA RedirectKeeps ==
    ASSUME Pages, NEW o \in Operator, RedirectToSignIn(o), clusters' = clusters PROVE Pages'
<1>1. Beside(o) BY DEF RedirectToSignIn, Beside, Pages
<1>2. /\ nodes'[o] = <<>> /\ edges'[o] = EmptyBag /\ changeTracker'[o] = {}
      /\ asked'[o] = NoRequest /\ loaded'[o] = <<>> /\ pruned'[o] = FALSE
  BY DEF RedirectToSignIn, Pages
<1>3. Shown(o)' BY <1>2, EmptyPage DEF Shown
<1> QED BY <1>1, <1>3, OnlyOne

LEMMA FindStepKeeps ==
    ASSUME Pages, NEW o \in Operator, AddNode(o) \/ DismissFind(o) \/ SubmitFind(o) \/ FindRefused(o),
           clusters \subseteq clusters', clusters \subseteq UPCI
    PROVE  Pages'
<1>1. CASE AddNode(o) \/ DismissFind(o)
  <2>1. UNCHANGED <<dataset, changeTracker, asked, history>>
    BY <1>1 DEF AddNode, DismissFind
  <2>2. finding' \in [Operator -> BOOLEAN] /\ mayReassign' \in [Operator -> BOOLEAN]
    BY <1>1, HiddenKeeps DEF AddNode, DismissFind, Pages
  <2> QED BY <2>1, <2>2, NoneChanges
<1>2. CASE SubmitFind(o) \/ FindRefused(o)
  <2>1. UNCHANGED <<dataset, changeTracker, finding, mayReassign, history>>
    BY <1>2 DEF SubmitFind, FindRefused
  <2>2. PICK r : /\ asked' = [asked EXCEPT ![o] = r]
                 /\ \/ r \in {NoRequest, Random}
                    \/ \E c \in UPCI : ~ClusterExists(nodes[o], c) /\ r = Details(c)
    BY <1>2 DEF SubmitFind, FindRefused
  <2>3. Asking(nodes[o], r) BY <2>2 DEF Asking, NoRequest, Random, Details, ClusterExists, GetClusters
  <2>4. /\ nodes' = nodes /\ edges' = edges /\ changeTracker' = changeTracker
        /\ finding' = finding /\ mayReassign' = mayReassign /\ loaded' = loaded /\ pruned' = pruned
    BY <2>1 DEF dataset, history
  <2>5. Beside(o) BY <2>2, <2>4 DEF Beside, Pages
  <2>6. asked'[o] = r BY <2>2 DEF Pages
  <2>7. Shown(o) BY DEF Pages
  <2>8. Shown(o)' BY <2>3, <2>4, <2>6, <2>7 DEF Shown, Page
  <2> QED BY <2>5, <2>8, OnlyOne
<1> QED BY <1>1, <1>2

LEMMA FoundStepKeeps ==
    ASSUME Pages, NEW o \in Operator, NEW c \in clusters', clusters \subseteq clusters',
           NEW placed, NEW t, NEW S, Answered(nodes[o], c, placed, t, S),
           ClusterFound(o, c, placed, t, S)
    PROVE  Pages'
<1>1. Shown(o) /\ asked' = [asked EXCEPT ![o] = NoRequest] BY DEF Pages, ClusterFound
<1>2. Page(nodes[o], edges[o], changeTracker[o], asked[o], loaded[o], pruned[o], clusters')
  BY <1>1, PageStays DEF Shown
<1>3. CASE DOMAIN placed \cap DOMAIN nodes[o] # {}
  <2>1. UNCHANGED <<dataset, changeTracker, finding, mayReassign, history>>
    BY <1>3 DEF ClusterFound
  <2>2. /\ nodes' = nodes /\ edges' = edges /\ changeTracker' = changeTracker
        /\ finding' = finding /\ mayReassign' = mayReassign /\ loaded' = loaded /\ pruned' = pruned
    BY <2>1 DEF dataset, history
  <2>3. Beside(o) BY <1>1, <2>2 DEF Beside, Pages
  <2>4. asked'[o] = NoRequest BY <1>1 DEF Pages
  <2>5. Asking(nodes[o], NoRequest) BY DEF Asking, NoRequest
  <2>6. Shown(o)' BY <1>2, <2>2, <2>4, <2>5 DEF Shown, Page
  <2> QED BY <2>3, <2>6, OnlyOne
<1>4. CASE DOMAIN placed \cap DOMAIN nodes[o] = {}
  <2> DEFINE new == Shows(nodes[o], placed, t)
             et == Draws(edges[o], S)
             tt == Lists(changeTracker[o], c)
             known == Knows(loaded[o], placed, t)
  <2>1. /\ nodes' = [nodes EXCEPT ![o] = new] /\ edges' = [edges EXCEPT ![o] = et]
        /\ changeTracker' = [changeTracker EXCEPT ![o] = tt]
        /\ loaded' = [loaded EXCEPT ![o] = known] /\ pruned' = pruned
    BY <1>4 DEF ClusterFound, Shows, Draws, Lists, Knows
  <2>2. finding' \in [Operator -> BOOLEAN] /\ mayReassign' \in [Operator -> BOOLEAN]
    BY <1>4, HiddenKeeps DEF ClusterFound, Pages
  <2>3. Page(new, et, tt, NoRequest, known, pruned[o], clusters')
    <3>1. pruned[o] \in BOOLEAN BY DEF Pages
    <3>2. /\ new = Shows(nodes[o], placed, t) /\ et = Draws(edges[o], S)
          /\ tt = Lists(changeTracker[o], c) /\ known = Knows(loaded[o], placed, t)
      OBVIOUS
    <3> HIDE DEF new, et, tt, known
    <3> QED BY <1>2, <1>4, <3>1, <3>2, FoundKeeps
  <2> HIDE DEF new, et, tt, known
  <2>4. Beside(o) BY <1>1, <2>1, <2>2 DEF Beside, Pages
  <2>5. /\ nodes'[o] = new /\ edges'[o] = et /\ changeTracker'[o] = tt
        /\ asked'[o] = NoRequest /\ loaded'[o] = known /\ pruned'[o] = pruned[o]
    BY <1>1, <2>1 DEF Pages
  <2>6. Shown(o)' BY <2>3, <2>5 DEF Shown
  <2> QED BY <2>4, <2>6, OnlyOne
<1> QED BY <1>3, <1>4

LEMMA EditStepKeeps ==
    ASSUME Pages, NEW o \in Operator, Edit(o), clusters' = clusters PROVE Pages'
<1>1. Shown(o) /\ pruned[o] \in BOOLEAN BY DEF Pages
<1>2. ASSUME NEW n \in DOMAIN nodes[o], NEW hard \in BOOLEAN, NEW to \in GetClusters(nodes[o]),
             SubmitEdit(o, n, to, hard)
      PROVE  Pages'
  <2> DEFINE ns == nodes[o]
             new == Edited(ns, n, to, hard)
             et == Relinked(ns, edges[o], n, to)
             tt == Extended(ns, changeTracker[o], n, to, hard)
  <2>1. /\ ns[n].type = "node"
        /\ nodes' = [nodes EXCEPT ![o] = new]
        /\ edges' = [edges EXCEPT ![o] = et]
        /\ changeTracker' = [changeTracker EXCEPT ![o] = tt]
        /\ UNCHANGED <<forms, history>>
    BY <1>2 DEF SubmitEdit, Edited, Relinked, Extended
  <2>2. /\ asked' = asked /\ finding' = finding /\ mayReassign' = mayReassign
        /\ loaded' = loaded /\ pruned' = pruned
    BY <2>1 DEF forms, history
  <2>3. Page(new, et, tt, asked[o], loaded[o], pruned[o], clusters)
    <3>1. /\ new = Edited(ns, n, to, hard) /\ et = Relinked(ns, edges[o], n, to)
          /\ tt = Extended(ns, changeTracker[o], n, to, hard)
      OBVIOUS
    <3>2. Page(ns, edges[o], changeTracker[o], asked[o], loaded[o], pruned[o], clusters)
      BY <1>1 DEF Shown
    <3>3. Editable(ns, n, to, hard) /\ pruned[o] \in BOOLEAN BY <1>1, <2>1 DEF Editable
    <3> HIDE DEF ns, new, et, tt
    <3> QED BY <3>1, <3>2, <3>3, EditKeeps
  <2> HIDE DEF new, et, tt
  <2>4. Beside(o) BY <2>1, <2>2 DEF Beside, Pages
  <2>5. /\ nodes'[o] = new /\ edges'[o] = et /\ changeTracker'[o] = tt
    BY <2>1 DEF Pages
  <2>6. Shown(o)' BY <2>2, <2>3, <2>5 DEF Shown
  <2> QED BY <2>4, <2>6, OnlyOne
<1>3. ASSUME NEW i \in DOMAIN nodes[o], NEW j \in DOMAIN nodes[o], AddEdge(o, i, j) PROVE Pages'
  <2> DEFINE et == edges[o] (+) SetToBag({SaturateEdge(i, j, Certain)})
             tt == changeTracker[o] \cup {<<"edge", i, j>>}
  <2>1. /\ i # j /\ ~EdgeExists(edges[o], i, j)
        /\ edges' = [edges EXCEPT ![o] = et]
        /\ changeTracker' = [changeTracker EXCEPT ![o] = tt]
        /\ UNCHANGED <<nodes, forms, history>>
    BY <1>3 DEF AddEdge
  <2>2. /\ asked' = asked /\ finding' = finding /\ mayReassign' = mayReassign
        /\ loaded' = loaded /\ pruned' = pruned /\ nodes' = nodes
    BY <2>1 DEF forms, history
  <2>3. Page(nodes[o], et, tt, asked[o], loaded[o], pruned[o], clusters)
    BY <1>1, <2>1, EdgeKeeps DEF Shown
  <2> HIDE DEF et, tt
  <2>4. Beside(o) BY <2>1, <2>2 DEF Beside, Pages
  <2>5. edges'[o] = et /\ changeTracker'[o] = tt BY <2>1 DEF Pages
  <2>6. Shown(o)' BY <2>2, <2>3, <2>5 DEF Shown
  <2> QED BY <2>4, <2>6, OnlyOne
<1>4. ASSUME NEW e \in Visible(o),
             DeleteEdge(o, e) \/ \E i \in DOMAIN nodes[o] : DragEdge(o, e, i)
      PROVE  Pages'
  <2>1. Graph(nodes[o]) /\ Drawn(edges[o]) /\ e \in Edge BY <1>1 DEF Shown, Page, Drawn, Visible
  <2> DEFINE cut == edges[o] (-) SetToBag({e})
  <2>2. Drawn(cut)
    <3>1. IsABag(edges[o]) BY <2>1 DEF Drawn
    <3>2. IsABag(cut) /\ DOMAIN cut \subseteq DOMAIN edges[o] BY <3>1, TakenFromBag, Zenon
    <3> QED BY <2>1, <3>2 DEF Drawn
  <2>3. PICK et : /\ edges' = [edges EXCEPT ![o] = et]
                  /\ et = cut \/ \E d \in Edge : et = cut (+) SetToBag({d})
    <3>1. CASE DeleteEdge(o, e) BY <3>1 DEF DeleteEdge
    <3>2. ASSUME NEW i \in DOMAIN nodes[o], DragEdge(o, e, i)
          PROVE  \E d \in Edge : edges' = [edges EXCEPT ![o] = cut (+) SetToBag({d})]
      <4>1. PICK d \in {[e EXCEPT !.from = i], [e EXCEPT !.to = i]} :
                edges' = [edges EXCEPT ![o] = (@ (-) SetToBag({e})) (+) SetToBag({d})]
        BY <3>2 DEF DragEdge
      <4>2. i \in NodeId BY <2>1 DEF Graph
      <4>3. d \in Edge BY <2>1, <4>1, <4>2 DEF Edge
      <4> QED BY <4>1, <4>3
    <3> QED BY <1>4, <3>1, <3>2
  <2>4. Drawn(et)
    <3>1. CASE et = cut BY <2>2, <3>1
    <3>2. ASSUME NEW d \in Edge, et = cut (+) SetToBag({d}) PROVE Drawn(et)
      <4>1. IsABag(cut) /\ DOMAIN cut \subseteq Edge BY <2>2 DEF Drawn
      <4> HIDE DEF cut
      <4>2. /\ IsABag(cut (+) SetToBag({d}))
            /\ DOMAIN (cut (+) SetToBag({d})) = DOMAIN cut \cup {d}
        <5>1. IsABag(cut) BY <4>1
        <5> QED BY <5>1, AddedToBag, Zenon
      <4> QED BY <3>2, <4>1, <4>2 DEF Drawn
    <3> QED BY <2>3, <3>1, <3>2
  <2> HIDE DEF cut
  <2>5. /\ pruned' = [pruned EXCEPT ![o] = TRUE]
        /\ nodes' = nodes /\ changeTracker' = changeTracker /\ loaded' = loaded
        /\ asked' = asked /\ finding' = finding /\ mayReassign' = mayReassign
    BY <1>4 DEF DeleteEdge, DragEdge, forms
  <2>6. Page(nodes[o], et, changeTracker[o], asked[o], loaded[o], TRUE, clusters)
    BY <1>1, <2>4, CutKeeps DEF Shown
  <2>7. Beside(o) BY <2>3, <2>5 DEF Beside, Pages
  <2>8. edges'[o] = et /\ pruned'[o] = TRUE BY <2>3, <2>5 DEF Pages
  <2>9. Shown(o)' BY <2>5, <2>6, <2>8 DEF Shown
  <2> QED BY <2>7, <2>9, OnlyOne
<1>5. \A n \in DOMAIN nodes[o] :
          Offered(o, n) \cup {nodes[o][n].group} \subseteq GetClusters(nodes[o])
  BY DEF Offered, GetClusters
<1> QED BY <1>2, <1>3, <1>4, <1>5 DEF Edit

-----------------------------------------------------------------------------
(* Steps of the API *)

\* An empty cluster is answered as a node.
LEMMA EmptyAnswered ==
    ASSUME NEW ns, NEW c \in UPCI \ GetClusters(ns)
    PROVE  Answered(ns, c, [i \in {c} |-> [group |-> c, hardLink |-> FALSE]], "cluster", {})
<1>1. IsFiniteSet({c}) BY FS_Singleton
<1>2. [group |-> c, hardLink |-> FALSE] \in Placement BY DEF Placement
<1> QED BY <1>1, <1>2 DEF Answered

LEMMA RecordsAnswered ==
    ASSUME Store, NEW ns, NEW c \in UPCI \ GetClusters(ns), DOMAIN Placements(c) # {}
    PROVE  Answered(ns, c, Placements(c), "node",
                    {SaturateEdge(l.from, l.to, l.probability) : l \in LinksOf(c)})
<1> DEFINE names == Names(RowsOf({c}))
           S == {SaturateEdge(l.from, l.to, l.probability) : l \in LinksOf(c)}
<1>1. DOMAIN Placements(c) = names BY DEF Placements
<1>2. names \subseteq Record BY DEF Names, RowsOf, Store, Row
<1>3. IsFiniteSet(names) BY <1>2, NetworkAssumption, FS_Subset
<1>4. ASSUME NEW r \in names PROVE Placements(c)[r] \in Placement /\ Placements(c)[r].group = c
  <2> DEFINE m == CHOOSE k \in RowsOf({c}) : k.node = r
  <2>1. m \in RowsOf({c}) BY DEF Names
  <2> HIDE DEF m
  <2>2. m.hard \in BOOLEAN BY <2>1 DEF RowsOf, Store, Row
  <2>3. Placements(c)[r] = [group |-> c, hardLink |-> m.hard] BY DEF Placements, m
  <2> QED BY <2>2, <2>3 DEF Placement
<1>5. ASSUME NEW l \in LinksOf(c)
      PROVE  /\ SaturateEdge(l.from, l.to, l.probability) \in Edge
             /\ SaturateEdge(l.from, l.to, l.probability).from \in names
  <2>1. l \in Link /\ l.from \in names BY DEF LinksOf, Store
  <2>2. l.from \in NodeId /\ l.to \in NodeId /\ l.probability \in Probability
    BY <2>1 DEF Link, NodeId
  <2> QED BY <2>1, <2>2, EdgeIs
<1>6. S \subseteq Edge /\ \A e \in S : e.from \in names BY <1>5
<1> HIDE DEF S, names
<1>7. /\ IsFiniteSet(DOMAIN Placements(c))
      /\ \A i \in DOMAIN Placements(c) :
            Placements(c)[i] \in Placement /\ Placements(c)[i].group = c
      /\ DOMAIN Placements(c) \subseteq Record
      /\ \A e \in S : e.from \in DOMAIN Placements(c)
  BY <1>1, <1>2, <1>3, <1>4, <1>6
<1>8. Answered(ns, c, Placements(c), "node", S) BY <1>6, <1>7 DEF Answered
<1> QED BY <1>8 DEF S

LEMMA AnswerKeeps ==
    ASSUME Pages, Store, NEW o \in Operator, Answer(o), \A network \in late : Network(network)
    PROVE  IInv'
<1> DEFINE empty(c) == [i \in {c} |-> [group |-> c, hardLink |-> FALSE]]
<1>1. Shown(o) /\ clusters \subseteq UPCI BY DEF Pages, Store
<1>2. GetClusters(nodes[o]) \subseteq clusters BY <1>1 DEF Shown, Page
<1>3. ASSUME UNCHANGED storeVars PROVE Store' /\ clusters' = clusters
  BY <1>3 DEF storeVars, Store, KeepsRecords, SearchAgrees, AttributesOf
<1>4. ASSUME late' = late PROVE \A network \in late' : Network(network) BY <1>4
<1>5. CASE AnswerDetails(o)
  <2> DEFINE c == asked[o].upci
  <2>1. /\ asked[o] = Details(c) /\ c \in clusters
        /\ \/ ClusterFound(o, c, empty(c), "cluster", {})
           \/ /\ DOMAIN Placements(c) # {}
              /\ ClusterFound(o, c, Placements(c), "node",
                     {SaturateEdge(l.from, l.to, l.probability) : l \in LinksOf(c)})
        /\ UNCHANGED storeVars /\ late' = late
    BY <1>5 DEF AnswerDetails
  <2>2. c \in UPCI \ GetClusters(nodes[o]) BY <1>1, <2>1 DEF Shown, Page, Asking, Details
  <2>3. Store' /\ clusters' = clusters BY <1>3, <2>1
  <2> HIDE DEF c
  <2>4. Pages'
    <3>1. CASE ClusterFound(o, c, empty(c), "cluster", {})
      <4>1. Answered(nodes[o], c, empty(c), "cluster", {}) BY <2>2, EmptyAnswered
      <4> HIDE DEF empty
      <4> QED BY <2>1, <2>3, <3>1, <4>1, FoundStepKeeps
    <3>2. CASE /\ DOMAIN Placements(c) # {}
               /\ ClusterFound(o, c, Placements(c), "node",
                      {SaturateEdge(l.from, l.to, l.probability) : l \in LinksOf(c)})
      <4> DEFINE S == {SaturateEdge(l.from, l.to, l.probability) : l \in LinksOf(c)}
      <4>1. Answered(nodes[o], c, Placements(c), "node", S) BY <2>2, <3>2, RecordsAnswered
      <4>2. ClusterFound(o, c, Placements(c), "node", S) BY <3>2
      <4> HIDE DEF S
      <4> QED BY <2>1, <2>3, <4>1, <4>2, FoundStepKeeps
    <3> QED BY <2>1, <3>1, <3>2
  <2> QED BY <1>4, <2>1, <2>3, <2>4 DEF IInv
<1>6. CASE AnswerRandom(o)
  <2>1. PICK c \in UPCI : Generate(c) /\ ClusterFound(o, c, empty(c), "cluster", {})
    BY <1>6 DEF AnswerRandom
  <2>2. Store' /\ clusters' = clusters \cup {c} /\ c \notin clusters BY <2>1, GenerateKeeps
  <2>3. Answered(nodes[o], c, empty(c), "cluster", {}) BY <1>2, <2>2, EmptyAnswered
  <2> HIDE DEF empty
  <2>4. Pages'
    <3>1. c \in clusters' /\ clusters \subseteq clusters' BY <2>2
    <3> QED BY <2>1, <2>3, <3>1, FoundStepKeeps
  <2>5. late' = late BY <1>6 DEF AnswerRandom
  <2> QED BY <1>4, <2>2, <2>4, <2>5 DEF IInv
<1>7. CASE AnswerNothing(o)
  <2>1. Store' /\ clusters \subseteq clusters'
    <3>1. CASE UNCHANGED storeVars BY <1>3, <3>1
    <3>2. CASE \E c \in UPCI : Generate(c) BY <3>2, GenerateKeeps
    <3> QED BY <1>7, <3>1, <3>2 DEF AnswerNothing
  <2>2. FindRefused(o) /\ late' = late BY <1>7 DEF AnswerNothing
  <2>3. Pages' BY <1>1, <2>1, <2>2, FindStepKeeps
  <2> QED BY <1>4, <2>1, <2>2, <2>3 DEF IInv
<1>8. ASSUME SubmitSave(o), clusters' = clusters PROVE Pages'
  <2>1. UNCHANGED <<dataset, changeTracker, asked, history>> /\ UNCHANGED <<finding, mayReassign>>
    BY <1>8 DEF SubmitSave, pageVars, forms
  <2>2. finding' \in [Operator -> BOOLEAN] /\ mayReassign' \in [Operator -> BOOLEAN]
    BY <2>1 DEF Pages
  <2> QED BY <1>8, <2>1, <2>2, NoneChanges
<1>9. CASE AnswerSave(o)
  <2>1. SubmitSave(o) /\ Save(NetworkOf(o)) /\ late' = late BY <1>9 DEF AnswerSave
  <2>2. Store' /\ clusters' = clusters BY <1>1, <2>1, PageSends, SaveKeeps
  <2> QED BY <1>4, <1>8, <2>1, <2>2 DEF IInv
<1>10. CASE SaveTimesOut(o)
  <2>1. SubmitSave(o) /\ late' = late \cup {NetworkOf(o)} /\ UNCHANGED storeVars
    BY <1>10 DEF SaveTimesOut
  <2>2. \A network \in late' : Network(network) BY <1>1, <2>1, PageSends
  <2> QED BY <1>3, <1>8, <2>1, <2>2 DEF IInv
<1>11. CASE AnswerUnauthorized(o)
  <2>1. RedirectToSignIn(o) /\ UNCHANGED storeVars /\ late' = late
    BY <1>11 DEF AnswerUnauthorized
  <2>2. Pages' BY <1>3, <2>1, RedirectKeeps
  <2> QED BY <1>3, <1>4, <2>1, <2>2 DEF IInv
<1> QED BY <1>5, <1>6, <1>7, <1>9, <1>10, <1>11 DEF Answer

-----------------------------------------------------------------------------
(* The theorems *)

LEMMA InitialInvariant == ASSUME Init PROVE IInv
<1>1. Pages
  <2>1. /\ nodes = [o \in Operator |-> <<>>] /\ edges = [o \in Operator |-> EmptyBag]
        /\ changeTracker = [o \in Operator |-> {}]
        /\ finding = [o \in Operator |-> FALSE] /\ mayReassign = [o \in Operator |-> FALSE]
        /\ asked = [o \in Operator |-> NoRequest]
        /\ loaded = [o \in Operator |-> <<>>] /\ pruned = [o \in Operator |-> FALSE]
    BY DEF Init, PageInit
  <2>2. ASSUME NEW o \in Operator PROVE Shown(o)
    <3>1. /\ nodes[o] = <<>> /\ edges[o] = EmptyBag /\ changeTracker[o] = {}
          /\ asked[o] = NoRequest /\ loaded[o] = <<>> /\ pruned[o] = FALSE
      BY <2>1
    <3> QED BY <3>1, EmptyPage DEF Shown
  <2> QED BY <2>1, <2>2 DEF Pages
<1>2. Store
  <2>1. /\ membership = {[node |-> r, cluster |-> Start[r], hard |-> FALSE] : r \in Record}
        /\ links \in Outcomes /\ clusters = {Start[r] : r \in Record}
        /\ attributes = AttributesOf(membership) /\ phase = "rest"
    BY DEF Init, StoreInit
  <2>2. \A r \in Record : Start[r] \in UPCI BY StoreAssumption
  <2> DEFINE first(r) == [node |-> r, cluster |-> Start[r], hard |-> FALSE]
  <2>3. membership = {first(r) : r \in Record} BY <2>1
  <2>4. \A r \in Record : first(r) \in Row /\ first(r).node = r BY <2>2 DEF Row
  <2> HIDE DEF first
  <2>5. membership \subseteq Row BY <2>3, <2>4
  <2>6. clusters \subseteq UPCI BY <2>1, <2>2
  <2>7. links \subseteq Link BY <2>1, StoreAssumption
  <2>8. attributes \subseteq [node : Record, cluster : UPCI] BY <2>1, <2>5 DEF AttributesOf, Row
  <2>9. KeepsRecords
    <3> SUFFICES ASSUME NEW r \in Record
                 PROVE  \E m \in membership : {n \in membership : n.node = r} = {m}
      BY DEF KeepsRecords
    <3>1. first(r) \in membership /\ {n \in membership : n.node = r} = {first(r)} BY <2>3, <2>4
    <3> QED BY <3>1
  <2>10. SearchAgrees BY <2>1 DEF SearchAgrees
  <2> QED BY <2>1, <2>5, <2>6, <2>7, <2>8, <2>9, <2>10 DEF Store
<1>3. late = {} BY DEF Init
<1> QED BY <1>1, <1>2, <1>3 DEF IInv

LEMMA InvariantStep == ASSUME IInv, [Next]_vars PROVE IInv'
<1>1. Pages /\ Store /\ \A network \in late : Network(network) BY DEF IInv
<1>2. ASSUME UNCHANGED pageVars, clusters' = clusters PROVE Pages'
  <2>1. /\ UNCHANGED <<dataset, changeTracker, asked, history>>
        /\ finding' = finding /\ mayReassign' = mayReassign
    BY <1>2 DEF pageVars, forms
  <2>2. finding' \in [Operator -> BOOLEAN] /\ mayReassign' \in [Operator -> BOOLEAN]
    BY <1>1, <2>1 DEF Pages
  <2> QED BY <1>1, <1>2, <2>1, <2>2, NoneChanges
<1>3. ASSUME UNCHANGED storeVars PROVE Store' /\ clusters' = clusters
  BY <1>1, <1>3 DEF storeVars, Store, KeepsRecords, SearchAgrees, AttributesOf
<1>4. ASSUME NEW o \in Operator, Answer(o) PROVE IInv' BY <1>1, <1>4, AnswerKeeps
<1>5. ASSUME NEW o \in Operator, PageStep(o), UNCHANGED <<storeVars, late, lost>> PROVE IInv'
  <2>1. Store' /\ clusters' = clusters /\ late' = late BY <1>3, <1>5
  <2>2. CASE Edit(o) BY <1>1, <2>1, <2>2, EditStepKeeps DEF IInv
  <2>3. CASE AddNode(o) \/ DismissFind(o) \/ SubmitFind(o)
    <3>1. clusters \subseteq UPCI BY <1>1 DEF Store
    <3> QED BY <1>1, <2>1, <2>3, <3>1, FindStepKeeps DEF IInv
  <2> QED BY <1>5, <2>2, <2>3 DEF PageStep
<1>6. ASSUME NEW network \in late, SaveLate(network) PROVE IInv'
  <2>1. Save(network) /\ late' \subseteq late /\ UNCHANGED pageVars BY <1>6 DEF SaveLate
  <2>2. Store' /\ clusters' = clusters BY <1>1, <2>1, SaveKeeps
  <2> QED BY <1>1, <1>2, <2>1, <2>2 DEF IInv
<1>7. CASE OthersStep /\ UNCHANGED <<pageVars, late, lost>>
  <2>1. Store' /\ clusters' = clusters BY <1>1, <1>7, OthersKeep
  <2> QED BY <1>1, <1>2, <1>7, <2>1 DEF IInv
<1>8. CASE UNCHANGED vars
  <2>1. UNCHANGED pageVars /\ UNCHANGED storeVars /\ late' = late BY <1>8 DEF vars
  <2> QED BY <1>1, <1>2, <1>3, <2>1 DEF IInv
<1> QED BY <1>4, <1>5, <1>6, <1>7, <1>8 DEF Next

LEMMA Invariant == Spec => []IInv
<1>1. Init => IInv BY InitialInvariant
<1>2. IInv /\ [Next]_vars => IInv' BY InvariantStep
<1> QED BY <1>1, <1>2, PTL DEF Spec

\* What pages and tables hold is of the right kind: nodes and edges that vis and the
\* API understand, records and clusters in the tables.
THEOREM VisualiserTypeCorrect == Spec => []TypeOK
<1>1. IInv => TypeOK BY DEF IInv, Pages, Shown, Page, Graph, Drawn, Store, TypeOK
<1> QED BY <1>1, Invariant, PTL

\* reassignNode never loses a cluster that was added to the page, nor shows it both as a
\* node and with records, in whatever order records are reassigned and clusters found.
THEOREM AddedClustersStay == Spec => []TracksClusters
<1>1. IInv => TracksClusters
  <2> SUFFICES ASSUME IInv, NEW o \in Operator
               PROVE  /\ \A entry \in changeTracker[o] :
                            entry[1] = "cluster" => ClusterExists(nodes[o], entry[2])
                      /\ \A i \in DOMAIN nodes[o] :
                            /\ nodes[o][i].type = "node" <=> i \in Record
                            /\ nodes[o][i].type = "cluster" => GetNodes(nodes[o], i) = {i}
    BY DEF TracksClusters
  <2>1. Graph(nodes[o]) /\ Tracked(nodes[o], changeTracker[o]) BY DEF IInv, Pages, Shown, Page
  <2> QED BY <2>1 DEF Graph, Tracked, ClusterExists, GetClusters
<1> QED BY <1>1, Invariant, PTL

\* The page never shows a node otherwise than it would be saved.
THEOREM NodesLookCurrent == Spec => []LooksCurrent
<1>1. IInv => LooksCurrent BY DEF IInv, Pages, Shown, Page, Graph, LooksCurrent
<1> QED BY <1>1, Invariant, PTL

\* The save modal lists whatever has become of a record that the operator has loaded.
THEOREM SaveListsChanges == Spec => []ChangesAreListed
<1>1. IInv => ChangesAreListed BY DEF IInv, Pages, Shown, Page, Listed, ChangesAreListed
<1> QED BY <1>1, Invariant, PTL

\* reassignNode leaves one edge between a record it moved and each of its cluster.
THEOREM ReassignedRecordsAreLinked == Spec => []ReassignedAreLinked
<1>1. IInv => ReassignedAreLinked
  <2> SUFFICES ASSUME IInv, NEW o \in Operator, ~pruned[o],
                      NEW r \in DOMAIN nodes[o] \cap Record, NEW s \in DOMAIN nodes[o] \cap Record,
                      r # s, \E c \in UPCI : <<"reassigned", r, c>> \in changeTracker[o],
                      nodes[o][r].group = nodes[o][s].group
               PROVE  \E e \in DOMAIN edges[o] :
                          Touching(edges[o], r) \cap Touching(edges[o], s) = {e} /\ edges[o][e] = 1
    BY DEF ReassignedAreLinked
  <2>1. Linked(nodes[o], edges[o], changeTracker[o]) BY DEF IInv, Pages, Shown, Page
  <2> QED BY <2>1 DEF Linked, OneEdge
<1> QED BY <1>1, Invariant, PTL

\* SaveNetworkAsync drops no record and gives none two clusters, however old the network:
\* it counts what the clusters hold now, and a save that passes holds the very same records.
THEOREM SavesKeepRecords == Spec => []KeepsRecords
<1>1. IInv => KeepsRecords BY DEF IInv, Store
<1> QED BY <1>1, Invariant, PTL

\* What SaveNetworkAsync makes of search.ClusterAttributes agrees with the membership it
\* saves, and Step7 makes up for what Step6 has moved.
THEOREM SearchAgreesBetweenRounds == Spec => []SearchAgrees
<1>1. IInv => SearchAgrees BY DEF IInv, Store
<1> QED BY <1>1, Invariant, PTL
=============================================================================
