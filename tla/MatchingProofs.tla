----------------------------- MODULE MatchingProofs -----------------------------
(***************************************************************************)
(* Theorems about Matching, for any records, data, thresholds and bounds:  *)
(* the types of the cluster membership, that hard-linked records never     *)
(* move, that the two numberings of Step6 never meet, and that a primary   *)
(* record is a member of its cluster.                                      *)
(***************************************************************************)
EXTENDS Matching, GraphProofs

-----------------------------------------------------------------------------
(* Finite sets of numbers *)

\* What Largest computes.
LEMMA LargestIs ==
    ASSUME NEW S \in SUBSET Nat, IsFiniteSet(S)
    PROVE  Largest(S) \in Nat /\ \A i \in S : i <= Largest(S)
<1>1. IsFiniteSet(S \cup {0}) BY FS_AddElement
<1>2. \E m \in S \cup {0} : \A i \in S \cup {0} : i <= m
  BY <1>1, GreatestExists
<1> DEFINE P(m) == m \in S \cup {0} /\ \A i \in S : i <= m
<1>3. PICK m : P(m) BY <1>2
<1>4. P(CHOOSE k : P(k)) BY <1>3
<1>5. Largest(S) = CHOOSE k : P(k) BY Zenon DEF Largest
<1>6. P(Largest(S)) BY <1>4, <1>5
<1>7. Largest(S) \in S \cup {0} /\ \A i \in S : i <= Largest(S) BY <1>6
<1>8. S \cup {0} \subseteq Nat OBVIOUS
<1> QED BY <1>7, <1>8

\* Ranks of elements are positive numbers, and different elements have different ones.
LEMMA RankIs ==
    ASSUME NEW S \in SUBSET Nat, IsFiniteSet(S), NEW i \in S
    PROVE  /\ RankIn(i, S) \in Nat \ {0}
           /\ \A j \in S : RankIn(i, S) = RankIn(j, S) => i = j
<1> DEFINE Upto(k) == {j \in S : j <= k}
<1>1. \A k \in S : IsFiniteSet(Upto(k)) /\ Cardinality(Upto(k)) \in Nat
  BY FS_Subset, FS_CardinalityType
<1>2. Cardinality(Upto(i)) # 0
  <2>1. i \in Upto(i) OBVIOUS
  <2> QED BY <1>1, <2>1, FS_EmptySet
<1>3. ASSUME NEW j \in S, NEW k \in S, Cardinality(Upto(j)) = Cardinality(Upto(k)), j <= k
      PROVE  j = k
  <2>1. ASSUME NEW l \in Upto(j) PROVE l \in Upto(k)
    <3>1. j \in Nat /\ k \in Nat /\ l \in Nat /\ l <= j /\ j <= k BY <1>3
    <3>2. l <= k BY <3>1
    <3> QED BY <3>2
  <2>2. Upto(k) = Upto(j) BY <1>1, <1>3, <2>1, FS_Subset, Upto(j) \in SUBSET Upto(k)
  <2> QED BY <1>3, <2>2
<1> QED BY <1>1, <1>2, <1>3 DEF RankIn

\* The values of a function on a finite set are finitely many.
LEMMA RangeFinite ==
    ASSUME NEW D, IsFiniteSet(D), NEW f
    PROVE  IsFiniteSet({f[x] : x \in D})
<1> DEFINE T == {f[x] : x \in D}
<1>1. [x \in D |-> f[x]] \in Surjection(D, T) BY DEF Surjection
<1> QED BY <1>1, FS_Surjection

-----------------------------------------------------------------------------
(* The inductive invariant *)

\* The tables of the graph are tables of edges, the ids of the output numbers.  Only
\* what operators have saved may run from a later to an earlier node, until Step2.
EdgeTables ==
    /\ data \in Data /\ candidates.pairs \subseteq Edge
    /\ DOMAIN results \subseteq Edge /\ DOMAIN matches \subseteq Edge
    /\ DOMAIN pass1 \subseteq Directed /\ DOMAIN pass2 \subseteq Edge
    /\ DOMAIN assignment \subseteq Edge /\ DOMAIN outstanding \subseteq Edge
    /\ DOMAIN output \subseteq Directed
    /\ at \notin BeforeSeed => DOMAIN output \subseteq Edge
    /\ saves \in Nat /\ (saves = 0 => DOMAIN output \subseteq Edge)
    /\ \A e \in DOMAIN output : output[e].id \in Nat

\* Whoever is hard-linked has a cluster; no cluster is 0.
HardHaveClusters ==
    /\ 0 \notin clusters
    /\ \A n \in DOMAIN member : Hard(n) => member[n].id # 0

\* From Step5 on the nodes of the output are known, then enrolled; while records
\* move, each temporary cluster has one of its nodes for link node, and no
\* cluster is past the seed.
LinksStand ==
    /\ At("link") => AllNodes(output) \subseteq nodes
    /\ at \in {"adopt", "found"} =>
          /\ AllNodes(output) \subseteq DOMAIN member
          /\ DOMAIN linkNode = Ids(output)
          /\ \A i \in DOMAIN linkNode : linkNode[i] \in NodesOf(output, i)
          /\ \A n \in DOMAIN member : member[n].id <= seed

\* When Step6 comes to output.Clusters, every record has a cluster.
AllSettled == At("review") => \A n \in DOMAIN member : member[n].id # 0

MembershipInv ==
    MembershipTypeOK /\ HardHaveClusters /\ LinksStand /\ AllSettled /\ PrimaryBelongs

MInv == EdgeTables /\ MembershipInv

LEMMA EdgesAreDirected == Edge \subseteq Directed
<1>1. \A e \in Edge : e \in Node \X Node /\ e[1] # e[2] BY EdgeIs DEF Edge
<1> QED BY <1>1 DEF Directed

LEMMA ReversesAreDirected ==
    ASSUME NEW e \in Edge
    PROVE  Reverse(e) \in Directed /\ Reverse(e) \notin Edge /\ Reverse(Reverse(e)) = e
<1>1. Reverse(e)[1] = e[2] /\ Reverse(e)[2] = e[1] BY DEF Reverse
<1>2. /\ e[1] \in Node /\ e[2] \in Node /\ e[1] \in Nat /\ e[2] \in Nat /\ e[1] < e[2]
      /\ e = <<e[1], e[2]>>
  BY EdgeIs
<1>3. Reverse(e) \in Directed BY <1>1, <1>2 DEF Directed, Reverse
<1>4. Reverse(e) \notin Edge BY <1>1, <1>2 DEF Edge
<1>5. Reverse(Reverse(e)) = e BY <1>1, <1>2 DEF Reverse
<1> QED BY <1>3, <1>4, <1>5

\* A table of edges has finitely many temporary clusters, of known records.
LEMMA TableOfEdges ==
    ASSUME NEW T, DOMAIN T \subseteq Directed
    PROVE  /\ IsFiniteSet(Ids(T)) /\ IsFiniteSet(DOMAIN T)
           /\ AllNodes(T) \subseteq Node
           /\ \A i : NodesOf(T, i) \subseteq AllNodes(T)
           /\ \A n \in AllNodes(T) : \E i \in Ids(T) : n \in NodesOf(T, i)
<1>1. IsFiniteSet(DOMAIN T)
  <2>1. IsFiniteSet(Node \X Node) BY FS_Product, NodeAssumption
  <2>2. DOMAIN T \in SUBSET (Node \X Node) BY DEF Directed
  <2> QED BY <2>1, <2>2, FS_Subset
<1> DEFINE f == [e \in DOMAIN T |-> T[e].id]
<1>2. IsFiniteSet({f[e] : e \in DOMAIN T}) BY <1>1, RangeFinite
<1>3. {f[e] : e \in DOMAIN T} = Ids(T) BY DEF Ids
<1>4. \A e \in Directed : Ends(e) \subseteq Node BY DEF Directed, Ends
<1>5. AllNodes(T) \subseteq Node BY <1>4 DEF AllNodes
<1>6. \A i : NodesOf(T, i) \subseteq AllNodes(T) BY DEF NodesOf, AllNodes
<1>7. ASSUME NEW n \in AllNodes(T) PROVE \E i \in Ids(T) : n \in NodesOf(T, i)
  <2>1. PICK e \in DOMAIN T : n \in Ends(e) BY DEF AllNodes
  <2> QED BY <2>1 DEF Ids, NodesOf
<1> QED BY <1>1, <1>2, <1>3, <1>5, <1>6, <1>7

\* Finitely many records are enrolled, and their cluster ids are numbers.
LEMMA MemberIds ==
    ASSUME MembershipTypeOK
    PROVE  /\ {member[n].id : n \in DOMAIN member} \in SUBSET Nat
           /\ IsFiniteSet({member[n].id : n \in DOMAIN member})
           /\ Unassigned \in SUBSET Nat /\ IsFiniteSet(Unassigned)
<1>1. IsFiniteSet(DOMAIN member) BY NodeAssumption, FS_Subset DEF MembershipTypeOK
<1> DEFINE f == [n \in DOMAIN member |-> member[n].id]
<1>2. IsFiniteSet({f[n] : n \in DOMAIN member}) BY <1>1, RangeFinite
<1>3. {f[n] : n \in DOMAIN member} = {member[n].id : n \in DOMAIN member} OBVIOUS
<1>4. Unassigned \in SUBSET DOMAIN member BY DEF Unassigned
<1>5. IsFiniteSet(Unassigned) BY <1>1, <1>4, FS_Subset
<1>6. Unassigned \in SUBSET Nat BY <1>4, NodeAssumption DEF MembershipTypeOK
<1>7. {member[n].id : n \in DOMAIN member} \in SUBSET Nat BY DEF MembershipTypeOK
<1> QED BY <1>2, <1>3, <1>5, <1>6, <1>7

-----------------------------------------------------------------------------
(* The graph's side *)

LEMMA DataEdges ==
    ASSUME NEW d \in Data
    PROVE  d.pairs \subseteq Edge
BY MatchingAssumption

\* Propagate relabels a table; the edges stay.
LEMMA PropagateKeepsEdges ==
    ASSUME NEW T
    PROVE  DOMAIN Propagate(T) = DOMAIN T
BY DEF Propagate

\* What Resolve adds are edges, under ids that are numbers.
LEMMA ResolvedIds ==
    ASSUME EdgeTables, DOMAIN output # {}, NEW kept \in SUBSET Edge
    PROVE  /\ DOMAIN Resolved(kept) = kept
           /\ \A e \in kept : Resolved(kept)[e].id \in Nat
<1> DEFINE labelled == [e \in kept |-> [p |-> assignment[e].p, id |-> RowNumber(e, kept)]]
           parts == Propagate(labelled)
           rank(i) == Cardinality({j \in Ids(parts) : j <= i})
<1>1. DOMAIN parts = kept
  <2>1. DOMAIN labelled = kept OBVIOUS
  <2> QED BY <2>1, PropagateKeepsEdges
<1>2. IsFiniteSet(Ids(parts)) BY <1>1, TableOfEdges, EdgesAreDirected
<1>3. \A i : rank(i) \in Nat
  <2>1. \A i : IsFiniteSet({j \in Ids(parts) : j <= i})
    BY <1>2, FS_Subset, \A i : {j \in Ids(parts) : j <= i} \in SUBSET Ids(parts)
  <2> QED BY <2>1, FS_CardinalityType
<1>4. Max(Ids(output)) \in Nat
  <2>1. Ids(output) \in SUBSET Nat /\ Ids(output) # {} BY DEF EdgeTables, Ids
  <2>2. IsFiniteSet(Ids(output)) BY TableOfEdges DEF EdgeTables
  <2> QED BY <2>1, <2>2, MaxIs
<1> HIDE DEF rank, parts
<1>5. Resolved(kept) = [e \in kept |-> [p |-> parts[e].p, id |-> Max(Ids(output)) + rank(parts[e].id)]]
  BY DEF Resolved, rank, parts
<1> QED BY <1>3, <1>4, <1>5

LEMMA KeptSetsAreEdges ==
    ASSUME NEW kept \in KeptSets
    PROVE  kept \subseteq Edge
<1>1. \A i : \A k \in MostProbable(i) : k \subseteq Edge
  BY DEF MostProbable, Renamed
<1>2. PICK choice : /\ kept = UNION {choice[i] : i \in Graphs}
                    /\ \A i \in Graphs : choice[i] \in [j \in Graphs |-> MostProbable(j)][i]
  BY DEF KeptSets
<1>3. \A i \in Graphs : choice[i] \subseteq Edge BY <1>1, <1>2
<1> QED BY <1>2, <1>3

\* Every step keeps the tables of the graph tables of edges.
LEMMA EdgeTablesStep ==
    ASSUME EdgeTables, [Next]_vars
    PROVE  EdgeTables'
<1> USE DEF EdgeTables, Beside, graphTables, bounds, BeforeSeed, At
<1> USE EdgesAreDirected
<1>1. CASE UNCHANGED vars BY <1>1 DEF vars, matchingVars
<1>2. CASE ImportFinished
  BY <1>2 DEF ImportFinished
<1>3. CASE InsertCandidates BY <1>3, DataEdges DEF InsertCandidates
<1>4. CASE InsertFails BY <1>4 DEF InsertFails, NoPairs
<1>5. CASE Compare BY <1>5 DEF Compare, Scores
<1>6. CASE Score BY <1>6 DEF Score
<1>7. CASE CompareOutstanding BY <1>7 DEF CompareOutstanding, Scores
<1>8. CASE ScoreOutstanding BY <1>8 DEF ScoreOutstanding
<1>9. CASE Finish BY <1>9 DEF Finish, matchingVars
<1>10. CASE CrashBetween BY <1>10 DEF CrashBetween
<1>11. CASE CutOff BY <1>11 DEF CutOff
<1>12. CASE GetPass1Edges(matches) /\ Elsewhere
  BY <1>12, ReversesAreDirected DEF GetPass1Edges, Elsewhere, matchingVars, Fresh, Likelier
<1>13. CASE Seed /\ Elsewhere
  <2> DEFINE lone == Lone(Seeds)
             rest == [e \in Seeds \ lone |->
                         [p |-> SeedProbability(e), id |-> RowNumber(e, Seeds)]]
  <2>1. lone \subseteq Edge /\ DOMAIN rest \subseteq Edge BY DEF Lone, Seeds
  <2>2. output' = [e \in lone |-> [p |-> SeedProbability(e), id |-> RowNumber(e, lone)]]
    BY <1>13 DEF Seed
  <2>3. assignment' = IF lone = {} THEN rest ELSE Propagate(rest)
    BY <1>13 DEF Seed
  <2>4. DOMAIN assignment' \subseteq Edge BY <2>1, <2>3, PropagateKeepsEdges
  <2> HIDE DEF lone, rest
  <2>5. \A e \in DOMAIN output' : output'[e].id \in Nat /\ e \in Edge
    BY <2>1, <2>2, RowNumberIs
  <2>6. UNCHANGED <<data, candidates, results, matches, pass1, pass2, outstanding, saves>>
    BY <1>13 DEF Seed, Elsewhere, matchingVars
  <2> QED BY <2>4, <2>5, <2>6
<1>14. CASE PruneStep
  <2>1. DOMAIN assignment' \subseteq DOMAIN assignment
    <3>1. PICK cut : assignment' = Propagate([e \in DOMAIN assignment \ cut |-> assignment[e]])
      BY <1>14 DEF PruneStep, Prune
    <3> QED BY <3>1, PropagateKeepsEdges
  <2> QED BY <1>14, <2>1 DEF PruneStep, Prune, Elsewhere, matchingVars
<1>15. CASE CompleteEdges /\ Elsewhere
  BY <1>15 DEF CompleteEdges, Elsewhere, matchingVars
<1>16. CASE GetPass2Edges /\ Elsewhere
  BY <1>16 DEF GetPass2Edges, Elsewhere, matchingVars
<1>17. CASE Resolve /\ Elsewhere
  <2>1. PICK kept \in IF NoLogarithm THEN {{}} ELSE KeptSets :
           output' = IF kept = {} \/ DOMAIN output = {} THEN output ELSE Beside(output, Resolved(kept))
    BY <1>17 DEF Resolve
  <2>2. kept \in SUBSET Edge BY <2>1, KeptSetsAreEdges
  <2>3. CASE kept = {} \/ DOMAIN output = {}
    BY <1>17, <2>1, <2>3 DEF Resolve, Elsewhere, matchingVars
  <2>4. CASE ~(kept = {} \/ DOMAIN output = {})
    <3>1. output' = Beside(output, Resolved(kept)) BY <2>1, <2>4
    <3>2. DOMAIN Resolved(kept) = kept /\ \A e \in kept : Resolved(kept)[e].id \in Nat
      BY <2>2, <2>4, ResolvedIds
    <3>3. DOMAIN output \subseteq Edge BY <1>17 DEF Resolve
    <3>4. \A e \in DOMAIN output' : output'[e].id \in Nat /\ e \in Edge
      BY <2>2, <3>1, <3>2, <3>3
    <3>5. /\ UNCHANGED <<data, candidates, results, matches, pass1, pass2, saves>>
          /\ assignment' = <<>> /\ outstanding' = <<>>
      BY <1>17 DEF Resolve, Elsewhere, matchingVars
    <3>6. DOMAIN output' \subseteq Edge BY <3>4
    <3> QED BY <3>4, <3>5, <3>6
  <2> QED BY <2>3, <2>4
<1>18. CASE ClusterStep
  BY <1>18 DEF ClusterStep, matchingVars, MaintainNodes, MembershipStep, Link, Adopt, Found, Settle, Review
<1>19. CASE PrimaryRecordLinked
  BY <1>19 DEF PrimaryRecordLinked, matchingVars, HardLink
<1>20. CASE SeedFails /\ Elsewhere BY <1>20 DEF SeedFails, Elsewhere, matchingVars
<1>21. CASE SaveNetwork
  <2>1. PICK w \in Networks :
           output' = Beside([e \in DOMAIN w.edges |-> [p |-> w.edges[e], id |-> Meaningless]],
                            [e \in {d \in DOMAIN output : d[1] \notin DOMAIN w.rows} |-> output[e]])
    BY <1>21 DEF SaveNetwork
  <2>2. DOMAIN w.edges \subseteq Directed BY NetworkAssumption DEF Rows
  <2>3. \A e \in DOMAIN output' : e \in Directed /\ output'[e].id \in Nat
    BY <2>1, <2>2 DEF Meaningless
  <2>4. /\ UNCHANGED <<data, candidates, results, matches, pass1, pass2, assignment, outstanding, at>>
        /\ at \in BeforeSeed /\ saves' = saves + 1
    BY <1>21 DEF SaveNetwork, matchingVars
  <2>5. saves' \in Nat /\ saves' # 0 BY <2>4
  <2> QED BY <2>3, <2>4, <2>5
<1> QED BY <1>1, <1>2, <1>3, <1>4, <1>5, <1>6, <1>7, <1>8, <1>9, <1>10, <1>11, <1>12, <1>13,
           <1>14, <1>15, <1>16, <1>17, <1>18, <1>19, <1>20, <1>21 DEF Next, Round, GraphStep

-----------------------------------------------------------------------------
(* The membership's side *)

\* Between Step4 and Step5 of the next Phase2 nobody looks at the membership.
LEMMA ElsewhereKeeps ==
    ASSUME MembershipInv, UNCHANGED tables, at' \notin {"link", "adopt", "found", "review", "finish"}
    PROVE  MembershipInv'
BY DEF MembershipInv, MembershipTypeOK, HardHaveClusters, LinksStand, AllSettled, PrimaryBelongs,
       tables, At, Members, Hard

\* The steps that are not of Step5 and Step6 come to no step of theirs but the first.
LEMMA OtherSteps ==
    ASSUME \/ ImportFinished \/ InsertCandidates \/ Compare \/ Score \/ CompareOutstanding
           \/ ScoreOutstanding \/ GraphStep \/ Finish \/ InsertFails \/ CrashBetween \/ CutOff
    PROVE  UNCHANGED tables /\ at' \notin {"link", "adopt", "found", "review", "finish"}
<1> USE DEF At
<1>1. CASE GraphStep
  BY <1>1 DEF GraphStep, PruneStep, Elsewhere, GetPass1Edges, Seed, SeedFails, Prune, CompleteEdges,
                GetPass2Edges, Resolve
<1>2. CASE CrashBetween BY <1>2 DEF CrashBetween, QueueStage
<1> QED BY <1>1, <1>2 DEF ImportFinished, InsertCandidates, Compare, Score, CompareOutstanding,
           ScoreOutstanding, Finish, InsertFails, CutOff

LEMMA MaintainKeeps ==
    ASSUME MInv, MaintainNodes(data.records)
    PROVE  MembershipInv'
<1> USE DEF MInv, EdgeTables, MembershipInv, MaintainNodes, At
<1>1. data.records \subseteq Node BY MatchingAssumption
<1>2. AllNodes(output) \subseteq Node BY TableOfEdges
<1>3. MembershipTypeOK' BY <1>1, <1>2 DEF MembershipTypeOK
<1>4. LinksStand' BY DEF LinksStand, AllNodes
<1> QED BY <1>3, <1>4 DEF HardHaveClusters, Hard, AllSettled, PrimaryBelongs

\* Link enrols the nodes and picks a link node out of each temporary cluster.
LEMMA LinkKeeps ==
    ASSUME MInv, Link
    PROVE  /\ MembershipInv'
           /\ \A n \in DOMAIN member : n \in DOMAIN member' /\ member'[n] = member[n]
<1> DEFINE rows == [n \in DOMAIN member \cup nodes |->
                       IF n \in DOMAIN member THEN member[n] ELSE [id |-> 0, hard |-> FALSE]]
           best == [i \in Ids(output) |-> {n \in NodesOf(output, i) : Represents(n, i, rows)}]
<1>1. /\ member' = rows /\ at' = "adopt" /\ at = "link"
      /\ seed' = Largest({rows[n].id : n \in DOMAIN rows})
      /\ UNCHANGED <<output, nodes, clusters, primary>>
  BY DEF Link, At
<1>2. PICK ln \in [Ids(output) -> UNION {best[i] : i \in Ids(output)}] :
        /\ \A i \in Ids(output) : ln[i] \in best[i]
        /\ linkNode' = ln
  BY DEF Link
<1>3. MembershipTypeOK /\ HardHaveClusters /\ AllNodes(output) \subseteq nodes
  BY <1>1 DEF MInv, MembershipInv, LinksStand, At
<1>4. DOMAIN rows \subseteq Node /\ rows \in [DOMAIN rows -> [id : Nat, hard : BOOLEAN]]
  BY <1>3 DEF MembershipTypeOK
<1>5. /\ {rows[n].id : n \in DOMAIN rows} \in SUBSET Nat
      /\ IsFiniteSet({rows[n].id : n \in DOMAIN rows})
  <2> HIDE DEF rows
  <2> DEFINE f == [n \in DOMAIN rows |-> rows[n].id]
  <2>1. IsFiniteSet(DOMAIN rows) BY <1>4, NodeAssumption, FS_Subset
  <2>2. IsFiniteSet({f[n] : n \in DOMAIN rows}) BY <2>1, RangeFinite
  <2>3. {f[n] : n \in DOMAIN rows} = {rows[n].id : n \in DOMAIN rows} OBVIOUS
  <2> QED BY <1>4, <2>2, <2>3
<1>6. seed' \in Nat /\ \A n \in DOMAIN rows : rows[n].id <= seed'
  <2> HIDE DEF rows
  <2> DEFINE S == {rows[n].id : n \in DOMAIN rows}
  <2>1. Largest(S) \in Nat /\ \A i \in S : i <= Largest(S) BY <1>5, LargestIs
  <2>2. seed' = Largest(S) BY <1>1
  <2> QED BY <2>1, <2>2
<1>7. \A n \in DOMAIN member : n \in DOMAIN member' /\ member'[n] = member[n]
  BY <1>1
<1>8. MembershipTypeOK' BY <1>1, <1>3, <1>4, <1>6 DEF MembershipTypeOK
<1>9. HardHaveClusters' BY <1>1, <1>3 DEF HardHaveClusters, Hard
<1>10. LinksStand'
  <2>1. AllNodes(output') \subseteq DOMAIN member' BY <1>1, <1>3
  <2>2. DOMAIN linkNode' = Ids(output') BY <1>1, <1>2
  <2>3. \A i \in DOMAIN linkNode' : linkNode'[i] \in NodesOf(output', i) BY <1>1, <1>2
  <2> QED BY <1>1, <1>6, <2>1, <2>2, <2>3 DEF LinksStand, At
<1> QED BY <1>1, <1>7, <1>8, <1>9, <1>10 DEF MembershipInv, AllSettled, PrimaryBelongs, At

\* While records move, a link node stands for the temporary cluster of each node.
LEMMA LinkNodes ==
    ASSUME MInv, at \in {"adopt", "found"}
    PROVE  /\ DOMAIN linkNode = Ids(output)
           /\ \A i \in DOMAIN linkNode : linkNode[i] \in DOMAIN member
           /\ \A n : Linked(n) => Home(n) \in DOMAIN linkNode /\ n \in NodesOf(output, Home(n))
           /\ \A n : Linked(n) => Target(n) \in Nat /\ Target(n) <= seed
<1> USE DEF MInv, MembershipInv, LinksStand
<1>1. /\ DOMAIN linkNode = Ids(output)
      /\ \A i \in DOMAIN linkNode : linkNode[i] \in NodesOf(output, i)
      /\ AllNodes(output) \subseteq DOMAIN member
      /\ \A n \in DOMAIN member : member[n].id \in Nat /\ member[n].id <= seed
  BY DEF MembershipTypeOK
<1>2. \A i \in DOMAIN linkNode : linkNode[i] \in DOMAIN member
  BY <1>1, TableOfEdges DEF EdgeTables
<1>3. ASSUME NEW n, Linked(n)
      PROVE  Home(n) \in DOMAIN linkNode /\ n \in NodesOf(output, Home(n))
  BY <1>3, Zenon DEF Linked, Home
<1>4. \A n : Linked(n) => Target(n) \in Nat /\ Target(n) <= seed
  BY <1>1, <1>2, <1>3 DEF Target
<1> QED BY <1>1, <1>2, <1>3, <1>4

\* Adopt leaves hard-linked and unassigned records alone.
LEMMA AdoptKeeps ==
    ASSUME MInv, Adopt
    PROVE  /\ MembershipInv'
           /\ \A n \in DOMAIN member : n \in DOMAIN member'
                 /\ (Hard(n) \/ member[n].id = 0 => member'[n] = member[n])
<1>1. /\ at = "adopt" /\ at' = "found"
      /\ UNCHANGED <<output, nodes, linkNode, seed, clusters, primary>>
  BY DEF Adopt, At
<1>2. MembershipTypeOK /\ HardHaveClusters BY DEF MInv, MembershipInv
<1>3. /\ DOMAIN member' = DOMAIN member
      /\ \A n \in DOMAIN member : member'[n] =
            IF Linked(n) /\ ~Hard(n) /\ member[n].id # 0 /\ Target(n) # 0
            THEN [member[n] EXCEPT !.id = Target(n)] ELSE member[n]
      /\ member' = [n \in DOMAIN member |-> member'[n]]
  BY DEF Adopt
<1>4. \A n : Linked(n) => Target(n) \in Nat /\ Target(n) <= seed BY <1>1, LinkNodes
<1>5. /\ DOMAIN linkNode = Ids(output) /\ AllNodes(output) \subseteq DOMAIN member
      /\ \A i \in DOMAIN linkNode : linkNode[i] \in NodesOf(output, i)
      /\ \A n \in DOMAIN member : member[n].id <= seed
  BY <1>1 DEF MInv, MembershipInv, LinksStand
<1>6. \A n \in DOMAIN member :
         /\ member[n] \in [id : Nat, hard : BOOLEAN]
         /\ member'[n] \in [id : Nat, hard : BOOLEAN]
         /\ member'[n].hard = member[n].hard
         /\ member'[n].id <= seed
         /\ Hard(n) \/ member[n].id = 0 => member'[n] = member[n]
  BY <1>2, <1>3, <1>4, <1>5 DEF MembershipTypeOK
<1>7. MembershipTypeOK' BY <1>1, <1>2, <1>3, <1>6 DEF MembershipTypeOK
<1>8. HardHaveClusters' BY <1>1, <1>2, <1>3, <1>6 DEF HardHaveClusters, Hard
<1>9. LinksStand' BY <1>1, <1>3, <1>5, <1>6 DEF LinksStand, At
<1> QED BY <1>1, <1>3, <1>6, <1>7, <1>8, <1>9 DEF MembershipInv, AllSettled, PrimaryBelongs, At

\* The clusters that Found gives out are past the seed, one for each temporary cluster.
LEMMA FoundKeeps ==
    ASSUME MInv, Found
    PROVE  /\ MembershipInv'
           /\ \A n \in DOMAIN member : n \in DOMAIN member' /\ (Hard(n) => member'[n] = member[n])
           /\ \A m \in Unassigned, n \in DOMAIN member :
                 (m # n /\ member'[m].id # 0 /\ member'[m].id = member'[n].id)
                    => \E i \in Ids(output) : {m, n} \subseteq NodesOf(output, i)
<1> DEFINE fresh == {i \in DOMAIN linkNode :
                        member[linkNode[i]].id = 0 /\ \E n \in NodesOf(output, i) : ~Hard(n)}
           Gets(n) == Linked(n) /\ ~Hard(n) /\ Home(n) \in fresh
<1>1. /\ at = "found" /\ at' = "settle"
      /\ UNCHANGED <<output, nodes, linkNode, seed, clusters, primary>>
  BY DEF Found, At
<1>2. MembershipTypeOK /\ HardHaveClusters BY DEF MInv, MembershipInv
<1>3. \A n \in DOMAIN member : member[n].id <= seed
  BY <1>1 DEF MInv, MembershipInv, LinksStand
<1>4. /\ DOMAIN linkNode = Ids(output)
      /\ \A n : Linked(n) => Home(n) \in DOMAIN linkNode /\ n \in NodesOf(output, Home(n))
  BY <1>1, LinkNodes
<1>5. fresh \in SUBSET Nat /\ IsFiniteSet(fresh)
  <2>1. fresh \in SUBSET Ids(output) BY <1>4
  <2>2. IsFiniteSet(Ids(output)) BY TableOfEdges DEF MInv, EdgeTables
  <2>3. Ids(output) \subseteq Nat BY DEF MInv, EdgeTables, Ids
  <2> QED BY <2>1, <2>2, <2>3, FS_Subset
<1>6. \A i \in fresh : /\ RankIn(i, fresh) \in Nat \ {0}
                       /\ \A j \in fresh : RankIn(i, fresh) = RankIn(j, fresh) => i = j
  <2> HIDE DEF fresh
  <2> QED BY <1>5, RankIs
<1>7. member' = [n \in DOMAIN member |->
         IF Gets(n) THEN [member[n] EXCEPT !.id = seed + RankIn(Home(n), fresh)] ELSE member[n]]
  BY DEF Found
<1> HIDE DEF fresh
<1>8. \A n \in DOMAIN member :
         /\ member[n] \in [id : Nat, hard : BOOLEAN] /\ seed \in Nat
         /\ member'[n] \in [id : Nat, hard : BOOLEAN]
         /\ member'[n].hard = member[n].hard
         /\ ~Gets(n) => member'[n] = member[n]
         /\ Gets(n) => member'[n].id = seed + RankIn(Home(n), fresh)
  BY <1>2, <1>6, <1>7 DEF MembershipTypeOK
<1>9. DOMAIN member' = DOMAIN member BY <1>7
<1>10. ASSUME NEW m \in Unassigned, NEW n \in DOMAIN member,
              m # n, member'[m].id # 0, member'[m].id = member'[n].id
       PROVE  \E i \in Ids(output) : {m, n} \subseteq NodesOf(output, i)
  <2>1. m \in DOMAIN member /\ Gets(m) BY <1>8, <1>10 DEF Unassigned
  <2>2. Gets(n) BY <1>3, <1>6, <1>8, <1>10, <2>1
  <2>3. Home(m) = Home(n) BY <1>6, <1>8, <1>10, <2>1, <2>2
  <2> QED BY <1>4, <2>1, <2>2, <2>3
<1>11. MembershipTypeOK' BY <1>1, <1>2, <1>7, <1>8, <1>9 DEF MembershipTypeOK
<1>12. HardHaveClusters' BY <1>1, <1>2, <1>8, <1>9 DEF HardHaveClusters, Hard
<1> QED BY <1>1, <1>8, <1>9, <1>10, <1>11, <1>12 DEF MembershipInv, LinksStand, AllSettled, PrimaryBelongs, At

\* The clusters that Settle gives out are past all there are, one for each record.
LEMMA SettleKeeps ==
    ASSUME MInv, Settle
    PROVE  /\ MembershipInv'
           /\ \A n \in DOMAIN member : n \in DOMAIN member' /\ (Hard(n) => member'[n] = member[n])
           /\ \A m \in Unassigned, n \in DOMAIN member :
                 m # n => member'[m].id # member'[n].id
<1> DEFINE most == Largest({member[n].id : n \in DOMAIN member})
<1>1. /\ at = "settle" /\ at' = "review"
      /\ UNCHANGED <<output, nodes, linkNode, seed, clusters, primary>>
  BY DEF Settle, At
<1>2. MembershipTypeOK /\ HardHaveClusters BY DEF MInv, MembershipInv
<1>3. most \in Nat /\ \A n \in DOMAIN member : member[n].id <= most
  BY <1>2, MemberIds, LargestIs
<1>4. \A i \in Unassigned : /\ RankIn(i, Unassigned) \in Nat \ {0}
                            /\ \A j \in Unassigned : RankIn(i, Unassigned) = RankIn(j, Unassigned) => i = j
  BY <1>2, MemberIds, RankIs
<1>5. member' = [n \in DOMAIN member |->
         IF member[n].id # 0 THEN member[n]
         ELSE [member[n] EXCEPT !.id = most + RankIn(n, Unassigned)]]
  BY DEF Settle
<1> HIDE DEF most
<1>6. \A n \in DOMAIN member :
         /\ member[n] \in [id : Nat, hard : BOOLEAN]
         /\ n \in Unassigned <=> member[n].id = 0
         /\ member'[n] \in [id : Nat, hard : BOOLEAN]
         /\ member'[n].hard = member[n].hard
         /\ n \notin Unassigned => member'[n] = member[n]
         /\ n \in Unassigned => member'[n].id = most + RankIn(n, Unassigned)
         /\ member'[n].id # 0
  BY <1>2, <1>3, <1>4, <1>5 DEF MembershipTypeOK, Unassigned
<1>7. DOMAIN member' = DOMAIN member BY <1>5
<1>8. ASSUME NEW m \in Unassigned, NEW n \in DOMAIN member, m # n
      PROVE  member'[m].id # member'[n].id
  <2>1. m \in DOMAIN member BY DEF Unassigned
  <2>2. CASE n \in Unassigned BY <1>3, <1>4, <1>6, <1>8, <2>1, <2>2
  <2>3. CASE n \notin Unassigned BY <1>3, <1>4, <1>6, <2>1, <2>3
  <2> QED BY <2>2, <2>3
<1>9. MembershipTypeOK' BY <1>1, <1>2, <1>5, <1>6, <1>7 DEF MembershipTypeOK
<1>10. HardHaveClusters' BY <1>1, <1>2, <1>6, <1>7 DEF HardHaveClusters, Hard
<1>11. \A n \in DOMAIN member : Hard(n) => member'[n] = member[n]
  BY <1>2, <1>6 DEF HardHaveClusters
<1> QED BY <1>1, <1>6, <1>7, <1>8, <1>9, <1>10, <1>11
     DEF MembershipInv, LinksStand, AllSettled, PrimaryBelongs, At

\* The best candidate of a cluster with members is a member.
LEMMA BestAreMembers ==
    ASSUME NEW c, NEW active
    PROVE  Best(c, active) \subseteq Members(c) /\ (Members(c) # {} => Best(c, active) # {})
BY DEF Best

LEMMA PrimaryIs ==
    ASSUME NEW c, NEW n, Members(c) # {} => n \in Members(c)
    PROVE  IF Members(c) = {} THEN Primary(c, n) = NoNode ELSE Primary(c, n) \in Members(c)
BY DEF Primary

\* Review gives every cluster with records one of them for primary record.
LEMMA ReviewKeeps ==
    ASSUME MInv, NEW active, Review(active)
    PROVE  MembershipInv'
<1>1. /\ at = "review" /\ at' = "finish" /\ UNCHANGED <<output, nodes, member, seed>>
      /\ clusters' = clusters \cup {member[n].id : n \in DOMAIN member}
  BY DEF Review, At
<1>2. MembershipTypeOK /\ HardHaveClusters /\ AllSettled BY DEF MInv, MembershipInv
<1> DEFINE contested == {c \in clusters' : Cardinality(Best(c, active)) > 1}
<1>3. PICK first \in [contested -> UNION {Best(c, active) : c \in contested}] :
         /\ \A c \in contested : first[c] \in Best(c, active)
         /\ primary' = [c \in clusters' |->
               Primary(c, IF c \in contested THEN first[c] ELSE CHOOSE n \in Best(c, active) : TRUE)]
  BY DEF Review
<1> HIDE DEF contested
<1>4. ASSUME NEW c \in clusters'
      PROVE  IF Members(c) = {} THEN primary'[c] = NoNode ELSE primary'[c] \in Members(c)
  <2> DEFINE n == IF c \in contested THEN first[c] ELSE CHOOSE n \in Best(c, active) : TRUE
  <2>1. Members(c) # {} => n \in Members(c)
    <3>1. CASE c \in contested BY <1>3, <3>1, BestAreMembers
    <3>2. CASE c \notin contested
      <4>1. Best(c, active) # {} => (CHOOSE k \in Best(c, active) : TRUE) \in Best(c, active)
        OBVIOUS
      <4> QED BY <3>2, <4>1, BestAreMembers
    <3> QED BY <3>1, <3>2
  <2>2. primary'[c] = Primary(c, n) BY <1>3
  <2> HIDE DEF n
  <2> QED BY <2>1, <2>2, PrimaryIs
<1>5. \A c : Members(c)' = Members(c) BY <1>1 DEF Members
<1>6. \A c : Members(c) \subseteq Node BY <1>2 DEF Members, MembershipTypeOK
<1>7. primary' \in [clusters' -> Node \cup {NoNode}] BY <1>3, <1>4, <1>6
<1>8. clusters' \subseteq Nat /\ 0 \notin clusters'
  BY <1>1, <1>2 DEF MembershipTypeOK, HardHaveClusters, AllSettled, At
<1>9. MembershipTypeOK' BY <1>1, <1>2, <1>7, <1>8 DEF MembershipTypeOK
<1>10. HardHaveClusters' BY <1>1, <1>2, <1>8 DEF HardHaveClusters, Hard
<1>11. PrimaryBelongs' BY <1>4, <1>5 DEF PrimaryBelongs
<1> QED BY <1>1, <1>9, <1>10, <1>11 DEF MembershipInv, LinksStand, AllSettled, At

\* A hard link is made to a record that has a cluster, and changes nobody's cluster.
LEMMA HardLinkKeeps ==
    ASSUME MInv, NEW n \in Node, HardLink(n)
    PROVE  /\ MembershipInv'
           /\ DOMAIN member' = DOMAIN member
           /\ \A m \in DOMAIN member : member'[m].id = member[m].id
           /\ \A m \in DOMAIN member : Hard(m) => member'[m] = member[m]
<1>1. /\ n \in DOMAIN member /\ ~Hard(n) /\ member[n].id \in clusters
      /\ member' = [member EXCEPT ![n].hard = TRUE]
      /\ UNCHANGED <<output, at, nodes, linkNode, seed, clusters, primary>>
  BY DEF HardLink
<1>2. MembershipTypeOK /\ HardHaveClusters /\ LinksStand /\ AllSettled /\ PrimaryBelongs
  BY DEF MInv, MembershipInv
<1>3. /\ DOMAIN member' = DOMAIN member
      /\ \A m \in DOMAIN member : /\ member[m] \in [id : Nat, hard : BOOLEAN]
                                  /\ member'[m] \in [id : Nat, hard : BOOLEAN]
                                  /\ member'[m].id = member[m].id
                                  /\ m # n => member'[m] = member[m]
  BY <1>1, <1>2 DEF MembershipTypeOK
<1>4. MembershipTypeOK' BY <1>1, <1>2, <1>3 DEF MembershipTypeOK
<1>5. HardHaveClusters' BY <1>1, <1>2, <1>3 DEF HardHaveClusters, Hard
<1>6. \A c : Members(c)' = Members(c) BY <1>3 DEF Members
<1>7. PrimaryBelongs' BY <1>1, <1>2, <1>6 DEF PrimaryBelongs, At
<1>8. LinksStand' BY <1>1, <1>2, <1>3 DEF LinksStand, At
<1>9. AllSettled' BY <1>1, <1>2, <1>3 DEF AllSettled, At
<1> QED BY <1>1, <1>3, <1>4, <1>5, <1>7, <1>8, <1>9 DEF MembershipInv

\* A save gives the records of its network new rows, and its clusters primary records
\* of their own; nobody else's row changes, and no cluster is new.
LEMMA SaveKeeps ==
    ASSUME MInv, SaveNetwork
    PROVE  MembershipInv' /\ \A n \in Unassigned : member'[n].id = 0
<1>1. PICK w \in Networks :
        /\ Accepts(w)
        /\ member' = [n \in DOMAIN member |-> IF n \in DOMAIN w.rows THEN w.rows[n] ELSE member[n]]
        /\ \E first \in [w.upcis -> Node \cup {NoNode}] :
              primary' = [c \in clusters |-> IF c \in w.upcis THEN first[c] ELSE primary[c]]
  BY DEF SaveNetwork
<1>2. at = "rest" /\ UNCHANGED <<at, nodes, linkNode, seed, clusters>> BY DEF SaveNetwork, At
<1>3. /\ w.upcis \subseteq clusters
      /\ w.upcis \subseteq Nat \ {0}
      /\ w.rows \in [DOMAIN w.rows -> [id : w.upcis, hard : BOOLEAN]]
  BY <1>1, NetworkAssumption DEF Accepts, Rows
<1>4. MembershipTypeOK /\ HardHaveClusters BY DEF MInv, MembershipInv
<1>5. DOMAIN member' = DOMAIN member BY <1>1
<1>6. \A n \in DOMAIN w.rows : /\ w.rows[n] \in [id : w.upcis, hard : BOOLEAN]
                              /\ w.rows[n].id \in w.upcis
  BY <1>3
<1>7. \A n \in DOMAIN member :
         /\ member'[n] \in [id : Nat, hard : BOOLEAN]
         /\ member'[n] = member[n] \/ member'[n].id \in w.upcis
  BY <1>1, <1>3, <1>4, <1>6 DEF MembershipTypeOK
<1>8. member' = [n \in DOMAIN member |-> member'[n]] BY <1>1
<1>9. primary' \in [clusters' -> Node \cup {NoNode}] BY <1>1, <1>2, <1>4 DEF MembershipTypeOK
<1>10. MembershipTypeOK' BY <1>2, <1>4, <1>5, <1>7, <1>8, <1>9 DEF MembershipTypeOK
<1>11. HardHaveClusters' BY <1>2, <1>3, <1>4, <1>5, <1>7 DEF HardHaveClusters, Hard
<1>12. LinksStand' /\ AllSettled' /\ PrimaryBelongs'
  BY <1>2 DEF LinksStand, AllSettled, PrimaryBelongs, At
<1>13. ASSUME NEW n \in Unassigned PROVE member'[n].id = 0
  <2>1. n \in DOMAIN member /\ member[n].id = 0 BY DEF Unassigned
  <2>2. n \notin DOMAIN w.rows BY <1>1, <1>3, <2>1 DEF Accepts, Members
  <2> QED BY <1>1, <2>1, <2>2
<1> QED BY <1>10, <1>11, <1>12, <1>13 DEF MembershipInv

-----------------------------------------------------------------------------
(* The theorems *)

LEMMA InitMInv == Init => MInv
<1> SUFFICES ASSUME Init PROVE MInv OBVIOUS
<1> USE DEF Init, MembershipInit, GraphInit
<1>1. data \in Data BY MatchingAssumption
<1>2. EdgeTables BY <1>1 DEF EdgeTables, NoPairs
<1>3. MembershipTypeOK BY DEF MembershipTypeOK
<1>4. HardHaveClusters BY DEF HardHaveClusters, Hard
<1>5. LinksStand /\ AllSettled /\ PrimaryBelongs BY DEF LinksStand, AllSettled, PrimaryBelongs, At
<1> QED BY <1>2, <1>3, <1>4, <1>5 DEF MInv, MembershipInv

\* Every step is one of Step5 and Step6, a hard link, a save, or leaves the membership
\* alone; only a save is counted as one.
LEMMA StepCases ==
    ASSUME [Next]_vars
    PROVE  \/ MaintainNodes(data.records) \/ Link \/ Adopt \/ Found \/ Settle \/ Review(data.active)
           \/ \E n \in Node : HardLink(n)
           \/ SaveNetwork
           \/ UNCHANGED tables /\ at' \notin {"link", "adopt", "found", "review", "finish"}
           \/ UNCHANGED <<output, at, tables>>
<1>1. CASE UNCHANGED vars BY <1>1 DEF vars
<1>2. CASE Next
  BY <1>2, OtherSteps DEF Next, Round, ClusterStep, MembershipStep, PrimaryRecordLinked
<1> QED BY <1>1, <1>2

LEMMA StepMInv ==
    ASSUME MInv, [Next]_vars
    PROVE  MInv'
<1>1. EdgeTables' BY EdgeTablesStep DEF MInv
<1>2. CASE UNCHANGED <<output, at, tables>>
  BY <1>1, <1>2 DEF MInv, MembershipInv, MembershipTypeOK, HardHaveClusters, LinksStand, AllSettled,
                    PrimaryBelongs, tables, At, Hard, Members
<1> QED BY <1>1, <1>2, StepCases, MaintainKeeps, LinkKeeps, AdoptKeeps, FoundKeeps, SettleKeeps,
           ReviewKeeps, HardLinkKeeps, SaveKeeps, ElsewhereKeeps DEF MInv

\* The inductive invariant holds in every round, wherever rounds are cut off.
THEOREM MatchingInvariant == Spec => []MInv
<1>1. Init => MInv BY InitMInv
<1>2. MInv /\ [Next]_vars => MInv' BY StepMInv
<1> QED BY <1>1, <1>2, PTL DEF Spec

\* Every record's row, every cluster and every primary record is what the tables
\* of ClusterDb may hold.
THEOREM MembershipTypeCorrect == Spec => []MembershipTypeOK
<1>1. MInv => MembershipTypeOK BY DEF MInv, MembershipInv
<1> QED BY <1>1, MatchingInvariant, PTL

\* Whenever a round ends, the primary record of each cluster is one of its records.
THEOREM PrimariesBelong == Spec => []PrimaryBelongs
<1>1. MInv => PrimaryBelongs BY DEF MInv, MembershipInv
<1> QED BY <1>1, MatchingInvariant, PTL

\* No round, whole or cut off, ever moves or unlinks a record that is hard-linked.
THEOREM HardLinksNeverMove == Spec => HardLinksStay
<1> DEFINE Stays == saves' = saves =>
             \A n \in DOMAIN member : Hard(n) => n \in DOMAIN member' /\ member'[n] = member[n]
<1>1. ASSUME MInv, [Next]_vars PROVE Stays
  <2>1. CASE UNCHANGED member BY <2>1
  <2>2. CASE \E n \in Node : HardLink(n) BY <1>1, <2>2, HardLinkKeeps
  <2>3. CASE SaveNetwork
    <3>1. saves \in Nat BY <1>1 DEF MInv, EdgeTables
    <3>2. saves' = saves + 1 BY <2>3 DEF SaveNetwork
    <3> QED BY <3>1, <3>2
  <2> QED BY <1>1, <2>1, <2>2, <2>3, StepCases, LinkKeeps, AdoptKeeps, FoundKeeps, SettleKeeps
          DEF MaintainNodes, Review, tables
<1>2. MInv /\ [Next]_vars => [Stays]_vars BY <1>1
<1>3. Spec => [][Stays]_vars BY <1>2, MatchingInvariant, PTL DEF Spec
<1> QED BY <1>3 DEF HardLinksStay

\* A record that gets a new cluster never shares it with a stranger: the numbers of
\* the two UPDATEs of Step6 neither meet each other nor those of older clusters.
THEOREM NumberingsNeverMeet == Spec => NewClustersAreSeparate
<1> DEFINE Separate ==
             \A m \in Unassigned, n \in DOMAIN member :
                (m # n /\ member'[m].id # 0 /\ member'[m].id = member'[n].id)
                   => \E i \in Ids(output) : {m, n} \subseteq NodesOf(output, i)
<1>1. ASSUME MInv, [Next]_vars PROVE Separate
  <2>1. CASE \A m \in Unassigned : member'[m].id = 0 BY <2>1
  <2>2. CASE UNCHANGED member BY <2>1, <2>2 DEF Unassigned
  <2>3. CASE \E n \in Node : HardLink(n) BY <1>1, <2>1, <2>3, HardLinkKeeps DEF Unassigned
  <2>4. CASE Link BY <1>1, <2>1, <2>4, LinkKeeps DEF Unassigned
  <2>5. CASE Adopt BY <1>1, <2>1, <2>5, AdoptKeeps DEF Unassigned
  <2>6. CASE Found BY <1>1, <2>6, FoundKeeps
  <2>7. CASE Settle BY <1>1, <2>7, SettleKeeps
  <2>8. CASE SaveNetwork BY <1>1, <2>1, <2>8, SaveKeeps
  <2> QED BY <1>1, <2>2, <2>3, <2>4, <2>5, <2>6, <2>7, <2>8, StepCases
          DEF MaintainNodes, Review, tables
<1>2. MInv /\ [Next]_vars => [Separate]_vars BY <1>1
<1>3. Spec => [][Separate]_vars BY <1>2, MatchingInvariant, PTL DEF Spec
<1> QED BY <1>3 DEF NewClustersAreSeparate
=============================================================================
