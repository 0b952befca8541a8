------------------------------ MODULE RoundProofs ------------------------------
(***************************************************************************)
(* Theorems about the graph of Matching, for any records, data, thresholds *)
(* and bounds: the types of its tables, that temporary clusters are the    *)
(* connected parts of the graph, that a round's own scores count, what     *)
(* Step6 has settled once the records have moved, and which clusters are   *)
(* complete after Phase2 of a round without failures.                      *)
(***************************************************************************)
EXTENDS MatchingProofs

-----------------------------------------------------------------------------
(* Types *)

LEMMA LikelihoodIs == Likelihood \subseteq Probability
<1>1. \A p \in Likelihood : p \in Int /\ 1 <= p /\ p <= Certain - 1
  BY GraphAssumption DEF Likelihood
<1> QED BY <1>1, GraphAssumption DEF Probability

LEMMA BesideRows ==
    ASSUME NEW E, NEW R, NEW T, NEW U, Rows(T, E, R), Rows(U, E, R)
    PROVE  Rows(Beside(T, U), E, R)
<1> DEFINE B == Beside(T, U)
<1>1. /\ B = [e \in DOMAIN T \cup DOMAIN U |-> IF e \in DOMAIN T THEN T[e] ELSE U[e]]
      /\ DOMAIN B = DOMAIN T \cup DOMAIN U
  BY DEF Beside
<1>2. \A e \in DOMAIN B : B[e] \in R BY <1>1 DEF Rows
<1>3. B \in [DOMAIN B -> R] BY <1>1, <1>2
<1> QED BY <1>1, <1>3 DEF Rows

\* A table of fewer edges and probabilities is one of more.
LEMMA RowsWiden ==
    ASSUME NEW E, NEW R, NEW T, NEW F, NEW S, Rows(T, E, R), E \subseteq F, R \subseteq S
    PROVE  Rows(T, F, S)
BY DEF Rows

LEMMA NoRows == \A E, R : Rows(<<>>, E, R)
BY DEF Rows

LEMMA PropagateTable ==
    ASSUME NEW T, IsTable(T)
    PROVE  IsTable(Propagate(T))
<1> DEFINE P == Propagate(T)
<1>1. /\ DOMAIN T \in SUBSET Edge
      /\ \A e \in DOMAIN T : T[e].id \in Nat /\ T[e].p \in Probability
  BY DEF IsTable, Rows
<1>2. /\ DOMAIN P = DOMAIN T
      /\ \A e \in DOMAIN T : P[e] = [p |-> T[e].p, id |-> P[e].id]
                             /\ \E d \in DOMAIN T : P[e].id = T[d].id
  BY <1>1, PropagateIs
<1>3. P = [e \in DOMAIN T |-> P[e]] BY DEF Propagate
<1> HIDE DEF P
<1>4. \A e \in DOMAIN T : P[e] \in [p : Probability, id : Nat] BY <1>1, <1>2
<1>5. P \in [DOMAIN P -> [p : Probability, id : Nat]] BY <1>2, <1>3, <1>4
<1> QED BY <1>1, <1>2, <1>5 DEF IsTable, Rows, P

\* What Resolve adds to the output: the edges with their probabilities, under
\* labels that tell the components apart and are past those of the output.
LEMMA ResolvedIs ==
    ASSUME IsTable(assignment), IsTable(output), DOMAIN output # {},
           NEW kept \in SUBSET DOMAIN assignment
    PROVE  /\ IsTable(Resolved(kept)) /\ DOMAIN Resolved(kept) = kept
           /\ Labelled(Resolved(kept))
           /\ Ids(Resolved(kept)) \cap Ids(output) = {}
           /\ \A e \in kept : Resolved(kept)[e].p = assignment[e].p
<1> DEFINE numbered == [e \in kept |-> [p |-> assignment[e].p, id |-> RowNumber(e, kept)]]
           parts == Propagate(numbered)
           rank(i) == RankIn(i, Ids(parts))
           most == Max(Ids(output))
           R == Resolved(kept)
<1>1. kept \in SUBSET Edge /\ \A e \in kept : assignment[e].p \in Probability
  BY DEF IsTable, Rows
<1>2. R = [e \in kept |-> [p |-> parts[e].p, id |-> most + rank(parts[e].id)]]
  BY DEF Resolved, RankIn
<1>3. /\ DOMAIN numbered = kept
      /\ \A e \in kept : numbered[e].id \in Nat /\ numbered[e].p = assignment[e].p
      /\ \A d, e \in kept : numbered[d].id = numbered[e].id => d = e
  BY <1>1, RowNumberIs
<1> HIDE DEF numbered
<1>4. /\ DOMAIN parts = kept /\ Labelled(parts)
      /\ \A e \in kept : parts[e] = [p |-> numbered[e].p, id |-> parts[e].id]
      /\ \A e \in kept : \E d \in kept : parts[e].id = numbered[d].id
  BY <1>1, <1>3, PropagateIs, PropagateLabels
<1> HIDE DEF parts
<1>5. /\ \A e \in kept : parts[e].p = assignment[e].p /\ parts[e].id \in Nat
      /\ Ids(parts) \in SUBSET Nat /\ \A e \in kept : parts[e].id \in Ids(parts)
  BY <1>3, <1>4 DEF Ids
<1>6. IsFiniteSet(Ids(parts)) BY <1>1, <1>4, TableOfEdges, EdgesAreDirected
<1>7. /\ \A i \in Ids(parts) : rank(i) \in Nat \ {0}
      /\ \A i, j \in Ids(parts) : rank(i) = rank(j) => i = j
  BY <1>5, <1>6, RankIs
<1>8. most \in Nat /\ \A i \in Ids(output) : i \in Nat /\ i <= most
  <2>1. Ids(output) \in SUBSET Nat /\ Ids(output) # {} BY DEF IsTable, Rows, Ids
  <2>2. IsFiniteSet(Ids(output)) BY TableOfEdges, EdgesAreDirected DEF IsTable, Rows
  <2> QED BY <2>1, <2>2, MaxIs
<1> HIDE DEF rank, most, R
<1>9. DOMAIN R = kept BY <1>2
<1>10. ASSUME NEW e \in kept
       PROVE  /\ R[e].p = assignment[e].p /\ R[e].id = most + rank(parts[e].id)
              /\ R[e] \in [p : Probability, id : Nat] /\ R[e].id > most
  <2>1. R[e] = [p |-> parts[e].p, id |-> most + rank(parts[e].id)] BY <1>2
  <2>2. parts[e].p = assignment[e].p /\ parts[e].p \in Probability BY <1>1, <1>5
  <2>3. rank(parts[e].id) \in Nat \ {0} BY <1>5, <1>7
  <2>4. most + rank(parts[e].id) \in Nat /\ most + rank(parts[e].id) > most BY <1>8, <2>3
  <2> QED BY <2>1, <2>2, <2>4
<1>11. IsTable(R)
  <2>1. R = [e \in kept |-> R[e]] BY <1>2
  <2>2. \A e \in kept : R[e] \in [p : Probability, id : Nat] BY <1>1, <1>10
  <2> QED BY <1>1, <1>9, <2>1, <2>2 DEF IsTable, Rows
<1>12. Labelled(R)
  <2>1. ASSUME NEW d \in kept, NEW e \in kept PROVE R[d].id = R[e].id <=> parts[d].id = parts[e].id
    <3>1. R[d].id = most + rank(parts[d].id) /\ R[e].id = most + rank(parts[e].id) BY <1>10
    <3>2. rank(parts[d].id) \in Nat /\ rank(parts[e].id) \in Nat BY <1>5, <1>7
    <3>3. R[d].id = R[e].id <=> rank(parts[d].id) = rank(parts[e].id) BY <1>8, <3>1, <3>2
    <3> QED BY <1>5, <1>7, <3>3
  <2> QED BY <1>4, <1>9, <2>1, RelabelledLabelled
<1>13. Ids(R) \cap Ids(output) = {}
  <2>1. \A i \in Ids(R) : i \in Nat /\ i > most BY <1>9, <1>10 DEF Ids
  <2> QED BY <1>8, <2>1
<1>14. \A e \in kept : R[e].p = assignment[e].p BY <1>10
<1> QED BY <1>9, <1>11, <1>12, <1>13, <1>14 DEF R

\* A set of subgraphs keeps edges that the clusters have.
LEMMA KeptAreAssigned ==
    ASSUME NEW kept \in KeptSets
    PROVE  kept \in SUBSET DOMAIN assignment
<1>1. \A i : \A k \in MostProbable(i) : k \subseteq DOMAIN assignment
  BY DEF MostProbable
<1>2. PICK choice : /\ kept = UNION {choice[i] : i \in Graphs}
                    /\ \A i \in Graphs : choice[i] \in [j \in Graphs |-> MostProbable(j)][i]
  BY DEF KeptSets
<1>3. \A i \in Graphs : choice[i] \subseteq DOMAIN assignment BY <1>1, <1>2
<1> QED BY <1>2, <1>3

\* The types that do not come with the membership.
RoundTypeOK ==
    /\ GraphTypeOK
    /\ at \in BeforeSeed \/ IsTable(output)
    /\ at \in Stage /\ data \in Data
    /\ candidates \in Scorable /\ constrained \in BOOLEAN
    /\ IsScored(results) /\ IsScored(matches)
    /\ rounds \in 0 .. MaxRounds /\ faults \in 0 .. MaxFaults /\ saves \in 0 .. MaxSaves

\* A comparison gives each pair the score that the candidates' copy has for it.
LEMMA ScoresAre ==
    ASSUME candidates \in Scorable, NEW pairs \in SUBSET Edge
    PROVE  IsScored(Scores(pairs))
BY DEF Scores, Scorable, IsScored, Rows

\* The rows of the candidates, and the more probable of two rows.
LEMMA FreshRows ==
    ASSUME NEW T, IsScored(T)
    PROVE  Rows(Fresh(T), Directed, Probability)
<1>1. \A d \in DOMAIN T : /\ Reverse(d) \in Directed /\ Reverse(Reverse(d)) = d
                          /\ T[d] \in Probability
  BY ReversesAreDirected, LikelihoodIs DEF IsScored, Rows
<1>2. /\ DOMAIN Fresh(T) = {Reverse(d) : d \in DOMAIN T}
      /\ \A e \in DOMAIN Fresh(T) : Fresh(T)[e] = T[Reverse(e)]
      /\ Fresh(T) = [e \in DOMAIN Fresh(T) |-> Fresh(T)[e]]
  BY DEF Fresh
<1>3. \A e \in DOMAIN Fresh(T) : e \in Directed /\ Fresh(T)[e] \in Probability BY <1>1, <1>2
<1> QED BY <1>2, <1>3 DEF Rows

LEMMA LikelierRows ==
    ASSUME NEW E, NEW R, NEW T, NEW U, Rows(T, E, R), Rows(U, E, R)
    PROVE  Rows(Likelier(T, U), E, R)
<1> DEFINE L == Likelier(T, U)
<1>1. /\ L = [e \in DOMAIN L |-> L[e]] /\ DOMAIN L = DOMAIN T \cup DOMAIN U
      /\ \A e \in DOMAIN L :
            \/ e \in DOMAIN T /\ L[e] = T[e]
            \/ e \in DOMAIN U /\ L[e] = U[e]
  BY DEF Likelier
<1>2. \A e \in DOMAIN L : L[e] \in R BY <1>1 DEF Rows
<1>3. L \in [DOMAIN L -> R] BY <1>1, <1>2
<1> QED BY <1>1, <1>3 DEF Rows

\* What Step2 makes clusters of: edges with the probability of a row of the first pass.
LEMMA SeedsAre ==
    ASSUME GraphTypeOK, NEW e \in Seeds
    PROVE  e \in Edge /\ SeedProbability(e) \in Probability
<1>1. \A d \in ProbableRows : pass1[d] \in Probability BY DEF ProbableRows, GraphTypeOK, Rows
<1> QED BY <1>1 DEF Seeds, SeedProbability

\* The steps of Phase1 and Phase2 keep the types of the graph's tables.
LEMMA GraphTypesStep ==
    ASSUME RoundTypeOK, GraphStep
    PROVE  RoundTypeOK'
<1> USE DEF RoundTypeOK, GraphTypeOK, Stage, QueueStage, BeforeSeed, At
<1>0. /\ Elsewhere
      /\ UNCHANGED <<data, candidates, constrained, results, matches, rounds, faults, saves>>
  BY DEF GraphStep, PruneStep, Elsewhere, matchingVars, bounds
<1>1. CASE GetPass1Edges(matches)
  <2> DEFINE kept == [e \in {d \in DOMAIN output : ~(d \in DOMAIN matches /\ Crosses(d))} |-> output[e].p]
  <2>1. Rows(kept, Directed, Probability) BY DEF Rows
  <2> HIDE DEF kept
  <2>2. Rows(Likelier(Fresh(matches), kept), Directed, Probability)
    <3>1. Rows(Fresh(matches), Directed, Probability) BY FreshRows
    <3> QED BY <2>1, <3>1, LikelierRows
  <2>3. /\ pass1' = Likelier(Fresh(matches), kept) /\ at' = "seed"
        /\ UNCHANGED <<pass2, assignment, meta, outstanding, output>>
    BY <1>1 DEF GetPass1Edges, kept
  <2> QED BY <1>0, <2>2, <2>3
<1>2. CASE Seed
  <2> DEFINE lone == Lone(Seeds)
             rest == [e \in Seeds \ lone |->
                         [p |-> SeedProbability(e), id |-> RowNumber(e, Seeds)]]
             out == [e \in lone |-> [p |-> SeedProbability(e), id |-> RowNumber(e, lone)]]
  <2>1. Seeds \in SUBSET Edge /\ lone \in SUBSET Seeds
        /\ \A e \in Seeds : SeedProbability(e) \in Probability
    BY SeedsAre DEF Lone
  <2>2. /\ output' = out /\ assignment' = IF lone = {} THEN rest ELSE Propagate(rest)
        /\ at' = "prune" /\ UNCHANGED <<pass1, pass2, meta, outstanding>>
    BY <1>2 DEF Seed
  <2> HIDE DEF lone
  <2>3. IsTable(rest) BY <2>1, RowNumberIs DEF IsTable, Rows
  <2>4. IsTable(out) BY <2>1, RowNumberIs DEF IsTable, Rows
  <2> HIDE DEF rest, out
  <2>5. Rows(out, Directed, [p : Probability, id : Nat])
    BY <2>4, RowsWiden, EdgesAreDirected DEF IsTable
  <2> QED BY <1>0, <2>2, <2>3, <2>4, <2>5, PropagateTable
<1>3. CASE PruneStep
  <2>1. PICK cut : assignment' = Propagate([e \in DOMAIN assignment \ cut |-> assignment[e]])
    BY <1>3 DEF PruneStep, Prune
  <2> DEFINE left == [e \in DOMAIN assignment \ cut |-> assignment[e]]
  <2>2. IsTable(left) BY DEF IsTable, Rows
  <2> HIDE DEF left
  <2>3. IsTable(assignment') BY <2>1, <2>2, PropagateTable DEF left
  <2>4. at' \in {"prune", "complete"} /\ UNCHANGED <<pass1, pass2, meta, outstanding, output>>
        /\ IsTable(output)
    BY <1>3 DEF PruneStep, Prune
  <2> QED BY <1>0, <2>3, <2>4
<1>4. CASE CompleteEdges
  <2> DEFINE graphs == {i \in Ids(assignment) : Cardinality(NodesOf(assignment, i)) \in 3 .. MaxNodeCount}
             missing == {e \in Edge \ DOMAIN assignment :
                            \E i \in graphs : Ends(e) \subseteq NodesOf(assignment, i)}
             of(e) == CHOOSE i \in graphs : Ends(e) \subseteq NodesOf(assignment, i)
  <2>1. /\ meta' = [i \in Ids(assignment) |-> NodesOf(assignment, i)]
        /\ outstanding' = [e \in missing |-> of(e)]
        /\ pass2' = <<>> /\ at' = "compare2" /\ UNCHANGED <<pass1, assignment, output>>
        /\ IsTable(output)
    BY <1>4 DEF CompleteEdges
  <2>2. Ids(assignment) \subseteq Nat BY DEF IsTable, Rows, Ids
  <2>3. \A i : NodesOf(assignment, i) \subseteq Node
    <3>1. DOMAIN assignment \subseteq Edge BY DEF IsTable, Rows
    <3> QED BY <3>1, TableOfEdges, EdgesAreDirected
  <2>4. meta' \in [DOMAIN meta' -> SUBSET Node] /\ DOMAIN meta' \subseteq Nat BY <2>1, <2>2, <2>3
  <2>5. \A e \in missing : of(e) \in Nat BY <2>2
  <2> HIDE DEF of
  <2>6. outstanding' \in [DOMAIN outstanding' -> Nat] /\ DOMAIN outstanding' \subseteq Edge
    BY <2>1, <2>5
  <2>7. IsScored(pass2') BY <2>1, NoRows DEF IsScored
  <2> QED BY <1>0, <2>1, <2>4, <2>6, <2>7
<1>5. CASE GetPass2Edges
  <2> DEFINE added == [e \in DOMAIN outstanding \cap DOMAIN pass2 |->
                          [p |-> pass2[e], id |-> outstanding[e]]]
  <2>1. IsTable(added) BY LikelihoodIs DEF IsTable, IsScored, Rows
  <2> HIDE DEF added
  <2>2. /\ assignment' = Beside(assignment, added)
        /\ pass1' = <<>> /\ pass2' = <<>> /\ at' = "resolve"
        /\ UNCHANGED <<meta, outstanding, output>> /\ IsTable(output)
    BY <1>5 DEF GetPass2Edges, added
  <2>3. Rows(pass1', Directed, Probability) /\ IsScored(pass2') BY <2>2, NoRows DEF IsScored
  <2>4. IsTable(assignment') BY <2>1, <2>2, BesideRows DEF IsTable
  <2> QED BY <1>0, <2>2, <2>3, <2>4
<1>6. CASE Resolve
  <2>1. PICK kept \in IF NoLogarithm THEN {{}} ELSE KeptSets :
           output' = IF kept = {} \/ DOMAIN output = {} THEN output ELSE Beside(output, Resolved(kept))
    BY <1>6 DEF Resolve
  <2>2. /\ assignment' = <<>> /\ meta' = <<>> /\ outstanding' = <<>> /\ at' = "nodes"
        /\ UNCHANGED <<pass1, pass2>> /\ IsTable(output)
    BY <1>6 DEF Resolve
  <2>3. IsTable(output')
    <3>1. kept \in SUBSET DOMAIN assignment BY KeptAreAssigned
    <3>2. CASE kept = {} \/ DOMAIN output = {} BY <2>1, <2>2, <3>2
    <3>3. CASE ~(kept = {} \/ DOMAIN output = {})
      <4>1. IsTable(Resolved(kept)) BY <2>2, <3>1, <3>3, ResolvedIs
      <4> QED BY <2>1, <2>2, <3>3, <4>1, BesideRows DEF IsTable
    <3> QED BY <3>2, <3>3
  <2>4. IsTable(assignment') BY <2>2, NoRows DEF IsTable
  <2>5. Rows(output', Directed, [p : Probability, id : Nat])
    BY <2>3, RowsWiden, EdgesAreDirected DEF IsTable
  <2> QED BY <1>0, <2>2, <2>3, <2>4, <2>5
<1>7. CASE SeedFails
  <2>1. /\ output' = <<>> /\ pass2' = <<>> /\ assignment' = <<>> /\ meta' = <<>>
        /\ outstanding' = <<>> /\ at' = "rest" /\ pass1' = pass1
    BY <1>7 DEF SeedFails
  <2>2. /\ Rows(output', Directed, [p : Probability, id : Nat]) /\ IsScored(pass2')
        /\ IsTable(assignment')
    BY <2>1, NoRows DEF IsScored, IsTable
  <2> QED BY <1>0, <2>1, <2>2
<1> QED BY <1>1, <1>2, <1>3, <1>4, <1>5, <1>6, <1>7 DEF GraphStep

LEMMA RoundTypesStep ==
    ASSUME RoundTypeOK, [Next]_vars
    PROVE  RoundTypeOK'
<1> USE DEF RoundTypeOK, Stage, QueueStage, BeforeSeed, At, bounds
<1>0. /\ Scorable = [pairs : SUBSET Edge, score : [Edge -> Likelihood]]
      /\ data.pairs \in SUBSET Edge /\ data.score \in [Edge -> Likelihood]
  BY MatchingAssumption DEF Scorable
<1>1. CASE UNCHANGED vars
  BY <1>1 DEF vars, graphTables, matchingVars, GraphTypeOK, IsScored, IsTable
<1>2. CASE ImportFinished
  BY <1>2, MatchingAssumption DEF ImportFinished, graphTables, GraphTypeOK, IsScored, IsTable
<1>3. CASE InsertCandidates
  <2>1. IsScored(matches') BY <1>3, NoRows DEF InsertCandidates, IsScored
  <2> QED BY <1>0, <1>3, <2>1 DEF InsertCandidates, graphTables, GraphTypeOK, IsScored, IsTable
<1>4. CASE InsertFails
  <2>1. IsScored(matches') BY <1>4, NoRows DEF InsertFails, IsScored
  <2> QED BY <1>0, <1>4, <2>1, MatchingAssumption DEF InsertFails, NoPairs, graphTables, GraphTypeOK, IsScored, IsTable
<1>5. CASE Compare
  <2>1. IsScored(results') BY <1>0, <1>5, ScoresAre DEF Compare
  <2> QED BY <1>5, <2>1 DEF Compare, graphTables, GraphTypeOK, IsScored, IsTable
<1>6. CASE Score
  <2>1. IsScored(matches') BY <1>6, BesideRows DEF IsScored, Score
  <2>2. IsScored(results') BY <1>6, NoRows DEF Score, IsScored
  <2> QED BY <1>6, <2>1, <2>2 DEF Score, graphTables, GraphTypeOK, IsScored, IsTable
<1>7. CASE CompareOutstanding
  <2>1. IsScored(results') BY <1>7, ScoresAre DEF CompareOutstanding, GraphTypeOK
  <2> QED BY <1>7, <2>1 DEF CompareOutstanding, graphTables, GraphTypeOK, IsScored, IsTable
<1>8. CASE ScoreOutstanding
  <2>1. IsScored(pass2') BY <1>8, BesideRows DEF IsScored, ScoreOutstanding, GraphTypeOK
  <2>2. IsScored(results') BY <1>8, NoRows DEF ScoreOutstanding, IsScored
  <2> QED BY <1>8, <2>1, <2>2 DEF ScoreOutstanding, GraphTypeOK, IsScored, IsTable
<1>9. CASE Finish
  BY <1>9 DEF Finish, graphTables, matchingVars, GraphTypeOK, IsScored, IsTable
<1>10. CASE CrashBetween
  <2>1. faults' \in 0 .. MaxFaults BY <1>10, MatchingAssumption DEF CrashBetween
  <2>2. IsScored(results') BY <1>10, NoRows DEF CrashBetween, IsScored
  <2> QED BY <1>10, <2>1, <2>2 DEF CrashBetween, graphTables, GraphTypeOK, IsScored, IsTable
<1>11. CASE CutOff
  <2>1. PICK some \in SUBSET DOMAIN results :
           LET inserted == [e \in some |-> results[e]]
           IN  /\ matches' = IF at = "score" THEN Beside(inserted, matches) ELSE matches
               /\ pass2' = IF at = "score2" THEN Beside(inserted, pass2) ELSE pass2
    BY <1>11 DEF CutOff
  <2> DEFINE inserted == [e \in some |-> results[e]]
  <2>2. IsScored(inserted) BY DEF IsScored, Rows
  <2> HIDE DEF inserted
  <2>3. /\ matches' = IF at = "score" THEN Beside(inserted, matches) ELSE matches
        /\ pass2' = IF at = "score2" THEN Beside(inserted, pass2) ELSE pass2
    BY <2>1 DEF inserted
  <2>4. IsScored(matches') /\ IsScored(pass2') BY <2>2, <2>3, BesideRows DEF IsScored, GraphTypeOK
  <2>5. IsScored(results') BY <1>11, NoRows DEF CutOff, IsScored
  <2>6. Rows(output', Directed, [p : Probability, id : Nat]) /\ at' = "rest"
    <3>1. output' \in {output, <<>>} /\ at' = "rest" BY <1>11 DEF CutOff
    <3> QED BY <3>1, NoRows DEF GraphTypeOK
  <2>7. faults' \in 0 .. MaxFaults BY <1>11, MatchingAssumption DEF CutOff
  <2> QED BY <1>11, <2>4, <2>5, <2>6, <2>7 DEF CutOff, GraphTypeOK, IsScored, IsTable
<1>12. CASE GraphStep BY <1>12, GraphTypesStep
<1>13. CASE ClusterStep
  BY <1>13 DEF ClusterStep, matchingVars, graphTables, MaintainNodes, MembershipStep, Link, Adopt,
               Found, Settle, Review, GraphTypeOK, IsScored, IsTable
<1>14. CASE PrimaryRecordLinked
  BY <1>14 DEF PrimaryRecordLinked, matchingVars, graphTables, HardLink, GraphTypeOK, IsScored, IsTable
<1>15. CASE SaveNetwork
  <2>1. PICK w \in Networks :
           output' = Beside([e \in DOMAIN w.edges |-> [p |-> w.edges[e], id |-> Meaningless]],
                            [e \in {d \in DOMAIN output : d[1] \notin DOMAIN w.rows} |-> output[e]])
    BY <1>15 DEF SaveNetwork
  <2> DEFINE drawn == [e \in DOMAIN w.edges |-> [p |-> w.edges[e], id |-> Meaningless]]
             others == [e \in {d \in DOMAIN output : d[1] \notin DOMAIN w.rows} |-> output[e]]
  <2>2. Rows(w.edges, Directed, Probability) BY NetworkAssumption
  <2>3. Rows(drawn, Directed, [p : Probability, id : Nat]) BY <2>2 DEF Rows, Meaningless
  <2>4. Rows(others, Directed, [p : Probability, id : Nat]) BY DEF Rows, GraphTypeOK
  <2> HIDE DEF drawn, others
  <2>5. Rows(output', Directed, [p : Probability, id : Nat])
    BY <2>1, <2>3, <2>4, BesideRows DEF drawn, others
  <2>6. saves' \in 0 .. MaxSaves BY <1>15, MatchingAssumption DEF SaveNetwork
  <2> QED BY <1>15, <2>5, <2>6 DEF SaveNetwork, graphTables, matchingVars, GraphTypeOK, IsScored, IsTable
<1> QED BY <1>1, <1>2, <1>3, <1>4, <1>5, <1>6, <1>7, <1>8, <1>9, <1>10, <1>11, <1>12, <1>13, <1>14, <1>15
        DEF Next, Round

-----------------------------------------------------------------------------
(* Temporary clusters *)

\* While Phase1 and Phase2 work, the clusters that Seed put into the output share
\* no node with those still worked on, or with the edges asked for.
Apart ==
    /\ at \in {"prune", "complete", "compare2", "score2", "phase2", "resolve"}
          => AllNodes(output) \cap AllNodes(assignment) = {}
    /\ at \in {"compare2", "score2", "phase2"}
          => AllNodes(output) \cap AllNodes(outstanding) = {}

ClustersInv == (at \in BeforeSeed \/ Labelled(output)) /\ Apart

\* Edges with nodes in S only.
LEMMA NodesWithin ==
    ASSUME NEW T, NEW S
    PROVE  AllNodes(T) \subseteq S <=> \A e \in DOMAIN T : Ends(e) \subseteq S
BY DEF AllNodes

LEMMA SeedClusters ==
    ASSUME RoundTypeOK, Seed
    PROVE  ClustersInv'
<1> DEFINE lone == Lone(Seeds)
           rest == [e \in Seeds \ lone |-> [p |-> SeedProbability(e), id |-> RowNumber(e, Seeds)]]
           out == [e \in lone |-> [p |-> SeedProbability(e), id |-> RowNumber(e, lone)]]
<1>1. Seeds \in SUBSET Edge /\ lone \in SUBSET Seeds
  BY DEF Seeds, Lone
<1>2. /\ output' = out /\ assignment' = IF lone = {} THEN rest ELSE Propagate(rest)
      /\ at' = "prune"
  BY DEF Seed
<1>3. \A e \in lone, d \in Seeds : Touches(d, e) => d = e BY DEF Lone
<1> HIDE DEF lone
<1>4. DOMAIN out = lone /\ DOMAIN assignment' = Seeds \ lone BY <1>2, PropagateKeepsEdges
<1>5. Labelled(out)
  <2>1. \A d, e \in lone : out[d].id = out[e].id => d = e
    <3>1. \A e \in lone : out[e].id = RowNumber(e, lone) OBVIOUS
    <3> HIDE DEF out
    <3> QED BY <1>1, <3>1, RowNumberIs
  <2> HIDE DEF out
  <2> QED BY <1>1, <1>3, <1>4, <2>1, LoneLabelled
<1>6. AllNodes(out) \cap AllNodes(assignment') = {}
  <2>1. \A e \in lone, d \in Seeds \ lone : Ends(d) \cap Ends(e) = {} BY <1>1, <1>3 DEF Touches
  <2> HIDE DEF out
  <2> QED BY <1>4, <2>1 DEF AllNodes
<1> QED BY <1>2, <1>5, <1>6 DEF ClustersInv, Apart

LEMMA PruneClusters ==
    ASSUME ClustersInv, Prune
    PROVE  ClustersInv'
<1>1. PICK cut : assignment' = Propagate([e \in DOMAIN assignment \ cut |-> assignment[e]])
  BY DEF Prune
<1>2. DOMAIN assignment' \subseteq DOMAIN assignment BY <1>1, PropagateKeepsEdges
<1>3. AllNodes(assignment') \subseteq AllNodes(assignment) BY <1>2 DEF AllNodes
<1> QED BY <1>3 DEF Prune, At, ClustersInv, Apart, BeforeSeed

\* The edges asked for lie within the clusters of the assignment.
LEMMA CompleteClusters ==
    ASSUME ClustersInv, CompleteEdges
    PROVE  ClustersInv'
<1> DEFINE missing == {e \in Edge \ DOMAIN assignment :
                          \E i \in Ids(assignment) : Ends(e) \subseteq NodesOf(assignment, i)}
<1>1. DOMAIN outstanding' \subseteq missing BY DEF CompleteEdges
<1>2. \A i : NodesOf(assignment, i) \subseteq AllNodes(assignment) BY DEF NodesOf, AllNodes
<1>3. \A e \in DOMAIN outstanding' : Ends(e) \subseteq AllNodes(assignment) BY <1>1, <1>2
<1>4. AllNodes(outstanding') \subseteq AllNodes(assignment) BY <1>3 DEF AllNodes
<1> QED BY <1>4 DEF CompleteEdges, At, ClustersInv, Apart, BeforeSeed

LEMMA GetPass2Clusters ==
    ASSUME ClustersInv, GetPass2Edges
    PROVE  ClustersInv'
<1>1. DOMAIN assignment' \subseteq DOMAIN assignment \cup DOMAIN outstanding
  BY DEF GetPass2Edges, Beside
<1>2. AllNodes(assignment') \subseteq AllNodes(assignment) \cup AllNodes(outstanding)
  BY <1>1 DEF AllNodes
<1> QED BY <1>2 DEF GetPass2Edges, At, ClustersInv, Apart, BeforeSeed

LEMMA ResolveClusters ==
    ASSUME RoundTypeOK, ClustersInv, Resolve
    PROVE  ClustersInv'
<1>1. PICK kept \in IF NoLogarithm THEN {{}} ELSE KeptSets :
         output' = IF kept = {} \/ DOMAIN output = {} THEN output ELSE Beside(output, Resolved(kept))
  BY DEF Resolve
<1>2. kept \in SUBSET DOMAIN assignment BY KeptAreAssigned
<1>3. at = "resolve" /\ at' = "nodes" BY DEF Resolve, At
<1>4. CASE kept = {} \/ DOMAIN output = {} BY <1>1, <1>3, <1>4 DEF ClustersInv, Apart, BeforeSeed
<1>5. CASE ~(kept = {} \/ DOMAIN output = {})
  <2> DEFINE R == Resolved(kept)
  <2>1. output' = Beside(output, R) BY <1>1, <1>5
  <2>2. /\ IsTable(output) /\ IsTable(assignment)
        /\ Labelled(output) /\ AllNodes(output) \cap AllNodes(assignment) = {}
    BY <1>3 DEF RoundTypeOK, GraphTypeOK, ClustersInv, Apart, BeforeSeed
  <2>3. IsTable(R) /\ DOMAIN R = kept /\ Labelled(R) /\ Ids(R) \cap Ids(output) = {}
    BY <1>2, <1>5, <2>2, ResolvedIs
  <2> HIDE DEF R
  <2>4. AllNodes(R) \subseteq AllNodes(assignment) BY <1>2, <2>3 DEF AllNodes
  <2>5. DOMAIN output \in SUBSET Edge /\ DOMAIN R \in SUBSET Edge BY <2>2, <2>3 DEF IsTable, Rows
  <2>6. AllNodes(output) \cap AllNodes(R) = {} /\ Ids(output) \cap Ids(R) = {} BY <2>2, <2>3, <2>4
  <2>7. Labelled(output') BY <2>1, <2>2, <2>3, <2>5, <2>6, BesideLabelled
  <2> QED BY <1>3, <2>7 DEF ClustersInv, Apart
<1> QED BY <1>4, <1>5

\* No other step puts anything into the output or the assignment, once Step2 is done.
LEMMA OtherClusters ==
    ASSUME [Next]_vars
    PROVE  \/ Seed \/ Prune \/ CompleteEdges \/ GetPass2Edges \/ Resolve
           \/ at' \in BeforeSeed
           \/ /\ UNCHANGED <<output, assignment, outstanding>>
              /\ \/ at' = at
                 \/ at = "compare2" /\ at' = "score2"
                 \/ at = "score2" /\ at' = "phase2"
                 \/ /\ at \notin BeforeSeed
                    /\ at' \notin {"prune", "complete", "compare2", "score2", "phase2", "resolve"}
<1> USE DEF At, graphTables, BeforeSeed
<1>1. CASE UNCHANGED vars BY <1>1 DEF vars
<1>2. CASE GraphStep BY <1>2 DEF GraphStep, PruneStep, GetPass1Edges, SeedFails
<1>3. CASE ClusterStep
  BY <1>3 DEF ClusterStep, MaintainNodes, MembershipStep, Link, Adopt, Found, Settle, Review
<1> QED BY <1>1, <1>2, <1>3 DEF Next, Round, ImportFinished, InsertCandidates, InsertFails, Compare,
           Score, CompareOutstanding, ScoreOutstanding, Finish, CrashBetween, CutOff,
           PrimaryRecordLinked, HardLink, SaveNetwork

LEMMA ClustersStep ==
    ASSUME RoundTypeOK, ClustersInv, [Next]_vars
    PROVE  ClustersInv'
<1>1. CASE at' \in BeforeSeed BY <1>1 DEF ClustersInv, Apart, BeforeSeed
<1>2. ASSUME UNCHANGED <<output, assignment, outstanding>>,
             \/ at' = at
             \/ at = "compare2" /\ at' = "score2"
             \/ at = "score2" /\ at' = "phase2"
             \/ /\ at \notin BeforeSeed
                /\ at' \notin {"prune", "complete", "compare2", "score2", "phase2", "resolve"}
      PROVE  ClustersInv'
  <2>1. at' \in BeforeSeed \/ Labelled(output') BY <1>2 DEF ClustersInv, BeforeSeed
  <2>2. Apart' BY <1>2 DEF ClustersInv, Apart
  <2> QED BY <2>1, <2>2 DEF ClustersInv
<1> QED BY <1>1, <1>2, OtherClusters, SeedClusters, PruneClusters, CompleteClusters, GetPass2Clusters,
           ResolveClusters

-----------------------------------------------------------------------------
(* Scores *)

Rounding == {"prune", "complete", "compare2", "score2", "phase2", "resolve", "nodes", "link",
             "adopt", "found", "settle", "review", "finish"}

\* The probability p of edge e is the candidates' score, but if operators have saved
\* edges it may be a higher one of theirs.
Counts(p, e) == p = candidates.score[e] \/ (saves > 0 /\ p > candidates.score[e])

\* Wherever a score of this round's candidates is kept, it is the candidates' one:
\* in the queue, which is empty but between a comparison and its scoring, among the
\* matches, in both passes, and in the tables made of them, as far as it counts.
ScoresStand ==
    /\ at \notin {"score", "score2"} => DOMAIN results = {}
    /\ \A e \in DOMAIN results : results[e] = candidates.score[e]
    /\ \A e \in DOMAIN matches : matches[e] = candidates.score[e]
    /\ at \in {"compare2", "score2", "phase2"}
          => \A e \in DOMAIN pass2 : pass2[e] = candidates.score[e]
    /\ at = "seed" => \A e \in {d \in DOMAIN matches : Crosses(d)} :
          e \notin DOMAIN pass1 /\ Counts(pass1[Reverse(e)], e)
    /\ at \in {"prune", "complete", "compare2", "score2", "phase2", "resolve"}
          => \A e \in DOMAIN assignment \cap DOMAIN matches : Counts(assignment[e].p, e)
    /\ at \in Rounding
          => \A e \in DOMAIN output \cap DOMAIN matches : Counts(output[e].p, e)

\* What Step2 makes of an edge that the round has scored: only the row that runs the
\* other way, as the candidate does, is there.
LEMMA SeedCounts ==
    ASSUME ScoresStand, at = "seed", NEW e \in Seeds, e \in DOMAIN matches
    PROVE  Counts(SeedProbability(e), e)
<1>1. Crosses(e)
  <2>1. Crosses(e) \/ Crosses(Reverse(e)) BY DEF Seeds, ProbableRows
  <2> QED BY <2>1 DEF Crosses, Reverse
<1>2. e \notin DOMAIN pass1 /\ Counts(pass1[Reverse(e)], e) BY <1>1 DEF ScoresStand
<1> QED BY <1>2 DEF SeedProbability, ProbableRows

\* What the first pass holds of a candidate: its score, unless an operator has left a
\* higher probability in the output, from the later node to the earlier.
LEMMA Pass1Counts ==
    ASSUME EdgeTables, RoundTypeOK, ScoresStand, At("phase1"), GetPass1Edges(matches),
           NEW e \in DOMAIN matches, Crosses(e)
    PROVE  /\ e \notin DOMAIN pass1'
           /\ \/ pass1'[Reverse(e)] = candidates.score[e]
              \/ saves > 0 /\ pass1'[Reverse(e)] > candidates.score[e]
<1> DEFINE kept == [d \in {c \in DOMAIN output : ~(c \in DOMAIN matches /\ Crosses(c))} |-> output[d].p]
           fresh == Fresh(matches)
<1>1. pass1' = Likelier(fresh, kept) BY DEF GetPass1Edges
<1>2. DOMAIN kept \subseteq DOMAIN output /\ e \notin DOMAIN kept
      /\ \A d \in DOMAIN kept : kept[d] \in Probability
  BY DEF RoundTypeOK, GraphTypeOK, Rows
<1> HIDE DEF kept
<1>3. \A d \in DOMAIN matches : d \in Edge /\ Reverse(d) \notin Edge /\ Reverse(Reverse(d)) = d
  BY ReversesAreDirected DEF EdgeTables
<1>4. /\ DOMAIN fresh = {Reverse(d) : d \in DOMAIN matches}
      /\ \A d \in DOMAIN fresh : fresh[d] = matches[Reverse(d)]
  BY DEF Fresh
<1>5. e \notin DOMAIN fresh BY <1>3, <1>4
<1>6. Reverse(e) \in DOMAIN fresh /\ fresh[Reverse(e)] = candidates.score[e]
  BY <1>3, <1>4 DEF ScoresStand
<1> HIDE DEF fresh
<1>7. DOMAIN pass1' = DOMAIN fresh \cup DOMAIN kept BY <1>1 DEF Likelier
<1>8. pass1'[Reverse(e)] = IF Reverse(e) \in DOMAIN kept => kept[Reverse(e)] <= candidates.score[e]
                           THEN candidates.score[e] ELSE kept[Reverse(e)]
  BY <1>1, <1>6, <1>7 DEF Likelier
<1>9. CASE Reverse(e) \in DOMAIN kept
  <2>1. saves > 0 BY <1>2, <1>3, <1>9 DEF EdgeTables, BeforeSeed, At
  <2>2. kept[Reverse(e)] \in Int BY <1>2, <1>9, GraphAssumption DEF Probability
  <2>3. candidates.score[e] \in Int
    BY <1>3, GraphAssumption DEF RoundTypeOK, Scorable, Likelihood
  <2> QED BY <1>2, <1>5, <1>7, <1>8, <1>9, <2>1, <2>2, <2>3
<1>10. CASE Reverse(e) \notin DOMAIN kept BY <1>2, <1>5, <1>7, <1>8, <1>10
<1> QED BY <1>9, <1>10

LEMMA ScoresGraphStep ==
    ASSUME EdgeTables, RoundTypeOK, ScoresStand, GraphStep
    PROVE  ScoresStand'
<1> USE DEF ScoresStand, Rounding, At
<1>0. /\ UNCHANGED <<candidates, results, matches, saves>>
      /\ IsTable(assignment)
      /\ \A p, e : Counts(p, e)' <=> Counts(p, e)
  BY DEF GraphStep, PruneStep, Elsewhere, matchingVars, bounds, RoundTypeOK, GraphTypeOK, Counts
<1>1. CASE GetPass1Edges(matches)
  <2>1. \A e \in {d \in DOMAIN matches : Crosses(d)} :
           e \notin DOMAIN pass1' /\ Counts(pass1'[Reverse(e)], e)
    BY <1>1, Pass1Counts DEF GetPass1Edges, Counts
  <2>2. at = "phase1" /\ at' = "seed" BY <1>1 DEF GetPass1Edges
  <2> QED BY <1>0, <2>1, <2>2
<1>2. CASE Seed
  <2> DEFINE lone == Lone(Seeds)
             rest == [e \in Seeds \ lone |->
                         [p |-> SeedProbability(e), id |-> RowNumber(e, Seeds)]]
  <2>1. Seeds \in SUBSET Edge /\ lone \in SUBSET Seeds BY DEF Seeds, Lone
  <2>2. /\ output' = [e \in lone |-> [p |-> SeedProbability(e), id |-> RowNumber(e, lone)]]
        /\ assignment' = IF lone = {} THEN rest ELSE Propagate(rest)
        /\ at = "seed" /\ at' = "prune"
    BY <1>2 DEF Seed
  <2> HIDE DEF lone
  <2>3. /\ DOMAIN rest = Seeds \ lone
        /\ \A e \in DOMAIN rest : rest[e].p = SeedProbability(e) /\ rest[e].id \in Nat
    BY <2>1, RowNumberIs
  <2> HIDE DEF rest
  <2>4. /\ DOMAIN Propagate(rest) = DOMAIN rest
        /\ \A e \in DOMAIN rest : Propagate(rest)[e].p = rest[e].p
    BY <2>1, <2>3, PropagateIs
  <2>5. \A e \in DOMAIN assignment' : e \in Seeds /\ assignment'[e].p = SeedProbability(e)
    BY <2>1, <2>2, <2>3, <2>4
  <2>6. \A e \in DOMAIN output' : e \in Seeds /\ output'[e].p = SeedProbability(e)
    BY <2>1, <2>2
  <2>7. \A e \in Seeds \cap DOMAIN matches : Counts(SeedProbability(e), e)
    BY <2>2, SeedCounts
  <2> QED BY <1>0, <2>2, <2>5, <2>6, <2>7
<1>3. CASE PruneStep
  <2>1. PICK cut : assignment' = Propagate([e \in DOMAIN assignment \ cut |-> assignment[e]])
    BY <1>3 DEF PruneStep, Prune
  <2> DEFINE left == [e \in DOMAIN assignment \ cut |-> assignment[e]]
  <2>2. /\ DOMAIN left \in SUBSET Edge /\ DOMAIN left \subseteq DOMAIN assignment
        /\ \A e \in DOMAIN left : left[e].id \in Nat /\ left[e].p = assignment[e].p
    BY <1>0 DEF IsTable, Rows
  <2> HIDE DEF left
  <2>3. /\ DOMAIN assignment' = DOMAIN left
        /\ \A e \in DOMAIN left : assignment'[e].p = left[e].p
    <3>1. assignment' = Propagate(left) BY <2>1 DEF left
    <3>2. /\ DOMAIN Propagate(left) = DOMAIN left
          /\ \A e \in DOMAIN left : Propagate(left)[e].p = left[e].p
      BY <2>2, PropagateIs
    <3> QED BY <3>1, <3>2
  <2>4. at = "prune" /\ at' \in {"prune", "complete"} /\ UNCHANGED output
    BY <1>3 DEF PruneStep, Prune
  <2> QED BY <1>0, <2>2, <2>3, <2>4
<1>4. CASE CompleteEdges BY <1>0, <1>4 DEF CompleteEdges
<1>5. CASE GetPass2Edges
  <2>1. \A e \in DOMAIN assignment' :
           \/ e \in DOMAIN assignment /\ assignment'[e] = assignment[e]
           \/ e \in DOMAIN pass2 /\ assignment'[e].p = pass2[e]
    BY <1>5 DEF GetPass2Edges, Beside
  <2>2. at = "phase2" /\ at' = "resolve" /\ UNCHANGED output BY <1>5 DEF GetPass2Edges
  <2>3. \A e \in DOMAIN pass2 : Counts(pass2[e], e) BY <2>2 DEF Counts
  <2> QED BY <1>0, <2>1, <2>2, <2>3
<1>6. CASE Resolve
  <2>1. PICK kept \in IF NoLogarithm THEN {{}} ELSE KeptSets :
           output' = IF kept = {} \/ DOMAIN output = {} THEN output ELSE Beside(output, Resolved(kept))
    BY <1>6 DEF Resolve
  <2>2. kept \in SUBSET DOMAIN assignment BY KeptAreAssigned
  <2>3. \A e \in DOMAIN output' :
           \/ e \in DOMAIN output /\ output'[e] = output[e]
           \/ e \in DOMAIN assignment /\ output'[e].p = assignment[e].p
    <3>1. CASE kept = {} \/ DOMAIN output = {} BY <2>1, <3>1
    <3>2. CASE ~(kept = {} \/ DOMAIN output = {})
      <4>1. DOMAIN Resolved(kept) = kept /\ \A e \in kept : Resolved(kept)[e].p = assignment[e].p
        BY <1>0, <1>6, <2>2, <3>2, ResolvedIs DEF Resolve, RoundTypeOK, BeforeSeed
      <4> QED BY <2>1, <2>2, <3>2, <4>1 DEF Beside
    <3> QED BY <3>1, <3>2
  <2>4. at = "resolve" /\ at' = "nodes" BY <1>6 DEF Resolve
  <2> QED BY <1>0, <2>3, <2>4
<1>7. CASE SeedFails
  <2>1. /\ at' = "rest" /\ pass2' = <<>> /\ at = "seed" BY <1>7 DEF SeedFails
  <2> QED BY <1>0, <2>1
<1> QED BY <1>1, <1>2, <1>3, <1>4, <1>5, <1>6, <1>7 DEF GraphStep

LEMMA ScoresStep ==
    ASSUME EdgeTables, RoundTypeOK, ScoresStand, [Next]_vars
    PROVE  ScoresStand'
<1> USE DEF ScoresStand, Rounding, At, graphTables, bounds, Counts
<1>1. CASE UNCHANGED vars BY <1>1 DEF vars, matchingVars
<1>2. CASE ImportFinished BY <1>2 DEF ImportFinished
<1>3. CASE InsertCandidates BY <1>3 DEF InsertCandidates
<1>4. CASE InsertFails BY <1>4 DEF InsertFails
<1>5. CASE Compare BY <1>5 DEF Compare, Scores
<1>6. CASE Score BY <1>6 DEF Score, Beside
<1>7. CASE CompareOutstanding BY <1>7 DEF CompareOutstanding, Scores
<1>8. CASE ScoreOutstanding BY <1>8 DEF ScoreOutstanding, Beside
<1>9. CASE Finish BY <1>9 DEF Finish, matchingVars
<1>10. CASE CrashBetween BY <1>10 DEF CrashBetween
<1>11. CASE CutOff
  <2>1. \A e \in DOMAIN matches' :
           matches'[e] = candidates.score[e]
    BY <1>11 DEF CutOff, Beside
  <2>2. at' = "rest" /\ results' = <<>> /\ UNCHANGED candidates BY <1>11 DEF CutOff
  <2> QED BY <2>1, <2>2
<1>12. CASE GraphStep
  <2> HIDE DEF ScoresStand
  <2> QED BY <1>12, ScoresGraphStep
<1>13. CASE ClusterStep
  BY <1>13 DEF ClusterStep, matchingVars, MaintainNodes, MembershipStep, Link, Adopt, Found, Settle,
               Review
<1>14. CASE PrimaryRecordLinked BY <1>14 DEF PrimaryRecordLinked, matchingVars, HardLink
<1>15. CASE SaveNetwork BY <1>15 DEF SaveNetwork, matchingVars
<1> QED BY <1>1, <1>2, <1>3, <1>4, <1>5, <1>6, <1>7, <1>8, <1>9, <1>10, <1>11, <1>12, <1>13, <1>14, <1>15
        DEF Next, Round

-----------------------------------------------------------------------------
(* Old members *)

\* A record without a cluster ranks last for link node; so does one whose cluster
\* id has come to the number that Step6 puts in the place of NULL.
Last(n) == member[n].id = 0 \/ member[n].id >= 99999999

\* A link node without a cluster stands for records that rank last only; once the
\* records have moved, those that do not rank last agree.
LinksRank ==
    /\ at = "adopt" => \A i \in Ids(output) : member[linkNode[i]].id = 0
                          => \A n \in NodesOf(output, i) : Last(n)
    /\ at = "found" => \A i \in Ids(output) : \A m, n \in NodesOf(output, i) :
          (m \in Known /\ n \in Known /\ ~Hard(m) /\ ~Hard(n))
              => member[m].id = member[n].id \/ (Last(m) /\ Last(n))

LEMMA LinkRanks ==
    ASSUME MInv, Link
    PROVE  LinksRank'
<1> DEFINE rows == [n \in DOMAIN member \cup nodes |->
                       IF n \in DOMAIN member THEN member[n] ELSE [id |-> 0, hard |-> FALSE]]
<1>1. /\ at = "link" /\ at' = "adopt" /\ member' = rows /\ UNCHANGED output
      /\ \A i \in Ids(output) : linkNode'[i] \in NodesOf(output, i)
                                 /\ Represents(linkNode'[i], i, rows)
  BY DEF Link, At
<1>2. AllNodes(output) \subseteq DOMAIN rows BY <1>1 DEF MInv, MembershipInv, LinksStand, At
<1>3. \A n \in DOMAIN rows : /\ rows[n] \in [id : Nat, hard : BOOLEAN]
                             /\ rows[n].hard => rows[n].id # 0
  BY DEF MInv, MembershipInv, MembershipTypeOK, HardHaveClusters, Hard
<1> HIDE DEF rows
<1>4. ASSUME NEW i \in Ids(output), rows[linkNode'[i]].id = 0, NEW n \in NodesOf(output, i)
      PROVE  rows[n].id = 0 \/ rows[n].id >= 99999999
  <2> DEFINE N == NodesOf(output, i)
             rank(m) == IF rows[m].id = 0 THEN 99999999 ELSE rows[m].id
             l == linkNode'[i]
  <2>1. N \subseteq DOMAIN rows
    <3>1. N \subseteq AllNodes(output) BY DEF NodesOf, AllNodes
    <3> QED BY <1>2, <3>1
  <2>2. l \in N /\ ~rows[l].hard /\ Represents(l, i, rows) BY <1>1, <1>3, <1>4, <2>1
  <2>3. \A o \in N : rank(l) <= rank(o) BY <2>2 DEF Represents
  <2>4. rank(l) = 99999999 BY <1>4
  <2>5. 99999999 <= rank(n) BY <2>3, <2>4
  <2>6. rows[n].id \in Nat BY <1>3, <2>1
  <2> QED BY <2>5, <2>6
<1> QED BY <1>1, <1>4 DEF LinksRank, Last

LEMMA AdoptRanks ==
    ASSUME MInv, Labelled(output), LinksRank, Adopt
    PROVE  LinksRank'
<1>1. /\ at = "adopt" /\ at' = "found" /\ UNCHANGED <<output, linkNode>>
      /\ DOMAIN member' = DOMAIN member
      /\ \A n \in DOMAIN member : member'[n] =
            IF Linked(n) /\ ~Hard(n) /\ member[n].id # 0 /\ Target(n) # 0
            THEN [member[n] EXCEPT !.id = Target(n)] ELSE member[n]
  BY DEF Adopt, At
<1>2. /\ DOMAIN linkNode = Ids(output)
      /\ AllNodes(output) \subseteq DOMAIN member /\ DOMAIN output \in SUBSET Edge
      /\ \A n \in DOMAIN member : member[n] \in [id : Nat, hard : BOOLEAN]
  BY <1>1, LinkNodes DEF MInv, EdgeTables, MembershipInv, LinksStand, MembershipTypeOK, BeforeSeed
<1>3. ASSUME NEW i \in Ids(output), NEW n \in NodesOf(output, i)
      PROVE  Linked(n) /\ Home(n) = i /\ n \in DOMAIN member
  <2>1. Linked(n) BY <1>2 DEF Linked
  <2>2. n \in NodesOf(output, Home(n)) BY <1>1, <2>1, LinkNodes
  <2>3. Home(n) = i BY <1>2, <2>2, OneHome
  <2>4. n \in AllNodes(output) BY DEF NodesOf, AllNodes
  <2> QED BY <1>2, <2>1, <2>3, <2>4
<1>4. ASSUME NEW i \in Ids(output), NEW n \in NodesOf(output, i), n \in Known', ~Hard(n)'
      PROVE  IF member[linkNode[i]].id # 0 THEN member'[n].id = member[linkNode[i]].id
             ELSE Last(n)'
  <2>1. Linked(n) /\ Home(n) = i /\ n \in DOMAIN member BY <1>3
  <2>2. Target(n) = member[linkNode[i]].id BY <2>1 DEF Target
  <2>3. member'[n].id # 0 /\ ~member'[n].hard BY <1>4 DEF Known, Hard
  <2>4. member'[n].hard = member[n].hard BY <1>1, <1>2, <2>1
  <2>5. ~Hard(n) BY <2>3, <2>4 DEF Hard
  <2>6. CASE Target(n) # 0
    <3>1. member[n].id # 0 BY <1>1, <2>1, <2>3
    <3>2. member'[n] = [member[n] EXCEPT !.id = Target(n)] BY <1>1, <2>1, <2>5, <2>6, <3>1
    <3>3. member'[n].id = Target(n) BY <1>2, <2>1, <3>2
    <3> QED BY <2>2, <2>6, <3>3
  <2>7. CASE Target(n) = 0
    <3>1. member'[n] = member[n] BY <1>1, <2>1, <2>7
    <3>2. Last(n) BY <1>1, <2>2, <2>7 DEF LinksRank
    <3> QED BY <2>2, <2>7, <3>1, <3>2 DEF Last
  <2> QED BY <2>6, <2>7
<1>5. ASSUME NEW i \in Ids(output), NEW m \in NodesOf(output, i), NEW n \in NodesOf(output, i),
             m \in Known', n \in Known', ~Hard(m)', ~Hard(n)'
      PROVE  member'[m].id = member'[n].id \/ (Last(m)' /\ Last(n)')
  BY <1>4, <1>5
<1>6. \A i : NodesOf(output, i)' = NodesOf(output, i) /\ Ids(output)' = Ids(output) BY <1>1
<1> QED BY <1>1, <1>5, <1>6 DEF LinksRank

\* A hard link changes nobody's cluster: at most it takes a record out of the question.
LEMMA HardLinkRanks ==
    ASSUME MInv, LinksRank, NEW h \in Node, HardLink(h)
    PROVE  LinksRank'
<1>1. /\ DOMAIN member' = DOMAIN member
      /\ \A n \in DOMAIN member : /\ member'[n].id = member[n].id
                                  /\ ~member'[n].hard => ~member[n].hard
      /\ UNCHANGED <<at, output, linkNode>>
  BY DEF HardLink, MInv, MembershipInv, MembershipTypeOK, Hard
<1>2. ASSUME at \in {"adopt", "found"}
      PROVE  /\ \A i \in Ids(output) : NodesOf(output, i) \subseteq DOMAIN member
             /\ \A i \in Ids(output) : linkNode[i] \in DOMAIN member
  <2>1. AllNodes(output) \subseteq DOMAIN member
    BY <1>2 DEF MInv, MembershipInv, LinksStand
  <2>2. \A i \in Ids(output) : linkNode[i] \in DOMAIN member BY <1>2, LinkNodes
  <2>3. \A i : NodesOf(output, i) \subseteq AllNodes(output) BY DEF NodesOf, AllNodes
  <2> QED BY <2>1, <2>2, <2>3
<1>3. \A n \in DOMAIN member : /\ Last(n)' <=> Last(n)
                               /\ (n \in Known)' <=> n \in Known
                               /\ ~Hard(n)' => ~Hard(n)
  BY <1>1 DEF Last, Known, Hard
<1>4. \A i : NodesOf(output, i)' = NodesOf(output, i) /\ Ids(output)' = Ids(output) BY <1>1
<1>5. CASE at = "adopt"
  <2>1. \A i \in Ids(output) : member'[linkNode[i]].id = 0 => \A n \in NodesOf(output, i) : Last(n)'
    BY <1>1, <1>2, <1>3, <1>5 DEF LinksRank
  <2> QED BY <1>1, <1>4, <1>5, <2>1 DEF LinksRank
<1>6. CASE at = "found"
  <2>1. ASSUME NEW i \in Ids(output), NEW m \in NodesOf(output, i), NEW n \in NodesOf(output, i),
               m \in Known', n \in Known', ~Hard(m)', ~Hard(n)'
        PROVE  member'[m].id = member'[n].id \/ (Last(m)' /\ Last(n)')
    <3>1. m \in DOMAIN member /\ n \in DOMAIN member BY <1>2, <1>6
    <3>2. member[m].id = member[n].id \/ (Last(m) /\ Last(n))
      BY <1>3, <1>6, <2>1, <3>1 DEF LinksRank
    <3> QED BY <1>1, <1>3, <3>1, <3>2
  <2> QED BY <1>1, <1>4, <1>6, <2>1 DEF LinksRank
<1> QED BY <1>1, <1>5, <1>6 DEF LinksRank

LEMMA RanksStep ==
    ASSUME MInv, ClustersInv, LinksRank, [Next]_vars
    PROVE  LinksRank'
<1>1. CASE UNCHANGED <<output, at, tables>>
  BY <1>1 DEF LinksRank, tables, Last, Known, Hard
<1>2. CASE at' \notin {"adopt", "found"} BY <1>2 DEF LinksRank
<1>3. CASE MaintainNodes(data.records) \/ Found \/ Settle \/ Review(data.active)
  BY <1>2, <1>3 DEF MaintainNodes, Found, Settle, Review
<1>4. CASE SaveNetwork BY <1>2, <1>4 DEF SaveNetwork, At
<1>5. CASE Adopt
  <2>1. Labelled(output) BY <1>5 DEF Adopt, At, ClustersInv, BeforeSeed
  <2> QED BY <1>5, <2>1, AdoptRanks
<1> QED BY <1>1, <1>2, <1>3, <1>4, <1>5, StepCases, LinkRanks, HardLinkRanks

-----------------------------------------------------------------------------
(* The theorems *)

RoundInv == RoundTypeOK /\ ClustersInv /\ ScoresStand /\ LinksRank

LEMMA InitRoundInv == Init => RoundInv
<1> SUFFICES ASSUME Init PROVE RoundInv OBVIOUS
<1> USE DEF Init, MembershipInit, GraphInit
<1>1. data \in Data /\ data.score \in [Edge -> Likelihood] BY MatchingAssumption
<1>2. GraphTypeOK BY NoRows DEF GraphTypeOK, IsScored, IsTable
<1>3. candidates \in Scorable BY <1>1 DEF NoPairs, Scorable
<1>4. IsScored(results) /\ IsScored(matches) BY NoRows DEF IsScored
<1>5. RoundTypeOK BY <1>1, <1>2, <1>3, <1>4, MatchingAssumption DEF RoundTypeOK, Stage, BeforeSeed
<1>6. ClustersInv BY DEF ClustersInv, Apart, BeforeSeed
<1>7. ScoresStand BY DEF ScoresStand, Rounding
<1>8. LinksRank BY DEF LinksRank
<1> QED BY <1>5, <1>6, <1>7, <1>8 DEF RoundInv

\* The inductive invariant of the graph holds in every round, wherever rounds are cut off.
THEOREM RoundInvariant == Spec => []RoundInv
<1>1. Init => RoundInv BY InitRoundInv
<1>2. MInv /\ RoundInv /\ [Next]_vars => RoundInv'
  BY RoundTypesStep, ClustersStep, ScoresStep, RanksStep DEF RoundInv, MInv
<1> QED BY <1>1, <1>2, MatchingInvariant, PTL DEF Spec

\* At every step of every round, and whatever operators save in between, the tables of
\* ClusterDb and the queue of Matching.Engine hold edges of known records with
\* probabilities: below 1 where the scorer put them, up to 1 where saved edges come.
THEOREM MatchingTypeCorrect == Spec => []TypeOK
<1>1. MInv /\ RoundInv => TypeOK
  BY DEF MInv, MembershipInv, RoundInv, RoundTypeOK, TypeOK, MatchingTypeOK
<1> QED BY <1>1, MatchingInvariant, RoundInvariant, PTL

\* Whatever Seed, Prune and Resolve do, and wherever they are cut off, the temporary
\* clusters that Step2 and Step4 have put into the output are the connected parts of
\* its graph.
THEOREM TemporaryClustersAreComponents == Spec => []ClustersAreComponents
<1>1. RoundInv => ClustersAreComponents
  BY LabelledIs DEF RoundInv, RoundTypeOK, IsTable, Rows, ClustersInv, ClustersAreComponents
<1> QED BY <1>1, RoundInvariant, PTL

\* When a round ends, an edge of the output that the round has scored has the
\* round's score, whichever of the two passes scored it, unless operators have left it
\* a higher one.
THEOREM RoundScoresCount == Spec => []RescoredEdgeWins
<1>1. RoundInv => RescoredEdgeWins
  BY DEF RoundInv, ScoresStand, Rounding, Counts, RescoredEdgeWins, At
<1> QED BY <1>1, RoundInvariant, PTL

\* Cluster ids are below the number that stands for NULL when link nodes are ranked.
IdsBelowNull == \A n \in DOMAIN member : member[n].id < 99999999

\* As long as cluster ids are, the records of a temporary cluster that have a
\* permanent one, and are not hard-linked, share it once Step6 has moved them.
THEOREM MembersAgree == Spec => [](IdsBelowNull => OldMembersAgree)
<1>1. MInv /\ RoundInv => (IdsBelowNull => OldMembersAgree)
  <2> SUFFICES ASSUME MInv, RoundInv, IdsBelowNull, at = "found",
                      NEW i \in Ids(output), NEW m \in NodesOf(output, i), NEW n \in NodesOf(output, i),
                      m \in Known, n \in Known, ~Hard(m), ~Hard(n)
               PROVE  member[m].id = member[n].id
    BY DEF OldMembersAgree, At
  <2>1. m \in DOMAIN member /\ member[m].id # 0 /\ member[m].id \in Nat
    BY DEF Known, MInv, MembershipInv, MembershipTypeOK
  <2>2. ~Last(m) BY <2>1 DEF Last, IdsBelowNull
  <2> QED BY <2>2 DEF RoundInv, LinksRank
<1> QED BY <1>1, MatchingInvariant, RoundInvariant, PTL

-----------------------------------------------------------------------------
(* Cutting clusters *)

\* A reference set is a cut into complete parts, or it is set 9.
LEMMA SetIs ==
    ASSUME NEW n \in 3 .. 5, NEW set \in SubGraphSet[n]
    PROVE  \/ n = 5 /\ set = Set9
           \/ \E f \in [1 .. n -> 1 .. n] : set = {e \in PairsOf(n) : f[e[1]] = f[e[2]]}
<1>1. SubGraphSet[n] = IF n = 5 THEN Sets5 ELSE CompleteCuts(n) BY DEF SubGraphSet
<1>2. (n = 5 /\ set = Set9) \/ set \in CompleteCuts(n) BY <1>1 DEF Sets5
<1> QED BY <1>2 DEF CompleteCuts, Partitions

\* Ranks keep the order, and are at most as many as there are elements.
LEMMA RankOrder ==
    ASSUME NEW S \in SUBSET Nat, IsFiniteSet(S)
    PROVE  /\ \A i \in S : RankIn(i, S) \in 1 .. Cardinality(S)
           /\ \A i, j \in S : i < j => RankIn(i, S) < RankIn(j, S)
<1> DEFINE Upto(k) == {j \in S : j <= k}
<1>1. ASSUME NEW k \in S PROVE RankIn(k, S) = Cardinality(Upto(k)) /\ RankIn(k, S) \in Nat \ {0}
  <2>1. RankIn(k, S) = Cardinality(Upto(k)) BY DEF RankIn
  <2>2. RankIn(k, S) \in Nat \ {0} BY RankIs
  <2> QED BY <2>1, <2>2
<1>2. \A k \in S : IsFiniteSet(Upto(k)) /\ Cardinality(Upto(k)) <= Cardinality(S)
  BY FS_Subset, \A k \in S : Upto(k) \in SUBSET S
<1>3. Cardinality(S) \in Nat BY FS_CardinalityType
<1>4. ASSUME NEW i \in S, NEW j \in S, i < j PROVE RankIn(i, S) < RankIn(j, S)
  <2>0. \A l \in S : l <= i => l <= j
    <3> SUFFICES ASSUME NEW l \in S, l <= i PROVE l <= j OBVIOUS
    <3>1. i \in Nat /\ j \in Nat /\ l \in Nat OBVIOUS
    <3> QED BY <1>4, <3>1
  <2>1. Upto(i) \in SUBSET Upto(j) BY <2>0
  <2>2. Cardinality(Upto(i)) <= Cardinality(Upto(j))
    <3> HIDE DEF Upto
    <3> QED BY <1>2, <2>1, FS_Subset
  <2>3. RankIn(i, S) # RankIn(j, S) BY <1>4, RankIs
  <2> QED BY <1>1, <2>2, <2>3
<1>5. ASSUME NEW k \in S PROVE RankIn(k, S) \in 1 .. Cardinality(S)
  <2> HIDE DEF Upto
  <2>1. RankIn(k, S) \in Nat \ {0} /\ RankIn(k, S) <= Cardinality(S) BY <1>1, <1>2
  <2> QED BY <1>3, <2>1
<1> QED BY <1>4, <1>5

\* So is what a reference set keeps of a cluster: its nodes fall into parts, and all
\* edges inside a part are kept, no other; or it is what set 9 keeps.
LEMMA RenamedIs ==
    ASSUME NEW N \in SUBSET Node, Cardinality(N) \in 3 .. 5, NEW set \in SubGraphSet[Cardinality(N)]
    PROVE  \/ Cardinality(N) = 5 /\ set = Set9
           \/ \E g : \A e \in Edge : e \in Renamed(set, N) <=> Ends(e) \subseteq N /\ g[e[1]] = g[e[2]]
<1> DEFINE n == Cardinality(N)
           number(m) == Cardinality({k \in N : k <= m})
<1>1. N \in SUBSET Nat /\ IsFiniteSet(N) BY NodeAssumption, FS_Subset
<1>2. \A m \in N : number(m) \in 1 .. n /\ \A k \in N : m < k => number(m) < number(k)
  BY <1>1, RankOrder DEF RankIn
<1> HIDE DEF n, number
<1>3. SUFFICES ASSUME NEW f \in [1 .. n -> 1 .. n], set = {e \in PairsOf(n) : f[e[1]] = f[e[2]]}
               PROVE  \E g : \A e \in Edge :
                         e \in Renamed(set, N) <=> Ends(e) \subseteq N /\ g[e[1]] = g[e[2]]
  <2>1. n \in 3 .. 5 /\ set \in SubGraphSet[n] BY DEF n
  <2>2. \/ n = 5 /\ set = Set9
        \/ \E f \in [1 .. n -> 1 .. n] : set = {e \in PairsOf(n) : f[e[1]] = f[e[2]]}
    BY <2>1, SetIs
  <2> QED BY <2>2 DEF n
<1> DEFINE g == [m \in N |-> f[number(m)]]
<1>4. ASSUME NEW e \in Edge
      PROVE  e \in Renamed(set, N) <=> Ends(e) \subseteq N /\ g[e[1]] = g[e[2]]
  <2> DEFINE pair == <<number(e[1]), number(e[2])>>
  <2>1. e \in Renamed(set, N) <=> Ends(e) \subseteq N /\ pair \in set
    BY DEF Renamed, number
  <2>2. ASSUME Ends(e) \subseteq N PROVE pair \in set <=> g[e[1]] = g[e[2]]
    <3>1. e[1] \in N /\ e[2] \in N /\ e[1] < e[2] BY <2>2, EdgeIs
    <3>2. number(e[1]) \in 1 .. n /\ number(e[2]) \in 1 .. n /\ number(e[1]) < number(e[2])
      BY <1>2, <3>1
    <3>3. pair \in PairsOf(n) /\ pair[1] = number(e[1]) /\ pair[2] = number(e[2])
      BY <3>2 DEF PairsOf
    <3>4. g[e[1]] = f[number(e[1])] /\ g[e[2]] = f[number(e[2])] BY <3>1
    <3> QED BY <1>3, <3>3, <3>4
  <2> QED BY <2>1, <2>2
<1> QED BY <1>4

-----------------------------------------------------------------------------
(* The invariant *)

\* The pairs that Seed puts into the output have no more edges.
PairsWhole ==
    at \in {"prune", "complete", "compare2", "score2", "phase2", "resolve"}
       => \A i \in Ids(output) : Within(NodesOf(output, i)) \subseteq DOMAIN output

\* Once pruning is done, and until Resolve, no two clusters share a node, and an
\* edge lies in its cluster.
ClustersPlaced ==
    /\ at = "complete" => \A d, e \in DOMAIN assignment : Touches(d, e) => assignment[d].id = assignment[e].id
    /\ at \in {"compare2", "score2", "phase2", "resolve"} =>
          /\ \A i, j \in DOMAIN meta : \A n \in meta[i] \cap meta[j] : i = j
          /\ \A e \in DOMAIN assignment :
                assignment[e].id \in DOMAIN meta /\ Ends(e) \subseteq meta[assignment[e].id]

\* All edges that a cluster misses are asked for, under its number; those of
\* candidates are compared and scored, and are there in the end.
MissingEdgesCome ==
    /\ at \in {"compare2", "score2", "phase2"} =>
          /\ \A e \in DOMAIN outstanding :
                outstanding[e] \in DOMAIN meta /\ Ends(e) \subseteq meta[outstanding[e]]
          /\ \A i \in Graphs : Within(meta[i]) \subseteq DOMAIN assignment \cup DOMAIN outstanding
    /\ faults = 0 =>
          /\ at = "score2" => DOMAIN outstanding \cap Within(Blocked) \subseteq DOMAIN results
          /\ at = "phase2" => DOMAIN outstanding \cap Within(Blocked) \subseteq DOMAIN pass2
          /\ at = "resolve" =>
                \A i \in Graphs : Within(meta[i]) \cap Within(Blocked) \subseteq DOMAIN assignment

SubgraphInv == PairsWhole /\ ClustersPlaced /\ MissingEdgesCome /\ CompleteOrCut

-----------------------------------------------------------------------------
(* Phase1 *)

\* A pair that touches no other edge is complete.
LEMMA SeedSubgraphs ==
    ASSUME RoundTypeOK, Seed
    PROVE  SubgraphInv'
<1> DEFINE lone == Lone(Seeds)
           out == [e \in lone |-> [p |-> SeedProbability(e), id |-> RowNumber(e, lone)]]
<1>1. lone \in SUBSET Edge BY DEF Seeds, Lone
<1>2. output' = out /\ at' = "prune" BY DEF Seed
<1> HIDE DEF lone
<1>3. \A e \in lone : out[e].id = RowNumber(e, lone) OBVIOUS
<1>4. ASSUME NEW i, NEW e \in Edge, Ends(e) \subseteq NodesOf(out, i) PROVE e \in lone
  <2>1. PICK a \in lone : out[a].id = i /\ e[1] \in Ends(a) BY <1>4 DEF NodesOf, Ends
  <2>2. PICK b \in lone : out[b].id = i /\ e[2] \in Ends(b) BY <1>4 DEF NodesOf, Ends
  <2>3. RowNumber(a, lone) = RowNumber(b, lone) BY <1>3, <2>1, <2>2
  <2>4. a = b BY <1>1, <2>3, RowNumberIs
  <2>5. /\ e[1] \in Nat /\ e[2] \in Nat /\ a[1] \in Nat /\ a[2] \in Nat /\ e[1] < e[2] /\ a[1] < a[2]
        /\ e[1] \in {a[1], a[2]} /\ e[2] \in {a[1], a[2]}
        /\ e = <<e[1], e[2]>> /\ a = <<a[1], a[2]>>
    BY <1>1, <2>1, <2>2, <2>4, EdgeIs
  <2>6. e[1] = a[1] /\ e[2] = a[2] BY <2>5
  <2>7. e = a BY <2>5, <2>6
  <2> QED BY <2>7
<1>5. DOMAIN out = lone OBVIOUS
<1> HIDE DEF out
<1>6. PairsWhole' BY <1>2, <1>4, <1>5 DEF PairsWhole, Within
<1> QED BY <1>2, <1>6 DEF SubgraphInv, ClustersPlaced, MissingEdgesCome, CompleteOrCut

\* Propagation leaves no two labels on edges that share a node.
LEMMA PruneSubgraphs ==
    ASSUME RoundTypeOK, SubgraphInv, Prune
    PROVE  SubgraphInv'
<1>1. PICK cut : assignment' = Propagate([e \in DOMAIN assignment \ cut |-> assignment[e]])
  BY DEF Prune
<1> DEFINE left == [e \in DOMAIN assignment \ cut |-> assignment[e]]
<1>2. DOMAIN left \in SUBSET Edge /\ \A e \in DOMAIN left : left[e].id \in Nat
  BY DEF RoundTypeOK, GraphTypeOK, IsTable, Rows
<1>3. assignment' = Propagate(left) BY <1>1
<1> HIDE DEF left
<1>4. ASSUME NEW d \in DOMAIN assignment', NEW e \in DOMAIN assignment', Touches(d, e)
      PROVE  assignment'[d].id = assignment'[e].id
  <2>1. d \in DOMAIN left /\ e \in DOMAIN left BY <1>3, PropagateKeepsEdges
  <2>2. Connected(DOMAIN left, d, e) BY <1>2, <1>4, <2>1, TouchingConnected
  <2> QED BY <1>2, <1>3, <2>1, <2>2, PropagateIs
<1>5. at = "prune" /\ at' \in {"prune", "complete"} /\ UNCHANGED output BY DEF Prune, At
<1>6. PairsWhole' BY <1>5 DEF SubgraphInv, PairsWhole
<1>7. ClustersPlaced' BY <1>4, <1>5 DEF ClustersPlaced
<1> QED BY <1>5, <1>6, <1>7 DEF SubgraphInv, MissingEdgesCome, CompleteOrCut

\* Step2 asks for all edges that a cluster of 3 nodes or more misses.
LEMMA CompleteSubgraphs ==
    ASSUME SubgraphInv, CompleteEdges
    PROVE  SubgraphInv'
<1> DEFINE T == assignment
           graphs == {i \in Ids(T) : Cardinality(NodesOf(T, i)) \in 3 .. MaxNodeCount}
           Asked(e, i) == Ends(e) \subseteq NodesOf(T, i)
           missing == {e \in Edge \ DOMAIN T : \E i \in graphs : Asked(e, i)}
<1>1. /\ at = "complete" /\ at' = "compare2" /\ UNCHANGED <<assignment, output>>
      /\ meta' = [i \in Ids(T) |-> NodesOf(T, i)]
      /\ outstanding' = [e \in missing |-> CHOOSE i \in graphs : Asked(e, i)]
  BY DEF CompleteEdges, At
<1>2. \A d, e \in DOMAIN T : Touches(d, e) => T[d].id = T[e].id
  BY <1>1 DEF SubgraphInv, ClustersPlaced
<1>3. ASSUME NEW i \in DOMAIN meta', NEW j \in DOMAIN meta', NEW n \in meta'[i] \cap meta'[j]
      PROVE  i = j
  <2>1. n \in NodesOf(T, i) /\ n \in NodesOf(T, j) BY <1>1
  <2>2. PICK d \in DOMAIN T : T[d].id = i /\ n \in Ends(d) BY <2>1 DEF NodesOf
  <2>3. PICK e \in DOMAIN T : T[e].id = j /\ n \in Ends(e) BY <2>1 DEF NodesOf
  <2> QED BY <1>2, <2>2, <2>3 DEF Touches
<1>4. \A e \in DOMAIN T : T[e].id \in DOMAIN meta' /\ Ends(e) \subseteq meta'[T[e].id]
  BY <1>1 DEF Ids, NodesOf
<1>5. ASSUME NEW e \in missing
      PROVE  outstanding'[e] \in DOMAIN meta' /\ Ends(e) \subseteq meta'[outstanding'[e]]
  <2> DEFINE i == CHOOSE i \in graphs : Asked(e, i)
  <2>1. i \in graphs /\ Asked(e, i) BY <1>5
  <2>2. outstanding'[e] = i BY <1>1
  <2> HIDE DEF i
  <2> QED BY <1>1, <2>1, <2>2
<1>6. \A i \in Graphs' : Within(meta'[i]) \subseteq DOMAIN T \cup missing
  BY <1>1 DEF Graphs, Within
<1>7. DOMAIN outstanding' = missing BY <1>1
<1> HIDE DEF missing, graphs
<1>8. PairsWhole' BY <1>1 DEF SubgraphInv, PairsWhole
<1>9. ClustersPlaced' BY <1>1, <1>3, <1>4 DEF ClustersPlaced
<1>10. MissingEdgesCome' BY <1>1, <1>5, <1>6, <1>7 DEF MissingEdgesCome
<1> QED BY <1>1, <1>8, <1>9, <1>10 DEF SubgraphInv, CompleteOrCut

-----------------------------------------------------------------------------
(* Phase2 *)

\* The edges asked for come into their clusters.
LEMMA GetPass2Subgraphs ==
    ASSUME RoundTypeOK, SubgraphInv, GetPass2Edges, UNCHANGED <<candidates, faults>>
    PROVE  SubgraphInv'
<1> DEFINE come == DOMAIN outstanding \cap DOMAIN pass2
<1>1. /\ at = "phase2" /\ at' = "resolve" /\ UNCHANGED <<meta, output>>
      /\ DOMAIN assignment' = DOMAIN assignment \cup come
      /\ \A e \in DOMAIN assignment : assignment'[e] = assignment[e]
      /\ \A e \in come \ DOMAIN assignment : assignment'[e].id = outstanding[e]
  BY DEF GetPass2Edges, At, Beside
<1>2. /\ \A i, j \in DOMAIN meta : \A n \in meta[i] \cap meta[j] : i = j
      /\ \A e \in DOMAIN assignment :
            assignment[e].id \in DOMAIN meta /\ Ends(e) \subseteq meta[assignment[e].id]
      /\ \A e \in DOMAIN outstanding :
            outstanding[e] \in DOMAIN meta /\ Ends(e) \subseteq meta[outstanding[e]]
      /\ \A i \in Graphs : Within(meta[i]) \subseteq DOMAIN assignment \cup DOMAIN outstanding
      /\ faults = 0 => DOMAIN outstanding \cap Within(Blocked) \subseteq DOMAIN pass2
  BY <1>1 DEF SubgraphInv, ClustersPlaced, MissingEdgesCome
<1>3. \A e \in DOMAIN assignment' :
         assignment'[e].id \in DOMAIN meta /\ Ends(e) \subseteq meta[assignment'[e].id]
  BY <1>1, <1>2
<1>4. faults = 0 => \A i \in Graphs : Within(meta[i]) \cap Within(Blocked) \subseteq DOMAIN assignment'
  BY <1>1, <1>2
<1>5. Graphs' = Graphs /\ Blocked' = Blocked BY <1>1 DEF Graphs, Blocked
<1>6. PairsWhole' BY <1>1 DEF SubgraphInv, PairsWhole
<1>7. ClustersPlaced' BY <1>1, <1>2, <1>3 DEF ClustersPlaced
<1>8. MissingEdgesCome' BY <1>1, <1>4, <1>5 DEF MissingEdgesCome
<1> QED BY <1>1, <1>6, <1>7, <1>8 DEF SubgraphInv, CompleteOrCut

\* What Step4 keeps: of every cluster, the edges it has of one reference set.
KeptAs(kept, choice, set) ==
    /\ kept = UNION {choice[i] : i \in Graphs}
    /\ \A i \in Graphs :
          /\ set[i] \in SubGraphSet[Cardinality(meta[i])]
          /\ choice[i] = Renamed(set[i], meta[i]) \cap {e \in DOMAIN assignment : assignment[e].id = i}

LEMMA KeptSetIs ==
    ASSUME NEW kept \in KeptSets
    PROVE  \E choice, set : KeptAs(kept, choice, set)
<1>1. PICK choice : /\ kept = UNION {choice[i] : i \in Graphs}
                    /\ \A i \in Graphs : choice[i] \in [j \in Graphs |-> MostProbable(j)][i]
  BY DEF KeptSets
<1> DEFINE E(i) == {e \in DOMAIN assignment : assignment[e].id = i}
           P(i, s) == s \in SubGraphSet[Cardinality(meta[i])] /\ choice[i] = Renamed(s, meta[i]) \cap E(i)
           set == [i \in Graphs |-> CHOOSE s : P(i, s)]
<1>2. ASSUME NEW i \in Graphs PROVE \E s : P(i, s)
  <2>1. choice[i] \in MostProbable(i) BY <1>1
  <2> QED BY <2>1 DEF MostProbable
<1>3. \A i \in Graphs : P(i, set[i])
  <2> SUFFICES ASSUME NEW i \in Graphs PROVE P(i, set[i]) OBVIOUS
  <2>1. set[i] = CHOOSE s : P(i, s) OBVIOUS
  <2>2. P(i, CHOOSE s : P(i, s))
    <3> HIDE DEF P
    <3> QED BY <1>2
  <2> QED BY <2>1, <2>2
<1> HIDE DEF set
<1> QED BY <1>1, <1>3 DEF KeptAs

\* g tells the parts of N that reference set s keeps.
Separates(g, s, N) == \A c \in Edge : c \in Renamed(s, N) <=> Ends(c) \subseteq N /\ g[c[1]] = g[c[2]]

\* What is kept of the edges around a, and connected with it, is of one cluster,
\* and of one part of it.
LEMMA PartKept ==
    ASSUME RoundTypeOK, ClustersPlaced, at = "resolve",
           NEW kept, NEW choice, NEW set, KeptAs(kept, choice, set), NEW a \in kept
    PROVE  \E i \in Graphs : \A b \in kept : Connected(kept, a, b) =>
              /\ b \in choice[i] /\ Ends(b) \subseteq meta[i]
              /\ \A g : Separates(g, set[i], meta[i]) => g[b[1]] = g[a[1]] /\ g[b[2]] = g[a[1]]
<1>1. /\ \A i, j \in DOMAIN meta : \A n \in meta[i] \cap meta[j] : i = j
      /\ \A e \in DOMAIN assignment :
            assignment[e].id \in DOMAIN meta /\ Ends(e) \subseteq meta[assignment[e].id]
      /\ DOMAIN assignment \in SUBSET Edge
  BY DEF ClustersPlaced, RoundTypeOK, GraphTypeOK, IsTable, Rows
<1>2. \A b \in kept : b \in DOMAIN assignment /\ b \in Edge
  BY <1>1 DEF KeptAs
<1>3. \A b \in kept : assignment[b].id \in Graphs /\ b \in choice[assignment[b].id]
                      /\ b \in Renamed(set[assignment[b].id], meta[assignment[b].id])
  BY DEF KeptAs
<1>4. kept \in SUBSET Edge BY <1>2
<1>5. ASSUME NEW b \in kept, NEW c \in kept, Touches(b, c)
      PROVE  assignment[b].id = assignment[c].id
  BY <1>1, <1>2, <1>5 DEF Touches
<1> DEFINE i == assignment[a].id
<1>6. ASSUME NEW b \in kept, Connected(kept, a, b) PROVE assignment[b].id = i
  <2> DEFINE clusterOf == [c \in kept |-> assignment[c].id]
  <2>1. AgreesOn(clusterOf, kept) BY <1>5 DEF AgreesOn
  <2>2. clusterOf[a] = i /\ clusterOf[b] = assignment[b].id OBVIOUS
  <2> HIDE DEF clusterOf
  <2>3. clusterOf[a] = clusterOf[b] BY <1>4, <1>6, <2>1, AgreeAlong
  <2> QED BY <2>2, <2>3
<1>7. ASSUME NEW b \in kept, Connected(kept, a, b), NEW g, Separates(g, set[i], meta[i])
      PROVE  g[b[1]] = g[a[1]] /\ g[b[2]] = g[a[1]]
  <2> DEFINE part == [c \in kept |-> IF assignment[c].id = i THEN g[c[1]] ELSE {}]
  <2>1. \A c \in kept : assignment[c].id = i => g[c[1]] = g[c[2]]
    BY <1>2, <1>3, <1>7 DEF Separates
  <2>2. ASSUME NEW c \in kept, NEW d \in kept, Touches(c, d) PROVE part[c] = part[d]
    <3>1. assignment[c].id = assignment[d].id BY <1>5, <2>2
    <3>2. CASE assignment[c].id = i
      <4>1. PICK v : v \in {c[1], c[2]} /\ v \in {d[1], d[2]} BY <2>2 DEF Touches, Ends
      <4>2. g[c[1]] = g[v] /\ g[d[1]] = g[v] BY <2>1, <3>1, <3>2, <4>1
      <4> QED BY <3>1, <3>2, <4>2
    <3>3. CASE assignment[c].id # i BY <3>1, <3>3
    <3> QED BY <3>2, <3>3
  <2>3. AgreesOn(part, kept) BY <2>2 DEF AgreesOn
  <2>4. assignment[b].id = i BY <1>6, <1>7
  <2>5. part[a] = g[a[1]] /\ part[b] = g[b[1]] BY <2>4
  <2> HIDE DEF part
  <2>6. part[a] = part[b] BY <1>4, <1>7, <2>3, AgreeAlong
  <2> QED BY <2>1, <2>4, <2>5, <2>6
<1>8. \A b \in kept : Connected(kept, a, b) => b \in choice[i] /\ Ends(b) \subseteq meta[i]
  BY <1>1, <1>2, <1>3, <1>6
<1>9. i \in Graphs BY <1>3
<1> HIDE DEF i
<1> QED BY <1>7, <1>8, <1>9

\* What Resolve adds is complete as far as the candidates go, or cut by set 9.
LEMMA ResolveSubgraphs ==
    ASSUME RoundTypeOK, ClustersInv, SubgraphInv, Resolve, UNCHANGED <<candidates, faults>>
    PROVE  SubgraphInv'
<1>1. PICK kept \in IF NoLogarithm THEN {{}} ELSE KeptSets :
         output' = IF kept = {} \/ DOMAIN output = {} THEN output ELSE Beside(output, Resolved(kept))
  BY DEF Resolve
<1>2. at = "resolve" /\ at' = "nodes" BY DEF Resolve, At
<1>3. \A k \in Ids(output) : Within(NodesOf(output, k)) \subseteq DOMAIN output
  BY <1>2 DEF SubgraphInv, PairsWhole
<1>4. Blocked' = Blocked BY DEF Blocked
<1>5. SUFFICES ASSUME faults = 0, ~(kept = {} \/ DOMAIN output = {}),
                      NEW k \in Ids(output'), NodesOf(output', k) \subseteq Blocked
               PROVE  \/ Within(NodesOf(output', k)) \subseteq DOMAIN output'
                      \/ CutBySet9(NodesOf(output, k))'
  <2>1. CASE kept = {} \/ DOMAIN output = {}
    <3>1. output' = output BY <1>1, <2>1
    <3>2. CompleteOrCut' BY <1>3, <3>1 DEF CompleteOrCut
    <3> QED BY <1>2, <3>2 DEF SubgraphInv, PairsWhole, ClustersPlaced, MissingEdgesCome
  <2>2. CASE ~(kept = {} \/ DOMAIN output = {})
    <3>1. SUFFICES CompleteOrCut'
      BY <1>2 DEF SubgraphInv, PairsWhole, ClustersPlaced, MissingEdgesCome
    <3> QED BY <1>4, <2>2 DEF CompleteOrCut
  <2> QED BY <2>1, <2>2
<1>6. kept \in KeptSets BY <1>1, <1>5
<1>7. PICK choice, set : KeptAs(kept, choice, set) BY <1>6, KeptSetIs
<1>8. kept \in SUBSET DOMAIN assignment /\ DOMAIN assignment \in SUBSET Edge /\ DOMAIN output \in SUBSET Edge
  BY <1>2, <1>6, KeptAreAssigned DEF RoundTypeOK, GraphTypeOK, IsTable, Rows, BeforeSeed
<1> DEFINE R == Resolved(kept)
           N == NodesOf(output', k)
<1>9. /\ DOMAIN R = kept /\ Labelled(R) /\ Ids(R) \cap Ids(output) = {}
      /\ AllNodes(output) \cap AllNodes(assignment) = {}
  BY <1>2, <1>8, <1>5, ResolvedIs DEF RoundTypeOK, GraphTypeOK, ClustersInv, Apart, BeforeSeed
<1>10. output' = Beside(output, R) BY <1>1, <1>5
<1> HIDE DEF R
<1>11. DOMAIN output \cap kept = {}
  <2>1. \A e \in DOMAIN output \cap kept : e[1] \in AllNodes(output) \cap AllNodes(assignment)
    BY <1>8 DEF AllNodes, Ends
  <2> QED BY <1>9, <2>1
<1>12. /\ DOMAIN output' = DOMAIN output \cup kept
       /\ \A e \in DOMAIN output : output'[e] = output[e]
       /\ \A e \in kept : output'[e] = R[e]
  BY <1>9, <1>10, <1>11 DEF Beside
<1>13. CASE k \in Ids(output)
  <2>1. \A e \in kept : R[e].id # k BY <1>9, <1>13 DEF Ids
  <2>2. {e \in DOMAIN output' : output'[e].id = k} = {e \in DOMAIN output : output[e].id = k}
    BY <1>12, <2>1
  <2>3. N = NodesOf(output, k) BY <2>2 DEF NodesOf
  <2> QED BY <1>3, <1>12, <1>13, <2>3
<1>14. CASE k \notin Ids(output)
  <2>1. \A e \in DOMAIN output : output[e].id # k BY <1>14 DEF Ids
  <2>2. PICK a \in kept : R[a].id = k BY <1>12, <2>1 DEF Ids
  <2>3. PICK i \in Graphs : \A b \in kept : Connected(kept, a, b) =>
           /\ b \in choice[i] /\ Ends(b) \subseteq meta[i]
           /\ \A g : Separates(g, set[i], meta[i]) => g[b[1]] = g[a[1]] /\ g[b[2]] = g[a[1]]
    BY <1>2, <1>7, PartKept DEF SubgraphInv
  <2>4. \A v \in N : \E b \in kept : v \in Ends(b) /\ Connected(kept, a, b)
    BY <1>9, <1>12, <2>1, <2>2 DEF NodesOf, Labelled
  <2>5. N \subseteq meta[i] BY <2>3, <2>4
  <2>6. /\ i \in DOMAIN meta /\ Cardinality(meta[i]) \in 3 .. MaxNodeCount
        /\ meta[i] \in SUBSET Node /\ MaxNodeCount \in 3 .. 5
        /\ set[i] \in SubGraphSet[Cardinality(meta[i])]
        /\ choice[i] = Renamed(set[i], meta[i]) \cap {e \in DOMAIN assignment : assignment[e].id = i}
    BY <1>7, GraphAssumption DEF KeptAs, Graphs, RoundTypeOK, GraphTypeOK
  <2>7. Cardinality(meta[i]) \in 3 .. 5 BY <2>6
  <2>8. \A e \in DOMAIN assignment : Ends(e) \subseteq meta[i] => assignment[e].id = i
    <3>1. /\ \A j, l \in DOMAIN meta : \A n \in meta[j] \cap meta[l] : j = l
          /\ \A e \in DOMAIN assignment :
                assignment[e].id \in DOMAIN meta /\ Ends(e) \subseteq meta[assignment[e].id]
      BY <1>2 DEF SubgraphInv, ClustersPlaced
    <3> QED BY <2>6, <3>1 DEF Ends
  <2>9. CASE Cardinality(meta[i]) = 5 /\ set[i] = Set9
    <3>1. ASSUME NEW e \in DOMAIN output' \cap Within(N) PROVE e \in Renamed(Set9, meta[i])
      <4>1. e[1] \in N /\ Ends(e) \subseteq meta[i] BY <2>5, <3>1 DEF Within, Ends
      <4>2. PICK b \in kept : e[1] \in Ends(b) BY <2>4, <4>1
      <4>3. e[1] \in AllNodes(assignment) BY <1>8, <4>2 DEF AllNodes
      <4>4. e \notin DOMAIN output BY <1>9, <4>3 DEF AllNodes, Ends
      <4>5. e \in kept BY <1>12, <3>1, <4>4
      <4>6. assignment[e].id = i BY <1>8, <2>8, <4>1, <4>5
      <4>7. PICK j \in Graphs : e \in choice[j] BY <1>7, <4>5 DEF KeptAs
      <4>8. j = i BY <1>7, <4>6, <4>7 DEF KeptAs
      <4> QED BY <2>6, <2>9, <4>7, <4>8
    <3>2. ASSUME NEW e \in Renamed(Set9, meta[i]) \cap Within(Blocked) PROVE e \in DOMAIN output'
      <4>1. e \in Within(meta[i]) BY DEF Renamed, Within
      <4>2. e \in DOMAIN assignment
        BY <1>2, <1>5, <2>3, <3>2, <4>1 DEF SubgraphInv, MissingEdgesCome
      <4>3. assignment[e].id = i BY <2>8, <4>1, <4>2 DEF Within
      <4>4. e \in choice[i] BY <2>6, <2>9, <3>2, <4>2, <4>3
      <4>5. e \in kept BY <1>7, <2>3, <4>4 DEF KeptAs
      <4> QED BY <1>12, <4>5
    <3>3. MaxNodeCount = 5 BY <2>6, <2>9
    <3>4. /\ DOMAIN output' \cap Within(N) \subseteq Renamed(Set9, meta[i])
          /\ Renamed(Set9, meta[i]) \cap Within(Blocked') \subseteq DOMAIN output'
      BY <1>4, <3>1, <3>2
    <3> HIDE DEF N
    <3>5. \E M \in SUBSET Node :
             /\ Cardinality(M) = 5 /\ N \subseteq M
             /\ DOMAIN output' \cap Within(N) \subseteq Renamed(Set9, M)
             /\ Renamed(Set9, M) \cap Within(Blocked') \subseteq DOMAIN output'
      BY <2>5, <2>6, <2>9, <3>4
    <3> QED BY <3>3, <3>5 DEF CutBySet9, N
  <2>10. CASE \E g : Separates(g, set[i], meta[i])
    <3>1. PICK g : Separates(g, set[i], meta[i]) BY <2>10
    <3>2. \A v \in N : g[v] = g[a[1]] BY <2>3, <2>4, <3>1 DEF Ends
    <3>3. Within(meta[i]) \cap Within(Blocked) \subseteq DOMAIN assignment
      BY <1>2, <1>5, <2>3 DEF SubgraphInv, MissingEdgesCome
    <3>4. ASSUME NEW e \in Within(N) PROVE e \in kept
      <4>1. e \in Edge /\ e[1] \in N /\ e[2] \in N /\ Ends(e) \subseteq meta[i] /\ Ends(e) \subseteq Blocked
        BY <1>5, <2>5, <3>4 DEF Within, Ends
      <4>2. g[e[1]] = g[e[2]] BY <3>2, <4>1
      <4>3. e \in Renamed(set[i], meta[i]) BY <3>1, <4>1, <4>2 DEF Separates
      <4>4. e \in DOMAIN assignment BY <3>3, <4>1 DEF Within
      <4>5. e \in choice[i] BY <2>6, <2>8, <4>1, <4>3, <4>4
      <4> QED BY <1>7, <2>3, <4>5 DEF KeptAs
    <3> QED BY <1>12, <3>4
  <2>11. (Cardinality(meta[i]) = 5 /\ set[i] = Set9) \/ \E g : Separates(g, set[i], meta[i])
    BY <2>6, <2>7, RenamedIs DEF Separates
  <2> QED BY <2>9, <2>10, <2>11
<1> QED BY <1>13, <1>14

-----------------------------------------------------------------------------
(* Every step *)

\* Steps that leave Phase1 and Phase2 alone.
LEMMA SameSubgraphs ==
    ASSUME SubgraphInv, UNCHANGED <<output, assignment, meta, outstanding, candidates>>,
           \/ UNCHANGED <<at, pass2, results, faults>>
           \/ UNCHANGED at /\ faults' # 0
           \/ at = "nodes" /\ at' = "link" /\ UNCHANGED faults
    PROVE  SubgraphInv'
<1>1. /\ \A i : NodesOf(output, i)' = NodesOf(output, i)
      /\ Ids(output)' = Ids(output) /\ Blocked' = Blocked /\ Graphs' = Graphs
  BY DEF Blocked, Graphs
<1>2. \A N : CutBySet9(N)' <=> CutBySet9(N) BY <1>1 DEF CutBySet9
<1>3. PairsWhole' BY <1>1 DEF SubgraphInv, PairsWhole
<1>4. ClustersPlaced' BY <1>1 DEF SubgraphInv, ClustersPlaced
<1>5. MissingEdgesCome' BY <1>1 DEF SubgraphInv, MissingEdgesCome
<1>6. CompleteOrCut' BY <1>1, <1>2 DEF SubgraphInv, CompleteOrCut
<1> QED BY <1>3, <1>4, <1>5, <1>6 DEF SubgraphInv

\* Every outstanding edge between candidates is compared,
LEMMA CompareSubgraphs ==
    ASSUME RoundTypeOK, SubgraphInv, CompareOutstanding
    PROVE  SubgraphInv'
<1>1. /\ at = "compare2" /\ at' = "score2"
      /\ UNCHANGED <<output, assignment, meta, outstanding, candidates, faults>>
      /\ DOMAIN results' = {e \in DOMAIN outstanding : Ends(e) \subseteq Blocked}
  BY DEF CompareOutstanding, At, graphTables, bounds, Scores, Blocked
<1>2. Blocked' = Blocked /\ Graphs' = Graphs BY <1>1 DEF Blocked, Graphs
<1>3. PairsWhole' /\ ClustersPlaced' BY <1>1 DEF SubgraphInv, PairsWhole, ClustersPlaced
<1>4. MissingEdgesCome' BY <1>1, <1>2 DEF SubgraphInv, MissingEdgesCome, Within
<1> QED BY <1>1, <1>3, <1>4 DEF SubgraphInv, CompleteOrCut

\* and what is compared is scored.
LEMMA ScoreSubgraphs ==
    ASSUME SubgraphInv, ScoreOutstanding
    PROVE  SubgraphInv'
<1>1. /\ at = "score2" /\ at' = "phase2"
      /\ UNCHANGED <<output, assignment, meta, outstanding, candidates, faults>>
      /\ DOMAIN results \subseteq DOMAIN pass2'
  BY DEF ScoreOutstanding, At, bounds, Beside
<1>2. Blocked' = Blocked /\ Graphs' = Graphs BY <1>1 DEF Blocked, Graphs
<1>3. PairsWhole' /\ ClustersPlaced' BY <1>1 DEF SubgraphInv, PairsWhole, ClustersPlaced
<1>4. MissingEdgesCome' BY <1>1, <1>2 DEF SubgraphInv, MissingEdgesCome
<1> QED BY <1>1, <1>3, <1>4 DEF SubgraphInv, CompleteOrCut

LEMMA SubgraphsStep ==
    ASSUME RoundTypeOK, ClustersInv, SubgraphInv, [Next]_vars
    PROVE  SubgraphInv'
<1> USE DEF At, graphTables, bounds
<1>1. CASE UNCHANGED vars BY <1>1, SameSubgraphs DEF vars, matchingVars
<1>2. CASE at' \notin {"prune", "complete", "compare2", "score2", "phase2", "resolve", "nodes", "link"}
  BY <1>2 DEF SubgraphInv, PairsWhole, ClustersPlaced, MissingEdgesCome, CompleteOrCut
<1>3. CASE GraphStep
  <2>1. UNCHANGED <<candidates, faults>> BY <1>3 DEF GraphStep, PruneStep, Elsewhere, matchingVars
  <2>2. CASE GetPass1Edges(matches) \/ SeedFails BY <1>2, <2>2 DEF GetPass1Edges, SeedFails
  <2> QED BY <1>3, <2>1, <2>2, SeedSubgraphs, PruneSubgraphs, CompleteSubgraphs, GetPass2Subgraphs,
             ResolveSubgraphs DEF GraphStep, PruneStep
<1>4. CASE CrashBetween
  <2>1. UNCHANGED at /\ faults' # 0 BY <1>4 DEF CrashBetween, RoundTypeOK
  <2> QED BY <1>4, <2>1, SameSubgraphs DEF CrashBetween
<1>5. CASE ClusterStep
  <2>1. CASE MaintainNodes(data.records)
    BY <1>5, <2>1, SameSubgraphs DEF MaintainNodes, ClusterStep, matchingVars
  <2> QED BY <1>2, <1>5, <2>1 DEF ClusterStep, MembershipStep, Link, Adopt, Found, Settle, Review
<1>6. CASE PrimaryRecordLinked
  BY <1>6, SameSubgraphs DEF PrimaryRecordLinked, HardLink, matchingVars
<1>7. CASE \/ ImportFinished \/ InsertCandidates \/ InsertFails \/ Compare \/ Score \/ Finish \/ CutOff
           \/ SaveNetwork
  BY <1>2, <1>7 DEF ImportFinished, InsertCandidates, InsertFails, Compare, Score, Finish, CutOff, SaveNetwork
<1> QED BY <1>1, <1>3, <1>4, <1>5, <1>6, <1>7, CompareSubgraphs, ScoreSubgraphs DEF Next, Round

-----------------------------------------------------------------------------
(* The theorems *)

\* In a round without failures, every cluster that comes out of Phase2 and has all
\* its records among the candidates is complete, or one that set 9 of the reference
\* table has cut; nothing else can leave an incomplete one.
THEOREM ClustersAreCompleteOrCut == Spec => []CompleteOrCut
<1>1. Init => SubgraphInv
  BY DEF Init, SubgraphInv, PairsWhole, ClustersPlaced, MissingEdgesCome, CompleteOrCut
<1>2. RoundInv /\ SubgraphInv /\ [Next]_vars => SubgraphInv' BY SubgraphsStep DEF RoundInv
<1>3. SubgraphInv => CompleteOrCut BY DEF SubgraphInv
<1> QED BY <1>1, <1>2, <1>3, RoundInvariant, PTL DEF Spec
=============================================================================
