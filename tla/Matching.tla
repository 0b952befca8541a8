-------------------------------- MODULE Matching --------------------------------
(***************************************************************************)
(* From a finished import to the clusters: Blocking pairs records off, the *)
(* comparator and the scorer of Matching.Engine give each pair a           *)
(* probability, Phase1 makes clusters of them, the edges that are missing  *)
(* are scored too, Phase2 settles the clusters.  Rounds do not overlap     *)
(* here; each stage is started by the message of the one before.  Between  *)
(* rounds operators save clusters as they have changed them by hand.       *)
(***************************************************************************)
EXTENDS ClusterGraph, ClusterMembership

CONSTANTS
    Data,           \* what the running pictures may hold when a round starts: records,
                    \* who of them is in prison, pairs that block, a score for each pair
    Networks,       \* what operators may save: clusters, their records' rows, their edges
    MaxRounds,      \* bound: rounds
    MaxFaults,      \* bound: crashes and failures
    MaxSaves        \* bound: saves, of those that a round comes after

ASSUME MatchingAssumption ==
    /\ MaxRounds \in Nat /\ MaxFaults \in Nat /\ MaxSaves \in Nat
    /\ Data # {}
    /\ Data \subseteq [records : SUBSET Node, active : SUBSET Node, pairs : SUBSET Edge,
                      score : [Edge -> Likelihood]]
    /\ \A d \in Data : UNION {Ends(e) : e \in d.pairs} \subseteq d.records

ASSUME NetworkAssumption ==
    \A w \in Networks :
       /\ w.upcis \subseteq Nat \ {0}
       /\ Rows(w.rows, Node, [id : w.upcis, hard : BOOLEAN])
       /\ Rows(w.edges, Directed, Probability)
       /\ \A e \in DOMAIN w.edges : Ends(e) \subseteq DOMAIN w.rows

VARIABLES
    data,           \* what the running pictures hold
    candidates,     \* Matching.Candidates: pairs, with a copy of what scores them
    constrained,    \* the foreign keys of Candidates and Matches are there
    results,        \* MatchingQueue.Results, in the memory of Matching.Engine: the
                    \* comparisons of each pair, as the probability they amount to
    matches,        \* Matching.Matches: matches[e], the probability of e
    rounds,
    faults,
    saves

matchingVars == <<data, candidates, constrained, results, matches>>
bounds == <<rounds, faults, saves>>
vars == <<output, at, tables, graphTables, matchingVars, bounds>>

Scorable == [pairs : SUBSET Edge, score : [Edge -> Likelihood]]
NoPairs == [pairs |-> {}, score |-> data.score]
Scores(pairs) == [e \in pairs |-> candidates.score[e]]

\* A message starts the stage, or the stage goes on in the same handler.
QueueStage == {"insert", "compare", "score", "phase1", "compare2", "score2", "phase2"}
Stage == QueueStage \cup {"rest", "seed", "prune", "complete", "resolve", "nodes", "link",
                          "adopt", "found", "settle", "review", "finish"}

\* Until Step2 has replaced it, the output may hold what operators have saved.
BeforeSeed == {"rest", "insert", "compare", "score", "phase1", "seed"}

MatchingTypeOK ==
    /\ MembershipTypeOK /\ GraphTypeOK
    /\ at \in BeforeSeed \/ IsTable(output)
    /\ at \in Stage /\ data \in Data
    /\ candidates \in Scorable /\ constrained \in BOOLEAN
    /\ IsScored(results) /\ IsScored(matches)
    /\ rounds \in 0 .. MaxRounds /\ faults \in 0 .. MaxFaults /\ saves \in 0 .. MaxSaves

Init ==
    /\ MembershipInit /\ GraphInit
    /\ data = CHOOSE d \in Data : TRUE
    /\ candidates = NoPairs
    /\ constrained = TRUE /\ results = <<>> /\ matches = <<>>
    /\ at = "rest" /\ rounds = 0 /\ faults = 0 /\ saves = 0

\* An ImportFinishedMessage: the running pictures have changed.
ImportFinished ==
    /\ At("rest") /\ rounds < MaxRounds
    /\ rounds' = rounds + 1
    /\ data' \in Data
    /\ at' = "insert"
    /\ UNCHANGED <<output, tables, graphTables, candidates, constrained, results, matches,
                   faults, saves>>

-----------------------------------------------------------------------------
(* Blocking *)

\* The stored procedure InsertCandidates.  It drops the foreign keys, and fails
\* where they are not; failures are caught in it, and nobody is told.
InsertCandidates ==
    /\ At("insert")
    /\ candidates' = IF constrained THEN [pairs |-> data.pairs, score |-> data.score]
                     ELSE candidates
    /\ matches' = <<>>
    /\ at' = "compare"
    /\ UNCHANGED <<output, tables, graphTables, data, constrained, results, bounds>>

InsertFails ==
    /\ At("insert") /\ constrained /\ faults < MaxFaults
    /\ faults' = faults + 1
    /\ constrained' \in BOOLEAN
    /\ candidates' \in {candidates, NoPairs}
    /\ matches' = <<>>
    /\ at' = "compare"
    /\ UNCHANGED <<output, tables, graphTables, data, results, rounds, saves>>

-----------------------------------------------------------------------------
(* Matching.Engine *)

\* ComparatorService, for the candidates.
Compare ==
    /\ At("compare")
    /\ results' = Scores(candidates.pairs)
    /\ at' = "score"
    /\ UNCHANGED <<output, tables, graphTables, data, candidates, constrained, matches, bounds>>

\* ScorerService takes what is in the queue and empties it.
Score ==
    /\ At("score")
    /\ matches' = Beside(results, matches)
    /\ results' = <<>>
    /\ at' = "phase1"
    /\ UNCHANGED <<output, tables, graphTables, data, candidates, constrained, bounds>>

\* ComparatorService, for Clustering.RecordMatchingView: an outstanding edge is in
\* it if both its records are among the candidates.
CompareOutstanding ==
    /\ At("compare2")
    /\ results' = Scores({e \in DOMAIN outstanding :
                             Ends(e) \subseteq UNION {Ends(d) : d \in candidates.pairs}})
    /\ at' = "score2"
    /\ UNCHANGED <<output, tables, graphTables, data, candidates, constrained, matches, bounds>>

ScoreOutstanding ==
    /\ At("score2")
    /\ pass2' = Beside(results, pass2)
    /\ results' = <<>>
    /\ at' = "phase2"
    /\ UNCHANGED <<output, tables, pass1, assignment, meta, outstanding, data, candidates,
                   constrained, matches, bounds>>

\* ClusteringPostProcessingFinishedMessage.
Finish ==
    /\ At("finish")
    /\ at' = "rest"
    /\ UNCHANGED <<output, tables, graphTables, matchingVars, bounds>>

-----------------------------------------------------------------------------
\* Matching.Engine stops while the message of the next stage waits for it.
CrashBetween ==
    /\ at \in QueueStage /\ faults < MaxFaults /\ results # <<>>
    /\ faults' = faults + 1
    /\ results' = <<>>
    /\ UNCHANGED <<output, at, tables, graphTables, data, candidates, constrained, matches,
                   rounds, saves>>

\* A process stops in the middle of a stage, whose message is gone, or before a
\* stage whose message is lost.  Of a bulk insert some of the rows are there; of
\* Step2 it may be no more than the TRUNCATE of the output.
CutOff ==
    /\ ~At("rest") /\ faults < MaxFaults
    /\ faults' = faults + 1
    /\ \E some \in SUBSET DOMAIN results :
          LET inserted == [e \in some |-> results[e]]
          IN  /\ matches' = IF At("score") THEN Beside(inserted, matches) ELSE matches
              /\ pass2' = IF At("score2") THEN Beside(inserted, pass2) ELSE pass2
    /\ output' \in IF At("seed") THEN {output, <<>>} ELSE {output}
    /\ results' = <<>>
    /\ at' = "rest"
    /\ UNCHANGED <<tables, pass1, assignment, meta, outstanding, data, candidates,
                   constrained, rounds, saves>>

-----------------------------------------------------------------------------
(* The Visualiser *)

\* The temporary cluster of an edge that operators save, -1 in the code.
Meaningless == 0

\* The records that network w has in cluster c.
Placed(w, c) == {n \in DOMAIN w.rows : w.rows[n].id = c}

\* A network is refused unless it has the records that its clusters have; the average
\* of the edges of a cluster that has several records and none is an exception.
Accepts(w) ==
    /\ w.upcis \subseteq clusters
    /\ DOMAIN w.rows = UNION {Members(c) : c \in w.upcis}
    /\ \A c \in w.upcis : Cardinality(Placed(w, c)) > 1
          => \E e \in DOMAIN w.edges : e[1] \in Placed(w, c)

\* SaveNetworkAsync, between rounds: the clusters' rows, and the edges that start at
\* their records, are replaced by the network's.  The primary record is the one that
\* the running pictures put first, which may have changed since the last round.
SaveNetwork ==
    /\ At("rest") /\ saves < MaxSaves /\ rounds < MaxRounds
    /\ \E w \in Networks :
          /\ Accepts(w)
          /\ member' = [n \in DOMAIN member |->
                           IF n \in DOMAIN w.rows THEN w.rows[n] ELSE member[n]]
          /\ output' = Beside([e \in DOMAIN w.edges |-> [p |-> w.edges[e], id |-> Meaningless]],
                              [e \in {d \in DOMAIN output : d[1] \notin DOMAIN w.rows} |-> output[e]])
          /\ \E first \in [w.upcis -> Node \cup {NoNode}] :
                /\ \A c \in w.upcis : IF Placed(w, c) = {} THEN first[c] = NoNode
                                      ELSE first[c] \in Placed(w, c)
                /\ primary' = [c \in clusters |-> IF c \in w.upcis THEN first[c] ELSE primary[c]]
    /\ saves' = saves + 1
    /\ UNCHANGED <<at, nodes, linkNode, seed, clusters, graphTables, matchingVars, rounds, faults>>

-----------------------------------------------------------------------------
Elsewhere == UNCHANGED <<tables, matchingVars, bounds>>
PruneStep == Prune /\ Elsewhere
GraphStep ==
    \/ PruneStep
    \/ /\ \/ GetPass1Edges(matches) \/ Seed \/ SeedFails \/ CompleteEdges \/ GetPass2Edges
          \/ Resolve
       /\ Elsewhere

ClusterStep ==
    /\ MaintainNodes(data.records) \/ MembershipStep(data.active)
    /\ UNCHANGED <<graphTables, matchingVars, bounds>>

\* Meow's handler runs beside all that.
PrimaryRecordLinked == \E n \in Node : HardLink(n) /\ UNCHANGED <<graphTables, matchingVars, bounds>>

Round ==
    \/ InsertCandidates \/ Compare \/ Score \/ CompareOutstanding \/ ScoreOutstanding
    \/ GraphStep \/ ClusterStep \/ Finish

Next ==
    \/ ImportFinished \/ Round \/ InsertFails \/ CrashBetween \/ CutOff
    \/ PrimaryRecordLinked \/ SaveNetwork

Spec == Init /\ [][Next]_vars

\* SQL Server goes on with a procedure that it runs.
FairSpec == Spec /\ WF_vars(PruneStep)

-----------------------------------------------------------------------------
(* Properties *)

\* What every table and queue may hold.
TypeOK == MatchingTypeOK

\* Whatever operators have saved, once Step2 has made the output anew its temporary
\* clusters are the connected parts of its graph: Seed and Resolve number them
\* separately, and propagation stops only when it is done.
ClustersAreComponents ==
    at \notin BeforeSeed =>
        Components(DOMAIN output) = {{e \in DOMAIN output : output[e].id = i} : i \in Ids(output)}

\* Of an edge that the round scored anew the round's score counts, not the one that
\* earlier rounds have left in the output for it; but if operators have saved, they
\* may have left a higher one that counts, the other way round.
RescoredEdgeWins ==
    At("finish") => \A e \in DOMAIN output \cap DOMAIN matches :
        output[e].p = matches[e] \/ (saves > 0 /\ output[e].p > matches[e])

Within(N) == {e \in Edge : Ends(e) \subseteq N}
Blocked == UNION {Ends(e) : e \in candidates.pairs}

\* Set 9 of the reference table was chosen for a cluster of 5, and N is connected by
\* the edges that it keeps of it, all of those that join candidates.
CutBySet9(N) ==
    /\ MaxNodeCount = 5
    /\ \E M \in SUBSET Node :
          /\ Cardinality(M) = 5 /\ N \subseteq M
          /\ DOMAIN output \cap Within(N) \subseteq Renamed(Set9, M)
          /\ Renamed(Set9, M) \cap Within(Blocked) \subseteq DOMAIN output

\* The clusters that Phase2 makes are complete as far as all their records were
\* among the candidates, unless a failure has emptied the queue or the candidates,
\* or set 9 has been chosen for them: nothing else can leave an incomplete one.
CompleteOrCut ==
    at \in {"nodes", "link"} /\ faults = 0 =>
        \A i \in Ids(output) :
           LET N == NodesOf(output, i)
           IN  N \subseteq Blocked => Within(N) \subseteq DOMAIN output \/ CutBySet9(N)

\* A record that is hard-linked keeps its cluster for ever, in whatever rounds and
\* wherever a round is cut off, and stays hard-linked, until an operator saves it.
HardLinksStay ==
    [][saves' = saves =>
          \A n \in DOMAIN member : Hard(n) => n \in DOMAIN member' /\ member'[n] = member[n]]_vars

\* Once Step6 has moved the records, those of one temporary cluster that have a
\* permanent one share it, but for hard-linked ones.
OldMembersAgree ==
    At("found") =>
        \A i \in Ids(output) : \A m, n \in NodesOf(output, i) :
            (m \in Known /\ n \in Known /\ ~Hard(m) /\ ~Hard(n)) => member[m].id = member[n].id

\* A record that gets a new cluster shares it with records of its temporary cluster
\* only: the numbers that two UPDATEs of Step6 give out never meet.
NewClustersAreSeparate ==
    [][\A m \in Unassigned, n \in DOMAIN member :
          (m # n /\ member'[m].id # 0 /\ member'[m].id = member'[n].id)
              => \E i \in Ids(output) : {m, n} \subseteq NodesOf(output, i)]_vars

\* After a round every cluster with records has a primary record, and it is one of
\* them, however its records have moved, in rounds or by operators' hands.
PrimaryBelongs ==
    At("finish") => \A c \in clusters : IF Members(c) = {} THEN primary[c] = NoNode
                                        ELSE primary[c] \in Members(c)

\* The pruning loop of Step2 comes to an end.
PruningEnds == At("prune") ~> ~At("prune")

\* Step6 181: "Any remaining null ClusterIds must be singlets - assign this a new
\* clusterid": nobody gets the id, and with it the UPCI, of a cluster that was there.
NewIdsAreNew ==
    [][\A n \in Unassigned : member'[n].id # 0 => member'[n].id \notin clusters]_vars

\* Step4 15-16: "subject to the following constraints: 1. All subgraphs are complete".
SubgraphsAreComplete ==
    At("nodes") => \A i \in Ids(output) :
        {e \in Edge : Ends(e) \subseteq NodesOf(output, i)} \subseteq DOMAIN output
=============================================================================
