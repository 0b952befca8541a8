----------------------------- MODULE ClusterGraph ------------------------------
(***************************************************************************)
(* Step1 and Step2 of Phase1, Step3 and Step4 of Phase2: the scored pairs  *)
(* of records become a graph, its components become clusters of at most    *)
(* MaxNodeCount nodes, their missing edges are asked for, and each is cut  *)
(* into its most probable set of subgraphs.                                *)
(***************************************************************************)
EXTENDS ClusterTables, SubGraphSets, Sequences, FiniteSetsExt

CONSTANTS
    Certain,        \* probabilities are counted in parts of Certain
    MaxNodeCount    \* @MaxNodeCount, 5 in the code

ASSUME GraphAssumption == Certain \in Nat \ {0, 1} /\ MaxNodeCount \in 3 .. 5

VARIABLES
    pass1,          \* input.EdgeProbabilities_Pass1: the probability of each edge
    pass2,          \* input.EdgeProbabilities_Pass2
    assignment,     \* processing.ClusterAssignment: edges with temporary clusters
    meta,           \* processing.ClusterMeta: meta[i], the nodes of cluster i
    outstanding     \* processing.OutstandingEdges: outstanding[e], its cluster

graphTables == <<pass1, pass2, assignment, meta, outstanding>>

\* What the scorer gives, and with what operators save: never 0, which has no
\* logarithm, but 1, whose complement has none.
Likelihood == 1 .. Certain - 1
Probability == 1 .. Certain
Probable(p) == 2 * p >= Certain

Rows(T, E, R) == T \in [DOMAIN T -> R] /\ DOMAIN T \subseteq E
IsTable(T) == Rows(T, Edge, [p : Probability, id : Nat])
IsScored(S) == Rows(S, Edge, Likelihood)

GraphTypeOK ==
    /\ Rows(pass1, Directed, Probability) /\ IsScored(pass2) /\ IsTable(assignment)
    /\ Rows(output, Directed, [p : Probability, id : Nat])
    /\ meta \in [DOMAIN meta -> SUBSET Node] /\ DOMAIN meta \subseteq Nat
    /\ outstanding \in [DOMAIN outstanding -> Nat] /\ DOMAIN outstanding \subseteq Edge

GraphInit ==
    /\ pass1 = <<>> /\ pass2 = <<>> /\ assignment = <<>> /\ meta = <<>>
    /\ outstanding = <<>> /\ output = <<>>

-----------------------------------------------------------------------------
(* Phase1 *)

\* Only edges between the two systems make clusters.
Crosses(e) == NodeName[e[1]] # NodeName[e[2]]

\* A candidate's row runs from the prison's record to the probation's.  (Those within
\* a system may run either way, but make no cluster.)
Fresh(scored) == [e \in {Reverse(d) : d \in DOMAIN scored} |-> scored[Reverse(e)]]

\* Two rows of an edge are as good as the more probable one, which Step2 takes.
Likelier(T, U) ==
    [e \in DOMAIN T \cup DOMAIN U |->
        IF e \in DOMAIN T /\ (e \in DOMAIN U => U[e] <= T[e]) THEN T[e] ELSE U[e]]

\* Mutated: the edges of the existing clusters are taken as they are.
GetPass1EdgesAll(scored) ==
    /\ At("phase1")
    /\ pass1' = Likelier(Fresh(scored), [e \in DOMAIN output |-> output[e].p])
    /\ at' = "seed"
    /\ UNCHANGED <<pass2, assignment, meta, outstanding, output>>

\* Step1: this round's scores, and the edges of the existing clusters that have
\* not been scored again: the scored ones are looked up by their earlier node, so
\* that an edge which was saved the other way round is never among them.
GetPass1Edges(scored) ==
    /\ At("phase1")
    /\ pass1' = Likelier(Fresh(scored),
                    [e \in {d \in DOMAIN output : ~(d \in DOMAIN scored /\ Crosses(d))}
                        |-> output[e].p])
    /\ at' = "seed"
    /\ UNCHANGED <<pass2, assignment, meta, outstanding, output>>

\* The sets of nodes that no edge of E leaves, and what the smallest of them hold:
\* the connected parts of the graph.
Closed(E) ==
    {N \in SUBSET UNION {Ends(e) : e \in E} : \A e \in E : e[1] \in N <=> e[2] \in N} \ {{}}
Parts(E) == LET closed == Closed(E) IN {N \in closed : \A M \in closed : M \subseteq N => M = N}
Components(E) == {{e \in E : e[1] \in N} : N \in Parts(E)}

\* The loop of UPDATEs that lower labels across shared nodes until none changes.
Propagate(T) ==
    LET parts == Components(DOMAIN T)
        label == [S \in parts |-> Min({T[d].id : d \in S})]
    IN  [e \in DOMAIN T |-> [p |-> T[e].p, id |-> label[CHOOSE S \in parts : e \in S]]]

\* Pairs that share no node with another edge.
Lone(E) == {e \in E : \A d \in E \ {e} : ~Touches(d, e)}

\* The probable links, each turned round to run from its earlier node.
ProbableRows == {e \in DOMAIN pass1 : Crosses(e) /\ Probable(pass1[e])}
Seeds == {e \in Edge : e \in ProbableRows \/ Reverse(e) \in ProbableRows}
SeedProbability(e) == pass1[IF e \in ProbableRows THEN e ELSE Reverse(e)]

\* They are grouped as they were before, so that a pair which is probable both ways
\* round comes out twice.
Doubled == \E e \in ProbableRows : Reverse(e) \in ProbableRows

\* Step2 15-188: probable edges become clusters of their own, isolated pairs go
\* to the output at once.  The loop that joins the others runs only if the
\* DELETE before it, of the isolated pairs, has removed a row.
Seed ==
    /\ At("seed") /\ ~Doubled
    /\ LET lone == Lone(Seeds)
           rest == [e \in Seeds \ lone |-> [p |-> SeedProbability(e), id |-> RowNumber(e, Seeds)]]
       IN  /\ output' = [e \in lone |-> [p |-> SeedProbability(e), id |-> RowNumber(e, lone)]]
           /\ assignment' = IF lone = {} THEN rest ELSE Propagate(rest)
    /\ at' = "prune"
    /\ UNCHANGED <<pass1, pass2, meta, outstanding>>

\* A double breaks the unique index of ClusterAssignment, and the INSERT fails.  The
\* rest of Phase1 is done with an empty table, and its caller gets the error.
SeedFails ==
    /\ At("seed") /\ Doubled
    /\ output' = <<>> /\ pass2' = <<>>
    /\ assignment' = <<>> /\ meta' = <<>> /\ outstanding' = <<>>
    /\ at' = "rest"
    /\ UNCHANGED pass1

\* Mutated: the loop looks at the row count that its own SET has made 1.
PruneForEver ==
    /\ At("prune")
    /\ LET large == {i \in Ids(assignment) : Cardinality(NodesOf(assignment, i)) > MaxNodeCount}
           In(i) == {e \in DOMAIN assignment : assignment[e].id = i}
           weakest(i) == {e \in In(i) : \A d \in In(i) : assignment[e].p <= assignment[d].p}
       IN  \E cut \in SUBSET UNION {weakest(i) : i \in large} :
                 /\ \A i \in large : Cardinality(cut \cap In(i)) = 1
                 /\ assignment' = Propagate([e \in DOMAIN assignment \ cut |-> assignment[e]])
    /\ UNCHANGED <<at, pass1, pass2, meta, outstanding, output>>

\* Step2 194-278: of each cluster that is too large a weakest edge goes, and labels
\* are propagated again.  A label is never raised: the parts of a cluster that
\* falls apart keep one.
Prune ==
    /\ At("prune")
    /\ LET large == {i \in Ids(assignment) : Cardinality(NodesOf(assignment, i)) > MaxNodeCount}
           In(i) == {e \in DOMAIN assignment : assignment[e].id = i}
           weakest(i) == {e \in In(i) : \A d \in In(i) : assignment[e].p <= assignment[d].p}
       IN  /\ \E cut \in SUBSET UNION {weakest(i) : i \in large} :
                 /\ \A i \in large : Cardinality(cut \cap In(i)) = 1
                 /\ assignment' = Propagate([e \in DOMAIN assignment \ cut |-> assignment[e]])
           /\ at' = IF large = {} THEN "complete" ELSE "prune"
    /\ UNCHANGED <<pass1, pass2, meta, outstanding, output>>

\* Mutated: the largest graphs are taken for complete.
CompleteEdgesBelow ==
    /\ At("complete")
    /\ meta' = [i \in Ids(assignment) |-> NodesOf(assignment, i)]
    /\ LET graphs == {i \in Ids(assignment) : Cardinality(NodesOf(assignment, i)) \in 3 .. MaxNodeCount - 1}
           missing == {e \in Edge \ DOMAIN assignment :
                          \E i \in graphs : Ends(e) \subseteq NodesOf(assignment, i)}
       IN  outstanding' = [e \in missing |->
                              CHOOSE i \in graphs : Ends(e) \subseteq NodesOf(assignment, i)]
    /\ pass2' = <<>>
    /\ at' = "compare2"
    /\ UNCHANGED <<pass1, assignment, output>>

\* Step2 280-378.  reference.Edges knows graphs of 3 nodes and more.
CompleteEdges ==
    /\ At("complete")
    /\ meta' = [i \in Ids(assignment) |-> NodesOf(assignment, i)]
    /\ LET graphs == {i \in Ids(assignment) : Cardinality(NodesOf(assignment, i)) \in 3 .. MaxNodeCount}
           missing == {e \in Edge \ DOMAIN assignment :
                          \E i \in graphs : Ends(e) \subseteq NodesOf(assignment, i)}
       IN  outstanding' = [e \in missing |->
                              CHOOSE i \in graphs : Ends(e) \subseteq NodesOf(assignment, i)]
    /\ pass2' = <<>>
    /\ at' = "compare2"
    /\ UNCHANGED <<pass1, assignment, output>>

-----------------------------------------------------------------------------
(* Phase2 *)

\* Mutated: an edge nobody scored is added with no probability.
GetPass2EdgesOuter ==
    /\ At("phase2")
    /\ assignment' = Beside(assignment,
          [e \in DOMAIN outstanding |->
              [p |-> IF e \in DOMAIN pass2 THEN pass2[e] ELSE 0, id |-> outstanding[e]]])
    /\ pass1' = <<>> /\ pass2' = <<>>
    /\ at' = "resolve"
    /\ UNCHANGED <<meta, outstanding, output>>

\* Step3
GetPass2Edges ==
    /\ At("phase2")
    /\ assignment' = Beside(assignment,
          [e \in DOMAIN outstanding \cap DOMAIN pass2 |->
              [p |-> pass2[e], id |-> outstanding[e]]])
    /\ pass1' = <<>> /\ pass2' = <<>>
    /\ at' = "resolve"
    /\ UNCHANGED <<meta, outstanding, output>>

\* The clusters that Step4 looks at.
Graphs == {i \in DOMAIN meta : Cardinality(meta[i]) \in 3 .. MaxNodeCount}

\* The edges that a reference set keeps, once its numbers stand for the nodes in order.
Renamed(set, N) ==
    LET number(n) == Cardinality({m \in N : m <= n})
    IN  {e \in Edge : Ends(e) \subseteq N /\ <<number(e[1]), number(e[2])>> \in set}

\* The probability of keeping the edges of kept and no other.
Weight(E, kept) ==
    MapThenFoldSet(LAMBDA x, y : x * y, 1,
                   LAMBDA e : IF e \in kept THEN assignment[e].p ELSE Certain - assignment[e].p,
                   LAMBDA S : CHOOSE e \in S : TRUE, E)

\* The most probable sets of subgraphs of cluster i.
MostProbable(i) ==
    LET E == {e \in DOMAIN assignment : assignment[e].id = i}
        sets == {Renamed(set, meta[i]) \cap E : set \in SubGraphSet[Cardinality(meta[i])]}
        weight == [kept \in sets |-> Weight(E, kept)]
    IN  {kept \in sets : \A other \in sets : weight[other] <= weight[kept]}

\* Mutated: new clusters are numbered from 1.
ResolvedFromOne(kept) ==
    LET parts == Propagate([e \in kept |-> [p |-> assignment[e].p, id |-> RowNumber(e, kept)]])
        rank(i) == Cardinality({j \in Ids(parts) : j <= i})
    IN  [e \in kept |-> [p |-> parts[e].p, id |-> rank(parts[e].id)]]

\* Step4: keep the edges of a most probable set of each cluster, label what
\* they connect, and add it to the output under ids past those it has.
Resolved(kept) ==
    LET parts == Propagate([e \in kept |-> [p |-> assignment[e].p, id |-> RowNumber(e, kept)]])
        rank(i) == Cardinality({j \in Ids(parts) : j <= i})
    IN  [e \in kept |-> [p |-> parts[e].p, id |-> Max(Ids(output)) + rank(parts[e].id)]]

KeptSets ==
    LET best == [i \in Graphs |-> MostProbable(i)]
    IN  {UNION {choice[i] : i \in Graphs} :
            choice \in {f \in [Graphs -> UNION {best[i] : i \in Graphs}] :
                           \A i \in Graphs : f[i] \in best[i]}}

\* Some graph has an edge with probability 1: LOG(1 - 1) fails, and with it the
\* INSERT of the sets of all graphs.
NoLogarithm ==
    \E e \in DOMAIN assignment : assignment[e].p = Certain /\ assignment[e].id \in Graphs

\* MAX over an empty output is NULL, and so is every new id: the INSERT fails.  After
\* either failure the rest of Phase2 is done without the clusters in question, and
\* its caller gets the error.
Resolve ==
    /\ At("resolve")
    /\ \E kept \in IF NoLogarithm THEN {{}} ELSE KeptSets :
          output' = IF kept = {} \/ DOMAIN output = {} THEN output ELSE Beside(output, Resolved(kept))
    /\ assignment' = <<>> /\ meta' = <<>> /\ outstanding' = <<>>
    /\ at' = "nodes"
    /\ UNCHANGED <<pass1, pass2>>
=============================================================================
