------------------------------ MODULE GraphProofs ------------------------------
(***************************************************************************)
(* Lemmas about the operators of ClusterGraph: the connected parts of a    *)
(* graph, what the propagation of labels arrives at, row numbers.  They    *)
(* say nothing about states; RoundProofs does.                             *)
(***************************************************************************)
EXTENDS ClusterGraph, FiniteSetTheorems, TLAPS

-----------------------------------------------------------------------------
(* Finite sets of numbers *)

\* A finite set of numbers has a greatest element.
LEMMA GreatestExists ==
    ASSUME NEW S \in SUBSET Nat, IsFiniteSet(S), S # {}
    PROVE  \E m \in S : \A i \in S : i <= m
<1> DEFINE HasGreatest(T) == \E m \in T : \A i \in T : i <= m
           Bad == {T \in FiniteSubsetsOf(S) : T # {} /\ ~HasGreatest(T)}
<1> SUFFICES ASSUME S \in Bad PROVE FALSE
  BY DEF FiniteSubsetsOf
<1>1. IsWellFoundedOn(StrictSubsetOrdering(S), FiniteSubsetsOf(S))
  BY FS_StrictSubsetOrderingWellFounded
<1>2. PICK T \in Bad : \A U \in Bad : <<U, T>> \notin StrictSubsetOrdering(S)
  <2> HIDE DEF HasGreatest
  <2>1. Bad # {} /\ Bad \subseteq FiniteSubsetsOf(S) OBVIOUS
  <2> HIDE DEF Bad
  <2> QED BY <1>1, <2>1, WFMin
<1>3. T \subseteq S /\ IsFiniteSet(T) /\ T # {} /\ ~HasGreatest(T)
  BY DEF FiniteSubsetsOf
<1>4. PICK x \in T : TRUE BY <1>3
<1> DEFINE U == T \ {x}
<1>5. IsFiniteSet(U) /\ U \in FiniteSubsetsOf(S)
  BY <1>3, FS_RemoveElement DEF FiniteSubsetsOf
<1>6. <<U, T>> \in StrictSubsetOrdering(S)
  BY <1>3, <1>4 DEF StrictSubsetOrdering
<1>7. U = {} \/ HasGreatest(U) BY <1>2, <1>5, <1>6
<1>8. U # {} BY <1>3, <1>4, <1>7
<1>9. PICK m \in U : \A i \in U : i <= m BY <1>7, <1>8
<1>10. x \in Nat /\ m \in Nat BY <1>3, <1>4, <1>9
<1>11. \A i \in T : i <= IF x <= m THEN m ELSE x
  BY <1>3, <1>9, <1>10
<1> QED BY <1>3, <1>4, <1>9, <1>10, <1>11

\* What Max computes.
LEMMA MaxIs ==
    ASSUME NEW S \in SUBSET Nat, IsFiniteSet(S), S # {}
    PROVE  Max(S) \in S /\ \A i \in S : i <= Max(S)
<1>1. PICK m \in S : \A i \in S : i <= m BY GreatestExists
<1>2. \A i \in S : m >= i BY <1>1
<1>3. Max(S) \in S /\ \A i \in S : Max(S) >= i BY <1>1, <1>2, Zenon DEF Max
<1> QED BY <1>3

\* What Min computes.
LEMMA MinIs ==
    ASSUME NEW S \in SUBSET Nat, S # {}
    PROVE  Min(S) \in S /\ \A i \in S : Min(S) <= i
<1>1. PICK x \in S : TRUE OBVIOUS
<1> DEFINE T == {n \in 0 .. x : x - n \in S}
<1>2. IsFiniteSet(T)
  <2>1. IsFiniteSet(0 .. x) BY <1>1, FS_Interval
  <2> QED BY <2>1, FS_Subset, T \in SUBSET (0 .. x)
<1>3. T \in SUBSET Nat /\ T # {}
  <2>1. x \in Nat /\ x - 0 = x BY <1>1
  <2>2. 0 \in T BY <1>1, <2>1
  <2>3. \A n \in T : n \in Nat BY <2>1
  <2> QED BY <2>2, <2>3
<1>4. PICK m \in T : \A i \in T : i <= m BY <1>2, <1>3, GreatestExists
<1>5. x - m \in S /\ x \in Nat /\ m \in 0 .. x BY <1>1, <1>4
<1>6. ASSUME NEW i \in S PROVE x - m <= i
  <2>1. i \in Nat OBVIOUS
  <2>2. CASE i > x BY <1>5, <2>1, <2>2
  <2>3. CASE i <= x
    <3>1. x - i \in 0 .. x /\ x - (x - i) = i BY <1>5, <2>1, <2>3
    <3>2. x - i <= m BY <1>4, <3>1
    <3> QED BY <1>5, <2>1, <3>1, <3>2
  <2> QED BY <1>5, <2>1, <2>2, <2>3
<1>7. Min(S) \in S /\ \A i \in S : Min(S) <= i BY <1>5, <1>6, Zenon DEF Min
<1> QED BY <1>7

-----------------------------------------------------------------------------
(* Edges *)

LEMMA EdgesFinite == IsFiniteSet(Edge)
<1>1. IsFiniteSet(Node \X Node) BY FS_Product, NodeAssumption
<1>2. Edge \in SUBSET (Node \X Node) BY DEF Edge
<1> QED BY <1>1, <1>2, FS_Subset

LEMMA EdgeIs ==
    ASSUME NEW e \in Edge
    PROVE  /\ e[1] \in Node /\ e[2] \in Node /\ e[1] \in Nat /\ e[2] \in Nat
           /\ e[1] < e[2] /\ e = <<e[1], e[2]>> /\ Ends(e) = {e[1], e[2]}
<1>1. e \in Node \X Node /\ e[1] < e[2] BY DEF Edge
<1>2. e[1] \in Node /\ e[2] \in Node /\ e = <<e[1], e[2]>> BY <1>1
<1>3. Node \subseteq Nat BY NodeAssumption
<1> QED BY <1>1, <1>2, <1>3 DEF Ends

\* Row numbers are numbers, and different edges have different ones.
LEMMA RowNumberIs ==
    ASSUME NEW E \in SUBSET Edge
    PROVE  /\ \A e : RowNumber(e, E) \in Nat
           /\ \A d, e \in E : RowNumber(d, E) = RowNumber(e, E) => d = e
<1> DEFINE Before(d, e) == d[1] < e[1] \/ (d[1] = e[1] /\ d[2] <= e[2])
           Upto(e) == {d \in E : Before(d, e)}
<1>1. IsFiniteSet(E) BY EdgesFinite, FS_Subset
<1>2. \A e : IsFiniteSet(Upto(e)) /\ Cardinality(Upto(e)) \in Nat
  BY <1>1, FS_Subset, FS_CardinalityType, \A e : Upto(e) \in SUBSET E
<1>3. \A e : RowNumber(e, E) = Cardinality(Upto(e)) BY DEF RowNumber
<1>4. ASSUME NEW d \in E, NEW e \in E, Before(d, e), Cardinality(Upto(d)) = Cardinality(Upto(e))
      PROVE  d = e
  <2>1. ASSUME NEW c \in E, Before(c, d) PROVE Before(c, e)
    <3>1. /\ c[1] \in Nat /\ c[2] \in Nat /\ d[1] \in Nat /\ d[2] \in Nat
          /\ e[1] \in Nat /\ e[2] \in Nat
      BY EdgeIs
    <3> QED BY <1>4, <2>1, <3>1
  <2>2. Upto(d) \in SUBSET Upto(e) BY <2>1
  <2>3. Upto(d) = Upto(e)
    <3> HIDE DEF Upto
    <3> QED BY <1>2, <1>4, <2>2, FS_Subset
  <2>4. Before(e, e) BY EdgeIs
  <2>5. Before(e, d) BY <2>3, <2>4
  <2>6. d[1] = e[1] /\ d[2] = e[2] BY <1>4, <2>5, EdgeIs
  <2> QED BY <2>6, EdgeIs
<1>5. \A d, e \in E : Before(d, e) \/ Before(e, d)
  <2> SUFFICES ASSUME NEW d \in E, NEW e \in E PROVE Before(d, e) \/ Before(e, d)
    OBVIOUS
  <2>1. d[1] \in Nat /\ d[2] \in Nat /\ e[1] \in Nat /\ e[2] \in Nat BY EdgeIs
  <2> QED BY <2>1
<1> HIDE DEF Before, Upto
<1> QED BY <1>2, <1>3, <1>4, <1>5

-----------------------------------------------------------------------------
(* The connected parts of a graph *)

Vertices(E) == UNION {Ends(e) : e \in E}

LEMMA ClosedIs ==
    ASSUME NEW E \in SUBSET Edge, NEW N
    PROVE  N \in Closed(E) <=> /\ N \subseteq Vertices(E) /\ N # {}
                               /\ \A e \in E : e[1] \in N <=> e[2] \in N
BY DEF Closed, Vertices

LEMMA PartIs ==
    ASSUME NEW E, NEW N
    PROVE  N \in Parts(E) <=> /\ N \in Closed(E)
                              /\ \A M \in Closed(E) : M \subseteq N => M = N
BY DEF Parts

\* Every node is in a part.
LEMMA PartExists ==
    ASSUME NEW E \in SUBSET Edge, NEW v \in Vertices(E)
    PROVE  \E N \in Parts(E) : v \in N
<1> DEFINE N == {u \in Vertices(E) : \A M \in Closed(E) : v \in M => u \in M}
<1>1. v \in N OBVIOUS
<1>2. ASSUME NEW e \in E PROVE e[1] \in N <=> e[2] \in N
  <2>1. e[1] \in Vertices(E) /\ e[2] \in Vertices(E) BY DEF Vertices, Ends
  <2>2. \A M \in Closed(E) : e[1] \in M <=> e[2] \in M BY ClosedIs
  <2> QED BY <2>1, <2>2
<1>3. N \in Closed(E) BY <1>1, <1>2, ClosedIs
<1>4. ASSUME NEW M \in Closed(E), M \subseteq N PROVE M = N
  <2>1. CASE v \in M BY <1>4, <2>1
  <2>2. CASE v \notin M
    <3>1. M # {} /\ \A e \in E : e[1] \in M <=> e[2] \in M BY ClosedIs
    <3>2. N \ M \in Closed(E) BY <1>1, <1>2, <2>2, <3>1, ClosedIs
    <3>3. N \subseteq N \ M BY <1>1, <2>2, <3>2
    <3> QED BY <1>4, <3>1, <3>3
  <2> QED BY <2>1, <2>2
<1>5. N \in Parts(E)
  <2> HIDE DEF N
  <2> QED BY <1>3, <1>4, PartIs
<1> QED BY <1>1, <1>5

\* Parts of a graph lie within what is closed in it, also if it has more edges.
LEMMA PartWithin ==
    ASSUME NEW F \in SUBSET Edge, NEW E \in SUBSET F, NEW N \in Parts(E), NEW M \in Closed(F),
           N \cap M # {}
    PROVE  N \subseteq M
<1>1. N \in Closed(E) /\ \A K \in Closed(E) : K \subseteq N => K = N BY PartIs
<1>2. E \in SUBSET Edge OBVIOUS
<1>3. /\ N \subseteq Vertices(E) /\ \A e \in E : e[1] \in N <=> e[2] \in N
      /\ \A e \in F : e[1] \in M <=> e[2] \in M
  BY <1>1, <1>2, ClosedIs
<1>4. N \cap M \in Closed(E) BY <1>2, <1>3, ClosedIs
<1>5. N \cap M = N BY <1>1, <1>4
<1> QED BY <1>5

LEMMA PartsDisjoint ==
    ASSUME NEW E \in SUBSET Edge, NEW M \in Parts(E), NEW N \in Parts(E), M \cap N # {}
    PROVE  M = N
<1>1. M \in Closed(E) /\ N \in Closed(E) BY PartIs
<1>2. N \cap M # {} OBVIOUS
<1>3. M \subseteq N BY <1>1, PartWithin, E \in SUBSET E
<1>4. N \subseteq M BY <1>1, <1>2, PartWithin, E \in SUBSET E
<1> QED BY <1>3, <1>4

LEMMA ComponentIs ==
    ASSUME NEW E, NEW S
    PROVE  S \in Components(E) <=> \E N \in Parts(E) : S = {e \in E : e[1] \in N}
BY DEF Components

\* Two edges are connected if they are in one component.
Connected(E, d, e) == \E S \in Components(E) : d \in S /\ e \in S

LEMMA ConnectedIs ==
    ASSUME NEW E \in SUBSET Edge, NEW d, NEW e
    PROVE  Connected(E, d, e) <=>
              d \in E /\ e \in E /\ \E N \in Parts(E) : d[1] \in N /\ e[1] \in N
<1>1. ASSUME Connected(E, d, e)
      PROVE  d \in E /\ e \in E /\ \E N \in Parts(E) : d[1] \in N /\ e[1] \in N
  <2>1. PICK S \in Components(E) : d \in S /\ e \in S BY <1>1 DEF Connected
  <2> QED BY <2>1, ComponentIs
<1>2. ASSUME d \in E, e \in E, NEW N \in Parts(E), d[1] \in N, e[1] \in N
      PROVE  Connected(E, d, e)
  <2> DEFINE S == {c \in E : c[1] \in N}
  <2>1. S \in Components(E) BY ComponentIs
  <2> QED BY <1>2, <2>1 DEF Connected
<1> QED BY <1>1, <1>2

\* Every edge is in one component and no other.
LEMMA ComponentOf ==
    ASSUME NEW E \in SUBSET Edge, NEW e \in E
    PROVE  /\ \E S \in Components(E) : e \in S
           /\ \A R, T \in Components(E) : e \in R /\ e \in T => R = T
           /\ Connected(E, e, e)
<1>1. e[1] \in Vertices(E) BY DEF Vertices, Ends
<1>2. PICK N \in Parts(E) : e[1] \in N BY <1>1, PartExists
<1> DEFINE S == {d \in E : d[1] \in N}
<1>3. S \in Components(E) /\ e \in S BY <1>2, ComponentIs
<1>4. ASSUME NEW R \in Components(E), NEW T \in Components(E), e \in R, e \in T PROVE R = T
  <2>1. PICK K \in Parts(E) : R = {d \in E : d[1] \in K} BY ComponentIs
  <2>2. PICK M \in Parts(E) : T = {d \in E : d[1] \in M} BY ComponentIs
  <2>3. K = M BY <1>4, <2>1, <2>2, PartsDisjoint
  <2> QED BY <2>1, <2>2, <2>3
<1> QED BY <1>3, <1>4 DEF Connected

\* Edges that share a node are connected.
LEMMA TouchingConnected ==
    ASSUME NEW E \in SUBSET Edge, NEW d \in E, NEW e \in E, Touches(d, e)
    PROVE  Connected(E, d, e)
<1>1. d[1] \in Vertices(E) BY DEF Vertices, Ends
<1>2. PICK N \in Parts(E) : d[1] \in N BY <1>1, PartExists
<1>3. \A c \in E : c[1] \in N <=> c[2] \in N BY PartIs, ClosedIs
<1>4. e[1] \in N BY <1>2, <1>3 DEF Touches, Ends
<1> QED BY <1>2, <1>4, ConnectedIs

LEMMA ConnectedTransitive ==
    ASSUME NEW E \in SUBSET Edge, NEW c, NEW d, NEW e, Connected(E, c, d), Connected(E, d, e)
    PROVE  Connected(E, c, e) /\ Connected(E, d, c)
<1>1. PICK M \in Parts(E) : c[1] \in M /\ d[1] \in M BY ConnectedIs
<1>2. PICK N \in Parts(E) : d[1] \in N /\ e[1] \in N BY ConnectedIs
<1>3. M = N BY <1>1, <1>2, PartsDisjoint
<1> QED BY <1>1, <1>2, <1>3, ConnectedIs

\* What is connected stays connected in a larger graph.
LEMMA ConnectedGrows ==
    ASSUME NEW F \in SUBSET Edge, NEW E \in SUBSET F, NEW d, NEW e, Connected(E, d, e)
    PROVE  Connected(F, d, e)
<1>0. E \in SUBSET Edge OBVIOUS
<1>1. PICK N \in Parts(E) : d \in E /\ e \in E /\ d[1] \in N /\ e[1] \in N
  BY <1>0, ConnectedIs
<1>2. d[1] \in Vertices(F) BY <1>1 DEF Vertices, Ends
<1>3. PICK M \in Parts(F) : d[1] \in M BY <1>2, PartExists
<1>4. N \subseteq M
  <2>1. M \in Closed(F) BY <1>3, PartIs
  <2> QED BY <1>1, <1>3, <2>1, PartWithin
<1> QED BY <1>1, <1>3, <1>4, ConnectedIs

\* What touching edges agree on, connected ones agree on: there is no way round.
AgreesOn(f, E) == \A a, b \in E : Touches(a, b) => f[a] = f[b]

LEMMA AgreeAlong ==
    ASSUME NEW E \in SUBSET Edge, NEW d, NEW e, Connected(E, d, e), NEW f, AgreesOn(f, E)
    PROVE  f[d] = f[e]
<1>1. PICK N \in Parts(E) : d \in E /\ e \in E /\ d[1] \in N /\ e[1] \in N
  BY ConnectedIs
<1> DEFINE M == {u \in N : \A c \in E : u \in Ends(c) => f[c] = f[d]}
<1>2. /\ N \subseteq Vertices(E) /\ \A c \in E : c[1] \in N <=> c[2] \in N
      /\ \A K \in Closed(E) : K \subseteq N => K = N
  BY PartIs, ClosedIs
<1>3. d[1] \in M
  <2>1. ASSUME NEW c \in E, d[1] \in Ends(c) PROVE f[c] = f[d]
    <3>1. Touches(c, d) BY <2>1 DEF Touches, Ends
    <3> QED BY <1>1, <3>1 DEF AgreesOn
  <2> QED BY <1>1, <2>1
<1>4. ASSUME NEW c \in E, NEW u \in Ends(c), NEW v \in Ends(c), u \in M PROVE v \in M
  <2>1. v \in N BY <1>2, <1>4 DEF Ends
  <2>2. f[c] = f[d] BY <1>4
  <2>3. ASSUME NEW b \in E, v \in Ends(b) PROVE f[b] = f[d]
    <3>1. Touches(b, c) BY <2>3 DEF Touches
    <3> QED BY <2>2, <3>1 DEF AgreesOn
  <2> QED BY <2>1, <2>3
<1>5. \A c \in E : c[1] \in M <=> c[2] \in M
  <2> HIDE DEF M
  <2> QED BY <1>4 DEF Ends
<1>6. M \in Closed(E) BY <1>2, <1>3, <1>5, ClosedIs
<1>7. e[1] \in M BY <1>1, <1>2, <1>6
<1> QED BY <1>1, <1>7 DEF Ends

\* The edges of a component are those connected to any of them.
LEMMA ComponentEdges ==
    ASSUME NEW E \in SUBSET Edge, NEW S \in Components(E), NEW d \in S
    PROVE  d \in E /\ S = {e \in E : Connected(E, d, e)}
<1>1. PICK N \in Parts(E) : S = {e \in E : e[1] \in N} BY ComponentIs
<1>2. d \in E /\ d[1] \in N BY <1>1
<1>3. ASSUME NEW e \in E, Connected(E, d, e) PROVE e \in S
  <2>1. PICK M \in Parts(E) : d[1] \in M /\ e[1] \in M BY <1>3, ConnectedIs
  <2>2. M = N BY <1>2, <2>1, PartsDisjoint
  <2> QED BY <1>1, <2>1, <2>2
<1>4. ASSUME NEW e \in S PROVE e \in E /\ Connected(E, d, e) BY <1>1 DEF Connected
<1> QED BY <1>2, <1>3, <1>4

-----------------------------------------------------------------------------
(* Labels *)

\* The labels of T tell its components apart, and nothing else.
Labelled(T) == \A d, e \in DOMAIN T : T[d].id = T[e].id <=> Connected(DOMAIN T, d, e)

\* Then the sets of edges with one label are the components.
LEMMA LabelledIs ==
    ASSUME NEW T, DOMAIN T \in SUBSET Edge, Labelled(T)
    PROVE  Components(DOMAIN T) = {{e \in DOMAIN T : T[e].id = i} : i \in Ids(T)}
<1> DEFINE D == DOMAIN T
           Class(i) == {e \in D : T[e].id = i}
<1>1. \A d \in D : Class(T[d].id) = {e \in D : Connected(D, d, e)} BY DEF Labelled
<1>2. ASSUME NEW S \in Components(D) PROVE \E i \in Ids(T) : S = Class(i)
  <2>1. PICK N \in Parts(D) : S = {e \in D : e[1] \in N} BY ComponentIs
  <2>2. N # {} /\ N \subseteq Vertices(D) /\ \A e \in D : e[1] \in N <=> e[2] \in N
    BY <2>1, PartIs, ClosedIs
  <2>3. PICK v \in N : \E e \in D : v \in Ends(e) BY <2>2 DEF Vertices
  <2>4. PICK d \in D : v \in Ends(d) BY <2>3
  <2>5. d \in S BY <2>1, <2>2, <2>3, <2>4 DEF Ends
  <2>6. S = Class(T[d].id) BY <1>1, <2>5, ComponentEdges
  <2> QED BY <2>4, <2>6 DEF Ids
<1>3. ASSUME NEW i \in Ids(T) PROVE Class(i) \in Components(D)
  <2>1. PICK d \in D : T[d].id = i BY DEF Ids
  <2>2. PICK S \in Components(D) : d \in S BY ComponentOf
  <2>3. S = Class(i) BY <1>1, <2>1, <2>2, ComponentEdges
  <2> QED BY <2>2, <2>3
<1> HIDE DEF Class
<1>4. Components(D) = {Class(i) : i \in Ids(T)} BY <1>2, <1>3
<1> QED BY <1>4 DEF Class

\* What the propagation arrives at: every edge keeps its probability and gets the
\* label of an edge that it is connected to, the same one for all of these.
LEMMA PropagateIs ==
    ASSUME NEW T, DOMAIN T \in SUBSET Edge, \A e \in DOMAIN T : T[e].id \in Nat
    PROVE  /\ DOMAIN Propagate(T) = DOMAIN T
           /\ \A e \in DOMAIN T :
                 /\ Propagate(T)[e] = [p |-> T[e].p, id |-> Propagate(T)[e].id]
                 /\ Propagate(T)[e].p = T[e].p
                 /\ \E d \in DOMAIN T : Connected(DOMAIN T, d, e) /\ Propagate(T)[e].id = T[d].id
           /\ \A d, e \in DOMAIN T : Connected(DOMAIN T, d, e) => Propagate(T)[d].id = Propagate(T)[e].id
<1> DEFINE D == DOMAIN T
           parts == Components(D)
           label == [S \in parts |-> Min({T[d].id : d \in S})]
           own(e) == CHOOSE S \in parts : e \in S
<1>1. Propagate(T) = [e \in D |-> [p |-> T[e].p, id |-> label[own(e)]]] BY DEF Propagate
<1>2. \A e \in D : own(e) \in parts /\ e \in own(e) BY ComponentOf
<1>3. \A d, e \in D : Connected(D, d, e) => own(d) = own(e)
  <2> SUFFICES ASSUME NEW d \in D, NEW e \in D, Connected(D, d, e) PROVE own(d) = own(e)
    OBVIOUS
  <2>1. PICK S \in parts : d \in S /\ e \in S BY DEF Connected
  <2>2. own(d) = S /\ own(e) = S BY <1>2, <2>1, ComponentOf
  <2> QED BY <2>2
<1>4. ASSUME NEW e \in D PROVE \E d \in D : Connected(D, d, e) /\ label[own(e)] = T[d].id
  <2> DEFINE S == own(e)
             I == {T[d].id : d \in S}
  <2>1. S \in parts /\ e \in S BY <1>2
  <2>2. \A d \in S : d \in D /\ Connected(D, e, d) BY <2>1, ComponentEdges
  <2> HIDE DEF S
  <2>3. I \in SUBSET Nat /\ I # {} BY <2>1, <2>2
  <2>4. Min(I) \in I
    <3> HIDE DEF I
    <3> QED BY <2>3, MinIs
  <2>5. PICK d \in S : Min(I) = T[d].id BY <2>4
  <2>6. label[S] = Min(I) BY <2>1
  <2>7. Connected(D, e, d) BY <2>2
  <2>8. Connected(D, d, e) BY <2>7 DEF Connected
  <2> QED BY <2>2, <2>5, <2>6, <2>8 DEF S
<1> HIDE DEF label, own
<1> QED BY <1>1, <1>3, <1>4

\* If every edge had a label of its own before, labels now tell components apart.
LEMMA PropagateLabels ==
    ASSUME NEW T, DOMAIN T \in SUBSET Edge, \A e \in DOMAIN T : T[e].id \in Nat,
           \A d, e \in DOMAIN T : T[d].id = T[e].id => d = e
    PROVE  Labelled(Propagate(T))
<1> DEFINE D == DOMAIN T
           P == Propagate(T)
<1>1. /\ DOMAIN P = D
      /\ \A e \in D : \E d \in D : Connected(D, d, e) /\ P[e].id = T[d].id
      /\ \A d, e \in D : Connected(D, d, e) => P[d].id = P[e].id
  BY PropagateIs
<1> HIDE DEF P
<1>2. ASSUME NEW d \in D, NEW e \in D, P[d].id = P[e].id PROVE Connected(D, d, e)
  <2>1. PICK a \in D : Connected(D, a, d) /\ P[d].id = T[a].id BY <1>1
  <2>2. PICK b \in D : Connected(D, b, e) /\ P[e].id = T[b].id BY <1>1
  <2>3. a = b BY <1>2, <2>1, <2>2
  <2>4. Connected(D, d, a) BY <2>1 DEF Connected
  <2>5. Connected(D, a, e) BY <2>2, <2>3
  <2> QED BY <2>4, <2>5, ConnectedTransitive
<1>3. Labelled(P) BY <1>1, <1>2 DEF Labelled
<1> QED BY <1>3 DEF P

\* Edges that touch no other one are components of their own.
LEMMA LoneLabelled ==
    ASSUME NEW T, DOMAIN T \in SUBSET Edge,
           \A d, e \in DOMAIN T : T[d].id = T[e].id => d = e,
           \A d, e \in DOMAIN T : Touches(d, e) => d = e
    PROVE  Labelled(T)
<1> DEFINE D == DOMAIN T
           same == [e \in D |-> e]
<1>1. ASSUME NEW d \in D, NEW e \in D, Connected(D, d, e) PROVE d = e
  <2>1. AgreesOn(same, D) BY DEF AgreesOn
  <2>2. D \in SUBSET Edge OBVIOUS
  <2>3. same[d] = same[e]
    <3> HIDE DEF same, D
    <3> QED BY <1>1, <2>1, <2>2, AgreeAlong
  <2> QED BY <2>3
<1>2. \A e \in D : Connected(D, e, e) BY ComponentOf
<1> QED BY <1>1, <1>2 DEF Labelled

\* Renaming the labels one to one changes nothing.
LEMMA RelabelledLabelled ==
    ASSUME NEW T, NEW U, DOMAIN U = DOMAIN T, Labelled(T),
           \A d, e \in DOMAIN T : U[d].id = U[e].id <=> T[d].id = T[e].id
    PROVE  Labelled(U)
BY DEF Labelled

\* Two tables that share neither a node nor a label stay labelled side by side.
LEMMA BesideLabelled ==
    ASSUME NEW T, NEW U, DOMAIN T \in SUBSET Edge, DOMAIN U \in SUBSET Edge,
           Labelled(T), Labelled(U), AllNodes(T) \cap AllNodes(U) = {}, Ids(T) \cap Ids(U) = {}
    PROVE  Labelled(Beside(T, U))
<1> DEFINE B == Beside(T, U)
           D == DOMAIN T \cup DOMAIN U
           id == [e \in D |-> B[e].id]
<1>1. \A d \in DOMAIN T, e \in DOMAIN U : ~Touches(d, e) /\ ~Touches(e, d) /\ d # e
  BY DEF AllNodes, Touches, Ends
<1>2. /\ DOMAIN B = D
      /\ \A e \in DOMAIN T : id[e] = T[e].id
      /\ \A e \in DOMAIN U : id[e] = U[e].id
  BY <1>1 DEF Beside
<1> HIDE DEF id
<1>3. ASSUME NEW a \in D, NEW b \in D, Touches(a, b) PROVE id[a] = id[b]
  <2>1. CASE a \in DOMAIN T /\ b \in DOMAIN T
    BY <1>2, <1>3, <2>1, TouchingConnected DEF Labelled
  <2>2. CASE a \in DOMAIN U /\ b \in DOMAIN U
    BY <1>2, <1>3, <2>2, TouchingConnected DEF Labelled
  <2> QED BY <1>1, <1>3, <2>1, <2>2
<1>4. D \in SUBSET Edge /\ DOMAIN T \in SUBSET D /\ DOMAIN U \in SUBSET D OBVIOUS
<1>5. ASSUME NEW d \in D, NEW e \in D, id[d] = id[e] PROVE Connected(D, d, e)
  <2>1. CASE d \in DOMAIN T /\ e \in DOMAIN T
    <3>1. Connected(DOMAIN T, d, e) BY <1>2, <1>5, <2>1 DEF Labelled
    <3> QED BY <1>4, <3>1, ConnectedGrows
  <2>2. CASE d \in DOMAIN U /\ e \in DOMAIN U
    <3>1. Connected(DOMAIN U, d, e) BY <1>2, <1>5, <2>2 DEF Labelled
    <3> QED BY <1>4, <3>1, ConnectedGrows
  <2>3. \A a \in DOMAIN T, b \in DOMAIN U : id[a] # id[b] BY <1>2 DEF Ids
  <2> QED BY <1>5, <2>1, <2>2, <2>3
<1>6. ASSUME NEW d \in D, NEW e \in D, Connected(D, d, e) PROVE id[d] = id[e]
  <2> HIDE DEF D
  <2>1. AgreesOn(id, D) BY <1>3 DEF AgreesOn
  <2> QED BY <1>4, <1>6, <2>1, AgreeAlong
<1>7. \A e \in D : id[e] = B[e].id BY DEF id
<1> HIDE DEF B
<1>8. Labelled(B) BY <1>2, <1>5, <1>6, <1>7 DEF Labelled
<1> QED BY <1>8 DEF B

\* A node is in one temporary cluster only.
LEMMA OneHome ==
    ASSUME NEW T, DOMAIN T \in SUBSET Edge, Labelled(T), NEW i, NEW j, NEW n,
           n \in NodesOf(T, i), n \in NodesOf(T, j)
    PROVE  i = j
<1>1. PICK d \in DOMAIN T : T[d].id = i /\ n \in Ends(d) BY DEF NodesOf
<1>2. PICK e \in DOMAIN T : T[e].id = j /\ n \in Ends(e) BY DEF NodesOf
<1>3. Connected(DOMAIN T, d, e) BY <1>1, <1>2, TouchingConnected DEF Touches
<1> QED BY <1>1, <1>2, <1>3 DEF Labelled
=============================================================================
