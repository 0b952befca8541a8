----------------------------- MODULE SubGraphSets ------------------------------
(***************************************************************************)
(* reference.SubGraphSets: for a graph of n nodes, the ways to cut it up   *)
(* that Step4 chooses from, each as the set of the edges it keeps.         *)
(***************************************************************************)
EXTENDS Naturals

PairsOf(n) == {e \in (1 .. n) \X (1 .. n) : e[1] < e[2]}

\* A partition of 1 .. n maps each node to the first of its part.
Partitions(n) ==
    {f \in [1 .. n -> 1 .. n] : \A k \in 1 .. n : f[k] <= k /\ f[f[k]] = f[k]}

\* Cut into parts, all of them complete.
CompleteCuts(n) == {{e \in PairsOf(n) : f[e[1]] = f[e[2]]} : f \in Partitions(n)}

\* The table as it is filled: for 5 nodes there are 48 sets, two of them the same;
\* set 9 is not a partition, and these are absent.
Absent5 ==
    {{<<1,3>>, <<2,4>>, <<2,5>>, <<4,5>>}, {<<1,4>>, <<1,5>>, <<2,3>>, <<4,5>>},
     {<<1,4>>, <<2,3>>, <<2,5>>, <<3,5>>}, {<<2,3>>, <<2,5>>, <<3,5>>},
     {<<2,4>>, <<2,5>>, <<4,5>>}, {<<2,5>>, <<3,4>>}}
Set9 == {<<1,4>>, <<1,5>>, <<2,5>>, <<3,4>>}

Sets5 == (CompleteCuts(5) \ Absent5) \cup {Set9}

SubGraphSet == [n \in 3 .. 5 |-> IF n = 5 THEN Sets5 ELSE CompleteCuts(n)]
=============================================================================
