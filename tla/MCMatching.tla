------------------------------- MODULE MCMatching -------------------------------
EXTENDS Matching

\* Records 1 .. 4 are of Delius, the others of Nomis.
MCNodeName == [n \in Node |-> IF n <= 4 THEN "DELIUS" ELSE "NOMIS"]

\* Who is in prison, what blocks and which of all pairs score high and middling.
World(active, pairs, high, middle) ==
    [active |-> active, records |-> UNION {Ends(e) : e \in pairs}, pairs |-> pairs,
     score |-> [e \in Edge |-> IF e \in high THEN 3 ELSE IF e \in middle THEN 2 ELSE 1]]

\* A path of six records, 1-5-2-6-3-7, and a pair beside it.
Path == {<<1, 5>>, <<2, 5>>, <<2, 6>>, <<3, 6>>, <<3, 7>>}
Pair == {<<4, 8>>}

\* A path of five records that set 9 of the reference table keeps whole.
Path9 == {<<3, 5>>, <<1, 5>>, <<1, 6>>, <<2, 6>>}

\* The path falls into two; a part of it is scored again and 1 changes sides, beside
\* edges of before that are not scored again; the pair is improbable, and set 9 cuts
\* the rest.
RoundsData ==
    {World({5, 7, 8}, Path \cup Pair, (Path \ {<<2, 6>>}) \cup Pair \cup {<<1, 2>>}, {<<2, 6>>}),
     World({5, 6}, {<<1, 6>>, <<3, 6>>} \cup Pair, {<<1, 6>>, <<3, 6>>, <<1, 3>>} \cup Pair, {}),
     World({5}, Path9 \cup Pair, Path9, {})}

\* An operator moves record 2 from 1 and 5 to 4 and 8, takes away the edges that this
\* gives it, and has an edge run from 8 to 4, too.
Moved(from, to) ==
    [upcis |-> {from, to},
     rows |-> [n \in {1, 2, 4, 5, 8} |->
                  [id |-> IF n \in {1, 5} THEN from ELSE to, hard |-> n = 2]],
     edges |-> [e \in {<<1, 5>>, <<4, 8>>, <<8, 4>>} |-> Certain]]

RoundsNetworks == {Moved(from, to) : from \in 1 .. 3, to \in 1 .. 3}

NoNetworks == {}

\* A path of five records that set 9 of the reference table keeps whole, and a pair.
PathData == {World({}, Path9 \cup {<<4, 7>>}, Path9 \cup {<<4, 7>>}, {})}

\* A pair of records links after a round that knew both, and another appears.
NewcomerData ==
    LET linked == World({}, {<<4, 7>>}, {<<4, 7>>}, {})
    IN  {[linked EXCEPT !.pairs = {}], [linked EXCEPT !.records = {1, 4, 7}]}
=============================================================================
