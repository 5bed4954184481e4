--------------------------- MODULE MCViaWaySplit ---------------------------
(* ViaWaySplit on a small road graph: two arcs (0, 1) lead into a link (2)  *)
(* that continues on 3 and 4, and every arc lies on a cycle, so that chains *)
(* can share their entry, their middle and their exit, and be re-entered.   *)
EXTENDS ViaWaySplit, TLC

TurnsFrom == 0 :> {2} @@ 1 :> {2, 5} @@ 2 :> {3, 4} @@ 3 :> {4, 5} @@ 4 :> {0} @@ 5 :> {1, 2}

\* Every walk of three or four arcs, as the resolver builds chains; the odd
\* ones are too short, or pass over a turn that is forbidden by itself.
Follows(s)  == \A i \in 1 .. Len(s) - 1 : s[i + 1] \in TurnsFrom[s[i]]
Distinct(s) == \A i, j \in DOMAIN s : s[i] = s[j] => i = j
ThreeArcs   == {s \in [1 .. 3 -> 0 .. 5] : Follows(s)}
FourArcs    == {s \in [1 .. 4 -> 0 .. 5] : Follows(s)}
SomeChains  == [arcs : ThreeArcs \cup FourArcs \cup {<<0, 2>>, <<0, 2, 5>>},
                mandatory : BOOLEAN]
ShortNos    == [arcs : ThreeArcs, mandatory : {FALSE}]
SimpleNos   == [arcs : {s \in ThreeArcs \cup FourArcs : Distinct(s)}, mandatory : {FALSE}]

ListsOfChains == (SomeChains \X SomeChains) \cup (ShortNos \X ShortNos \X ShortNos)
=============================================================================
