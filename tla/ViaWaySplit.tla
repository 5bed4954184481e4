---------------------------- MODULE ViaWaySplit ----------------------------
(***************************************************************************)
(* Node splitting for via-way turn restrictions: apply_node_splits of      *)
(* hanoi-core (via_way_restriction.rs), run by generate_line_graph, and    *)
(* the arc each node stands for when line_graph.rs answers a query.        *)
(*                                                                         *)
(* A node of the line graph is an arc of the road graph or a tainted copy  *)
(* of one.  An edge of the line graph is a turn; its weight goes wherever  *)
(* the edge goes and is left out.                                          *)
(*                                                                         *)
(* Grain: one step per chain, the body of the loop over chains.            *)
(***************************************************************************)
EXTENDS Naturals, Sequences

CONSTANTS
  NumArcs,  \* arcs of the road graph, the base nodes of the line graph
  Turns,    \* the base line graph: the arcs that may follow each arc
  Chains,   \* every list of restriction chains to consider
  WalkBound \* longest walk the properties look at

Arcs == 0 .. NumArcs - 1

Chain == [arcs : Seq(Arcs), mandatory : BOOLEAN]

ASSUME NumArcsAssumption == NumArcs \in Nat
ASSUME BoundAssumption   == WalkBound \in Nat \ {0}
ASSUME TurnsAssumption   == Turns \in [Arcs -> SUBSET Arcs]
ASSUME ChainsAssumption  == Chains \subseteq Seq(Chain)

VARIABLES
  todo,      \* chains the loop has still to handle
  adj,       \* targets of each node's edges
  splitMap,  \* the arc each copy was cloned from, in order of creation
  done       \* history only: chains handled, and what became of them

vars == <<todo, adj, splitMap, done>>

\* original_arc_id_of_lg_node: copies follow the base nodes.
ArcOf(n) == IF n < NumArcs THEN n ELSE splitMap[n - NumArcs + 1]

\* Mutant: the new edge is added, the old one stays.
RedirectAdds(targets, old, new) ==
  IF old \in targets THEN targets \cup {new} ELSE targets

Redirect(targets, old, new) == {IF t = old THEN new ELSE t : t \in targets}

\* Each turn of the chain is still an edge between base nodes.
Connected(arcs) == \A i \in 1 .. Len(arcs) - 1 : arcs[i + 1] \in adj[arcs[i]]

Handle(outcome) ==
  /\ todo' = Tail(todo)
  /\ done' = Append(done, [chain |-> Head(todo), outcome |-> outcome,
                           copies |-> Len(splitMap')])

-----------------------------------------------------------------------------
SkipShort ==
  /\ todo # <<>> /\ Len(Head(todo).arcs) < 3
  /\ UNCHANGED <<adj, splitMap>>
  /\ Handle("short")

\* "Chain already broken by a direct forbidden turn or prior split".
SkipBroken ==
  /\ todo # <<>> /\ Len(Head(todo).arcs) >= 3
  /\ ~Connected(Head(todo).arcs)
  /\ UNCHANGED <<adj, splitMap>>
  /\ Handle("broken")

\* Mutant: the clone of the last intermediate keeps every edge.
CopyTargetsUncut(chain, k, copy) ==
  LET last   == Len(chain.arcs) - 2
      clone  == adj[chain.arcs[k + 1]]
      onward == chain.arcs[k + 2]
  IN IF chain.mandatory
     THEN IF onward \in clone THEN {IF k < last THEN copy[k + 1] ELSE onward} ELSE {}
     ELSE IF k < last THEN Redirect(clone, onward, copy[k + 1]) ELSE clone

\* Mutant: every copy loses the chain's own turn, not only the last.
CopyTargetsCut(chain, k, copy) ==
  LET last   == Len(chain.arcs) - 2
      clone  == adj[chain.arcs[k + 1]]
      onward == chain.arcs[k + 2]
  IN IF chain.mandatory
     THEN IF onward \in clone THEN {IF k < last THEN copy[k + 1] ELSE onward} ELSE {}
     ELSE clone \ {onward}

\* What the copy of the k-th intermediate leads to.  Mandatory: on along the
\* chain and nowhere else.  Prohibitive: wherever the intermediate led, with
\* the chain's own turn sent to the next copy, and cut at the last one.
\* Clones are taken before the chain's entry is redirected.
CopyTargets(chain, k, copy) ==
  LET last   == Len(chain.arcs) - 2
      clone  == adj[chain.arcs[k + 1]]
      onward == chain.arcs[k + 2]
  IN IF chain.mandatory
     THEN IF onward \in clone THEN {IF k < last THEN copy[k + 1] ELSE onward} ELSE {}
     ELSE IF k < last THEN Redirect(clone, onward, copy[k + 1]) ELSE clone \ {onward}

\* One copy per intermediate; the edge from the chain's first arc to its
\* second now leads to the first copy.
Split ==
  LET chain == Head(todo)
      size  == NumArcs + Len(splitMap)
      new   == Len(chain.arcs) - 2
      copy  == [k \in 1 .. new |-> size + k - 1]
  IN /\ todo # <<>> /\ Len(chain.arcs) >= 3
     /\ Connected(chain.arcs)
     /\ splitMap' = splitMap \o [k \in 1 .. new |-> chain.arcs[k + 1]]
     /\ adj' = [n \in 0 .. size + new - 1 |->
                  IF n >= size THEN CopyTargets(chain, n - size + 1, copy)
                  ELSE IF n = chain.arcs[1]
                       THEN Redirect(adj[n], chain.arcs[2], copy[1])
                       ELSE adj[n]]
     /\ Handle("split")

\* The expanded graph and the split map are written out.
Finished == todo = <<>> /\ UNCHANGED vars

Init ==
  /\ todo \in Chains
  /\ adj = Turns
  /\ splitMap = <<>> /\ done = <<>>

Next == SkipShort \/ SkipBroken \/ Split \/ Finished

Spec == Init /\ [][Next]_vars

-----------------------------------------------------------------------------
(***************************************************************************)
(* Walks: what a vehicle may drive, arc after arc.                         *)
(***************************************************************************)
Occurs(part, walk, i) ==
  /\ i + Len(part) - 1 <= Len(walk)
  /\ \A j \in DOMAIN part : walk[i + j - 1] = part[j]

\* The reference: a prohibitive chain is never driven from end to end; a
\* vehicle that enters a mandatory chain stays on it to its end.
Obeys(walk, chain) ==
  LET n == Len(chain.arcs) IN
  \A i \in DOMAIN walk :
    IF chain.mandatory
    THEN \A j \in 2 .. n - 1 :
           Occurs(SubSeq(chain.arcs, 1, j), walk, i) /\ i + j <= Len(walk)
             => walk[i + j] = chain.arcs[j + 1]
    ELSE ~Occurs(chain.arcs, walk, i)

\* The nodes a walk may have reached, begun at the base node of its first arc.
Reached(walk) ==
  LET at[i \in DOMAIN walk] ==
        IF i = 1 THEN {walk[1]}
        ELSE UNION {{m \in adj[n] : ArcOf(m) = walk[i]} : n \in at[i - 1]}
  IN at[Len(walk)]

Drivable(walk) == Reached(walk) # {}

Walks ==
  LET of[n \in 1 .. WalkBound] ==
        IF n = 1 THEN {<<a>> : a \in Arcs}
        ELSE UNION {{Append(w, b) : b \in Turns[w[n - 1]]} : w \in of[n - 1]}
  IN UNION {of[n] : n \in 1 .. WalkBound}

\* The chains the loop has enforced.
Applied == {d \in DOMAIN done : done[d].outcome = "split"}

-----------------------------------------------------------------------------
\* Every variable keeps its type; copies are numbered without a gap.
TypeOK ==
  /\ todo \in Seq(Chain)
  /\ splitMap \in Seq(Arcs)
  /\ DOMAIN adj = 0 .. NumArcs + Len(splitMap) - 1
  /\ \A n \in DOMAIN adj : adj[n] \subseteq DOMAIN adj
  /\ done \in Seq([chain : Chain, outcome : {"short", "broken", "split"}, copies : Nat])

\* No drive is invented: an edge of the expanded graph, read back through
\* the split map as a query's path is, is a turn of the base line graph, and
\* each turn has one edge per node, whatever chains share arcs.
EdgesAreTurns ==
  \A n \in DOMAIN adj :
    /\ \A m \in adj[n] : ArcOf(m) \in Turns[ArcOf(n)]
    /\ \A m, o \in adj[n] : ArcOf(m) = ArcOf(o) => m = o

\* Nothing more is lost than the chains ask for: a walk that obeys every
\* chain applied so far can still be driven, though chains share arcs and
\* copies are cloned from arcs already redirected.
LegalWalksSurvive ==
  \A w \in Walks :
    (\A d \in Applied : Obeys(w, done[d].chain)) => Drivable(w)

\* A chain binds every walk if no copy of its first arc existed when it was
\* applied: copies keep the edges they were cloned with.
ChainsBindUnlessCopied ==
  \A d \in Applied :
    LET chain == done[d].chain IN
    (\A k \in 1 .. done[d].copies : splitMap[k] # chain.arcs[1]) =>
      \A w \in Walks : Drivable(w) => Obeys(w, chain)
=============================================================================
