----------------------------- MODULE SeparatorSearch -----------------------------
(***************************************************************************)
(* One call of ComputeSeparator (separator.h): several cutters enumerate   *)
(* cuts of one graph, and the best cut becomes the separator.  On a graph  *)
(* of more than ParallelismCutoff nodes, with more than one thread, tasks  *)
(* share the cutters among themselves (MultiCutter::parallel_enum_cuts);   *)
(* otherwise one loop advances the cutters of least flow (enum_cuts).      *)
(***************************************************************************)
EXTENDS FlowCutter, TLC

CONSTANTS
  Inputs,             \* records: road graph, positions, configuration, terminals by distance
  Threads,            \* the threads of the task arena
  ParallelismCutoff   \* MultiCutter::ParallelismCutoff

VARIABLES
  input, graph, terminals,  \* the call: constant once it has started
  cutters,                  \* cutter_list
  active,                   \* cutter_active
  running,                  \* cutter_running
  acquired,                 \* acquired_cutters
  tasks,                    \* the tasks of parallel_for that nobody has begun
  thread,                   \* per thread: where it stands, the cutter it holds, the cutters it wants
  smallerSide,              \* current_smaller_side_size of the sequential loop
  best,                     \* the best cut so far and what has been taken from it
  phase                     \* "start", "sequential", "parallel", "done"
call == <<input, graph, terminals>>
vars == <<call, cutters, active, running, acquired, tasks, thread, smallerSide, best, phase>>

Config == input.config
Nodes == input.selection \in {"node_min_expansion", "node_first"}
None == [found |-> FALSE]

--------------------------------------------------------------------------------
(* Terminals.                                                                  *)

\* Sorted up to a bulk at either end; what lies between is in no particular order.
Bulk(f, n) == AtLeast1((f.orderThreshold * n) \div 100)
GeoOrders(f, n, key) ==
  LET k == Bulk(f, n)
      Sorted(p) == \A i, j \in Ids(n) : i < j /\ (i <= k \/ j >= n - k - 1) => key[p[i]] <= key[p[j]]
  IN {[i \in 1 .. n |-> p[i - 1]] : p \in {q \in Permutations(Ids(n)) : Sorted(q)}}

\* The projections on cutter_count lines through the origin, half a turn apart in all.
Projection(i) == CASE i = 0 -> <<1, 0>> [] i = 1 -> <<1, 1>> [] i = 2 -> <<0, 1>> [] i = 3 -> <<-1, 1>>
GeoKey(in, i) == [x \in Ids(in.road.n) |-> Projection(i)[1] * in.position[x][1] + Projection(i)[2] * in.position[x][2]]

\* What a search with these arc lengths finds: arcs are relaxed until nothing gets shorter.
RECURSIVE Relaxed(_, _, _)
Relaxed(g, length, dist) ==
  LET Shorter(d, a) == LET via == dist[g.tail[a]] + length[a] IN IF via < d THEN via ELSE d
      next == [x \in Ids(g.n) |-> FoldLeft(LAMBDA d, a : Shorter(d, g.back[a]), dist[x], g.out[x])]
  IN IF next = dist THEN dist ELSE Relaxed(g, length, next)
From(f, g, xs) == [x \in Ids(g.n) |-> IF x \in xs THEN 0 ELSE f.infinity]
HopDistance(f, g, x) == Relaxed(g, [a \in Ids(g.m) |-> 1], From(f, g, {x}))
WeightedDistance(f, g, x) == Relaxed(g, g.weight, From(f, g, {x}))

Fraction(f, order) == AtLeast1((Len(order) * f.bulkDistance) \div 100)
\* The search from a set of nodes starts after its iterator has run to the end: no node is reached.
Distance(f, g, t, side) ==
  LET x == IF t.byDistance THEN (IF side = Source THEN t.source ELSE t.target)
           ELSE t.order[IF side = Source THEN 1 ELSE Len(t.order)]
      k == Fraction(f, t.order)
      ends == {t.order[i] : i \in IF side = Source THEN 1 .. k ELSE Len(t.order) - k + 1 .. Len(t.order)}
      hops == f.rating \in {"max_target_minus_source", "max_target", "min_source", "circular"} /\ ~f.byWeight
  IN IF hops /\ f.bulkDistance > 0 THEN From(f, g, ends)
     ELSE IF hops THEN HopDistance(f, g, x)
     ELSE IF f.byWeight /\ f.rating # "max_target_minus_source" THEN WeightedDistance(f, g, x)
     ELSE f.unfilled

\* Where the order is made from distances, it is by how much nearer the source is than the target;
\* of nodes as near, which the code's partial sort leaves in any order, the first here.
ByDistance(g, d) ==
  InOrder(Ids(g.n), LAMBDA x, y : LET r == d[Target][x] - d[Source][x]
                                      s == d[Target][y] - d[Source][y]
                                  IN r > s \/ (r = s /\ x < y))

Prepared(f, g, t) ==
  LET d == [s \in Sides |-> Distance(f, g, t, s)]
  IN [order |-> IF t.byDistance THEN ByDistance(g, d) ELSE t.order,
      source |-> t.source, target |-> t.target, distance |-> d, bulk |-> t.source = -1 /\ t.target = -1]

Geo(order) == [order |-> order, byDistance |-> FALSE, source |-> -1, target |-> -1]
Pair(st) == [order |-> <<>>, byDistance |-> TRUE, source |-> st[1], target |-> st[2]]

--------------------------------------------------------------------------------
(* Scores. A score is a cut over the size of its smaller side, and a million   *)
(* more when that side is too small.                                           *)

ScoreOf(g, f, c) == [cut |-> c.intensity, size |-> SmallerSize(c), penalty |-> 100 * SmallerSize(c) < f.imbalance * g.n]
Less(p, q) == IF p.penalty # q.penalty THEN q.penalty ELSE p.cut * q.size < q.cut * p.size
Same(p, q) == ~Less(p, q) /\ ~Less(q, p)

\* What the next cut of a cutter can be at best.
NextBest(g, c) == [cut |-> c.intensity + (IF c.hasCut THEN 1 ELSE 0), size |-> g.n \div 2, penalty |-> FALSE]

ShallContinue(b, c) ==
  ~b.found \/
  CASE input.selection = "node_min_expansion" -> ~Less(b.score, NextBest(graph, c))
    [] input.selection = "edge_min_expansion" -> Less(NextBest(graph, c), b.score)
    [] OTHER -> NextBest(graph, c).cut <= b.score.cut

Reported(g, f, c, i) ==
  [found |-> TRUE, score |-> ScoreOf(g, f, c), id |-> i,
   side |-> c.assimilated[CutSide(c)].in,
   separator |-> IF Nodes THEN Separator(input.road, g, Cut(c), SmallerSize(c)) ELSE {g.head[Cut(c)[k]] : k \in DOMAIN Cut(c)}]

\* The test made without the lock, and the one made with it.
First == input.selection \in {"node_first", "edge_first"}
WorthTheLock(b, r) ==
  IF First THEN ~r.score.penalty /\ (~b.found \/ r.score.cut <= b.score.cut)
  ELSE IF input.selection = "edge_min_expansion" THEN ~b.found \/ Less(r.score, b.score)
  ELSE ~b.found \/ ~Less(b.score, r.score)
Improves(b, r) ==
  \/ ~b.found
  \/ IF First THEN r.score.cut < b.score.cut \/ (r.score.cut = b.score.cut /\ r.score.size > b.score.size)
     ELSE \/ Less(r.score, b.score)
          \/ /\ input.selection = "node_min_expansion" /\ Same(r.score, b.score)
             /\ r.score.cut < b.score.cut \/ (r.score.cut = b.score.cut /\ r.id < b.id)
Better(b, r) == IF WorthTheLock(b, r) /\ Improves(b, r) THEN r ELSE b

--------------------------------------------------------------------------------
Cutters == DOMAIN terminals
Idle == [at |-> "idle", cutter |-> 0, wants |-> <<>>]
Raised == LET f == Config IN f.threads > 1 /\ graph.n > ParallelismCutoff

Init ==
  /\ input \in Inputs
  /\ graph = IF Nodes THEN Expanded(input.road) ELSE PlainGraph(input.road)
  /\ terminals = <<>> /\ cutters = <<>> /\ active = <<>> /\ running = <<>>
  /\ acquired = 0 /\ tasks = {} /\ smallerSide = 0
  /\ thread = [h \in Threads |-> Idle]
  /\ best = None /\ phase = "start"

\* One direction's order, or one pair drawn at random.
SelectTerminals ==
  /\ phase = "start" /\ Len(terminals) < Config.geoCutters + Config.distanceCutters
  /\ IF Len(terminals) < Config.geoCutters
     THEN \E order \in GeoOrders(Config, input.road.n, GeoKey(input, Len(terminals))) :
            terminals' = Append(terminals, Geo(order))
     ELSE \E st \in input.pairs : st[1] # st[2] /\ terminals' = Append(terminals, Pair(st))
  /\ UNCHANGED <<input, graph, cutters, active, running, acquired, tasks, thread, smallerSide, best, phase>>

Launch ==
  /\ phase = "start" /\ Len(terminals) = Config.geoCutters + Config.distanceCutters
  /\ terminals' = [i \in Cutters |-> Prepared(Config, graph, IF Nodes THEN ExpandedTerminals(terminals[i]) ELSE terminals[i])]
  /\ cutters' = [i \in Cutters |-> InitCutter(graph, Config, terminals'[i])]
  /\ active' = [i \in Cutters |-> TRUE]
  /\ running' = [i \in Cutters |-> FALSE]
  /\ tasks' = IF Raised THEN Cutters ELSE {}
  /\ phase' = IF Raised THEN "parallel" ELSE "sequential"
  /\ UNCHANGED <<input, graph, acquired, thread, smallerSide, best>>

--------------------------------------------------------------------------------
(* Sharing the cutters (parallel_enum_cuts). A thread that holds a cutter is   *)
(* the only one to change it; the flags, the counter and the best score are    *)
(* read and written one atomic access at a time.                               *)

Stands(h, at) == phase = "parallel" /\ thread[h].at = at
Moves(h, at) == thread' = [thread EXCEPT ![h].at = at]
Held(h) == thread[h].cutter
Takes(h, i, wants) ==
  /\ thread' = [thread EXCEPT ![h] = IF running[i] THEN [at |-> "take", cutter |-> 0, wants |-> wants]
                                     ELSE [at |-> "count", cutter |-> i, wants |-> <<>>]]
  /\ running' = [running EXCEPT ![i] = TRUE]

\* A task tries the cutter of its own number first.
StartTask(h) ==
  /\ Stands(h, "idle")
  /\ \E i \in tasks :
       /\ tasks' = tasks \ {i}
       /\ IF running[i] THEN Moves(h, "scan") /\ UNCHANGED running ELSE Takes(h, i, <<>>)
  /\ UNCHANGED <<call, cutters, active, acquired, smallerSide, best, phase>>

Count(h) ==
  /\ Stands(h, "count") /\ acquired' = acquired + 1 /\ Moves(h, "work")
  /\ UNCHANGED <<call, cutters, active, running, tasks, smallerSide, best, phase>>

Work(h) ==
  LET i == Held(h)
      goesOn == active[i] /\ cutters[i].canAdvance /\ ShallContinue(best, cutters[i])
  IN /\ Stands(h, "work")
     /\ active' = [active EXCEPT ![i] = goesOn]
     /\ Moves(h, IF goesOn THEN "advance" ELSE "check")
     /\ UNCHANGED <<call, cutters, running, acquired, tasks, smallerSide, best, phase>>

\* A cutter that has a cut goes on to the largest one of its flow.
UpToCut(i, r) == IF r.ok /\ r.c.hasCut THEN Enlarged(graph, Config, terminals[i], r.c) ELSE r.c
AdvanceCutter(h) ==
  /\ Stands(h, "advance")
  /\ \E r \in {Advance(graph, Config, terminals[Held(h)], cutters[Held(h)])} :
       /\ cutters' = [cutters EXCEPT ![Held(h)] = UpToCut(Held(h), r)]
       /\ active' = [active EXCEPT ![Held(h)] = r.ok]
       /\ Moves(h, IF r.ok /\ r.c.hasCut THEN "report" ELSE "check")
  /\ UNCHANGED <<call, running, acquired, tasks, smallerSide, best, phase>>

ReportOf(i) == Reported(graph, Config, cutters[i], i)
ReportCut(h) ==
  /\ Stands(h, "report")
  /\ Moves(h, IF WorthTheLock(best, ReportOf(Held(h))) THEN "lock" ELSE "check")
  /\ UNCHANGED <<call, cutters, active, running, acquired, tasks, smallerSide, best, phase>>

StoreCutUnchecked(h) ==
  /\ Stands(h, "lock") /\ best' = ReportOf(Held(h)) /\ Moves(h, "check")
  /\ UNCHANGED <<call, cutters, active, running, acquired, tasks, smallerSide, phase>>
StoreCut(h) ==
  /\ Stands(h, "lock")
  /\ best' = IF Improves(best, ReportOf(Held(h))) THEN ReportOf(Held(h)) ELSE best
  /\ Moves(h, "check")
  /\ UNCHANGED <<call, cutters, active, running, acquired, tasks, smallerSide, phase>>

\* As long as every cutter is held and this one is wanted, it is kept.
Check(h) ==
  /\ Stands(h, "check")
  /\ Moves(h, IF acquired # Len(cutters) \/ ~active[Held(h)] THEN "release" ELSE "work")
  /\ UNCHANGED <<call, cutters, active, running, acquired, tasks, smallerSide, best, phase>>

Release(h) ==
  /\ Stands(h, "release")
  /\ running' = [running EXCEPT ![Held(h)] = FALSE]
  /\ thread' = [thread EXCEPT ![h].at = "uncount", ![h].cutter = 0]
  /\ UNCHANGED <<call, cutters, active, acquired, tasks, smallerSide, best, phase>>

Uncount(h) ==
  /\ Stands(h, "uncount") /\ acquired' = acquired - 1 /\ Moves(h, "scan")
  /\ UNCHANGED <<call, cutters, active, running, tasks, smallerSide, best, phase>>

ByFlow(S) == InOrder(S, LAMBDA i, j : \/ cutters[i].intensity < cutters[j].intensity
                                      \/ cutters[i].intensity = cutters[j].intensity /\ i < j)
Scan(h) ==
  /\ Stands(h, "scan")
  /\ thread' = [thread EXCEPT ![h].at = "take", ![h].wants = ByFlow({i \in Cutters : active[i]})]
  /\ UNCHANGED <<call, cutters, active, running, acquired, tasks, smallerSide, best, phase>>

TakeCutter(h) ==
  /\ Stands(h, "take")
  /\ LET wants == thread[h].wants
     IN IF wants = <<>> THEN thread' = [thread EXCEPT ![h] = Idle] /\ UNCHANGED running
        ELSE Takes(h, wants[1], SubSeq(wants, 2, Len(wants)))
  /\ UNCHANGED <<call, cutters, active, acquired, tasks, smallerSide, best, phase>>

JoinTasks ==
  /\ phase = "parallel" /\ tasks = {} /\ \A h \in Threads : thread[h].at = "idle"
  /\ phase' = "done"
  /\ UNCHANGED <<call, cutters, active, running, acquired, tasks, thread, smallerSide, best>>

--------------------------------------------------------------------------------
(* One cutter after the other (enum_cuts).                                     *)

InPlay(cs, act) == {i \in Cutters : act[i] /\ cs[i].canAdvance}
Least(cs, S) == CHOOSE k \in {cs[i].intensity : i \in S} : \A i \in S : k <= cs[i].intensity
AllHaveCut(cs, act) ==
  LET S == InPlay(cs, act) IN \A i \in S : cs[i].intensity = Least(cs, S) => cs[i].hasCut

Handled(b, s, i) ==
  IF ~ShallContinue(b, s.cutters[i]) THEN [s EXCEPT !.active[i] = FALSE]
  ELSE [s EXCEPT !.cutters[i] = UpToCut(i, Advance(graph, Config, terminals[i], s.cutters[i]))]

Ready ==
  LET S == InPlay(cutters, active)
  IN {i \in S : cutters[i].intensity = Least(cutters, S) /\ (~cutters[i].hasCut \/ AllHaveCut(cutters, active))}
\* Of the cutters of least flow, the one with the largest smaller side.
Largest(cs, left) ==
  LET rivals == {i \in Cutters : cs[i].canAdvance /\ cs[i].intensity = Least(cs, left)}
  IN CHOOSE i \in rivals : /\ \A j \in rivals : SmallerSize(cs[j]) <= SmallerSize(cs[i])
                          /\ \A j \in rivals : j < i => SmallerSize(cs[j]) < SmallerSize(cs[i])
ReportLargest(cs, i) ==
  IF SmallerSize(cs[i]) > smallerSide
  THEN /\ smallerSide' = SmallerSize(cs[i])
       /\ best' = Better(best, Reported(graph, Config, cs[i], i))
  ELSE UNCHANGED <<smallerSide, best>>
Round ==
  /\ phase = "sequential"
  /\ \E s \in {FoldLeft(LAMBDA r, i : Handled(best, r, i), [cutters |-> cutters, active |-> active], Ascending(Ready))} :
       LET left == InPlay(s.cutters, s.active)
       IN /\ cutters' = s.cutters /\ active' = s.active
          /\ IF left # {} /\ AllHaveCut(s.cutters, s.active) THEN ReportLargest(s.cutters, Largest(s.cutters, left))
             ELSE UNCHANGED <<smallerSide, best>>
          /\ phase' = IF left = {} THEN "done" ELSE "sequential"
  /\ UNCHANGED <<call, running, acquired, tasks, thread>>

Finished == phase = "done" /\ UNCHANGED vars

Next ==
  \/ SelectTerminals \/ Launch \/ JoinTasks \/ Round \/ Finished
  \/ \E h \in Threads : \/ StartTask(h) \/ Count(h) \/ Work(h) \/ AdvanceCutter(h) \/ ReportCut(h) \/ StoreCut(h)
                        \/ Check(h) \/ Release(h) \/ Uncount(h) \/ Scan(h) \/ TakeCutter(h)
Spec == Init /\ [][Next]_vars
--------------------------------------------------------------------------------
(***************************************************************************)
(* A cutter is sound after each step, also in the hands of many threads:   *)
(* the sides are apart and keep within what is reachable, the flow obeys   *)
(* capacities and is kept at every node of neither side, and its intensity *)
(* is what crosses.  With a cut, the smaller side is closed: the arcs out  *)
(* of it that carry flow are all saturated, they are the front, as many as *)
(* the intensity, and what is noted as reachable is what a fresh search    *)
(* from the whole side would find (BasicCutter::check_invariants).         *)
(***************************************************************************)
RECURSIVE Closure(_, _, _)
Closure(g, open, S) ==
  LET more == {g.head[a] : a \in {b \in open : g.tail[b] \in S}} \ S IN IF more = {} THEN S ELSE Closure(g, open, S \cup more)

NetOut(g, flow, x) == FoldLeft(LAMBDA k, a : k + flow[a], 0, g.out[x])
FlowIsKept(g, c) ==
  /\ \A a \in Ids(g.m) : c.flow[g.back[a]] = -c.flow[a] /\ c.flow[a] <= g.capacity[a]
  /\ \A x \in Ids(g.n) : x \notin c.assimilated[Source].in \cup c.assimilated[Target].in => NetOut(g, c.flow, x) = 0
  /\ c.intensity = FoldSet(LAMBDA x, k : k + NetOut(g, c.flow, x), 0, c.assimilated[Source].in)
CutIsRight(g, c) ==
  LET side == CutSide(c)
      inside == c.assimilated[side].in
      leaving == {a \in Ids(g.m) : g.tail[a] \in inside /\ g.head[a] \notin inside}
  IN /\ \A s \in Sides : c.reachable[s].in = Closure(g, OpenArcs(g, c.flow, s), c.assimilated[s].in)
     /\ \A a \in leaving : Saturated(g, c.flow, side, a)
     /\ ToSet(Cut(c)) = {a \in leaving : c.flow[a] # 0} /\ Len(Cut(c)) = c.intensity
     /\ 2 * SmallerSize(c) <= g.n
CuttersAreSound ==
  \A i \in DOMAIN cutters :
    LET c == cutters[i]
    IN /\ \A s \in Sides : c.assimilated[s].in # {} /\ c.assimilated[s].in \subseteq c.reachable[s].in
       /\ c.assimilated[Source].in \cap c.assimilated[Target].in = {}
       /\ FlowIsKept(graph, c)
       /\ c.hasCut => CutIsRight(graph, c)

(***************************************************************************)
(* The search ends with the best cut there is: whatever the threads did to *)
(* each other, no cut that any cutter could have reached is better than    *)
(* the one kept, and the one kept is one of them.  So none is lost between *)
(* the unlocked test of the best score and the locked one, no cutter is    *)
(* given up while it could still improve on the result, and none is left   *)
(* active with nobody to take it.                                          *)
(***************************************************************************)
RECURSIVE CutsFrom(_, _)
CutsFrom(i, c) ==
  LET Found(e) == (IF e.hasCut THEN {Reported(graph, Config, e, i)} ELSE {}) \cup CutsFrom(i, e)
      After(r) == IF r.ok THEN Found(UpToCut(i, r)) ELSE {}
  IN IF c.canAdvance THEN After(Advance(graph, Config, terminals[i], c)) ELSE {}
AllCuts ==
  {r \in UNION {CutsFrom(i, InitCutter(graph, Config, terminals[i])) : i \in Cutters} : First => ~r.score.penalty}
BestOfAll ==
  phase = "done" =>
    \A cuts \in {AllCuts} :
      IF cuts = {} THEN ~best.found ELSE best \in cuts /\ \A r \in cuts : ~Improves(best, r)

(***************************************************************************)
(* The separator separates: without its nodes, no road leads out of what   *)
(* is left of the smaller side, in the road graph, not only in the one the *)
(* cutters ran on; and it has no more nodes than the cut has arcs.         *)
(***************************************************************************)
OnSide(x) == IF Nodes THEN {ExpandedNode(x, 0), ExpandedNode(x, 1)} \subseteq best.side ELSE x \in best.side
SeparatorSeparates ==
  phase = "done" /\ best.found =>
    LET o == input.road
        kept == Ids(o.n) \ best.separator
    IN /\ best.separator # {} /\ Cardinality(best.separator) <= best.score.cut
       /\ \A a \in Ids(o.m) : {o.tail[a], o.head[a]} \subseteq kept /\ OnSide(o.tail[a]) => OnSide(o.head[a])
=============================================================================
