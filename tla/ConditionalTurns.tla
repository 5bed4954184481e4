--------------------------- MODULE ConditionalTurns ---------------------------
(***************************************************************************)
(* conditional_turn_extract: restriction relations with a condition, or    *)
(* with ways between from and to, resolved on the graph that was saved.    *)
(*                                                                         *)
(* Arcs and nodes are numbered from 1, as the saved vectors are indexed.   *)
(***************************************************************************)
EXTENDS OsmGraphBuilder, ConditionCalendar
LOCAL INSTANCE SequencesExt
LOCAL INSTANCE Ordered

Rank(S, x) == 1 + Cardinality({y \in S : y < x})

(***************************************************************************)
(* The relations: a conditional tag supersedes an unconditional one; of    *)
(* the unconditional ones only those with ways between are taken here.     *)
(***************************************************************************)
TagPriority(profile) ==
  CASE profile = "car" -> <<"restriction:motorcar:conditional", "restriction:conditional", "restriction:motorcar", "restriction">>
    [] profile = "motorcycle" ->
         <<"restriction:motorcycle:conditional", "restriction:conditional", "restriction:motorcycle", "restriction">>
OneOf(t, k1, k2) == IF Has(t, k1) THEN {t[k1]} ELSE IF Has(t, k2) THEN {t[k2]} ELSE {}

Vias(r, type) == SelectSeq(r.members, LAMBDA m : m.role = "via" /\ m.type = type)
MembersAreValid(r) ==
  /\ Vias(r, "relation") = <<>>
  /\ Vias(r, "node") = <<>> \/ Vias(r, "way") = <<>>
  /\ WaysAs(r, "from") # <<>> /\ WaysAs(r, "to") # <<>>

RawOf(r, value, condition) ==
  LET from == WaysAs(r, "from")
      to == WaysAs(r, "to")
      vias == Vias(r, "way")
  IN  IF \/ value.category \notin {"no", "only"} \/ value.direction \notin Directions
         \/ value.category = "only" /\ (Len(from) # 1 \/ Len(to) # 1)
      THEN <<>>
      ELSE [k \in 1 .. Len(from) * Len(to) |->
              [category |-> value.category, direction |-> value.direction,
               from |-> from[((k - 1) \div Len(to)) + 1].id, to |-> to[((k - 1) % Len(to)) + 1].id,
               via |-> IF Vias(r, "node") = <<>> THEN NoNode ELSE Vias(r, "node")[Len(Vias(r, "node"))].id,
               viaWays |-> [i \in DOMAIN vias |-> vias[i].id], condition |-> condition]]

Decoded(profile, r) ==
  LET keys == TagPriority(profile)
      conditional == OneOf(r.tags, keys[1], keys[2])
      unconditional == OneOf(r.tags, keys[3], keys[4])
  IN  IF ~r.restriction \/ ~MembersAreValid(r) THEN <<>>
      ELSE FoldSet(LAMBDA v, all : all \o RawOf(r, v, v.condition), <<>>, conditional)
           \o IF conditional # {} \/ Vias(r, "way") = <<>> THEN <<>>
              ELSE FoldSet(LAMBDA v, all : all \o RawOf(r, v, <<>>), <<>>, unconditional)

(***************************************************************************)
(* Looking things up in the saved graph.                                   *)
(***************************************************************************)
ArcsInto(g, way, n) == {a \in DOMAIN g.head : g.head[a] = n /\ g.way[a] = way}
ArcsFrom(g, way, n) == {a \in DOMAIN g.head : g.tail[a] = n /\ g.way[a] = way}
EndsOf(g, way) == UNION {{g.tail[a], g.head[a]} : a \in {b \in DOMAIN g.head : g.way[b] = way}}
\* The nodes two ways share, if it is a single one.
JunctionNode(g, way1, way2) ==
  LET shared == EndsOf(g, way1) \cap EndsOf(g, way2) IN IF Cardinality(shared) = 1 THEN shared ELSE {}

AsArc(g, a) == [tail |-> g.tail[a], head |-> g.head[a], points |-> <<>>]
AsBuilder(g) == [position |-> [n \in DOMAIN g.latitude |-> [lat |-> g.latitude[n], lon |-> g.longitude[n]]]]
UniquePair(from, to) == IF Cardinality(from) = 1 /\ Cardinality(to) = 1 THEN from \X to ELSE {}
DisambiguatedPair(g, from, to, via, direction) ==
  LET b == AsBuilder(g)
      r == [via |-> via, direction |-> direction]
      fitting == {p \in from \X to : TurnsInto(b, r, AsArc(g, p[1]), AsArc(g, p[2]))}
  IN  IF UniquePair(from, to) # {} THEN UniquePair(from, to)
      ELSE IF Cardinality(fitting) = 1 THEN fitting ELSE {}

\* The pair of arcs that turns at each junction of a chain of ways, {} when
\* some junction is not unique, comes twice, or leaves a choice of arcs.
ChainOfWays(r) == <<r.from>> \o r.viaWays \o <<r.to>>
PairsAlong(g, ways, direction) ==
  LET last == Len(ways) - 1
      junction == [i \in 1 .. last |-> JunctionNode(g, ways[i], ways[i + 1])]
      At(i) == CHOOSE n \in junction[i] : TRUE
      Unique(i) == UniquePair(ArcsInto(g, ways[i], At(i)), ArcsFrom(g, ways[i + 1], At(i)))
      Pair(i) == IF i = 1
                 THEN DisambiguatedPair(g, ArcsInto(g, ways[1], At(1)), ArcsFrom(g, ways[2], At(1)), At(1), direction)
                 ELSE Unique(i)
  IN  IF \/ \E i \in 1 .. last : junction[i] = {}
         \/ \E i, j \in 1 .. last : i < j /\ junction[i] = junction[j]
         \/ \E i \in 1 .. last : Pair(i) = {}
      THEN {}
      ELSE {[i \in 1 .. last |-> CHOOSE p \in Pair(i) : TRUE]}

\* Way ids as the graph has them; {} when a way is not in the graph.
LocalWays(m, ways) ==
  IF \A i \in DOMAIN ways : ways[i] \in m.ways THEN {[i \in DOMAIN ways |-> Rank(m.ways, ways[i])]} ELSE {}

(***************************************************************************)
(* Forbidden pairs with their condition.                                   *)
(***************************************************************************)
OutOf(g, n) == {a \in DOMAIN g.head : g.tail[a] = n}
TurnsAt(g, r, pair) ==
  LET Turn(a) == [from |-> pair[1], to |-> a, condition |-> r.condition]
  IN  IF r.category = "no" THEN <<Turn(pair[2])>>
      ELSE LET others == Ascending(OutOf(g, g.head[pair[1]]) \ {pair[2]})
           IN  [i \in DOMAIN others |-> Turn(others[i])]

\* The via node is looked up among the nodes of a mapping that keeps only the
\* ends and crossings of ways, whatever nodes the graph was built with.
ViaNode(g, m, r, ways) ==
  IF r.via # NoNode /\ r.via \in m.routing THEN {Rank(m.routing, r.via)} ELSE JunctionNode(g, ways[1], ways[2])

ResolvedTurns(g, m, r) ==
  LET chains == LocalWays(m, ChainOfWays(r))
      AtNode(ways, n) == DisambiguatedPair(g, ArcsInto(g, ways[1], n), ArcsFrom(g, ways[2], n), n, r.direction)
      pairs == IF r.viaWays # <<>> THEN UNION {PairsAlong(g, ways, r.direction) : ways \in chains}
               ELSE UNION {UNION {{<<p>> : p \in AtNode(ways, n)} : n \in ViaNode(g, m, r, ways)} : ways \in chains}
  IN  FoldSet(LAMBDA ps, all : all \o FlattenSeq([i \in DOMAIN ps |-> TurnsAt(g, r, ps[i])]), <<>>, pairs)

\* Sorted by pair, unconditional ones first; of equal pairs the unconditional
\* one stays, or all that have a condition.
DedupeAny(turns) ==
  LET byPair == StableSort(turns, [t \in ToSet(turns) |-> <<t.from, t.to>>])
      Keep(kept, t) == IF kept # <<>> /\ <<Last(kept).from, Last(kept).to>> = <<t.from, t.to>> THEN kept ELSE Append(kept, t)
  IN  FoldLeft(Keep, <<>>, byPair)
Dedupe(turns) ==
  LET byCondition == StableSort(turns, [t \in ToSet(turns) |-> <<IF t.condition = <<>> THEN 0 ELSE 1, 0>>])
      byPair == StableSort(byCondition, [t \in ToSet(turns) |-> <<t.from, t.to>>])
      Keep(kept, t) ==
        IF kept # <<>> /\ <<Last(kept).from, Last(kept).to>> = <<t.from, t.to>> /\ Last(kept).condition = <<>>
        THEN kept ELSE Append(kept, t)
  IN  FoldLeft(Keep, <<>>, byPair)

(***************************************************************************)
(* Chains of arcs, for the restrictions without a condition: the turn at   *)
(* each junction, and the one way on along a way from there to the next.   *)
(***************************************************************************)
WalkWay(g, way, start, target) ==
  LET Step(walk, k) ==
        LET out == ArcsFrom(g, way, walk.at)
        IN  CASE walk.stuck \/ walk.at = target -> walk
              [] ~walk.stuck /\ walk.at # target /\ Cardinality(out) # 1 -> [walk EXCEPT !.stuck = TRUE]
              [] OTHER -> LET a == CHOOSE b \in out : TRUE
                          IN  [walk EXCEPT !.at = g.head[a], !.arcs = Append(@, a)]
      end == FoldLeft(Step, [at |-> g.head[start], arcs |-> <<>>, stuck |-> FALSE], [k \in DOMAIN g.head |-> k])
  IN  IF end.at = target /\ ~end.stuck THEN {end.arcs} ELSE {}

ChainOf(g, r, ways, pairs) ==
  LET walks == [i \in 1 .. Len(pairs) - 1 |-> WalkWay(g, ways[i + 1], pairs[i][2], g.head[pairs[i + 1][1]])]
      Leg(i) == <<pairs[i][2]>> \o IF i < Len(pairs) THEN CHOOSE w \in walks[i] : TRUE ELSE <<>>
  IN  IF \E i \in DOMAIN walks : walks[i] = {} THEN {}
      ELSE {[mandatory |-> r.category = "only",
             arcs |-> <<pairs[1][1]>> \o FlattenSeq([i \in DOMAIN pairs |-> Leg(i)])]}

ViaWayChains(g, m, raw) ==
  LET ForOne(r) == UNION {UNION {ChainOf(g, r, ways, pairs) : pairs \in PairsAlong(g, ways, r.direction)}
                          : ways \in LocalWays(m, ChainOfWays(r))}
      bare == SelectSeq(raw, LAMBDA r : r.viaWays # <<>> /\ r.condition = <<>>)
  IN  FoldLeft(LAMBDA all, r : FoldSet(LAMBDA c, s : Append(s, c), all, ForOne(r)), <<>>, bare)

\* A turn that is always forbidden needs no condition.
WithForbidden(turns, forbidden) == turns
WithoutForbidden(turns, forbidden) == SelectSeq(turns, LAMBDA t : <<t.from, t.to>> \notin forbidden)
=============================================================================
