---------------------------- MODULE GraphPipeline ----------------------------
(***************************************************************************)
(* The directory of a map: cch_generator saves a graph into it,            *)
(* conditional_turn_extract adds conditional turns and chains of arcs,     *)
(* generate_line_graph reads both, and validate_graph (GraphValidator)     *)
(* checks what is there.  Each program reads what it needs, then saves     *)
(* file after file; it may die between two files, and the map may be       *)
(* replaced between two programs.                                          *)
(***************************************************************************)
EXTENDS ConditionalTurns, GraphValidator
LOCAL INSTANCE SequencesExt
LOCAL INSTANCE FiniteSetsExt
LOCAL INSTANCE Ordered

CONSTANTS
  Maps,    \* the map files; each names its bounds: starts, deaths, and newer maps
  Moments, \* the days and minutes the properties look at
  Meaning  \* condition |-> the moments it speaks of

VARIABLES
  map,     \* the map file: nodes, ways, relations and the profile
  files,   \* the directory: contents of the files that exist
  writing, \* what the running program still has to save
  program, \* the running program, or "none"
  made,    \* history: programs that ran to the end, in order, on this map
  starts, deaths

vars == <<map, files, writing, program, made, starts, deaths>>

(***************************************************************************)
(* cch_generator.                                                          *)
(***************************************************************************)
Mapping(mp, allRouting) == FoldLeft(LAMBDA m, w : MapWay(m, mp.profile, allRouting, w), EmptyMapping, mp.ways)
Loaded(mp, m) ==
  LET nodes == FoldLeft(LAMBDA b, e : LoadNode(b, m, e), EmptyBuilder(m), mp.nodes)
      ways == FoldLeft(LAMBDA b, w : LoadWay(b, m, mp.profile, "uncompressed", w), nodes, mp.ways)
  IN  FoldLeft(LAMBDA b, r : LoadRelation(b, mp.profile, r), ways, mp.relations)

FirstOut(arcs, nodes) == [v \in 1 .. Cardinality(nodes) + 1 |-> Cardinality({a \in DOMAIN arcs : Rank(nodes, arcs[a].tail) < v})]
AtLeastOne(t) == IF t = 0 THEN 1 ELSE t

\* A row per arc for the tools that join arcs with names.
Manifest(m, graph) ==
  [a \in DOMAIN graph.arcs |->
     LET arc == graph.arcs[a]
     IN  [way |-> Rank(m.ways, arc.way), osm |-> arc.way, from |-> graph.position[arc.tail],
          to |-> graph.position[arc.head], antiparallel |-> arc.anti]]
Roundabouts(mp) == {mp.ways[i].id : i \in {j \in DOMAIN mp.ways : Is(mp.ways[j].tags, "junction", {"roundabout"})}}
GraphFiles(mp) ==
  LET m == Mapping(mp, TRUE)
      b == Loaded(mp, m)
      graph == RoutingGraph(b, m, mp.profile)
      arcs == graph.arcs
      inOrder == Ascending(m.routing)
      turns == InOrder(graph.forbidden, BeforePair)
  IN  <<<<"first_out", FirstOut(arcs, m.routing)>>,
        <<"head", [a \in DOMAIN arcs |-> Rank(m.routing, arcs[a].head)]>>,
        <<"way", [a \in DOMAIN arcs |-> Rank(m.ways, arcs[a].way)]>>,
        <<"is_arc_roundabout", [a \in DOMAIN arcs |-> arcs[a].way \in Roundabouts(mp)]>>,
        <<"travel_time", [a \in DOMAIN arcs |-> AtLeastOne(graph.weight[a])]>>,
        <<"geo_distance", [a \in DOMAIN arcs |-> arcs[a].dist]>>,
        <<"latitude", [i \in DOMAIN inOrder |-> graph.position[inOrder[i]].lat]>>,
        <<"longitude", [i \in DOMAIN inOrder |-> graph.position[inOrder[i]].lon]>>,
        <<"forbidden_turn_from_arc", [i \in DOMAIN turns |-> turns[i][1]]>>,
        <<"forbidden_turn_to_arc", [i \in DOMAIN turns |-> turns[i][2]]>>,
        <<"road_arc_manifest", Manifest(m, graph)>>>>

(***************************************************************************)
(* conditional_turn_extract.                                               *)
(***************************************************************************)
SavedGraph(dir) ==
  [head |-> dir["head"], way |-> dir["way"], latitude |-> dir["latitude"], longitude |-> dir["longitude"],
   tail |-> BuildTail(dir["first_out"], Len(dir["head"]))]
SavedGraphLoads(dir) ==
  /\ Present(dir, {"first_out", "head", "way", "latitude", "longitude"})
  /\ Len(dir["way"]) = ArcCount(dir)
  /\ Len(dir["latitude"]) = NodeCount(dir) /\ Len(dir["longitude"]) = NodeCount(dir)

Raw(mp) == FlattenSeq([i \in DOMAIN mp.relations |-> Decoded(mp.profile, mp.relations[i])])

Offsets(seqs) == [i \in 1 .. Len(seqs) + 1 |-> FoldLeft(LAMBDA n, s : n + Len(s), 0, SubSeq(seqs, 1, i - 1))]
ChainFiles(chains) ==
  LET arcs == [i \in DOMAIN chains |-> chains[i].arcs]
  IN  <<<<"via_way_chain_offsets", Offsets(arcs)>>,
        <<"via_way_chain_arcs", FlattenSeq(arcs)>>,
        <<"via_way_chain_mandatory", [i \in DOMAIN chains |-> chains[i].mandatory]>>>>
TurnFiles(turns) ==
  LET windows == [i \in DOMAIN turns |-> WindowsOf(turns[i].condition)]
  IN  <<<<"conditional_turn_from_arc", [i \in DOMAIN turns |-> turns[i].from]>>,
        <<"conditional_turn_to_arc", [i \in DOMAIN turns |-> turns[i].to]>>,
        <<"conditional_turn_time_windows", [offsets |-> Offsets(windows), packed |-> FlattenSeq(windows)]>>>>

\* The overlap filter is left out when the forbidden turns cannot be read.
Overlapping(dir) ==
  IF /\ Present(dir, {"forbidden_turn_from_arc", "forbidden_turn_to_arc"})
     /\ Len(dir["forbidden_turn_from_arc"]) = Len(dir["forbidden_turn_to_arc"])
  THEN ForbiddenPairs(dir) ELSE {}

\* Without any restriction the graph is not even looked at.
ExtractedFiles(mp, dir) ==
  LET raw == Raw(mp)
      g == SavedGraph(dir)
      m == Mapping(mp, FALSE)
      turns == Dedupe(FlattenSeq([i \in DOMAIN raw |-> ResolvedTurns(g, m, raw[i])]))
  IN  IF raw = <<>> THEN TurnFiles(<<>>) \o ChainFiles(<<>>)
      ELSE ChainFiles(ViaWayChains(g, m, raw)) \o TurnFiles(WithoutForbidden(turns, Overlapping(dir)))

(***************************************************************************)
(* generate_line_graph: a node per arc, an edge per turn that is not       *)
(* forbidden, and the chains split off one after another (ViaWaySplit).    *)
(***************************************************************************)
LineGraphLoads(dir) ==
  /\ Present(dir, Required \cup ChainNames \cup {"is_arc_roundabout"})
  /\ VectorLengths(dir) /\ Len(dir["is_arc_roundabout"]) = ArcCount(dir)
  /\ TurnBounds(dir) /\ TurnSorting(dir)
  /\ ChainStructure(dir) /\ ChainMandatory(dir)

SavedChains(dir) ==
  [i \in 1 .. ChainCount(dir) |->
     [mandatory |-> dir["via_way_chain_mandatory"][i],
      arcs |-> SubSeq(dir["via_way_chain_arcs"], dir["via_way_chain_offsets"][i] + 1, dir["via_way_chain_offsets"][i + 1])]]
BaseTurns(dir) ==
  LET tail == BuildTail(dir["first_out"], ArcCount(dir))
      forbidden == ForbiddenPairs(dir)
  IN  [a \in 1 .. ArcCount(dir) |-> {b \in 1 .. ArcCount(dir) : tail[b] = dir["head"][a] /\ <<a, b>> \notin forbidden}]

Redirect(targets, old, new) == {IF t = old THEN new ELSE t : t \in targets}
SplitOff(lg, chain) ==
  LET c == chain.arcs
      new == Len(c) - 2
      size == Len(lg.adj)
      CopyOf(k) ==
        LET onward == c[k + 2]
            clone == lg.adj[c[k + 1]]
        IN  CASE chain.mandatory -> IF onward \in clone THEN {IF k < new THEN size + k + 1 ELSE onward} ELSE {}
              [] ~chain.mandatory /\ k < new -> Redirect(clone, onward, size + k + 1)
              [] OTHER -> clone \ {onward}
  IN  IF new < 1 \/ \E i \in 1 .. new + 1 : c[i + 1] \notin lg.adj[c[i]] THEN lg
      ELSE [adj |-> [n \in 1 .. size + new |->
                       IF n > size THEN CopyOf(n - size)
                       ELSE IF n = c[1] THEN Redirect(lg.adj[n], c[2], size + 1) ELSE lg.adj[n]],
            map |-> lg.map \o [k \in 1 .. new |-> c[k + 1]]]
LineGraph(dir) == FoldLeft(SplitOff, [adj |-> BaseTurns(dir), map |-> <<>>], SavedChains(dir))

LineGraphFiles(dir) ==
  LET lg == LineGraph(dir)
      targets == [n \in DOMAIN lg.adj |-> Ascending(lg.adj[n])]
  IN  <<<<"line/first_out", Offsets(targets)>>,
        <<"line/head", FlattenSeq(targets)>>,
        <<"line/via_way_split_map", lg.map>>>>

-----------------------------------------------------------------------------
Init ==
  /\ map \in Maps
  /\ files = <<>> /\ writing = <<>> /\ program = "none" /\ made = <<>>
  /\ starts = 0 /\ deaths = 0

Before == [generate |-> {}, extract |-> {"generate"}, lines |-> {"generate", "extract"}]
\* What an interrupted program leaves counts for nothing, and a new graph
\* makes what was extracted from the old one worthless.
Starts(name, saves) ==
  /\ program = "none" /\ starts < map.starts
  /\ program' = name /\ writing' = saves /\ starts' = starts + 1
  /\ made' = SelectSeq(made, LAMBDA p : p \in Before[name])
  /\ UNCHANGED <<map, files, deaths>>

StartsGenerate == Starts("generate", GraphFiles(map))
\* The script goes on only with what the validator passes.
StartsExtract ==
  /\ Passes(files)
  /\ Raw(map) = <<>> \/ SavedGraphLoads(files)
  /\ Starts("extract", ExtractedFiles(map, files))
StartsLineGraph ==
  /\ Passes(files) /\ LineGraphLoads(files)
  /\ Starts("lines", LineGraphFiles(files))

SavesFile ==
  /\ writing # <<>>
  /\ files' = (writing[1][1] :> writing[1][2]) @@ files
  /\ writing' = Tail(writing)
  /\ UNCHANGED <<map, program, made, starts, deaths>>

Ends ==
  /\ program # "none" /\ writing = <<>>
  /\ program' = "none" /\ made' = Append(made, program)
  /\ UNCHANGED <<map, files, writing, starts, deaths>>

Dies ==
  /\ program # "none" /\ writing # <<>> /\ deaths < map.deaths
  /\ program' = "none" /\ writing' = <<>> /\ deaths' = deaths + 1
  /\ UNCHANGED <<map, files, made, starts>>

\* A newer download takes the place of the map.
ReplacesMap ==
  /\ program = "none"
  /\ map' \in map.newer /\ made' = <<>>
  /\ UNCHANGED <<files, writing, program, starts, deaths>>

Next == StartsGenerate \/ StartsExtract \/ StartsLineGraph \/ SavesFile \/ Ends \/ Dies \/ ReplacesMap
Spec == Init /\ [][Next]_vars

-----------------------------------------------------------------------------
(***************************************************************************)
(* What the directory should say, read off the map.                        *)
(***************************************************************************)
Made(p) == \E i \in DOMAIN made : made[i] = p
Idle == program = "none"
Extracted == Idle /\ Made("generate") /\ Made("extract")

\* The map has a position for every node of its ways, and no way goes from a
\* node to itself.
MapIsWhole ==
  \A w \in {map.ways[i] : i \in DOMAIN map.ways} :
    \A i \in DOMAIN w.nodes : /\ \E e \in DOMAIN map.nodes : map.nodes[e].id = w.nodes[i]
                              /\ i > 1 => w.nodes[i] # w.nodes[i - 1]

\* What each program leaves passes the checks the script runs after it: a new
\* graph where nothing was extracted yet, what was extracted from it, and the
\* line graph of both.
EveryPhasePasses ==
  Idle /\ MapIsWhole =>
    /\ Made("generate") /\ (ConditionalNames \cup ChainNames) \cap DOMAIN files = {} => Passes(files)
    /\ Made("extract") => Passes(files)
    /\ Made("lines") => LinePasses(files)

\* Whatever a program that died and a map that was replaced left behind: where
\* the checks pass and chains are there, the line graph loads and is sound.
\* Two deaths are too many: is_arc_roundabout is not among the checks, only
\* the order of saving covers it, and it can then be a third map's.
PassedIsUsable ==
  Idle /\ deaths < 2 /\ Passes(files) /\ Present(files, ChainNames) =>
    /\ LineGraphLoads(files)
    /\ LET saved == LineGraphFiles(files)
           names == {saved[i][1] : i \in DOMAIN saved}
           line == [n \in names |-> saved[CHOOSE i \in DOMAIN saved : saved[i][1] = n][2]]
       IN  LinePasses(line @@ files)

(***************************************************************************)
(* The restrictions of the map, and what the directory makes of them.      *)
(***************************************************************************)
NodesOf(way) ==
  UNION {{map.ways[i].nodes[k] : k \in DOMAIN map.ways[i].nodes} : i \in {j \in DOMAIN map.ways : map.ways[j].id = way}}
Arcs ==
  LET m == Mapping(map, TRUE)
      node == Ascending(m.routing)
      way == Ascending(m.ways)
      g == SavedGraph(files)
  IN  [a \in DOMAIN g.head |-> [tail |-> node[g.tail[a]], head |-> node[g.head[a]], way |-> way[g.way[a]]]]

ActiveAt(i, moment) ==
  LET w == files["conditional_turn_time_windows"]
  IN  IsTimeWindowActive(SubSeq(w.packed, w.offsets[i] + 1, w.offsets[i + 1]), moment[1], moment[2])
Turn(i) == <<files["conditional_turn_from_arc"][i], files["conditional_turn_to_arc"][i]>>
Asks(r) == IF r.condition = <<>> THEN Moments ELSE Meaning[r.condition]
RawRestrictions == {Raw(map)[i] : i \in DOMAIN Raw(map)}

\* Joint k of a restriction is where its k-th way meets the next.
Joints(r) == DOMAIN r.viaWays \cup {Len(r.viaWays) + 1}
Shared(r, k) == NodesOf(ChainOfWays(r)[k]) \cap NodesOf(ChainOfWays(r)[k + 1])
TurnsAlong(arcs, r, k, n) ==
  {t \in (DOMAIN arcs) \X (DOMAIN arcs) :
     /\ arcs[t[1]].way = ChainOfWays(r)[k] /\ arcs[t[1]].head = n
     /\ arcs[t[2]].way = ChainOfWays(r)[k + 1] /\ arcs[t[2]].tail = n}
\* The turns to bind for the sake of one turn along the restriction.
ForTheSakeOf(arcs, r, turn) ==
  IF r.category = "no" THEN {turn}
  ELSE {<<turn[1], a>> : a \in {b \in DOMAIN arcs : arcs[b].tail = arcs[turn[1]].head} \ {turn[2]}}

\* The extractor numbers a via node as if only the ends and crossings of ways
\* were nodes of the graph.
Renumbered == Mapping(map, FALSE).routing # Mapping(map, TRUE).routing
Joint(r) == IF r.via = NoNode \/ Renumbered THEN Shared(r, 1) ELSE Shared(r, 1) \cap {r.via}
Clear(arcs, r) ==
  /\ \A k \in Joints(r) : Cardinality(Shared(r, k)) = 1
  /\ \A j, k \in Joints(r) : j # k => Shared(r, j) # Shared(r, k)
  /\ \A k \in Joints(r) : \A n \in Shared(r, k) : Cardinality(TurnsAlong(arcs, r, k, n)) = 1

Wanted(arcs, r) == UNION {UNION {UNION {ForTheSakeOf(arcs, r, t) : t \in TurnsAlong(arcs, r, k, n)} : n \in Shared(r, k)} : k \in Joints(r)}
Permitted(arcs, r) ==
  UNION {UNION {UNION {ForTheSakeOf(arcs, r, t) : t \in TurnsAlong(arcs, r, k, n)}
                : n \in (IF k = 1 THEN Joint(r) ELSE Shared(r, k))} : k \in Joints(r)}

\* A range from a day to the day before it, such as Mo-Su, which the comment on
\* parse_day_spec and its docs promise: the loop over the days ends before its
\* first step.  On its own such a condition binds always, whatever hours it
\* names, and in a list of days it binds on the others.
NamesWholeWeek(condition) ==
  \E p \in 1 .. Len(condition) - 2 :
    /\ IsA(condition, p, "day") /\ IsA(condition, p + 1, "dash") /\ IsA(condition, p + 2, "day")
    /\ condition[p].n = (condition[p + 2].n + 1) % 7
Misread == {r \in RawRestrictions : NamesWholeWeek(r.condition)}

\* A turn is bound only when a restriction asks for it, or where one that is
\* misread speaks of that turn.
BoundIsAskedFor(arcs) ==
  \A i \in DOMAIN files["conditional_turn_from_arc"] : \A moment \in {m \in Moments : ActiveAt(i, m)} :
    \E r \in RawRestrictions : (moment \in Asks(r) \/ r \in Misread) /\ Turn(i) \in Permitted(arcs, r)
Binds(arcs, r) ==
  \A t \in Wanted(arcs, r) : \A moment \in Asks(r) :
    \/ t \in ForbiddenPairs(files)
    \/ \E i \in DOMAIN files["conditional_turn_from_arc"] : Turn(i) = t /\ ActiveAt(i, moment)

\* A chain goes along its restriction, way after way, without a gap.
GoesAlong(arcs, chain, r) ==
  LET ways == [i \in DOMAIN chain.arcs |-> arcs[chain.arcs[i]].way]
      changes == {i \in DOMAIN ways : i = 1 \/ ways[i] # ways[i - 1]}
      inOrder == Ascending(changes)
  IN  /\ \A i \in 1 .. Len(ways) - 1 : arcs[chain.arcs[i]].head = arcs[chain.arcs[i + 1]].tail
      /\ [i \in DOMAIN inOrder |-> ways[inOrder[i]]] = ChainOfWays(r)
      /\ chain.mandatory = (r.category = "only")
Bare == {r \in RawRestrictions : r.viaWays # <<>> /\ r.condition = <<>>}
\* A walk along a way between two joints stops where the way also goes back.
Walkable(arcs, r) ==
  \A a, b \in DOMAIN arcs : a # b /\ arcs[a].way = arcs[b].way /\ arcs[a].tail = arcs[b].tail =>
    \A i \in DOMAIN r.viaWays : r.viaWays[i] # arcs[a].way
ChainsFollow(arcs) ==
  LET chains == SavedChains(files)
  IN  /\ \A i \in DOMAIN chains : \E r \in Bare : GoesAlong(arcs, chains[i], r)
      /\ \A r \in Bare : Clear(arcs, r) /\ Walkable(arcs, r) => \E i \in DOMAIN chains : GoesAlong(arcs, chains[i], r)

\* After an extraction, at every moment, no turn is bound that no restriction
\* asks for, and every restriction whose ways meet without ambiguity binds;
\* where the via node was renumbered its restriction may be lost, and a
\* restriction whose condition names the whole week as a range of days may bind
\* at other moments than it asks for.
RestrictionsBind ==
  Extracted =>
    LET arcs == Arcs
        lost == {r \in RawRestrictions : r.via # NoNode /\ Renumbered}
    IN  /\ BoundIsAskedFor(arcs) /\ ChainsFollow(arcs)
        /\ \A r \in RawRestrictions \ (Misread \cup lost) : Clear(arcs, r) => Binds(arcs, r)

\* "Resolve via-node restrictions [...] Output: one (from_arc, to_arc) pair per
\* restriction" (docs/done/Conditional Turns Implementation.md): a restriction
\* with a via node binds like any other.
ViaNodesBind ==
  Extracted =>
    LET arcs == Arcs IN \A r \in RawRestrictions : r.viaWays = <<>> /\ Clear(arcs, r) /\ r.via \in Shared(r, 1) => Binds(arcs, r)
=============================================================================
