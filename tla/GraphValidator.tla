---------------------------- MODULE GraphValidator ----------------------------
(***************************************************************************)
(* validate_graph: the checks on a directory, a function from the names of *)
(* the files that exist to their contents.  Arcs and nodes are numbered    *)
(* from 1.  The line graph's files have names that start with "line".      *)
(***************************************************************************)
EXTENDS Integers, Sequences
LOCAL INSTANCE FiniteSets
LOCAL INSTANCE FiniteSetsExt

Present(dir, names) == names \subseteq DOMAIN dir
NodeCount(dir) == IF dir["first_out"] = <<>> THEN 0 ELSE Len(dir["first_out"]) - 1
ArcCount(dir) == Len(dir["head"])
Pairs(from, to) == {<<from[i], to[i]>> : i \in DOMAIN from \cap DOMAIN to}
ForbiddenPairs(dir) == Pairs(dir["forbidden_turn_from_arc"], dir["forbidden_turn_to_arc"])
ConditionalPairs(dir) == Pairs(dir["conditional_turn_from_arc"], dir["conditional_turn_to_arc"])

BuildTail(firstOut, arcCount) ==
  [a \in 1 .. arcCount |->
     LET owners == {v \in 1 .. Len(firstOut) - 1 : firstOut[v] < a /\ a <= firstOut[v + 1]}
     IN  IF owners = {} THEN 1 ELSE Max(owners)]

Required == {"first_out", "head", "travel_time", "geo_distance", "latitude", "longitude",
             "forbidden_turn_from_arc", "forbidden_turn_to_arc"}
ConditionalNames == {"conditional_turn_from_arc", "conditional_turn_to_arc", "conditional_turn_time_windows"}
ChainNames == {"via_way_chain_offsets", "via_way_chain_arcs", "via_way_chain_mandatory"}

Monotonic(offsets) == \A i \in 1 .. Len(offsets) - 1 : offsets[i] <= offsets[i + 1]
OffsetsFit(offsets, count) ==
  offsets # <<>> /\ offsets[1] = 0 /\ offsets[Len(offsets)] = count /\ Monotonic(offsets)
SortedPairs(from, to) ==
  /\ Len(from) = Len(to)
  /\ \A i \in 1 .. Len(from) - 1 : from[i] < from[i + 1] \/ (from[i] = from[i + 1] /\ to[i] <= to[i + 1])
PairsInBounds(from, to, count) == Len(from) = Len(to) /\ \A p \in Pairs(from, to) : p[1] \in 1 .. count /\ p[2] \in 1 .. count

(***************************************************************************)
(* The graph.                                                              *)
(***************************************************************************)
CSRStructure(dir) == OffsetsFit(dir["first_out"], ArcCount(dir))
HeadBounds(dir) == \A a \in DOMAIN dir["head"] : dir["head"][a] \in 1 .. NodeCount(dir)
Sound(dir) == CSRStructure(dir) /\ HeadBounds(dir)
NoSelfLoops(dir) ==
  LET tail == BuildTail(dir["first_out"], ArcCount(dir)) IN \A a \in DOMAIN tail : tail[a] # dir["head"][a]
VectorLengths(dir) ==
  /\ Len(dir["travel_time"]) = ArcCount(dir) /\ Len(dir["geo_distance"]) = ArcCount(dir)
  /\ Len(dir["latitude"]) = NodeCount(dir) /\ Len(dir["longitude"]) = NodeCount(dir)
CoordinateSanity(dir) ==
  \A i \in DOMAIN dir["latitude"] \cap DOMAIN dir["longitude"] :
    dir["latitude"][i] \in 0 .. 30 /\ dir["longitude"][i] \in 100 .. 115
TurnSorting(dir) == SortedPairs(dir["forbidden_turn_from_arc"], dir["forbidden_turn_to_arc"])
TurnBounds(dir) == PairsInBounds(dir["forbidden_turn_from_arc"], dir["forbidden_turn_to_arc"], ArcCount(dir))

(***************************************************************************)
(* Conditional turns and chains, where any of their files is there.        *)
(***************************************************************************)
ConditionalConsistency(dir) == Len(dir["conditional_turn_from_arc"]) = Len(dir["conditional_turn_to_arc"])
ConditionalBounds(dir) == PairsInBounds(dir["conditional_turn_from_arc"], dir["conditional_turn_to_arc"], ArcCount(dir))
ConditionalSorting(dir) == SortedPairs(dir["conditional_turn_from_arc"], dir["conditional_turn_to_arc"])

\* The file has one offset more than there are turns, four bytes each, and
\* five bytes per window.  A reader that expects more offsets takes windows
\* for offsets; no such file adds up.
WindowsIntegrity(dir) ==
  LET offsets == dir["conditional_turn_time_windows"].offsets
      expected == Len(dir["conditional_turn_from_arc"]) + 1
      size == 4 * Len(offsets) + 5 * Len(dir["conditional_turn_time_windows"].packed)
  IN  /\ expected <= Len(offsets)
      /\ Monotonic(SubSeq(offsets, 1, expected))
      /\ 4 * expected + 5 * offsets[expected] = size
NoOverlap(dir) ==
  Len(dir["forbidden_turn_from_arc"]) = Len(dir["forbidden_turn_to_arc"]) /\ ConditionalConsistency(dir)
    => ForbiddenPairs(dir) \cap ConditionalPairs(dir) = {}

ChainCount(dir) == IF dir["via_way_chain_offsets"] = <<>> THEN 0 ELSE Len(dir["via_way_chain_offsets"]) - 1
ChainStructure(dir) == OffsetsFit(dir["via_way_chain_offsets"], Len(dir["via_way_chain_arcs"]))
ChainMandatory(dir) == Len(dir["via_way_chain_mandatory"]) = ChainCount(dir)
ChainBounds(dir) == \A i \in DOMAIN dir["via_way_chain_arcs"] : dir["via_way_chain_arcs"][i] \in 1 .. ArcCount(dir)
ChainLengths(dir) ==
  ChainStructure(dir) =>
    \A i \in 1 .. ChainCount(dir) : dir["via_way_chain_offsets"][i + 1] - dir["via_way_chain_offsets"][i] >= 3

ConditionalPass(dir) ==
  ConditionalNames \cap DOMAIN dir # {} =>
    /\ Present(dir, ConditionalNames)
    /\ ConditionalConsistency(dir) /\ ConditionalBounds(dir) /\ ConditionalSorting(dir)
    /\ WindowsIntegrity(dir) /\ NoOverlap(dir)
ChainsPassUncounted(dir) ==
  ChainNames \cap DOMAIN dir # {} =>
    Present(dir, ChainNames) /\ ChainStructure(dir) /\ ChainBounds(dir) /\ ChainLengths(dir)
ChainsPass(dir) ==
  ChainNames \cap DOMAIN dir # {} =>
    /\ Present(dir, ChainNames)
    /\ ChainStructure(dir) /\ ChainMandatory(dir) /\ ChainBounds(dir) /\ ChainLengths(dir)

\* Self-loops are looked for only in a sound graph; a check that is skipped
\* or only warns (travel times, isolated nodes, connectivity) fails nothing.
Passes(dir) ==
  /\ Present(dir, Required)
  /\ Sound(dir) /\ NoSelfLoops(dir) /\ VectorLengths(dir) /\ CoordinateSanity(dir)
  /\ TurnSorting(dir) /\ TurnBounds(dir)
  /\ ConditionalPass(dir) /\ ChainsPass(dir)

(***************************************************************************)
(* The line graph: its nodes are the arcs, then the copies of the map.     *)
(***************************************************************************)
LineRequired == {"line/first_out", "line/head"}
SplitMap(dir) == IF "line/via_way_split_map" \in DOMAIN dir THEN dir["line/via_way_split_map"] ELSE <<>>
ResolveToOriginalArc(dir, n) ==
  IF n > ArcCount(dir) /\ n - ArcCount(dir) <= Len(SplitMap(dir)) THEN SplitMap(dir)[n - ArcCount(dir)] ELSE n
LineNodeCount(dir) == Len(dir["line/first_out"]) - 1 = ArcCount(dir) + Len(SplitMap(dir))
SplitMapIsValid(dir) == \A i \in DOMAIN SplitMap(dir) : SplitMap(dir)[i] \in 1 .. ArcCount(dir)
Transitions(dir) ==
  LET tail == BuildTail(dir["line/first_out"], Len(dir["line/head"]))
  IN  {<<ResolveToOriginalArc(dir, tail[e]), ResolveToOriginalArc(dir, dir["line/head"][e])>> : e \in DOMAIN tail}
NoForbiddenTransition(dir) == Transitions(dir) \cap ForbiddenPairs(dir) = {}
TransitionsJoin(dir) ==
  LET tail == BuildTail(dir["first_out"], ArcCount(dir))
  IN  \A t \in Transitions(dir) : /\ t[1] \in 1 .. ArcCount(dir) /\ t[2] \in 1 .. ArcCount(dir)
                                  /\ dir["head"][t[1]] = tail[t[2]]
LinePasses(dir) ==
  /\ Present(dir, LineRequired) /\ LineNodeCount(dir) /\ SplitMapIsValid(dir)
  /\ Sound(dir) => NoForbiddenTransition(dir) /\ TransitionsJoin(dir)
=============================================================================
