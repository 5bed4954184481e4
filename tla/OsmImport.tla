------------------------------ MODULE OsmImport ------------------------------
(***************************************************************************)
(* A whole import: one scan finds the nodes and ways the graph is made of, *)
(* one or more scans load positions, arcs and restrictions, and the arcs   *)
(* are sorted and the turns worked out.  The callbacks run in the caller's *)
(* thread while the decompressor reads ahead.                              *)
(***************************************************************************)
EXTENDS OsmPbf, OsmGraphBuilder, TLC

CONSTANTS
  Files,     \* the files read
  Jobs       \* profile, turns (are relations read), allRouting, geometry

IsList(s) == s \in Seq(ToSet(s))
\* The entries of a speed tag are words or numbers without a sign.
SpeedsReadable(b, g) ==
  \A k \in DOMAIN g.keys :
    b.table[g.keys[k]] \in {"maxspeed", "maxspeed:motorcycle"} =>
      /\ IsList(b.table[g.values[k]])
      /\ \A e \in ToSet(b.table[g.values[k]]) : e.n \in Nat
\* Ids tell nodes and ways apart; a file that says it is sorted has its nodes
\* before its ways.
IdsDiffer(s) == \A i, j \in DOMAIN s : i # j => s[i].id # s[j].id
NodesFirst(s) == \A i, j \in DOMAIN s : s[i].kind = "way" /\ s[j].kind = "node" => j < i
SaysSorted(f) == \E i \in DOMAIN f : f[i].type = "OSMHeader" /\ f[i].sorted
ASSUME FilesAssumption ==
  \A f \in Files :
    /\ IsList(f)
    /\ \A kind \in {"node", "way"} : IdsDiffer(OfKind(DecodedTo(f, {kind}, Len(f)), kind))
    /\ SaysSorted(f) => \A kinds \in SUBSET Kinds : NodesFirst(DecodedTo(f, kinds, Len(f)))
    /\ \A i \in DOMAIN f : f[i].type = "OSMData" =>
         /\ IsList(f[i].groups)
         /\ \A g \in ToSet(f[i].groups) :
              /\ g.kind \in Kinds \cup {"dense"}
              /\ g.kind = "dense" => IsList(g.ids) /\ IsList(g.lats) /\ IsList(g.lons)
              /\ g.kind \in {"way", "relation"} => g.refs \in Seq(Int)
              /\ g.kind = "way" /\ ~TagsBroken(f[i], g.keys, g.values) => SpeedsReadable(f[i], g)
ASSUME JobsAssumption == \A j \in Jobs : j.turns \in BOOLEAN /\ j.allRouting \in BOOLEAN

VARIABLES
  job,
  phase,     \* mapping, loading, finished or failed
  mapping,   \* the ids in use
  builder,   \* the graph under construction
  graph      \* the graph handed to the caller

importVars == <<job, phase, mapping, builder, graph>>
vars == <<pbfVars, importVars>>
NoGraph == [arcs |-> <<>>]

Init ==
  /\ \E f \in Files : InitPbf(f, "unordered", {"way"})
  /\ job \in Jobs
  /\ phase = "mapping" /\ mapping = EmptyMapping
  /\ builder = EmptyBuilder(EmptyMapping) /\ graph = NoGraph

\* Without an explicit wish, turns need the ends of every arc's geometry.
Geometry == IF job.turns /\ job.geometry = "none" THEN "first_and_last" ELSE job.geometry

OnNode(e) == builder' = LoadNode(builder, mapping, e)
OnWay(e) == builder' = LoadWay(builder, mapping, job.profile, Geometry, e)
OnRelation(e) == builder' = LoadRelation(builder, job.profile, e)

MapsWay ==
  /\ phase = "mapping" /\ CallsBack
  /\ mapping' = MapWay(mapping, job.profile, job.allRouting, pending[1])
  /\ UNCHANGED <<job, phase, builder, graph>>
LoadsEntity ==
  /\ phase = "loading" /\ CallsBack
  /\ LET e == pending[1]
     IN  \/ e.kind = "node" /\ OnNode(e)
         \/ e.kind = "way" /\ OnWay(e)
         \/ e.kind = "relation" /\ OnRelation(e)
  /\ UNCHANGED <<job, phase, mapping, graph>>

Reads == (Decompress \/ SeesStatus \/ Decode \/ Throws \/ EndsScan) /\ UNCHANGED importVars

StartsLoading ==
  /\ phase = "mapping" /\ outcome = "done"
  /\ phase' = "loading" /\ builder' = EmptyBuilder(mapping)
  /\ Call("ordered", IF job.turns THEN Kinds ELSE {"node", "way"}) /\ UNCHANGED file
  /\ UNCHANGED <<job, mapping, graph>>

BuildsGraph ==
  /\ phase = "loading" /\ outcome = "done"
  /\ phase' = "finished" /\ graph' = RoutingGraph(builder, mapping, job.profile)
  /\ UNCHANGED <<job, mapping, builder, pbfVars>>

Fails ==
  /\ phase \in {"mapping", "loading"} /\ outcome = "threw"
  /\ phase' = "failed"
  /\ UNCHANGED <<job, mapping, builder, graph, pbfVars>>

Import == MapsWay \/ LoadsEntity \/ StartsLoading \/ BuildsGraph \/ Fails
Next == Reads \/ Import
Spec == Init /\ [][Next]_vars
\* Both threads keep running.
FairSpec ==
  /\ Spec
  /\ WF_<<position, inflater>>(Decompress /\ UNCHANGED importVars)
  /\ WF_<<outcome, pending, blobs, scans>>((SeesStatus \/ Decode \/ Throws \/ EndsScan) /\ UNCHANGED importVars)
  /\ WF_<<pending, phase>>(MapsWay \/ LoadsEntity \/ StartsLoading \/ Fails)

-----------------------------------------------------------------------------
(***************************************************************************)
(* What the graph should be, read off the file.                            *)
(***************************************************************************)
EntitiesOf(kind) == LET all == ContentOf(kind) IN {all[i] : i \in DOMAIN all}
UsedWays == {w \in EntitiesOf("way") : Len(w.nodes) >= 2 /\ IsWayUsed(job.profile, w.tags)}
UsedNodes == UNION {{w.nodes[i] : i \in DOMAIN w.nodes} : w \in UsedWays}
EndsWay(n) == \E w \in UsedWays : n \in {w.nodes[1], w.nodes[Len(w.nodes)]}
SeenTwice(n) ==
  \E v, w \in UsedWays : \E i \in DOMAIN v.nodes, j \in DOMAIN w.nodes :
    v.nodes[i] = n /\ w.nodes[j] = n /\ (v # w \/ i # j)
Junctions == {n \in UsedNodes : job.allRouting \/ EndsWay(n) \/ SeenTwice(n)}
PositionOf(n) ==
  LET known == {e \in EntitiesOf("node") : e.id = n}
  IN  IF known = {} THEN NoPosition ELSE LET e == CHOOSE e \in known : TRUE IN [lat |-> e.lat, lon |-> e.lon]
Places == [n \in UsedNodes |-> PositionOf(n)]

\* From one junction along the way to the next; at are the nodes' positions.
Legs(junctions, w) ==
  {l \in (DOMAIN w.nodes) \X (DOMAIN w.nodes) :
     /\ l[1] < l[2] /\ w.nodes[l[1]] \in junctions /\ w.nodes[l[2]] \in junctions
     /\ \A k \in l[1] + 1 .. l[2] - 1 : w.nodes[k] \notin junctions}
Length(at, w, l) ==
  LET steps == [i \in 1 .. l[2] - l[1] |-> GeoDist(at[w.nodes[l[1] + i]], at[w.nodes[l[1] + i - 1]])]
  IN  RunningSums(steps)[l[2] - l[1]]
Inside(at, w, l) == [i \in 1 .. l[2] - l[1] - 1 |-> at[w.nodes[l[1] + i]]]
ArcsAlong(at, junctions, profile, geometry, w) ==
  LET Leads(anti) == DirectionOf(profile, w.tags) \in {"both", IF anti THEN "backwards" ELSE "forwards"}
      Arc(l, anti) ==
        [tail |-> w.nodes[l[IF anti THEN 2 ELSE 1]], head |-> w.nodes[l[IF anti THEN 1 ELSE 2]],
         dist |-> Length(at, w, l), way |-> w.id, anti |-> anti,
         points |-> Kept(geometry, IF anti THEN Reverse(Inside(at, w, l)) ELSE Inside(at, w, l))]
  IN  {Arc(l, anti) : l \in Legs(junctions, w), anti \in {x \in BOOLEAN : Leads(x)}}

(***************************************************************************)
(* The arcs are exactly the legs of the used ways between nodes where ways *)
(* meet or end, in the open directions, with their length and geometry in  *)
(* the direction of travel, sorted: whatever order the scans found things  *)
(* in and though a node becomes a routing node only when it is seen again. *)
(***************************************************************************)
Finished == phase = "finished"
ArcsFollowTheWays ==
  Finished =>
    /\ {graph.arcs[i] : i \in DOMAIN graph.arcs} = UNION {ArcsAlong(Places, Junctions, job.profile, Geometry, w) : w \in UsedWays}
    /\ \A i \in 1 .. Len(graph.arcs) - 1 :
         ~BeforePair(<<graph.arcs[i + 1].tail, graph.arcs[i + 1].head>>, <<graph.arcs[i].tail, graph.arcs[i].head>>)

(***************************************************************************)
(* A forbidden turn is one somebody asked for: it passes through one node, *)
(* from the way of a restriction, onto the way a prohibition names or off  *)
(* the way an obligation names; and a lone obligation leaves whoever has   *)
(* to obey it a way to go (but see GoesStraight for one that names the     *)
(* same way twice).                                                        *)
(***************************************************************************)
Asked == LET all == FlattenSeq([i \in DOMAIN ContentOf("relation") |-> TurnRestrictions(job.profile, ContentOf("relation")[i])])
         IN  {all[i] : i \in DOMAIN all}
TurnsFollowTheRelations ==
  Finished /\ job.turns =>
    \A turn \in graph.forbidden :
      LET from == graph.arcs[turn[1]]
          to == graph.arcs[turn[2]]
          asking == {r \in Asked : r.from = from.way /\ r.via \in {NoNode, from.head}}
      IN  /\ from.head = to.tail
          /\ \E r \in asking : r.category = "only" \/ r.to = to.way
          /\ (\A r \in Asked : r.category = "only" /\ r.from # r.to) /\ Cardinality(asking) = 1 =>
               \E a \in DOMAIN graph.arcs : /\ graph.arcs[a].tail = from.head
                                            /\ graph.arcs[a].way = (CHOOSE r \in asking : TRUE).to
                                            /\ <<turn[1], a>> \notin graph.forbidden

\* No speed is zero or missing: travel times are divided by it.
SpeedsAreUsable ==
  job.profile \in {"car", "motorcycle"} =>
    \A w \in DOMAIN builder.values : builder.values[w] > 0 /\ builder.values[w] < InfWeight

(***************************************************************************)
(* Reading comes to an end, with every entity called back for or with an   *)
(* exception, unless the file leaves the caller waiting for a header or    *)
(* data that never comes.                                                  *)
(***************************************************************************)
ImportEnds == LearnsOrder ~> (phase \in {"finished", "failed"} \/ (phase = "loading" /\ outcome = "done"))
=============================================================================
