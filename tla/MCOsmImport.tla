----------------------------- MODULE MCOsmImport -----------------------------
(***************************************************************************)
(* Small maps: two or three ways over seven nodes with one relation, with  *)
(* every pair of tags of the pool, and one map in every arrangement of     *)
(* blocks, sound and broken.                                               *)
(***************************************************************************)
EXTENDS OsmImport

Differences(ids) == [i \in DOMAIN ids |-> ids[i] - (IF i = 1 THEN 0 ELSE ids[i - 1])]

Zero == <<[word |-> "", n |-> 0, unit |-> ""]>>
Twenty == <<[word |-> "", n |-> 20, unit |-> "mph"], [word |-> "signals", n |-> 0, unit |-> ""]>>
Table == <<"highway", "oneway", "maxspeed", "junction", "restriction",
           "residential", "motorway", "proposed", "yes", "reverse", "reversible", "roundabout",
           Zero, Twenty,
           [category |-> "no", direction |-> "left_turn"], [category |-> "only", direction |-> "straight_on"],
           [category |-> "only", direction |-> "right_turn"], [category |-> "no", direction |-> "u_turn"],
           "from", "via", "to">>
Block == [type |-> "OSMData", blob |-> "zlib", table |-> Table, latOffset |-> 0, lonOffset |-> 0,
          granularity |-> 1, groups |-> <<>>]
Header == [type |-> "OSMHeader", supported |-> TRUE, sorted |-> FALSE]

\* Node 1 in the middle, 2 to 5 around it, 6 and 7 between.
Lats == <<0, 0, 4, 0, -4, 0, 3>>
Lons == <<0, -4, 0, 4, 0, 2, 1>>
Dense == [kind |-> "dense", ids |-> Differences(<<1, 2, 3, 4, 5, 6>>),
          lats |-> Differences(SubSeq(Lats, 1, 6)), lons |-> Differences(SubSeq(Lons, 1, 6))]
Sparse == [kind |-> "node", id |-> 7, lat |-> Lats[7], lon |-> Lons[7], keys |-> <<>>, values |-> <<>>]

\* Keys and values as positions in the table.
Tags == <<[k |-> <<1>>, v |-> <<6>>], [k |-> <<1>>, v |-> <<7>>], [k |-> <<1, 2>>, v |-> <<6, 10>>],
          [k |-> <<1, 2>>, v |-> <<6, 11>>], [k |-> <<1, 3>>, v |-> <<6, 13>>], [k |-> <<1, 3>>, v |-> <<7, 14>>],
          [k |-> <<1>>, v |-> <<8>>]>>
Way(id, nodes, t) == [kind |-> "way", id |-> id, keys |-> t.k, values |-> t.v, refs |-> Differences(nodes)]
Relation(v, from, to, via) ==
  LET via1 == IF via = 0 THEN <<>> ELSE <<via>>
      ids == <<from>> \o via1 \o <<to>>
  IN  [kind |-> "relation", id |-> 1, keys |-> <<5>>, values |-> <<v>>, refs |-> Differences(ids),
       types |-> IF via = 0 THEN <<"way", "way">> ELSE <<"way", "node", "way">>,
       roles |-> IF via = 0 THEN <<19, 21>> ELSE <<19, 20, 21>>]

East == <<2, 1, 6, 4>>
North == <<5, 1, 7, 3>>
Loop == <<4, 3, 7, 1>>
Relations == {Relation(15, 11, 12, 1), Relation(16, 11, 12, 1), Relation(17, 11, 12, 0), Relation(18, 11, 11, 1),
              Relation(15, 12, 13, 0), Relation(17, 13, 11, 1), Relation(16, 12, 12, 0)}
MapOf(north, s, t, r) ==
  <<[Block EXCEPT !.groups = <<Dense, Sparse, Way(11, East, Tags[s]), Way(12, north, Tags[t]),
                               Way(13, Loop, Tags[1]), r>>]>>

N == [Block EXCEPT !.groups = <<Dense, Sparse>>]
W == [Block EXCEPT !.groups = <<Way(11, East, Tags[1]), Way(12, North, Tags[1])>>]
R == [Block EXCEPT !.groups = <<Relation(15, 11, 12, 1)>>, !.blob = "raw"]
Short == [Block EXCEPT !.groups = <<[Dense EXCEPT !.lats = SubSeq(@, 1, 3)]>>]
Coarse == [Block EXCEPT !.granularity = 0]
Untagged == [Block EXCEPT !.groups = <<[Way(11, East, Tags[1]) EXCEPT !.values = <<>>]>>]
Unknown == [Block EXCEPT !.groups = <<[Relation(15, 11, 12, 1) EXCEPT !.types[1] = "changeset"]>>]
BothBlobs == [Block EXCEPT !.blob = "both"]
Other == [type |-> "OSMIndex"]
Arrangements ==
  {<<Header, N, W, R>>, <<N, W, R>>, <<R, W, N>>, <<Header, R, N, W>>, <<W, Header, N>>, <<Header, Header, N>>,
   <<[Header EXCEPT !.sorted = TRUE], N, W, R>>, <<[Header EXCEPT !.supported = FALSE], N>>,
   <<Header, Other, N, W>>, <<Header, W, Short>>, <<Coarse, W>>, <<N, Untagged>>, <<N, W, Unknown>>,
   <<W, BothBlobs>>, <<Other>>, <<>>}

CONSTANT MaxTags
MCFiles ==
  Arrangements
  \cup {MapOf(North, s, t, r) : s, t \in 1 .. MaxTags, r \in Relations}
Job(p, turns, all, g) == [profile |-> p, turns |-> turns, allRouting |-> all, geometry |-> g]
MCJobs == {Job("car", TRUE, FALSE, "none"), Job("motorcycle", TRUE, FALSE, "uncompressed"),
           Job("bicycle", FALSE, FALSE, "uncompressed"), Job("pedestrian", FALSE, TRUE, "none")}
=============================================================================
