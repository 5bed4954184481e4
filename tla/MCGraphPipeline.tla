--------------------------- MODULE MCGraphPipeline ---------------------------
(***************************************************************************)
(* Five or six short ways that meet at nodes 3 and 5, with interior nodes  *)
(* or without, one way or two, under every pair of restrictions of a pool, *)
(* and three maps that replace each other while programs die.              *)
(***************************************************************************)
EXTENDS GraphPipeline, TLC

Positions == <<<<4, 100>>, <<4, 101>>, <<4, 102>>, <<4, 103>>, <<4, 104>>, <<4, 105>>, <<4, 106>>, <<6, 102>>, <<2, 104>>, <<2, 102>>>>
Nodes(ids) == [i \in DOMAIN ids |-> [id |-> ids[i], lat |-> Positions[ids[i]][1], lon |-> Positions[ids[i]][2]]]

OneWay == ("highway" :> "residential") @@ ("oneway" :> "yes")
TwoWay == "highway" :> "residential"
Link == ("highway" :> "motorway_link") @@ ("oneway" :> "yes")
Way(id, nodes, tags) == [id |-> id, nodes |-> nodes, tags |-> tags]

Interior == <<Way(11, <<1, 2, 3>>, OneWay), Way(12, <<3, 4, 5>>, Link), Way(13, <<5, 6, 7>>, OneWay),
              Way(14, <<3, 8>>, TwoWay), Way(15, <<5, 9>>, OneWay)>>
Straight == <<Way(11, <<1, 3>>, OneWay), Way(12, <<3, 5>>, OneWay), Way(13, <<5, 7>>, TwoWay),
              Way(14, <<3, 8>>, OneWay), Way(15, <<5, 9>>, TwoWay)>>
Both == <<Way(11, <<1, 2, 3>>, TwoWay), Way(12, <<3, 4, 5>>, TwoWay), Way(13, <<5, 6, 7>>, TwoWay), Way(14, <<8, 3, 10>>, TwoWay)>>
TwoVias == <<Way(11, <<1, 3>>, OneWay), Way(12, <<3, 4>>, TwoWay), Way(16, <<4, 5>>, OneWay), Way(13, <<5, 6, 7>>, OneWay),
             Way(14, <<3, 8>>, OneWay)>>

Rush == <<Day(0), Dash, Day(4), Time(420), Dash, Time(540), Comma, Time(960), Dash, Time(1080)>>
Weekend == <<Day(5), Comma, Day(6)>>
Night == <<Time(1320), Dash, Time(360)>>
Around == <<Day(4), Dash, Day(0), Time(600), Dash, Time(720)>>
Daily == <<Day(0), Dash, Day(6), Time(420), Dash, Time(540)>>
Listed == <<Day(5), Comma, Day(0), Dash, Day(6)>>
Weather == <<Word>>
Markets == <<Day(5), Time(480), Dash, Time(600), Semicolon, Day(6), Time(540), Dash, Time(660)>>
Broken == <<Day(6), Time(540), Dash, Time(660), Word, Day(5)>>

Minutes == {300, 420, 539, 540, 630, 1000, 1380}
MCMoments == {0, 4, 5, 6} \X Minutes
When(P(_, _)) == {m \in MCMoments : P(m[1], m[2])}
MCMeaning ==
  (Rush :> When(LAMBDA d, t : d <= 4 /\ (t \in 420 .. 539 \/ t \in 960 .. 1079)))
  @@ (Weekend :> When(LAMBDA d, t : d >= 5))
  @@ (Night :> When(LAMBDA d, t : t >= 1320 \/ t < 360))
  @@ (Around :> When(LAMBDA d, t : d \in {4, 5, 6, 0} /\ t \in 600 .. 719))
  @@ (Daily :> When(LAMBDA d, t : t \in 420 .. 539))
  @@ (Listed :> MCMoments)
  @@ (Weather :> MCMoments)
  @@ (Markets :> When(LAMBDA d, t : (d = 5 /\ t \in 480 .. 599) \/ (d = 6 /\ t \in 540 .. 659)))
  @@ (Broken :> When(LAMBDA d, t : d = 6 /\ t \in 540 .. 659))

Member(role, type, id) == [role |-> role, type |-> type, id |-> id]
Relation(tags, from, vias, to) ==
  [restriction |-> TRUE, tags |-> tags, members |-> <<Member("from", "way", from)>> \o vias \o <<Member("to", "way", to)>>]
At(n) == <<Member("via", "node", n)>>
Along(ways) == [i \in DOMAIN ways |-> Member("via", "way", ways[i])]
Plain(c, d) == "restriction" :> [category |-> c, direction |-> d]
If(c, d, condition) == "restriction:conditional" :> [category |-> c, direction |-> d, condition |-> condition]

Everywhere ==
  {Relation(If("no", "left_turn", Rush), 11, At(3), 14), Relation(If("no", "left_turn", Around), 11, <<>>, 14),
   Relation(Plain("no", "left_turn"), 11, At(3), 14), Relation(If("no", "left_turn", Weather), 11, <<>>, 14)}
Further ==
  {Relation(If("only", "straight_on", Night), 11, At(3), 12), Relation(If("no", "u_turn", Weekend), 12, <<>>, 12),
   Relation(Plain("only", "straight_on") @@ If("no", "straight_on", Broken), 12, At(5), 13),
   Relation(Plain("only", "straight_on"), 11, Along(<<12>>), 13),
   Relation(Plain("no", "right_turn"), 11, Along(<<12>>), 15),
   Relation(If("no", "straight_on", Markets), 11, Along(<<12>>), 13),
   Relation(If("no", "left_turn", Daily), 11, <<>>, 14), Relation(If("no", "right_turn", Listed), 12, <<>>, 15),
   [Relation(Plain("no", "u_turn"), 12, At(5), 13) EXCEPT !.restriction = FALSE],
   Relation(Plain("no", "left_turn"), 14, Along(<<12, 13>>), 77)}
ThroughTwo ==
  {Relation(Plain("only", "straight_on"), 11, Along(<<12, 16>>), 13), Relation(Plain("no", "straight_on"), 11, Along(<<12, 16>>), 13),
   Relation(If("no", "straight_on", Markets), 11, Along(<<12, 16>>), 13), Relation(Plain("no", "straight_on"), 11, Along(<<16, 12>>), 13)}

Map(profile, ways, relations) ==
  [profile |-> profile, nodes |-> Nodes(<<1, 2, 3, 4, 5, 6, 7, 8, 9, 10>>), ways |-> ways, relations |-> relations,
   starts |-> 3, deaths |-> 0, newer |-> {}]

\* Three downloads, one of which another program cannot go on with.
Faulty(m, next) == [m EXCEPT !.starts = 5, !.deaths = 2, !.newer = next]
Small == Faulty(Map("car", SubSeq(Straight, 1, 2), <<>>), {})
Larger == Faulty(Map("motorcycle", SubSeq(Interior, 1, 4), <<Relation(If("no", "left_turn", Rush), 11, <<>>, 14)>>), {Small})
First == Faulty(Map("car", Straight, <<Relation(Plain("only", "straight_on"), 11, Along(<<12>>), 13)>>), {Larger})
Holed == [Map("car", Interior, <<>>) EXCEPT !.nodes = Nodes(<<1, 2>>)]

MCMaps ==
  {Map("car", ways, <<r, s>>) : ways \in {Interior, Straight, Both}, r \in Everywhere, s \in Everywhere \cup Further}
  \cup {Map("motorcycle", ways, <<r, s>>) : ways \in {Interior, Straight}, r, s \in Further}
  \cup {Map("car", TwoVias, <<r, s>>) : r, s \in ThroughTwo}
  \cup {First, Larger, Holed, Map("car", <<>>, <<>>)}

\* One restriction each, for what the extractor makes of it.
Alone(r) == {Map("car", ways, <<r>>) : ways \in {Interior, Both}}
ViaNodeMaps == Alone(Relation(If("no", "left_turn", Rush), 11, At(3), 14))
=============================================================================
