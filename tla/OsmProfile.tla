----------------------------- MODULE OsmProfile -----------------------------
(***************************************************************************)
(* What the tags of a way or a relation mean for cars, motorcycles,        *)
(* bicycles and pedestrians.  Tags are a function from the keys present to *)
(* their values; a speed tag is the sequence of its ;-separated entries,   *)
(* each a word, or a number with a unit.                                   *)
(***************************************************************************)
EXTENDS Integers, Sequences, SequencesExt

InfWeight == 2147483647
Has(t, k) == k \in DOMAIN t
Is(t, k, values) == k \in DOMAIN t /\ t[k] \in values
AbsentOr(t, k, values) == k \in DOMAIN t => t[k] \in values

Open == {"yes", "permissive", "delivery", "designated", "destination"}
OpenOnFoot == Open \cup {"agricultural", "forestry", "public"}
TownRoads == {"secondary", "tertiary", "unclassified", "residential", "service",
              "secondary_link", "tertiary_link", "living_street", "track", "ferry"}
MainRoads == {"motorway", "trunk", "primary", "motorway_link", "trunk_link", "primary_link", "motorway_junction"}
SlowRoads == {"path", "footway", "cycleway", "bridleway", "pedestrian", "crossing", "escape", "steps", "bicycle_road"}
NoRoads == {"construction", "footway", "cycleway", "bridleway", "pedestrian", "bus_guideway", "raceway",
            "escape", "steps", "proposed", "conveying"}

(***************************************************************************)
(* Which ways are used.                                                    *)
(***************************************************************************)
UsedByPedestrians(t) ==
  \/ Has(t, "junction")
  \/ Is(t, "route", {"ferry"}) \/ Is(t, "ferry", {"ferry"})
  \/ Is(t, "public_transport", {"stop_position", "platform", "stop_area", "station"})
  \/ Is(t, "railway", {"halt", "platform", "subway_entrance", "station", "tram_stop"})
  \/ /\ Is(t, "highway", TownRoads \cup SlowRoads \cup {"escalator", "elevator", "platform"})
     /\ AbsentOr(t, "access", OpenOnFoot)
     /\ ~Is(t, "crossing", {"no"})

Reversing == {"reversible", "alternating"}
\* An unlisted kind of highway is used when somebody gave it a speed.
SpeedSigned(t, keys) == ~Is(t, "oneway", Reversing) /\ \E k \in keys : Has(t, k)

UsedByCars(t) ==
  \/ Has(t, "junction")
  \/ Is(t, "route", {"ferry"}) \/ Is(t, "ferry", {"yes"})
  \/ /\ Has(t, "highway")
     /\ ~Is(t, "motorcar", {"no"}) /\ ~Is(t, "motor_vehicle", {"no"})
     /\ AbsentOr(t, "access", Open)
     /\ \/ t["highway"] \in MainRoads \cup TownRoads
        \/ t["highway"] = "bicycle_road" /\ Is(t, "motorcar", {"yes"})
        \/ /\ t["highway"] \notin MainRoads \cup TownRoads \cup NoRoads \cup {"bicycle_road", "path"}
           /\ SpeedSigned(t, {"maxspeed"})

\* For motorcycles the bans come before the shortcuts for junctions and ferries.
UsedByMotorcycles(t) ==
  /\ ~Is(t, "motorcycle", {"no"}) /\ ~Is(t, "motor_vehicle", {"no"})
  /\ AbsentOr(t, "access", Open) \/ Is(t, "motorcycle", {"yes"}) \/ Is(t, "motor_vehicle", {"yes"})
  /\ \/ Has(t, "junction")
     \/ Is(t, "route", {"ferry"}) \/ Is(t, "ferry", {"yes"})
     \/ Is(t, "highway", MainRoads \cup TownRoads \cup {"path"})
     \/ Is(t, "highway", {"bicycle_road"}) /\ Is(t, "motorcycle", {"yes"})
     \/ /\ Has(t, "highway")
        /\ t["highway"] \notin MainRoads \cup TownRoads \cup NoRoads \cup {"path", "bicycle_road"}
        /\ SpeedSigned(t, {"maxspeed:motorcycle", "maxspeed"})

UsedByBicycles(t) ==
  \/ Has(t, "junction")
  \/ Is(t, "route", {"ferry"}) \/ Is(t, "ferry", {"ferry"})
  \/ /\ Has(t, "highway") /\ t["highway"] # "proposed"
     /\ AbsentOr(t, "access", OpenOnFoot)
     /\ ~Is(t, "bicycle", {"no", "use_sidepath"})
     /\ \/ \E k \in {"cycleway", "cycleway:left", "cycleway:right", "cycleway:both"} : Has(t, k)
        \/ t["highway"] \in TownRoads \cup SlowRoads \cup {"primary", "primary_link"}

(***************************************************************************)
(* In which direction they are open.                                       *)
(***************************************************************************)
Forwards == {"yes", "true", "1"}
Backwards == {"-1", "reverse", "backward"}
BothWays == {"no", "false", "0"}

\* A value of oneway nobody knows leaves the way open in both directions.
CarDirection(t) ==
  CASE Is(t, "oneway", Backwards) -> "backwards"
    [] Is(t, "oneway", Forwards) -> "forwards"
    [] Is(t, "oneway", BothWays) -> "both"
    [] Is(t, "oneway", Reversing) -> "closed"
    [] ~Has(t, "oneway") /\ Is(t, "junction", {"roundabout"}) -> "forwards"
    [] ~Has(t, "oneway") /\ Is(t, "highway", {"motorway", "motorway_link"}) -> "forwards"
    [] OTHER -> "both"

MotorcycleDirection(t) ==
  CASE ~Has(t, "oneway:motorcycle") -> CarDirection(t)
    [] Is(t, "oneway:motorcycle", {"-1", "opposite"}) -> "backwards"
    [] Is(t, "oneway:motorcycle", Forwards) -> "forwards"
    [] Is(t, "oneway:motorcycle", BothWays) -> "both"
    [] OTHER -> "closed"

BicycleDirection(t) ==
  IF Is(t, "oneway:bicycle", {"-1", "opposite"}) THEN "backwards"
  ELSE IF Is(t, "oneway:bicycle", Forwards \cup {"no_planned"}) THEN "forwards"
  ELSE IF Is(t, "oneway:bicycle", BothWays \cup {"tolerated", "permissive"}) THEN "both"
  ELSE IF Has(t, "oneway:bicycle") THEN "closed"
  ELSE IF \/ AbsentOr(t, "oneway", BothWays)
          \/ Is(t, "cycleway", {"opposite", "opposite_track", "opposite_lane", "opposite_share_busway"})
          \/ Has(t, "cycleway:both")
          \/ Has(t, "cycleway:left") /\ Has(t, "cycleway:right") THEN "both"
  ELSE IF Is(t, "oneway", Backwards) THEN "backwards"
  ELSE IF Is(t, "oneway", Forwards) THEN "forwards"
  ELSE "closed"

BicycleComfort(t) ==
  IF Is(t, "highway", {"cycleway"}) THEN 4
  ELSE IF Has(t, "cycleway") THEN (IF t["cycleway"] = "track" THEN 3 ELSE 2)
  ELSE IF Is(t, "highway", {"primary", "primary_link"}) \/ Is(t, "bicycle", {"dismount"}) THEN 0
  ELSE 1

(***************************************************************************)
(* How fast they are.                                                      *)
(***************************************************************************)
WordSpeeds ==
  [none |-> 130, unlimited |-> 130, walk |-> 5, urban |-> 40, living_street |-> 10,
   rural |-> 100, national |-> 100, signals |-> InfWeight, variable |-> InfWeight]
ParseMaxspeed(e) ==
  IF e.word # "" THEN (IF e.word \in DOMAIN WordSpeeds THEN WordSpeeds[e.word] ELSE InfWeight)
  ELSE IF e.unit = "mph" THEN (e.n * 1609) \div 1000
  ELSE IF e.unit = "knots" THEN (e.n * 1852) \div 1000
  ELSE e.n

\* The slowest of the entries; a road is never at a standstill.
ParseSpeedTagAsIs(t, key) ==
  IF ~Has(t, key) THEN InfWeight ELSE Min({InfWeight} \cup {ParseMaxspeed(t[key][i]) : i \in 1 .. Len(t[key])})
ParseSpeedTag(t, key) ==
  IF ParseSpeedTagAsIs(t, key) = 0 THEN 1 ELSE ParseSpeedTagAsIs(t, key)

CarSpeeds ==
  [motorway |-> 100, motorway_link |-> 40, trunk |-> 70, trunk_link |-> 35, primary |-> 50, primary_link |-> 30,
   secondary |-> 40, secondary_link |-> 25, tertiary |-> 30, tertiary_link |-> 20, unclassified |-> 20,
   residential |-> 20, living_street |-> 10, service |-> 4, track |-> 4, ferry |-> 5]
MotorcycleSpeeds ==
  [motorway |-> 65, motorway_link |-> 40, trunk |-> 60, trunk_link |-> 30, primary |-> 55, primary_link |-> 35,
   secondary |-> 45, secondary_link |-> 25, tertiary |-> 40, tertiary_link |-> 20, unclassified |-> 30,
   residential |-> 25, living_street |-> 15, service |-> 15, track |-> 15, path |-> 15, ferry |-> 5]

DefaultSpeed(t, speeds, junctionSpeed) ==
  IF Is(t, "highway", DOMAIN speeds) THEN speeds[t["highway"]]
  ELSE IF Has(t, "junction") THEN junctionSpeed
  ELSE IF Is(t, "route", {"ferry"}) \/ Has(t, "ferry") THEN 5
  ELSE 50

CarSpeed(t) ==
  LET signed == ParseSpeedTag(t, "maxspeed")
  IN  IF signed # InfWeight THEN signed ELSE DefaultSpeed(t, CarSpeeds, 15)

MotorcycleSpeed(t) ==
  LET own == ParseSpeedTag(t, "maxspeed:motorcycle")
      signed == ParseSpeedTag(t, "maxspeed")
  IN  IF own # InfWeight THEN own
      ELSE IF signed # InfWeight THEN signed ELSE DefaultSpeed(t, MotorcycleSpeeds, 20)

(***************************************************************************)
(* Which turns a restriction relation is about.  Its value is split into   *)
(* the category (no_, only_ or neither) and the direction.                 *)
(***************************************************************************)
Directions == {"left_turn", "right_turn", "straight_on", "u_turn"}
NoNode == -1
MembersAs(r, role) == {i \in DOMAIN r.members : r.members[i].role = role}
WaysAs(r, role) == FlattenSeq([i \in DOMAIN r.members |-> IF r.members[i].role = role /\ r.members[i].type = "way" THEN <<r.members[i]>> ELSE <<>>])

Restrictions(r, value) ==
  LET vias == MembersAs(r, "via")
      from == WaysAs(r, "from")
      to == WaysAs(r, "to")
      pairs == [k \in 0 .. Len(from) * Len(to) - 1 |-> <<from[(k \div Len(to)) + 1].id, to[(k % Len(to)) + 1].id>>]
  IN  IF \/ value.category \notin {"no", "only"} \/ value.direction \notin Directions
         \/ \E i, j \in vias : i # j
         \/ \E i \in vias : r.members[i].type # "node"
         \/ from = <<>> \/ to = <<>>
         \/ value.category = "only" /\ (Len(from) # 1 \/ Len(to) # 1)
      THEN <<>>
      ELSE [k \in 1 .. Len(from) * Len(to) |->
              [category |-> value.category, direction |-> value.direction,
               from |-> pairs[k - 1][1], to |-> pairs[k - 1][2],
               via |-> IF vias = {} THEN NoNode ELSE r.members[CHOOSE i \in vias : TRUE].id]]

CarTurnRestrictions(r) == IF Has(r.tags, "restriction") THEN Restrictions(r, r.tags["restriction"]) ELSE <<>>

\* The motorcycle tag counts alone; otherwise "except" may excuse motorcycles.
MotorcycleTurnRestrictions(r) ==
  CASE Has(r.tags, "restriction:motorcycle") -> Restrictions(r, r.tags["restriction:motorcycle"])
    [] /\ ~Has(r.tags, "restriction:motorcycle") /\ Has(r.tags, "restriction")
       /\ ~(Has(r.tags, "except") /\ r.tags["except"] \cap {"motorcycle", "motor_vehicle"} # {}) ->
         Restrictions(r, r.tags["restriction"])
    [] OTHER -> <<>>

(***************************************************************************)
(* The profile an import runs with.                                        *)
(***************************************************************************)
IsWayUsed(profile, t) ==
  CASE profile = "car" -> UsedByCars(t)
    [] profile = "motorcycle" -> UsedByMotorcycles(t)
    [] profile = "bicycle" -> UsedByBicycles(t)
    [] profile = "pedestrian" -> UsedByPedestrians(t)
DirectionOf(profile, t) ==
  CASE profile = "car" -> CarDirection(t)
    [] profile = "motorcycle" -> MotorcycleDirection(t)
    [] profile = "bicycle" -> BicycleDirection(t)
    [] profile = "pedestrian" -> "both"
\* The value kept per way: a speed, or how comfortable it is to cycle on.
WayValue(profile, t) ==
  CASE profile = "car" -> CarSpeed(t)
    [] profile = "motorcycle" -> MotorcycleSpeed(t)
    [] profile = "bicycle" -> BicycleComfort(t)
    [] profile = "pedestrian" -> 0
TurnRestrictions(profile, r) ==
  CASE profile = "car" -> CarTurnRestrictions(r)
    [] profile = "motorcycle" -> MotorcycleTurnRestrictions(r)
    [] OTHER -> <<>>
=============================================================================
