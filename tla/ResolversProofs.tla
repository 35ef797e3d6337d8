-------------------------- MODULE ResolversProofs --------------------------
(***************************************************************************)
(* Proofs about Resolvers, for all characters, places, people and bounds:  *)
(* its types, the names and the nesting of the places in the rows, what is *)
(* cached for all characters, and that a known location stays known.       *)
(*                                                                         *)
(* A row is what the copy was when the last request of a refresh ended, so *)
(* the invariant is about the copy under way: which of its levels wait for *)
(* an answer is told by the request that the worker waits for, and all the *)
(* others are as in a row.                                                 *)
(***************************************************************************)
EXTENDS Resolvers, SequenceTheorems, TLAPS

-----------------------------------------------------------------------------
(* Copies of the places of a character, as values.                         *)

(* How a place may be called once the citadels in den have refused.        *)
Called(den, l, id) == IF l = "dock" /\ id \in den THEN {id, -id} ELSE {id}

(* The levels whose name or whose next level is being asked for.           *)
Pending(at) ==
  IF at \in {"structure", "station"} THEN {"dock"}
  ELSE IF at \in {"system", "constellation", "region"} THEN {at} ELSE {}

(* The levels not in pend of a copy are called by their names, and nest.   *)
Sound(copy) ==
  /\ copy \in Places
  /\ copy.id["system"] \in Systems \cup {0}
  /\ copy.id["constellation"] \in Constellations \cup {0}

NamedWell(copy, pend, den) ==
  \A l \in Levels \ (copy.missed \cup pend) :
    copy.id[l] # 0 => copy.name[l] \in Called(den, l, copy.id[l])

NestsWell(copy, pend) ==
  /\ copy.id["system"] # 0 /\ "system" \notin copy.missed \cup pend =>
       copy.id["constellation"] = ConstellationOf[copy.id["system"]]
  /\ copy.id["constellation"] # 0 /\ "constellation" \notin copy.missed \cup pend =>
       copy.id["region"] = RegionOf[copy.id["constellation"]]

CopyOK(copy, pend, den) ==
  Sound(copy) /\ NamedWell(copy, pend, den) /\ NestsWell(copy, pend)

LEMMA LevelNames == Levels = {"dock", "system", "constellation", "region"}
BY DEF Levels

LEMMA PlaceTypes ==
  ASSUME NEW copy \in Places
  PROVE  /\ copy.id \in [Levels -> Nat] /\ copy.name \in [Levels -> Int]
         /\ copy.missed \in SUBSET Levels
         /\ copy = [id |-> copy.id, name |-> copy.name, missed |-> copy.missed]
BY DEF Places

(* What the setters of an id and of a name make of a copy.                 *)
LEMMA GoFacts ==
  ASSUME NEW copy \in Places, NEW level \in Levels, NEW id \in Nat
  PROVE  /\ Go(copy, level, id) \in Places
         /\ Go(copy, level, id).id[level] = id
         /\ \A l \in Levels \ {level} : Go(copy, level, id).id[l] = copy.id[l]
         /\ Go(copy, level, id).name = copy.name
         /\ copy.missed \ {level} \subseteq Go(copy, level, id).missed
         /\ copy.id[level] # id => level \notin Go(copy, level, id).missed
         /\ copy.id[level] = id => Go(copy, level, id) = copy
<1>1. CASE id = copy.id[level]
  BY <1>1 DEF Go
<1>2. CASE id # copy.id[level]
  <2>1. PICK ids : ids = [copy.id EXCEPT ![level] = id]
    OBVIOUS
  <2>2. ids \in [Levels -> Nat] /\ ids[level] = id
        /\ \A l \in Levels \ {level} : ids[l] = copy.id[l]
    BY <2>1, PlaceTypes
  <2>3. Go(copy, level, id) =
          [id |-> ids, name |-> copy.name, missed |-> copy.missed \ {level}]
    <3>1. [copy EXCEPT !.id[level] = id, !.missed = @ \ {level}] =
            [[copy EXCEPT !.id = ids] EXCEPT !.missed = @ \ {level}]
      BY <2>1, PlaceTypes
    <3>2. PICK c : c = [copy EXCEPT !.id = ids]
      OBVIOUS
    <3>3. c = [id |-> ids, name |-> copy.name, missed |-> copy.missed]
      BY <3>2, PlaceTypes
    <3>4. [c EXCEPT !.missed = @ \ {level}] =
            [id |-> ids, name |-> copy.name, missed |-> copy.missed \ {level}]
      BY <3>3
    <3>5. Go(copy, level, id) = [c EXCEPT !.missed = @ \ {level}]
      BY <1>2, <3>1, <3>2 DEF Go
    <3>6. QED
      BY <3>4, <3>5
  <2>4. Go(copy, level, id) \in Places
    BY <2>2, <2>3, PlaceTypes DEF Places
  <2>5. QED
    BY <1>2, <2>2, <2>3, <2>4
<1>3. QED
  BY <1>1, <1>2

LEMMA NameFacts ==
  ASSUME NEW copy \in Places, NEW level \in Levels, NEW n \in Int
  PROVE  /\ Name(copy, level, n) \in Places
         /\ Name(copy, level, n).id = copy.id
         /\ Name(copy, level, n).name[level] = n
         /\ \A l \in Levels \ {level} : Name(copy, level, n).name[l] = copy.name[l]
         /\ Name(copy, level, n).missed = copy.missed
<1>1. PICK called : called = [copy.name EXCEPT ![level] = n]
  OBVIOUS
<1>2. called \in [Levels -> Int] /\ called[level] = n
      /\ \A l \in Levels \ {level} : called[l] = copy.name[l]
  BY <1>1, PlaceTypes
<1>3. Name(copy, level, n) =
        [id |-> copy.id, name |-> called, missed |-> copy.missed]
  BY <1>1, PlaceTypes DEF Name
<1>4. Name(copy, level, n) \in Places
  BY <1>2, <1>3, PlaceTypes DEF Places
<1>5. QED
  BY <1>2, <1>3, <1>4

LEMMA MissFacts ==
  ASSUME NEW copy \in Places, NEW level \in Levels
  PROVE  /\ Miss(copy, level) \in Places
         /\ Miss(copy, level).id = copy.id
         /\ Miss(copy, level).name = copy.name
         /\ Miss(copy, level).missed = copy.missed \cup {level}
<1>1. Miss(copy, level) =
        [id |-> copy.id, name |-> copy.name, missed |-> copy.missed \cup {level}]
  BY PlaceTypes DEF Miss
<1>2. Miss(copy, level) \in Places
  BY <1>1, PlaceTypes DEF Places
<1>3. QED
  BY <1>1, <1>2

(* A copy stays well when more citadels have refused.                      *)
LEMMA MoreDenied ==
  ASSUME NEW copy, NEW pend, NEW den, NEW more, den \subseteq more,
         CopyOK(copy, pend, den)
  PROVE  CopyOK(copy, pend, more)
BY DEF CopyOK, NamedWell, Called

(* The dock is set, and its name is asked for.                             *)
LEMMA DockSet ==
  ASSUME NEW copy, NEW den, NEW d \in Docks \cup {0}, CopyOK(copy, {}, den)
  PROVE  /\ CopyOK(Go(copy, "dock", d), {"dock"}, den)
         /\ copy.id["dock"] = d \/ d = 0 => CopyOK(Go(copy, "dock", d), {}, den)
         /\ Go(copy, "dock", d).id["dock"] = d
<1> DEFINE new == Go(copy, "dock", d)
<1>1. copy \in Places /\ "dock" \in Levels /\ d \in Nat
  <2>1. copy \in Places
    BY DEF CopyOK, Sound
  <2>2. d \in Nat
    BY DocksAssumption
  <2>3. QED
    BY <2>1, <2>2, LevelNames
<1>2. /\ new \in Places /\ new.id["dock"] = d
      /\ \A l \in Levels \ {"dock"} : new.id[l] = copy.id[l]
      /\ new.name = copy.name
      /\ copy.missed \ {"dock"} \subseteq new.missed
      /\ copy.id["dock"] = d => new = copy
  BY <1>1, GoFacts
<1> HIDE DEF new
<1>3. /\ new.id["system"] = copy.id["system"]
      /\ new.id["constellation"] = copy.id["constellation"]
      /\ new.id["region"] = copy.id["region"]
  BY <1>2, LevelNames
<1>4. Sound(new)
  BY <1>2, <1>3 DEF CopyOK, Sound
<1>5. NestsWell(new, {"dock"}) /\ NestsWell(new, {})
  BY <1>2, <1>3 DEF CopyOK, NestsWell
<1>6. NamedWell(new, {"dock"}, den)
  BY <1>2 DEF CopyOK, NamedWell
<1>7. ASSUME d = 0
      PROVE  NamedWell(new, {}, den)
  BY <1>2, <1>6, <1>7 DEF NamedWell
<1>8. copy.id["dock"] = d \/ d = 0 => CopyOK(new, {}, den)
  BY <1>2, <1>4, <1>5, <1>7 DEF CopyOK
<1>9. QED
  BY <1>2, <1>4, <1>5, <1>6, <1>8 DEF CopyOK, new

(* The system is set, and asked for.                                       *)
LEMMA SystemSet ==
  ASSUME NEW copy, NEW den, NEW s \in Systems, CopyOK(copy, {}, den)
  PROVE  /\ CopyOK(Go(copy, "system", s), {"system"}, den)
         /\ Go(copy, "system", s).id["system"] = s
<1> DEFINE new == Go(copy, "system", s)
<1>1. copy \in Places /\ "system" \in Levels /\ s \in Nat
  BY DocksAssumption, LevelNames DEF CopyOK, Sound
<1>2. /\ new \in Places /\ new.id["system"] = s
      /\ \A l \in Levels \ {"system"} : new.id[l] = copy.id[l]
      /\ new.name = copy.name
      /\ copy.missed \ {"system"} \subseteq new.missed
  BY <1>1, GoFacts
<1> HIDE DEF new
<1>3. /\ new.id["constellation"] = copy.id["constellation"]
      /\ new.id["region"] = copy.id["region"]
  BY <1>2, LevelNames
<1>4. Sound(new)
  BY <1>2, <1>3 DEF CopyOK, Sound
<1>5. NestsWell(new, {"system"})
  BY <1>2, <1>3 DEF CopyOK, NestsWell
<1>6. NamedWell(new, {"system"}, den)
  BY <1>2 DEF CopyOK, NamedWell
<1>7. QED
  BY <1>2, <1>4, <1>5, <1>6 DEF CopyOK, new

(* The name of the dock has come, or has not.                              *)
LEMMA DockNamed ==
  ASSUME NEW copy, NEW den, CopyOK(copy, {"dock"}, den), NEW n \in Int,
         n \in Called(den, "dock", copy.id["dock"])
  PROVE  CopyOK(Name(copy, "dock", n), {}, den)
<1> DEFINE new == Name(copy, "dock", n)
<1>0. copy \in Places /\ "dock" \in Levels
  BY LevelNames DEF CopyOK, Sound
<1>1. /\ new \in Places /\ new.id = copy.id /\ new.name["dock"] = n
      /\ \A l \in Levels \ {"dock"} : new.name[l] = copy.name[l]
      /\ new.missed = copy.missed
  BY <1>0, NameFacts
<1> HIDE DEF new
<1>2. Sound(new) /\ NestsWell(new, {})
  BY <1>1 DEF CopyOK, Sound, NestsWell
<1>3. NamedWell(new, {}, den)
  BY <1>1 DEF CopyOK, NamedWell
<1>4. QED
  BY <1>2, <1>3 DEF CopyOK, new

LEMMA LevelMissed ==
  ASSUME NEW copy, NEW den, NEW level \in Levels, CopyOK(copy, {level}, den)
  PROVE  CopyOK(Miss(copy, level), {}, den)
<1> DEFINE new == Miss(copy, level)
<1>1. /\ new \in Places /\ new.id = copy.id /\ new.name = copy.name
      /\ new.missed = copy.missed \cup {level}
  BY MissFacts DEF CopyOK, Sound
<1> HIDE DEF new
<1>2. Sound(new) /\ NestsWell(new, {}) /\ NamedWell(new, {}, den)
  BY <1>1 DEF CopyOK, Sound, NestsWell, NamedWell
<1>3. QED
  BY <1>2 DEF CopyOK, new

(* A system, a constellation or a region has its name, and the next level  *)
(* its id.                                                                 *)
LEMMA LevelNamed ==
  ASSUME NEW copy, NEW den, NEW level \in Levels \ {"dock"},
         CopyOK(copy, {level}, den), den \subseteq Structures
  PROVE  LET named == Name(copy, level, copy.id[level]) IN
         /\ Sound(named) /\ named.id = copy.id /\ named.missed = copy.missed
         /\ NamedWell(named, {}, den)
         /\ NestsWell(named, {level})
<1>1. PICK named : named = Name(copy, level, copy.id[level])
  OBVIOUS
<1>2. copy \in Places /\ copy.id[level] \in Int
  BY PlaceTypes DEF CopyOK, Sound
<1>3. /\ named \in Places /\ named.id = copy.id
      /\ named.name[level] = copy.id[level]
      /\ \A l \in Levels \ {level} : named.name[l] = copy.name[l]
      /\ named.missed = copy.missed
  BY <1>1, <1>2, NameFacts
<1>4. Sound(named) /\ NestsWell(named, {level})
  BY <1>3 DEF CopyOK, Sound, NestsWell
<1>5. copy.id[level] \in Called(den, level, copy.id[level])
  BY DEF Called
<1>6. NamedWell(named, {}, den)
  BY <1>3, <1>5 DEF CopyOK, NamedWell
<1>7. QED
  BY <1>1, <1>3, <1>4, <1>6

-----------------------------------------------------------------------------
(* What the worker is at.                                                  *)

Ats == Levels \cup {"idle", "location", "structure", "station", "typing", "ship"}
Tasks == [kind : {"none", "location", "guess"}, who : Chars \cup {0}, at : Ats,
          dock : Docks \cup {0}, system : Systems \cup {0}, copy : Places]

(* A location that waits at a place of its refresh.                        *)
Locating(t, den) ==
  /\ t.kind = "location" /\ t.who \in Located
  /\ t.at \in {"location", "structure", "station", "system", "constellation",
               "region", "ship"}
  /\ CopyOK(t.copy, Pending(t.at), den)
  /\ t.at \in {"structure", "station"} =>
       t.copy.id["dock"] = t.dock /\ t.system \in Systems
  /\ t.at \in {"system", "constellation"} => t.copy.id[t.at] # 0

Asking(t) ==
  /\ t.at = "structure" => t.dock \in Structures
  /\ t.at = "station" => t.dock \in Stations
  /\ t.at = "typing" => t.dock \in Docks

TaskOK(t, den) ==
  /\ t \in Tasks
  /\ \/ t.kind = "none" /\ t.at = "idle"
     \/ t.kind = "guess" /\ t.at \in {"typing", "structure", "station"}
     \/ Locating(t, den)
  /\ Asking(t)

(* A task that is told the location of d.                                  *)
Ready(t, d, den) ==
  /\ t \in Tasks
  /\ \/ t.kind = "guess"
     \/ /\ t.kind = "location" /\ t.who \in Located /\ t.system \in Systems
        /\ t.copy.id["dock"] = d
        /\ CopyOK(t.copy, {"dock"}, den)

LEMMA TaskTypes ==
  ASSUME NEW t \in Tasks
  PROVE  /\ t.kind \in {"none", "location", "guess"} /\ t.who \in Chars \cup {0}
         /\ t.at \in Ats /\ t.dock \in Docks \cup {0}
         /\ t.system \in Systems \cup {0} /\ t.copy \in Places
         /\ t = [kind |-> t.kind, who |-> t.who, at |-> t.at, dock |-> t.dock,
                 system |-> t.system, copy |-> t.copy]
BY DEF Tasks

LEMMA IdleOK == ASSUME NEW den PROVE TaskOK(Idle, den)
<1>1. Nowhere \in Places
  BY DEF Nowhere, Places
<1>2. Idle \in Tasks
  BY <1>1 DEF Idle, Tasks, Ats
<1>3. QED
  BY <1>2 DEF Idle, TaskOK, Asking

LEMMA OnwardOK ==
  ASSUME NEW t \in Tasks, NEW den, t.kind = "location", t.who \in Located,
         t.system \in Systems, CopyOK(t.copy, {}, den)
  PROVE  TaskOK(Onward(t), den) /\ Onward(t).at \in {"system", "ship"}
<1>1. CASE t.copy.id["system"] # t.system
  <2>1. PICK c : c = Go(t.copy, "system", t.system)
    OBVIOUS
  <2>2. CopyOK(c, {"system"}, den) /\ c.id["system"] = t.system
    BY <2>1, SystemSet
  <2>3. PICK new : new = [t EXCEPT !.copy = c, !.at = "system"]
    OBVIOUS
  <2>4. /\ new.kind = "location" /\ new.who = t.who /\ new.at = "system"
        /\ new.copy = c
    BY <2>3, TaskTypes
  <2>5. new \in Tasks
    <3>1. c \in Places /\ "system" \in Ats
      BY <2>2, LevelNames DEF CopyOK, Sound, Ats
    <3>2. QED
      BY <2>3, <3>1, TaskTypes DEF Tasks
  <2>6. t.system # 0
    BY DocksAssumption
  <2>7. Pending("system") = {"system"}
    BY DEF Pending
  <2>8. Locating(new, den)
    BY <2>2, <2>4, <2>6, <2>7 DEF Locating
  <2>9. TaskOK(new, den)
    BY <2>4, <2>5, <2>8 DEF TaskOK, Asking
  <2>10. Onward(t) = new
    BY <1>1, <2>1, <2>3 DEF Onward
  <2>11. QED
    BY <2>4, <2>9, <2>10
<1>2. CASE t.copy.id["system"] = t.system
  <2>1. PICK new : new = [t EXCEPT !.at = "ship"]
    OBVIOUS
  <2>2. /\ new.kind = "location" /\ new.who = t.who /\ new.at = "ship"
        /\ new.copy = t.copy
    BY <2>1, TaskTypes
  <2>3. new \in Tasks
    BY <2>1, TaskTypes DEF Tasks, Ats
  <2>4. Locating(new, den)
    BY <2>2 DEF Locating, Pending
  <2>5. TaskOK(new, den)
    BY <2>2, <2>3, <2>4 DEF TaskOK, Asking
  <2>6. Onward(t) = new
    BY <1>2, <2>1 DEF Onward
  <2>7. QED
    BY <2>2, <2>5, <2>6
<1>3. QED
  BY <1>1, <1>2

LEMMA CopyPut ==
  ASSUME NEW t \in Tasks, NEW c \in Places
  PROVE  LET new == [t EXCEPT !.copy = c] IN
         /\ new \in Tasks /\ new.kind = t.kind /\ new.who = t.who
         /\ new.at = t.at /\ new.system = t.system /\ new.copy = c
BY TaskTypes DEF Tasks

LEMMA ReturnedOK ==
  ASSUME NEW t, NEW d, NEW den, Ready(t, d, den), NEW loc,
         loc # Unknown => loc.name \in Int /\ loc.name \in Called(den, "dock", d)
  PROVE  TaskOK(Returned(t, loc), den)
         /\ Returned(t, loc).at \in {"idle", "system", "ship"}
<1>1. CASE t.kind = "guess"
  BY <1>1, IdleOK DEF Returned, Idle
<1>2. CASE t.kind # "guess"
  <2>1. /\ t \in Tasks /\ t.kind = "location" /\ t.who \in Located
        /\ t.system \in Systems /\ t.copy.id["dock"] = d
        /\ CopyOK(t.copy, {"dock"}, den)
    BY <1>2 DEF Ready
  <2>2. PICK c : c = IF loc = Unknown THEN Miss(t.copy, "dock")
                     ELSE Name(t.copy, "dock", loc.name)
    OBVIOUS
  <2>3. CopyOK(c, {}, den)
    BY <2>1, <2>2, LevelMissed, DockNamed, LevelNames
  <2>4. PICK new : new = [t EXCEPT !.copy = c]
    OBVIOUS
  <2>5. c \in Places
    BY <2>3 DEF CopyOK, Sound
  <2>6. /\ new \in Tasks /\ new.kind = "location" /\ new.who = t.who
        /\ new.system = t.system /\ new.copy = c
    BY <2>1, <2>4, <2>5, CopyPut
  <2>7. Returned(t, loc) = Onward(new)
    BY <1>2, <2>2, <2>4 DEF Returned
  <2>8. TaskOK(Onward(new), den) /\ Onward(new).at \in {"system", "ship"}
    BY <2>1, <2>3, <2>6, OnwardOK
  <2>9. QED
    BY <2>7, <2>8
<1>3. QED
  BY <1>1, <1>2

LEMMA TaskMoreDenied ==
  ASSUME NEW t, NEW den, NEW more, den \subseteq more, TaskOK(t, den)
  PROVE  TaskOK(t, more)
BY MoreDenied DEF TaskOK, Locating

-----------------------------------------------------------------------------
(* The tables that all characters share.                                   *)

Types == {"", "station", "structure"}

LocationsOK ==
  /\ locations \in [Docks -> [type : Types, name : Int]]
  /\ \A d \in Docks :
       locations[d] # Unknown => locations[d].name \in Called(denied, "dock", d)
  /\ ~cacheOpen => \A d \in Docks : locations[d] = Unknown

RefusedOK ==
  /\ forbidden \subseteq denied /\ denied \subseteq Structures
  /\ fake \in Types /\ cacheOpen \in BOOLEAN

(* A request whose answer is cached is made for what is not cached.        *)
AskedOK ==
  task.at = "structure" \/ (task.kind = "guess" /\ task.at \in {"station", "typing"})
    => Cached(task.dock) = Unknown

TypedOK == TaskOK(task, denied)

ResolvingOK == LocationsOK /\ RefusedOK /\ AskedOK /\ TypedOK

KnownKept ==
  \A d \in Docks : locations[d].type # "" /\ locations[d].name = d =>
                     locations'[d] = locations[d]

LEMMA LocationTypes ==
  /\ \A t \in Types, n \in Int : /\ Location(t, n) \in [type : Types, name : Int]
                                 /\ Location(t, n).name = n
  /\ Unknown \in [type : Types, name : Int]
  /\ Unknown.type = ""
BY DEF Location, Unknown, Types

LEMMA RefusalFacts ==
  ASSUME NEW d \in Docks, NEW type \in Types, RefusedOK
  PROVE  /\ Refusal(type, d) \in [type : Types, name : Int]
         /\ Refusal(type, d).name = -d /\ d \in Int
         /\ FirstType(type) \in Types
<1>1. FirstType(type) \in Types
  BY DEF RefusedOK, FirstType
<1>2. d \in Int /\ -d \in Int
  <2>1. d \in Nat
    BY DocksAssumption
  <2>2. QED
    BY <2>1
<1>3. QED
  BY <1>1, <1>2, LocationTypes DEF Refusal

(* What is stored for a place that was not cached.                         *)
LEMMA SavedOK ==
  ASSUME LocationsOK, cacheOpen' = cacheOpen, denied \subseteq denied',
         NEW d \in Docks, NEW loc \in [type : Types, name : Int],
         loc # Unknown => loc.name \in Called(denied', "dock", d),
         Cached(d) = Unknown, locations' = SavedLocation(d, loc)
  PROVE  LocationsOK' /\ KnownKept
<1>1. CASE cacheOpen /\ loc # Unknown
  <2>1. locations' = [locations EXCEPT ![d] = loc]
    BY <1>1 DEF SavedLocation
  <2>2. locations[d] = Unknown
    BY <1>1 DEF Cached
  <2>3. locations' \in [Docks -> [type : Types, name : Int]]
    BY <2>1 DEF LocationsOK
  <2>4. \A e \in Docks : locations'[e] = IF e = d THEN loc ELSE locations[e]
    BY <2>1 DEF LocationsOK
  <2>5. ASSUME NEW e \in Docks, locations'[e] # Unknown
        PROVE  locations'[e].name \in Called(denied', "dock", e)
    <3>1. CASE e = d
      BY <1>1, <2>4, <3>1
    <3>2. CASE e # d
      <4>1. locations'[e] = locations[e]
        BY <2>4, <3>2
      <4>2. locations[e].name \in Called(denied, "dock", e)
        BY <2>5, <4>1 DEF LocationsOK
      <4>3. QED
        BY <4>1, <4>2 DEF Called
    <3>3. QED
      BY <3>1, <3>2
  <2>6. LocationsOK'
    BY <1>1, <2>3, <2>5 DEF LocationsOK
  <2>7. KnownKept
    BY <2>2, <2>4, LocationTypes DEF KnownKept
  <2>8. QED
    BY <2>6, <2>7
<1>2. CASE ~(cacheOpen /\ loc # Unknown)
  <2>1. locations' = locations
    BY <1>2 DEF SavedLocation
  <2>2. LocationsOK'
    BY <2>1 DEF LocationsOK, Called
  <2>3. QED
    BY <2>1, <2>2 DEF KnownKept
<1>3. QED
  BY <1>1, <1>2

LEMMA LocationsKept ==
  ASSUME LocationsOK, cacheOpen' = cacheOpen, denied \subseteq denied',
         locations' = locations
  PROVE  LocationsOK' /\ KnownKept
BY DEF LocationsOK, Called, KnownKept

(* resolve_location, whoever calls it.                                     *)
LEMMA Resolving ==
  ASSUME LocationsOK, RefusedOK,
         UNCHANGED <<cacheOpen, denied, forbidden>>,
         NEW t, NEW d, NEW type, Ready(t, d, denied),
         \/ type = "structure" /\ d \in Structures
         \/ type = "station" /\ d \in Stations,
         Resolve(t, d, type)
  PROVE  ResolvingOK' /\ KnownKept
<1>1. d \in Docks /\ type \in Types /\ t \in Tasks
  BY DEF Docks, Types, Ready
<1>2. /\ FirstType(type) \in Types
      /\ Refusal(type, d) \in [type : Types, name : Int]
      /\ Refusal(type, d).name = -d /\ d \in Int
  BY <1>1, RefusalFacts
<1>3. CASE Cached(d) # Unknown
  <2>1. /\ task' = Returned(t, Cached(d))
        /\ UNCHANGED <<locations, fake>>
    BY <1>3 DEF Resolve
  <2>2. Cached(d) = locations[d] /\ cacheOpen
    BY <1>3 DEF Cached
  <2>3. PICK loc : loc = Cached(d)
    OBVIOUS
  <2>4. loc.name \in Int /\ loc.name \in Called(denied, "dock", d)
    BY <1>1, <1>3, <2>2, <2>3 DEF LocationsOK
  <2>5. TaskOK(task', denied) /\ task'.at \in {"idle", "system", "ship"}
    BY <2>1, <2>3, <2>4, ReturnedOK
  <2>6. AskedOK' /\ TypedOK'
    BY <2>5 DEF AskedOK, TypedOK
  <2>7. RefusedOK'
    BY <2>1 DEF RefusedOK
  <2>8. QED
    BY <2>1, <2>6, <2>7, LocationsKept DEF ResolvingOK
<1>4. CASE Cached(d) = Unknown /\ KnownForbidden(type, d)
  <2>1. /\ fake' = FirstType(type)
        /\ locations' = SavedLocation(d, Refusal(type, d))
        /\ task' = Returned(t, Refusal(type, d))
    BY <1>4 DEF Resolve
  <2>2. d \in denied
    BY <1>4 DEF KnownForbidden, RefusedOK
  <2>3. PICK loc \in [type : Types, name : Int] : loc = Refusal(type, d)
    BY <1>2
  <2>4. loc.name \in Int /\ loc.name \in Called(denied, "dock", d)
    BY <1>2, <2>2, <2>3 DEF Called
  <2>5. LocationsOK' /\ KnownKept
    BY <1>1, <1>4, <2>1, <2>3, <2>4, SavedOK
  <2>6. TaskOK(task', denied) /\ task'.at \in {"idle", "system", "ship"}
    BY <2>1, <2>3, <2>4, ReturnedOK
  <2>7. AskedOK' /\ TypedOK'
    BY <2>6 DEF AskedOK, TypedOK
  <2>8. RefusedOK'
    BY <1>2, <2>1 DEF RefusedOK
  <2>9. QED
    BY <2>5, <2>7, <2>8 DEF ResolvingOK
<1>5. CASE Cached(d) = Unknown /\ ~KnownForbidden(type, d)
  <2>1. /\ fake' = FirstType(type)
        /\ task' = [t EXCEPT !.at = type, !.dock = d]
        /\ UNCHANGED locations
    BY <1>5 DEF Resolve
  <2>2. PICK new : new = [t EXCEPT !.at = type, !.dock = d]
    OBVIOUS
  <2>3. /\ new.kind = t.kind /\ new.who = t.who /\ new.at = type /\ new.dock = d
        /\ new.system = t.system /\ new.copy = t.copy
        /\ new \in Tasks
    BY <1>1, <2>2, TaskTypes DEF Tasks, Ats
  <2>4. Pending(type) = {"dock"}
    BY DEF Pending
  <2>5. \/ new.kind = "guess" /\ new.at \in {"typing", "structure", "station"}
        \/ Locating(new, denied)
    BY <2>3, <2>4 DEF Ready, Locating
  <2>6. TaskOK(new, denied)
    BY <2>3, <2>5 DEF TaskOK, Asking
  <2>7. TypedOK'
    BY <2>1, <2>2, <2>6 DEF TypedOK
  <2>8. task'.dock = d /\ Cached(d)' = Unknown
    BY <1>5, <2>1, <2>2, <2>3 DEF Cached
  <2>9. AskedOK'
    BY <2>8 DEF AskedOK, Cached
  <2>10. RefusedOK'
    BY <1>2, <2>1 DEF RefusedOK
  <2>11. QED
    BY <2>1, <2>7, <2>9, <2>10, LocationsKept DEF ResolvingOK
<1>6. QED
  BY <1>3, <1>4, <1>5

-----------------------------------------------------------------------------
(* The invariant.                                                          *)

GameOK ==
  /\ position \in [Located -> Positions] /\ access \subseteq Chars \X Structures
  /\ events \in 0 .. MaxEvents

RowsOK ==
  /\ row \in [Located -> Places]
  /\ \A c \in Located : CopyOK(row[c], {}, denied)

Wants == Categories \cup {"any"}
Questions == [id : Ids, want : Wants]

PeopleOK ==
  /\ names \in [Ids -> Categories \cup {"none"}]
  /\ \A i \in Ids : names[i] \in {"none", CategoryOf[i]}
  /\ naming \in Seq(Questions) /\ Len(naming) <= 2
  /\ told.named => told.type = CategoryOf[told.id]

IInv == GameOK /\ RowsOK /\ ResolvingOK /\ PeopleOK

LEMMA GameKept ==
  ASSUME GameOK, UNCHANGED game
  PROVE  GameOK'
BY DEF GameOK, game

LEMMA RowsKept ==
  ASSUME RowsOK, row' = row, denied \subseteq denied'
  PROVE  RowsOK'
<1>1. \A c \in Located : CopyOK(row[c], {}, denied')
  BY MoreDenied DEF RowsOK
<1>2. QED
  BY <1>1 DEF RowsOK

LEMMA PeopleKept ==
  ASSUME PeopleOK, UNCHANGED <<names, naming>>, told' \in {told, Nobody}
  PROVE  PeopleOK'
<1>1. told'.named => told'.type = CategoryOf[told'.id]
  <2>1. CASE told' = told
    BY <2>1 DEF PeopleOK
  <2>2. CASE told' = Nobody
    BY <2>2 DEF Nobody
  <2>3. QED
    BY <2>1, <2>2
<1>2. QED
  BY <1>1 DEF PeopleOK

(* A step that stores nothing.                                             *)
LEMMA NothingStored ==
  ASSUME LocationsOK, RefusedOK, UNCHANGED <<locations, cacheOpen, denied, forbidden, fake>>,
         TaskOK(task', denied),
         task'.at \notin {"structure", "station", "typing"}
           \/ (task'.kind = "location" /\ task'.at = "station")
  PROVE  ResolvingOK' /\ KnownKept
<1>1. LocationsOK' /\ KnownKept
  BY LocationsKept
<1>2. RefusedOK'
  BY DEF RefusedOK
<1>3. AskedOK'
  BY DEF AskedOK
<1>4. TypedOK'
  BY DEF TypedOK
<1>5. QED
  BY <1>1, <1>2, <1>3, <1>4 DEF ResolvingOK

LEMMA PartsOf ==
  ASSUME IInv
  PROVE  /\ GameOK /\ RowsOK /\ PeopleOK /\ LocationsOK /\ RefusedOK /\ AskedOK
         /\ TaskOK(task, denied) /\ task \in Tasks
         /\ task.kind = "location" => Locating(task, denied)
         /\ denied \subseteq Structures
BY DEF IInv, ResolvingOK, TypedOK, TaskOK, RefusedOK

(* refresh_location begins with a copy of the row.                         *)
LEMMA Starting ==
  ASSUME IInv, NEW c \in Located, Start(c)
  PROVE  IInv' /\ KnownKept
<1>1. PICK t : t = [Idle EXCEPT !.kind = "location", !.who = c, !.at = "location",
                                !.copy = row[c]]
  OBVIOUS
<1>2. /\ task' = t /\ told' = Nobody
      /\ UNCHANGED <<game, row, locations, names, cacheOpen, forbidden, fake,
                     naming, denied>>
  BY <1>1 DEF Start
<1>3. t = [kind |-> "location", who |-> c, at |-> "location", dock |-> 0,
           system |-> 0, copy |-> row[c]]
  BY <1>1 DEF Idle
<1>4. CopyOK(row[c], {}, denied)
  BY DEF IInv, RowsOK
<1>5. row[c] \in Places
  BY <1>4 DEF CopyOK, Sound
<1>6. t \in Tasks
  BY <1>3, <1>5, LocatedAssumption DEF Tasks, Ats
<1>7. Pending("location") = {}
  BY DEF Pending
<1>8. Locating(t, denied)
  BY <1>3, <1>4, <1>7 DEF Locating
<1>9. TaskOK(t, denied) /\ t.at = "location"
  BY <1>3, <1>6, <1>8 DEF TaskOK, Asking
<1>10. ResolvingOK' /\ KnownKept
  BY <1>2, <1>9, PartsOf, NothingStored
<1>11. RowsOK' /\ GameOK' /\ PeopleOK'
  BY <1>2, PartsOf, RowsKept, GameKept, PeopleKept
<1>12. QED
  BY <1>10, <1>11 DEF IInv

(* The answer that says where the character is.                            *)
LEMMA LocationComes ==
  ASSUME IInv, LocationAnswered
  PROVE  IInv' /\ KnownKept
<1>1. PICK d : d = DockIn(position[task.who], task.copy)
  OBVIOUS
<1>2. PICK s : s = position[task.who].system
  OBVIOUS
<1>3. PICK t : t = [task EXCEPT !.system = s, !.dock = d, !.copy = Go(@, "dock", d)]
  OBVIOUS
<1>4. /\ task.at = "location"
      /\ UNCHANGED <<game, row, names, cacheOpen, forbidden, naming, told, denied>>
  BY DEF LocationAnswered, Waits
<1>5. \/ /\ d \in Structures
         /\ Resolve(t, d, "structure")
      \/ /\ d \in Stations
         /\ task' = [t EXCEPT !.at = "station"]
         /\ UNCHANGED <<locations, fake>>
      \/ /\ ~DockChanged(task.copy, d) \/ d = 0
         /\ task' = Onward(t)
         /\ UNCHANGED <<locations, fake>>
  BY <1>1, <1>2, <1>3 DEF LocationAnswered
<1>6. /\ task \in Tasks /\ task.kind = "location" /\ task.who \in Located
      /\ CopyOK(task.copy, {}, denied)
  BY <1>4, PartsOf DEF TaskOK, Locating, Pending
<1>7. s \in Systems /\ d \in Docks \cup {0}
  <2>1. position[task.who] \in Positions
    BY <1>6 DEF IInv, GameOK
  <2>2. QED
    BY <1>1, <1>2, <2>1, DocksAssumption DEF DockIn
<1>8. PICK c : c = Go(task.copy, "dock", d)
  OBVIOUS
<1>9. /\ CopyOK(c, {"dock"}, denied) /\ c.id["dock"] = d
      /\ ~DockChanged(task.copy, d) \/ d = 0 => CopyOK(c, {}, denied)
  BY <1>6, <1>7, <1>8, DockSet DEF DockChanged
<1>10. c \in Places
  BY <1>9 DEF CopyOK, Sound
<1>11. /\ t.kind = "location" /\ t.who = task.who /\ t.at = "location"
       /\ t.dock = d /\ t.system = s /\ t.copy = c
       /\ t \in Tasks
  BY <1>3, <1>4, <1>6, <1>7, <1>8, <1>10, TaskTypes DEF Tasks
<1>12. ResolvingOK' /\ KnownKept
  <2>1. CASE d \in Structures /\ Resolve(t, d, "structure")
    <3>1. Ready(t, d, denied)
      BY <1>6, <1>7, <1>9, <1>11 DEF Ready
    <3>2. QED
      BY <1>4, <2>1, <3>1, PartsOf, Resolving
  <2>2. CASE /\ d \in Stations
             /\ task' = [t EXCEPT !.at = "station"]
             /\ UNCHANGED <<locations, fake>>
    <3>1. PICK new : new = [t EXCEPT !.at = "station"]
      OBVIOUS
    <3>2. /\ new.kind = "location" /\ new.who = task.who /\ new.at = "station"
          /\ new.dock = d /\ new.system = s /\ new.copy = c
          /\ new \in Tasks
      BY <1>11, <3>1, TaskTypes DEF Tasks, Ats
    <3>3. Pending("station") = {"dock"}
      BY DEF Pending
    <3>4. Locating(new, denied)
      BY <1>6, <1>7, <1>9, <3>2, <3>3 DEF Locating
    <3>5. TaskOK(new, denied)
      BY <2>2, <3>2, <3>4 DEF TaskOK, Asking
    <3>6. task' = new
      BY <2>2, <3>1
    <3>7. QED
      BY <1>4, <2>2, <3>2, <3>5, <3>6, PartsOf, NothingStored
  <2>3. CASE /\ ~DockChanged(task.copy, d) \/ d = 0
             /\ task' = Onward(t)
             /\ UNCHANGED <<locations, fake>>
    <3>1. CopyOK(c, {}, denied)
      BY <1>9, <2>3
    <3>2. TaskOK(Onward(t), denied) /\ Onward(t).at \in {"system", "ship"}
      BY <1>6, <1>7, <1>11, <3>1, OnwardOK
    <3>3. QED
      BY <1>4, <2>3, <3>2, PartsOf, NothingStored
  <2>4. QED
    BY <1>5, <2>1, <2>2, <2>3
<1>13. RowsOK' /\ GameOK' /\ PeopleOK'
  BY <1>4, PartsOf, RowsKept, GameKept, PeopleKept
<1>14. QED
  BY <1>12, <1>13 DEF IInv

(* A dock whose location was asked for.                                    *)
LEMMA DockAsked ==
  ASSUME IInv, task.at \in {"station", "structure"}
  PROVE  /\ task.dock \in Docks /\ task.dock \in Int
         /\ Ready(task, task.dock, denied)
         /\ task.at = "station" => task.dock \in Stations
         /\ task.at = "structure" => task.dock \in Structures
<1>1. /\ task \in Tasks /\ Asking(task)
      /\ task.kind = "guess" \/ Locating(task, denied)
  BY PartsOf DEF TaskOK
<1>2. Pending(task.at) = {"dock"}
  BY DEF Pending
<1>3. Ready(task, task.dock, denied)
  BY <1>1, <1>2 DEF Ready, Locating
<1>4. task.dock \in Docks
  BY <1>1 DEF Asking, Docks
<1>5. task.dock \in Int
  <2>1. task.dock \in Nat
    BY <1>4, DocksAssumption
  <2>2. QED
    BY <2>1
<1>6. QED
  BY <1>1, <1>3, <1>4, <1>5 DEF Asking

LEMMA StationComes ==
  ASSUME IInv, NEW ok \in BOOLEAN, StationAnswered(ok)
  PROVE  IInv' /\ KnownKept
<1>1. PICK d \in Docks : d = task.dock
  BY DockAsked DEF StationAnswered, Waits
<1>2. PICK loc : loc = IF ok THEN Location("station", d) ELSE Unknown
  OBVIOUS
<1>3. /\ task.at = "station"
      /\ task' = Returned(task, loc)
      /\ locations' = IF task.kind = "guess" THEN SavedLocation(d, loc) ELSE locations
      /\ UNCHANGED <<game, row, names, cacheOpen, forbidden, fake, naming, told,
                     denied>>
  BY <1>1, <1>2 DEF StationAnswered, Waits
<1>4. Ready(task, d, denied) /\ d \in Int
  BY <1>1, <1>3, DockAsked
<1>5. /\ loc \in [type : Types, name : Int]
      /\ loc # Unknown => loc.name \in Int /\ loc.name \in Called(denied, "dock", d)
  BY <1>2, <1>4, LocationTypes DEF Types, Called
<1>6. TaskOK(task', denied) /\ task'.at \in {"idle", "system", "ship"}
  BY <1>3, <1>4, <1>5, ReturnedOK
<1>7. LocationsOK' /\ KnownKept
  <2>1. CASE task.kind = "guess"
    <3>1. Cached(d) = Unknown
      BY <1>1, <1>3, <2>1, PartsOf DEF AskedOK
    <3>2. QED
      BY <1>3, <1>5, <2>1, <3>1, PartsOf, SavedOK
  <2>2. CASE task.kind # "guess"
    BY <1>3, <2>2, PartsOf, LocationsKept
  <2>3. QED
    BY <2>1, <2>2
<1>8. RefusedOK'
  BY <1>3, PartsOf DEF RefusedOK
<1>9. AskedOK' /\ TypedOK'
  BY <1>3, <1>6 DEF AskedOK, TypedOK
<1>10. RowsOK' /\ GameOK' /\ PeopleOK'
  BY <1>3, PartsOf, RowsKept, GameKept, PeopleKept
<1>11. QED
  BY <1>7, <1>8, <1>9, <1>10 DEF IInv, ResolvingOK

LEMMA StructureComes ==
  ASSUME IInv, NEW ok \in BOOLEAN, StructureAnswered(ok)
  PROVE  IInv' /\ KnownKept
<1>1. PICK d \in Docks : d = task.dock
  BY DockAsked DEF StructureAnswered, Waits
<1>2. PICK refused \in BOOLEAN : refused = (ok /\ <<task.who, d>> \notin access)
  BY Zenon
<1>3. PICK loc : loc = CASE ~ok -> Unknown
                         [] refused -> Refusal("structure", d)
                         [] OTHER -> Location("structure", d)
  OBVIOUS
<1>4. /\ task.at = "structure"
      /\ forbidden' = IF refused THEN forbidden \cup {d} ELSE forbidden
      /\ denied' = IF refused THEN denied \cup {d} ELSE denied
      /\ locations' = SavedLocation(d, loc)
      /\ task' = Returned(task, loc)
      /\ UNCHANGED <<game, row, names, cacheOpen, fake, naming, told>>
  BY <1>1, <1>2, <1>3 DEF StructureAnswered, Waits
<1>5. Ready(task, d, denied) /\ d \in Int /\ d \in Structures
  BY <1>1, <1>4, DockAsked
<1>6. denied \subseteq denied'
  BY <1>4
<1>7. Ready(task, d, denied')
  BY <1>5, <1>6, MoreDenied DEF Ready
<1>8. /\ loc \in [type : Types, name : Int]
      /\ loc # Unknown => loc.name \in Int /\ loc.name \in Called(denied', "dock", d)
  <2>1. CASE ~ok
    <3>1. ~refused
      BY <1>2, <2>1
    <3>2. loc = Unknown
      BY <1>3, <2>1, <3>1
    <3>3. QED
      BY <3>2, LocationTypes
  <2>2. CASE ok /\ refused
    <3>1. loc = Refusal("structure", d) /\ d \in denied'
      BY <1>2, <1>3, <1>4, <2>2
    <3>2. /\ loc \in [type : Types, name : Int]
          /\ loc.name = -d
      BY <3>1, PartsOf, RefusalFacts DEF Types
    <3>3. -d \in Int
      BY <1>5
    <3>4. QED
      BY <3>1, <3>2, <3>3 DEF Called
  <2>3. CASE ok /\ ~refused
    <3>1. loc = Location("structure", d)
      BY <1>3, <2>3
    <3>2. QED
      BY <1>5, <3>1, LocationTypes DEF Types, Called
  <2>4. QED
    BY <2>1, <2>2, <2>3
<1>9. TaskOK(task', denied') /\ task'.at \in {"idle", "system", "ship"}
  BY <1>4, <1>7, <1>8, ReturnedOK
<1>10. LocationsOK' /\ KnownKept
  <2>1. Cached(d) = Unknown
    BY <1>1, <1>4, PartsOf DEF AskedOK
  <2>2. QED
    BY <1>4, <1>6, <1>8, <2>1, PartsOf, SavedOK
<1>11. RefusedOK'
  BY <1>4, <1>5, PartsOf DEF RefusedOK
<1>12. AskedOK' /\ TypedOK'
  BY <1>9 DEF AskedOK, TypedOK
<1>13. RowsOK' /\ GameOK' /\ PeopleOK'
  BY <1>4, <1>6, PartsOf, RowsKept, GameKept, PeopleKept
<1>14. QED
  BY <1>10, <1>11, <1>12, <1>13 DEF IInv, ResolvingOK

(* A name of the chain, and the id of the next level.                      *)
LEMMA PlaceComes ==
  ASSUME IInv, NEW level \in DOMAIN NextLevel, PlaceAnswered(level)
  PROVE  IInv' /\ KnownKept
<1>1. /\ level \in {"system", "constellation", "region"}
      /\ level \in Levels \ {"dock"}
      /\ NextLevel["system"] = "constellation"
      /\ NextLevel["constellation"] = "region"
  BY LevelNames DEF NextLevel
<1>2. PICK named : named = Name(task.copy, level, task.copy.id[level])
  OBVIOUS
<1>3. PICK next : next = NextLevel[level]
  OBVIOUS
<1>4. PICK id : id = Above(level, task.copy.id[level])
  OBVIOUS
<1>5. /\ task.at = level
      /\ task' = IF level # "region" /\ id # named.id[next]
                 THEN [task EXCEPT !.copy = Go(named, next, id), !.at = next]
                 ELSE [task EXCEPT !.copy = named, !.at = "ship"]
      /\ UNCHANGED <<game, row, locations, names, cacheOpen, forbidden, fake,
                     naming, told, denied>>
  BY <1>2, <1>3, <1>4 DEF PlaceAnswered, Waits
<1>6. /\ task \in Tasks /\ task.kind = "location" /\ task.who \in Located
      /\ CopyOK(task.copy, {level}, denied)
      /\ level # "region" => task.copy.id[level] # 0
  BY <1>1, <1>5, PartsOf DEF TaskOK, Locating, Pending
<1>7. /\ Sound(named) /\ named.id = task.copy.id /\ named.missed = task.copy.missed
      /\ NamedWell(named, {}, denied)
      /\ NestsWell(named, {level})
  BY <1>1, <1>2, <1>6, PartsOf, LevelNamed
<1>8. named \in Places
  BY <1>7 DEF Sound
<1>9. ASSUME level # "region"
      PROVE  /\ id \in Nat /\ id # 0 /\ next \in {"constellation", "region"}
             /\ next \in Levels
             /\ next = "constellation" => id \in Constellations
  <2>1. CASE level = "system"
    <3>1. task.copy.id["system"] \in Systems
      BY <1>6, <2>1, <1>9 DEF CopyOK, Sound
    <3>2. id = ConstellationOf[task.copy.id["system"]]
      BY <1>4, <2>1 DEF Above
    <3>3. id \in Constellations /\ id \in Nat \ {0}
      BY <3>1, <3>2, ChainAssumption DEF Constellations
    <3>4. QED
      BY <1>1, <1>3, <2>1, <3>3, LevelNames
  <2>2. CASE level = "constellation"
    <3>1. task.copy.id["constellation"] \in Constellations
      BY <1>6, <2>2, <1>9 DEF CopyOK, Sound
    <3>2. id = RegionOf[task.copy.id["constellation"]]
      BY <1>4, <2>2 DEF Above
    <3>3. id \in Nat \ {0}
      BY <3>1, <3>2, ChainAssumption
    <3>4. QED
      BY <1>1, <1>3, <2>2, <3>3, LevelNames
  <2>3. QED
    BY <1>1, <1>9, <2>1, <2>2
<1>10. CASE level # "region" /\ id # named.id[next]
  <2>1. PICK c : c = Go(named, next, id)
    OBVIOUS
  <2>2. id \in Nat /\ id # 0 /\ next \in Levels /\ next \in {"constellation", "region"}
    BY <1>9, <1>10
  <2>3. /\ c \in Places /\ c.id[next] = id
        /\ \A l \in Levels \ {next} : c.id[l] = named.id[l]
        /\ c.name = named.name
        /\ named.missed \ {next} \subseteq c.missed
    BY <1>8, <2>1, <2>2, GoFacts
  <2>4. CopyOK(c, {next}, denied)
    <3>1. CASE level = "system"
      <4>1. next = "constellation" /\ id \in Constellations
        BY <1>1, <1>3, <1>9, <3>1
      <4>2. id = ConstellationOf[named.id["system"]]
        BY <1>4, <1>7, <3>1 DEF Above
      <4>3. c.id["system"] = named.id["system"] /\ c.id["constellation"] = id
        BY <2>3, <4>1, LevelNames
      <4>4. Sound(c)
        BY <1>7, <2>3, <4>1, <4>3 DEF Sound
      <4>5. NestsWell(c, {next})
        BY <4>1, <4>2, <4>3 DEF NestsWell
      <4>6. NamedWell(c, {next}, denied)
        BY <1>7, <2>3 DEF NamedWell
      <4>7. QED
        BY <4>4, <4>5, <4>6 DEF CopyOK
    <3>2. CASE level = "constellation"
      <4>1. next = "region"
        BY <1>1, <1>3, <3>2
      <4>2. id = RegionOf[named.id["constellation"]]
        BY <1>4, <1>7, <3>2 DEF Above
      <4>3. /\ c.id["system"] = named.id["system"] /\ c.id["region"] = id
            /\ c.id["constellation"] = named.id["constellation"]
        BY <2>3, <4>1, LevelNames
      <4>4. Sound(c)
        BY <1>7, <2>3, <4>3 DEF Sound
      <4>5. NestsWell(c, {next})
        <5>1. "system" \notin c.missed => "system" \notin named.missed
          BY <2>3, <4>1
        <5>2. QED
          BY <1>7, <3>2, <4>1, <4>2, <4>3, <5>1 DEF NestsWell
      <4>6. NamedWell(c, {next}, denied)
        BY <1>7, <2>3 DEF NamedWell
      <4>7. QED
        BY <4>4, <4>5, <4>6 DEF CopyOK
    <3>3. QED
      BY <1>1, <1>10, <3>1, <3>2
  <2>5. PICK new : new = [task EXCEPT !.copy = c, !.at = next]
    OBVIOUS
  <2>6. /\ new.kind = "location" /\ new.who = task.who /\ new.at = next
        /\ new.copy = c
    BY <1>6, <2>5, TaskTypes
  <2>7. new \in Tasks
    <3>1. next \in Ats
      BY <2>2 DEF Ats
    <3>2. QED
      BY <1>6, <2>3, <2>5, <3>1, TaskTypes DEF Tasks
  <2>8. Pending(next) = {next}
    BY <2>2 DEF Pending
  <2>9. Locating(new, denied)
    BY <1>6, <2>2, <2>3, <2>4, <2>6, <2>8 DEF Locating
  <2>10. TaskOK(new, denied)
    BY <2>2, <2>6, <2>7, <2>9 DEF TaskOK, Asking
  <2>11. task' = new
    BY <1>5, <1>10, <2>1, <2>5
  <2>12. QED
    <3>1. ResolvingOK' /\ KnownKept
      BY <1>5, <2>2, <2>6, <2>10, <2>11, PartsOf, NothingStored
    <3>2. RowsOK' /\ GameOK' /\ PeopleOK'
      BY <1>5, PartsOf, RowsKept, GameKept, PeopleKept
    <3>3. QED
      BY <3>1, <3>2 DEF IInv
<1>11. CASE ~(level # "region" /\ id # named.id[next])
  <2>1. NestsWell(named, {})
    <3>1. CASE level = "region"
      BY <1>7, <3>1 DEF NestsWell
    <3>2. CASE level = "system"
      <4>1. named.id["constellation"] = ConstellationOf[named.id["system"]]
        BY <1>1, <1>3, <1>4, <1>7, <1>11, <3>2 DEF Above
      <4>2. QED
        BY <1>7, <3>2, <4>1 DEF NestsWell
    <3>3. CASE level = "constellation"
      <4>1. named.id["region"] = RegionOf[named.id["constellation"]]
        BY <1>1, <1>3, <1>4, <1>7, <1>11, <3>3 DEF Above
      <4>2. QED
        BY <1>7, <3>3, <4>1 DEF NestsWell
    <3>4. QED
      BY <1>1, <3>1, <3>2, <3>3
  <2>2. CopyOK(named, {}, denied)
    BY <1>7, <2>1 DEF CopyOK
  <2>3. PICK new : new = [task EXCEPT !.copy = named, !.at = "ship"]
    OBVIOUS
  <2>4. /\ new.kind = "location" /\ new.who = task.who /\ new.at = "ship"
        /\ new.copy = named
        /\ new \in Tasks
    BY <1>6, <1>8, <2>3, TaskTypes DEF Tasks, Ats
  <2>5. Pending("ship") = {}
    BY DEF Pending
  <2>6. Locating(new, denied)
    BY <1>6, <2>2, <2>4, <2>5 DEF Locating
  <2>7. TaskOK(new, denied)
    BY <2>4, <2>6 DEF TaskOK, Asking
  <2>8. task' = new
    BY <1>5, <1>11, <2>3
  <2>9. ResolvingOK' /\ KnownKept
    BY <1>5, <2>4, <2>7, <2>8, PartsOf, NothingStored
  <2>10. RowsOK' /\ GameOK' /\ PeopleOK'
    BY <1>5, PartsOf, RowsKept, GameKept, PeopleKept
  <2>11. QED
    BY <2>9, <2>10 DEF IInv
<1>12. QED
  BY <1>10, <1>11

LEMMA PlaceMissed ==
  ASSUME IInv, NEW level \in DOMAIN NextLevel, PlaceFailed(level)
  PROVE  IInv' /\ KnownKept
<1>1. level \in {"system", "constellation", "region"} /\ level \in Levels
  BY LevelNames DEF NextLevel
<1>2. PICK c : c = Miss(task.copy, level)
  OBVIOUS
<1>3. PICK new : new = [task EXCEPT !.copy = c, !.at = "ship"]
  OBVIOUS
<1>4. /\ task.at = level
      /\ task' = new
      /\ UNCHANGED <<game, row, locations, names, cacheOpen, forbidden, fake,
                     naming, told, denied>>
  BY <1>2, <1>3 DEF PlaceFailed, Waits
<1>5. /\ task \in Tasks /\ task.kind = "location" /\ task.who \in Located
      /\ CopyOK(task.copy, {level}, denied)
  BY <1>1, <1>4, PartsOf DEF TaskOK, Locating, Pending
<1>6. CopyOK(c, {}, denied) /\ c \in Places
  BY <1>1, <1>2, <1>5, LevelMissed DEF CopyOK, Sound
<1>7. /\ new.kind = "location" /\ new.who = task.who /\ new.at = "ship"
      /\ new.copy = c
      /\ new \in Tasks
  BY <1>3, <1>5, <1>6, TaskTypes DEF Tasks, Ats
<1>8. Pending("ship") = {}
  BY DEF Pending
<1>9. Locating(new, denied)
  BY <1>5, <1>6, <1>7, <1>8 DEF Locating
<1>10. TaskOK(new, denied)
  BY <1>7, <1>9 DEF TaskOK, Asking
<1>11. ResolvingOK' /\ KnownKept
  BY <1>4, <1>7, <1>10, PartsOf, NothingStored
<1>12. RowsOK' /\ GameOK' /\ PeopleOK'
  BY <1>4, PartsOf, RowsKept, GameKept, PeopleKept
<1>13. QED
  BY <1>11, <1>12 DEF IInv

(* The refresh of the location ends, and the row is replaced or not.       *)
LEMMA Finishing ==
  ASSUME IInv, NEW kept \in BOOLEAN, task.at \in {"location", "ship"}, Finish(kept)
  PROVE  IInv' /\ KnownKept
<1>1. /\ row' = IF kept THEN [row EXCEPT ![task.who] = task.copy] ELSE row
      /\ task' = Idle
      /\ UNCHANGED <<game, locations, names, cacheOpen, forbidden, fake, naming,
                     told, denied>>
  BY DEF Finish
<1>2. task.who \in Located /\ CopyOK(task.copy, {}, denied)
  BY PartsOf DEF TaskOK, Locating, Pending
<1>3. task.copy \in Places
  BY <1>2 DEF CopyOK, Sound
<1>4. row' \in [Located -> Places]
  BY <1>1, <1>2, <1>3, PartsOf DEF RowsOK
<1>5. \A c \in Located : CopyOK(row'[c], {}, denied)
  BY <1>1, <1>2, PartsOf DEF RowsOK
<1>6. RowsOK'
  BY <1>1, <1>4, <1>5 DEF RowsOK
<1>7. TaskOK(task', denied) /\ task'.at = "idle"
  BY <1>1, IdleOK DEF Idle
<1>8. ResolvingOK' /\ KnownKept
  BY <1>1, <1>7, PartsOf, NothingStored
<1>9. GameOK' /\ PeopleOK'
  BY <1>1, PartsOf, GameKept, PeopleKept
<1>10. QED
  BY <1>6, <1>8, <1>9 DEF IInv

(* The other callers.                                                      *)
LEMMA Guessing ==
  ASSUME NEW c \in Chars, NEW d, NEW den
  PROVE  Ready([Idle EXCEPT !.kind = "guess", !.who = c], d, den)
<1>1. PICK t : t = [Idle EXCEPT !.kind = "guess", !.who = c]
  OBVIOUS
<1>2. Idle \in Tasks
  BY IdleOK DEF TaskOK
<1>3. t \in Tasks /\ t.kind = "guess"
  BY <1>1, <1>2, TaskTypes DEF Tasks
<1>4. QED
  BY <1>1, <1>3 DEF Ready

LEMMA ResolvingLocation ==
  ASSUME IInv, NEW c \in Chars, NEW d \in Docks, ResolveLocation(c, d)
  PROVE  IInv' /\ KnownKept
<1>1. PICK t : t = [Idle EXCEPT !.kind = "guess", !.who = c]
  OBVIOUS
<1>2. /\ Resolve(t, d, TypeOf(d)) /\ told' = Nobody
      /\ UNCHANGED <<game, row, names, cacheOpen, forbidden, naming, denied>>
  BY <1>1 DEF ResolveLocation
<1>3. Ready(t, d, denied)
  BY <1>1, Guessing
<1>4. \/ TypeOf(d) = "structure" /\ d \in Structures
      \/ TypeOf(d) = "station" /\ d \in Stations
  BY DEF TypeOf, Docks
<1>5. ResolvingOK' /\ KnownKept
  BY <1>2, <1>3, <1>4, PartsOf, Resolving
<1>6. RowsOK' /\ GameOK' /\ PeopleOK'
  BY <1>2, PartsOf, RowsKept, GameKept, PeopleKept
<1>7. QED
  BY <1>5, <1>6 DEF IInv

LEMMA GuessingType ==
  ASSUME IInv, NEW c \in Chars, NEW d \in Docks, GuessType(c, d)
  PROVE  IInv' /\ KnownKept
<1>1. PICK t : t = [Idle EXCEPT !.kind = "guess", !.who = c, !.at = "typing",
                                !.dock = d]
  OBVIOUS
<1>2. /\ Cached(d).type = ""
      /\ locations' = [locations EXCEPT ![d] = Unknown]
      /\ task' = t /\ told' = Nobody
      /\ UNCHANGED <<game, row, names, cacheOpen, forbidden, fake, naming, denied>>
  BY <1>1 DEF GuessType
<1>3. Idle \in Tasks
  BY IdleOK DEF TaskOK
<1>4. /\ t.kind = "guess" /\ t.at = "typing" /\ t.dock = d
      /\ t \in Tasks
  BY <1>1, <1>3, TaskTypes DEF Tasks, Ats
<1>5. TaskOK(t, denied)
  BY <1>4 DEF TaskOK, Asking
<1>6. LocationsOK /\ RefusedOK
  BY PartsOf
<1>7. locations[d].type = ""
  BY <1>2, <1>6, LocationTypes DEF Cached, LocationsOK
<1>8. /\ locations' \in [Docks -> [type : Types, name : Int]]
      /\ \A e \in Docks : locations'[e] = IF e = d THEN Unknown ELSE locations[e]
  BY <1>2, <1>6, LocationTypes DEF LocationsOK
<1>9. LocationsOK'
  BY <1>2, <1>6, <1>8 DEF LocationsOK
<1>10. KnownKept
  BY <1>7, <1>8 DEF KnownKept
<1>11. AskedOK'
  BY <1>2, <1>4, <1>8 DEF AskedOK, Cached
<1>12. TypedOK' /\ RefusedOK'
  BY <1>2, <1>5, <1>6 DEF TypedOK, RefusedOK
<1>13. RowsOK' /\ GameOK' /\ PeopleOK'
  BY <1>2, PartsOf, RowsKept, GameKept, PeopleKept
<1>14. QED
  BY <1>9, <1>10, <1>11, <1>12, <1>13 DEF IInv, ResolvingOK

LEMMA TypeComes ==
  ASSUME IInv, NEW ok \in BOOLEAN, TypeAnswered(ok)
  PROVE  IInv' /\ KnownKept
<1>1. /\ task.at = "typing"
      /\ UNCHANGED <<game, row, names, cacheOpen, forbidden, naming, told, denied>>
  BY DEF TypeAnswered, Waits
<1>2. task \in Tasks /\ task.kind = "guess"
  BY <1>1, PartsOf DEF TaskOK, Locating
<1>3. RowsOK' /\ GameOK' /\ PeopleOK'
  BY <1>1, PartsOf, RowsKept, GameKept, PeopleKept
<1>4. CASE task.dock \in Stations /\ Resolve(task, task.dock, "station")
  <2>1. Ready(task, task.dock, denied)
    BY <1>2 DEF Ready
  <2>2. ResolvingOK' /\ KnownKept
    BY <1>1, <1>4, <2>1, PartsOf, Resolving
  <2>3. QED
    BY <1>3, <2>2 DEF IInv
<1>5. CASE task' = Idle /\ UNCHANGED <<locations, fake>>
  <2>1. TaskOK(task', denied) /\ task'.at = "idle"
    BY <1>5, IdleOK DEF Idle
  <2>2. ResolvingOK' /\ KnownKept
    BY <1>1, <1>5, <2>1, PartsOf, NothingStored
  <2>3. QED
    BY <1>3, <2>2 DEF IInv
<1>6. QED
  BY <1>4, <1>5 DEF TypeAnswered

-----------------------------------------------------------------------------
(* People.                                                                 *)

(* A step that leaves the places alone.                                    *)
LEMMA PlacesKept ==
  ASSUME IInv, UNCHANGED <<row, locations, cacheOpen, forbidden, fake, task, denied>>
  PROVE  RowsOK' /\ ResolvingOK' /\ KnownKept
<1>1. RowsOK'
  BY PartsOf, RowsKept
<1>2. LocationsOK' /\ KnownKept
  BY PartsOf, LocationsKept
<1>3. RefusedOK' /\ AskedOK'
  BY PartsOf DEF RefusedOK, AskedOK, Cached
<1>4. TypedOK'
  BY PartsOf DEF TypedOK
<1>5. QED
  BY <1>1, <1>2, <1>3, <1>4 DEF ResolvingOK

LEMMA Counting ==
  ASSUME GameOK, events < MaxEvents, events' = events + 1,
         position' \in [Located -> Positions], access' \subseteq Chars \X Structures
  PROVE  GameOK'
<1>1. events' \in 0 .. MaxEvents
  BY ResolverBoundsAssumption DEF GameOK
<1>2. QED
  BY <1>1 DEF GameOK

(* A find in the cache is what the id is; else a question is put.          *)
LEMMA Asked ==
  ASSUME PeopleOK, NEW i \in Ids, NEW want \in Wants, Len(naming) < 2, Ask(i, want),
         names' = names
  PROVE  PeopleOK'
<1>1. PICK found \in SUBSET Categories :
        found = {k \in Categories : want \in {k, "any"} /\ FoundName(i, k)}
  OBVIOUS
<1>2. /\ naming \in Seq(Questions) /\ Len(naming) \in Nat
      /\ names[i] \in {"none", CategoryOf[i]}
  BY DEF PeopleOK
<1>3. CASE found # {}
  <2>1. PICK k \in found : told' = Told(i, k, TRUE) /\ naming' = naming
    <3>1. (CHOOSE k \in found : TRUE) \in found
      BY <1>3
    <3>2. told' = Told(i, CHOOSE k \in found : TRUE, TRUE) /\ naming' = naming
      BY <1>1, <1>3 DEF Ask
    <3>3. QED
      BY <3>1, <3>2
  <2>2. names[i] = k /\ k # "none"
    BY <1>1, <2>1 DEF FoundName, Categories
  <2>3. k = CategoryOf[i]
    BY <1>2, <2>2
  <2>4. told'.named => told'.type = CategoryOf[told'.id]
    BY <2>1, <2>3 DEF Told
  <2>5. QED
    BY <2>1, <2>4 DEF PeopleOK
<1>4. CASE found = {}
  <2>1. PICK q : q = [id |-> i, want |-> want]
    OBVIOUS
  <2>2. naming' = Append(naming, q) /\ told' = told
    BY <1>1, <1>4, <2>1 DEF Ask
  <2>3. q \in Questions
    BY <2>1 DEF Questions
  <2>4. naming' \in Seq(Questions) /\ Len(naming') = Len(naming) + 1
    BY <1>2, <2>2, <2>3, AppendProperties
  <2>5. Len(naming') <= 2
    BY <1>2, <2>4
  <2>6. QED
    BY <2>2, <2>4, <2>5 DEF PeopleOK
<1>5. QED
  BY <1>3, <1>4

LEMMA SenderAsked ==
  ASSUME IInv, NEW i \in Ids, NEW listsKnown \in BOOLEAN, ResolveSender(i, listsKnown)
  PROVE  IInv' /\ KnownKept
<1>1. /\ events < MaxEvents /\ Len(naming) < 2 /\ events' = events + 1
      /\ UNCHANGED <<position, access, row, locations, names, cacheOpen, forbidden,
                     fake, task, denied>>
  BY DEF ResolveSender, CanAsk
<1>2. PeopleOK'
  <2>1. CASE CategoryOf[i] = "list" /\ listsKnown
    <3>1. told' = Told(i, "list", TRUE) /\ naming' = naming
      BY <2>1 DEF ResolveSender
    <3>2. told'.named => told'.type = CategoryOf[told'.id]
      BY <2>1, <3>1 DEF Told
    <3>3. QED
      BY <1>1, <3>1, <3>2, PartsOf DEF PeopleOK
  <2>2. CASE ~(CategoryOf[i] = "list" /\ listsKnown)
    <3>1. Ask(i, "character") /\ "character" \in Wants
      BY <2>2 DEF ResolveSender, Wants, Categories
    <3>2. QED
      BY <1>1, <3>1, PartsOf, Asked
  <2>3. QED
    BY <2>1, <2>2
<1>3. GameOK'
  BY <1>1, PartsOf, Counting DEF GameOK
<1>4. QED
  BY <1>1, <1>2, <1>3, PlacesKept DEF IInv

LEMMA PersonAsked ==
  ASSUME IInv, NEW i \in Ids, NEW want \in Wants, ResolvePerson(i, want)
  PROVE  IInv' /\ KnownKept
<1>1. /\ events < MaxEvents /\ Len(naming) < 2 /\ events' = events + 1
      /\ Ask(i, want)
      /\ UNCHANGED <<position, access, row, locations, names, cacheOpen, forbidden,
                     fake, task, denied>>
  BY DEF ResolvePerson, CanAsk
<1>2. PeopleOK'
  BY <1>1, PartsOf, Asked
<1>3. GameOK'
  BY <1>1, PartsOf, Counting DEF GameOK
<1>4. QED
  BY <1>1, <1>2, <1>3, PlacesKept DEF IInv

(* The innermost question is answered: what is wanted is what the id is.   *)
LEMMA NameComes ==
  ASSUME IInv, NEW ok \in BOOLEAN, NameAnswered(ok)
  PROVE  IInv' /\ KnownKept
<1>1. /\ naming # <<>> /\ naming' = SubSeq(naming, 1, Len(naming) - 1)
      /\ UNCHANGED <<game, row, locations, cacheOpen, forbidden, fake, task, denied>>
  BY DEF NameAnswered
<1>2. /\ naming \in Seq(Questions) /\ Len(naming) \in Nat \ {0} /\ Len(naming) <= 2
      /\ Len(naming) \in 1 .. Len(naming)
  <2>1. naming \in Seq(Questions) /\ Len(naming) <= 2
    BY PartsOf DEF PeopleOK
  <2>2. Len(naming) \in Nat \ {0}
    BY <1>1, <2>1, EmptySeq
  <2>3. QED
    BY <2>1, <2>2
<1>3. PICK q \in Questions : q = naming[Len(naming)]
  BY <1>2, ElementOfSeq
<1>4. q.id \in Ids /\ q.want \in Wants
  BY DEF Questions
<1>5. PICK hit \in BOOLEAN :
        hit = (/\ ok /\ CategoryOf[q.id] \in Categories
               /\ Matches(q.want, CategoryOf[q.id]))
  BY Zenon
<1>6. PICK kind : kind = IF q.want = "any" THEN CategoryOf[q.id] ELSE q.want
  OBVIOUS
<1>7. /\ names' = IF hit THEN SavedName(q.id, kind) ELSE names
      /\ told' = Told(q.id, kind, hit)
  BY <1>3, <1>5, <1>6 DEF NameAnswered
<1>8. hit => kind = CategoryOf[q.id] /\ kind \in Categories
  BY <1>5, <1>6 DEF Matches
<1>9. told'.named => told'.type = CategoryOf[told'.id]
  BY <1>7, <1>8 DEF Told
<1>10. /\ names' \in [Ids -> Categories \cup {"none"}]
       /\ \A i \in Ids : names'[i] \in {"none", CategoryOf[i]}
  <2>1. /\ names \in [Ids -> Categories \cup {"none"}]
        /\ \A i \in Ids : names[i] \in {"none", CategoryOf[i]}
    BY PartsOf DEF PeopleOK
  <2>2. CASE hit /\ cacheOpen
    <3>1. names' = [names EXCEPT ![q.id] = kind]
      BY <1>7, <2>2 DEF SavedName
    <3>2. QED
      BY <1>4, <1>8, <2>1, <2>2, <3>1
  <2>3. CASE ~(hit /\ cacheOpen)
    <3>1. names' = names
      BY <1>7, <2>3 DEF SavedName
    <3>2. QED
      BY <2>1, <3>1
  <2>4. QED
    BY <2>2, <2>3
<1>11. naming' \in Seq(Questions) /\ Len(naming') <= 2
  <2>1. PICK n \in Nat : n = Len(naming) - 1
    BY <1>2
  <2>2. n - 1 + 1 = n /\ n <= 2 /\ \A i \in 1 .. n : i \in 1 .. Len(naming)
    BY <1>2, <2>1
  <2>3. \A i \in 1 .. n : naming[i] \in Questions
    BY <1>2, <2>2, ElementOfSeq
  <2>4. /\ SubSeq(naming, 1, n) \in Seq(Questions)
        /\ Len(SubSeq(naming, 1, n)) = IF 1 <= n THEN n - 1 + 1 ELSE 0
    BY <2>3, SubSeqProperties
  <2>5. Len(SubSeq(naming, 1, n)) <= 2
    BY <2>2, <2>4
  <2>6. QED
    BY <1>1, <2>1, <2>4, <2>5
<1>12. PeopleOK'
  BY <1>9, <1>10, <1>11 DEF PeopleOK
<1>13. GameOK'
  BY <1>1, PartsOf, GameKept
<1>14. QED
  BY <1>1, <1>12, <1>13, PlacesKept DEF IInv

-----------------------------------------------------------------------------
(* The game and the application.                                           *)

LEMMA Moving ==
  ASSUME IInv, NEW c \in Located, Move(c)
  PROVE  IInv' /\ KnownKept
<1>1. PICK p \in Positions : position' = [position EXCEPT ![c] = p]
  BY DEF Move
<1>2. /\ events < MaxEvents /\ events' = events + 1
      /\ UNCHANGED <<access, row, locations, names, forbidden, fake, task, naming,
                     told, denied, cacheOpen>>
  BY DEF Move, worker
<1>3. position' \in [Located -> Positions]
  BY <1>1, PartsOf DEF GameOK
<1>4. GameOK'
  BY <1>2, <1>3, PartsOf, Counting DEF GameOK
<1>5. PeopleOK'
  BY <1>2, PartsOf, PeopleKept
<1>6. QED
  BY <1>2, <1>4, <1>5, PlacesKept DEF IInv

LEMMA AccessChanging ==
  ASSUME IInv, NEW c \in Chars, NEW d \in Structures, ChangeAccess(c, d)
  PROVE  IInv' /\ KnownKept
<1>1. /\ events < MaxEvents /\ events' = events + 1
      /\ UNCHANGED <<position, row, locations, names, forbidden, fake, task, naming,
                     told, denied, cacheOpen>>
      /\ access' \subseteq access \cup {<<c, d>>}
  BY DEF ChangeAccess, worker
<1>2. access' \subseteq Chars \X Structures
  BY <1>1, PartsOf DEF GameOK
<1>3. GameOK'
  BY <1>1, <1>2, PartsOf, Counting DEF GameOK
<1>4. PeopleOK'
  BY <1>1, PartsOf, PeopleKept
<1>5. QED
  BY <1>1, <1>3, <1>4, PlacesKept DEF IInv

LEMMA Restarting ==
  ASSUME IInv, Restart
  PROVE  IInv' /\ KnownKept
<1>1. /\ events < MaxEvents /\ events' = events + 1
      /\ forbidden' = {} /\ fake' = "" /\ task' = Idle /\ naming' = <<>>
      /\ told' = Nobody
      /\ UNCHANGED <<position, access, row, locations, names, cacheOpen, denied>>
  BY DEF Restart
<1>2. GameOK'
  BY <1>1, PartsOf, Counting DEF GameOK
<1>3. RowsOK'
  BY <1>1, PartsOf, RowsKept
<1>4. LocationsOK' /\ KnownKept
  BY <1>1, PartsOf, LocationsKept
<1>5. RefusedOK'
  BY <1>1, PartsOf DEF RefusedOK, Types
<1>6. TypedOK' /\ AskedOK'
  BY <1>1, IdleOK DEF TypedOK, AskedOK, Idle
<1>7. PeopleOK'
  <2>1. <<>> \in Seq(Questions) /\ Len(<<>>) = 0
    BY EmptySeq
  <2>2. told'.named => told'.type = CategoryOf[told'.id]
    BY <1>1 DEF Nobody
  <2>3. naming' = <<>> /\ names' = names
    BY <1>1
  <2>4. /\ names \in [Ids -> Categories \cup {"none"}]
        /\ \A i \in Ids : names[i] \in {"none", CategoryOf[i]}
    BY PartsOf DEF PeopleOK
  <2>5. naming' \in Seq(Questions) /\ Len(naming') <= 2
    BY <2>1, <2>3
  <2>6. QED
    BY <2>2, <2>3, <2>4, <2>5 DEF PeopleOK
<1>8. QED
  BY <1>2, <1>3, <1>4, <1>5, <1>6, <1>7 DEF IInv, ResolvingOK

-----------------------------------------------------------------------------
(* The parts together.                                                     *)

LEMMA IInvInit == Init => IInv
<1> SUFFICES ASSUME Init PROVE IInv
  OBVIOUS
<1>1. GameOK
  <2>1. 0 \in 0 .. MaxEvents
    BY ResolverBoundsAssumption
  <2>2. position \in [Located -> Positions] /\ access \subseteq Chars \X Structures
    BY HomesAssumption DEF Init
  <2>3. events \in 0 .. MaxEvents
    BY <2>1 DEF Init
  <2>4. QED
    BY <2>2, <2>3 DEF GameOK
<1>2. Nowhere \in Places /\ CopyOK(Nowhere, {}, {})
  <2>1. Nowhere \in Places
    BY DEF Nowhere, Places
  <2>2. \A l \in Levels : Nowhere.id[l] = 0
    BY DEF Nowhere
  <2>3. QED
    BY <2>1, <2>2, LevelNames DEF CopyOK, Sound, NamedWell, NestsWell
<1>3. RowsOK
  <2>1. row = [c \in Located |-> Nowhere] /\ denied = {}
    BY DEF Init
  <2>2. QED
    BY <1>2, <2>1 DEF RowsOK
<1>4. LocationsOK
  <2>1. \/ locations \in [Docks -> {Unknown}]
        \/ locations = [d \in Docks |-> Location("", d)]
    BY DEF Init
  <2>2. ASSUME NEW d \in Docks
        PROVE  /\ locations[d] \in [type : Types, name : Int]
               /\ locations[d] # Unknown => locations[d].name = d
    <3>1. d \in Int
      <4>1. d \in Nat
        BY DocksAssumption
      <4>2. QED
        BY <4>1
    <3>2. locations[d] = Unknown \/ locations[d] = Location("", d)
      BY <2>1
    <3>3. CASE locations[d] = Unknown
      BY <3>3, LocationTypes
    <3>4. CASE locations[d] = Location("", d)
      <4>1. Location("", d) = [type |-> "", name |-> d]
        BY DEF Location
      <4>2. "" \in Types
        BY DEF Types
      <4>3. PICK r : r = [type |-> "", name |-> d]
        OBVIOUS
      <4>4. r \in [type : Types, name : Int] /\ r.name = d
        BY <3>1, <4>2, <4>3
      <4>5. locations[d] = r
        BY <3>4, <4>1, <4>3
      <4>6. QED
        BY <4>4, <4>5
    <3>5. QED
      BY <3>2, <3>3, <3>4
  <2>3. locations \in [Docks -> [type : Types, name : Int]]
    BY <2>1, <2>2
  <2>4. ~cacheOpen => \A d \in Docks : locations[d] = Unknown
    BY DEF Init
  <2>5. QED
    BY <2>2, <2>3, <2>4 DEF LocationsOK, Called
<1>5. RefusedOK
  BY DEF Init, RefusedOK, Types
<1>6. TypedOK /\ AskedOK
  BY IdleOK DEF Init, TypedOK, AskedOK, Idle
<1>7. PeopleOK
  <2>1. <<>> \in Seq(Questions) /\ Len(<<>>) = 0
    BY EmptySeq
  <2>2. told.named => told.type = CategoryOf[told.id]
    BY DEF Init, Nobody
  <2>3. naming = <<>> /\ names = [i \in Ids |-> "none"]
    BY DEF Init
  <2>4. QED
    BY <2>1, <2>2, <2>3 DEF PeopleOK
<1>8. QED
  BY <1>1, <1>3, <1>4, <1>5, <1>6, <1>7 DEF IInv, ResolvingOK

LEMMA IInvStep == IInv /\ [Next]_vars => IInv' /\ KnownKept
<1> SUFFICES ASSUME IInv, [Next]_vars PROVE IInv' /\ KnownKept
  OBVIOUS
<1>1. CASE UNCHANGED vars
  <2>1. UNCHANGED <<position, access, row, locations, names, cacheOpen, forbidden,
                    fake, task, naming, told, denied, events>>
    BY <1>1 DEF vars
  <2>2. GameOK' /\ PeopleOK'
    BY <2>1, PartsOf, GameKept, PeopleKept DEF game
  <2>3. QED
    BY <2>1, <2>2, PlacesKept DEF IInv
<1>2. CASE Next
  <2>1. Wants = Categories \cup {"any"}
    BY DEF Wants
  <2>2. ShipAnswered => IInv' /\ KnownKept
    BY Finishing DEF ShipAnswered, Waits
  <2>3. \A kept \in BOOLEAN : Failed(kept) => IInv' /\ KnownKept
    BY Finishing DEF Failed
  <2>4. ASSUME NEW guest \in Guests, ChangeAccess(guest[1], guest[2])
        PROVE  IInv' /\ KnownKept
    <3>1. guest[1] \in Chars /\ guest[2] \in Structures
      BY GuestsAssumption
    <3>2. QED
      BY <2>4, <3>1, AccessChanging
  <2>5. ASSUME NEW thing \in Belongings,
               \/ ResolveLocation(thing[1], thing[2])
               \/ GuessType(thing[1], thing[2])
        PROVE  IInv' /\ KnownKept
    <3>1. thing[1] \in Chars /\ thing[2] \in Docks
      BY BelongingsAssumption
    <3>2. QED
      BY <2>5, <3>1, ResolvingLocation, GuessingType
  <2>6. QED
    BY <1>2, <2>1, <2>2, <2>3, <2>4, <2>5, Starting, Moving, LocationComes,
       StationComes, StructureComes, TypeComes, NameComes, PlaceComes, PlaceMissed, SenderAsked, PersonAsked, Restarting
       DEF Next
<1>3. QED
  BY <1>1, <1>2

(* The invariant of this module holds.                                     *)
THEOREM Invariance == Spec => []IInv
BY IInvInit, IInvStep, PTL DEF Spec

LEMMA AsStated ==
  ASSUME IInv
  PROVE  TypeOK /\ NamesMatchIds /\ PlacesNest /\ CacheTrue
<1>1. /\ GameOK /\ RowsOK /\ PeopleOK /\ LocationsOK /\ RefusedOK
      /\ task \in Tasks
  BY PartsOf
<1>2. \A l, id : NameOf(l, id) = Called(denied, l, id)
  BY DEF NameOf, Called
<1>3. TypeOK
  <2>1. /\ task.copy \in Places /\ task.who \in Chars \cup {0} /\ task.at \in Ats
    BY <1>1, TaskTypes
  <2>2. QED
    BY <1>1, <2>1
       DEF GameOK, RowsOK, PeopleOK, LocationsOK, RefusedOK, Types, Ats, TypeOK
<1>4. NamesMatchIds
  BY <1>1, <1>2 DEF RowsOK, CopyOK, NamedWell, NamesMatchIds
<1>5. PlacesNest
  BY <1>1 DEF RowsOK, CopyOK, NestsWell, PlacesNest
<1>6. CacheTrue
  BY <1>1, <1>2 DEF LocationsOK, PeopleOK, CacheTrue
<1>7. QED
  BY <1>3, <1>4, <1>5, <1>6

(* The variables have their types: in particular the people being resolved *)
(* nest once, and only citadels that have refused are remembered as such.  *)
THEOREM TypeCorrect == Spec => []TypeOK
<1>1. IInv => TypeOK
  BY AsStated
<1>2. QED
  BY <1>1, Invariance, PTL

(* In a row the name of one place does not stand beside the id of another, *)
(* although a name is only asked for when its id has changed, unless the   *)
(* request for the name of that very id has failed: then the name of the   *)
(* previous place stays there, and nothing is said of this level.          *)
THEOREM NamesMatch == Spec => []NamesMatchIds
<1>1. IInv => NamesMatchIds
  BY AsStated
<1>2. QED
  BY <1>1, Invariance, PTL

(* System, constellation and region of a row belong together unless a      *)
(* request of the chain has failed.                                        *)
THEOREM PlacesBelong == Spec => []PlacesNest
<1>1. IInv => PlacesNest
  BY AsStated
<1>2. QED
  BY <1>1, Invariance, PTL

(* What is cached for all characters is true, and so is what was told of   *)
(* the person that was resolved last.                                      *)
THEOREM CacheRight == Spec => []CacheTrue
<1>1. IInv => CacheTrue
  BY AsStated
<1>2. QED
  BY <1>1, Invariance, PTL

(* A location that one character could read stays in the cache when the    *)
(* citadel refuses another one or a request fails: a request is made only  *)
(* for what is not cached, and nothing else is stored while it waits.      *)
(* Entries without a type are not meant: they are deleted before their     *)
(* type is asked for.                                                      *)
THEOREM KnownRemains == Spec => KnownStays
<1>1. IInv /\ [Next]_vars =>
        [\A d \in Docks : locations[d].type # "" /\ locations[d].name = d =>
                            locations'[d] = locations[d]]_vars
  BY IInvStep DEF KnownKept
<1>2. QED
  BY <1>1, Invariance, PTL DEF Spec, KnownStays
============================================================================
