------------------------------- MODULE Resolvers -------------------------------
(***************************************************************************)
(* The resolvers of the worker: where a character is (refresh_location),   *)
(* how a station, a citadel or an id is called, and the two tables of the  *)
(* cache database that all characters share, location_cache and            *)
(* names_cache.  Every request to ESI waits in a nested event loop, from   *)
(* which the body of a mail may be requested, whose people are resolved    *)
(* before the first request goes on.  A request may fail, a citadel may    *)
(* refuse a character (403), and the application may restart anywhere.     *)
(*                                                                         *)
(* A thing is its id, a positive number, and its name is written as that   *)
(* id; -d is the name "Forbidden citadel d" and 0 no name.                 *)
(***************************************************************************)
EXTENDS Integers, Sequences, FiniteSets

CONSTANTS
  Chars, Stations, Structures, Systems,
  Located,          \* bound: the characters whose location is refreshed
  ConstellationOf,  \* of a system
  RegionOf,         \* of a constellation
  Positions,        \* where a character may be: a system and a dock or 0
  Homes,            \* bound: where the located characters begin
  Belongings,       \* bound: who has clones or assets in which dock
  Guests,           \* bound: whose access to which citadel changes
  Ids,              \* ids of people that are resolved
  CategoryOf,       \* what such an id is, "list" for a mailing list
  NestedIn,         \* bound: the waits in which people are resolved
  MaxEvents         \* bound: moves in the game, people to resolve and
                    \* restarts of the application

Docks == Stations \cup Structures
Constellations == {ConstellationOf[s] : s \in Systems}
Regions == {RegionOf[k] : k \in Constellations}
Categories == {"character", "corporation", "alliance"}

ASSUME DocksAssumption ==
  /\ Docks \subseteq Nat \ {0} /\ Stations \cap Structures = {}
  /\ Systems \subseteq Nat \ {0}
  /\ Positions \subseteq [system : Systems, dock : Docks \cup {0}]
ASSUME ChainAssumption ==
  /\ ConstellationOf \in [Systems -> Nat \ {0}]
  /\ RegionOf \in [Constellations -> Nat \ {0}]
ASSUME LocatedAssumption == Located \subseteq Chars
ASSUME HomesAssumption == Homes \subseteq Positions
ASSUME BelongingsAssumption == Belongings \subseteq Chars \X Docks
ASSUME GuestsAssumption == Guests \subseteq Chars \X Structures
ASSUME PeopleAssumption == CategoryOf \in [Ids -> Categories \cup {"list"}]
ASSUME ResolverBoundsAssumption == MaxEvents \in Nat

VARIABLES
  position,   \* where each character is in the game
  access,     \* the citadels that let a character in
  row,        \* where the row of the model says that the character is
  locations,  \* table location_cache
  names,      \* table names_cache: the object_type of each id
  cacheOpen,  \* open_cache succeeded
  forbidden,  \* the static set forbiddenStructures
  fake,       \* the type of the static forbiddenStructure
  task,       \* the location that the worker's thread resolves
  naming,     \* the people it resolves, the innermost last
  told,       \* the last person that the section resolved
  denied,     \* history: a citadel has refused a character
  events

vars == <<position, access, row, locations, names, cacheOpen, forbidden, fake,
          task, naming, told, denied, events>>
worker == <<locations, names, forbidden, fake, task, naming, told, denied>>
game == <<position, access, events>>

Levels == {"dock", "system", "constellation", "region"}

(* The current ids and names of Character, a dock for its station and its  *)
(* structure id; missed are the levels whose request for the name failed   *)
(* after their id was set.                                                 *)
Nowhere == [id |-> [l \in Levels |-> 0], name |-> [l \in Levels |-> 0],
            missed |-> {}]

(* EveLocation: its type and name; Unknown is an empty one, or no row in   *)
(* the table.                                                              *)
Location(t, n) == [type |-> t, name |-> n]
Unknown == Location("", 0)

TypeOf(d) == IF d \in Stations THEN "station" ELSE "structure"

Idle == [kind |-> "none", who |-> 0, at |-> "idle", dock |-> 0, system |-> 0,
         copy |-> Nowhere]
Nobody == [id |-> 0, type |-> "", named |-> FALSE]

Init ==
  /\ position \in [Located -> Homes]
  \* citadels begin open to all or closed to all, ChangeAccess mixes them
  /\ access \in {{}, Chars \X Structures}
  /\ row = [c \in Located |-> Nowhere]
  \* entries without a type are left from earlier versions
  /\ locations \in [Docks -> {Unknown}] \cup {[d \in Docks |-> Location("", d)]}
  /\ names = [i \in Ids |-> "none"]
  /\ cacheOpen \in BOOLEAN
  /\ ~cacheOpen => \A d \in Docks : locations[d] = Unknown
  /\ forbidden = {} /\ fake = ""
  /\ task = Idle /\ naming = <<>> /\ told = Nobody
  /\ denied = {} /\ events = 0

-----------------------------------------------------------------------------
(* The tables of the cache database.  Without an open database a find      *)
(* finds nothing and a save does nothing.                                  *)

(* loadCachedLocation.                                                     *)
Cached(d) == IF cacheOpen THEN locations[d] ELSE Unknown
(* saveCachedLocation, when isEmpty does not keep it from being called.    *)
SavedLocation(d, loc) ==
  IF cacheOpen /\ loc # Unknown THEN [locations EXCEPT ![d] = loc] ELSE locations

(* findCachedCharacterName, findCachedCorporationName and                  *)
(* findCachedAllianceName.                                                 *)
FoundName(i, category) == cacheOpen /\ names[i] = category
(* saveCachedCharacterName and its two sisters: INSERT OR REPLACE by id.   *)
SavedName(i, category) ==
  IF cacheOpen THEN [names EXCEPT ![i] = category] ELSE names

-----------------------------------------------------------------------------
(* The copy that the worker fills in.                                      *)

(* A setter of a current id, and of a current name; a request that fails   *)
(* leaves the name as it was.                                              *)
Go(copy, level, id) ==
  IF id = copy.id[level] THEN copy
  ELSE [copy EXCEPT !.id[level] = id, !.missed = @ \ {level}]
Name(copy, level, n) == [copy EXCEPT !.name[level] = n]
Miss(copy, level) == [copy EXCEPT !.missed = @ \cup {level}]

(* refresh_location, the end of the dock: on to the system, if it changed. *)
Onward(t) ==
  IF t.copy.id["system"] # t.system
  THEN [t EXCEPT !.copy = Go(@, "system", t.system), !.at = "system"]
  ELSE [t EXCEPT !.at = "ship"]

(* What the caller of resolve_location does with the location it returns.  *)
Returned(t, loc) ==
  IF t.kind = "guess" THEN Idle
  ELSE Onward([t EXCEPT !.copy = IF loc = Unknown THEN Miss(@, "dock")
                                 ELSE Name(@, "dock", loc.name)])

(* send_location_request, the static location of citadels that refuse: its *)
(* name is set whenever it is returned, but its type is that of the first  *)
(* location request of any kind in the process.                            *)
FirstType(t) == IF fake = "" THEN t ELSE fake
(* Mutant: the static location keeps the name of an earlier refusal.       *)
RefusalNamedOnce(t, d) ==
  Location(FirstType(t), IF forbidden = {} THEN -d ELSE -(CHOOSE e \in forbidden : TRUE))

Refusal(t, d) == Location(FirstType(t), -d)

(* A structure that is known to refuse is not asked for again.             *)
KnownForbidden(type, d) == type = "structure" /\ d \in forbidden

(* Mutant: resolve_location asks ESI without a look at the cache.          *)
ResolveAlways(t, d, type) ==
  /\ fake' = FirstType(type)
  /\ task' = [t EXCEPT !.at = type, !.dock = d]
  /\ UNCHANGED locations

(* resolve_location: the cache, the set of citadels that refuse, or else a *)
(* request.  Of a cached location the name counts, it is given the type    *)
(* that was asked for.                                                     *)
Resolve(t, d, type) ==
  IF Cached(d) # Unknown
  THEN /\ task' = Returned(t, Cached(d))
       /\ UNCHANGED <<locations, fake>>
  ELSE IF KnownForbidden(type, d)
  THEN /\ fake' = FirstType(type)
       /\ locations' = SavedLocation(d, Refusal(type, d))
       /\ task' = Returned(t, Refusal(type, d))
  ELSE /\ fake' = FirstType(type)
       /\ task' = [t EXCEPT !.at = type, !.dock = d]
       /\ UNCHANGED locations

(* The worker goes on where it waits when nothing is nested above it.      *)
Waits(at) == task.at = at /\ naming = <<>>

-----------------------------------------------------------------------------
(* refresh_location.                                                       *)

Start(c) ==
  /\ Waits("idle")
  /\ task' = [Idle EXCEPT !.kind = "location", !.who = c, !.at = "location",
                          !.copy = row[c]]
  /\ told' = Nobody
  /\ UNCHANGED <<game, row, locations, names, cacheOpen, forbidden, fake, naming,
                 denied>>

(* Mutant: an id that the answer does not have is left as it was.          *)
DockInKept(here, copy) == IF here.dock = 0 THEN copy.id["dock"] ELSE here.dock

(* The station or structure id of the answer, 0 when it has none.          *)
DockIn(here, copy) == here.dock
(* Whether it differs from the previous one.                               *)
DockChanged(copy, d) == copy.id["dock"] # d
(* The location is set first; the name of the dock is asked for only when  *)
(* its id has changed, of a structure in resolve_location, of a station in *)
(* a request that does not use the cache.                                  *)
LocationAnswered ==
  LET here == position[task.who]
      d == DockIn(here, task.copy)
      changed == DockChanged(task.copy, d)
      t == [task EXCEPT !.system = here.system, !.dock = d,
                        !.copy = Go(@, "dock", d)]
  IN
  /\ Waits("location")
  /\ \/ /\ changed /\ d \in Structures
        /\ Resolve(t, d, "structure")
     \/ /\ changed /\ d \in Stations
        /\ task' = [t EXCEPT !.at = "station"]
        /\ UNCHANGED <<locations, fake>>
     \/ /\ ~changed \/ d = 0
        /\ task' = Onward(t)
        /\ UNCHANGED <<locations, fake>>
  /\ UNCHANGED <<game, row, names, cacheOpen, forbidden, naming, told, denied>>

(* get_universe_station; it is send_location_request when the caller is a  *)
(* resolver, and then the station is saved in the cache.                   *)
StationAnswered(ok) ==
  LET d == task.dock
      loc == IF ok THEN Location("station", d) ELSE Unknown
  IN
  /\ Waits("station")
  /\ task' = Returned(task, loc)
  /\ locations' = IF task.kind = "guess" THEN SavedLocation(d, loc) ELSE locations
  /\ UNCHANGED <<game, row, names, cacheOpen, forbidden, fake, naming, told,
                 denied>>

(* Mutant: any failure is taken for a refusal.                             *)
StructureAnsweredRough(ok) ==
  LET d == task.dock
      refused == ~(ok /\ <<task.who, d>> \in access)
      loc == IF refused THEN Refusal("structure", d) ELSE Location("structure", d)
  IN
  /\ Waits("structure")
  /\ forbidden' = IF refused THEN forbidden \cup {d} ELSE forbidden
  /\ denied' = IF refused /\ ok THEN denied \cup {d} ELSE denied
  /\ locations' = SavedLocation(d, loc)
  /\ task' = Returned(task, loc)
  /\ UNCHANGED <<game, row, names, cacheOpen, fake, naming, told>>

(* get_universe_structure: the name, a failure, or 403 for a character     *)
(* that the citadel does not let in.                                       *)
StructureAnswered(ok) ==
  LET d == task.dock
      refused == ok /\ <<task.who, d>> \notin access
      loc == CASE ~ok -> Unknown
               [] refused -> Refusal("structure", d)
               [] OTHER -> Location("structure", d)
  IN
  /\ Waits("structure")
  /\ forbidden' = IF refused THEN forbidden \cup {d} ELSE forbidden
  /\ denied' = IF refused THEN denied \cup {d} ELSE denied
  /\ locations' = SavedLocation(d, loc)
  /\ task' = Returned(task, loc)
  /\ UNCHANGED <<game, row, names, cacheOpen, fake, naming, told>>

(* get_universe_system, _constellation and _region: a name and the id of   *)
(* the next level, which is set and asked for only when it has changed.    *)
NextLevel == [system |-> "constellation", constellation |-> "region",
              region |-> "ship"]
Above(level, id) ==
  IF level = "system" THEN ConstellationOf[id] ELSE RegionOf[id]

PlaceAnswered(level) ==
  LET named == Name(task.copy, level, task.copy.id[level])
      next == NextLevel[level]
      id == Above(level, task.copy.id[level])
  IN
  /\ Waits(level)
  /\ task' = IF level # "region" /\ id # named.id[next]
             THEN [task EXCEPT !.copy = Go(named, next, id), !.at = next]
             ELSE [task EXCEPT !.copy = named, !.at = "ship"]
  /\ UNCHANGED <<game, row, locations, names, cacheOpen, forbidden, fake, naming,
                 told, denied>>

(* Mutant: the id without a name is set back, to be asked for again.       *)
PlaceFailedForgets(level) ==
  /\ Waits(level)
  /\ task' = [task EXCEPT !.copy = Miss(Go(@, level, 0), level), !.at = "ship"]
  /\ UNCHANGED <<game, row, locations, names, cacheOpen, forbidden, fake, naming,
                 told, denied>>

(* A failed request of the chain ends it, and the ship is asked for.       *)
PlaceFailed(level) ==
  /\ Waits(level)
  /\ task' = [task EXCEPT !.copy = Miss(@, level), !.at = "ship"]
  /\ UNCHANGED <<game, row, locations, names, cacheOpen, forbidden, fake, naming,
                 told, denied>>

(* The last request.  The copy is sent to the model when this section or   *)
(* another one counted something.                                          *)
Finish(kept) ==
  /\ row' = IF kept THEN [row EXCEPT ![task.who] = task.copy] ELSE row
  /\ task' = Idle
  /\ UNCHANGED <<game, locations, names, cacheOpen, forbidden, fake, naming, told,
                 denied>>
ShipAnswered == Waits("ship") /\ Finish(TRUE)
Failed(kept) == task.at \in {"location", "ship"} /\ Waits(task.at) /\ Finish(kept)

-----------------------------------------------------------------------------
(* The other callers of the resolvers: assets, clones and the journal.     *)

(* resolve_location for a place of a clone or an asset.                    *)
ResolveLocation(c, d) ==
  /\ Waits("idle")
  /\ Resolve([Idle EXCEPT !.kind = "guess", !.who = c], d, TypeOf(d))
  /\ told' = Nobody
  /\ UNCHANGED <<game, row, names, cacheOpen, forbidden, naming, denied>>

(* resolve_location_guess_type: a cached location without a type is        *)
(* deleted, and the type is asked for.                                     *)
GuessType(c, d) ==
  /\ Waits("idle")
  /\ Cached(d).type = ""
  /\ locations' = [locations EXCEPT ![d] = Unknown]
  /\ task' = [Idle EXCEPT !.kind = "guess", !.who = c, !.at = "typing", !.dock = d]
  /\ told' = Nobody
  /\ UNCHANGED <<game, row, names, cacheOpen, forbidden, fake, naming, denied>>

(* post_universe_names knows stations; of a citadel it says nothing, and   *)
(* the resolver gives up.                                                  *)
TypeAnswered(ok) ==
  /\ Waits("typing")
  /\ \/ /\ ok /\ task.dock \in Stations
        /\ Resolve(task, task.dock, "station")
     \/ /\ ~ok \/ task.dock \in Structures
        /\ task' = Idle
        /\ UNCHANGED <<locations, fake>>
  /\ UNCHANGED <<game, row, names, cacheOpen, forbidden, naming, told, denied>>

-----------------------------------------------------------------------------
(* Names of people.                                                        *)

Told(i, type, named) == [id |-> i, type |-> type, named |-> named]

(* resolve_character_name, resolve_corporation_name, resolve_alliance_name *)
(* and, for "any", resolve_universe_name: a find in the cache, which is    *)
(* what the name is found under, or a question to ESI.                     *)
Ask(i, want) ==
  LET found == {k \in Categories : want \in {k, "any"} /\ FoundName(i, k)} IN
  IF found # {}
  THEN /\ told' = Told(i, CHOOSE k \in found : TRUE, TRUE)
       /\ UNCHANGED naming
  ELSE /\ naming' = Append(naming, [id |-> i, want |-> want])
       /\ UNCHANGED told

(* At most one request is nested in another one.                           *)
CanAsk == events < MaxEvents /\ Len(naming) < 2 /\ task.at \in NestedIn

(* resolve_single_mail_recipient: a sender of unknown type is of a mailing *)
(* list of the character, or taken for a character.  After the request for *)
(* the lists has failed none is known.                                     *)
ResolveSender(i, listsKnown) ==
  /\ CanAsk
  /\ IF CategoryOf[i] = "list" /\ listsKnown
     THEN told' = Told(i, "list", TRUE) /\ UNCHANGED naming
     ELSE Ask(i, "character")
  /\ events' = events + 1
  /\ UNCHANGED <<position, access, row, locations, names, cacheOpen, forbidden,
                 fake, task, denied>>

(* A recipient and the sender of a notification come with their type, a    *)
(* client of the wallet comes without one.                                 *)
ResolvePerson(i, want) ==
  /\ CanAsk
  /\ want \in {CategoryOf[i], "any"} /\ want # "list"
  /\ Ask(i, want)
  /\ events' = events + 1
  /\ UNCHANGED <<position, access, row, locations, names, cacheOpen, forbidden,
                 fake, task, denied>>

(* Mutant: the category of the answer is not looked at.                    *)
MatchesAny(want, category) == want \in STRING /\ category \in STRING

(* post_universe_names for the innermost question: the name counts when it *)
(* is of the wanted category, and it is saved.                             *)
Matches(want, category) == want \in {category, "any"}
NameAnswered(ok) ==
  LET q == naming[Len(naming)]
      kind == IF q.want = "any" THEN CategoryOf[q.id] ELSE q.want
      hit == /\ ok /\ CategoryOf[q.id] \in Categories
             /\ Matches(q.want, CategoryOf[q.id])
  IN
  /\ naming # <<>>
  /\ names' = IF hit THEN SavedName(q.id, kind) ELSE names
  /\ told' = Told(q.id, kind, hit)
  /\ naming' = SubSeq(naming, 1, Len(naming) - 1)
  /\ UNCHANGED <<game, row, locations, cacheOpen, forbidden, fake, task, denied>>

-----------------------------------------------------------------------------
(* The game and the application.                                           *)

Move(c) ==
  /\ events < MaxEvents
  /\ \E p \in Positions \ {position[c]} : position' = [position EXCEPT ![c] = p]
  /\ events' = events + 1
  /\ UNCHANGED <<access, row, worker, cacheOpen>>

(* A citadel lets a character in, or no longer.                            *)
ChangeAccess(c, d) ==
  /\ events < MaxEvents
  /\ access' = IF <<c, d>> \in access THEN access \ {<<c, d>>}
               ELSE access \cup {<<c, d>>}
  /\ events' = events + 1
  /\ UNCHANGED <<position, row, worker, cacheOpen>>

(* The statics are new, the tables and the rows are kept.                  *)
Restart ==
  /\ events < MaxEvents
  /\ forbidden' = {} /\ fake' = "" /\ task' = Idle /\ naming' = <<>>
  /\ told' = Nobody
  /\ events' = events + 1
  /\ UNCHANGED <<position, access, row, locations, names, cacheOpen, denied>>

Next ==
  \/ \E c \in Located : Start(c) \/ Move(c)
  \/ \E guest \in Guests : ChangeAccess(guest[1], guest[2])
  \/ \E thing \in Belongings : \/ ResolveLocation(thing[1], thing[2])
                               \/ GuessType(thing[1], thing[2])
  \/ LocationAnswered
  \/ \E ok \in BOOLEAN : StationAnswered(ok) \/ StructureAnswered(ok)
                         \/ TypeAnswered(ok) \/ NameAnswered(ok)
  \/ \E level \in DOMAIN NextLevel : PlaceAnswered(level) \/ PlaceFailed(level)
  \/ ShipAnswered
  \/ \E kept \in BOOLEAN : Failed(kept)
  \/ \E i \in Ids : \/ \E known \in BOOLEAN : ResolveSender(i, known)
                    \/ \E want \in Categories \cup {"any"} : ResolvePerson(i, want)
  \/ Restart

Spec == Init /\ [][Next]_vars

(* Cycles go on, every request ends (EsiRequest), and ESI does not refuse  *)
(* a character's location or ship for ever.                                *)
Of(c, Step) == task.who = c /\ Step
Ends == \/ \E ok \in BOOLEAN : \/ StationAnswered(ok) \/ StructureAnswered(ok)
                               \/ TypeAnswered(ok) \/ NameAnswered(ok)
        \/ \E level \in DOMAIN NextLevel : PlaceAnswered(level) \/ PlaceFailed(level)
        \/ LocationAnswered \/ ShipAnswered \/ \E kept \in BOOLEAN : Failed(kept)
Fairness ==
  /\ WF_vars(Ends)
  /\ \A c \in Located : /\ SF_vars(Start(c))
                      /\ SF_vars(Of(c, LocationAnswered))
                      /\ SF_vars(Of(c, ShipAnswered))
FairSpec == Spec /\ Fairness

-----------------------------------------------------------------------------
(* Properties.                                                             *)

Places ==
  [id : [Levels -> Nat], name : [Levels -> Int], missed : SUBSET Levels]

(* The variables have their types; naming nests once, in a request.        *)
TypeOK ==
  /\ position \in [Located -> Positions] /\ access \subseteq Chars \X Structures
  /\ row \in [Located -> Places]
  /\ locations \in [Docks -> [type : {"", "station", "structure"}, name : Int]]
  /\ names \in [Ids -> Categories \cup {"none"}]
  /\ cacheOpen \in BOOLEAN
  /\ forbidden \subseteq denied /\ denied \subseteq Structures
  /\ task.copy \in Places /\ task.who \in Chars \cup {0}
  /\ task.at \in Levels \cup {"idle", "location", "structure", "station",
                              "typing", "ship"}
  /\ Len(naming) <= 2
  /\ events \in 0 .. MaxEvents

(* A place of a row is called by its own name, or is a citadel that has    *)
(* refused a character and is called so: although a name is only asked for *)
(* when its id changes, and all citadels that refuse share one static      *)
(* object and one cache, no row has the name of one place beside the id of *)
(* another.  One exception, the levels in missed: if the request for the   *)
(* name of that very id has failed, refresh_location leaves the name of    *)
(* the previous place beside the new id (location.cpp:50-51, 68-70, 77-79, *)
(* 89, 98), until the id changes again.                                    *)
NameOf(l, id) == IF l = "dock" /\ id \in denied THEN {id, -id} ELSE {id}
NamesMatchIds == \A c \in Located : \A l \in Levels \ row[c].missed :
  row[c].id[l] # 0 => row[c].name[l] \in NameOf(l, row[c].id[l])

(* The system, the constellation and the region of a row belong together   *)
(* unless a request of the chain has failed, although each is looked up    *)
(* only when the one below it has changed.                                 *)
PlacesNest == \A c \in Located : LET p == row[c] IN
  /\ p.id["system"] # 0 /\ "system" \notin p.missed =>
       p.id["constellation"] = ConstellationOf[p.id["system"]]
  /\ p.id["constellation"] # 0 /\ "constellation" \notin p.missed =>
       p.id["region"] = RegionOf[p.id["constellation"]]

(* What is cached for all characters is true: a location, with a type or   *)
(* without one, has its own name, or the one of a citadel that refuses if  *)
(* it has refused somebody; a name of a person is stored under what its id *)
(* is, and so is the person that was resolved last, nested requests or     *)
(* not.                                                                    *)
CacheTrue ==
  /\ \A d \in Docks :
       locations[d] # Unknown => locations[d].name \in NameOf("dock", d)
  /\ \A i \in Ids : names[i] \in {"none", CategoryOf[i]}
  /\ told.named => told.type = CategoryOf[told.id]

(* The name of a location that one character could read stays in the cache *)
(* when the citadel refuses another one, or a request fails.  Not so an    *)
(* entry without a type, as earlier versions have left them: the resolver  *)
(* that guesses types deletes it (resolvers.cpp:134), and what comes next  *)
(* may be a refusal.                                                       *)
KnownStays == [][\A d \in Docks :
  locations[d].type # "" /\ locations[d].name = d => locations'[d] = locations[d]]_vars

(* When the characters stand still their rows come to say where they are,  *)
(* whatever requests for names fail meanwhile and whatever copies are      *)
(* dropped because the ship could not be read.                             *)
LocationReached == <>[](\A c \in Located :
  /\ row[c].id["dock"] = position[c].dock
  /\ row[c].id["system"] = position[c].system)
=============================================================================
