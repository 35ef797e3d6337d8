---------------------------- MODULE CharacterData ----------------------------
(***************************************************************************)
(* The way of a piece of a character's data: ESI answers, the worker sets  *)
(* it in its copy of the character, the copy is assigned to the row of the *)
(* model, the row is saved, and the table is read at the next start.  The  *)
(* setters skip values that compare as equal, the classes compare only     *)
(* some of their fields, the streams have versions, and the application    *)
(* may be killed at any point.                                             *)
(*                                                                         *)
(* The model follows one piece, a field of a member of Character, which is *)
(* chosen at the start; the tables of CharacterClasses say what the code   *)
(* does with it.                                                           *)
(***************************************************************************)
EXTENDS CharacterClasses, Integers

CONSTANTS
  Tracked,     \* the members that may be followed
  Keys,        \* the values of the compared fields of an entry
  Versions,    \* versions of the savedata that the first start may find
  MaxRows,     \* bound: entries in a list
  MaxChanges,  \* bound: changes in the game
  MaxKills,    \* bound: kills of the application
  MaxPosted,   \* bound: copies waiting for the main thread
  Coarse       \* bound: values 1 .. Coarse, one unit below what a
               \* qFuzzyCompare tells apart

ASSUME TrackedAssumption == Tracked \subseteq Members
ASSUME VersionsAssumption == Versions \subseteq SavedVersions
ASSUME DataBoundsAssumption ==
  /\ Keys \subseteq Nat \ {0} /\ Keys # {}
  /\ {MaxChanges, MaxKills, MaxPosted} \subseteq Nat
  /\ {MaxRows, Coarse} \subseteq Nat \ {0}

VARIABLES
  piece,    \* the member and the field that are followed
  server,   \* the data of the piece in the game
  row,      \* the piece in the row of the model, Absent without a row
  worker,   \* the piece in the worker's copy, Absent when it has none
  posted,   \* characterUpdated signals queued for the main thread
  saved,    \* the row of the character in table characters
  running,  \* the application is running
  saving,   \* saveCharacters is between its DELETE and its INSERTs
  changes, kills,  \* counters for the bounds
  dropped   \* history: a kill has hit saveCharacters, or a start has found a
            \* record that is too old

vars == <<piece, server, row, worker, posted, saved, running, saving, changes,
          kills, dropped>>

-----------------------------------------------------------------------------
(* Pieces and their data: a list of entries, each with its compared fields *)
(* as the key, and the followed field as the rest.  A single value is a    *)
(* list of one entry.                                                      *)

IsList(m) == m \in DOMAIN ClassOf
  /\ ClassOf[m] \notin {"EveLocation", "EveOAuthTokens", "UpdateTimestamps"}
IsObject(m) == m \in DOMAIN ClassOf /\ ~IsList(m)

Pieces ==
  {[member |-> m, field |-> "value"] : m \in Tracked \ DOMAIN ClassOf}
    \cup UNION {{[member |-> m, field |-> f] : f \in Classes[ClassOf[m]].fields} :
                m \in Tracked \cap DOMAIN ClassOf}

Entry(k, r) == [key |-> k, rest |-> r]
Entries == [key : Keys \cup {0}, rest : 0 .. Coarse]
Default(m) == IF IsList(m) THEN <<>> ELSE <<Entry(0, 0)>>
Ids(data) == [i \in DOMAIN data |-> data[i].key]

(* A value read from the wrong place of a stream.                          *)
Garbled == <<Entry(0, -1)>>
Held(data, answer) == [data |-> data, answer |-> answer]
Absent == [absent |-> TRUE]

-----------------------------------------------------------------------------
(* Copying and comparing.                                                  *)

(* The fields that operator= of the entry's class does not copy are lost.  *)
Copied(p, data) ==
  IF p.member \in DOMAIN ClassOf /\ p.field \notin Classes[ClassOf[p.member]].fields
  THEN [i \in DOMAIN data |-> [data[i] EXCEPT !.rest = 0]]
  ELSE data

(* operator== of the entry's class.                                        *)
SameEntry(p, e, f) ==
  /\ e.key = f.key
  /\ p.field \in Classes[ClassOf[p.member]].compared => e.rest = f.rest
(* operator== of QVector and of CommonModelBase.                           *)
SameList(p, d, e) ==
  Len(d) = Len(e) /\ \A i \in DOMAIN d : SameEntry(p, d[i], e[i])

(* qFuzzyCompare: zero equals only itself, and other values those that     *)
(* differ by less than a hundred-thousandth.                               *)
FuzzyEqual(v, w) ==
  v = w \/ (v # 0 /\ w # 0 /\ v - w \in {-1, 1})

(* CharacterClonesModel::setClones replaces rows and appends new ones; the *)
(* branch that removes extra rows tests for more new rows than old ones    *)
(* where there are never more.                                             *)
SetClones(old, new) == new \o SubSeq(old, Len(new) + 1, Len(old))

(* Members whose entries the setter compares by operator==.                *)
ComparedByEntry == DOMAIN ClassOf \ (SetWithoutComparing \cup {"clonesModel"})

(* The setter of the member.                                               *)
Set(p, old, new) ==
  CASE p.member = "clonesModel" -> SetClones(old, new)
    [] p.member \in ComparedFuzzily ->
         IF FuzzyEqual(old[1].rest, new[1].rest) THEN old ELSE new
    [] p.member \in ComparedByEntry ->
         IF SameList(p, old, new) THEN old ELSE new
    [] OTHER -> new

(* Character::operator=.                                                   *)
Assign(p, old, new) ==
  IF p.member \in ToSet(Assigned) THEN Set(p, old, Copied(p, new)) ELSE old

TimestampRead(p, utst, data) ==
  IF p.field \in ToSet(TimestampsRead(utst)) THEN data
  ELSE Default("update_timestamps")

(* Of an entry: the fields in the stream of its class; the group of a      *)
(* skill is looked up again.                                               *)
FieldRead(p, data) ==
  LET stream == Classes[ClassOf[p.member]].stream IN
  IF p.field \in ToSet(stream) \cup {"skillGroup"} THEN data
  ELSE [i \in DOMAIN data |-> [data[i] EXCEPT !.rest = 0]]

PieceRead(p, utst, data) ==
  CASE p.member = "update_timestamps" -> TimestampRead(p, utst, data)
    [] p.member \in DOMAIN ClassOf \ {"update_timestamps"} -> FieldRead(p, data)
    [] OTHER -> data

(* Whether that version wrote the piece.                                   *)
WrittenBy(p, s) ==
  /\ p.member \in WrittenIn(s.version)
  /\ p.member = "update_timestamps" => p.field \in ToSet(TimestampsRead(s.utst))

(* operator>>.                                                             *)
Loaded(p, s) ==
  IF p.member \notin ToSet(Read[s.version]) THEN Default(p.member)
  ELSE IF InPlace(s.version, p.member) THEN PieceRead(p, s.utst, s.held.data)
  ELSE Garbled

Saved(held) == [version |-> 30, utst |-> 4, held |-> held]
NoRecord == [version |-> 0, utst |-> 0, held |-> Absent]

-----------------------------------------------------------------------------
(* The game.                                                               *)

Changed(data) ==
  /\ changes < MaxChanges
  /\ changes' = changes + 1
  /\ server' = data
  /\ UNCHANGED <<piece, row, worker, posted, saved, running, saving, kills, dropped>>

GameAdds(k) ==
  /\ IsList(piece.member)
  /\ Len(server) < MaxRows
  /\ k \notin ToSet(Ids(server))
  /\ Changed(Append(server, Entry(k, 1)))

GameDrops(i) == IsList(piece.member) /\ Changed(RemoveAt(server, i))

GameChanges(i, r) ==
  /\ server[i].rest # r
  /\ r <= 2 \/ piece.member \in ComparedFuzzily
  /\ Changed([server EXCEPT ![i].rest = r])

GameMoves(k) ==
  /\ IsObject(piece.member)
  /\ k # server[1].key
  /\ Changed([server EXCEPT ![1].key = k])

-----------------------------------------------------------------------------
(* The worker.                                                             *)

(* getCharacters: a new Character, and operator=; it waits for the mutex   *)
(* of the model.                                                           *)
CopyCharacter ==
  /\ running /\ ~saving
  /\ worker = Absent /\ row # Absent
  /\ worker' = Held(Assign(piece, Default(piece.member), row.data), row.answer)
  /\ UNCHANGED <<piece, server, row, posted, saved, running, saving, changes,
                 kills, dropped>>

(* Fields that further requests resolve; they are empty when those fail.   *)
Resolved == {<<"clonesModel", "location">>, <<"assetsModel", "location_name">>,
  <<"walletTransactions", "location_name">>,
  <<"walletTransactions", "client_name">>}

(* The parts of the list with its first entry: the others may be missing.  *)
Incomplete(list) ==
  {part \in UNION {[1 .. n -> ToSet(list)] : n \in 0 .. Len(list)} :
     /\ list # <<>> => part # <<>> /\ part[1] = list[1]
     /\ \A i, j \in DOMAIN part : i < j =>
          \E k, l \in DOMAIN list : k < l /\ part[i] = list[k] /\ part[j] = list[l]}

(* The data that an answer has.  Further pages of the assets may fail, and *)
(* what has come is taken for all of it.  When the home station cannot be  *)
(* resolved, an empty location is set.                                     *)
Answers ==
  LET paged ==
        IF Endpoint(piece.member) # "assets" THEN {server} ELSE Incomplete(server)
      resolved(data) ==
        IF <<piece.member, piece.field>> \notin Resolved THEN {data}
        ELSE {[i \in DOMAIN data |-> IF i \in come THEN data[i]
                                    ELSE Entry(data[i].key, 0)] :
                come \in SUBSET DOMAIN data}
      home == IF piece.member = "homeLocation" THEN {<<Entry(0, 0)>>} ELSE {}
  IN home \cup UNION {resolved(data) : data \in paged}

(* An endpoint function of EveApi: the reply must be what it expects.      *)
Accepted(member) ==
  Endpoint(member)
    \in {"none"} \cup {e \in DOMAIN Expected : Expected[e] = Sent[e]}

(* The section gets its answer and calls the setter of the copy.           *)
Fetch(data) ==
  /\ running
  /\ worker # Absent
  /\ Len(posted) < MaxPosted
  /\ Accepted(piece.member)
  /\ posted' = Append(posted, Held(Set(piece, worker.data, data), data))
  /\ worker' = Absent
  /\ UNCHANGED <<piece, server, row, saved, running, saving, changes, kills, dropped>>

FetchAll == Fetch(server)

(* The section fails or is not due, and another one has an update.         *)
KeepPiece ==
  /\ running
  /\ worker # Absent
  /\ Len(posted) < MaxPosted
  /\ posted' = Append(posted, worker)
  /\ worker' = Absent
  /\ UNCHANGED <<piece, server, row, saved, running, saving, changes, kills, dropped>>

(* No update at all: the copy is deleted.                                  *)
DeleteCopy ==
  /\ running
  /\ worker # Absent
  /\ worker' = Absent
  /\ UNCHANGED <<piece, server, row, posted, saved, running, saving, changes,
                 kills, dropped>>

-----------------------------------------------------------------------------
(* The main thread.                                                        *)

(* CharacterModel::updateCharacter: the copy is assigned and the row is    *)
(* saved by one INSERT OR REPLACE.                                         *)
UpdateCharacter ==
  /\ running /\ ~saving
  /\ posted # <<>>
  /\ posted' = Tail(posted)
  /\ IF row = Absent THEN UNCHANGED <<row, saved>>
     ELSE LET copy == Head(posted) IN
          /\ row' = Held(Assign(piece, row.data, copy.data), copy.answer)
          /\ saved' = Saved(row')
  /\ UNCHANGED <<piece, server, worker, running, saving, changes, kills, dropped>>

(* saveCharacters, when another character is added or removed: all rows of *)
(* the table are deleted, and then inserted again one by one.              *)
DeleteRows ==
  /\ running /\ ~saving
  /\ saving' = TRUE
  /\ saved' = NoRecord
  /\ UNCHANGED <<piece, server, row, worker, posted, running, changes, kills, dropped>>

InsertRows ==
  /\ running /\ saving
  /\ saving' = FALSE
  /\ saved' = IF row = Absent THEN NoRecord ELSE Saved(row)
  /\ UNCHANGED <<piece, server, row, worker, posted, running, changes, kills, dropped>>

Kill ==
  /\ running
  /\ kills < MaxKills
  /\ kills' = kills + 1
  /\ running' = FALSE /\ saving' = FALSE
  /\ row' = Absent /\ worker' = Absent /\ posted' = <<>>
  /\ dropped' = (dropped \/ saving)
  /\ UNCHANGED <<piece, server, saved, changes>>

(* loadCharacters: a record of a version before 27 gives a character of id *)
(* 0, which is not the id of its row; it is left out.                      *)
Restart ==
  /\ ~running
  /\ running' = TRUE
  /\ row' = IF saved.version < 27 \/ ~InPlace(saved.version, "characterId")
            THEN Absent
            ELSE Held(Loaded(piece, saved),
                      IF WrittenBy(piece, saved)
                      THEN saved.held.answer ELSE Default(piece.member))
  /\ dropped' = (dropped \/ saved.version \in 1 .. 26)
  /\ UNCHANGED <<piece, server, worker, posted, saved, saving, changes, kills>>

-----------------------------------------------------------------------------
(* The first start finds a record with the present data, written by some   *)
(* version of the application.                                             *)
Init ==
  /\ piece \in Pieces
  /\ server = IF piece.member \in DOMAIN ClassOf
              THEN <<Entry(CHOOSE k \in Keys : TRUE, 1)>> ELSE <<Entry(0, 1)>>
  /\ \E v \in Versions, utst \in 2 .. 4 :
       /\ piece.member # "update_timestamps" => utst = 4
       /\ saved = [version |-> v, utst |-> utst, held |-> Held(server, server)]
  /\ row = Absent /\ worker = Absent /\ posted = <<>>
  /\ running = FALSE /\ saving = FALSE
  /\ changes = 0 /\ kills = 0 /\ dropped = FALSE

GameNext ==
  \/ \E k \in Keys : GameAdds(k) \/ GameMoves(k)
  \/ \E i \in DOMAIN server : GameDrops(i)
  \/ \E i \in DOMAIN server, r \in 1 .. Coarse : GameChanges(i, r)

WorkerNext ==
  \/ CopyCharacter
  \/ \E data \in Answers : Fetch(data)
  \/ KeepPiece
  \/ DeleteCopy

MainNext == UpdateCharacter \/ DeleteRows \/ InsertRows \/ Kill \/ Restart

Next == GameNext \/ WorkerNext \/ MainNext

Spec == Init /\ [][Next]_vars

(* The timers of the refresher and the event loop of the main thread go    *)
(* on, the user starts a killed application again, and a request that is   *)
(* repeated for ever is answered at some time.                             *)
FairSpec ==
  /\ Spec
  /\ SF_vars(CopyCharacter) /\ SF_vars(FetchAll)
  /\ SF_vars(UpdateCharacter) /\ WF_vars(InsertRows \/ Restart)

-----------------------------------------------------------------------------
(* Properties.                                                             *)

Values == [data : Seq(Entries), answer : Seq(Entries)]

(* The variables have their types; no value was read from a wrong place.   *)
TypeOK ==
  /\ piece \in Pieces
  /\ server \in Seq(Entries) /\ Len(server) <= MaxRows
  /\ row \in Values \cup {Absent} /\ worker \in Values \cup {Absent}
  /\ posted \in Seq(Values) /\ Len(posted) <= MaxPosted
  /\ saved \in [version : SavedVersions, utst : 2 .. 4, held : Values]
                \cup {NoRecord}
  /\ running \in BOOLEAN /\ saving \in BOOLEAN /\ dropped \in BOOLEAN
  /\ changes \in 0 .. MaxChanges /\ kills \in 0 .. MaxKills

(* How far the operators let a value differ from what ESI has answered: a  *)
(* fuzzily compared one by a unit, fields that operator== does not look at *)
(* for any time, and clones by rows that should be gone.                   *)
Shows(p, data, answer) ==
  CASE p.member = "clonesModel" -> IsPrefix(answer, data)
    [] p.member \in ComparedFuzzily -> FuzzyEqual(data[1].rest, answer[1].rest)
    [] p.member \in ComparedByEntry -> SameList(p, data, answer)
    [] OTHER -> data = answer

(* Whatever was copied, assigned, saved and loaded since, the row shows    *)
(* the last answer it was given, up to what the operators compare.  Values *)
(* that are compared fuzzily drift by further units when more than one     *)
(* copy waits: a copy that kept its value instead of the answer's comes to *)
(* a row that has one close to it by now, and is skipped in turn.          *)
RowFollowsAnswer ==
  row # Absent /\ (piece.member \in ComparedFuzzily => MaxPosted <= 1)
    => Shows(piece, row.data, row.answer)

(* A character is lost only by a kill between the DELETE and the INSERTs   *)
(* of saveCharacters, or when its record is older than version 27.         *)
LostOnlyInSave == running /\ row = Absent => dropped

(* A start gives the row that was saved last: whatever the version that    *)
(* saved it streamed is neither lost nor moved to another field.           *)
RestartKeepsRow ==
  [][~running /\ running' /\ row' # Absent /\ WrittenBy(piece, saved) =>
      row'.data = saved.held.data]_vars

(* Members that a refresh asks for only when an id has changed.            *)
Chained == {"currentSolarSystemName", "currentSolarSystemSecurity",
  "currentConstellationId", "currentConstellationName", "currentRegionId",
  "currentRegionName", "currentStructureName", "currentShipTypeName",
  "allianceName", "allianceTicker"}

(* Once the game stands still, the row comes to show it, again and again:  *)
(* a copy that was taken before a queued update was handled may carry the  *)
(* older data back for a while.                                            *)
GameReachesRow ==
  piece.member \notin Chained
    => []<>(row # Absent => Shows(piece, row.data, server))

(* What removing "extra rows left" and "return modified copy to model" say:*)
(* the row is what ESI has answered.                                       *)
ReturnedCopyShown == row # Absent => row.data = row.answer
=============================================================================
