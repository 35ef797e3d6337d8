--------------------------- MODULE CharacterRows ---------------------------
(***************************************************************************)
(* The rows of the character roster and of the "characters" table, as      *)
(* values: what a character record holds, how CharacterModel finds one by  *)
(* id, and what DbSqlite writes.  No state is declared here.               *)
(*                                                                         *)
(* A row keeps, for each section of the refresh, the time at which some    *)
(* part of it was last fetched (0: never) and the update timestamp: the    *)
(* time from which the section may be requested again (0: a null           *)
(* QDateTime, request at once).                                            *)
(***************************************************************************)
EXTENDS Integers, Sequences, FiniteSets, SectionOutcomes

CONSTANTS
  Ids,        \* EVE character ids; 0 is "no character" in the code
  Sections    \* the refresh sections of this instance, a sequence over Kinds

ASSUME IdsAssumption      == Ids \subseteq Nat \ {0}
ASSUME SectionsAssumption == Sections \in Seq(Kinds)

SectionSet == {Sections[i] : i \in 1..Len(Sections)}

(* Time is counted in minutes, the period of the refresh timer.            *)
Ttl(s) == CacheSeconds[s] \div 60

Row == [id : Ids, fetched : [SectionSet -> Nat], until : [SectionSet -> Nat]]

(* A character as Character's constructor and the SSO login leave it.      *)
NewRow(id) == [id      |-> id,
               fetched |-> [s \in SectionSet |-> 0],
               until   |-> [s \in SectionSet |-> 0]]

(* UpdateTimestamps::isUpdateNeeded                                        *)
IsUpdateNeeded(row, s, time) == row.until[s] <= time

(* UpdateTimestamps::resetTs, reached from Character::forceRefresh<kind>   *)
ResetTs(row, s) == [row EXCEPT !.until[s] = 0]

(* What a section with outcome o leaves in the row.                        *)
ApplyOutcome(row, s, o, time) ==
  [row EXCEPT
     !.fetched[s] = IF o.wrote # {} THEN time ELSE @,
     !.until[s]   = IF o.stamped THEN time + Ttl(s) ELSE @]

(* A row is coherent at a time if every section that is held back was      *)
(* fetched when its timestamp was set.  SKILLS is left out: refresh_skills *)
(* sets its timestamp even when its three requests failed.                 *)
Coherent(row, time) ==
  \A s \in SectionSet \ {"SKILLS"} :
     row.until[s] > time => row.fetched[s] + Ttl(s) = row.until[s]

-----------------------------------------------------------------------------
(* Positions of the rows with an id; findCharacterById and removeCharacter *)
(* take the first, updateCharacter's loop without a break takes the last.  *)
Matches(rows, id) == {i \in 1..Len(rows) : rows[i].id = id}

IsFirstMatch(rows, i, id) == i \in Matches(rows, id) /\ \A j \in Matches(rows, id) : i <= j

IsLastMatch(rows, i, id) == i \in Matches(rows, id) /\ \A j \in Matches(rows, id) : j <= i

IdsOf(rows) == {rows[i].id : i \in 1..Len(rows)}

(* Mutant: QVector::takeLast.                                              *)
WithoutLast(seq, i) == SubSeq(seq, 1, Len(seq) - 1)

(* QVector::takeAt                                                         *)
WithoutIndex(seq, i) ==
  [j \in 1..(Len(seq) - 1) |-> IF j < i THEN seq[j] ELSE seq[j + 1]]

(* Mutant: INSERT OR IGNORE.                                               *)
SaveFirsts(rows) ==
  {rows[i] : i \in {k \in 1..Len(rows) : IsFirstMatch(rows, k, rows[k].id)}}

(* DbSqlite::saveCharacters: delete all, then INSERT OR REPLACE in order,  *)
(* so the last of several rows with the same id stays.                     *)
SaveCharacters(rows) ==
  {rows[i] : i \in {k \in 1..Len(rows) : IsLastMatch(rows, k, rows[k].id)}}

(* DbSqlite::saveCharacter: INSERT OR REPLACE of one row.                  *)
SaveCharacter(table, row) == {r \in table : r.id # row.id} \cup {row}

(* DbSqlite::loadCharacters: one object for each row, in key order.        *)
LoadCharacters(table) ==
  {rows \in [1..Cardinality(table) -> table] :
     \A i, j \in 1..Cardinality(table) : i < j => rows[i].id < rows[j].id}

=============================================================================
