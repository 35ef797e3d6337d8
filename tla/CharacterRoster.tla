-------------------------- MODULE CharacterRoster --------------------------
(***************************************************************************)
(* What the character list promises to the user interface, with no thread, *)
(* no copy and no queue: a list of rows and the table it is kept in, which *)
(* change in single steps.                                                 *)
(*                                                                         *)
(* A refresh, however long it takes and whatever fails in it, shows as one *)
(* step that replaces the row of a listed character by a coherent one and  *)
(* writes the table with it.  Logins, removals and forced refreshes are    *)
(* the user's.  Nothing else changes a row, and only a login adds an id.   *)
(***************************************************************************)
EXTENDS CharacterRows

CONSTANTS MaxRows, MaxTime

VARIABLES
  now,    \* the clock
  rows,   \* the rows shown, a sequence
  table   \* the rows kept in the database, a set

vars == <<now, rows, table>>

Init ==
  /\ now = 1
  /\ table \in SUBSET {NewRow(id) : id \in Ids}
  /\ rows \in LoadCharacters(table)
  /\ Len(rows) <= MaxRows

Login(id) ==
  /\ Len(rows) < MaxRows
  /\ rows'  = Append(rows, NewRow(id))
  /\ table' = SaveCharacters(rows')
  /\ UNCHANGED now

Remove(i) ==
  /\ IsFirstMatch(rows, i, rows[i].id)
  /\ rows'  = WithoutIndex(rows, i)
  /\ table' = SaveCharacters(rows')
  /\ UNCHANGED now

(* The result of a refresh of one character takes effect: the new row is   *)
(* any row of that character that is coherent now.                         *)
Commit(i) ==
  /\ IsLastMatch(rows, i, rows[i].id)
  /\ rows'[i] \in Row
  /\ rows'[i].id = rows[i].id
  /\ Coherent(rows'[i], now)
  /\ \A s \in SectionSet : rows'[i].fetched[s] <= now
  /\ rows'  = [rows EXCEPT ![i] = rows'[i]]
  /\ table' = SaveCharacter(table, rows'[i])
  /\ UNCHANGED now

ForceSection(i, s) ==
  /\ IsFirstMatch(rows, i, rows[i].id)
  /\ rows' = [rows EXCEPT ![i] = ResetTs(@, s)]
  /\ UNCHANGED <<now, table>>

Tick ==
  /\ now < MaxTime
  /\ now' = now + 1
  /\ UNCHANGED <<rows, table>>

(* The application is started again, after an exit or a crash.             *)
Reload ==
  /\ rows' \in LoadCharacters(table)
  /\ UNCHANGED <<now, table>>

Next ==
  \/ \E id \in Ids : Login(id)
  \/ \E i \in 1..Len(rows) : Remove(i)
  \/ \E i \in 1..Len(rows) : Commit(i)
  \/ \E i \in 1..Len(rows), s \in SectionSet : ForceSection(i, s)
  \/ Tick
  \/ Reload

Spec == Init /\ [][Next]_vars

=============================================================================
