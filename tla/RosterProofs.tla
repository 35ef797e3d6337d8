---------------------------- MODULE RosterProofs ----------------------------
(***************************************************************************)
(* Proofs about what the character list of RefreshCycle shows and what its *)
(* table keeps: RefreshCycle implements CharacterRoster, the table holds   *)
(* the list, removed characters do not come back, and a forced section is  *)
(* not forgotten.  They rest on the invariant of RefreshCycleProofs.       *)
(***************************************************************************)
EXTENDS RefreshCycleProofs, FiniteSetTheorems

-----------------------------------------------------------------------------
(* Positions with an id: when there is one there is a first and a last.    *)

LEMMA LeastNumber ==
  ASSUME NEW S \in SUBSET Nat, S # {}
  PROVE  \E x \in S : \A y \in S : x <= y
<1> DEFINE T == {0..x : x \in S}
           R == StrictSubsetOrdering(Nat)
<1>1. T \subseteq FiniteSubsetsOf(Nat) /\ T # {}
  <2>1. \A x \in S : 0..x \in SUBSET Nat /\ IsFiniteSet(0..x)
    BY FS_Interval
  <2>2. QED
    BY <2>1 DEF FiniteSubsetsOf
<1>2. IsWellFoundedOn(R, FiniteSubsetsOf(Nat))
  BY FS_StrictSubsetOrderingWellFounded
<1> HIDE DEF R
<1>3. \E t \in T : \A u \in T : ~ (<<u, t>> \in R)
  <2> HIDE DEF T
  <2>1. QED
    BY <1>1, <1>2, WFMin
<1>4. PICK x \in S : \A y \in S : ~ (<<0..y, 0..x>> \in R)
  BY <1>3
<1>5. ASSUME NEW y \in S PROVE x <= y
  <2>1. SUFFICES ASSUME y < x PROVE FALSE
    OBVIOUS
  <2>2. 0..y \subseteq 0..x /\ 0..y # 0..x
    <3>1. x \in Nat /\ y \in Nat
      OBVIOUS
    <3>2. x \in 0..x /\ x \notin 0..y
      BY <2>1, <3>1
    <3>3. \A z \in 0..y : z \in 0..x
      BY <2>1, <3>1
    <3>4. QED
      BY <3>2, <3>3
  <2>3. 0..y \in SUBSET Nat /\ 0..x \in SUBSET Nat
    OBVIOUS
  <2>4. <<0..y, 0..x>> \in R
    BY <2>2, <2>3 DEF StrictSubsetOrdering, R
  <2>5. QED
    BY <1>4, <2>4
<1>6. QED
  BY <1>5

LEMMA GreatestNumber ==
  ASSUME NEW n \in Nat, NEW S \in SUBSET (1..n), S # {}
  PROVE  \E x \in S : \A y \in S : y <= x
<1> DEFINE T == {n - x : x \in S}
<1>1. T \in SUBSET Nat /\ T # {}
  <2>1. \A x \in S : n - x \in Nat
    OBVIOUS
  <2>2. QED
    BY <2>1
<1>2. PICK t \in T : \A u \in T : t <= u
  BY <1>1, LeastNumber
<1>3. PICK x \in S : t = n - x
  BY <1>2
<1>4. \A y \in S : n - x <= n - y
  BY <1>2, <1>3
<1>5. \A y \in S : y <= x
  BY <1>4
<1>6. QED
  BY <1>5

LEMMA FirstAndLastMatch ==
  ASSUME NEW rows, Len(rows) \in Nat, NEW k \in 1..Len(rows)
  PROVE  /\ \E i \in 1..Len(rows) : IsFirstMatch(rows, i, rows[k].id)
         /\ \E i \in 1..Len(rows) : IsLastMatch(rows, i, rows[k].id)
<1> DEFINE S == Matches(rows, rows[k].id)
<1>1. S \in SUBSET (1..Len(rows)) /\ S \in SUBSET Nat /\ k \in S
  BY DEF Matches
<1> HIDE DEF S
<1>2. /\ \E i \in S : \A j \in S : i <= j
      /\ \E i \in S : \A j \in S : j <= i
  BY <1>1, LeastNumber, GreatestNumber
<1>3. QED
  BY <1>1, <1>2 DEF S, IsFirstMatch, IsLastMatch

-----------------------------------------------------------------------------
(* What a table has to do with a list, as a relation between values.       *)

Holds(saved, rows) ==
  /\ {r.id : r \in saved} = IdsOf(rows)
  /\ \A r, q \in saved : r.id = q.id => r = q
  /\ \A i \in 1..Len(rows) :
        IsLastMatch(rows, i, rows[i].id) => \E r \in saved : SavedAs(rows[i], r)

(* DbSqlite::saveCharacters makes the table hold any list.                 *)
LEMMA SavedList ==
  ASSUME NEW rows \in Seq(Row)
  PROVE  Holds(SaveCharacters(rows), rows)
<1> DEFINE last == {k \in 1..Len(rows) : IsLastMatch(rows, k, rows[k].id)}
<1>1. Len(rows) \in Nat /\ \A i \in 1..Len(rows) : rows[i] \in Row
  OBVIOUS
<1>2. SaveCharacters(rows) = {rows[i] : i \in last}
  BY DEF SaveCharacters
<1>3. {r.id : r \in SaveCharacters(rows)} = IdsOf(rows)
  <2>1. ASSUME NEW k \in 1..Len(rows)
        PROVE  \E r \in SaveCharacters(rows) : r.id = rows[k].id
    <3>1. PICK i \in 1..Len(rows) : IsLastMatch(rows, i, rows[k].id)
      BY <1>1, FirstAndLastMatch
    <3>2. rows[i].id = rows[k].id /\ i \in last
      BY <3>1 DEF IsLastMatch, Matches
    <3>3. QED
      BY <1>2, <3>2
  <2>2. ASSUME NEW r \in SaveCharacters(rows)
        PROVE  \E k \in 1..Len(rows) : r.id = rows[k].id
    BY <1>2
  <2>3. QED
    BY <2>1, <2>2 DEF IdsOf
<1>4. ASSUME NEW r \in SaveCharacters(rows), NEW q \in SaveCharacters(rows), r.id = q.id
      PROVE  r = q
  <2>1. PICK i \in last, j \in last : r = rows[i] /\ q = rows[j]
    BY <1>2
  <2>2. i \in Matches(rows, rows[j].id) /\ j \in Matches(rows, rows[i].id)
    BY <1>4, <2>1 DEF Matches
  <2>3. i <= j /\ j <= i
    BY <2>2 DEF IsLastMatch
  <2>4. QED
    BY <2>1, <2>3
<1>5. ASSUME NEW i \in 1..Len(rows), IsLastMatch(rows, i, rows[i].id)
      PROVE  \E r \in SaveCharacters(rows) : SavedAs(rows[i], r)
  BY <1>2, <1>5 DEF SavedAs
<1>6. QED
  BY <1>3, <1>4, <1>5 DEF Holds

(* Changing a row and not its id leaves the positions of the ids alone.    *)
LEMMA SameMatches ==
  ASSUME NEW rows \in Seq(Row), NEW i \in 1..Len(rows), NEW row \in Row,
         row.id = rows[i].id
  PROVE  LET new == [rows EXCEPT ![i] = row]
         IN  /\ new \in Seq(Row) /\ Len(new) = Len(rows)
             /\ \A j \in 1..Len(rows) : new[j] = IF j = i THEN row ELSE rows[j]
             /\ \A j \in 1..Len(rows) : new[j].id = rows[j].id
             /\ IdsOf(new) = IdsOf(rows)
             /\ \A id : Matches(new, id) = Matches(rows, id)
<1> DEFINE new == [rows EXCEPT ![i] = row]
<1>1. /\ new \in Seq(Row) /\ Len(new) = Len(rows)
      /\ \A j \in 1..Len(rows) : new[j] = IF j = i THEN row ELSE rows[j]
  BY ExceptSeq
<1>2. \A j \in 1..Len(rows) : new[j].id = rows[j].id
  BY <1>1
<1> HIDE DEF new
<1>3. IdsOf(new) = IdsOf(rows)
  BY <1>1, <1>2 DEF IdsOf
<1>4. \A id : Matches(new, id) = Matches(rows, id)
  BY <1>1, <1>2 DEF Matches
<1>5. QED
  BY <1>1, <1>2, <1>3, <1>4 DEF new

(* DbSqlite::saveCharacter of the last row with its id keeps a table that  *)
(* holds the list.                                                         *)
LEMMA SavedRow ==
  ASSUME NEW rows \in Seq(Row), NEW saved, Holds(saved, rows),
         NEW i \in 1..Len(rows), IsLastMatch(rows, i, rows[i].id),
         NEW row \in Row, row.id = rows[i].id
  PROVE  Holds(SaveCharacter(saved, row), [rows EXCEPT ![i] = row])
<1> DEFINE new == [rows EXCEPT ![i] = row]
           kept == SaveCharacter(saved, row)
<1>1. /\ Len(new) = Len(rows)
      /\ \A j \in 1..Len(rows) : new[j] = IF j = i THEN row ELSE rows[j]
      /\ IdsOf(new) = IdsOf(rows)
      /\ \A id : Matches(new, id) = Matches(rows, id)
  BY SameMatches, ZenonT(40)
<1>2. kept = {r \in saved : r.id # row.id} \cup {row}
  BY DEF SaveCharacter
<1> HIDE DEF new, kept
<1>3. {r.id : r \in kept} = IdsOf(new)
  <2>1. row.id \in IdsOf(rows)
    BY DEF IdsOf
  <2>2. {r.id : r \in kept} = {r.id : r \in saved} \cup {row.id}
    BY <1>2
  <2>3. QED
    BY <1>1, <2>1, <2>2 DEF Holds
<1>4. \A r, q \in kept : r.id = q.id => r = q
  BY <1>2 DEF Holds
<1>5. ASSUME NEW j \in 1..Len(new), IsLastMatch(new, j, new[j].id)
      PROVE  \E r \in kept : SavedAs(new[j], r)
  <2>1. CASE j = i
    BY <1>1, <1>2, <2>1 DEF SavedAs
  <2>2. CASE j # i
    <3>1. new[j] = rows[j] /\ IsLastMatch(rows, j, rows[j].id)
      BY <1>1, <1>5, <2>2 DEF IsLastMatch
    <3>2. rows[j].id # row.id
      <4>1. SUFFICES ASSUME rows[j].id = rows[i].id PROVE j = i
        BY <2>2
      <4>2. i <= j /\ j <= i
        BY <3>1, <4>1 DEF IsLastMatch
      <4>3. QED
        BY <1>1, <4>2
    <3>3. PICK r \in saved : SavedAs(rows[j], r)
      BY <1>1, <3>1 DEF Holds
    <3>4. r \in kept
      BY <1>2, <3>2, <3>3 DEF SavedAs
    <3>5. QED
      BY <3>1, <3>3, <3>4
  <2>3. QED
    BY <2>1, <2>2
<1>6. QED
  BY <1>3, <1>4, <1>5 DEF Holds, new, kept

LEMMA ResetRow ==
  ASSUME NEW row \in Row, NEW s \in SectionSet
  PROVE  /\ ResetTs(row, s) \in Row
         /\ ResetTs(row, s).id = row.id
         /\ ResetTs(row, s).fetched = row.fetched
         /\ \A t \in SectionSet :
               ResetTs(row, s).until[t] = IF t = s THEN 0 ELSE row.until[t]
  BY DEF ResetTs, Row

(* A forced refresh is not saved; the table still holds the list.          *)
LEMMA UnsavedReset ==
  ASSUME NEW rows \in Seq(Row), NEW saved, Holds(saved, rows),
         NEW i \in 1..Len(rows), NEW row \in Row, row.id = rows[i].id,
         SavedAs(row, rows[i])
  PROVE  Holds(saved, [rows EXCEPT ![i] = row])
<1> DEFINE new == [rows EXCEPT ![i] = row]
<1>1. /\ Len(new) = Len(rows)
      /\ \A j \in 1..Len(rows) : new[j] = IF j = i THEN row ELSE rows[j]
      /\ IdsOf(new) = IdsOf(rows)
      /\ \A id : Matches(new, id) = Matches(rows, id)
  BY SameMatches, ZenonT(40)
<1>2. \A j \in 1..Len(rows) : new[j].id = rows[j].id
  BY <1>1
<1> HIDE DEF new
<1>3. ASSUME NEW j \in 1..Len(new), IsLastMatch(new, j, new[j].id)
      PROVE  \E r \in saved : SavedAs(new[j], r)
  <2>1. IsLastMatch(rows, j, rows[j].id)
    BY <1>1, <1>2, <1>3 DEF IsLastMatch
  <2>2. PICK r \in saved : SavedAs(rows[j], r)
    BY <1>1, <2>1 DEF Holds
  <2>3. SavedAs(new[j], r)
    BY <1>1, <2>2 DEF SavedAs
  <2>4. QED
    BY <2>3
<1>4. QED
  BY <1>1, <1>3 DEF Holds, new

(* DbSqlite::loadCharacters: every row is loaded once.                     *)
LEMMA LoadedList ==
  ASSUME NEW saved, saved \subseteq Row, IsFiniteSet(saved),
         \A r, q \in saved : r.id = q.id => r = q,
         NEW rows \in LoadCharacters(saved)
  PROVE  /\ rows \in Seq(Row)
         /\ \A i \in 1..Len(rows) : rows[i] \in saved
         /\ Holds(saved, rows)
<1> DEFINE n == Cardinality(saved)
<1>1. n \in Nat /\ rows \in [1..n -> saved] /\ IsFiniteSet(1..n) /\ Cardinality(1..n) = n
  <2>1. n \in Nat /\ n \in Int /\ 1 \in Int
    BY FS_CardinalityType
  <2>2. rows \in [1..n -> saved]
    BY DEF LoadCharacters
  <2>3. IsFiniteSet(1..n) /\ Cardinality(1..n) = IF 1 > n THEN 0 ELSE n - 1 + 1
    BY <2>1, FS_Interval
  <2>4. QED
    BY <2>1, <2>2, <2>3
<1>2. \A i, j \in 1..n : i < j => rows[i].id < rows[j].id
  BY DEF LoadCharacters
<1> HIDE DEF n
<1>3. \A i \in 1..n : rows[i].id \in Nat
  <2>1. \A i \in 1..n : rows[i] \in Row
    BY <1>1
  <2>2. QED
    BY <2>1, IdsAssumption DEF Row
<1>4. \A i, j \in 1..n : rows[i] = rows[j] => i = j
  BY <1>1, <1>2, <1>3
<1>5. rows \in Injection(1..n, saved)
  BY <1>1, <1>4 DEF Injection, IsInjective
<1>6. rows \in Surjection(1..n, saved)
  BY <1>1, <1>5, FS_Injection DEF n
<1>7. \A r \in saved : \E i \in 1..n : rows[i] = r
  BY <1>6 DEF Surjection
<1>8. Len(rows) = n /\ rows \in Seq(Row)
  BY <1>1
<1>9. {r.id : r \in saved} = IdsOf(rows)
  BY <1>1, <1>7, <1>8 DEF IdsOf
<1>10. \A i \in 1..Len(rows) : \E r \in saved : SavedAs(rows[i], r)
  BY <1>1, <1>8 DEF SavedAs
<1>11. QED
  BY <1>1, <1>8, <1>9, <1>10 DEF Holds

-----------------------------------------------------------------------------
(* How each step shows in the list.                                        *)

RosterShape ==
  /\ Len(roster) \in Nat /\ Len(RosterRows) = Len(roster)
  /\ RosterRows \in Seq(Row)
  /\ \A i \in 1..Len(roster) : RosterRows[i] = heap[roster[i]] /\ RosterRows[i] \in Row
  /\ TableHoldsRoster <=> Holds(table, RosterRows)

LEMMA RosterType == IInv => RosterShape
<1> SUFFICES ASSUME IInv PROVE RosterShape
  OBVIOUS
<1>1. roster \in Seq(Addrs) /\ \A i \in 1..Len(roster) : heap[roster[i]] \in Row
  BY OwnedAreRows DEF IInv, TypeOK
<1>2. /\ Len(RosterRows) = Len(roster) /\ Len(roster) \in Nat
      /\ \A i \in 1..Len(roster) : RosterRows[i] = heap[roster[i]]
  BY <1>1, RowsType DEF RosterRows
<1>3. RosterRows \in Seq(Row)
  <2>1. RosterRows \in [1..Len(roster) -> Row]
    BY <1>1 DEF RosterRows, Rows
  <2>2. QED
    BY <1>2, <2>1, SeqDef
<1>4. TableHoldsRoster <=> Holds(table, RosterRows)
  BY <1>2 DEF TableHoldsRoster, Holds
<1>5. QED
  BY <1>1, <1>2, <1>3, <1>4 DEF RosterShape

(* Two sequences that are the same function.                               *)
LEMMA SameSeq ==
  ASSUME NEW S, NEW s \in Seq(S), NEW t \in Seq(S), Len(s) = Len(t),
         \A i \in 1..Len(s) : s[i] = t[i]
  PROVE  s = t
  BY SeqEqual

(* A login appends a new character.                                        *)
LEMMA LoginRows ==
  ASSUME IInv, NEW id \in Ids, Login(id)
  PROVE  /\ RosterRows' = Append(RosterRows, NewRow(id))
         /\ table' = SaveCharacters(RosterRows')
         /\ Len(RosterRows) < MaxRows /\ now' = now
<1>0. IInv' /\ RosterShape /\ RosterShape'
  <2>1. IInv'
    BY LoginStep
  <2>2. QED
    BY <2>1, RosterType, PTL
<1>1. PICK o \in FreeAddrs : /\ heap' = [heap EXCEPT ![o] = NewRow(id)]
                             /\ roster' = Append(roster, o)
  <2>1. PICK objects \in Allocated(1) : /\ heap' = [heap EXCEPT ![objects[1]] = NewRow(id)]
                                        /\ roster' = Append(roster, objects[1])
    BY Zenon DEF Login
  <2>2. objects[1] \in FreeAddrs
    BY DEF Allocated
  <2>3. QED
    BY <2>1, <2>2, Zenon
<1>2. /\ roster \in Seq(Addrs) /\ o \in Addrs /\ NewRow(id) \in Row
      /\ \A i \in 1..Len(roster) : roster[i] \in Addrs /\ roster[i] # o
  BY <1>1, NewRowType, OwnedAreRows DEF IInv, TypeOK, FreeAddrs, Alive
<1>3. /\ heap'[o] = NewRow(id)
      /\ \A i \in 1..Len(roster) : heap'[roster[i]] = heap[roster[i]]
  BY <1>1, <1>2 DEF IInv, TypeOK
<1>4. /\ Len(roster') = Len(roster) + 1
      /\ \A i \in 1..Len(roster) : roster'[i] = roster[i]
      /\ roster'[Len(roster) + 1] = o
  BY <1>1, <1>2, AppendProperties
<1> DEFINE rows == Append(RosterRows, NewRow(id))
<1>5. /\ rows \in Seq(Row) /\ Len(rows) = Len(roster) + 1
      /\ \A i \in 1..Len(roster) : rows[i] = RosterRows[i]
      /\ rows[Len(roster) + 1] = NewRow(id)
  BY <1>0, <1>2, AppendProperties DEF RosterShape
<1> HIDE DEF rows
<1>6. RosterRows' \in Seq(Row) /\ Len(RosterRows') = Len(roster) + 1
  BY <1>0, <1>4 DEF RosterShape
<1>7. \A i \in 1..(Len(roster) + 1) : RosterRows'[i] = rows[i]
  BY <1>0, <1>3, <1>4, <1>5 DEF RosterShape
<1>8. RosterRows' = rows
  BY <1>5, <1>6, <1>7, SameSeq
<1>9. QED
  BY <1>0, <1>8 DEF rows, Login, RosterShape

(* A removal takes out the first character with the id.                    *)
LEMMA RemoveRows ==
  ASSUME IInv, NEW id \in Ids, RemoveCharacter(id)
  PROVE  /\ \E i \in 1..Len(RosterRows) : /\ IsFirstMatch(RosterRows, i, id)
                                          /\ RosterRows' = WithoutIndex(RosterRows, i)
         /\ table' = SaveCharacters(RosterRows')
         /\ now' = now
<1>0. IInv' /\ RosterShape /\ RosterShape'
  <2>1. IInv'
    BY RemoveStep
  <2>2. QED
    BY <2>1, RosterType, PTL
<1>1. PICK i \in 1..Len(roster) : /\ IsFirstMatch(RosterRows, i, id)
                                  /\ roster' = WithoutIndex(roster, i)
                                  /\ heap' = [heap EXCEPT ![roster[i]] = Freed]
  BY Zenon DEF RemoveCharacter
<1>2. roster \in Seq(Addrs) /\ \A j \in 1..Len(roster) : roster[j] \in Addrs
  BY DEF IInv, TypeOK
<1>3. /\ Len(roster') = Len(roster) - 1
      /\ \A j \in 1..(Len(roster) - 1) :
            roster'[j] = IF j < i THEN roster[j] ELSE roster[j + 1]
  BY <1>1, <1>2, WithoutIndexType
<1>4. \A j \in 1..Len(roster) : j # i => heap'[roster[j]] = heap[roster[j]]
  BY <1>1, <1>2 DEF IInv, OneOwner, TypeOK
<1> DEFINE rows == WithoutIndex(RosterRows, i)
<1>5. /\ rows \in Seq(Row) /\ Len(rows) = Len(roster) - 1
      /\ \A j \in 1..(Len(roster) - 1) :
            rows[j] = IF j < i THEN RosterRows[j] ELSE RosterRows[j + 1]
  <2>1. RosterRows \in Seq(Row) /\ i \in 1..Len(RosterRows) /\ Len(RosterRows) = Len(roster)
    BY <1>0 DEF RosterShape
  <2>2. /\ rows \in Seq(Row) /\ Len(rows) = Len(RosterRows) - 1
        /\ \A j \in 1..(Len(RosterRows) - 1) :
              rows[j] = IF j < i THEN RosterRows[j] ELSE RosterRows[j + 1]
    BY <2>1, WithoutIndexType, Zenon
  <2>3. QED
    BY <2>1, <2>2
<1> HIDE DEF rows
<1>6. RosterRows' \in Seq(Row) /\ Len(RosterRows') = Len(roster) - 1
  BY <1>0, <1>3 DEF RosterShape
<1>7. \A j \in 1..(Len(roster) - 1) : RosterRows'[j] = rows[j]
  <2> SUFFICES ASSUME NEW j \in 1..(Len(roster) - 1) PROVE RosterRows'[j] = rows[j]
    OBVIOUS
  <2>1. RosterRows'[j] = heap'[roster'[j]]
    BY <1>0, <1>3 DEF RosterShape
  <2>0. Len(roster) \in Nat
    BY <1>0 DEF RosterShape
  <2>2. CASE j < i
    <3>1. j \in 1..Len(roster) /\ j # i /\ roster'[j] = roster[j] /\ rows[j] = RosterRows[j]
      BY <1>3, <1>5, <2>0, <2>2
    <3>2. QED
      BY <1>0, <1>4, <2>1, <3>1 DEF RosterShape
  <2>3. CASE ~ (j < i)
    <3>1. /\ j + 1 \in 1..Len(roster) /\ j + 1 # i
          /\ roster'[j] = roster[j + 1] /\ rows[j] = RosterRows[j + 1]
      BY <1>3, <1>5, <2>0, <2>3
    <3>2. QED
      BY <1>0, <1>4, <2>1, <3>1 DEF RosterShape
  <2>4. QED
    BY <2>2, <2>3
<1>8. RosterRows' = rows
  BY <1>5, <1>6, <1>7, SameSeq
<1>9. i \in 1..Len(RosterRows)
  BY <1>0 DEF RosterShape
<1>10. QED
  BY <1>1, <1>8, <1>9 DEF rows, RemoveCharacter

(* A change of the object of row i.                                        *)
LEMMA RowWritten ==
  ASSUME IInv, IInv', NEW i \in 1..Len(roster), NEW row \in Row,
         UNCHANGED roster, heap'[roster[i]] = row,
         \A j \in 1..Len(roster) : j # i => heap'[roster[j]] = heap[roster[j]]
  PROVE  RosterRows' = [RosterRows EXCEPT ![i] = row]
<1>1. RosterShape /\ RosterShape'
  BY RosterType, PTL
<1> DEFINE rows == [RosterRows EXCEPT ![i] = row]
<1>2. /\ rows \in Seq(Row) /\ Len(rows) = Len(roster)
      /\ \A j \in 1..Len(roster) : rows[j] = IF j = i THEN row ELSE RosterRows[j]
  BY <1>1, ExceptSeq DEF RosterShape
<1> HIDE DEF rows
<1>3. RosterRows' \in Seq(Row) /\ Len(RosterRows') = Len(roster)
  BY <1>1 DEF RosterShape
<1>4. \A j \in 1..Len(roster) : RosterRows'[j] = rows[j]
  BY <1>1, <1>2 DEF RosterShape
<1>5. QED
  BY <1>2, <1>3, <1>4, SameSeq DEF rows

(* No object of the list is changed.                                       *)
LEMMA RowsKept ==
  ASSUME IInv, UNCHANGED roster,
         \A i \in 1..Len(roster) : heap'[roster[i]] = heap[roster[i]]
  PROVE  RosterRows' = RosterRows
  BY DEF RosterRows, Rows

(* An update replaces the last row with its id, or shows nothing.          *)
LEMMA UpdateRows ==
  ASSUME IInv, UpdateCharacter
  PROVE  LET a == Head(mainQueue).object
         IN  /\ a \in HeldByQueue /\ heap[a] \in Row
             /\ \/ UNCHANGED <<RosterRows, table>>
                \/ \E i \in 1..Len(roster) :
                      /\ IsLastMatch(RosterRows, i, RosterRows[i].id)
                      /\ heap[a].id = RosterRows[i].id
                      /\ RosterRows' = [RosterRows EXCEPT ![i] = heap[a]]
                      /\ table' = SaveCharacter(table, heap[a])
             /\ now' = now
<1> DEFINE a == Head(mainQueue).object
<1>0. IInv' /\ RosterShape
  <2>1. IInv'
    BY UpdateStep
  <2>2. QED
    BY <2>1, RosterType
<1>1. /\ mainQueue # <<>> /\ Head(mainQueue).signal = "characterUpdated"
      /\ UNCHANGED <<now, roster>>
  BY DEF UpdateCharacter
<1>2. a \in HeldByQueue /\ a \in Addrs /\ heap[a] \in Row
  <2>1. 1 \in Updates /\ mainQueue[1].object = a
    BY <1>1, EmptySeq DEF IInv, TypeOK, Updates
  <2>2. QED
    BY <2>1, OwnedAreRows DEF IInv, HeldByQueue, Alive
<1>3. \A i \in 1..Len(roster) : roster[i] \in Addrs /\ roster[i] # a
  BY <1>2 DEF IInv, OneOwner, HeldByRoster, TypeOK
<1>4. CASE DiscardUpdate(a)
  <2>1. \A i \in 1..Len(roster) : heap'[roster[i]] = heap[roster[i]]
    BY <1>2, <1>3, <1>4 DEF DiscardUpdate, IInv, TypeOK
  <2>2. QED
    BY <1>1, <1>2, <1>4, <2>1, RowsKept DEF DiscardUpdate
<1>5. ASSUME NEW i \in 1..Len(roster), IsLastMatch(RosterRows, i, heap[a].id), AssignUpdate(i, a)
      PROVE  /\ IsLastMatch(RosterRows, i, RosterRows[i].id)
             /\ heap[a].id = RosterRows[i].id
             /\ RosterRows' = [RosterRows EXCEPT ![i] = heap[a]]
             /\ table' = SaveCharacter(table, heap[a])
  <2>1. heap' = [heap EXCEPT ![roster[i]] = heap[a], ![a] = Freed]
    BY <1>5 DEF AssignUpdate
  <2>2. /\ heap'[roster[i]] = heap[a]
        /\ \A j \in 1..Len(roster) : j # i => heap'[roster[j]] = heap[roster[j]]
    BY <1>2, <1>3, <2>1 DEF IInv, OneOwner, TypeOK
  <2>3. RosterRows' = [RosterRows EXCEPT ![i] = heap[a]]
    BY <1>0, <1>1, <1>2, <2>2, RowWritten
  <2>4. heap[a].id = RosterRows[i].id
    BY <1>5 DEF IsLastMatch, Matches
  <2>5. QED
    BY <1>5, <2>3, <2>4 DEF AssignUpdate
<1>6. DiscardUpdate(a) \/ \E i \in 1..Len(roster) : IsLastMatch(RosterRows, i, heap[a].id) /\ AssignUpdate(i, a)
  BY DEF UpdateCharacter
<1>7. QED
  BY <1>1, <1>2, <1>4, <1>5, <1>6

LEMMA ForceRows ==
  ASSUME IInv, NEW i \in 1..Len(roster), NEW s \in SectionSet, ForceSection(i, s)
  PROVE  /\ RosterRows' = [RosterRows EXCEPT ![i] = ResetTs(RosterRows[i], s)]
         /\ UNCHANGED <<now, table>>
<1>0. IInv' /\ RosterShape
  <2>1. IInv'
    BY ForceSectionStep
  <2>2. QED
    BY <2>1, RosterType
<1>1. /\ heap' = [heap EXCEPT ![roster[i]] = ResetTs(heap[roster[i]], s)]
      /\ UNCHANGED <<now, table, roster>>
  BY DEF ForceSection
<1>2. RosterRows[i] = heap[roster[i]] /\ RosterRows[i] \in Row
  BY <1>0 DEF RosterShape
<1>3. ResetTs(RosterRows[i], s) \in Row
  BY <1>2, ResetTsType
<1>4. \A j \in 1..Len(roster) : roster[j] \in Addrs /\ (roster[j] = roster[i] => j = i)
  BY DEF IInv, OneOwner, TypeOK
<1>5. /\ heap'[roster[i]] = ResetTs(RosterRows[i], s)
      /\ \A j \in 1..Len(roster) : j # i => heap'[roster[j]] = heap[roster[j]]
  BY <1>1, <1>2, <1>4 DEF IInv, TypeOK
<1>6. QED
  BY <1>0, <1>1, <1>3, <1>5, RowWritten

(* A process that has just started shows the rows of its table.            *)
LEMMA FreshRows == Fresh => RosterRows \in LoadCharacters(table)
<1> SUFFICES ASSUME Fresh PROVE RosterRows \in LoadCharacters(table)
  OBVIOUS
<1>1. PICK rows \in LoadCharacters(table) :
        roster = [i \in 1..Len(rows) |-> i] /\ heap = Loaded(rows)
  BY DEF Fresh
<1>2. /\ Len(roster) = Len(rows) /\ Len(rows) \in 0..MaxObjects
      /\ \A i \in 1..Len(rows) : roster[i] = i
  BY <1>1, LoadedObjects DEF Fresh
<1>3. \A i \in 1..Len(rows) : i \in Addrs /\ heap[roster[i]] = rows[i]
  BY <1>1, <1>2, BoundsAssumption DEF Loaded, Addrs
<1>4. rows = [i \in 1..Len(rows) |-> rows[i]]
  <2>1. rows \in [1..Cardinality(table) -> table] /\ Cardinality(table) \in Nat
    BY <1>1, BoundsAssumption DEF LoadCharacters, Fresh, TableFits
  <2>2. Len(rows) = Cardinality(table)
    BY <2>1
  <2>3. QED
    BY <2>1, <2>2
<1>5. RosterRows = [i \in 1..Len(rows) |-> heap[roster[i]]]
  BY <1>2 DEF RosterRows, Rows
<1>6. RosterRows = rows
  BY <1>3, <1>4, <1>5
<1>7. QED
  BY <1>1, <1>6

(* The worker does not touch what the list shows.                          *)
LEMMA WorkerRows ==
  ASSUME IInv, WorkerStep
  PROVE  UNCHANGED <<now, roster, table, RosterRows>>
<1> USE DEF IInv
<1>1. UNCHANGED <<now, roster, table>>
  BY DEF WorkerStep, BeginRefresh, SkipRefresh, RefreshProgress, ThreadEnds, ServerStatus,
     CopyCharacters, SkipSection, RefreshSection, HandOver, DeleteCopy, ClearActive, EndRefresh
<1>2. \A i \in 1..Len(roster) : roster[i] \in HeldByRoster /\ roster[i] \in Alive
  BY OwnedAreRows DEF HeldByRoster
<1>3. \A i \in 1..Len(roster) : heap'[roster[i]] = heap[roster[i]]
  <2>1. CASE UNCHANGED heap
    BY <2>1
  <2>2. CASE CopyCharacters
    <3>1. PICK objects \in Allocated(Len(roster)) :
             heap' = [a \in Addrs |->
                        IF \E i \in 1..Len(roster) : objects[i] = a
                        THEN RosterRows[CHOOSE i \in 1..Len(roster) : objects[i] = a]
                        ELSE heap[a]]
      BY <2>2, Zenon DEF CopyCharacters
    <3>2. \A i \in 1..Len(roster) : objects[i] \notin Alive
      BY DEF Allocated, FreeAddrs
    <3>3. QED
      BY <1>2, <3>1, <3>2 DEF Alive
  <2>3. ASSUME stack # <<>>, Top.at = "section", NEW row, heap' = [heap EXCEPT ![CurrentCopy] = row]
        PROVE  \A i \in 1..Len(roster) : heap'[roster[i]] = heap[roster[i]]
    <3>1. CurrentCopy \in HeldByWorker
      BY <2>3, CurrentIsHeld
    <3>2. \A i \in 1..Len(roster) : roster[i] # CurrentCopy /\ roster[i] \in Addrs
      BY <1>2, <3>1 DEF OneOwner, Alive
    <3>3. QED
      BY <2>3, <3>2 DEF TypeOK
  <2>4. ASSUME NEW o, RefreshSection(o)
        PROVE  \A i \in 1..Len(roster) : heap'[roster[i]] = heap[roster[i]]
    BY <2>3, <2>4 DEF RefreshSection, SectionDue
  <2>5. CASE DeleteCopy
    BY <2>3, <2>5 DEF DeleteCopy, SectionsDone
  <2>6. \/ UNCHANGED heap \/ CopyCharacters \/ DeleteCopy
        \/ \E o \in UNION {Outcomes[s] : s \in SectionSet} : RefreshSection(o)
    BY DEF WorkerStep, BeginRefresh, SkipRefresh, RefreshProgress, ThreadEnds, ServerStatus,
       SkipSection, HandOver, ClearActive, EndRefresh
  <2>7. QED
    BY <2>1, <2>2, <2>4, <2>5, <2>6
<1>4. QED
  BY <1>1, <1>3, RowsKept

(* Every step of the program, seen from the list and its table.            *)
RowAdded(id) ==
  /\ Login(id)
  /\ RosterRows' = Append(RosterRows, NewRow(id))
  /\ table' = SaveCharacters(RosterRows')
  /\ Len(RosterRows) < MaxRows /\ now' = now

RowRemoved(i) ==
  /\ IsFirstMatch(RosterRows, i, RosterRows[i].id)
  /\ RosterRows' = WithoutIndex(RosterRows, i)
  /\ table' = SaveCharacters(RosterRows') /\ now' = now

RowReplaced(i, a) ==
  /\ IsLastMatch(RosterRows, i, RosterRows[i].id)
  /\ heap[a] \in Row /\ heap[a].id = RosterRows[i].id
  /\ RosterRows' = [RosterRows EXCEPT ![i] = heap[a]]
  /\ table' = SaveCharacter(table, heap[a]) /\ now' = now

RowReset(i, s) ==
  /\ IsFirstMatch(RosterRows, i, RosterRows[i].id)
  /\ RosterRows' = [RosterRows EXCEPT ![i] = ResetTs(RosterRows[i], s)]
  /\ UNCHANGED <<now, table>>

RowsReloaded ==
  /\ TableFits
  /\ RosterRows' \in LoadCharacters(table)
  /\ UNCHANGED <<now, table>>

RowsUnchanged == UNCHANGED <<RosterRows, table>> /\ (UNCHANGED now \/ Tick)

ListStep ==
  \/ \E id \in Ids : RowAdded(id)
  \/ \E i \in 1..Len(RosterRows) : RowRemoved(i)
  \/ \E i \in 1..Len(RosterRows), a \in HeldByQueue : RowReplaced(i, a)
  \/ \E i \in 1..Len(RosterRows), s \in SectionSet : RowReset(i, s)
  \/ RowsReloaded
  \/ RowsUnchanged

LEMMA NextRows == IInv /\ [Next]_vars => ListStep
<1> SUFFICES ASSUME IInv, [Next]_vars PROVE ListStep
  OBVIOUS
<1>0. RosterShape
  BY RosterType
<1>1. ASSUME NEW id \in Ids, Login(id)
      PROVE  ListStep
  BY <1>1, LoginRows DEF ListStep, RowAdded
<1>2. ASSUME NEW id \in Ids, RemoveCharacter(id)
      PROVE  ListStep
  <2>1. PICK i \in 1..Len(RosterRows) : /\ IsFirstMatch(RosterRows, i, id)
                                        /\ RosterRows' = WithoutIndex(RosterRows, i)
    BY <1>2, RemoveRows
  <2>2. RosterRows[i].id = id
    BY <2>1 DEF IsFirstMatch, Matches
  <2>3. table' = SaveCharacters(RosterRows') /\ now' = now
    BY <1>2, RemoveRows
  <2>4. QED
    BY <2>1, <2>2, <2>3 DEF ListStep, RowRemoved
<1>3. CASE UpdateCharacter
  BY <1>0, <1>3, UpdateRows DEF ListStep, RowReplaced, RowsUnchanged, RosterShape
<1>4. ASSUME NEW i \in 1..Len(roster), NEW s \in SectionSet, ForceSection(i, s)
      PROVE  ListStep
  <2>1. IsFirstMatch(RosterRows, i, RosterRows[i].id) /\ i \in 1..Len(RosterRows)
    BY <1>0, <1>4 DEF ForceSection, RosterShape
  <2>2. RowReset(i, s)
    BY <1>4, <2>1, ForceRows DEF RowReset
  <2>3. QED
    BY <2>1, <2>2 DEF ListStep
<1>5. CASE Restart
  <2>1. Fresh'
    BY <1>5 DEF Restart, IInv, TypeOK, Fresh, TableFits
  <2>2. (RosterRows \in LoadCharacters(table))'
    BY <2>1, FreshRows, PTL
  <2>3. QED
    BY <1>5, <2>2 DEF ListStep, RowsReloaded, Restart
<1>6. CASE WorkerStep
  BY <1>6, WorkerRows DEF ListStep, RowsUnchanged
<1>7. ASSUME UNCHANGED <<heap, roster, table>>, UNCHANGED now \/ Tick
      PROVE  ListStep
  BY <1>7, RowsKept DEF ListStep, RowsUnchanged
<1>8. \/ \E id \in Ids : Login(id) \/ RemoveCharacter(id)
      \/ UpdateCharacter
      \/ \E i \in 1..Len(roster), s \in SectionSet : ForceSection(i, s)
      \/ Restart \/ WorkerStep
      \/ UNCHANGED <<heap, roster, table>> /\ (UNCHANGED now \/ Tick)
  BY DEF Next, MainStep, RefreshNewCharacter, RequestRefresh, RequestInterruption, QuitThread,
     Tick, Ended, vars
<1>9. QED
  BY <1>1, <1>2, <1>3, <1>4, <1>5, <1>6, <1>7, <1>8

-----------------------------------------------------------------------------
(* The table.                                                              *)

LEMMA TableStart == Init => TableHoldsRoster
<1> SUFFICES ASSUME Init PROVE TableHoldsRoster
  OBVIOUS
<1>1. Fresh /\ IInv
  BY NewRowType, InitInvariant DEF Init, Fresh
<1>2. table \subseteq Row /\ IsFiniteSet(table) /\ RosterRows \in LoadCharacters(table)
  BY <1>1, FreshRows DEF Fresh, TableFits
<1>3. \A r, q \in table : r.id = q.id => r = q
  BY DEF Init, NewRow
<1>4. Holds(table, RosterRows)
  BY <1>2, <1>3, LoadedList
<1>5. QED
  BY <1>1, <1>4, RosterType DEF RosterShape

LEMMA TableStep == IInv /\ IInv' /\ TableHoldsRoster /\ ListStep => TableHoldsRoster'
<1> SUFFICES ASSUME IInv, IInv', TableHoldsRoster, ListStep PROVE TableHoldsRoster'
  OBVIOUS
<1>0. RosterShape /\ RosterShape'
  BY RosterType, PTL
<1>1. Holds(table, RosterRows) /\ RosterRows \in Seq(Row) /\ RosterRows' \in Seq(Row)
  BY <1>0 DEF RosterShape
<1>2. CASE table' = SaveCharacters(RosterRows')
  BY <1>0, <1>1, <1>2, SavedList DEF RosterShape
<1>3. ASSUME NEW i \in 1..Len(RosterRows), NEW a \in HeldByQueue, RowReplaced(i, a)
      PROVE  TableHoldsRoster'
  BY <1>0, <1>1, <1>3, SavedRow DEF RowReplaced, RosterShape
<1>4. ASSUME NEW i \in 1..Len(RosterRows), NEW s \in SectionSet, RowReset(i, s)
      PROVE  TableHoldsRoster'
  <2>1. RosterRows[i] \in Row
    BY <1>1
  <2>2. /\ ResetTs(RosterRows[i], s) \in Row
        /\ ResetTs(RosterRows[i], s).id = RosterRows[i].id
        /\ SavedAs(ResetTs(RosterRows[i], s), RosterRows[i])
    BY <2>1, ResetRow DEF SavedAs
  <2>3. Holds(table, [RosterRows EXCEPT ![i] = ResetTs(RosterRows[i], s)])
    BY <1>1, <2>2, UnsavedReset
  <2>4. QED
    BY <1>0, <1>4, <2>3 DEF RowReset, RosterShape
<1>5. CASE RowsReloaded
  <2>1. table \subseteq Row /\ IsFiniteSet(table)
    BY <1>5 DEF RowsReloaded, TableFits, IInv, TypeOK
  <2>2. Holds(table, RosterRows')
    BY <1>1, <1>5, <2>1, LoadedList DEF RowsReloaded, Holds
  <2>3. QED
    BY <1>0, <1>5, <2>2 DEF RowsReloaded, RosterShape
<1>6. CASE RowsUnchanged
  BY <1>0, <1>1, <1>6 DEF RowsUnchanged, RosterShape
<1>7. QED
  BY <1>2, <1>3, <1>4, <1>5, <1>6 DEF ListStep, RowAdded, RowRemoved

(* After every step the table has exactly the characters of the list, each *)
(* with its current row, whichever of the three functions wrote it.        *)
THEOREM TableIsList == Spec => []TableHoldsRoster
<1>1. Init => TableHoldsRoster
  BY TableStart
<1>2. IInv /\ IInv' /\ TableHoldsRoster /\ [Next]_vars => TableHoldsRoster'
  BY NextRows, TableStep
<1>3. QED
  BY <1>1, <1>2, Invariant, PTL DEF Spec

(* The ids of the list after a step.                                       *)
LEMMA NoNewIds ==
  ASSUME IInv, TableHoldsRoster, ListStep, NEW id \in Ids,
         id \in IdsOf(RosterRows'), id \notin IdsOf(RosterRows)
  PROVE  Login(id)
<1>1. RosterShape /\ Holds(table, RosterRows)
  BY RosterType DEF RosterShape
<1>2. RosterRows \in Seq(Row)
  BY <1>1 DEF RosterShape
<1>3. ASSUME NEW new \in Ids, RowAdded(new) PROVE Login(id)
  <2>1. NewRow(new) \in Row /\ NewRow(new).id = new
    BY NewRowType DEF NewRow
  <2>2. IdsOf(RosterRows') \subseteq IdsOf(RosterRows) \cup {new}
    BY <1>2, <1>3, <2>1, AppendProperties DEF RowAdded, IdsOf
  <2>3. id = new
    BY <2>2
  <2>4. QED
    BY <1>3, <2>3 DEF RowAdded
<1>4. ASSUME NEW i \in 1..Len(RosterRows), RowRemoved(i) PROVE FALSE
  <2>1. /\ RosterRows' = WithoutIndex(RosterRows, i)
        /\ Len(RosterRows') = Len(RosterRows) - 1
        /\ \A j \in 1..(Len(RosterRows) - 1) :
              RosterRows'[j] = IF j < i THEN RosterRows[j] ELSE RosterRows[j + 1]
    BY <1>2, <1>4, WithoutIndexType, Zenon DEF RowRemoved
  <2>2. PICK j \in 1..Len(RosterRows') : RosterRows'[j].id = id
    BY DEF IdsOf
  <2>3. \E k \in 1..Len(RosterRows) : RosterRows[k].id = id
    <3>1. CASE j < i
      BY <2>1, <2>2, <3>1
    <3>2. CASE ~ (j < i)
      <4>1. j + 1 \in 1..Len(RosterRows) /\ RosterRows[j + 1].id = id
        BY <2>1, <2>2, <3>2
      <4>2. QED
        BY <4>1
    <3>3. QED
      BY <3>1, <3>2
  <2>4. QED
    BY <2>3 DEF IdsOf
<1>5. ASSUME NEW i \in 1..Len(RosterRows), NEW a \in HeldByQueue, RowReplaced(i, a) PROVE FALSE
  BY <1>2, <1>5, SameMatches DEF RowReplaced
<1>6. ASSUME NEW i \in 1..Len(RosterRows), NEW s \in SectionSet, RowReset(i, s) PROVE FALSE
  <2>1. RosterRows[i] \in Row
    BY <1>2
  <2>2. ResetTs(RosterRows[i], s) \in Row /\ ResetTs(RosterRows[i], s).id = RosterRows[i].id
    BY <2>1, ResetRow
  <2>3. QED
    BY <1>2, <1>6, <2>2, SameMatches DEF RowReset
<1>7. CASE RowsReloaded
  <2>1. table \subseteq Row /\ IsFiniteSet(table)
    BY <1>7 DEF RowsReloaded, TableFits, IInv, TypeOK
  <2>2. Holds(table, RosterRows')
    BY <1>1, <1>7, <2>1, LoadedList DEF RowsReloaded, Holds
  <2>3. QED
    BY <1>1, <2>2 DEF Holds
<1>8. CASE RowsUnchanged
  BY <1>8 DEF RowsUnchanged
<1>9. QED
  BY <1>3, <1>4, <1>5, <1>6, <1>7, <1>8 DEF ListStep

(* A removed character does not come back: not by the late update of a     *)
(* copy of it, nor from the table after a restart.                         *)
THEOREM RemovedStaysRemoved == Spec => NoResurrection
<1>1. IInv /\ TableHoldsRoster /\ [Next]_vars
        => [\A id \in Ids :
              id \in IdsOf(RosterRows') /\ id \notin IdsOf(RosterRows) => Login(id)]_vars
  BY NextRows, NoNewIds
<1>2. QED
  BY <1>1, Invariant, TableIsList, PTL DEF Spec, NoResurrection

-----------------------------------------------------------------------------
(* What the rows and the copies hold was fetched, and not later than now.  *)

Sound(row, time) ==
  /\ Coherent(row, time)
  /\ \A s \in SectionSet : row.fetched[s] <= time

RowsTrue ==
  /\ \A a \in Alive : Sound(heap[a], now)
  /\ \A r \in table : Sound(r, now)

LEMMA NewRowSound ==
  ASSUME NEW id \in Ids, NEW time \in Nat
  PROVE  Sound(NewRow(id), time)
  BY DEF Sound, Coherent, NewRow

LEMMA LaterSound ==
  ASSUME NEW row \in Row, NEW t \in Nat, NEW u \in Nat, t <= u, Sound(row, t)
  PROVE  Sound(row, u)
<1>1. \A s \in SectionSet : row.fetched[s] \in Nat /\ row.until[s] \in Nat
  BY DEF Row
<1>2. \A s \in SectionSet : row.fetched[s] <= u
  BY <1>1 DEF Sound
<1>3. \A s \in SectionSet : row.until[s] > u => row.until[s] > t
  BY <1>1
<1>4. QED
  BY <1>2, <1>3 DEF Sound, Coherent

LEMMA ResetSound ==
  ASSUME NEW row \in Row, NEW s \in SectionSet, NEW time \in Nat, Sound(row, time)
  PROVE  Sound(ResetTs(row, s), time)
<1>1. ASSUME NEW t \in SectionSet \ {"SKILLS"}, ResetTs(row, s).until[t] > time
      PROVE  row.fetched[t] + Ttl(t) = row.until[t] /\ t # s
  <2>1. t # s
    BY <1>1, ResetRow
  <2>2. row.until[t] > time
    BY <1>1, <2>1, ResetRow
  <2>3. QED
    BY <2>1, <2>2 DEF Sound, Coherent
<1>2. QED
  BY <1>1, ResetRow DEF Sound, Coherent

(* No section but SKILLS sets its timestamp without writing what it got.   *)
LEMMA StampedWrote ==
  \A s \in Kinds \ {"SKILLS"} : \A o \in Outcomes[s] : o.stamped => o.wrote # {}
<1> SUFFICES ASSUME NEW s \in Kinds \ {"SKILLS"}, NEW o \in Outcomes[s], o.stamped
             PROVE  o.wrote # {}
  OBVIOUS
<1>1. s \in {"PUBLIC", "LOCATION", "CLONES", "FATIGUE", "WALLET", "WALLET_JOURNAL", "MAIL",
             "NOTIFICATIONS", "ASSETS"}
  BY DEF Kinds, RefreshOrder
<1>2. \A w : CountEach(w).stamped => CountEach(w).wrote # {}
  BY DEF CountEach
<1>3. CASE s = "PUBLIC"
  BY <1>3 DEF Outcomes, Kinds, RefreshOrder, PublicOutcomes, Nothing
<1>4. CASE s = "LOCATION"
  BY <1>4 DEF Outcomes, Kinds, RefreshOrder, LocationOutcomes, Nothing
<1>5. CASE s \in {"CLONES", "FATIGUE", "WALLET_JOURNAL", "MAIL"}
  BY <1>2, <1>5 DEF Outcomes, Kinds, RefreshOrder, ClonesOutcomes, FatigueOutcomes,
     WalletJournalOutcomes, MailOutcomes
<1>6. CASE s \in {"WALLET", "NOTIFICATIONS", "ASSETS"}
  BY <1>6 DEF Outcomes, Kinds, RefreshOrder, WalletOutcomes, NotificationsOutcomes,
     AssetsOutcomes, Nothing
<1>7. QED
  BY <1>1, <1>3, <1>4, <1>5, <1>6

LEMMA ApplyOutcomeFields ==
  ASSUME NEW row \in Row, NEW s \in SectionSet, NEW o, NEW time \in Nat
  PROVE  \A t \in SectionSet :
           /\ ApplyOutcome(row, s, o, time).fetched[t]
                = IF t = s /\ o.wrote # {} THEN time ELSE row.fetched[t]
           /\ ApplyOutcome(row, s, o, time).until[t]
                = IF t = s /\ o.stamped THEN time + Ttl(s) ELSE row.until[t]
  BY DEF ApplyOutcome, Row

LEMMA ApplyOutcomeSound ==
  ASSUME NEW row \in Row, NEW s \in SectionSet, NEW o \in Outcomes[s], NEW time \in Nat,
         Sound(row, time), row.until[s] <= time
  PROVE  Sound(ApplyOutcome(row, s, o, time), time)
<1> DEFINE new == ApplyOutcome(row, s, o, time)
<1>1. /\ \A t \in SectionSet : new.fetched[t] = IF t = s /\ o.wrote # {} THEN time ELSE row.fetched[t]
      /\ \A t \in SectionSet : new.until[t] = IF t = s /\ o.stamped THEN time + Ttl(s) ELSE row.until[t]
  BY ApplyOutcomeFields
<1> HIDE DEF new
<1>2. \A t \in SectionSet : row.fetched[t] \in Nat /\ row.until[t] \in Nat
  BY DEF Row
<1>3. ASSUME NEW t \in SectionSet PROVE new.fetched[t] <= time
  BY <1>1, <1>2 DEF Sound
<1>4. ASSUME NEW t \in SectionSet \ {"SKILLS"}, new.until[t] > time
      PROVE  new.fetched[t] + Ttl(t) = new.until[t]
  <2>1. CASE t # s
    BY <1>1, <1>4, <2>1 DEF Sound, Coherent
  <2>2. CASE t = s
    <3>1. o.stamped
      BY <1>1, <1>2, <1>4, <2>2
    <3>2. o.wrote # {}
      BY <2>2, <3>1, StampedWrote, SectionSetType
    <3>3. QED
      BY <1>1, <2>2, <3>1, <3>2
  <2>3. QED
    BY <2>1, <2>2
<1>5. QED
  BY <1>3, <1>4 DEF Sound, Coherent, new

(* A table of rows of the list is as sound as they are.                    *)
SavedFromList ==
  (\A a \in Alive : Sound(heap[a], now)) /\ table = SaveCharacters(RosterRows) => RowsTrue

LEMMA SavedFromListHolds == IInv => SavedFromList
<1> SUFFICES ASSUME IInv, \A a \in Alive : Sound(heap[a], now), table = SaveCharacters(RosterRows)
             PROVE  RowsTrue
  BY DEF SavedFromList
<1>1. \A i \in 1..Len(RosterRows) : RosterRows[i] = heap[roster[i]] /\ roster[i] \in Alive
  BY RosterType, OwnedAreRows DEF RosterShape, IInv
<1>2. \A r \in table : \E i \in 1..Len(RosterRows) : r = RosterRows[i]
  BY DEF SaveCharacters
<1>3. QED
  BY <1>1, <1>2 DEF RowsTrue

(* The steps that only copy, move or delete characters.                    *)
LEMMA MovedRows ==
  ASSUME IInv, IInv', RowsTrue, now' = now,
         \A a \in Alive' : \/ Sound(heap'[a], now)
                           \/ \E b \in Alive : heap'[a] = heap[b],
         table' \subseteq table \cup {heap[b] : b \in Alive} \/ table' = SaveCharacters(RosterRows')
  PROVE  RowsTrue'
<1>1. \A a \in Alive' : Sound(heap'[a], now)
  BY DEF RowsTrue
<1>2. CASE table' = SaveCharacters(RosterRows')
  <2>1. SavedFromList'
    BY SavedFromListHolds, PTL
  <2>2. QED
    BY <1>1, <1>2, <2>1 DEF SavedFromList
<1>3. CASE table' \subseteq table \cup {heap[b] : b \in Alive}
  <2>1. \A r \in table' : Sound(r, now)
    BY <1>3 DEF RowsTrue
  <2>2. QED
    BY <1>1, <2>1 DEF RowsTrue
<1>4. QED
  BY <1>2, <1>3

LEMMA RowsTrueStep == IInv /\ IInv' /\ RowsTrue /\ [Next]_vars => RowsTrue'
<1> SUFFICES ASSUME IInv, IInv', RowsTrue, [Next]_vars PROVE RowsTrue'
  OBVIOUS
<1> USE DEF IInv
<1>0. now \in Nat /\ heap \in [Addrs -> Row \cup {Freed}] /\ \A a \in Alive : a \in Addrs /\ heap[a] \in Row
  BY OwnedAreRows DEF TypeOK, Alive
<1>1. ASSUME NEW id \in Ids, Login(id)
      PROVE  RowsTrue'
  <2>1. PICK objects \in Allocated(1) : heap' = [heap EXCEPT ![objects[1]] = NewRow(id)]
    BY <1>1, Zenon DEF Login
  <2>2. objects[1] \in Addrs
    BY DEF Allocated, FreeAddrs
  <2>3. ASSUME NEW a \in Alive' PROVE Sound(heap'[a], now) \/ \E b \in Alive : heap'[a] = heap[b]
    <3>1. CASE a = objects[1]
      BY <1>0, <2>1, <2>2, <3>1, NewRowSound
    <3>2. CASE a # objects[1]
      <4>1. a \in Addrs /\ heap'[a] # Freed'
        BY <2>3 DEF Alive, Addrs
      <4>2. heap'[a] = heap[a] /\ a \in Alive
        BY <1>0, <2>1, <2>2, <3>2, <4>1 DEF Alive, Freed, NewRow
      <4>3. QED
        BY <4>2
    <3>3. QED
      BY <3>1, <3>2
  <2>4. table' = SaveCharacters(RosterRows') /\ now' = now
    BY <1>1, LoginRows
  <2>5. QED
    BY <2>3, <2>4, MovedRows
<1>2. ASSUME NEW id \in Ids, RemoveCharacter(id)
      PROVE  RowsTrue'
  <2>1. PICK i \in 1..Len(roster) : heap' = [heap EXCEPT ![roster[i]] = Freed]
    BY <1>2, Zenon DEF RemoveCharacter
  <2>2. roster[i] \in Addrs
    BY DEF TypeOK
  <2>3. \A a \in Alive' : a \in Alive /\ heap'[a] = heap[a]
    BY <2>1, <2>2, DeleteObject
  <2>4. table' = SaveCharacters(RosterRows') /\ now' = now
    BY <1>2, RemoveRows
  <2>5. QED
    BY <2>3, <2>4, MovedRows
<1>3. CASE UpdateCharacter
  <2> DEFINE a == Head(mainQueue).object
  <2>1. a \in Alive /\ a \in Addrs /\ now' = now
    BY <1>0, <1>3, UpdateRows DEF OneOwner
  <2>2. CASE DiscardUpdate(a)
    <3>1. \A b \in Alive' : b \in Alive /\ heap'[b] = heap[b]
      BY <2>1, <2>2, DeleteObject DEF DiscardUpdate
    <3>2. table' = table
      BY <2>2 DEF DiscardUpdate
    <3>3. QED
      BY <2>1, <3>1, <3>2, MovedRows
  <2>3. ASSUME NEW i \in 1..Len(roster), AssignUpdate(i, a)
        PROVE  RowsTrue'
    <3>1. roster[i] \in Addrs
      BY DEF TypeOK
    <3>2. heap' = [heap EXCEPT ![roster[i]] = heap[a], ![a] = Freed]
      BY <2>3 DEF AssignUpdate
    <3>3. \A b \in Addrs : heap'[b] \in {heap[b], heap[a], Freed}
      BY <1>0, <2>1, <3>1, <3>2
    <3>4. \A b \in Alive' : \E c \in Alive : heap'[b] = heap[c]
      BY <2>1, <3>3 DEF Alive, Addrs, Freed, NewRow
    <3>5. table' \subseteq table \cup {heap[b] : b \in Alive}
      BY <2>1, <2>3 DEF AssignUpdate, SaveCharacter
    <3>6. QED
      BY <2>1, <3>4, <3>5, MovedRows
  <2>4. QED
    BY <1>3, <2>2, <2>3 DEF UpdateCharacter
<1>4. ASSUME NEW i \in 1..Len(roster), NEW s \in SectionSet, ForceSection(i, s)
      PROVE  RowsTrue'
  <2>1. roster[i] \in Alive /\ heap[roster[i]] \in Row
    BY OwnedAreRows
  <2>2. heap' = [heap EXCEPT ![roster[i]] = ResetTs(heap[roster[i]], s)] /\ UNCHANGED <<now, table>>
    BY <1>4 DEF ForceSection
  <2>3. Sound(ResetTs(heap[roster[i]], s), now) /\ ResetTs(heap[roster[i]], s) \in Row
    BY <1>0, <2>1, ResetSound, ResetRow DEF RowsTrue
  <2>4. Alive' = Alive /\ \A b \in Alive : heap'[b] = IF b = roster[i] THEN ResetTs(heap[roster[i]], s)
                                                   ELSE heap[b]
    BY <2>1, <2>2, <2>3, WriteObject
  <2>5. QED
    BY <2>2, <2>3, <2>4 DEF RowsTrue
<1>5. CASE Restart
  <2>1. PICK rows \in LoadCharacters(table) : heap' = Loaded(rows)
    BY <1>5, Zenon DEF Restart
  <2>2. TableFits /\ UNCHANGED <<now, table>>
    BY <1>5 DEF Restart
  <2>3. /\ Len(rows) \in Nat /\ {a \in Addrs : Loaded(rows)[a] # Freed} = 1..Len(rows)
        /\ 1..Len(rows) \subseteq Addrs
    BY <2>2, LoadedObjects DEF TypeOK
  <2>4. \A i \in 1..Len(rows) : rows[i] \in table
    <3>1. rows \in [1..Cardinality(table) -> table] /\ Cardinality(table) \in Nat
      BY <2>2, BoundsAssumption DEF LoadCharacters, TableFits
    <3>2. QED
      BY <3>1
  <2>5. \A a \in Alive' : heap'[a] \in table
    BY <2>1, <2>3, <2>4 DEF Alive, Addrs, Freed, NewRow, Loaded
  <2>6. QED
    BY <2>2, <2>5 DEF RowsTrue
<1>6. CASE CopyCharacters
  <2>1. PICK objects \in Allocated(Len(roster)) :
           heap' = [a \in Addrs |->
                      IF \E i \in 1..Len(roster) : objects[i] = a
                      THEN RosterRows[CHOOSE i \in 1..Len(roster) : objects[i] = a]
                      ELSE heap[a]]
    BY <1>6, Zenon DEF CopyCharacters
  <2>2. \A i \in 1..Len(roster) : RosterRows[i] = heap[roster[i]] /\ roster[i] \in Alive
    BY RosterType, OwnedAreRows DEF RosterShape
  <2>3. ASSUME NEW a \in Alive' PROVE \E b \in Alive : heap'[a] = heap[b]
    <3>1. a \in Addrs /\ heap'[a] # Freed
      BY <2>3 DEF Alive, Addrs, Freed, NewRow
    <3>2. CASE \E i \in 1..Len(roster) : objects[i] = a
      <4>1. heap'[a] = RosterRows[CHOOSE i \in 1..Len(roster) : objects[i] = a]
        BY <2>1, <3>1, <3>2
      <4>2. (CHOOSE i \in 1..Len(roster) : objects[i] = a) \in 1..Len(roster)
        BY <3>2
      <4>3. QED
        BY <2>2, <4>1, <4>2
    <3>3. CASE ~ \E i \in 1..Len(roster) : objects[i] = a
      BY <2>1, <3>1, <3>3 DEF Alive
    <3>4. QED
      BY <3>2, <3>3
  <2>4. QED
    BY <1>6, <2>3, MovedRows DEF CopyCharacters
<1>7. ASSUME NEW s \in SectionSet, NEW o \in Outcomes[s], RefreshSection(o), Sections[Top.sec] = s
      PROVE  RowsTrue'
  <2> DEFINE c == CurrentCopy
  <2>1. c \in Alive /\ heap[c] \in Row
    BY <1>0, <1>7, CurrentIsHeld DEF RefreshSection, SectionDue
  <2>2. heap[c].until[s] <= now
    BY <1>7 DEF RefreshSection, SectionDue, IsUpdateNeeded
  <2>3. heap' = [heap EXCEPT ![c] = ApplyOutcome(heap[c], s, o, now)] /\ UNCHANGED <<now, table>>
    BY <1>7 DEF RefreshSection
  <2>4. Sound(ApplyOutcome(heap[c], s, o, now), now) /\ ApplyOutcome(heap[c], s, o, now) \in Row
    BY <1>0, <2>1, <2>2, ApplyOutcomeSound, ApplyOutcomeType DEF RowsTrue
  <2> HIDE DEF c
  <2>5. Alive' = Alive /\ \A b \in Alive : heap'[b] = IF b = c THEN ApplyOutcome(heap[c], s, o, now)
                                                   ELSE heap[b]
    BY <2>1, <2>3, <2>4, WriteObject
  <2>6. QED
    BY <2>3, <2>4, <2>5 DEF RowsTrue
<1>8. CASE DeleteCopy
  <2>1. CurrentCopy \in Addrs
    BY <1>8, CurrentIsHeld DEF DeleteCopy, SectionsDone, Alive
  <2>2. \A a \in Alive' : a \in Alive /\ heap'[a] = heap[a]
    BY <1>8, <2>1, DeleteObject DEF DeleteCopy
  <2>3. QED
    BY <1>8, <2>2, MovedRows DEF DeleteCopy
<1>9. CASE UNCHANGED <<heap, table, now>>
  BY <1>9 DEF RowsTrue, Alive
<1>10. CASE Tick
  <2>1. now + 1 \in Nat /\ now <= now + 1 /\ now' = now + 1 /\ UNCHANGED <<heap, table>>
    BY <1>0, <1>10 DEF Tick
  <2>2. \A a \in Alive : Sound(heap[a], now + 1)
    BY <1>0, <2>1, LaterSound DEF RowsTrue
  <2>3. \A r \in table : Sound(r, now + 1)
    BY <1>0, <2>1, LaterSound DEF RowsTrue, TypeOK
  <2>4. QED
    BY <2>1, <2>2, <2>3 DEF RowsTrue, Alive
<1>11. ASSUME NEW o, RefreshSection(o)
       PROVE  RowsTrue'
  <2>1. Sections[Top.sec] \in SectionSet
    <3>1. Top.sec \in 1..Len(Sections)
      BY <1>11, TopFrame, SectionsAssumption DEF RefreshSection, SectionDue, Frame
    <3>2. QED
      BY <3>1 DEF SectionSet
  <2>2. QED
    BY <1>7, <1>11, <2>1 DEF RefreshSection
<1>12. \/ \E id \in Ids : Login(id) \/ RemoveCharacter(id)
       \/ UpdateCharacter
       \/ \E i \in 1..Len(roster), s \in SectionSet : ForceSection(i, s)
       \/ Restart \/ CopyCharacters \/ DeleteCopy \/ Tick
       \/ \E o \in UNION {Outcomes[s] : s \in SectionSet} : RefreshSection(o)
       \/ UNCHANGED <<heap, table, now>>
  BY DEF Next, MainStep, WorkerStep, RefreshProgress, RefreshNewCharacter, RequestRefresh,
     RequestInterruption, QuitThread, BeginRefresh, SkipRefresh, ServerStatus, SkipSection,
     HandOver, ClearActive, EndRefresh, ThreadEnds, Ended, vars
<1>13. QED
  BY <1>1, <1>2, <1>3, <1>4, <1>5, <1>6, <1>8, <1>9, <1>10, <1>11, <1>12


(* The instance of CharacterRoster brings its own copy of CharacterRows,   *)
(* with the same constants; its operators are the same.                    *)
LEMMA SameSets ==
  /\ Roster!SectionSet = SectionSet /\ Roster!Row = Row
  /\ \A id : Roster!NewRow(id) = NewRow(id)
BY DEF Roster!SectionSet, SectionSet, Roster!Row, Row, Roster!NewRow, NewRow

LEMMA SamePositions ==
  /\ \A list, i, id : Roster!IsFirstMatch(list, i, id) <=> IsFirstMatch(list, i, id)
  /\ \A list, i, id : Roster!IsLastMatch(list, i, id) <=> IsLastMatch(list, i, id)
<1>1. \A list, id : Roster!Matches(list, id) = Matches(list, id)
  BY DEF Roster!Matches, Matches
<1>2. QED
  BY <1>1 DEF Roster!IsFirstMatch, IsFirstMatch, Roster!IsLastMatch, IsLastMatch

LEMMA SameTables ==
  /\ \A list : Roster!SaveCharacters(list) = SaveCharacters(list)
  /\ \A saved, row : Roster!SaveCharacter(saved, row) = SaveCharacter(saved, row)
  /\ \A saved : Roster!LoadCharacters(saved) = LoadCharacters(saved)
<1>1. \A list : Roster!SaveCharacters(list) = SaveCharacters(list)
  <2> SUFFICES ASSUME NEW list
               PROVE  Roster!SaveCharacters(list) = SaveCharacters(list)
    OBVIOUS
  <2>1. \A k : Roster!IsLastMatch(list, k, list[k].id) <=> IsLastMatch(list, k, list[k].id)
    BY SamePositions
  <2>2. QED
    BY <2>1 DEF Roster!SaveCharacters, SaveCharacters
<1>2. \A saved, row : Roster!SaveCharacter(saved, row) = SaveCharacter(saved, row)
  BY DEF Roster!SaveCharacter, SaveCharacter
<1>3. \A saved : Roster!LoadCharacters(saved) = LoadCharacters(saved)
  BY DEF Roster!LoadCharacters, LoadCharacters, Roster!Cardinality, Cardinality
<1>4. QED
  BY <1>1, <1>2, <1>3

LEMMA SameChanges ==
  /\ \A list, i : Roster!WithoutIndex(list, i) = WithoutIndex(list, i)
  /\ \A row, s : Roster!ResetTs(row, s) = ResetTs(row, s)
  /\ \A row, time : Roster!Coherent(row, time) <=> Coherent(row, time)
<1>1. \A s : Roster!Ttl(s) = Ttl(s)
  BY DEF Roster!Ttl, Ttl, Roster!CacheSeconds, CacheSeconds, Roster!Kinds, Kinds,
     Roster!RefreshOrder, RefreshOrder
<1>2. \A list, i : Roster!WithoutIndex(list, i) = WithoutIndex(list, i)
  BY DEF Roster!WithoutIndex, WithoutIndex
<1>3. \A row, s : Roster!ResetTs(row, s) = ResetTs(row, s)
  BY DEF Roster!ResetTs, ResetTs
<1>4. \A row, time : Roster!Coherent(row, time) <=> Coherent(row, time)
  BY <1>1, SameSets DEF Roster!Coherent, Coherent
<1>5. QED
  BY <1>2, <1>3, <1>4

LEMMA RowsTrueStart == Init => RowsTrue
<1> SUFFICES ASSUME Init PROVE RowsTrue
  OBVIOUS
<1>1. ASSUME NEW r \in table PROVE Sound(r, now)
  <2>1. now = 1 /\ table \in SUBSET {NewRow(id) : id \in Ids}
    BY DEF Init
  <2>2. PICK id \in Ids : r = NewRow(id)
    BY <2>1
  <2>3. QED
    BY <2>1, <2>2, NewRowSound
<1>2. PICK rows \in LoadCharacters(table) : heap = Loaded(rows)
  BY Zenon DEF Init
<1>3. TableFits /\ table \subseteq Row
  BY NewRowType DEF Init
<1>4. Len(rows) = Cardinality(table) /\ \A i \in 1..Len(rows) : rows[i] \in table
  <2>1. rows \in [1..Cardinality(table) -> table] /\ Cardinality(table) \in Nat
    BY <1>3, BoundsAssumption DEF LoadCharacters, TableFits
  <2>2. QED
    BY <2>1
<1>5. \A a \in Alive : heap[a] \in table
  BY <1>2, <1>4 DEF Alive, Loaded
<1>6. QED
  BY <1>1, <1>5 DEF RowsTrue

LEMMA RowsAreTrue == Spec => []RowsTrue
<1>1. IInv /\ IInv' /\ RowsTrue /\ [Next]_vars => RowsTrue'
  BY RowsTrueStep
<1>2. QED
  BY <1>1, RowsTrueStart, Invariant, PTL DEF Spec

(* The initial states of the list.                                         *)
LEMMA RosterStart == Init => Roster!Init
<1> SUFFICES ASSUME Init PROVE Roster!Init
  OBVIOUS
<1>1. Fresh /\ IInv
  BY NewRowType, InitInvariant DEF Init, Fresh
<1>2. RosterRows \in LoadCharacters(table)
  BY <1>1, FreshRows
<1>3. Len(RosterRows) <= MaxRows
  <2>1. Cardinality(table) \in Nat /\ Cardinality(table) <= MaxRows
    BY BoundsAssumption DEF Init, TableFits
  <2>2. RosterRows \in [1..Cardinality(table) -> table]
    BY <1>2 DEF LoadCharacters
  <2>3. Len(RosterRows) = Cardinality(table)
    BY <2>1, <2>2
  <2>4. QED
    BY <2>1, <2>3
<1>4. table \in SUBSET {Roster!NewRow(id) : id \in Ids}
  BY SameSets DEF Init
<1>5. RosterRows \in Roster!LoadCharacters(table)
  BY <1>2, SameTables
<1>6. QED
  BY <1>3, <1>4, <1>5 DEF Init, Roster!Init

(* Each kind of step is a step of CharacterRoster, or does not show.       *)
LEMMA RosterStep == IInv /\ RowsTrue /\ ListStep => [Roster!Next]_(Roster!vars)
<1> SUFFICES ASSUME IInv, RowsTrue, ListStep PROVE [Roster!Next]_(Roster!vars)
  OBVIOUS
<1>0. RosterShape /\ RosterRows \in Seq(Row)
  BY RosterType DEF RosterShape
<1>1. ASSUME NEW id \in Ids, RowAdded(id) PROVE Roster!Next
  <2>1. Roster!Login(id)
    BY <1>1, SameSets, SameTables DEF RowAdded, Roster!Login
  <2>2. QED
    BY <2>1 DEF Roster!Next
<1>2. ASSUME NEW i \in 1..Len(RosterRows), RowRemoved(i) PROVE Roster!Next
  <2>1. Roster!Remove(i)
    BY <1>2, SamePositions, SameTables, SameChanges DEF RowRemoved, Roster!Remove
  <2>2. QED
    BY <2>1 DEF Roster!Next
<1>3. ASSUME NEW i \in 1..Len(RosterRows), NEW a \in HeldByQueue, RowReplaced(i, a)
      PROVE  Roster!Next
  <2>1. RosterRows' = [RosterRows EXCEPT ![i] = heap[a]] /\ RosterRows'[i] = heap[a]
    BY <1>0, <1>3, ExceptSeq DEF RowReplaced
  <2>2. Sound(heap[a], now)
    BY DEF RowsTrue, IInv, OneOwner
  <2>3. Roster!Commit(i)
    BY <1>3, <2>1, <2>2, SameSets, SamePositions, SameTables, SameChanges
       DEF RowReplaced, Sound, Roster!Commit
  <2>4. QED
    BY <2>3 DEF Roster!Next
<1>4. ASSUME NEW i \in 1..Len(RosterRows), NEW s \in SectionSet, RowReset(i, s)
      PROVE  Roster!Next
  <2>1. Roster!ForceSection(i, s)
    BY <1>4, SamePositions, SameChanges DEF RowReset, Roster!ForceSection
  <2>2. QED
    BY <2>1, SameSets DEF Roster!Next
<1>5. CASE RowsReloaded
  <2>1. Roster!Reload
    BY <1>5, SameTables DEF RowsReloaded, Roster!Reload
  <2>2. QED
    BY <2>1 DEF Roster!Next
<1>6. CASE RowsUnchanged
  <2>1. CASE UNCHANGED now
    BY <1>6, <2>1 DEF RowsUnchanged, Roster!vars
  <2>2. CASE Tick
    <3>1. Roster!Tick
      BY <1>6, <2>2 DEF RowsUnchanged, Tick, Roster!Tick
    <3>2. QED
      BY <3>1 DEF Roster!Next
  <2>3. QED
    BY <1>6, <2>1, <2>2 DEF RowsUnchanged
<1>7. QED
  BY <1>1, <1>2, <1>3, <1>4, <1>5, <1>6 DEF ListStep

(* The list and its table do what CharacterRoster says, however the two    *)
(* threads interleave: a refresh shows as one step, which replaces the row *)
(* of a listed character by a coherent one.                                *)
THEOREM Refinement == Spec => RefinesRoster
<1>1. IInv /\ RowsTrue /\ [Next]_vars => [Roster!Next]_(Roster!vars)
  BY NextRows, RosterStep
<1>2. QED
  BY <1>1, RosterStart, Invariant, RowsAreTrue, PTL DEF Spec, RefinesRoster, Roster!Spec


-----------------------------------------------------------------------------
(* Forced sections.  That the first row with the id is due is not          *)
(* inductive: a copy that is not due could still be assigned to it.  The   *)
(* invariant says of all copies under way that they are due as well, or    *)
(* that the update will go to another row, the id being in the list twice. *)

DueFirst(rows, f) ==
  \A i \in 1..Len(rows), s \in SectionSet :
     <<rows[i].id, s>> \in f /\ IsFirstMatch(rows, i, rows[i].id) => rows[i].until[s] = 0

Twice(rows, id) == \E i, j \in Matches(rows, id) : i # j

InFlight == {a \in Alive : \A i \in 1..Len(roster) : roster[i] # a}

ForcedCopiesDue ==
  \A a \in InFlight, s \in SectionSet :
     <<heap[a].id, s>> \in forced => heap[a].until[s] = 0 \/ Twice(RosterRows, heap[a].id)

ForcedInv == DueFirst(RosterRows, forced) /\ ForcedCopiesDue

LEMMA ForcedInvShows == IInv => (DueFirst(RosterRows, forced) <=> ForceNotForgotten)
  BY RosterType DEF DueFirst, ForceNotForgotten, RosterShape

LEMMA DueAppended ==
  ASSUME NEW rows \in Seq(Row), NEW f, NEW new \in Ids, DueFirst(rows, f)
  PROVE  /\ DueFirst(Append(rows, NewRow(new)), f)
         /\ \A id : Twice(rows, id) => Twice(Append(rows, NewRow(new)), id)
<1> DEFINE app == Append(rows, NewRow(new))
<1>1. /\ Len(rows) \in Nat /\ Len(app) = Len(rows) + 1
      /\ \A i \in 1..Len(rows) : app[i] = rows[i]
      /\ app[Len(rows) + 1] = NewRow(new)
  BY NewRowType, AppendProperties
<1> HIDE DEF app
<1>2. \A id : Matches(rows, id) \subseteq Matches(app, id)
  BY <1>1 DEF Matches
<1>3. ASSUME NEW i \in 1..Len(app), NEW s \in SectionSet,
             <<app[i].id, s>> \in f, IsFirstMatch(app, i, app[i].id)
      PROVE  app[i].until[s] = 0
  <2>1. CASE i = Len(rows) + 1
    BY <1>1, <2>1 DEF NewRow
  <2>2. CASE i \in 1..Len(rows)
    <3>1. app[i] = rows[i] /\ i \in Matches(rows, rows[i].id)
      BY <1>1, <2>2 DEF Matches
    <3>2. IsFirstMatch(rows, i, rows[i].id)
      BY <1>2, <1>3, <3>1 DEF IsFirstMatch
    <3>3. QED
      BY <1>3, <2>2, <3>1, <3>2 DEF DueFirst
  <2>3. QED
    BY <1>1, <2>1, <2>2
<1>4. QED
  BY <1>2, <1>3 DEF DueFirst, Twice, app

(* The removal takes out the first row with the id, and forgets its forced *)
(* sections; the rows of the other ids keep their order.                   *)
LEMMA DueRemoved ==
  ASSUME NEW rows \in Seq(Row), NEW f, NEW i \in 1..Len(rows), NEW out,
         IsFirstMatch(rows, i, out), DueFirst(rows, f)
  PROVE  /\ DueFirst(WithoutIndex(rows, i), {g \in f : g[1] # out})
         /\ \A id : id # out /\ Twice(rows, id) => Twice(WithoutIndex(rows, i), id)
<1> DEFINE new == WithoutIndex(rows, i)
           kept == {g \in f : g[1] # out}
<1>1. /\ Len(rows) \in Nat /\ Len(new) = Len(rows) - 1
      /\ \A j \in 1..(Len(rows) - 1) : new[j] = IF j < i THEN rows[j] ELSE rows[j + 1]
      /\ rows[i].id = out
  <2>1. Len(rows) \in Nat /\ rows[i].id = out
    BY DEF IsFirstMatch, Matches
  <2>2. /\ Len(new) = Len(rows) - 1
        /\ \A j \in 1..(Len(rows) - 1) : new[j] = IF j < i THEN rows[j] ELSE rows[j + 1]
    BY WithoutIndexType, Zenon
  <2>3. QED
    BY <2>1, <2>2
<1> HIDE DEF new
<1>2. ASSUME NEW k \in 1..Len(rows), k # i
      PROVE  \E j \in 1..Len(new) : /\ new[j] = rows[k]
                                    /\ j = IF k < i THEN k ELSE k - 1
  <2>1. CASE k < i
    BY <1>1, <2>1
  <2>2. CASE k > i
    <3>1. k - 1 \in 1..Len(new) /\ ~(k - 1 < i) /\ (k - 1) + 1 = k
      BY <1>1, <2>2
    <3>2. new[k - 1] = rows[k]
      BY <1>1, <3>1
    <3>3. QED
      BY <2>2, <3>1, <3>2
  <2>3. QED
    BY <1>1, <1>2, <2>1, <2>2
<1>3. ASSUME NEW j \in 1..Len(new), NEW s \in SectionSet,
             <<new[j].id, s>> \in kept, IsFirstMatch(new, j, new[j].id)
      PROVE  new[j].until[s] = 0
  <2>1. PICK k \in 1..Len(rows) : k = IF j < i THEN j ELSE j + 1
    BY <1>1
  <2>2. new[j] = rows[k]
    BY <1>1, <2>1
  <2>3. rows[k].id # out
    BY <1>3, <2>2
  <2>4. ASSUME NEW l \in Matches(rows, rows[k].id) PROVE k <= l
    <3>1. l \in 1..Len(rows) /\ rows[l].id = rows[k].id /\ l # i
      BY <1>1, <2>3, <2>4 DEF Matches
    <3>2. PICK m \in 1..Len(new) : new[m] = rows[l] /\ m = IF l < i THEN l ELSE l - 1
      BY <1>2, <3>1
    <3>3. m \in Matches(new, new[j].id)
      BY <2>2, <3>1, <3>2 DEF Matches
    <3>4. j <= m
      BY <1>3, <3>3 DEF IsFirstMatch
    <3>5. QED
      BY <1>1, <2>1, <3>1, <3>2, <3>4
  <2>5. IsFirstMatch(rows, k, rows[k].id)
    BY <2>4 DEF IsFirstMatch, Matches
  <2>6. <<rows[k].id, s>> \in f
    BY <1>3, <2>2
  <2>7. QED
    BY <2>2, <2>5, <2>6 DEF DueFirst
<1>4. ASSUME NEW id, id # out, Twice(rows, id)
      PROVE  Twice(new, id)
  <2>1. PICK k \in 1..Len(rows), l \in 1..Len(rows) :
           rows[k].id = id /\ rows[l].id = id /\ k # l
    BY <1>4 DEF Twice, Matches
  <2>2. k # i /\ l # i
    BY <1>1, <1>4, <2>1
  <2>3. PICK m \in 1..Len(new) : new[m] = rows[k] /\ m = IF k < i THEN k ELSE k - 1
    BY <1>2, <2>2
  <2>4. PICK n \in 1..Len(new) : new[n] = rows[l] /\ n = IF l < i THEN l ELSE l - 1
    BY <1>2, <2>2
  <2>5. m # n
    BY <2>1, <2>2, <2>3, <2>4
  <2>6. QED
    BY <2>1, <2>3, <2>4, <2>5 DEF Twice, Matches
<1>5. QED
  BY <1>3, <1>4 DEF DueFirst, new

LEMMA TwiceKept ==
  ASSUME NEW rows \in Seq(Row), NEW i \in 1..Len(rows), NEW row \in Row, row.id = rows[i].id
  PROVE  \A id : Twice(rows, id) => Twice([rows EXCEPT ![i] = row], id)
<1>1. \A id : Matches([rows EXCEPT ![i] = row], id) = Matches(rows, id)
  BY SameMatches, Zenon
<1>2. QED
  BY <1>1 DEF Twice

(* An update goes to the last row with the id.                             *)
LEMMA DueReplaced ==
  ASSUME NEW rows \in Seq(Row), NEW f, NEW i \in 1..Len(rows), NEW row \in Row,
         row.id = rows[i].id, IsLastMatch(rows, i, rows[i].id), DueFirst(rows, f),
         \A s \in SectionSet : <<row.id, s>> \in f => row.until[s] = 0 \/ Twice(rows, row.id)
  PROVE  DueFirst([rows EXCEPT ![i] = row], f)
<1> DEFINE new == [rows EXCEPT ![i] = row]
<1>1. /\ Len(new) = Len(rows)
      /\ \A j \in 1..Len(rows) : new[j] = IF j = i THEN row ELSE rows[j]
      /\ \A j \in 1..Len(rows) : new[j].id = rows[j].id
      /\ \A id : Matches(new, id) = Matches(rows, id)
  BY SameMatches, SMTT(30)
<1> HIDE DEF new
<1>2. ASSUME NEW j \in 1..Len(new), NEW s \in SectionSet,
             <<new[j].id, s>> \in f, IsFirstMatch(new, j, new[j].id)
      PROVE  new[j].until[s] = 0
  <2>1. IsFirstMatch(rows, j, rows[j].id) /\ <<rows[j].id, s>> \in f
    BY <1>1, <1>2 DEF IsFirstMatch
  <2>2. CASE j # i
    BY <1>1, <2>1, <2>2 DEF DueFirst
  <2>3. CASE j = i
    <3>1. ~ Twice(rows, row.id)
      <4>1. SUFFICES ASSUME NEW k \in Matches(rows, row.id) PROVE k = i
        BY DEF Twice
      <4>2. k <= i /\ i <= k /\ k \in Int
        BY <2>1, <2>3 DEF IsFirstMatch, IsLastMatch, Matches
      <4>3. QED
        BY <4>2
    <3>2. QED
      BY <1>1, <2>1, <2>3, <3>1
  <2>4. QED
    BY <2>2, <2>3
<1>3. QED
  BY <1>2 DEF DueFirst, new

(* A forced refresh resets the first row with the id.                      *)
LEMMA DueReset ==
  ASSUME NEW rows \in Seq(Row), NEW f, NEW g, NEW i \in 1..Len(rows), NEW s \in SectionSet,
         IsFirstMatch(rows, i, rows[i].id), DueFirst(rows, f),
         g \subseteq f \cup {<<rows[i].id, s>>}
  PROVE  DueFirst([rows EXCEPT ![i] = ResetTs(rows[i], s)], g)
<1> DEFINE row == ResetTs(rows[i], s)
           new == [rows EXCEPT ![i] = row]
<1>0. rows[i] \in Row
  OBVIOUS
<1>1. /\ row \in Row /\ row.id = rows[i].id
      /\ \A t \in SectionSet : row.until[t] = IF t = s THEN 0 ELSE rows[i].until[t]
  BY <1>0, ResetRow
<1> HIDE DEF row
<1>2. /\ Len(new) = Len(rows)
      /\ \A j \in 1..Len(rows) : new[j] = IF j = i THEN row ELSE rows[j]
      /\ \A j \in 1..Len(rows) : new[j].id = rows[j].id
      /\ \A id : Matches(new, id) = Matches(rows, id)
  BY <1>1, SameMatches
<1> HIDE DEF new
<1>3. ASSUME NEW j \in 1..Len(new), NEW t \in SectionSet,
             <<new[j].id, t>> \in g, IsFirstMatch(new, j, new[j].id)
      PROVE  new[j].until[t] = 0
  <2>1. IsFirstMatch(rows, j, rows[j].id) /\ j \in 1..Len(rows)
    BY <1>2, <1>3 DEF IsFirstMatch
  <2>2. CASE <<rows[j].id, t>> \in f
    <3>1. rows[j].until[t] = 0
      BY <2>1, <2>2 DEF DueFirst
    <3>2. QED
      BY <1>1, <1>2, <2>1, <3>1
  <2>3. CASE <<rows[j].id, t>> = <<rows[i].id, s>>
    <3>1. rows[j].id = rows[i].id /\ t = s
      BY <2>3
    <3>2. j <= i /\ i <= j
      BY <2>1, <3>1 DEF IsFirstMatch
    <3>3. j = i
      BY <2>1, <3>2
    <3>4. QED
      BY <1>1, <1>2, <2>1, <3>1, <3>3
  <2>4. QED
    BY <1>2, <1>3, <2>1, <2>2, <2>3
<1>4. QED
  BY <1>3 DEF DueFirst, new, row


(* The steps that leave the list and the forced sections as they were, and *)
(* only copy or delete copies.                                             *)
LEMMA SameForced ==
  ASSUME ForcedInv, RosterRows' = RosterRows, forced' \subseteq forced,
         \A a \in InFlight', s \in SectionSet :
            <<heap'[a].id, s>> \in forced'
              => heap'[a].until[s] = 0 \/ Twice(RosterRows, heap'[a].id)
  PROVE  ForcedInv'
<1>1. DueFirst(RosterRows, forced')
  BY DEF ForcedInv, DueFirst
<1>2. DueFirst(RosterRows', forced')
  BY <1>1
<1>3. ForcedCopiesDue'
  BY DEF ForcedCopiesDue
<1>4. QED
  BY <1>2, <1>3 DEF ForcedInv

(* A character that is in nobody's list was copied, or held before.        *)
LEMMA RowIsDue ==
  ASSUME IInv, ForcedInv, NEW i \in 1..Len(roster), NEW s \in SectionSet,
         <<RosterRows[i].id, s>> \in forced
  PROVE  RosterRows[i].until[s] = 0 \/ Twice(RosterRows, RosterRows[i].id)
<1>1. Len(RosterRows) = Len(roster) /\ Len(RosterRows) \in Nat
  BY RosterType DEF RosterShape
<1>2. PICK k \in 1..Len(RosterRows) : IsFirstMatch(RosterRows, k, RosterRows[i].id)
  BY <1>1, FirstAndLastMatch
<1>3. RosterRows[k].id = RosterRows[i].id
  BY <1>2 DEF IsFirstMatch, Matches
<1>4. CASE k = i
  BY <1>2, <1>3, <1>4 DEF ForcedInv, DueFirst
<1>5. CASE k # i
  BY <1>1, <1>3, <1>5 DEF Twice, Matches
<1>6. QED
  BY <1>4, <1>5

LEMMA ForcedLogin ==
  ASSUME IInv, ForcedInv, NEW id \in Ids, Login(id)
  PROVE  ForcedInv'
<1>1. RosterRows' = Append(RosterRows, NewRow(id)) /\ RosterRows \in Seq(Row)
  BY LoginRows, RosterType DEF RosterShape
<1>2. PICK objects \in Allocated(1) : /\ heap'   = [heap EXCEPT ![objects[1]] = NewRow(id)]
                                      /\ roster' = Append(roster, objects[1])
  BY Zenon DEF Login
<1>3. objects[1] \in Addrs /\ roster \in Seq(Addrs) /\ forced' = forced
  BY DEF Allocated, FreeAddrs, IInv, TypeOK, Login
<1>4. /\ Len(roster) \in Nat /\ Len(roster') = Len(roster) + 1
      /\ \A i \in 1..Len(roster) : roster'[i] = roster[i]
      /\ roster'[Len(roster) + 1] = objects[1]
  BY <1>2, <1>3, AppendProperties
<1>5. ASSUME NEW a \in InFlight' PROVE a \in InFlight /\ heap'[a] = heap[a]
  <2>1. a # objects[1] /\ a \in Addrs /\ heap'[a] # Freed /\ \A i \in 1..Len(roster) : roster[i] # a
    <3>1. a \in Addrs /\ heap'[a] # Freed /\ \A i \in 1..Len(roster') : roster'[i] # a
      BY <1>5 DEF InFlight, Alive, Addrs, Freed, NewRow
    <3>2. Len(roster) + 1 \in 1..Len(roster') /\ 1..Len(roster) \subseteq 1..Len(roster')
      BY <1>4
    <3>3. QED
      BY <1>4, <3>1, <3>2
  <2>2. QED
    BY <1>2, <1>3, <2>1 DEF InFlight, Alive, IInv, TypeOK
<1>6. DueFirst(RosterRows', forced') /\ \A x : Twice(RosterRows, x) => Twice(RosterRows', x)
  BY <1>1, <1>3, DueAppended DEF ForcedInv
<1>7. ForcedCopiesDue'
  BY <1>3, <1>5, <1>6 DEF ForcedInv, ForcedCopiesDue
<1>8. QED
  BY <1>6, <1>7 DEF ForcedInv

LEMMA ForcedRemoval ==
  ASSUME IInv, ForcedInv, NEW id \in Ids, RemoveCharacter(id)
  PROVE  ForcedInv'
<1>0. RosterRows \in Seq(Row) /\ forced' = {f \in forced : f[1] # id}
  BY RosterType DEF RosterShape, RemoveCharacter
<1>1. PICK k \in 1..Len(RosterRows) : /\ IsFirstMatch(RosterRows, k, id)
                                      /\ RosterRows' = WithoutIndex(RosterRows, k)
  BY RemoveRows
<1>2. /\ DueFirst(RosterRows', forced')
      /\ \A x : x # id /\ Twice(RosterRows, x) => Twice(RosterRows', x)
  BY <1>0, <1>1, DueRemoved DEF ForcedInv
<1>3. PICK i \in 1..Len(roster) : /\ roster' = WithoutIndex(roster, i)
                                  /\ heap' = [heap EXCEPT ![roster[i]] = Freed]
  BY Zenon DEF RemoveCharacter
<1>4. roster \in Seq(Addrs) /\ roster[i] \in Addrs
  BY DEF IInv, TypeOK
<1>5. Alive' = Alive \ {roster[i]} /\ \A b \in Alive \ {roster[i]} : heap'[b] = heap[b]
  BY <1>3, <1>4, DeleteObject DEF IInv
<1>6. /\ Len(roster') = Len(roster) - 1
      /\ \A j \in 1..(Len(roster) - 1) :
            roster'[j] = IF j < i THEN roster[j] ELSE roster[j + 1]
  BY <1>3, <1>4, WithoutIndexType
<1>7. ASSUME NEW a \in InFlight' PROVE a \in InFlight /\ heap'[a] = heap[a]
  <2>1. a \in Alive \ {roster[i]} /\ \A j \in 1..Len(roster') : roster'[j] # a
    BY <1>5, <1>7 DEF InFlight
  <2>2. ASSUME NEW j \in 1..Len(roster) PROVE roster[j] # a
    <3>1. CASE j < i
      <4>1. j \in 1..Len(roster') /\ roster'[j] = roster[j]
        BY <1>4, <1>6, <3>1
      <4>2. QED
        BY <2>1, <4>1
    <3>2. CASE j = i
      BY <2>1, <3>2
    <3>3. CASE j > i
      <4>1. j - 1 \in 1..Len(roster') /\ roster'[j - 1] = roster[j]
        BY <1>4, <1>6, <3>3
      <4>2. QED
        BY <2>1, <4>1
    <3>4. QED
      BY <1>4, <3>1, <3>2, <3>3
  <2>3. QED
    BY <1>5, <2>1, <2>2 DEF InFlight
<1>8. ForcedCopiesDue'
  <2> SUFFICES ASSUME NEW a \in InFlight', NEW s \in SectionSet, <<heap'[a].id, s>> \in forced'
               PROVE  heap'[a].until[s] = 0 \/ Twice(RosterRows', heap'[a].id)
    BY DEF ForcedCopiesDue
  <2>1. a \in InFlight /\ heap'[a] = heap[a]
    BY <1>7
  <2>2. <<heap[a].id, s>> \in forced /\ heap[a].id # id
    BY <1>0, <2>1
  <2>3. heap[a].until[s] = 0 \/ Twice(RosterRows, heap[a].id)
    BY <2>1, <2>2 DEF ForcedInv, ForcedCopiesDue
  <2>4. QED
    BY <1>2, <2>1, <2>2, <2>3
<1>9. QED
  BY <1>2, <1>8 DEF ForcedInv

LEMMA ForcedUpdate ==
  ASSUME IInv, ForcedInv, UpdateCharacter
  PROVE  ForcedInv'
<1> DEFINE a == Head(mainQueue).object
<1>0. RosterRows \in Seq(Row) /\ UNCHANGED <<roster, forced>>
  BY RosterType DEF RosterShape, UpdateCharacter
<1>1. a \in HeldByQueue /\ heap[a] \in Row /\ a \in InFlight /\ a \in Addrs
  <2>1. a \in HeldByQueue /\ heap[a] \in Row
    BY UpdateRows
  <2>2. QED
    BY <2>1 DEF InFlight, IInv, OneOwner, HeldByRoster, Alive
<1> HIDE DEF a
<1>2. ASSUME NEW b \in InFlight' PROVE b \in InFlight /\ heap'[b] = heap[b]
  <2>1. b \in Addrs /\ heap'[b] # Freed /\ \A i \in 1..Len(roster) : roster[i] # b
    BY <1>0, <1>2 DEF InFlight, Alive, Addrs, Freed, NewRow
  <2>2. heap'[b] = heap[b]
    <3>1. CASE DiscardUpdate(a)
      BY <1>1, <2>1, <3>1 DEF DiscardUpdate, IInv, TypeOK
    <3>2. ASSUME NEW i \in 1..Len(roster), AssignUpdate(i, a) PROVE heap'[b] = heap[b]
      <4>1. heap' = [heap EXCEPT ![roster[i]] = heap[a], ![a] = Freed] /\ roster[i] \in Addrs
        BY <3>2 DEF AssignUpdate, IInv, TypeOK
      <4>2. QED
        BY <1>1, <2>1, <4>1 DEF IInv, TypeOK
    <3>3. DiscardUpdate(a) \/ \E i \in 1..Len(roster) : AssignUpdate(i, a)
      BY DEF UpdateCharacter, a
    <3>4. QED
      BY <3>1, <3>2, <3>3
  <2>3. QED
    BY <2>1, <2>2 DEF InFlight, Alive
<1>3. CASE UNCHANGED RosterRows
  BY <1>0, <1>2, <1>3, SameForced DEF ForcedInv, ForcedCopiesDue
<1>4. ASSUME NEW i \in 1..Len(roster), IsLastMatch(RosterRows, i, RosterRows[i].id),
             heap[a].id = RosterRows[i].id,
             RosterRows' = [RosterRows EXCEPT ![i] = heap[a]]
      PROVE  ForcedInv'
  <2>1. \A s \in SectionSet : <<heap[a].id, s>> \in forced
                                => heap[a].until[s] = 0 \/ Twice(RosterRows, heap[a].id)
    BY <1>1 DEF ForcedInv, ForcedCopiesDue
  <2>2. i \in 1..Len(RosterRows)
    BY RosterType DEF RosterShape
  <2>3. DueFirst(RosterRows', forced')
    BY <1>0, <1>1, <1>4, <2>1, <2>2, DueReplaced DEF ForcedInv
  <2>4. \A x : Twice(RosterRows, x) => Twice(RosterRows', x)
    BY <1>0, <1>1, <1>4, <2>2, TwiceKept
  <2>5. ForcedCopiesDue'
    BY <1>0, <1>2, <2>4 DEF ForcedInv, ForcedCopiesDue
  <2>6. QED
    BY <2>3, <2>5 DEF ForcedInv
<1>5. QED
  BY <1>3, <1>4, UpdateRows DEF a

LEMMA ForcedForce ==
  ASSUME IInv, ForcedInv, NEW i \in 1..Len(roster), NEW s \in SectionSet, ForceSection(i, s)
  PROVE  ForcedInv'
<1> DEFINE pair == <<RosterRows[i].id, s>>
<1>0. /\ RosterRows \in Seq(Row) /\ i \in 1..Len(RosterRows) /\ roster[i] \in Alive
      /\ RosterRows[i] = heap[roster[i]] /\ RosterRows[i] \in Row
  BY RosterType, OwnedAreRows DEF RosterShape, IInv
<1>1. /\ RosterRows' = [RosterRows EXCEPT ![i] = ResetTs(RosterRows[i], s)]
      /\ IsFirstMatch(RosterRows, i, RosterRows[i].id)
      /\ UNCHANGED roster
      /\ heap' = [heap EXCEPT ![roster[i]] = ResetTs(heap[roster[i]], s)]
      /\ forced' = IF CopyInFlight(RosterRows[i].id) THEN forced ELSE forced \cup {pair}
  BY ForceRows DEF ForceSection
<1>2. ResetTs(RosterRows[i], s) \in Row /\ ResetTs(RosterRows[i], s).id = RosterRows[i].id
  BY <1>0, ResetRow
<1>3. DueFirst(RosterRows', forced')
  <2>1. forced' \subseteq forced \cup {<<RosterRows[i].id, s>>}
    BY <1>1
  <2>2. DueFirst([RosterRows EXCEPT ![i] = ResetTs(RosterRows[i], s)], forced')
    BY <1>0, <1>1, <2>1, DueReset DEF ForcedInv
  <2>3. QED
    BY <1>1, <2>2
<1>4. \A x : Twice(RosterRows, x) => Twice(RosterRows', x)
  BY <1>0, <1>1, <1>2, TwiceKept
<1>5. Alive' = Alive /\ \A b \in Alive \ {roster[i]} : heap'[b] = heap[b]
  BY <1>0, <1>1, <1>2, WriteObject DEF IInv
<1>6. \A b \in InFlight' : b \in InFlight /\ heap'[b] = heap[b]
  BY <1>1, <1>5 DEF InFlight
<1>7. ASSUME NEW b \in InFlight, NEW t \in SectionSet, <<heap[b].id, t>> \in forced'
      PROVE  <<heap[b].id, t>> \in forced
  <2>1. CASE CopyInFlight(RosterRows[i].id)
    BY <1>1, <1>7, <2>1
  <2>2. CASE ~ CopyInFlight(RosterRows[i].id)
    <3>1. heap[b].id # RosterRows[i].id
      BY <2>2 DEF CopyInFlight, InFlight
    <3>2. QED
      BY <1>1, <1>7, <2>2, <3>1
  <2>3. QED
    BY <2>1, <2>2
<1>8. ForcedCopiesDue'
  BY <1>4, <1>6, <1>7 DEF ForcedInv, ForcedCopiesDue
<1>9. QED
  BY <1>3, <1>8 DEF ForcedInv

LEMMA ForcedCopy ==
  ASSUME IInv, ForcedInv, CopyCharacters
  PROVE  ForcedInv'
<1>0. UNCHANGED <<roster, forced, RosterRows>> /\ Len(RosterRows) = Len(roster)
  BY WorkerRows, RosterType DEF WorkerStep, RefreshProgress, CopyCharacters, RosterShape
<1>1. PICK objects \in Allocated(Len(roster)) :
         heap' = [a \in Addrs |->
                    IF \E i \in 1..Len(roster) : objects[i] = a
                    THEN RosterRows[CHOOSE i \in 1..Len(roster) : objects[i] = a]
                    ELSE heap[a]]
  BY Zenon DEF CopyCharacters
<1>2. ASSUME NEW a \in InFlight', NEW s \in SectionSet, <<heap'[a].id, s>> \in forced'
      PROVE  heap'[a].until[s] = 0 \/ Twice(RosterRows, heap'[a].id)
  <2>1. a \in Addrs /\ heap'[a] # Freed /\ \A i \in 1..Len(roster) : roster[i] # a
    BY <1>0, <1>2 DEF InFlight, Alive, Addrs, Freed, NewRow
  <2>2. CASE \E i \in 1..Len(roster) : objects[i] = a
    <3>1. PICK i \in 1..Len(roster) : heap'[a] = RosterRows[i]
      <4>1. (CHOOSE i \in 1..Len(roster) : objects[i] = a) \in 1..Len(roster)
        BY <2>2
      <4>2. QED
        BY <1>1, <2>1, <2>2, <4>1
    <3>2. QED
      BY <1>0, <1>2, <3>1, RowIsDue
  <2>3. CASE ~ \E i \in 1..Len(roster) : objects[i] = a
    <3>1. heap'[a] = heap[a]
      BY <1>1, <2>1, <2>3
    <3>2. a \in InFlight
      BY <2>1, <3>1 DEF InFlight, Alive
    <3>3. QED
      BY <1>0, <1>2, <3>1, <3>2 DEF ForcedInv, ForcedCopiesDue
  <2>4. QED
    BY <2>2, <2>3
<1>3. QED
  BY <1>0, <1>2, SameForced

LEMMA ForcedSection ==
  ASSUME IInv, ForcedInv, NEW s \in SectionSet, NEW o \in Outcomes[s],
         Sections[Top.sec] = s, RefreshSection(o)
  PROVE  ForcedInv'
<1> DEFINE c == CurrentCopy
<1>0. UNCHANGED <<roster, RosterRows>>
  <2>1. o \in UNION {Outcomes[t] : t \in SectionSet}
    OBVIOUS
  <2>2. WorkerStep
    BY <2>1 DEF WorkerStep, RefreshProgress
  <2>3. QED
    BY <2>2, WorkerRows
<1>1. c \in Alive /\ heap[c] \in Row /\ now \in Nat
  BY CurrentIsHeld, OwnedAreRows DEF RefreshSection, SectionDue, IInv, TypeOK
<1>2. /\ heap' = [heap EXCEPT ![c] = ApplyOutcome(heap[c], s, o, now)]
      /\ forced' = IF Honoured(s, o) THEN forced \ {<<heap[c].id, s>>} ELSE forced
  BY DEF RefreshSection
<1> DEFINE new == ApplyOutcome(heap[c], s, o, now)
<1>3. new \in Row /\ new.id = heap[c].id
  BY <1>1, ApplyOutcomeType
<1>4. \A t \in SectionSet :
         new.until[t] = IF t = s /\ o.stamped THEN now + Ttl(s) ELSE heap[c].until[t]
  BY <1>1, ApplyOutcomeFields
<1> HIDE DEF c, new
<1>5. Alive' = Alive /\ \A b \in Alive : heap'[b] = IF b = c THEN new ELSE heap[b]
  <2>1. heap' = [heap EXCEPT ![c] = new]
    BY <1>2 DEF new
  <2>2. QED
    BY <1>1, <1>3, <2>1, WriteObject DEF IInv
<1>6. ASSUME NEW a \in InFlight', NEW t \in SectionSet, <<heap'[a].id, t>> \in forced'
      PROVE  heap'[a].until[t] = 0 \/ Twice(RosterRows, heap'[a].id)
  <2>1. a \in InFlight /\ a \in Alive /\ heap'[a].id = heap[a].id
    BY <1>0, <1>3, <1>5, <1>6 DEF InFlight
  <2>2. <<heap[a].id, t>> \in forced
    BY <1>2, <1>6, <2>1
  <2>3. heap'[a].until[t] = heap[a].until[t]
    <3>1. CASE a = c
      <4>1. ~ (t = s /\ Honoured(s, o))
        BY <1>2, <1>6, <2>1, <3>1
      <4>2. o.stamped => Honoured(s, o)
        BY SectionsAssumption, StampedWrote DEF Honoured, SectionSet
      <4>3. QED
        BY <1>4, <1>5, <2>1, <3>1, <4>1, <4>2
    <3>2. CASE a # c
      BY <1>5, <2>1, <3>2
    <3>3. QED
      BY <3>1, <3>2
  <2>4. QED
    BY <2>1, <2>2, <2>3 DEF ForcedInv, ForcedCopiesDue
<1>7. forced' \subseteq forced
  BY <1>2
<1>8. QED
  BY <1>0, <1>6, <1>7, SameForced

LEMMA ForcedDelete ==
  ASSUME IInv, ForcedInv, DeleteCopy
  PROVE  ForcedInv'
<1>0. UNCHANGED <<roster, forced, RosterRows>>
  BY WorkerRows DEF WorkerStep, RefreshProgress, DeleteCopy
<1>1. CurrentCopy \in Addrs /\ heap' = [heap EXCEPT ![CurrentCopy] = Freed]
  BY CurrentIsHeld DEF DeleteCopy, SectionsDone, Alive
<1>2. Alive' = Alive \ {CurrentCopy} /\ \A b \in Alive \ {CurrentCopy} : heap'[b] = heap[b]
  BY <1>1, DeleteObject DEF IInv
<1>3. \A a \in InFlight' : a \in InFlight /\ heap'[a] = heap[a]
  BY <1>0, <1>2 DEF InFlight
<1>4. QED
  BY <1>0, <1>3, SameForced DEF ForcedInv, ForcedCopiesDue

LEMMA ForcedStep == IInv /\ ForcedInv /\ [Next]_vars => ForcedInv'
<1> SUFFICES ASSUME IInv, ForcedInv, [Next]_vars PROVE ForcedInv'
  OBVIOUS
<1>1. CASE Restart
  <2>1. forced' = {}
    BY <1>1 DEF Restart
  <2>2. QED
    BY <2>1 DEF ForcedInv, DueFirst, ForcedCopiesDue
<1>2. ASSUME NEW o, RefreshSection(o)
      PROVE  ForcedInv'
  <2>1. Sections[Top.sec] \in SectionSet
    <3>1. Top.sec \in 1..Len(Sections)
      BY <1>2, TopFrame, SectionsAssumption DEF RefreshSection, SectionDue, Frame, IInv
    <3>2. QED
      BY <3>1 DEF SectionSet
  <2>2. QED
    BY <1>2, <2>1, ForcedSection DEF RefreshSection
<1>3. CASE UNCHANGED <<heap, roster, forced>>
  <2>1. RosterRows' = RosterRows /\ InFlight' = InFlight
    BY <1>3 DEF RosterRows, Rows, InFlight, Alive
  <2>2. QED
    BY <1>3, <2>1, SameForced DEF ForcedInv, ForcedCopiesDue
<1>4. \/ \E id \in Ids : Login(id) \/ RemoveCharacter(id)
      \/ UpdateCharacter
      \/ \E i \in 1..Len(roster), s \in SectionSet : ForceSection(i, s)
      \/ Restart \/ CopyCharacters \/ DeleteCopy
      \/ \E o \in UNION {Outcomes[s] : s \in SectionSet} : RefreshSection(o)
      \/ UNCHANGED <<heap, roster, forced>>
  BY DEF Next, MainStep, WorkerStep, RefreshProgress, RefreshNewCharacter, RequestRefresh,
     RequestInterruption, QuitThread, BeginRefresh, SkipRefresh, ServerStatus, SkipSection,
     HandOver, ClearActive, EndRefresh, ThreadEnds, Tick, Ended, vars
<1>5. QED
  BY <1>1, <1>2, <1>3, <1>4, ForcedLogin, ForcedRemoval, ForcedUpdate, ForcedForce, ForcedCopy,
     ForcedDelete

(* What the user forced while no copy was under way is not lost: however   *)
(* many copies of the character come back late, and wherever they are      *)
(* written when an id is listed twice, the section stays due until a       *)
(* refresh has fetched some of it; SKILLS, which is stamped when its three *)
(* requests failed, only until a refresh has asked for it.                 *)
THEOREM ForcedStaysDue == Spec => []ForceNotForgotten
<1>1. Init => ForcedInv
  <2>1. SUFFICES ASSUME Init PROVE forced = {}
    BY DEF ForcedInv, DueFirst, ForcedCopiesDue
  <2>2. QED
    BY <2>1 DEF Init
<1>2. IInv /\ ForcedInv /\ [Next]_vars => ForcedInv'
  BY ForcedStep
<1>3. IInv /\ ForcedInv => ForceNotForgotten
  BY ForcedInvShows DEF ForcedInv
<1>4. QED
  BY <1>1, <1>2, <1>3, Invariant, PTL DEF Spec

=============================================================================
