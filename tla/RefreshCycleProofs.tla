------------------------- MODULE RefreshCycleProofs -------------------------
(***************************************************************************)
(* Proofs about RefreshCycle: its types, the ownership of the character    *)
(* objects and the refresh indicator, for all ids, sections and bounds.    *)
(***************************************************************************)
EXTENDS RefreshCycle, SequenceTheorems, TLAPS

-----------------------------------------------------------------------------
(* Facts about the constants and the operators on rows.                    *)

LEMMA FreedIsNoRow == Freed \notin Row
  BY IdsAssumption DEF Freed, NewRow, Row

LEMMA NewRowType == \A id \in Ids : NewRow(id) \in Row
  BY DEF NewRow, Row

LEMMA SectionSetType == SectionSet \subseteq Kinds
  BY SectionsAssumption DEF SectionSet

LEMMA TtlType == \A s \in SectionSet : Ttl(s) \in Nat
<1> SUFFICES ASSUME NEW s \in SectionSet PROVE Ttl(s) \in Nat
  OBVIOUS
<1>1. s \in Kinds
  BY SectionSetType
<1>2. Kinds = {"PUBLIC", "SKILLS", "LOCATION", "CLONES", "FATIGUE", "WALLET",
               "WALLET_JOURNAL", "MAIL", "NOTIFICATIONS", "ASSETS"}
  BY DEF Kinds, RefreshOrder
<1>3. CacheSeconds[s] \in {3600, 600, 300, 120, 60}
  BY <1>1, <1>2 DEF CacheSeconds
<1>4. \A n \in Nat : n \div 60 \in Nat
  OBVIOUS
<1>5. QED
  BY <1>3, <1>4 DEF Ttl

LEMMA ResetTsType == \A row \in Row, s \in SectionSet : ResetTs(row, s) \in Row
  BY DEF ResetTs, Row

LEMMA ApplyOutcomeType ==
  \A row \in Row, s \in SectionSet, time \in Nat :
     \A o : ApplyOutcome(row, s, o, time) \in Row /\ ApplyOutcome(row, s, o, time).id = row.id
<1> SUFFICES ASSUME NEW row \in Row, NEW s \in SectionSet, NEW time \in Nat, NEW o
             PROVE  /\ ApplyOutcome(row, s, o, time) \in Row
                    /\ ApplyOutcome(row, s, o, time).id = row.id
  OBVIOUS
<1>1. time + Ttl(s) \in Nat
  BY TtlType
<1>2. QED
  BY <1>1 DEF ApplyOutcome, Row

LEMMA WithoutIndexType ==
  ASSUME NEW S, NEW seq \in Seq(S), NEW i \in 1..Len(seq)
  PROVE  /\ WithoutIndex(seq, i) \in Seq(S)
         /\ Len(WithoutIndex(seq, i)) = Len(seq) - 1
         /\ \A j \in 1..(Len(seq) - 1) :
               WithoutIndex(seq, i)[j] = IF j < i THEN seq[j] ELSE seq[j + 1]
<1>1. Len(seq) - 1 \in Nat
  OBVIOUS
<1>2. \A j \in 1..(Len(seq) - 1) : (IF j < i THEN seq[j] ELSE seq[j + 1]) \in S
  OBVIOUS
<1>3. WithoutIndex(seq, i) \in [1..(Len(seq) - 1) -> S]
  BY <1>2 DEF WithoutIndex
<1>4. QED
  BY <1>1, <1>3, SeqDef DEF WithoutIndex

LEMMA SaveCharactersType ==
  ASSUME NEW rows, \A i \in 1..Len(rows) : rows[i] \in Row
  PROVE  SaveCharacters(rows) \subseteq Row
  BY DEF SaveCharacters

(* A sequence with one element after this element is replaced.             *)
LEMMA ReplaceSingle ==
  ASSUME NEW S, NEW s \in Seq(S), Len(s) = 1, NEW f \in S,
         NEW t, t = [s EXCEPT ![Len(s)] = f]
  PROVE  t \in Seq(S) /\ Len(t) = 1 /\ t[Len(t)] = f /\ t # <<>>
  BY ExceptSeq, EmptySeq

-----------------------------------------------------------------------------
(* The inductive invariant.  FrameShape says where refresh() is in its list *)
(* of copies; it may leave the loop early only when the thread is stopping. *)
FrameShape ==
  stack # <<>> =>
    /\ Top.at \in {"status", "copy"} => Top.copies = <<>> /\ Top.cur = 1
    /\ Top.at = "section" => Top.cur <= Len(Top.copies)
    /\ Top.at \in {"end", "ended"} /\ phase = "running" => Top.cur > Len(Top.copies)

IInv == TypeOK /\ FrameShape /\ OneOwner /\ IndicatorShowsRefresh

LEMMA TopFrame ==
  ASSUME TypeOK, IndicatorShowsRefresh, stack # <<>>
  PROVE  /\ Len(stack) = 1
         /\ Top \in Frame
         /\ Len(Top.copies) \in Nat
         /\ \A k \in 1..Len(Top.copies) : Top.copies[k] \in Addrs
<1>1. stack \in Seq(Frame) /\ Len(stack) <= 1
  BY DEF TypeOK, IndicatorShowsRefresh
<1>2. Len(stack) = 1
  <2>1. \A t \in Seq(Frame) : t # <<>> => Len(t) \in Nat \ {0}
    BY EmptySeq
  <2>2. QED
    BY <1>1, <2>1
<1>3. Top \in Frame
  BY <1>1, <1>2, ElementOfSeq DEF Top
<1>4. Top.copies \in Seq(Addrs)
  BY <1>3 DEF Frame
<1>5. QED
  BY <1>2, <1>3, <1>4, LenProperties, ElementOfSeq

(* Owned objects are characters.                                           *)
LEMMA OwnedAreRows ==
  ASSUME TypeOK, OneOwner
  PROVE  /\ \A a \in Alive : heap[a] \in Row
         /\ \A i \in 1..Len(roster) : roster[i] \in Alive
         /\ \A k \in Updates : mainQueue[k].object \in Alive
         /\ \A k \in Pending : Top.copies[k] \in Alive
  BY DEF TypeOK, OneOwner, Alive, HeldByRoster, HeldByQueue, HeldByWorker

(* The steps that touch no character and no refresh.                       *)
LEMMA QuietStep ==
  ASSUME IInv,
         UNCHANGED <<heap, roster, table, mainQueue, workerVars>>,
         now' \in Nat, posted' \in Nat,
         forced' \in SUBSET (Ids \X SectionSet),
         phase' \in {"running", "interrupted", "quitting", "stopped"},
         phase' = "running" => phase = "running"
  PROVE  IInv'
<1>1. TypeOK'
  BY DEF IInv, TypeOK, workerVars
<1>2. FrameShape'
  BY DEF IInv, FrameShape, Top, workerVars
<1>3. OneOwner'
  <2>1. HeldByRoster' = HeldByRoster /\ Alive' = Alive
    BY DEF HeldByRoster, Alive
  <2>2. Updates' = Updates /\ HeldByQueue' = HeldByQueue
    BY DEF HeldByQueue, Updates
  <2>3. stack' = stack /\ Top' = Top
    BY DEF Top, workerVars
  <2>4. Pending' = Pending /\ HeldByWorker' = HeldByWorker
    BY <2>3 DEF HeldByWorker, Pending
  <2>5. QED
    BY <2>1, <2>2, <2>3, <2>4 DEF IInv, OneOwner
<1>4. IndicatorShowsRefresh'
  BY DEF IInv, IndicatorShowsRefresh, CurrentCopy, Top, workerVars
<1>5. QED
  BY <1>1, <1>2, <1>3, <1>4 DEF IInv

(* What the parts of OneOwner depend on.                                   *)
LEMMA SameOwners ==
  /\ UNCHANGED roster => HeldByRoster' = HeldByRoster
  /\ UNCHANGED mainQueue => Updates' = Updates /\ HeldByQueue' = HeldByQueue
  /\ UNCHANGED stack => /\ Top' = Top
                        /\ Pending' = Pending
                        /\ HeldByWorker' = HeldByWorker
<1>1. UNCHANGED roster => HeldByRoster' = HeldByRoster
  BY DEF HeldByRoster
<1>2. UNCHANGED mainQueue => Updates' = Updates /\ HeldByQueue' = HeldByQueue
  BY DEF HeldByQueue, Updates
<1>3. UNCHANGED stack => Top' = Top
  BY DEF Top
<1>4. UNCHANGED stack => Pending' = Pending /\ HeldByWorker' = HeldByWorker
  BY <1>3 DEF HeldByWorker, Pending
<1>5. QED
  BY <1>1, <1>2, <1>3, <1>4

LEMMA RowsType ==
  ASSUME NEW objects \in Seq(Addrs), NEW content,
         \A i \in 1..Len(objects) : content[objects[i]] \in Row
  PROVE  /\ Len(Rows(objects, content)) = Len(objects)
         /\ \A i \in 1..Len(objects) : Rows(objects, content)[i] = content[objects[i]]
         /\ SaveCharacters(Rows(objects, content)) \subseteq Row
<1>1. Rows(objects, content) \in [1..Len(objects) -> Row]
  BY DEF Rows
<1>2. Len(objects) \in Nat
  OBVIOUS
<1>3. Len(Rows(objects, content)) = Len(objects)
  BY <1>1, <1>2
<1>4. QED
  BY <1>1, <1>3, SaveCharactersType DEF Rows

(* An event that carries no object changes no owner.                       *)
LEMMA AppendNewCharacter ==
  ASSUME TypeOK, mainQueue' = Append(mainQueue, NewCharacter)
  PROVE  mainQueue' \in Seq(Event) /\ Updates' = Updates /\ HeldByQueue' = HeldByQueue
         /\ \A k \in Updates : mainQueue'[k] = mainQueue[k]
<1>1. mainQueue \in Seq(Event) /\ NewCharacter \in Event
  BY DEF TypeOK, Event
<1>2. /\ mainQueue' \in Seq(Event)
      /\ Len(mainQueue') = Len(mainQueue) + 1
      /\ \A i \in 1..Len(mainQueue) : mainQueue'[i] = mainQueue[i]
      /\ mainQueue'[Len(mainQueue) + 1] = NewCharacter
  BY <1>1, AppendProperties
<1>3. NewCharacter.signal # "characterUpdated" /\ Len(mainQueue) \in Nat
  BY <1>1 DEF NewCharacter
<1>4. Updates' = Updates
  BY <1>2, <1>3 DEF Updates
<1>5. \A k \in Updates : mainQueue'[k] = mainQueue[k]
  BY <1>2 DEF Updates
<1>6. HeldByQueue' = HeldByQueue
  BY <1>4, <1>5 DEF HeldByQueue
<1>7. QED
  BY <1>2, <1>4, <1>5, <1>6

LEMMA LoginStep ==
  ASSUME IInv, NEW id \in Ids, Login(id)
  PROVE  IInv'
<1> USE DEF IInv
<1>1. PICK o \in FreeAddrs : /\ heap' = [heap EXCEPT ![o] = NewRow(id)]
                             /\ roster' = Append(roster, o)
  <2>1. PICK objects \in Allocated(1) : /\ heap' = [heap EXCEPT ![objects[1]] = NewRow(id)]
                                        /\ roster' = Append(roster, objects[1])
    BY Zenon DEF Login
  <2>2. objects[1] \in FreeAddrs
    BY DEF Allocated
  <2>3. QED
    BY <2>1, <2>2, Zenon
<1>2. /\ o \in Addrs /\ o \notin Alive
      /\ NewRow(id) \in Row /\ NewRow(id) # Freed
  BY <1>1, NewRowType, FreedIsNoRow DEF FreeAddrs
<1>3. /\ heap' \in [Addrs -> Row \cup {Freed}]
      /\ Alive' = Alive \cup {o}
      /\ \A a \in Alive : heap'[a] = heap[a]
      /\ heap'[o] = NewRow(id)
  BY <1>1, <1>2 DEF TypeOK, Alive
<1>4. /\ roster' \in Seq(Addrs)
      /\ Len(roster') = Len(roster) + 1
      /\ Len(roster) \in Nat
      /\ \A i \in 1..Len(roster) : roster'[i] = roster[i]
      /\ roster'[Len(roster) + 1] = o
  BY <1>1, <1>2, AppendProperties DEF TypeOK
<1>5. HeldByRoster' = HeldByRoster \cup {o}
  BY <1>4 DEF HeldByRoster
<1>6. /\ mainQueue' \in Seq(Event) /\ Updates' = Updates /\ HeldByQueue' = HeldByQueue
      /\ \A k \in Updates : mainQueue'[k] = mainQueue[k]
  BY AppendNewCharacter DEF Login
<1>7. UNCHANGED <<stack, active, refreshingId, phase>> /\ Top' = Top /\ Pending' = Pending
      /\ HeldByWorker' = HeldByWorker
  BY SameOwners DEF Login, workerVars
<1>8. \A i \in 1..Len(roster') : heap'[roster'[i]] \in Row
  BY <1>2, <1>3, <1>4, OwnedAreRows
<1>9. table' \subseteq Row
  BY <1>4, <1>8, RowsType DEF Login, RosterRows
<1>10. TypeOK'
  BY <1>3, <1>4, <1>6, <1>7, <1>9 DEF TypeOK, Login
<1>11. FrameShape'
  BY <1>7 DEF FrameShape
<1>12. OneOwner'
  <2>1. \A i, j \in 1..Len(roster') : roster'[i] = roster'[j] => i = j
    BY <1>2, <1>4, OwnedAreRows DEF OneOwner
  <2>2. o \notin HeldByQueue /\ o \notin HeldByWorker
    BY <1>2 DEF OneOwner
  <2>3. QED
    BY <1>3, <1>5, <1>6, <1>7, <2>1, <2>2 DEF OneOwner
<1>13. IndicatorShowsRefresh'
  <2>1. stack # <<>> /\ Top.at = "section" => CurrentCopy \in Alive
    BY TopFrame, OwnedAreRows DEF CurrentCopy, FrameShape, Pending, Frame
  <2>2. CurrentCopy' = CurrentCopy
    BY <1>7 DEF CurrentCopy
  <2>3. QED
    BY <1>3, <1>7, <2>1, <2>2 DEF IndicatorShowsRefresh
<1>14. QED
  BY <1>10, <1>11, <1>12, <1>13

(* One object is deleted.                                                  *)
LEMMA DeleteObject ==
  ASSUME TypeOK, NEW a \in Addrs, heap' = [heap EXCEPT ![a] = Freed]
  PROVE  /\ heap' \in [Addrs -> Row \cup {Freed}]
         /\ Alive' = Alive \ {a}
         /\ \A b \in Alive \ {a} : heap'[b] = heap[b]
  BY DEF TypeOK, Alive

(* The copy a refresh is working on.                                       *)
LEMMA CurrentIsHeld ==
  ASSUME IInv, stack # <<>>, Top.at = "section"
  PROVE  /\ Top.cur \in Pending
         /\ CurrentCopy \in HeldByWorker
         /\ CurrentCopy \in Alive
  BY TopFrame DEF IInv, FrameShape, CurrentCopy, Pending, HeldByWorker, Frame, OneOwner

(* The refresh indicator survives a step of the main thread that leaves    *)
(* the copies of the worker alone.                                         *)
LEMMA IndicatorKept ==
  ASSUME IInv, UNCHANGED workerVars,
         \A a \in HeldByWorker : heap'[a] = heap[a]
  PROVE  IndicatorShowsRefresh'
<1>1. UNCHANGED <<stack, active, refreshingId>>
  BY DEF workerVars
<1>2. Top' = Top /\ CurrentCopy' = CurrentCopy
  BY <1>1 DEF Top, CurrentCopy
<1>3. stack # <<>> /\ Top.at = "section" => CurrentCopy \in HeldByWorker
  BY CurrentIsHeld
<1>4. QED
  BY <1>1, <1>2, <1>3 DEF IInv, IndicatorShowsRefresh

LEMMA RemoveStep ==
  ASSUME IInv, NEW id \in Ids, RemoveCharacter(id)
  PROVE  IInv'
<1> USE DEF IInv
<1>1. PICK i \in 1..Len(roster) : /\ roster' = WithoutIndex(roster, i)
                                  /\ heap' = [heap EXCEPT ![roster[i]] = Freed]
  BY Zenon DEF RemoveCharacter
<1> DEFINE a == roster[i]
<1>2. roster \in Seq(Addrs) /\ Len(roster) \in Nat /\ a \in Addrs
  BY DEF TypeOK
<1>3. /\ heap' \in [Addrs -> Row \cup {Freed}]
      /\ Alive' = Alive \ {a}
      /\ \A b \in Alive \ {a} : heap'[b] = heap[b]
  BY <1>1, <1>2, DeleteObject
<1>4. /\ roster' \in Seq(Addrs)
      /\ Len(roster') = Len(roster) - 1
      /\ \A j \in 1..(Len(roster) - 1) :
            roster'[j] = IF j < i THEN roster[j] ELSE roster[j + 1]
  BY <1>1, <1>2, WithoutIndexType
<1>5. \A j, k \in 1..Len(roster') : roster'[j] = roster'[k] => j = k
  BY <1>2, <1>4 DEF OneOwner
<1>6. HeldByRoster' = HeldByRoster \ {a}
  <2>1. ASSUME NEW j \in 1..Len(roster')
        PROVE  roster'[j] \in HeldByRoster \ {a}
    BY <1>2, <1>4 DEF OneOwner, HeldByRoster
  <2>2. ASSUME NEW j \in 1..Len(roster), roster[j] # a
        PROVE  \E k \in 1..Len(roster') : roster'[k] = roster[j]
    <3>1. CASE j < i
      BY <1>2, <1>4, <3>1
    <3>2. CASE j > i
      <4>1. j - 1 \in 1..Len(roster') /\ roster'[j - 1] = roster[j]
        BY <1>2, <1>4, <3>2
      <4>2. QED
        BY <4>1
    <3>3. QED
      BY <1>2, <2>2, <3>1, <3>2
  <2>3. QED
    BY <2>1, <2>2 DEF HeldByRoster
<1>7. UNCHANGED <<mainQueue, stack, active, refreshingId, phase>>
  BY DEF RemoveCharacter, workerVars
<1>8. a \in HeldByRoster
  BY DEF HeldByRoster
<1>9. \A j \in 1..Len(roster') : heap'[roster'[j]] \in Row
  BY <1>3, <1>6, OwnedAreRows DEF HeldByRoster, OneOwner
<1>10. table' \subseteq Row
  BY <1>4, <1>9, RowsType DEF RemoveCharacter, RosterRows
<1>11. TypeOK'
  BY <1>3, <1>4, <1>7, <1>10 DEF TypeOK, RemoveCharacter
<1>12. FrameShape'
  BY <1>7, SameOwners DEF FrameShape
<1>13. OneOwner'
  BY <1>3, <1>5, <1>6, <1>7, <1>8, SameOwners DEF OneOwner
<1>14. IndicatorShowsRefresh'
  BY <1>3, <1>8, IndicatorKept DEF OneOwner, RemoveCharacter
<1>15. QED
  BY <1>11, <1>12, <1>13, <1>14

(* The main thread takes the oldest event.                                 *)
LEMMA TakeEvent ==
  ASSUME TypeOK, OneOwner, mainQueue # <<>>, mainQueue' = Tail(mainQueue)
  PROVE  /\ mainQueue' \in Seq(Event)
         /\ \A k, l \in Updates' : mainQueue'[k].object = mainQueue'[l].object => k = l
         /\ HeldByQueue' = IF Head(mainQueue).signal = "characterUpdated"
                           THEN HeldByQueue \ {Head(mainQueue).object}
                           ELSE HeldByQueue
<1>1. mainQueue \in Seq(Event)
  BY DEF TypeOK
<1>2. /\ mainQueue' \in Seq(Event)
      /\ Len(mainQueue) \in Nat \ {0}
      /\ Len(mainQueue') = Len(mainQueue) - 1
      /\ \A k \in 1..Len(mainQueue') : mainQueue'[k] = mainQueue[k + 1]
      /\ Head(mainQueue) = mainQueue[1]
  BY <1>1, HeadTailProperties, EmptySeq
<1>3. \A k \in Updates' : k \in Nat \ {0} /\ k + 1 \in Updates /\ mainQueue'[k] = mainQueue[k + 1]
  BY <1>2 DEF Updates
<1>4. \A k \in Updates : k # 1 => k - 1 \in Updates' /\ mainQueue'[k - 1] = mainQueue[k]
  <2> SUFFICES ASSUME NEW k \in Updates, k # 1
               PROVE  k - 1 \in Updates' /\ mainQueue'[k - 1] = mainQueue[k]
    OBVIOUS
  <2>1. k \in 1..Len(mainQueue) /\ mainQueue[k].signal = "characterUpdated"
    BY DEF Updates
  <2>2. k - 1 \in 1..Len(mainQueue') /\ mainQueue'[k - 1] = mainQueue[k]
    BY <1>2, <2>1
  <2>3. QED
    BY <2>1, <2>2 DEF Updates
<1>5. \A k, l \in Updates' : mainQueue'[k].object = mainQueue'[l].object => k = l
  <2> SUFFICES ASSUME NEW k \in Updates', NEW l \in Updates',
                      mainQueue'[k].object = mainQueue'[l].object
               PROVE  k = l
    OBVIOUS
  <2>1. /\ k + 1 \in Updates /\ l + 1 \in Updates
        /\ mainQueue[k + 1].object = mainQueue[l + 1].object
    BY <1>3
  <2>2. k + 1 = l + 1
    BY <2>1 DEF OneOwner
  <2>3. QED
    BY <1>3, <2>2
<1>6. 1 \in Updates <=> Head(mainQueue).signal = "characterUpdated"
  BY <1>2 DEF Updates
<1>7. HeldByQueue' = {mainQueue'[k].object : k \in Updates'}
  BY DEF HeldByQueue
<1>8. HeldByQueue' = {mainQueue[k].object : k \in Updates \ {1}}
  <2>1. ASSUME NEW k \in Updates'
        PROVE  k + 1 \in Updates \ {1} /\ mainQueue'[k].object = mainQueue[k + 1].object
    <3>1. \A n \in Nat \ {0} : n + 1 # 1
      OBVIOUS
    <3>2. k \in Nat \ {0} /\ k + 1 \in Updates /\ mainQueue'[k] = mainQueue[k + 1]
      BY <1>3
    <3>3. QED
      BY <3>1, <3>2
  <2>2. ASSUME NEW k \in Updates \ {1}
        PROVE  k - 1 \in Updates' /\ mainQueue'[k - 1].object = mainQueue[k].object
    BY <1>4
  <2>3. HeldByQueue' \subseteq {mainQueue[k].object : k \in Updates \ {1}}
    <3>1. SUFFICES ASSUME NEW k \in Updates'
                   PROVE  mainQueue'[k].object \in {mainQueue[l].object : l \in Updates \ {1}}
      BY <1>7, Zenon
    <3>2. QED
      BY <2>1
  <2>4. {mainQueue[k].object : k \in Updates \ {1}} \subseteq HeldByQueue'
    <3>1. SUFFICES ASSUME NEW k \in Updates \ {1}
                   PROVE  mainQueue[k].object \in {mainQueue'[l].object : l \in Updates'}
      BY <1>7, Zenon
    <3>2. QED
      BY <2>2
  <2>5. QED
    BY <2>3, <2>4
<1>9. {mainQueue[k].object : k \in Updates \ {1}}
        = IF 1 \in Updates THEN HeldByQueue \ {mainQueue[1].object} ELSE HeldByQueue
  BY DEF OneOwner, HeldByQueue
<1>10. QED
  BY <1>2, <1>5, <1>6, <1>8, <1>9

LEMMA RefreshNewCharacterStep ==
  ASSUME IInv, RefreshNewCharacter
  PROVE  IInv'
<1> USE DEF IInv
<1>1. /\ mainQueue' \in Seq(Event)
      /\ \A k, l \in Updates' : mainQueue'[k].object = mainQueue'[l].object => k = l
      /\ HeldByQueue' = HeldByQueue
  BY TakeEvent DEF RefreshNewCharacter
<1>2. /\ UNCHANGED <<now, heap, roster, table, phase, forced, stack, active, refreshingId>>
      /\ Alive' = Alive
  BY DEF RefreshNewCharacter, workerVars, Alive
<1>3. TypeOK'
  BY <1>1, <1>2 DEF TypeOK, RefreshNewCharacter, PostRefresh
<1>4. FrameShape'
  BY <1>2, SameOwners DEF FrameShape
<1>5. OneOwner'
  BY <1>1, <1>2, SameOwners DEF OneOwner
<1>6. IndicatorShowsRefresh'
  BY <1>2, IndicatorKept DEF workerVars
<1>7. QED
  BY <1>3, <1>4, <1>5, <1>6

LEMMA UpdateStep ==
  ASSUME IInv, UpdateCharacter
  PROVE  IInv'
<1> USE DEF IInv
<1> DEFINE a == Head(mainQueue).object
<1>1. /\ mainQueue # <<>>
      /\ Head(mainQueue).signal = "characterUpdated"
      /\ mainQueue' = Tail(mainQueue)
      /\ UNCHANGED <<now, roster, posted, phase, forced, stack, active, refreshingId>>
  BY DEF UpdateCharacter, workerVars
<1>2. /\ mainQueue' \in Seq(Event)
      /\ \A k, l \in Updates' : mainQueue'[k].object = mainQueue'[l].object => k = l
      /\ HeldByQueue' = HeldByQueue \ {a}
  BY <1>1, TakeEvent
<1>3. a \in HeldByQueue /\ a \in Addrs /\ heap[a] \in Row
  <2>1. 1 \in Updates /\ mainQueue[1].object = a
    BY <1>1, EmptySeq DEF TypeOK, Updates
  <2>2. QED
    BY <2>1, OwnedAreRows DEF HeldByQueue, Alive
<1>4. /\ heap' \in [Addrs -> Row \cup {Freed}]
      /\ Alive' = Alive \ {a}
      /\ \A b \in HeldByWorker : heap'[b] = heap[b]
      /\ table' \subseteq Row
  <2>1. CASE DiscardUpdate(a)
    <3>1. /\ heap' \in [Addrs -> Row \cup {Freed}]
          /\ Alive' = Alive \ {a}
          /\ \A b \in Alive \ {a} : heap'[b] = heap[b]
      BY <1>3, <2>1, DeleteObject DEF DiscardUpdate
    <3>2. QED
      BY <1>3, <2>1, <3>1 DEF DiscardUpdate, TypeOK, OneOwner
  <2>2. ASSUME NEW i \in 1..Len(roster), AssignUpdate(i, a)
        PROVE  /\ heap' \in [Addrs -> Row \cup {Freed}]
               /\ Alive' = Alive \ {a}
               /\ \A b \in HeldByWorker : heap'[b] = heap[b]
               /\ table' \subseteq Row
    <3>1. roster[i] \in HeldByRoster /\ roster[i] \in Addrs /\ roster[i] # a
      BY <1>3 DEF HeldByRoster, OneOwner, TypeOK
    <3>2. heap' = [heap EXCEPT ![roster[i]] = heap[a], ![a] = Freed]
      BY <2>2 DEF AssignUpdate
    <3>3. roster[i] \in Alive /\ heap[a] # Freed
      BY <1>3, OwnedAreRows, FreedIsNoRow
    <3>4. heap' \in [Addrs -> Row \cup {Freed}]
      BY <1>3, <3>1, <3>2 DEF TypeOK
    <3>5. \A b \in Addrs : heap'[b] = IF b = a THEN Freed
                                      ELSE IF b = roster[i] THEN heap[a] ELSE heap[b]
      BY <1>3, <3>1, <3>2 DEF TypeOK
    <3>6. Alive' = Alive \ {a}
      BY <3>1, <3>3, <3>5 DEF Alive
    <3>7. \A b \in HeldByWorker : b \in Addrs /\ b # a /\ b # roster[i]
      BY <1>3, <3>1 DEF OneOwner, Alive
    <3>8. table' \subseteq Row
      BY <1>3, <2>2 DEF AssignUpdate, SaveCharacter, TypeOK
    <3>9. QED
      BY <3>4, <3>5, <3>6, <3>7, <3>8
  <2>3. DiscardUpdate(a) \/ \E i \in 1..Len(roster) : AssignUpdate(i, a)
    BY DEF UpdateCharacter
  <2>4. QED
    BY <2>1, <2>2, <2>3
<1>5. TypeOK'
  BY <1>1, <1>2, <1>4 DEF TypeOK
<1>6. FrameShape'
  BY <1>1, SameOwners DEF FrameShape
<1>7. OneOwner'
  BY <1>1, <1>2, <1>3, <1>4, SameOwners DEF OneOwner
<1>8. IndicatorShowsRefresh'
  BY <1>1, <1>4, IndicatorKept DEF workerVars
<1>9. QED
  BY <1>5, <1>6, <1>7, <1>8

(* One object is written.                                                  *)
LEMMA WriteObject ==
  ASSUME TypeOK, NEW a \in Alive, NEW row \in Row, heap' = [heap EXCEPT ![a] = row]
  PROVE  /\ heap' \in [Addrs -> Row \cup {Freed}]
         /\ Alive' = Alive
         /\ heap'[a] = row
         /\ \A b \in Alive \ {a} : heap'[b] = heap[b]
  BY FreedIsNoRow DEF TypeOK, Alive

LEMMA ForceSectionStep ==
  ASSUME IInv, NEW i \in 1..Len(roster), NEW s \in SectionSet, ForceSection(i, s)
  PROVE  IInv'
<1> USE DEF IInv
<1> DEFINE a == roster[i]
<1>1. /\ heap' = [heap EXCEPT ![a] = ResetTs(heap[a], s)]
      /\ UNCHANGED <<now, roster, table, mainQueue, phase, stack, active, refreshingId>>
  BY DEF ForceSection, workerVars
<1>2. a \in Alive /\ a \in HeldByRoster /\ heap[a] \in Row
  BY OwnedAreRows DEF HeldByRoster
<1>3. ResetTs(heap[a], s) \in Row
  BY <1>2, ResetTsType
<1>4. /\ heap' \in [Addrs -> Row \cup {Freed}]
      /\ Alive' = Alive
      /\ \A b \in Alive \ {a} : heap'[b] = heap[b]
  BY <1>1, <1>2, <1>3, WriteObject
<1>5. forced' \in SUBSET (Ids \X SectionSet)
  <2>1. RosterRows[i] = heap[a]
    BY RowsType, OwnedAreRows DEF RosterRows, TypeOK
  <2>2. <<RosterRows[i].id, s>> \in Ids \X SectionSet
    BY <1>2, <2>1 DEF Row
  <2>3. QED
    BY <2>2 DEF ForceSection, TypeOK
<1>6. TypeOK'
  BY <1>1, <1>4, <1>5 DEF TypeOK, ForceSection, PostRefresh
<1>7. FrameShape'
  BY <1>1, SameOwners DEF FrameShape
<1>8. OneOwner'
  BY <1>1, <1>4, SameOwners DEF OneOwner
<1>9. IndicatorShowsRefresh'
  BY <1>1, <1>2, <1>4, IndicatorKept DEF OneOwner, workerVars
<1>10. QED
  BY <1>6, <1>7, <1>8, <1>9

-----------------------------------------------------------------------------
(* Worker thread.                                                          *)

LEMMA BeginRefreshStep ==
  ASSUME IInv, BeginRefresh
  PROVE  IInv'
<1> USE DEF IInv
<1>1. stack = <<>>
  BY DEF BeginRefresh, InEventLoop, SectionDue, IndicatorShowsRefresh
<1>2. NewFrame \in Frame
  BY EmptySeq DEF NewFrame, Frame
<1>3. /\ stack' \in Seq(Frame) /\ stack' # <<>> /\ Len(stack') = 1
      /\ Top' = NewFrame
  BY <1>1, <1>2, AppendProperties, EmptySeq DEF BeginRefresh, Top
<1>4. UNCHANGED <<now, heap, roster, table, mainQueue, refreshingId, phase, forced>>
      /\ Alive' = Alive
  BY DEF BeginRefresh, Alive
<1>5. Pending = {} /\ Pending' = {} /\ HeldByWorker = {} /\ HeldByWorker' = {}
  BY <1>1, <1>3 DEF Pending, HeldByWorker, NewFrame
<1>6. TypeOK'
  BY <1>3, <1>4 DEF TypeOK, BeginRefresh
<1>7. FrameShape'
  BY <1>3 DEF FrameShape, NewFrame
<1>8. OneOwner'
  BY <1>4, <1>5, SameOwners DEF OneOwner
<1>9. IndicatorShowsRefresh'
  BY <1>3 DEF IndicatorShowsRefresh, NewFrame, BeginRefresh
<1>10. QED
  BY <1>6, <1>7, <1>8, <1>9

(* The top frame is replaced by one that has come no further in the list.  *)
LEMMA SameCopies ==
  ASSUME IInv, stack # <<>>, NEW f \in Frame, SetTop(f),
         f.copies = Top.copies, f.cur = Top.cur
  PROVE  /\ stack' \in Seq(Frame) /\ stack' # <<>> /\ Len(stack') = 1 /\ Top' = f
         /\ Pending' = Pending
         /\ HeldByWorker' = HeldByWorker
<1>1. Len(stack) = 1 /\ stack \in Seq(Frame)
  BY TopFrame DEF IInv, TypeOK
<1>2. stack' = [stack EXCEPT ![Len(stack)] = f]
  BY DEF SetTop
<1>3. stack' \in Seq(Frame) /\ stack' # <<>> /\ Len(stack') = 1 /\ Top' = f
  BY <1>1, <1>2, ReplaceSingle DEF Top
<1>4. Pending' = Pending
  BY <1>3 DEF Pending
<1>5. HeldByWorker' = HeldByWorker
  BY <1>3, <1>4 DEF HeldByWorker
<1>6. QED
  BY <1>3, <1>4, <1>5

LEMMA ServerStatusStep ==
  ASSUME IInv, ServerStatus
  PROVE  IInv'
<1> USE DEF IInv
<1> DEFINE f == [Top EXCEPT !.at = "copy"]
<1>1. /\ f \in Frame /\ f.at = "copy" /\ f.copies = Top.copies /\ f.cur = Top.cur
      /\ SetTop(f)
  BY TopFrame DEF ServerStatus, Frame
<1> HIDE DEF f
<1>2. /\ stack' \in Seq(Frame) /\ stack' # <<>> /\ Len(stack') = 1 /\ Top' = f
      /\ Pending' = Pending /\ HeldByWorker' = HeldByWorker
  BY <1>1, SameCopies DEF ServerStatus
<1>3. UNCHANGED <<now, heap, roster, table, mainQueue, posted, active, refreshingId, phase, forced>>
      /\ Alive' = Alive
  BY DEF ServerStatus, Alive
<1>4. TypeOK'
  BY <1>2, <1>3 DEF TypeOK
<1>5. FrameShape'
  BY <1>1, <1>2 DEF FrameShape, ServerStatus
<1>6. OneOwner'
  BY <1>1, <1>2, <1>3, SameOwners DEF OneOwner
<1>7. IndicatorShowsRefresh'
  BY <1>1, <1>2, <1>3 DEF IndicatorShowsRefresh, ServerStatus
<1>8. QED
  BY <1>4, <1>5, <1>6, <1>7

(* The frame of a refresh() that is in its loop, or has just left it.      *)
LEMMA LoopFrameType ==
  ASSUME NEW copies \in Seq(Addrs), NEW k \in Nat \ {0}, NEW place \in {"section", "end"}
  PROVE  /\ LoopFrame(place, copies, k) \in Frame
         /\ LoopFrame(place, copies, k).at = place
         /\ LoopFrame(place, copies, k).copies = copies
         /\ LoopFrame(place, copies, k).cur = k
<1>1. NewFrame \in Frame
  BY EmptySeq DEF NewFrame, Frame
<1>2. QED
  BY <1>1 DEF Frame, LoopFrame

(* A section is over, whatever it wrote into the current copy.             *)
LEMMA SectionOver ==
  ASSUME IInv, stack # <<>>, Top.at = "section",
         NEW g \in Frame, g.at = "section", g.copies = Top.copies, g.cur = Top.cur,
         NextSection(g),
         UNCHANGED <<roster, mainQueue, active, refreshingId, phase>>,
         Alive' = Alive, \A b \in Alive : heap'[b].id = heap[b].id
  PROVE  stack' \in Seq(Frame) /\ FrameShape' /\ OneOwner' /\ IndicatorShowsRefresh'
<1> USE DEF IInv
<1>1. PICK f \in Frame : /\ SetTop(f)
                         /\ f.copies = Top.copies /\ f.cur = Top.cur
                         /\ f.at = "section" \/ (f.at = "end" /\ Interrupted)
  <2>1. CASE Interrupted
    <3>1. g.copies \in Seq(Addrs) /\ g.cur \in Nat \ {0}
      BY DEF Frame
    <3>2. QED
      BY <2>1, <3>1, LoopFrameType DEF NextSection
  <2>2. CASE ~Interrupted
    <3>1. [g EXCEPT !.sec = g.sec + 1] \in Frame
      BY DEF Frame
    <3>2. QED
      BY <2>2, <3>1 DEF NextSection, Frame
  <2>3. QED
    BY <2>1, <2>2
<1>2. /\ stack' \in Seq(Frame) /\ stack' # <<>> /\ Len(stack') = 1 /\ Top' = f
      /\ Pending' = Pending /\ HeldByWorker' = HeldByWorker
  BY <1>1, SameCopies
<1>3. FrameShape'
  BY <1>1, <1>2 DEF FrameShape, Interrupted
<1>4. OneOwner'
  BY <1>1, <1>2, SameOwners DEF OneOwner
<1>5. CurrentCopy' = CurrentCopy /\ CurrentCopy \in Alive
  BY <1>1, <1>2, CurrentIsHeld DEF CurrentCopy
<1>6. IndicatorShowsRefresh'
  BY <1>1, <1>2, <1>5 DEF IndicatorShowsRefresh
<1>7. QED
  BY <1>2, <1>3, <1>4, <1>6

LEMMA SkipSectionStep ==
  ASSUME IInv, SkipSection
  PROVE  IInv'
<1> USE DEF IInv
<1>1. /\ stack # <<>> /\ Top.at = "section" /\ Top \in Frame
      /\ NextSection(Top)
      /\ UNCHANGED <<now, heap, roster, table, mainQueue, posted, active, refreshingId,
                     phase, forced>>
      /\ Alive' = Alive
  BY TopFrame DEF SkipSection, Alive
<1>2. stack' \in Seq(Frame) /\ FrameShape' /\ OneOwner' /\ IndicatorShowsRefresh'
  BY <1>1, SectionOver
<1>3. QED
  BY <1>1, <1>2 DEF TypeOK

LEMMA RefreshSectionStep ==
  ASSUME IInv, NEW o, RefreshSection(o)
  PROVE  IInv'
<1> USE DEF IInv
<1> DEFINE s == Sections[Top.sec]
           g == [Top EXCEPT !.updated = Top.updated \/ o.count > 0,
                            !.wrote   = Top.wrote \/ o.wrote # {}]
<1>1. /\ stack # <<>> /\ Top.at = "section" /\ Top \in Frame /\ Top.sec <= Len(Sections)
      /\ heap' = [heap EXCEPT ![CurrentCopy] = ApplyOutcome(heap[CurrentCopy], s, o, now)]
      /\ NextSection(g)
      /\ UNCHANGED <<now, roster, table, mainQueue, posted, active, refreshingId, phase>>
  BY TopFrame DEF RefreshSection, SectionDue
<1>2. g \in Frame /\ g.at = "section" /\ g.copies = Top.copies /\ g.cur = Top.cur
  BY <1>1 DEF Frame
<1>3. s \in SectionSet
  BY <1>1, SectionsAssumption DEF SectionSet, Frame
<1>4. CurrentCopy \in Alive /\ heap[CurrentCopy] \in Row
  BY <1>1, CurrentIsHeld, OwnedAreRows
<1>5. /\ ApplyOutcome(heap[CurrentCopy], s, o, now) \in Row
      /\ ApplyOutcome(heap[CurrentCopy], s, o, now).id = heap[CurrentCopy].id
  BY <1>3, <1>4, ApplyOutcomeType DEF TypeOK
<1>6. /\ heap' \in [Addrs -> Row \cup {Freed}]
      /\ Alive' = Alive
      /\ \A b \in Alive : heap'[b].id = heap[b].id
  <2> HIDE DEF s
  <2>1. QED
    BY <1>1, <1>4, <1>5, WriteObject
<1>7. stack' \in Seq(Frame) /\ FrameShape' /\ OneOwner' /\ IndicatorShowsRefresh'
  <2> HIDE DEF g
  <2>1. QED
    BY <1>1, <1>2, <1>6, SectionOver
<1>8. forced' \subseteq forced
  BY DEF RefreshSection
<1>9. TypeOK'
  BY <1>1, <1>6, <1>7, <1>8 DEF TypeOK
<1>10. QED
  BY <1>7, <1>9

(* The loop comes to the next copy, or ends: the current copy leaves the   *)
(* worker.                                                                 *)
LEMMA NextCopyStep ==
  ASSUME IInv, SectionsDone, NextCopy, UNCHANGED phase
  PROVE  /\ stack' \in Seq(Frame) /\ stack' # <<>> /\ Len(stack') = 1
         /\ Top'.at \in {"section", "end"}
         /\ refreshingId' \in Ids \cup {0}
         /\ Top'.at = "section" => /\ CurrentCopy' \in HeldByWorker'
                                   /\ refreshingId' = heap[CurrentCopy'].id
         /\ FrameShape'
         /\ \A k, l \in Pending' : Top'.copies[k] = Top'.copies[l] => k = l
         /\ HeldByWorker' = HeldByWorker \ {CurrentCopy}
<1> USE DEF IInv
<1>1. /\ stack # <<>> /\ Top.at = "section" /\ Top \in Frame
      /\ Len(stack) = 1 /\ stack \in Seq(Frame)
      /\ Len(Top.copies) \in Nat /\ Top.cur \in Nat \ {0} /\ Top.cur <= Len(Top.copies)
      /\ Top.copies \in Seq(Addrs)
  BY TopFrame DEF SectionsDone, FrameShape, TypeOK, Frame
<1> DEFINE n == Top.cur + 1
<1> n \in Nat \ {0}
  BY <1>1
<1>2. PICK f \in Frame :
        /\ SetTop(f) /\ f.copies = Top.copies /\ f.cur = n
        /\ \/ f.at = "end" /\ UNCHANGED refreshingId /\ (Interrupted \/ n > Len(Top.copies))
           \/ /\ f.at = "section" /\ n <= Len(Top.copies)
              /\ refreshingId' = heap[Top.copies[n]].id
  <2>1. CASE Interrupted
    <3> DEFINE f == LoopFrame("end", Top.copies, n)
    <3>1. f \in Frame /\ f.copies = Top.copies /\ f.cur = n /\ f.at = "end"
      BY <1>1, LoopFrameType
    <3>2. SetTop(f) /\ UNCHANGED refreshingId
      BY <2>1 DEF NextCopy
    <3> HIDE DEF f
    <3>3. QED
      BY <2>1, <3>1, <3>2
  <2>2. CASE ~Interrupted /\ n <= Len(Top.copies)
    <3> DEFINE f == LoopFrame("section", Top.copies, n)
    <3>1. f \in Frame /\ f.copies = Top.copies /\ f.cur = n /\ f.at = "section"
      BY <1>1, LoopFrameType
    <3>2. SetTop(f) /\ refreshingId' = heap[Top.copies[n]].id
      BY <2>2 DEF NextCopy, ReachCopy
    <3> HIDE DEF f
    <3>3. QED
      BY <2>2, <3>1, <3>2
  <2>3. CASE ~Interrupted /\ ~(n <= Len(Top.copies))
    <3> DEFINE f == LoopFrame("end", Top.copies, n)
    <3>1. f \in Frame /\ f.copies = Top.copies /\ f.cur = n /\ f.at = "end"
      BY <1>1, LoopFrameType
    <3>2. SetTop(f) /\ UNCHANGED refreshingId /\ n > Len(Top.copies)
      BY <1>1, <2>3 DEF NextCopy, ReachCopy
    <3> HIDE DEF f
    <3>3. QED
      BY <3>1, <3>2
  <2>4. QED
    BY <2>1, <2>2, <2>3
<1>3. stack' \in Seq(Frame) /\ stack' # <<>> /\ Len(stack') = 1 /\ Top' = f
  BY <1>1, <1>2, ReplaceSingle DEF SetTop, Top
<1>4. Pending' = Pending \ {Top.cur} /\ Top.cur \in Pending
  BY <1>1, <1>2, <1>3 DEF Pending
<1>5. HeldByWorker' = HeldByWorker \ {CurrentCopy}
  BY <1>2, <1>3, <1>4 DEF HeldByWorker, CurrentCopy, OneOwner
<1>6. \A k, l \in Pending' : Top'.copies[k] = Top'.copies[l] => k = l
  BY <1>2, <1>3, <1>4 DEF OneOwner
<1>7. FrameShape'
  BY <1>2, <1>3 DEF FrameShape, Interrupted
<1>8. f.at = "section" => n \in Pending' /\ Top.copies[n] \in HeldByWorker'
  BY <1>1, <1>2, <1>3 DEF Pending, HeldByWorker
<1>9. CurrentCopy' = Top.copies[n]
  BY <1>2, <1>3 DEF CurrentCopy
<1>10. refreshingId' \in Ids \cup {0}
  <2>1. f.at = "section" => heap[Top.copies[n]] \in Row
    BY <1>5, <1>8, OwnedAreRows DEF OneOwner
  <2>2. QED
    BY <1>2, <2>1 DEF TypeOK, Row
<1>11. QED
  BY <1>2, <1>3, <1>5, <1>6, <1>7, <1>8, <1>9, <1>10

LEMMA HandOverStep ==
  ASSUME IInv, HandOver
  PROVE  IInv'
<1> USE DEF IInv
<1> DEFINE a == CurrentCopy
<1>1. /\ SectionsDone /\ NextCopy /\ mainQueue' = Append(mainQueue, Updated(a))
      /\ UNCHANGED <<now, heap, roster, table, posted, active, phase, forced>>
      /\ stack # <<>> /\ Top.at = "section" /\ Alive' = Alive
  BY DEF HandOver, SectionsDone, Alive
<1>2. a \in HeldByWorker /\ a \in Addrs
  BY <1>1, CurrentIsHeld DEF Alive
<1>3. Updated(a) \in Event /\ Updated(a).signal = "characterUpdated" /\ Updated(a).object = a
  BY <1>2 DEF Event, Updated
<1>4. /\ mainQueue' \in Seq(Event)
      /\ Len(mainQueue) \in Nat
      /\ Len(mainQueue') = Len(mainQueue) + 1
      /\ \A k \in 1..Len(mainQueue) : mainQueue'[k] = mainQueue[k]
      /\ mainQueue'[Len(mainQueue) + 1] = Updated(a)
  BY <1>1, <1>3, AppendProperties DEF TypeOK
<1>5. /\ Updates' = Updates \cup {Len(mainQueue) + 1}
      /\ \A k \in Updates : k # Len(mainQueue) + 1 /\ mainQueue'[k] = mainQueue[k]
  BY <1>3, <1>4 DEF Updates
<1>6. HeldByQueue' = HeldByQueue \cup {a}
  BY <1>3, <1>4, <1>5 DEF HeldByQueue
<1>7. \A k \in Updates : mainQueue[k].object # a
  BY <1>2 DEF OneOwner, HeldByQueue
<1>8. \A k, l \in Updates' : mainQueue'[k].object = mainQueue'[l].object => k = l
  <2> HIDE DEF a
  <2>1. QED
    BY <1>3, <1>4, <1>5, <1>7 DEF OneOwner
<1>9. /\ stack' \in Seq(Frame) /\ stack' # <<>> /\ Len(stack') = 1
      /\ Top'.at \in {"section", "end"}
      /\ refreshingId' \in Ids \cup {0}
      /\ Top'.at = "section" => refreshingId' = heap[CurrentCopy'].id
      /\ FrameShape'
      /\ \A k, l \in Pending' : Top'.copies[k] = Top'.copies[l] => k = l
      /\ HeldByWorker' = HeldByWorker \ {a}
  BY <1>1, NextCopyStep
<1>10. TypeOK'
  BY <1>1, <1>4, <1>9 DEF TypeOK
<1>11. OneOwner'
  <2>1. HeldByRoster' = HeldByRoster
    BY <1>1, SameOwners
  <2>2. a \notin HeldByRoster /\ a \notin HeldByQueue
    BY <1>2 DEF OneOwner
  <2> HIDE DEF a
  <2>3. HeldByRoster' \cup HeldByQueue' \cup HeldByWorker'
          = HeldByRoster \cup HeldByQueue \cup HeldByWorker
    BY <1>2, <1>6, <1>9, <2>1
  <2>4. /\ HeldByRoster' \cap HeldByQueue' = {}
        /\ HeldByRoster' \cap HeldByWorker' = {}
        /\ HeldByQueue' \cap HeldByWorker' = {}
    BY <1>2, <1>6, <1>9, <2>1, <2>2 DEF OneOwner
  <2>5. QED
    BY <1>1, <1>8, <1>9, <2>3, <2>4 DEF OneOwner
<1>12. IndicatorShowsRefresh'
  BY <1>1, <1>9 DEF IndicatorShowsRefresh
<1>13. QED
  BY <1>9, <1>10, <1>11, <1>12

LEMMA DeleteCopyStep ==
  ASSUME IInv, DeleteCopy
  PROVE  IInv'
<1> USE DEF IInv
<1> DEFINE a == CurrentCopy
<1>1. /\ SectionsDone /\ NextCopy /\ heap' = [heap EXCEPT ![a] = Freed]
      /\ UNCHANGED <<now, roster, table, mainQueue, posted, active, phase, forced>>
      /\ stack # <<>> /\ Top.at = "section"
  BY DEF DeleteCopy, SectionsDone
<1>2. a \in HeldByWorker /\ a \in Addrs
  BY <1>1, CurrentIsHeld DEF Alive
<1>3. /\ heap' \in [Addrs -> Row \cup {Freed}]
      /\ Alive' = Alive \ {a}
      /\ \A b \in Alive \ {a} : heap'[b] = heap[b]
  BY <1>1, <1>2, DeleteObject
<1>4. /\ stack' \in Seq(Frame) /\ stack' # <<>> /\ Len(stack') = 1
      /\ Top'.at \in {"section", "end"}
      /\ refreshingId' \in Ids \cup {0}
      /\ Top'.at = "section" => /\ CurrentCopy' \in HeldByWorker'
                                /\ refreshingId' = heap[CurrentCopy'].id
      /\ FrameShape'
      /\ \A k, l \in Pending' : Top'.copies[k] = Top'.copies[l] => k = l
      /\ HeldByWorker' = HeldByWorker \ {a}
  BY <1>1, NextCopyStep
<1>5. TypeOK'
  BY <1>1, <1>3, <1>4 DEF TypeOK
<1>6. OneOwner'
  BY <1>1, <1>2, <1>3, <1>4, SameOwners DEF OneOwner
<1>7. IndicatorShowsRefresh'
  BY <1>1, <1>3, <1>4 DEF IndicatorShowsRefresh, OneOwner
<1>8. QED
  BY <1>4, <1>5, <1>6, <1>7

LEMMA CopyCharactersStep ==
  ASSUME IInv, CopyCharacters
  PROVE  IInv'
<1> USE DEF IInv
<1> DEFINE n == Len(roster)
<1>1. /\ stack # <<>> /\ Top.at = "copy" /\ Len(stack) = 1 /\ stack \in Seq(Frame)
      /\ Pending = {} /\ HeldByWorker = {}
      /\ n \in Nat /\ roster \in Seq(Addrs)
      /\ UNCHANGED <<now, roster, table, mainQueue, posted, active, phase, forced>>
  BY TopFrame, EmptySeq DEF CopyCharacters, FrameShape, Pending, HeldByWorker, TypeOK
<1>2. PICK objects \in Allocated(n) :
        /\ heap' = [a \in Addrs |->
                      IF \E i \in 1..n : objects[i] = a
                      THEN RosterRows[CHOOSE i \in 1..n : objects[i] = a]
                      ELSE heap[a]]
        /\ ReachCopy(objects, heap', 1)
  BY Zenon DEF CopyCharacters
<1>3. /\ objects \in [1..n -> Addrs]
      /\ \A i \in 1..n : objects[i] \in Addrs /\ objects[i] \notin Alive
      /\ \A i, j \in 1..n : objects[i] = objects[j] => i = j
  <2>1. /\ objects \in [1..n -> FreeAddrs]
        /\ \A i, j \in 1..n : i < j => objects[i] < objects[j]
    BY DEF Allocated
  <2>2. \A i \in 1..n : objects[i] \in Nat /\ objects[i] \in FreeAddrs
    BY <2>1, BoundsAssumption DEF FreeAddrs, Addrs
  <2>3. \A i, j \in 1..n : objects[i] = objects[j] => i = j
    BY <2>1, <2>2
  <2>4. QED
    BY <2>1, <2>2, <2>3 DEF FreeAddrs
<1>4. objects \in Seq(Addrs) /\ Len(objects) = n
  BY <1>1, <1>3, SeqDef
<1>5. \A i \in 1..n : RosterRows[i] \in Row
  BY <1>1, RowsType, OwnedAreRows DEF RosterRows
<1>6. \A i \in 1..n : heap'[objects[i]] \in Row
  <2> SUFFICES ASSUME NEW i \in 1..n PROVE heap'[objects[i]] \in Row
    OBVIOUS
  <2> DEFINE j == CHOOSE k \in 1..n : objects[k] = objects[i]
  <2>1. j \in 1..n
    OBVIOUS
  <2>2. heap'[objects[i]] = RosterRows[j]
    BY <1>2, <1>3
  <2> HIDE DEF j
  <2>3. QED
    BY <1>5, <2>1, <2>2
<1>7. \A a \in Addrs : (\A i \in 1..n : objects[i] # a) => heap'[a] = heap[a]
  BY <1>2
<1> DEFINE copied == {objects[i] : i \in 1..n}
<1>8. \A a \in Addrs : a \in copied \/ heap'[a] = heap[a]
  BY <1>7
<1>9. \A a \in copied : heap'[a] \in Row /\ a \in Addrs /\ a \notin Alive
  BY <1>3, <1>6
<1>10. heap' \in [Addrs -> Row \cup {Freed}]
  <2> HIDE DEF copied
  <2>1. \A a \in Addrs : heap'[a] \in Row \cup {Freed}
    BY <1>8, <1>9 DEF TypeOK
  <2>2. DOMAIN heap' = Addrs /\ heap' = [a \in Addrs |-> heap'[a]]
    BY <1>2
  <2>3. QED
    BY <2>1, <2>2
<1>11. Alive' = Alive \cup copied
  <2> HIDE DEF copied
  <2>1. QED
    BY <1>8, <1>9, FreedIsNoRow DEF Alive
<1>12. PICK f \in Frame :
         /\ SetTop(f) /\ f.copies = objects /\ f.cur = 1
         /\ \/ f.at = "end" /\ UNCHANGED refreshingId /\ n = 0
            \/ f.at = "section" /\ n >= 1 /\ refreshingId' = heap'[objects[1]].id
  <2>1. CASE 1 <= n
    <3> DEFINE f == LoopFrame("section", objects, 1)
    <3>1. f \in Frame /\ f.copies = objects /\ f.cur = 1 /\ f.at = "section"
      BY <1>4, LoopFrameType
    <3>2. SetTop(f) /\ refreshingId' = heap'[objects[1]].id
      BY <1>2, <1>4, <2>1 DEF ReachCopy
    <3> HIDE DEF f
    <3>3. QED
      BY <2>1, <3>1, <3>2
  <2>2. CASE ~(1 <= n)
    <3> DEFINE f == LoopFrame("end", objects, 1)
    <3>1. f \in Frame /\ f.copies = objects /\ f.cur = 1 /\ f.at = "end"
      BY <1>4, LoopFrameType
    <3>2. SetTop(f) /\ UNCHANGED refreshingId
      BY <1>2, <1>4, <2>2 DEF ReachCopy
    <3>3. n = 0
      BY <1>1, <2>2
    <3> HIDE DEF f
    <3>4. QED
      BY <3>1, <3>2, <3>3
  <2>3. QED
    BY <2>1, <2>2
<1>13. stack' \in Seq(Frame) /\ stack' # <<>> /\ Len(stack') = 1 /\ Top' = f
  BY <1>1, <1>12, ReplaceSingle DEF SetTop, Top
<1>14. Pending' = 1..n /\ HeldByWorker' = copied
  BY <1>4, <1>12, <1>13 DEF Pending, HeldByWorker
<1>15. TypeOK'
  <2>1. refreshingId' \in Ids \cup {0}
    BY <1>6, <1>12 DEF TypeOK, Row
  <2>2. QED
    BY <1>1, <1>10, <1>13, <2>1 DEF TypeOK
<1>16. FrameShape'
  BY <1>4, <1>12, <1>13 DEF FrameShape
<1>17. OneOwner'
  <2>1. \A k, l \in Pending' : Top'.copies[k] = Top'.copies[l] => k = l
    BY <1>3, <1>12, <1>13, <1>14
  <2> HIDE DEF copied
  <2>2. QED
    BY <1>1, <1>9, <1>11, <1>14, <2>1, SameOwners DEF OneOwner
<1>18. IndicatorShowsRefresh'
  BY <1>1, <1>12, <1>13 DEF IndicatorShowsRefresh, CurrentCopy
<1>19. QED
  BY <1>15, <1>16, <1>17, <1>18

LEMMA ClearActiveStep ==
  ASSUME IInv, ClearActive
  PROVE  IInv'
<1> USE DEF IInv
<1> DEFINE f == [Top EXCEPT !.at = "ended"]
<1>1. /\ f \in Frame /\ f.at = "ended" /\ f.copies = Top.copies /\ f.cur = Top.cur
      /\ SetTop(f)
  BY TopFrame DEF ClearActive, Frame
<1> HIDE DEF f
<1>2. /\ stack' \in Seq(Frame) /\ stack' # <<>> /\ Len(stack') = 1 /\ Top' = f
      /\ Pending' = Pending /\ HeldByWorker' = HeldByWorker
  BY <1>1, SameCopies DEF ClearActive
<1>3. UNCHANGED <<now, heap, roster, table, mainQueue, posted, refreshingId, phase, forced>>
      /\ active' = FALSE /\ Alive' = Alive
  BY DEF ClearActive, Alive
<1>4. TypeOK'
  BY <1>2, <1>3 DEF TypeOK
<1>5. FrameShape'
  BY <1>1, <1>2, <1>3 DEF FrameShape, ClearActive
<1>6. OneOwner'
  BY <1>1, <1>2, <1>3, SameOwners DEF OneOwner
<1>7. IndicatorShowsRefresh'
  BY <1>1, <1>2, <1>3 DEF IndicatorShowsRefresh
<1>8. QED
  BY <1>4, <1>5, <1>6, <1>7

LEMMA EndRefreshStep ==
  ASSUME IInv, EndRefresh
  PROVE  IInv'
<1> USE DEF IInv
<1>1. /\ stack # <<>> /\ Top.at = "ended" /\ Len(stack) = 1
      /\ refreshingId' = 0
      /\ UNCHANGED <<now, heap, roster, table, mainQueue, posted, active, phase, forced>>
      /\ Alive' = Alive
  BY TopFrame DEF EndRefresh, Alive
<1>2. stack' = <<>>
  BY <1>1, SubSeqEmpty DEF EndRefresh, PopTop
<1>3. Pending' = {} /\ HeldByWorker' = {}
  BY <1>2 DEF Pending, HeldByWorker
<1>4. phase = "running" => HeldByWorker = {}
  BY <1>1, TopFrame DEF FrameShape, Pending, HeldByWorker, Frame
<1>5. TypeOK'
  BY <1>1, <1>2, EmptySeq DEF TypeOK
<1>6. FrameShape'
  BY <1>2 DEF FrameShape
<1>7. OneOwner'
  BY <1>1, <1>3, <1>4, SameOwners DEF OneOwner
<1>8. IndicatorShowsRefresh'
  BY <1>1, <1>2, EmptySeq DEF IndicatorShowsRefresh
<1>9. QED
  BY <1>5, <1>6, <1>7, <1>8

-----------------------------------------------------------------------------
(* Start of the application, and the theorem.                              *)

(* loadCharacters gives every row of the table an object of its own.       *)
LEMMA LoadedObjects ==
  ASSUME TableFits, table \subseteq Row, NEW rows \in LoadCharacters(table)
  PROVE  /\ Len(rows) \in 0..MaxObjects
         /\ [i \in 1..Len(rows) |-> i] \in Seq(Addrs)
         /\ Len([i \in 1..Len(rows) |-> i]) = Len(rows)
         /\ Loaded(rows) \in [Addrs -> Row \cup {Freed}]
         /\ {a \in Addrs : Loaded(rows)[a] # Freed} = 1..Len(rows)
<1>1. Cardinality(table) \in Nat /\ rows \in [1..Cardinality(table) -> table]
  BY BoundsAssumption DEF TableFits, LoadCharacters
<1>2. Len(rows) = Cardinality(table) /\ Len(rows) \in 0..MaxObjects
  BY <1>1 DEF TableFits
<1>3. \A i \in 1..Len(rows) : i \in Addrs /\ rows[i] \in Row /\ rows[i] # Freed
  BY <1>1, <1>2, FreedIsNoRow, BoundsAssumption DEF Addrs
<1>4. [i \in 1..Len(rows) |-> i] \in [1..Len(rows) -> Addrs]
  BY <1>3
<1>5. QED
  BY <1>2, <1>3, <1>4, SeqDef DEF Loaded

(* The state of a process that has just loaded its characters.             *)
Fresh ==
  /\ TableFits /\ table \subseteq Row /\ now \in Nat
  /\ \E rows \in LoadCharacters(table) :
        roster = [i \in 1..Len(rows) |-> i] /\ heap = Loaded(rows)
  /\ mainQueue = <<>> /\ posted = 1 /\ stack = <<>> /\ active = FALSE
  /\ refreshingId = 0 /\ phase = "running" /\ forced = {}

LEMMA FreshInvariant == Fresh => IInv
<1> SUFFICES ASSUME Fresh PROVE IInv
  OBVIOUS
<1>1. PICK rows \in LoadCharacters(table) :
        roster = [i \in 1..Len(rows) |-> i] /\ heap = Loaded(rows)
  BY DEF Fresh
<1>2. /\ roster \in Seq(Addrs) /\ Len(roster) = Len(rows) /\ Len(rows) \in 0..MaxObjects
      /\ heap \in [Addrs -> Row \cup {Freed}]
      /\ Alive = 1..Len(rows)
  BY <1>1, LoadedObjects DEF Alive, Fresh
<1>3. TypeOK
  BY <1>2, EmptySeq DEF TypeOK, Fresh
<1>4. FrameShape
  BY DEF FrameShape, Fresh
<1>5. HeldByRoster = 1..Len(rows) /\ Updates = {} /\ Pending = {}
  BY <1>1, <1>2, EmptySeq DEF HeldByRoster, Updates, Pending, Fresh
<1>6. HeldByQueue = {} /\ HeldByWorker = {}
  BY <1>5 DEF HeldByQueue, HeldByWorker
<1>7. OneOwner
  BY <1>1, <1>2, <1>5, <1>6 DEF OneOwner
<1>8. IndicatorShowsRefresh
  BY EmptySeq DEF IndicatorShowsRefresh, Fresh
<1>9. QED
  BY <1>3, <1>4, <1>7, <1>8 DEF IInv

LEMMA InitInvariant == Init => IInv
<1>1. Init => Fresh
  BY NewRowType DEF Init, Fresh
<1>2. QED
  BY <1>1, FreshInvariant

LEMMA RestartStep == IInv /\ Restart => IInv'
<1>1. IInv /\ Restart => Fresh'
  BY DEF Restart, IInv, TypeOK, Fresh, TableFits
<1>2. QED
  BY <1>1, FreshInvariant, PTL

LEMMA QuietActions ==
  ASSUME IInv,
         \/ RequestRefresh \/ RequestInterruption \/ QuitThread
         \/ SkipRefresh \/ ThreadEnds \/ Tick \/ Ended \/ UNCHANGED vars
  PROVE  IInv'
<1> USE DEF IInv, TypeOK, workerVars
<1>1. CASE RequestRefresh
  BY <1>1, QuietStep DEF RequestRefresh, PostRefresh
<1>2. CASE RequestInterruption
  BY <1>2, QuietStep DEF RequestInterruption
<1>3. CASE QuitThread
  BY <1>3, QuietStep DEF QuitThread
<1>4. CASE SkipRefresh
  BY <1>4, QuietStep DEF SkipRefresh
<1>5. CASE ThreadEnds
  BY <1>5, QuietStep DEF ThreadEnds
<1>6. CASE Tick
  BY <1>6, QuietStep DEF Tick
<1>7. CASE Ended \/ UNCHANGED vars
  BY <1>7, QuietStep DEF Ended, vars
<1>8. QED
  BY <1>1, <1>2, <1>3, <1>4, <1>5, <1>6, <1>7

LEMMA NextInvariant == IInv /\ [Next]_vars => IInv'
<1> SUFFICES ASSUME IInv, [Next]_vars PROVE IInv'
  OBVIOUS
<1>1. CASE MainStep
  BY <1>1, LoginStep, RemoveStep, UpdateStep, RefreshNewCharacterStep, ForceSectionStep,
     QuietActions DEF MainStep
<1>2. CASE WorkerStep
  BY <1>2, BeginRefreshStep, ServerStatusStep, CopyCharactersStep, SkipSectionStep,
     RefreshSectionStep, HandOverStep, DeleteCopyStep, ClearActiveStep, EndRefreshStep,
     QuietActions DEF WorkerStep, RefreshProgress
<1>3. CASE Tick \/ Ended \/ UNCHANGED vars
  BY <1>3, QuietActions
<1>4. CASE Restart
  BY <1>4, RestartStep
<1>5. QED
  BY <1>1, <1>2, <1>3, <1>4 DEF Next

LEMMA Invariant == Spec => []IInv
  BY InitInvariant, NextInvariant, PTL DEF Spec

(* Every variable keeps its type: the list, the queue and the refreshes    *)
(* hold addresses only, and no deleted character is written to the table.  *)
THEOREM TypeCorrect == Spec => []TypeOK
<1>1. IInv => TypeOK
  BY DEF IInv
<1>2. QED
  BY <1>1, Invariant, PTL

(* Copies of characters travel from refresh() to updateCharacter without   *)
(* being shared, deleted twice, used after their deletion, or leaked while *)
(* the application runs.                                                   *)
THEOREM Ownership == Spec => []OneOwner
<1>1. IInv => OneOwner
  BY DEF IInv
<1>2. QED
  BY <1>1, Invariant, PTL

(* refresh() is never nested in itself, and m_active and                   *)
(* m_refreshingCharacterId tell the UI what it is doing.                   *)
THEOREM Indicator == Spec => []IndicatorShowsRefresh
<1>1. IInv => IndicatorShowsRefresh
  BY DEF IInv
<1>2. QED
  BY <1>1, Invariant, PTL

=============================================================================
