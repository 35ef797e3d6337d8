------------------------ MODULE SkillTrainingProofs ------------------------
(***************************************************************************)
(* Proofs about SkillTraining: the predicted levels and queue are those of *)
(* the plan, and the tick announces nothing twice, for every plan.         *)
(***************************************************************************)
EXTENDS SkillTraining, FiniteSetTheorems, SequenceTheorems, TLAPS

(* The character shows the state of the plan at time t.                    *)
AsPlanned(char, t) ==
  char.levels = PlannedLevels(t) /\ char.queue = PlannedQueue(t)

(* A sound copy shows the state of some time that has passed.              *)
Aged(char, t) == char.sound => \E u \in 1..t : AsPlanned(char, u)

(* What the answers have made of the copy that is being refreshed.         *)
AnswersAged(w, t) ==
  /\ w.skillsAt = -1 /\ w.queueAt = -1 => Aged(w.copy, t)
  /\ w.skillsAt # -1 => /\ w.skillsAt \in 1..t
                        /\ w.copy.levels = PlannedLevels(w.skillsAt)
  /\ w.queueAt # -1 => /\ w.queueAt \in 1..t
                       /\ w.copy.queue = PlannedQueue(w.queueAt)

(* What the copies under way are, as long as the player trains.            *)
CopiesAged ==
  ~paused =>
    /\ Aged(saved, now)
    /\ \A k \in 1..Len(posted) : Aged(posted[k], now)
    /\ AnswersAged(worker, now)

(* The last calculation of the row parts what was announced from what is   *)
(* still to come.                                                          *)
QueueAhead ==
  /\ \A i \in row.queue : i.finish >= shown
  /\ \A i \in announced : i.finish < shown

IInv == TypeOK /\ LevelsAsPlanned /\ CopiesAged /\ QueueAhead

-----------------------------------------------------------------------------
LEMMA ItemType ==
  \A i \in Items : i.skill \in Skills /\ i.finish \in Nat
<1>1. \A i \in Plan : i.skill \in Skills /\ i.finish \in Nat
  BY PlanAssumption
<1>2. \A i \in Undated(Plan) : i.skill \in Skills /\ i.finish \in Nat
  BY PlanAssumption DEF Undated, NoDate
<1>3. QED
  BY <1>1, <1>2 DEF Items

LEMMA ItemsFinite == IsFiniteSet(Items)
<1> DEFINE undated == [i \in Plan |-> [i EXCEPT !.finish = NoDate]]
<1>1. undated \in Surjection(Plan, Undated(Plan))
  BY DEF Surjection, Undated
<1>2. IsFiniteSet(Undated(Plan))
  BY <1>1, PlanAssumption, FS_Surjection
<1>3. QED
  BY <1>2, PlanAssumption, FS_Union DEF Items

(* The number of items of a skill in a part of the items.                  *)
LEMMA CountType ==
  ASSUME NEW items \in SUBSET Items, NEW s
  PROVE  /\ IsFiniteSet(OfSkill(items, s))
         /\ Cardinality(OfSkill(items, s)) \in Nat
<1>1. OfSkill(items, s) \in SUBSET Items
  BY DEF OfSkill
<1>2. IsFiniteSet(OfSkill(items, s))
  BY <1>1, ItemsFinite, FS_Subset
<1>3. QED
  BY <1>2, FS_CardinalityType

LEMMA LevelledUpType ==
  ASSUME NEW levels \in LevelsSet, NEW items \in SUBSET Items
  PROVE  LevelledUp(levels, items) \in LevelsSet
<1>1. \A s \in DOMAIN levels : levels[s] + Cardinality(OfSkill(items, s)) \in Nat
  BY CountType DEF LevelsSet
<1>2. DOMAIN levels \in {Skills, {}}
  BY DEF LevelsSet
<1>3. QED
  BY <1>1, <1>2 DEF LevelledUp, LevelsSet

(* calcSkillQueue by fields.                                               *)
LEMMA CalcFields ==
  ASSUME NEW char \in Chars, NEW t \in Nat
  PROVE  /\ CalcSkillQueue(char, t) \in Chars
         /\ CalcSkillQueue(char, t).levels
              = LevelledUp(char.levels, FinishedBefore(char.queue, t))
         /\ CalcSkillQueue(char, t).queue
              = char.queue \ FinishedBefore(char.queue, t)
         /\ CalcSkillQueue(char, t).sound = char.sound
<1> DEFINE lv == LevelledUp(char.levels, FinishedBefore(char.queue, t))
           qu == char.queue \ FinishedBefore(char.queue, t)
<1>1. char.levels \in LevelsSet /\ char.queue \in SUBSET Items /\ char.sound \in BOOLEAN
  BY DEF Chars
<1>2. FinishedBefore(char.queue, t) \in SUBSET Items
  BY <1>1 DEF FinishedBefore
<1>3. lv \in LevelsSet
  BY <1>1, <1>2, LevelledUpType
<1>4. qu \in SUBSET Items
  BY <1>1
<1>5. CalcSkillQueue(char, t) = [char EXCEPT !.levels = lv, !.queue = qu]
  BY DEF CalcSkillQueue
<1> HIDE DEF lv, qu
<1>6. CalcSkillQueue(char, t) = [levels |-> lv, queue |-> qu, sound |-> char.sound]
  BY <1>5 DEF Chars
<1>7. QED
  BY <1>1, <1>3, <1>4, <1>6 DEF Chars, lv, qu

LEMMA PlannedType ==
  ASSUME NEW t \in Nat
  PROVE  PlannedLevels(t) \in [Skills -> Nat] /\ PlannedQueue(t) \in SUBSET Items
<1>1. FinishedBefore(Plan, t) \in SUBSET Items
  BY DEF FinishedBefore, Items
<1>2. \A s \in Skills :
        Levels0[s] + Cardinality(OfSkill(FinishedBefore(Plan, t), s)) \in Nat
  BY <1>1, CountType, PlanAssumption
<1>3. PlannedLevels(t) \in [Skills -> Nat]
  BY <1>2 DEF PlannedLevels
<1>4. PlannedQueue(t) \in SUBSET Items
  BY DEF PlannedQueue, Items
<1>5. QED
  BY <1>3, <1>4

(* The prediction: a character as planned at t is, when calculated at a    *)
(* later time u, as planned at u.                                          *)
LEMMA CalcPlanned ==
  ASSUME NEW char \in Chars, NEW t \in Nat, NEW u \in Nat, t <= u, AsPlanned(char, t)
  PROVE  AsPlanned(CalcSkillQueue(char, u), u)
<1> DEFINE before == FinishedBefore(Plan, t)
           next   == FinishedBefore(char.queue, u)
           after  == FinishedBefore(Plan, u)
<1>1. char.queue = Plan \ before /\ char.levels = PlannedLevels(t)
  BY DEF AsPlanned, PlannedQueue
<1>2. \A i \in Plan : i.finish \in Nat
  BY PlanAssumption
<1>3. before \cap next = {} /\ before \cup next = after
  BY <1>1, <1>2 DEF FinishedBefore
<1>4. before \in SUBSET Items /\ next \in SUBSET Items
  BY <1>1 DEF FinishedBefore, Items
<1> HIDE DEF before, next, after
<1>5. char.queue \ next = PlannedQueue(u)
  BY <1>1, <1>3 DEF PlannedQueue, after
<1>6. \A s \in Skills : char.levels[s] + Cardinality(OfSkill(next, s)) = PlannedLevels(u)[s]
  <2> SUFFICES ASSUME NEW s \in Skills
               PROVE  char.levels[s] + Cardinality(OfSkill(next, s)) = PlannedLevels(u)[s]
    OBVIOUS
  <2>1. /\ OfSkill(before, s) \cap OfSkill(next, s) = {}
        /\ OfSkill(before, s) \cup OfSkill(next, s) = OfSkill(after, s)
    BY <1>3 DEF OfSkill
  <2>2. /\ IsFiniteSet(OfSkill(before, s)) /\ Cardinality(OfSkill(before, s)) \in Nat
        /\ IsFiniteSet(OfSkill(next, s)) /\ Cardinality(OfSkill(next, s)) \in Nat
    BY <1>4, CountType
  <2>3. Cardinality(OfSkill(after, s))
          = Cardinality(OfSkill(before, s)) + Cardinality(OfSkill(next, s))
    BY <2>1, <2>2, FS_Union, FS_EmptySet
  <2>4. char.levels[s] = Levels0[s] + Cardinality(OfSkill(before, s))
    BY <1>1 DEF PlannedLevels, before
  <2>5. PlannedLevels(u)[s] = Levels0[s] + Cardinality(OfSkill(after, s))
    BY DEF PlannedLevels, after
  <2>6. Levels0[s] \in Nat
    BY PlanAssumption
  <2>7. QED
    BY <2>2, <2>3, <2>4, <2>5, <2>6
<1>7. DOMAIN char.levels = Skills /\ DOMAIN PlannedLevels(u) = Skills
  BY <1>1 DEF PlannedLevels
<1>8. LevelledUp(char.levels, next) = PlannedLevels(u)
  <2>1. LevelledUp(char.levels, next)
          = [s \in Skills |-> char.levels[s] + Cardinality(OfSkill(next, s))]
    BY <1>7 DEF LevelledUp
  <2>2. LevelledUp(char.levels, next) = [s \in Skills |-> PlannedLevels(u)[s]]
    BY <2>1, <1>6
  <2>3. PlannedLevels(u) = [s \in Skills |-> PlannedLevels(u)[s]]
    BY DEF PlannedLevels
  <2>4. QED
    BY <2>2, <2>3
<1>9. QED
  BY <1>5, <1>8, CalcFields DEF AsPlanned, next

(* A copy, whatever its age, is as planned now once it is calculated.      *)
LEMMA CalcAged ==
  ASSUME NEW char \in Chars, NEW t \in Nat, Aged(char, t)
  PROVE  CalcSkillQueue(char, t).sound => AsPlanned(CalcSkillQueue(char, t), t)
<1> SUFFICES ASSUME CalcSkillQueue(char, t).sound
             PROVE  AsPlanned(CalcSkillQueue(char, t), t)
  OBVIOUS
<1>1. char.sound
  BY CalcFields
<1>2. PICK u \in 1..t : AsPlanned(char, u)
  BY <1>1 DEF Aged
<1>3. QED
  BY <1>2, CalcPlanned

LEMMA CalcAhead ==
  ASSUME NEW char \in Chars, NEW t \in Nat
  PROVE  /\ \A i \in CalcSkillQueue(char, t).queue : i.finish >= t
         /\ \A i \in Completed(char, t) : i \in Items /\ i.finish < t
<1>1. char.queue \in SUBSET Items
  BY DEF Chars
<1>2. \A i \in char.queue : i.finish \in Nat
  BY <1>1, ItemType
<1>3. \A i \in Completed(char, t) : i \in Items /\ i.finish < t
  BY <1>1 DEF Completed, FinishedBefore
<1>4. \A i \in CalcSkillQueue(char, t).queue : i \in char.queue /\ ~(i.finish < t)
  BY CalcFields DEF FinishedBefore
<1>5. QED
  BY <1>2, <1>3, <1>4

LEMMA AgedLater ==
  ASSUME NEW char, NEW t \in Nat, NEW u \in Nat, t <= u, Aged(char, t)
  PROVE  Aged(char, u)
<1>1. 1..t \subseteq 1..u
  OBVIOUS
<1>2. QED
  BY <1>1 DEF Aged

LEMMA AnswersLater ==
  ASSUME NEW w, NEW t \in Nat, NEW u \in Nat, t <= u, AnswersAged(w, t)
  PROVE  AnswersAged(w, u)
<1>1. 1..t \subseteq 1..u
  OBVIOUS
<1>2. w.skillsAt = -1 /\ w.queueAt = -1 => Aged(w.copy, u)
  BY AgedLater DEF AnswersAged
<1>3. QED
  BY <1>1, <1>2 DEF AnswersAged

(* Actions that leave the row and what was announced as they are.          *)
LEMMA SameRow ==
  ASSUME IInv, paused => paused', UNCHANGED <<row, shown, announced>>
  PROVE  LevelsAsPlanned' /\ QueueAhead'
<1>1. LevelsAsPlanned'
  BY DEF IInv, LevelsAsPlanned
<1>2. QueueAhead'
  BY DEF IInv, QueueAhead
<1>3. QED
  BY <1>1, <1>2

(* Actions that leave the copies as they are.                              *)
LEMMA SameCopies ==
  ASSUME IInv, now \in Nat, now' \in Nat, now <= now', paused => paused',
         UNCHANGED <<saved, posted, worker>>
  PROVE  CopiesAged'
<1> SUFFICES ASSUME ~paused'
             PROVE  /\ Aged(saved, now')
                    /\ \A k \in 1..Len(posted) : Aged(posted[k], now')
                    /\ AnswersAged(worker, now')
  BY DEF CopiesAged
<1>1. /\ Aged(saved, now)
      /\ \A k \in 1..Len(posted) : Aged(posted[k], now)
      /\ AnswersAged(worker, now)
  BY DEF IInv, CopiesAged
<1>2. QED
  BY <1>1, AgedLater, AnswersLater

(* A row that has just been calculated.                                    *)
LEMMA CalculatedRow ==
  ASSUME IInv, NEW char \in Chars, ~paused' => Aged(char, now),
         row' = CalcSkillQueue(char, now), shown' = now,
         \/ announced' = announced
         \/ announced' = announced \cup Completed(char, now)
  PROVE  /\ row' \in Chars
         /\ announced' \subseteq Items
         /\ LevelsAsPlanned'
         /\ QueueAhead'
<1>1. now \in Nat /\ shown \in Nat /\ shown <= now /\ announced \subseteq Items
  BY DEF IInv, TypeOK
<1>2. row' \in Chars
  BY <1>1, CalcFields
<1>3. announced' \subseteq Items
  BY <1>1, CalcAhead
<1>4. LevelsAsPlanned'
  <2>1. ~paused' /\ row'.sound => AsPlanned(row', now)
    BY <1>1, CalcAged
  <2>2. QED
    BY <2>1 DEF LevelsAsPlanned, AsPlanned
<1>5. QueueAhead'
  <2>1. \A i \in row'.queue : i.finish >= now
    BY <1>1, CalcAhead
  <2>2. \A i \in announced : i.finish < now
    <3>1. \A i \in announced : i.finish \in Nat /\ i.finish < shown
      BY <1>1, ItemType DEF IInv, QueueAhead
    <3>2. QED
      BY <1>1, <3>1
  <2>3. \A i \in announced' : i.finish < now
    BY <1>1, <2>2, CalcAhead
  <2>4. QED
    BY <2>1, <2>3 DEF QueueAhead
<1>6. QED
  BY <1>2, <1>3, <1>4, <1>5

(* The parts of the type invariant that the steps of the worker keep.      *)
LEMMA WorkerType ==
  ASSUME TypeOK, UNCHANGED <<now, game, row, shown, saved, announced>>,
         worker' \in Refresh, {worker'.skillsAt, worker'.queueAt} \subseteq -1..now,
         posted' \in Seq(Chars)
  PROVE  TypeOK'
  BY DEF TypeOK, game

(* The step of the worker sends nothing: it is about its own record.       *)
LEMMA WorkerStepInvariant ==
  ASSUME IInv, UNCHANGED <<now, game, row, shown, saved, posted, announced>>,
         worker' \in Refresh, {worker'.skillsAt, worker'.queueAt} \subseteq -1..now,
         ~paused => AnswersAged(worker', now)
  PROVE  IInv'
<1>1. TypeOK'
  BY WorkerType DEF IInv, TypeOK
<1>2. LevelsAsPlanned' /\ QueueAhead'
  BY SameRow DEF game
<1>3. CopiesAged'
  BY DEF IInv, CopiesAged, game
<1>4. QED
  BY <1>1, <1>2, <1>3 DEF IInv

-----------------------------------------------------------------------------
LEMMA NewCharacterType == NewCharacter \in Chars /\ NewCharacter.sound = FALSE
  BY DEF NewCharacter, Chars, LevelsSet

LEMMA IdleType ==
  Idle \in Refresh /\ Idle.skillsAt = -1 /\ Idle.queueAt = -1 /\ Idle.copy = NewCharacter
  BY NewCharacterType DEF Idle, Refresh

LEMMA IdleAged == \A t : AnswersAged(Idle, t)
  BY IdleType, NewCharacterType DEF AnswersAged, Aged

LEMMA InitInvariant == Init => IInv
<1> SUFFICES ASSUME Init PROVE IInv
  OBVIOUS
<1>1. TypeOK
  <2>1. posted \in Seq(Chars)
    <3>1. posted = <<>>
      BY DEF Init
    <3>2. <<>> \in Seq(Chars)
      BY EmptySeq
    <3>3. QED
      BY <3>1, <3>2
  <2>2. now = 1 /\ booked \in 1..now /\ shown \in 1..now /\ paused \in BOOLEAN
    <3>1. now = 1 /\ booked = 1 /\ shown = 1
      BY DEF Init
    <3>2. paused \in BOOLEAN
      BY DEF Init
    <3>3. QED
      BY <3>1, <3>2
  <2>3. worker = Idle /\ row \in Chars /\ saved \in Chars /\ announced = {}
    BY NewCharacterType DEF Init
  <2>4. {worker.skillsAt, worker.queueAt} \subseteq -1..now
    BY <2>2, <2>3, IdleType
  <2>5. QED
    BY <2>1, <2>2, <2>3, <2>4, IdleType DEF TypeOK
<1>2. LevelsAsPlanned
  BY NewCharacterType DEF Init, LevelsAsPlanned
<1>3. CopiesAged
  BY IdleAged, NewCharacterType DEF Init, CopiesAged, Aged
<1>4. QueueAhead
  BY DEF Init, QueueAhead, NewCharacter
<1>5. QED
  BY <1>1, <1>2, <1>3, <1>4 DEF IInv

LEMMA AdvanceStep == IInv /\ Advance => IInv'
<1> SUFFICES ASSUME IInv, Advance PROVE IInv'
  OBVIOUS
<1>1. now \in Nat /\ now' = now + 1
  BY DEF IInv, TypeOK, Advance
<1>2. TypeOK'
  BY <1>1 DEF IInv, TypeOK, Advance, game
<1>3. LevelsAsPlanned' /\ QueueAhead'
  BY SameRow DEF Advance, game
<1>4. CopiesAged'
  BY <1>1, SameCopies DEF Advance, game
<1>5. QED
  BY <1>2, <1>3, <1>4 DEF IInv

(* The game and the table change alone.                                    *)
LEMMA GameStep == IInv /\ (Book \/ Pause) => IInv'
<1> SUFFICES ASSUME IInv, Book \/ Pause PROVE IInv'
  OBVIOUS
<1>1. now \in Nat \ {0} /\ now' = now /\ booked' = now
  BY DEF IInv, TypeOK, Book, Pause
<1>2. paused' \in BOOLEAN /\ (paused => paused')
  BY DEF IInv, TypeOK, Book, Pause
<1>3. UNCHANGED <<row, shown, saved, worker, posted, announced>>
  BY DEF Book, Pause
<1>4. TypeOK'
  BY <1>1, <1>2, <1>3 DEF IInv, TypeOK
<1>5. LevelsAsPlanned' /\ QueueAhead'
  BY <1>2, <1>3, SameRow
<1>6. CopiesAged'
  BY <1>1, <1>2, <1>3, SameCopies
<1>7. QED
  BY <1>4, <1>5, <1>6 DEF IInv

LEMMA CalcStep == IInv /\ CalcCharactersSkillQueue => IInv'
<1> SUFFICES ASSUME IInv, CalcCharactersSkillQueue PROVE IInv'
  OBVIOUS
<1>1. /\ UNCHANGED <<now, booked, paused, saved, worker, posted>>
      /\ row' = CalcSkillQueue(row, now) /\ shown' = now
      /\ announced' = announced \cup Completed(row, now)
  BY DEF CalcCharactersSkillQueue, game
<1>2. row \in Chars /\ now \in Nat \ {0} /\ shown \in 1..now
  BY DEF IInv, TypeOK
<1>3. ~paused' => Aged(row, now)
  BY <1>1, <1>2 DEF IInv, LevelsAsPlanned, Aged, AsPlanned
<1>4. /\ row' \in Chars /\ announced' \subseteq Items
      /\ LevelsAsPlanned' /\ QueueAhead'
  BY <1>1, <1>2, <1>3, CalculatedRow
<1>5. TypeOK'
  BY <1>1, <1>2, <1>4 DEF IInv, TypeOK
<1>6. CopiesAged'
  BY <1>1, <1>2, SameCopies
<1>7. QED
  BY <1>4, <1>5, <1>6 DEF IInv

LEMMA UpdateStep == IInv /\ UpdateCharacter => IInv'
<1> SUFFICES ASSUME IInv, UpdateCharacter PROVE IInv'
  OBVIOUS
<1> DEFINE copy == Head(posted)
<1>1. /\ UNCHANGED <<now, booked, paused, worker>> /\ posted # <<>>
      /\ row' = CalcSkillQueue(copy, now) /\ shown' = now
      /\ announced' = announced \cup Completed(copy, now)
      /\ saved' = row' /\ posted' = Tail(posted)
  BY DEF UpdateCharacter, game, Copied
<1>2. now \in Nat \ {0} /\ posted \in Seq(Chars)
  BY DEF IInv, TypeOK
<1>3. copy = posted[1] /\ 1 \in 1..Len(posted) /\ copy \in Chars
  BY <1>1, <1>2, HeadTailProperties, EmptySeq
<1>4. ~paused' => Aged(copy, now)
  BY <1>1, <1>3 DEF IInv, CopiesAged
<1> HIDE DEF copy
<1>5. /\ row' \in Chars /\ announced' \subseteq Items
      /\ LevelsAsPlanned' /\ QueueAhead'
  BY <1>1, <1>2, <1>3, <1>4, CalculatedRow
<1>6. /\ posted' \in Seq(Chars)
      /\ \A k \in 1..Len(posted') : k + 1 \in 1..Len(posted) /\ posted'[k] = posted[k + 1]
  BY <1>1, <1>2, HeadTailProperties
<1>7. TypeOK'
  BY <1>1, <1>2, <1>5, <1>6 DEF IInv, TypeOK
<1>8. CopiesAged'
  <2> SUFFICES ASSUME ~paused' PROVE /\ Aged(saved', now')
                                     /\ \A k \in 1..Len(posted') : Aged(posted'[k], now')
                                     /\ AnswersAged(worker', now')
    BY DEF CopiesAged
  <2>1. Aged(row', now)
    <3>1. row'.sound => AsPlanned(row', now)
      BY <1>1, <1>2, <1>3, <1>4, CalcAged
    <3>2. now \in 1..now
      BY <1>2
    <3>3. QED
      BY <3>1, <3>2 DEF Aged
  <2>2. \A k \in 1..Len(posted') : Aged(posted'[k], now)
    BY <1>1, <1>6 DEF IInv, CopiesAged
  <2>3. AnswersAged(worker, now)
    BY <1>1 DEF IInv, CopiesAged
  <2>4. QED
    BY <1>1, <2>1, <2>2, <2>3
<1>9. QED
  BY <1>5, <1>7, <1>8 DEF IInv

LEMMA SaveStep == IInv /\ SaveCharacters => IInv'
<1> SUFFICES ASSUME IInv, SaveCharacters PROVE IInv'
  OBVIOUS
<1>1. saved' = row /\ UNCHANGED <<now, booked, paused, row, shown, worker, posted, announced>>
  BY DEF SaveCharacters, game
<1>2. TypeOK'
  BY <1>1 DEF IInv, TypeOK
<1>3. LevelsAsPlanned' /\ QueueAhead'
  BY <1>1, SameRow
<1>4. shown \in 1..now
  BY DEF IInv, TypeOK
<1>5. ~paused => Aged(row, now)
  BY <1>4 DEF IInv, LevelsAsPlanned, Aged, AsPlanned
<1>6. CopiesAged'
  BY <1>1, <1>5 DEF IInv, CopiesAged
<1>7. QED
  BY <1>2, <1>3, <1>6 DEF IInv

LEMMA RestartStep == IInv /\ Restart => IInv'
<1> SUFFICES ASSUME IInv, Restart PROVE IInv'
  OBVIOUS
<1>1. /\ UNCHANGED <<now, booked, paused, saved, announced>>
      /\ row' = CalcSkillQueue(saved, now) /\ shown' = now
      /\ worker' = Idle /\ posted' = <<>>
  BY DEF Restart, game, Copied
<1>2. saved \in Chars /\ now \in Nat \ {0}
  BY DEF IInv, TypeOK
<1>3. ~paused' => Aged(saved, now)
  BY <1>1 DEF IInv, CopiesAged
<1>4. /\ row' \in Chars /\ announced' \subseteq Items
      /\ LevelsAsPlanned' /\ QueueAhead'
  BY <1>1, <1>2, <1>3, CalculatedRow
<1>5. TypeOK'
  BY <1>1, <1>2, <1>4, IdleType DEF IInv, TypeOK
<1>6. CopiesAged'
  BY <1>1, <1>3, IdleAged DEF CopiesAged
<1>7. QED
  BY <1>4, <1>5, <1>6 DEF IInv

-----------------------------------------------------------------------------
LEMMA MakeCopyStep == IInv /\ MakeCopy => IInv'
<1> SUFFICES ASSUME IInv, MakeCopy PROVE IInv'
  OBVIOUS
<1> DEFINE copy == CalcSkillQueue(row, now)
<1>1. row \in Chars /\ now \in Nat \ {0} /\ shown \in 1..now
  BY DEF IInv, TypeOK
<1>2. copy \in Chars
  BY <1>1, CalcFields
<1>3. ~paused => Aged(copy, now)
  <2>1. ~paused => Aged(row, now)
    BY <1>1 DEF IInv, LevelsAsPlanned, Aged, AsPlanned
  <2>2. ~paused /\ copy.sound => AsPlanned(copy, now)
    BY <1>1, <2>1, CalcAged
  <2>3. now \in 1..now
    BY <1>1
  <2>4. QED
    BY <2>2, <2>3 DEF Aged
<1> HIDE DEF copy
<1>4. worker' = [Idle EXCEPT !.at = "attributes", !.copy = copy]
  BY DEF MakeCopy, Copied, copy
<1>5. worker' \in Refresh /\ worker'.skillsAt = -1 /\ worker'.queueAt = -1
        /\ worker'.copy = copy
  BY <1>2, <1>4, IdleType DEF Refresh
<1>6. ~paused => AnswersAged(worker', now)
  BY <1>3, <1>5 DEF AnswersAged
<1>7. UNCHANGED <<now, game, row, shown, saved, posted, announced>>
  BY DEF MakeCopy
<1>8. {worker'.skillsAt, worker'.queueAt} \subseteq -1..now
  BY <1>1, <1>5
<1>9. QED
  BY <1>5, <1>6, <1>7, <1>8, WorkerStepInvariant

(* Steps that fetch nothing.                                               *)
LEMMA NoAnswerStep ==
  IInv /\ (RefreshAttributes \/ SkillsFailed \/ QueueFailed) => IInv'
<1> SUFFICES ASSUME IInv, RefreshAttributes \/ SkillsFailed \/ QueueFailed
             PROVE  IInv'
  OBVIOUS
<1>1. worker \in Refresh /\ {worker.skillsAt, worker.queueAt} \subseteq -1..now
  BY DEF IInv, TypeOK
<1>2. /\ worker' \in Refresh /\ worker'.copy = worker.copy
      /\ worker'.skillsAt = worker.skillsAt /\ worker'.queueAt = worker.queueAt
  <2>1. CASE RefreshAttributes
    <3>1. PICK answered \in BOOLEAN :
            worker' = [worker EXCEPT !.at = "skills", !.updated = answered]
      BY <2>1, Zenon DEF RefreshAttributes
    <3>2. QED
      BY <1>1, <3>1 DEF Refresh
  <2>2. CASE SkillsFailed
    BY <1>1, <2>2 DEF SkillsFailed, Refresh
  <2>3. CASE QueueFailed
    BY <1>1, <2>3 DEF QueueFailed, Refresh
  <2>4. QED
    BY <2>1, <2>2, <2>3
<1>3. ~paused => AnswersAged(worker', now)
  BY <1>2 DEF IInv, CopiesAged, AnswersAged
<1>4. UNCHANGED <<now, game, row, shown, saved, posted, announced>>
  BY DEF RefreshAttributes, SkillsFailed, QueueFailed
<1>5. QED
  BY <1>1, <1>2, <1>3, <1>4, WorkerStepInvariant

LEMMA EsiType ==
  ASSUME TypeOK
  PROVE  EsiLevels \in LevelsSet /\ EsiQueue \in SUBSET Items
<1>1. booked \in Nat
  BY DEF TypeOK
<1>2. EsiLevels \in LevelsSet
  BY <1>1, PlannedType DEF EsiLevels, LevelsSet
<1>3. Undated(PlannedQueue(booked)) \in SUBSET Items
  BY DEF Undated, PlannedQueue, Items
<1>4. QED
  BY <1>1, <1>2, <1>3, PlannedType DEF EsiQueue

LEMMA SkillsAnsweredStep == IInv /\ SkillsAnswered => IInv'
<1> SUFFICES ASSUME IInv, SkillsAnswered PROVE IInv'
  OBVIOUS
<1>1. /\ worker \in Refresh /\ {worker.skillsAt, worker.queueAt} \subseteq -1..now
      /\ booked \in 1..now /\ now \in Nat \ {0}
  BY DEF IInv, TypeOK
<1>2. EsiLevels \in LevelsSet
  BY EsiType DEF IInv
<1> DEFINE copy == [worker.copy EXCEPT !.levels = EsiLevels]
<1>3. copy \in Chars /\ copy.levels = EsiLevels /\ copy.queue = worker.copy.queue
  BY <1>1, <1>2 DEF Refresh, Chars
<1> HIDE DEF copy
<1>4. worker' = [worker EXCEPT !.at = "queue", !.copy = copy, !.skillsAt = booked]
  BY DEF SkillsAnswered, copy
<1>5. /\ worker' \in Refresh /\ worker'.copy = copy
      /\ worker'.skillsAt = booked /\ worker'.queueAt = worker.queueAt
  <2>1. booked \in Int
    BY <1>1
  <2>2. worker \in Refresh /\ copy \in Chars
    BY <1>1, <1>3
  <2>3. QED
    BY <1>4, <2>1, <2>2 DEF Refresh
<1>6. ~paused => AnswersAged(worker', now)
  BY <1>1, <1>3, <1>5 DEF IInv, CopiesAged, AnswersAged, EsiLevels
<1>7. UNCHANGED <<now, game, row, shown, saved, posted, announced>>
  BY DEF SkillsAnswered
<1>8. {worker'.skillsAt, worker'.queueAt} \subseteq -1..now
  BY <1>1, <1>5
<1>9. QED
  BY <1>5, <1>6, <1>7, <1>8, WorkerStepInvariant

LEMMA QueueAnsweredStep == IInv /\ QueueAnswered => IInv'
<1> SUFFICES ASSUME IInv, QueueAnswered PROVE IInv'
  OBVIOUS
<1>1. /\ worker \in Refresh /\ {worker.skillsAt, worker.queueAt} \subseteq -1..now
      /\ booked \in 1..now /\ now \in Nat \ {0}
  BY DEF IInv, TypeOK
<1>2. EsiQueue \in SUBSET Items
  BY EsiType DEF IInv
<1> DEFINE copy == [worker.copy EXCEPT !.queue = EsiQueue]
<1>3. copy \in Chars /\ copy.queue = EsiQueue /\ copy.levels = worker.copy.levels
  BY <1>1, <1>2 DEF Refresh, Chars
<1> HIDE DEF copy
<1>4. worker' = [worker EXCEPT !.at = "done", !.copy = copy, !.queueAt = booked]
  BY DEF QueueAnswered, copy
<1>5. /\ worker' \in Refresh /\ worker'.copy = copy
      /\ worker'.queueAt = booked /\ worker'.skillsAt = worker.skillsAt
  <2>1. booked \in Int
    BY <1>1
  <2>2. worker \in Refresh /\ copy \in Chars
    BY <1>1, <1>3
  <2>3. QED
    BY <1>4, <2>1, <2>2 DEF Refresh
<1>6. ~paused => AnswersAged(worker', now)
  BY <1>1, <1>3, <1>5 DEF IInv, CopiesAged, AnswersAged, EsiQueue
<1>7. UNCHANGED <<now, game, row, shown, saved, posted, announced>>
  BY DEF QueueAnswered
<1>8. {worker'.skillsAt, worker'.queueAt} \subseteq -1..now
  BY <1>1, <1>5
<1>9. QED
  BY <1>5, <1>6, <1>7, <1>8, WorkerStepInvariant

(* What is handed over is sound only if it shows one state of the plan.    *)
LEMMA FetchedAged ==
  ASSUME IInv
  PROVE  Fetched \in Chars /\ (~paused => Aged(Fetched, now))
<1> DEFINE flag == IF worker.skillsAt = -1 /\ worker.queueAt = -1 THEN worker.copy.sound
                   ELSE worker.skillsAt = worker.queueAt
<1>1. worker \in Refresh /\ worker.copy \in Chars
  BY DEF IInv, TypeOK, Refresh
<1>2. flag \in BOOLEAN
  BY <1>1 DEF Chars
<1>3. Fetched = [worker.copy EXCEPT !.sound = flag]
  BY DEF Fetched
<1> HIDE DEF flag
<1>4. /\ Fetched \in Chars /\ Fetched.sound = flag
      /\ Fetched.levels = worker.copy.levels /\ Fetched.queue = worker.copy.queue
  BY <1>1, <1>2, <1>3 DEF Chars
<1>5. ASSUME ~paused, flag PROVE \E t \in 1..now : AsPlanned(Fetched, t)
  <2>1. AnswersAged(worker, now)
    BY <1>5 DEF IInv, CopiesAged
  <2>2. CASE worker.skillsAt = -1 /\ worker.queueAt = -1
    <3>1. worker.copy.sound
      BY <1>5, <2>2 DEF flag
    <3>2. PICK t \in 1..now : AsPlanned(worker.copy, t)
      BY <2>1, <2>2, <3>1 DEF AnswersAged, Aged
    <3>3. QED
      BY <1>4, <3>2 DEF AsPlanned
  <2>3. CASE ~(worker.skillsAt = -1 /\ worker.queueAt = -1)
    <3>1. worker.skillsAt = worker.queueAt /\ worker.skillsAt # -1
      BY <1>5, <2>3 DEF flag
    <3>2. QED
      BY <1>4, <2>1, <3>1 DEF AnswersAged, AsPlanned
  <2>4. QED
    BY <2>2, <2>3
<1>6. QED
  BY <1>4, <1>5 DEF Aged

LEMMA HandOverStep == IInv /\ HandOver => IInv'
<1> SUFFICES ASSUME IInv, HandOver PROVE IInv'
  OBVIOUS
<1>1. /\ posted' = Append(posted, Fetched) /\ worker' = Idle
      /\ UNCHANGED <<now, game, row, shown, saved, announced>>
  BY DEF HandOver
<1>2. posted \in Seq(Chars) /\ now \in Nat
  BY DEF IInv, TypeOK
<1>3. /\ posted' \in Seq(Chars)
      /\ \A k \in 1..Len(posted') :
            posted'[k] = Fetched \/ (k \in 1..Len(posted) /\ posted'[k] = posted[k])
  BY <1>1, <1>2, FetchedAged, AppendProperties
<1>4. TypeOK'
  <2>1. {worker'.skillsAt, worker'.queueAt} \subseteq -1..now
    BY <1>1, <1>2, IdleType
  <2>2. QED
    BY <1>1, <1>3, <2>1, IdleType, WorkerType DEF IInv
<1>5. LevelsAsPlanned' /\ QueueAhead'
  BY <1>1, SameRow DEF game
<1>6. CopiesAged'
  BY <1>1, <1>3, FetchedAged, IdleAged DEF IInv, CopiesAged, game
<1>7. QED
  BY <1>4, <1>5, <1>6 DEF IInv

LEMMA DeleteCopyStep == IInv /\ DeleteCopy => IInv'
<1> SUFFICES ASSUME IInv, DeleteCopy PROVE IInv'
  OBVIOUS
<1>1. now \in Nat
  BY DEF IInv, TypeOK
<1>2. {Idle.skillsAt, Idle.queueAt} \subseteq -1..now
  BY <1>1, IdleType
<1>3. QED
  BY <1>2, IdleType, IdleAged, WorkerStepInvariant DEF DeleteCopy

-----------------------------------------------------------------------------
LEMMA NextInvariant == IInv /\ [Next]_vars => IInv'
<1> SUFFICES ASSUME IInv, [Next]_vars PROVE IInv'
  OBVIOUS
<1>1. CASE UNCHANGED vars
  <2>1. TypeOK'
    BY <1>1 DEF IInv, TypeOK, vars
  <2>2. LevelsAsPlanned' /\ CopiesAged' /\ QueueAhead'
    BY <1>1 DEF IInv, LevelsAsPlanned, CopiesAged, QueueAhead, vars
  <2>3. QED
    BY <2>1, <2>2 DEF IInv
<1>2. CASE Next
  BY <1>2, AdvanceStep, GameStep, CalcStep, UpdateStep, SaveStep, RestartStep,
     MakeCopyStep, NoAnswerStep, SkillsAnsweredStep, QueueAnsweredStep,
     HandOverStep, DeleteCopyStep DEF Next
<1>3. QED
  BY <1>1, <1>2

LEMMA SkillInvariant == Spec => []IInv
<1>1. QED
  BY InitInvariant, NextInvariant, PTL DEF Spec

(* The type invariant: refresh_skills, calcSkillQueue and the copies keep  *)
(* levels and queues in their types.                                       *)
THEOREM TypeCorrect == Spec => []TypeOK
<1>1. IInv => TypeOK
  BY DEF IInv
<1>2. QED
  BY <1>1, SkillInvariant, PTL

(* The prediction of calcSkillQueue is exact for every plan, every age and *)
(* every order of the copies, while the player trains.                     *)
THEOREM Prediction == Spec => []LevelsAsPlanned
<1>1. IInv => LevelsAsPlanned
  BY DEF IInv
<1>2. QED
  BY <1>1, SkillInvariant, PTL

(* The tick that runs every second announces no completion twice, an item  *)
(* being told by its skill, its level and its dates.                       *)
THEOREM Announcements == Spec => TickAnnouncesOnce
<1>1. IInv /\ [Next]_vars
        => [CalcCharactersSkillQueue => announced \cap Completed(row, now) = {}]_vars
  <2> SUFFICES ASSUME IInv PROVE announced \cap Completed(row, now) = {}
    OBVIOUS
  <2>1. \A i \in Completed(row, now) : i \in row.queue
    BY DEF Completed, FinishedBefore
  <2>2. row.queue \subseteq Items /\ shown \in Nat
    BY DEF IInv, TypeOK, Chars
  <2>3. \A i \in row.queue : i.finish \in Nat
    BY <2>2, ItemType
  <2>4. QED
    BY <2>1, <2>2, <2>3 DEF IInv, QueueAhead
<1>2. QED
  BY <1>1, SkillInvariant, PTL DEF Spec, TickAnnouncesOnce

=============================================================================
