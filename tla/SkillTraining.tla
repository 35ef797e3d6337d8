--------------------------- MODULE SkillTraining ---------------------------
(***************************************************************************)
(* The skills of one character: what the game trains, what ESI answers,    *)
(* and what the application predicts between two answers.                  *)
(*                                                                         *)
(* The game trains the queue in real time but books finished levels only   *)
(* when the player looks, so ESI goes on listing them in the queue.        *)
(* Character::calcSkillQueue therefore removes the finished items itself   *)
(* and levels their skills up.  It runs on the row of the model once a     *)
(* second in the main thread, on every copy the worker makes, on every     *)
(* copy that is assigned back and on every row read from the database.     *)
(***************************************************************************)
EXTENDS Integers, Sequences, FiniteSets

CONSTANTS
  Skills,      \* ids of skills
  Plan,        \* the training queue of the player: [skill, level, finish]
  Levels0,     \* the levels before any of Plan is trained
  MaxTime,     \* bound: the clock stops here
  MaxLevel,    \* bound: no answer is waited for that would lead past this level
  MaxPosted    \* bound: copies waiting in the queue of the main thread

ASSUME PlanAssumption ==
  /\ IsFiniteSet(Skills)
  /\ IsFiniteSet(Plan)
  /\ Plan \subseteq [skill : Skills, level : Nat, finish : Nat \ {0}]
  /\ \A p, q \in Plan : p # q => p.finish # q.finish
  /\ Levels0 \in [Skills -> Nat]
ASSUME BoundsAssumption == {MaxTime, MaxLevel, MaxPosted} \subseteq Nat

(* The finish date of an item without one: "" is read as a null QDateTime, *)
(* which is less than every date.  ESI leaves the dates out while the      *)
(* queue is paused.                                                        *)
NoDate == 0
Undated(items) == {[i EXCEPT !.finish = NoDate] : i \in items}

Items == Plan \cup Undated(Plan)

(* A character before its first /skills answer has no skills at all.       *)
LevelsSet == [Skills -> Nat] \cup [{} -> Nat]

(* The members of Character that matter here, m_skills and m_skillQueue,   *)
(* and history: whether the two come from one state of the game.           *)
Chars == [levels : LevelsSet, queue : SUBSET Items, sound : BOOLEAN]
NewCharacter ==
  [levels |-> [s \in {} |-> 0], queue |-> {}, sound |-> FALSE]

VARIABLES
  now,        \* the clock
  booked,     \* the game has booked what finished before this time
  paused,     \* the player has stopped the training
  row,        \* the character in CharacterModel::m_characters
  shown,      \* when calcSkillQueue last ran on the row
  saved,      \* the row of the characters table
  worker,     \* the refresh of this character under way
  posted,     \* copies in queued characterUpdated signals, oldest first
  announced   \* history: items whose completion was signalled to the model

vars == <<now, booked, paused, row, shown, saved, worker, posted, announced>>

game == <<booked, paused>>

(* refresh_skills is before the request for the attributes ("attributes"), *)
(* the skills, the queue, or is through; "skillsAt" and "queueAt" are      *)
(* history: what the game had booked at the answers, -1 without one.       *)
Idle == [at |-> "idle", copy |-> NewCharacter, updated |-> FALSE,
         skillsAt |-> -1, queueAt |-> -1]

-----------------------------------------------------------------------------
(* The plan and ESI.                                                       *)

FinishedBefore(items, t) == {i \in items : i.finish < t}
OfSkill(items, s) == {i \in items : i.skill = s}

(* The levels and the queue of the player at time t, by the plan.          *)
PlannedLevels(t) ==
  [s \in Skills |->
     Levels0[s] + Cardinality(OfSkill(FinishedBefore(Plan, t), s))]
PlannedQueue(t) == Plan \ FinishedBefore(Plan, t)

(* The answers of /skills and /skillqueue.                                 *)
EsiLevels == PlannedLevels(booked)
EsiQueue ==
  IF paused THEN Undated(PlannedQueue(booked)) ELSE PlannedQueue(booked)

-----------------------------------------------------------------------------
(* Mutant: m_skills[skillId] instead of int_findSkill.                     *)
LevelledUpUnknown(levels, items) ==
  [s \in DOMAIN levels \cup {i.skill : i \in items} |->
     (IF s \in DOMAIN levels THEN levels[s] ELSE 0)
       + Cardinality(OfSkill(items, s))]

(* trainLevelUp for each item, if the character has the skill.             *)
LevelledUp(levels, items) ==
  [s \in DOMAIN levels |-> levels[s] + Cardinality(OfSkill(items, s))]

(* Mutant: the finished items are not erased.                              *)
CalcKeepingQueue(char, t) ==
  [char EXCEPT !.levels = LevelledUp(@, FinishedBefore(char.queue, t))]

(* Character::calcSkillQueue at time t: every item whose finish date is in *)
(* the past leaves the queue, and its skill goes up one level.             *)
CalcSkillQueue(char, t) ==
  [char EXCEPT !.levels = LevelledUp(@, FinishedBefore(char.queue, t)),
               !.queue  = @ \ FinishedBefore(@, t)]

(* The items for which it emits skillTrainingCompleted.                    *)
Completed(char, t) ==
  {i \in FinishedBefore(char.queue, t) : i.skill \in DOMAIN char.levels}

(* Mutant: setSkillQueue only assigns.                                     *)
CopiedAsIs(char) == char

(* The copy constructor and operator= end in setSkillQueue, which          *)
(* calculates the copied queue.                                            *)
Copied(char) == CalcSkillQueue(char, now)

Init ==
  /\ now = 1
  /\ booked = 1
  /\ paused = FALSE
  /\ row = NewCharacter
  /\ shown = 1
  /\ saved = NewCharacter
  /\ worker = Idle
  /\ posted = <<>>
  /\ announced = {}

-----------------------------------------------------------------------------
(* Time and the game.                                                      *)
Advance ==
  /\ now < MaxTime
  /\ now' = now + 1
  /\ UNCHANGED <<game, row, shown, saved, worker, posted, announced>>

Book ==
  /\ ~paused
  /\ booked < now
  /\ booked' = now
  /\ UNCHANGED <<now, paused, row, shown, saved, worker, posted, announced>>

(* Stopping the training is done in the game, which books first.           *)
Pause ==
  /\ ~paused
  /\ paused' = TRUE
  /\ booked' = now
  /\ UNCHANGED <<now, row, shown, saved, worker, posted, announced>>

-----------------------------------------------------------------------------
(* Main thread.                                                            *)

(* calcCharactersSkillQueue, every second; the table is not written.       *)
CalcCharactersSkillQueue ==
  /\ row' = CalcSkillQueue(row, now)
  /\ shown' = now
  /\ announced' = announced \cup Completed(row, now)
  /\ UNCHANGED <<now, game, saved, worker, posted>>

(* updateCharacter: the row takes over the skills of the copy, then its    *)
(* queue, which is calculated; the row is connected to the model.          *)
UpdateCharacter ==
  /\ posted # <<>>
  /\ row' = Copied(Head(posted))
  /\ shown' = now
  /\ announced' = announced \cup Completed(Head(posted), now)
  /\ saved' = row'
  /\ posted' = Tail(posted)
  /\ UNCHANGED <<now, game, worker>>

(* saveCharacters, when a character is added or removed.                   *)
SaveCharacters ==
  /\ saved # row
  /\ saved' = row
  /\ UNCHANGED <<now, game, row, shown, worker, posted, announced>>

(* The process ends and is started again.  loadCharacters reads the row,   *)
(* which is calculated at the end of operator>>, before it is connected:   *)
(* nothing is announced.                                                   *)
Restart ==
  /\ row' = Copied(saved)
  /\ shown' = now
  /\ worker' = Idle
  /\ posted' = <<>>
  /\ UNCHANGED <<now, game, saved, announced>>

-----------------------------------------------------------------------------
(* Worker thread: refresh_skills on a copy of the row.  Each request may   *)
(* be answered or fail; time passes and the main thread runs in between.   *)

MakeCopy ==
  /\ worker.at = "idle"
  /\ worker' = [Idle EXCEPT !.at = "attributes", !.copy = Copied(row)]
  /\ UNCHANGED <<now, game, row, shown, saved, posted, announced>>

(* Only this answer is counted as an update.                               *)
RefreshAttributes ==
  /\ worker.at = "attributes"
  /\ \E answered \in BOOLEAN :
        worker' = [worker EXCEPT !.at = "skills", !.updated = answered]
  /\ UNCHANGED <<now, game, row, shown, saved, posted, announced>>

SkillsAnswered ==
  /\ worker.at = "skills"
  /\ worker' = [worker EXCEPT !.at = "queue",
                              !.copy = [@ EXCEPT !.levels = EsiLevels],
                              !.skillsAt = booked]
  /\ UNCHANGED <<now, game, row, shown, saved, posted, announced>>

SkillsFailed ==
  /\ worker.at = "skills"
  /\ worker' = [worker EXCEPT !.at = "queue"]
  /\ UNCHANGED <<now, game, row, shown, saved, posted, announced>>

(* Without an answer to /skills the copy keeps its predicted levels, to    *)
(* which items that ESI still lists are added again: the last conjunct is  *)
(* the bound on the levels this may reach.                                 *)
QueueAnswered ==
  /\ worker.at = "queue"
  /\ \A s \in DOMAIN worker.copy.levels :
        worker.copy.levels[s] + Cardinality(OfSkill(EsiQueue, s)) <= MaxLevel
  /\ worker' = [worker EXCEPT !.at = "done",
                              !.copy = [@ EXCEPT !.queue = EsiQueue],
                              !.queueAt = booked]
  /\ UNCHANGED <<now, game, row, shown, saved, posted, announced>>

QueueFailed ==
  /\ worker.at = "queue"
  /\ worker' = [worker EXCEPT !.at = "done"]
  /\ UNCHANGED <<now, game, row, shown, saved, posted, announced>>

(* A copy is as sound as the row it was made of when nothing was fetched,  *)
(* and sound when both answers show the same state of the game.            *)
Fetched ==
  [worker.copy EXCEPT
     !.sound = IF worker.skillsAt = -1 /\ worker.queueAt = -1 THEN @
               ELSE worker.skillsAt = worker.queueAt]

(* The copy goes back, because of this section or because of another one.  *)
HandOver ==
  /\ worker.at = "done"
  /\ Len(posted) < MaxPosted
  /\ posted' = Append(posted, Fetched)
  /\ worker' = Idle
  /\ UNCHANGED <<now, game, row, shown, saved, announced>>

(* No section counted an update: the copy is deleted.                      *)
DeleteCopy ==
  /\ worker.at = "done"
  /\ ~worker.updated
  /\ worker' = Idle
  /\ UNCHANGED <<now, game, row, shown, saved, posted, announced>>

-----------------------------------------------------------------------------
Next ==
  \/ Advance \/ Book \/ Pause
  \/ CalcCharactersSkillQueue \/ UpdateCharacter \/ SaveCharacters \/ Restart
  \/ MakeCopy \/ RefreshAttributes \/ SkillsAnswered \/ SkillsFailed
  \/ QueueAnswered \/ QueueFailed \/ HandOver \/ DeleteCopy

Spec == Init /\ [][Next]_vars

-----------------------------------------------------------------------------
(* The refresh of the character: the place in refresh_skills, its copy,    *)
(* whether anything was counted, and when each answer was made (-1: none). *)
Refresh ==
  [at : {"idle", "attributes", "skills", "queue", "done"}, copy : Chars,
   updated : BOOLEAN, skillsAt : Int, queueAt : Int]

(* Every variable has its type, and no date the program compares with is   *)
(* in the future.                                                          *)
TypeOK ==
  /\ now \in Nat \ {0}
  /\ booked \in 1..now
  /\ paused \in BOOLEAN
  /\ row \in Chars
  /\ shown \in 1..now
  /\ saved \in Chars
  /\ worker \in Refresh
  /\ {worker.skillsAt, worker.queueAt} \subseteq -1..now
  /\ posted \in Seq(Chars)
  /\ announced \subseteq Items

(* The prediction of calcSkillQueue: while the player trains, a row whose  *)
(* skills and queue came from one state of the game shows exactly the      *)
(* levels and the queue of the moment of its last calculation, whatever    *)
(* ticks, copies of any age, assignments, saves and restarts came between. *)
(* Half-answered refreshes are what "sound" leaves out.                    *)
LevelsAsPlanned ==
  (row.sound /\ ~paused) =>
     /\ row.levels = PlannedLevels(shown)
     /\ row.queue = PlannedQueue(shown)

(* The timer that runs every second never announces a completion that was  *)
(* announced before, though stale copies bring finished items back: they   *)
(* are removed in the step that assigns the copy.  An item is told by its  *)
(* skill, its level and its dates: a level that was announced without a    *)
(* date, from a paused queue, and then with one is not taken for a repeat. *)
TickAnnouncesOnce ==
  [][CalcCharactersSkillQueue => announced \cap Completed(row, now) = {}]_vars

(* "remove all skills that are finished already" (calcSkillQueue): what is *)
(* removed and announced as trained has been trained in the game.          *)
OnlyFinishedRemoved ==
  \A i \in announced :
     \E p \in FinishedBefore(Plan, IF paused THEN booked ELSE now) :
        p.skill = i.skill /\ p.level = i.level

=============================================================================
