---------------------------- MODULE RefreshCycle ----------------------------
(***************************************************************************)
(* The refresh of the character list across two threads.                   *)
(*                                                                         *)
(* The main thread owns CharacterModel: logins, removals, forced refreshes *)
(* and the slot updateCharacter all run there.  PeriodicalRefresherWorker  *)
(* lives in a second thread: its slot refresh() copies the whole list      *)
(* (CharacterModel::getCharacters), refreshes the copies section by        *)
(* section and hands each changed copy back with the queued signal         *)
(* characterUpdated.  Every ESI request runs a nested event loop in the    *)
(* worker's thread, which may deliver another refresh() while one is on    *)
(* the stack.                                                              *)
(*                                                                         *)
(* Characters are heap objects here, named by their address, because what  *)
(* can go wrong is about objects: who deletes a copy, whether a copy is    *)
(* still wanted when it arrives, whether two owners hold the same one.     *)
(***************************************************************************)
EXTENDS CharacterRows

CONSTANTS
  MaxRows,      \* bound: logins stop at this many rows
  MaxTime,      \* bound: the clock stops here
  MaxObjects,   \* bound: character objects alive at the same time
  MaxEvents,    \* bound: events waiting in a thread's queue
  MaxDepth,     \* bound: refresh() calls nested in each other
  MaxForced,    \* bound: sections forced by the user and not refreshed since
  CanRestart    \* whether the application may be killed and started again

ASSUME BoundsAssumption ==
  /\ {MaxRows, MaxTime, MaxObjects, MaxEvents, MaxDepth, MaxForced}
       \subseteq Nat
  /\ CanRestart \in BOOLEAN

Addrs == 1..MaxObjects

(* What an address holds before its object is constructed and after its    *)
(* deletion; using it as a character is a bug in the program.              *)
Freed == NewRow(0)

VARIABLES
  now,           \* the clock
  heap,          \* the character object at every address, Freed if there is none
  roster,        \* CharacterModel::m_characters
  table,         \* table "characters" of the characters database
  mainQueue,     \* events queued for the main thread, oldest first
  posted,        \* number of refresh() events queued for the worker
  stack,         \* the refresh() calls under way in the worker's thread
  active,        \* m_active
  refreshingId,  \* m_refreshingCharacterId
  phase,         \* how far stopGracefully() got
  forced         \* history: sections reset while no copy existed, and not Honoured since

vars == <<now, heap, roster, table, mainQueue, posted, stack,
          active, refreshingId, phase, forced>>

workerVars == <<stack, active, refreshingId>>

(* An event of the main queue: a handed-over copy, or newCharacterAdded.   *)
Updated(a)   == [signal |-> "characterUpdated", object |-> a]
NewCharacter == [signal |-> "newCharacterAdded", object |-> 0]

(* Local variables of refresh(): the copied list, the position in it, the  *)
(* section reached and num_updates > 0.  "wrote" is history: some section  *)
(* wrote into the current copy.                                            *)
NewFrame == [at |-> "status", copies |-> <<>>, cur |-> 1, sec |-> 1,
             updated |-> FALSE, wrote |-> FALSE]

(* refresh() is at position k of the copied list, or has left the loop     *)
(* there.                                                                  *)
LoopFrame(place, copies, k) ==
  [NewFrame EXCEPT !.at = place, !.copies = copies, !.cur = k]

Top == stack[Len(stack)]
SetTop(frame) == stack' = [stack EXCEPT ![Len(stack)] = frame]
PopTop == stack' = SubSeq(stack, 1, Len(stack) - 1)

Rows(objects, content) == [i \in 1..Len(objects) |-> content[objects[i]]]
RosterRows == Rows(roster, heap)

Alive == {a \in Addrs : heap[a] # Freed}

(* The lowest free addresses; addresses are never compared by the code.    *)
FreeAddrs == Addrs \ Alive
Allocated(n) ==
  {objects \in [1..n -> FreeAddrs] :
     /\ \A i, j \in 1..n : i < j => objects[i] < objects[j]
     /\ \A a \in FreeAddrs : (\A i \in 1..n : objects[i] # a)
                              => \A i \in 1..n : objects[i] < a}

(* A refresh() event is posted to the worker.  Bound: beyond MaxEvents one *)
(* more is merged with those waiting, which are all alike.                 *)
PostRefresh == posted' = IF posted < MaxEvents THEN posted + 1 ELSE posted

(* QThread::isInterruptionRequested                                        *)
Interrupted == phase # "running"

CopyInFlight(id) ==
  \E a \in Alive : heap[a].id = id /\ \A i \in 1..Len(roster) : roster[i] # a

-----------------------------------------------------------------------------
(* CharacterModel::loadCharacters into an empty process: the i-th row is   *)
(* read into address i.                                                    *)
Loaded(rows) == [a \in Addrs |-> IF a \in 1..Len(rows) THEN rows[a] ELSE Freed]

(* A table is finite.  Bound: there is an address for every row.           *)
TableFits == IsFiniteSet(table) /\ Cardinality(table) \in 0..MaxObjects

Init ==
  /\ now = 1
  /\ table \in SUBSET {NewRow(id) : id \in Ids}
  /\ Cardinality(table) <= MaxRows
  /\ TableFits
  /\ \E rows \in LoadCharacters(table) :
        /\ roster = [i \in 1..Len(rows) |-> i]
        /\ heap = Loaded(rows)
  /\ mainQueue = <<>>
  /\ posted = 1           \* initialDelayedRefresh
  /\ stack = <<>>
  /\ active = FALSE
  /\ refreshingId = 0
  /\ phase = "running"
  /\ forced = {}

(* The process is killed, or was closed, and is started again.             *)
Restart ==
  /\ CanRestart
  /\ TableFits
  /\ \E rows \in LoadCharacters(table) :
        /\ roster' = [i \in 1..Len(rows) |-> i]
        /\ heap' = Loaded(rows)
  /\ mainQueue' = <<>>
  /\ posted' = 1
  /\ stack' = <<>>
  /\ active' = FALSE
  /\ refreshingId' = 0
  /\ phase' = "running"
  /\ forced' = {}
  /\ UNCHANGED <<now, table>>

-----------------------------------------------------------------------------
(* Main thread.  Its handlers run to completion, and those that touch the  *)
(* list hold CharacterModel::m_mutex, which getCharacters takes as well.   *)

(* Bound: room kept for the copies of a refresh that has begun.            *)
CopiesDue ==
  IF stack # <<>> /\ Top.at \in {"status", "copy"} THEN Len(roster) + 1 ELSE 0

(* EveSsoLoginManager::onCodeReceived creates the character and calls      *)
(* CharacterModel::addNewCharacter, which does not look for the id.  The   *)
(* second to fourth conjuncts are bounds.                                  *)
Login(id) ==
  /\ phase = "running"
  /\ Len(roster) < MaxRows
  /\ Len(mainQueue) < MaxEvents
  /\ Cardinality(FreeAddrs) > CopiesDue
  /\ \E objects \in Allocated(1) :
        /\ heap'   = [heap EXCEPT ![objects[1]] = NewRow(id)]
        /\ roster' = Append(roster, objects[1])
  /\ table' = SaveCharacters(RosterRows')
  /\ mainQueue' = Append(mainQueue, NewCharacter)
  /\ UNCHANGED <<now, posted, phase, forced, workerVars>>

(* CharacterModel::removeCharacter                                         *)
RemoveCharacter(id) ==
  /\ phase = "running"
  /\ \E i \in 1..Len(roster) :
        /\ IsFirstMatch(RosterRows, i, id)
        /\ roster' = WithoutIndex(roster, i)
        /\ heap' = [heap EXCEPT ![roster[i]] = Freed]
  /\ table' = SaveCharacters(RosterRows')
  /\ forced' = {f \in forced : f[1] # id}
  /\ UNCHANGED <<now, mainQueue, posted, phase, workerVars>>

(* Mutants: the early return forgets the delete; or comes after the save.  *)
DiscardWithoutDelete(a) == UNCHANGED <<heap, table>>
DiscardAfterSave(a) ==
  /\ heap' = [heap EXCEPT ![a] = Freed]
  /\ table' = SaveCharacter(table, heap[a])

(* CharacterModel::updateCharacter, when the character of the copy at a is *)
(* not in the list any more: the copy is only deleted.                     *)
DiscardUpdate(a) ==
  /\ heap' = [heap EXCEPT ![a] = Freed]
  /\ UNCHANGED table

(* Mutant: the modified row is not saved.                                  *)
AssignWithoutSave(i, a) ==
  /\ heap' = [heap EXCEPT ![roster[i]] = heap[a], ![a] = Freed]
  /\ UNCHANGED table

(* CharacterModel::updateCharacter, when row i is to be modified: the whole *)
(* record is assigned and saved, and the copy deleted.                     *)
AssignUpdate(i, a) ==
  /\ heap' = [heap EXCEPT ![roster[i]] = heap[a], ![a] = Freed]
  /\ table' = SaveCharacter(table, heap[a])

(* The queued signal characterUpdated reaches the model.                   *)
UpdateCharacter ==
  /\ phase = "running"
  /\ mainQueue # <<>>
  /\ Head(mainQueue).signal = "characterUpdated"
  /\ LET a  == Head(mainQueue).object
         id == heap[a].id
     IN  \/ Matches(RosterRows, id) = {} /\ DiscardUpdate(a)
         \/ \E i \in 1..Len(roster) : IsLastMatch(RosterRows, i, id) /\ AssignUpdate(i, a)
  /\ mainQueue' = Tail(mainQueue)
  /\ UNCHANGED <<now, roster, posted, phase, forced, workerVars>>

(* newCharacterAdded is connected to PeriodicalRefresher::refresh.         *)
RefreshNewCharacter ==
  /\ phase = "running"
  /\ mainQueue # <<>>
  /\ Head(mainQueue).signal = "newCharacterAdded"
  /\ PostRefresh
  /\ mainQueue' = Tail(mainQueue)
  /\ UNCHANGED <<now, heap, roster, table, phase, forced, workerVars>>

(* Mutant: the refresh timer is never started.                             *)
NoTimer == FALSE

(* The refresh timer fires, or PeriodicalRefresher::forceRefreshNow.       *)
RequestRefresh ==
  /\ phase = "running"
  /\ PostRefresh
  /\ UNCHANGED <<now, heap, roster, table, mainQueue, phase, forced, workerVars>>

(* A "Refresh ..." entry of the character page's menu: forceRefresh<kind>  *)
(* on the model's object, then QmlEvemonApp::forceRefresh.                 *)
ForceSection(i, s) ==
  /\ phase = "running"
  /\ Cardinality(forced) < MaxForced
  /\ IsFirstMatch(RosterRows, i, RosterRows[i].id)
  /\ heap' = [heap EXCEPT ![roster[i]] = ResetTs(heap[roster[i]], s)]
  /\ PostRefresh
  /\ forced' = IF CopyInFlight(RosterRows[i].id) THEN forced
               ELSE forced \cup {<<RosterRows[i].id, s>>}
  /\ UNCHANGED <<now, roster, table, mainQueue, phase, workerVars>>

(* PeriodicalRefresher::stopGracefully: the main thread requests the       *)
(* interruption, then quits the event loops, then waits for the thread.    *)
RequestInterruption ==
  /\ phase = "running"
  /\ phase' = "interrupted"
  /\ UNCHANGED <<now, heap, roster, table, mainQueue, posted, forced, workerVars>>

QuitThread ==
  /\ phase = "interrupted"
  /\ phase' = "quitting"
  /\ UNCHANGED <<now, heap, roster, table, mainQueue, posted, forced, workerVars>>

-----------------------------------------------------------------------------
(* Worker thread.                                                          *)

(* An event loop of the worker's thread runs: the thread's own one, or the *)
(* local one of an ESI request.                                            *)
CurrentCopy == Top.copies[Top.cur]
SectionDue ==
  /\ Top.at = "section"
  /\ Top.sec <= Len(Sections)
  /\ IsUpdateNeeded(heap[CurrentCopy], Sections[Top.sec], now)
InEventLoop ==
  /\ phase \in {"running", "interrupted"}
  /\ stack # <<>> => Top.at = "status" \/ SectionDue

(* refresh() is called by an event loop.  The bounds keep nested calls     *)
(* finite and leave room for the copies.                                   *)
BeginRefresh ==
  /\ posted > 0
  /\ InEventLoop
  /\ ~active
  /\ Len(stack) < MaxDepth
  /\ Cardinality(FreeAddrs) >= Len(roster)
  /\ posted' = posted - 1
  /\ active' = TRUE
  /\ stack' = Append(stack, NewFrame)
  /\ UNCHANGED <<now, heap, roster, table, mainQueue, refreshingId, phase, forced>>

SkipRefresh ==
  /\ posted > 0
  /\ InEventLoop
  /\ active
  /\ posted' = posted - 1
  /\ UNCHANGED <<now, heap, roster, table, mainQueue, phase, forced, workerVars>>

(* refresh_server_status returned, with or without a reply.                *)
ServerStatus ==
  /\ stack # <<>>
  /\ Top.at = "status"
  /\ SetTop([Top EXCEPT !.at = "copy"])
  /\ UNCHANGED <<now, heap, roster, table, mainQueue, posted, active,
                 refreshingId, phase, forced>>

(* The loop over the copies reaches position k, or ends.                   *)
ReachCopy(copies, content, k) ==
  IF k <= Len(copies)
  THEN /\ SetTop(LoopFrame("section", copies, k))
       /\ refreshingId' = content[copies[k]].id
  ELSE /\ SetTop(LoopFrame("end", copies, k))
       /\ UNCHANGED refreshingId

(* CharacterModel::getCharacters                                           *)
CopyCharacters ==
  /\ stack # <<>>
  /\ Top.at = "copy"
  /\ \E objects \in Allocated(Len(roster)) :
        /\ heap' = [a \in Addrs |->
                      IF \E i \in 1..Len(roster) : objects[i] = a
                      THEN RosterRows[CHOOSE i \in 1..Len(roster) : objects[i] = a]
                      ELSE heap[a]]
        /\ ReachCopy(objects, heap', 1)
  /\ UNCHANGED <<now, roster, table, mainQueue, posted, active, phase, forced>>

(* Mutant: the early break is a return, past the end of refresh().         *)
ReturnEarly(frame) == IF Interrupted THEN PopTop ELSE SetTop([frame EXCEPT !.sec = @ + 1])

(* One section is over; "break early" if an interruption was requested.    *)
NextSection(frame) ==
  SetTop(IF Interrupted THEN LoopFrame("end", frame.copies, frame.cur)
                        ELSE [frame EXCEPT !.sec = @ + 1])

SkipSection ==
  /\ stack # <<>>
  /\ Top.at = "section"
  /\ Top.sec <= Len(Sections)
  /\ ~SectionDue
  /\ NextSection(Top)
  /\ UNCHANGED <<now, heap, roster, table, mainQueue, posted, active,
                 refreshingId, phase, forced>>

(* A forced section has been refreshed: some of its data was fetched and    *)
(* its timestamp set.  SKILLS is over once it was asked for, since          *)
(* refresh_skills sets its timestamp even if its three requests failed.     *)
Honoured(s, o) == o.stamped /\ (o.wrote # {} \/ s = "SKILLS")

RefreshSection(o) ==
  /\ stack # <<>>
  /\ SectionDue
  /\ LET s == Sections[Top.sec]
     IN  /\ o \in Outcomes[s]
         /\ heap' = [heap EXCEPT ![CurrentCopy] = ApplyOutcome(heap[CurrentCopy], s, o, now)]
         /\ forced' = IF Honoured(s, o) THEN forced \ {<<heap[CurrentCopy].id, s>>} ELSE forced
  /\ NextSection([Top EXCEPT !.updated = @ \/ o.count > 0,
                             !.wrote   = @ \/ o.wrote # {}])
  /\ UNCHANGED <<now, roster, table, mainQueue, posted, active,
                 refreshingId, phase>>

(* All sections are done: the copy goes to the model, or is deleted.       *)
SectionsDone ==
  /\ stack # <<>>
  /\ Top.at = "section"
  /\ Top.sec > Len(Sections)

NextCopy ==
  IF Interrupted
  THEN /\ SetTop(LoopFrame("end", Top.copies, Top.cur + 1))
       /\ UNCHANGED refreshingId
  ELSE ReachCopy(Top.copies, heap, Top.cur + 1)

(* Mutant: characterUpdated is connected with BlockingQueuedConnection.    *)
HandOverBlocking ==
  /\ SectionsDone
  /\ Top.updated
  /\ phase = "running"
  /\ mainQueue' = Append(mainQueue, Updated(CurrentCopy))
  /\ NextCopy
  /\ UNCHANGED <<now, heap, roster, table, posted, active, phase, forced>>

HandOver ==
  /\ SectionsDone
  /\ Top.updated
  /\ mainQueue' = Append(mainQueue, Updated(CurrentCopy))
  /\ NextCopy
  /\ UNCHANGED <<now, heap, roster, table, posted, active, phase, forced>>

DeleteCopy ==
  /\ SectionsDone
  /\ ~Top.updated
  /\ heap' = [heap EXCEPT ![CurrentCopy] = Freed]
  /\ NextCopy
  /\ UNCHANGED <<now, roster, table, mainQueue, posted, active, phase, forced>>

(* The two stores at the end of refresh(): other threads may look between. *)
ClearActive ==
  /\ stack # <<>>
  /\ Top.at = "end"
  /\ active' = FALSE
  /\ SetTop([Top EXCEPT !.at = "ended"])
  /\ UNCHANGED <<now, heap, roster, table, mainQueue, posted,
                 refreshingId, phase, forced>>

(* Mutant: setRefreshingCharacterId(0) is missing.                         *)
EndRefreshKeepingId ==
  /\ stack # <<>>
  /\ Top.at = "ended"
  /\ PopTop
  /\ UNCHANGED <<now, heap, roster, table, mainQueue, posted, active,
                 refreshingId, phase, forced>>

EndRefresh ==
  /\ stack # <<>>
  /\ Top.at = "ended"
  /\ refreshingId' = 0
  /\ PopTop
  /\ UNCHANGED <<now, heap, roster, table, mainQueue, posted, active,
                 phase, forced>>

(* The thread's event loop returns, and with it wait() in the main thread. *)
ThreadEnds ==
  /\ phase = "quitting"
  /\ stack = <<>>
  /\ phase' = "stopped"
  /\ UNCHANGED <<now, heap, roster, table, mainQueue, posted, forced, workerVars>>

Tick ==
  /\ now < MaxTime
  /\ now' = now + 1
  /\ UNCHANGED <<heap, roster, table, mainQueue, posted, phase, forced, workerVars>>

(* The application has ended.                                              *)
Ended == phase = "stopped" /\ UNCHANGED vars

-----------------------------------------------------------------------------
MainStep ==
  \/ \E id \in Ids : Login(id) \/ RemoveCharacter(id)
  \/ UpdateCharacter
  \/ RefreshNewCharacter
  \/ RequestRefresh
  \/ \E i \in 1..Len(roster), s \in SectionSet : ForceSection(i, s)
  \/ RequestInterruption
  \/ QuitThread

(* The statements of a refresh() under way.                                *)
RefreshProgress ==
  \/ ServerStatus
  \/ CopyCharacters
  \/ SkipSection
  \/ \E o \in UNION {Outcomes[s] : s \in SectionSet} : RefreshSection(o)
  \/ HandOver
  \/ DeleteCopy
  \/ ClearActive
  \/ EndRefresh

WorkerStep ==
  \/ BeginRefresh
  \/ SkipRefresh
  \/ RefreshProgress
  \/ ThreadEnds

Next == MainStep \/ WorkerStep \/ Tick \/ Restart \/ Ended

Spec == Init /\ [][Next]_vars

(* Each request of a refresh ends by a reply or by its timer of 15 s, both *)
(* event loops deliver what is posted to them, the refresh timer repeats,  *)
(* and stopGracefully has nothing to wait for between its calls.           *)
Fairness ==
  /\ WF_vars(RefreshProgress)
  /\ WF_vars(BeginRefresh \/ SkipRefresh)
  /\ WF_vars(UpdateCharacter \/ RefreshNewCharacter)
  /\ WF_vars(RequestRefresh)
  /\ WF_vars(QuitThread)
  /\ WF_vars(ThreadEnds)

FairSpec == Spec /\ Fairness

-----------------------------------------------------------------------------
Frame == [at : {"status", "copy", "section", "end", "ended"},
          copies : Seq(Addrs), cur : Nat \ {0}, sec : Nat \ {0},
          updated : BOOLEAN, wrote : BOOLEAN]

Event == [signal : {"characterUpdated"}, object : Addrs] \cup {NewCharacter}

(* Types of the variables; no list, queue or refresh holds an address that *)
(* is none.                                                                *)
TypeOK ==
  /\ now \in Nat
  /\ heap \in [Addrs -> Row \cup {Freed}]
  /\ roster \in Seq(Addrs)
  /\ table \in SUBSET Row
  /\ mainQueue \in Seq(Event)
  /\ posted \in Nat
  /\ stack \in Seq(Frame)
  /\ active \in BOOLEAN
  /\ refreshingId \in Ids \cup {0}
  /\ phase \in {"running", "interrupted", "quitting", "stopped"}
  /\ forced \in SUBSET (Ids \X SectionSet)

(* Who is responsible for deleting an object: the list, the slot that will *)
(* take the object from the main queue, or the refresh that still has to   *)
(* come to it.                                                             *)
Updates == {k \in 1..Len(mainQueue) : mainQueue[k].signal = "characterUpdated"}
Pending == IF stack = <<>> THEN {} ELSE Top.cur..Len(Top.copies)

HeldByRoster == {roster[i] : i \in 1..Len(roster)}
HeldByQueue  == {mainQueue[k].object : k \in Updates}
HeldByWorker == {Top.copies[k] : k \in Pending}

(* Every character object that is reachable is alive and has exactly one   *)
(* owner, at one place, although copies wander from the worker through the *)
(* event queue to a slot that deletes them; and while the application is   *)
(* not shutting down no object is without an owner (updateCharacter and    *)
(* refresh delete what the comments there say they delete).                *)
OneOwner ==
  /\ \A i, j \in 1..Len(roster) : roster[i] = roster[j] => i = j
  /\ \A k, l \in Updates : mainQueue[k].object = mainQueue[l].object => k = l
  /\ \A k, l \in Pending : Top.copies[k] = Top.copies[l] => k = l
  /\ HeldByRoster \cap HeldByQueue = {}
  /\ HeldByRoster \cap HeldByWorker = {}
  /\ HeldByQueue \cap HeldByWorker = {}
  /\ HeldByRoster \cup HeldByQueue \cup HeldByWorker \subseteq Alive
  /\ phase = "running" => Alive \subseteq HeldByRoster \cup HeldByQueue \cup HeldByWorker

(* A row of the table against the row of the list it was written from: a   *)
(* forced refresh resets timestamps in memory only.                        *)
SavedAs(row, saved) ==
  /\ saved.id = row.id
  /\ saved.fetched = row.fetched
  /\ \A s \in SectionSet : row.until[s] \in {saved.until[s], 0}

(* After every handler of the main thread the table has one row for each   *)
(* character of the list and none for others, and the row is the current   *)
(* one, although it is written by three functions (saveCharacters on login *)
(* and on removal, saveCharacter when a refresh came in), some of which    *)
(* handle duplicates of an id differently.                                 *)
TableHoldsRoster ==
  /\ {r.id : r \in table} = IdsOf(RosterRows)
  /\ \A r, q \in table : r.id = q.id => r = q
  /\ \A i \in 1..Len(roster) :
        IsLastMatch(RosterRows, i, RosterRows[i].id)
          => \E r \in table : SavedAs(RosterRows[i], r)

(* At most one refresh() is under way in the worker, in spite of the       *)
(* nested event loops.  While one runs the UI sees network activity, and   *)
(* the id it shows is that of the character being refreshed; when none     *)
(* runs the UI shows neither.                                              *)
IndicatorShowsRefresh ==
  /\ Len(stack) <= 1
  /\ stack = <<>> => ~active /\ refreshingId = 0
  /\ stack # <<>> => (active <=> Top.at # "ended")
  /\ stack # <<>> /\ Top.at = "section" => refreshingId = heap[CurrentCopy].id

(* A section the user forced while no copy of the character was under way  *)
(* stays due until a refresh has fetched some of it: neither a late update *)
(* nor a duplicate, another section or a failed request sets its           *)
(* timestamp.  One exception: SKILLS stays due only until a refresh has    *)
(* asked for it.  refresh_skills sets the timestamp when its three         *)
(* requests failed (skills.cpp:199), and if another section then hands the *)
(* copy over, the forced skills are no longer due and nothing was fetched. *)
ForceNotForgotten ==
  \A i \in 1..Len(roster), s \in SectionSet :
     /\ <<RosterRows[i].id, s>> \in forced
     /\ IsFirstMatch(RosterRows, i, RosterRows[i].id)
     => RosterRows[i].until[s] = 0

(* An id enters the list only by a login: not by the update of a character *)
(* that was removed while its copy was refreshed, nor from the table after *)
(* a restart.                                                              *)
NoResurrection ==
  [][\A id \in Ids :
       id \in IdsOf(RosterRows') /\ id \notin IdsOf(RosterRows) => Login(id)]_vars

(* The list and its table, seen without threads, copies and queues, behave *)
(* as CharacterRoster says.                                                *)
Roster == INSTANCE CharacterRoster WITH rows <- RosterRows
RefinesRoster == Roster!Spec

(* A comment in refresh() says that the modified copy is returned to the   *)
(* model "in the case of any updates were made to this character".         *)
DiscardsOnlyUntouched == [][DeleteCopy => ~Top.wrote]_vars

(* Every refresh ends, whatever its requests return, also during shutdown. *)
RefreshEnds == active ~> ~active

(* stopGracefully returns: the main thread never waits for ever.           *)
StopCompletes == phase = "interrupted" ~> phase = "stopped"

(* Every character in the list gets its turn, a new one too, although the  *)
(* refresh requested by its login is dropped when one is already running.  *)
EveryoneRefreshed ==
  \A id \in Ids :
     id \in IdsOf(RosterRows)
       ~> \/ refreshingId = id
          \/ id \notin IdsOf(RosterRows)
          \/ phase # "running"

=============================================================================
