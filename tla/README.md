# A TLA+ verification project for qmlevemon

qmlevemon is an EVE Online character monitor in Qt/C++ and QML. It keeps a list of
characters, refreshes them in a background thread through the ESI web API, predicts
their skill training between two refreshes, shows them and stores them in SQLite.
This directory holds TLA+ specifications of its core, TLC configurations that check
them on small instances, and proofs that TLAPS checks for every value of the constants.

Paths below are relative to `src/src/` of the repository. `PROJECT.json` maps every
definition to the lines it models and lists the runs, the mutants that show that each
property can fail, the findings, the hazards and the theorems.

## 1. The system

### Threads

| thread | what runs in it |
|---|---|
| main | QML, `QmlEvemonApp`, `CharacterModel`, `ModelManager` with its 1 s timer, the SSO login, `PeriodicalRefresher` with its 60 s timer |
| worker | `PeriodicalRefresherWorker` and the `EveApi` it uses; the event loop of `PeriodicalRefresher::m_thread`, and the local loops of its requests |
| HTTP pool | the request handlers of the vendored web server, used for the SSO callback only |
| image pools | the responses of the three image providers of QML (portraits, type and corporation icons), a pool of ten threads each |

The threads share `CharacterModel::m_characters` (recursive `m_mutex`), the databases
(a mutex for each of the three files) and three atomic integers of the worker. The main
thread and the worker talk in queued signals: `refresh`, `doRequestMailBody` one way,
`characterUpdated`, `mailBodyDownloaded`, `networkError` the other.

### Components

| component | state | operations | what makes it correct |
|---|---|---|---|
| `network/refresher/periodical_refresher_worker.cpp` | `m_active`, `m_refreshingCharacterId`, the copies on the stack of `refresh()` | `refresh`, `requestCharacterMailBody` | one refresh at a time although event loops nest; every copy deleted once; the UI's indicator is right; every refresh ends |
| `network/refresher/*.cpp` (sections) | none, they write into a copy | `refresh_skills`, `refresh_location`, ... ten of them | what was fetched is not thrown away; a timestamp is set when, and only when, the data is new |
| `network/periodical_refresher.cpp` | thread, timer | timer, `forceRefreshNow`, `stopGracefully` | the shutdown returns |
| `models/character_model.cpp` | `m_characters`, collected notifications | load, add, remove, `getCharacters`, `updateCharacter`, the 1 s tick, `squashNotifications` | a late update neither revives a removed character nor leaks; list and table agree |
| `models/update_timestamps.cpp` | the next time each section is due | reset, update, `isUpdateNeeded` | a forced section is fetched |
| `models/character.cpp`, `character_skill*.cpp` | a character: skills, queue, mails, ... | copy, assign, `calcSkillQueue`, stream operators | predicted levels are those of the plan, whatever copies arrive |
| `eve_api/eve_api.cpp` | `m_nam`, the requests on the stack | `send_general_esi_request` | no request sleeps for ever; a timeout means that time passed |
| `db/db_sqlite.cpp` | tables of characters, static data, caches | load, save, remove | the rows on disk are those of the list, after a crash too |
| `eve_api/eve_sso.cpp` | login server, state value | start, cancel, callback | only a code from the newest login page adds a character |
| `db/portrait_cache.cpp`, icon providers | tables `portraits` and `type_icons`, responses under way | request, delete | what is stored is the picture of that id, and not older than the user's last wish |
| `network/refresher/resolvers.cpp` | name and location caches | resolve | names stay with their ids; a failure is not remembered as an answer |
| `notificationsystem.cpp` | messages already shown | notify | nothing is shown twice, and nothing unread never |
| mail page (`MailView.qml`, `QmlEvemonApp`) | current mail, busy flag | open, body downloaded | the body is there when the page looks; the busy flag tells the truth and ends |
| `qmlevemon_app.cpp`, `main.cpp` | globals | start, shutdown | nothing is used after it ended |
| `../android/service` | a second process on the same database | refresh | two refreshers of one list |

### The hard behaviours

1. **Nested event loops.** Each ESI request waits in a `QEventLoop` inside a slot. That
   loop delivers the next timer tick, so `refresh()` is entered again on the same stack,
   and it delivers mail requests, so requests nest in each other.
2. **Copies and time.** The worker copies the whole list, works for minutes on the copies,
   and hands them back by pointer through an event queue. Meanwhile the user removes,
   adds and forces; the 1 s tick changes the row.
3. **Partial failure.** A section makes up to four requests, each of which may fail alone.
4. **Shutdown.** The main thread waits for a thread that may be anywhere in a refresh.
5. **Duplicates.** A character may be logged in twice, and three functions resolve the
   ambiguity in three ways.
6. **Prediction.** ESI goes on listing finished skills until the player logs in, so the
   program finishes them itself, in each of its copies.
7. **Values that look equal.** Setters skip a value that compares as equal, and classes
   compare only some of their fields, so what reaches the row depends on operators that no
   caller looks at; streams of five versions read what others wrote.
8. **Shared caches.** Locations, names and icons are cached for all characters; a citadel may
   refuse one of them, and a name is asked for only when its id changes.
9. **The main thread waits too.** A login waits in a nested loop of the main thread, in which
   its character list is changed, other logins arrive and notifications are shown.

The 39 entries of "hazards" in `PROJECT.json` give them line by line.

## 2. The modules

```
SectionOutcomes        what each refresh section may write, count and stamp
  CharacterRows        rows, timestamps, and the table of characters (pure operators)
    CharacterRoster    abstract: the list and its table, no threads, no copies
    RefreshCycle       main thread, worker, queues, heap; implements CharacterRoster
      MCRefreshCycle       instances for TLC
      RefreshCycleProofs   theorems about the objects
        RosterProofs       theorems about the list, its table, and the refinement
EsiRequest             requests nested in one another on one network manager
  EsiRequestProofs     theorems
SkillTraining          the game's training against the row, the copies, the table
  MCSkillTraining      instance for TLC
  SkillTrainingProofs  theorems
MailDownload           reading a mail while refreshes replace the mails
  MCMailDownload       instance for TLC
  MailDownloadProofs   theorems
CharacterClasses       tables: members, classes, operators and streams of a character
  CharacterData        one piece of a character from ESI to the table and back
    MCCharacterData    instances for TLC
    CharacterDataProofs  theorems
Resolvers              locations, names and the caches that all characters share
  MCResolvers          instance for TLC
  ResolversProofs      theorems
SsoLogin               the callback server, its state, the requests of a login
ImageCache             the responses of the image providers and their tables
Announcements          collecting and showing notifications
  Accounts             the three composed around the rows of the model
    AccountsProofs     theorems
```

**SectionOutcomes** has one set of outcomes for each section: which parts of the copy were
written, how many updates were counted, whether the timestamp was set. A set has one
element per way the requests of the section can succeed or fail, read off the function.

**CharacterRows** is a character as the cycle sees it: `id`, `until[s]` (when section s is
due again, 0 after a reset) and `fetched[s]` (the parts of each section with the time they
are from). `SaveCharacters`, `SaveCharacter` and `LoadCharacters` are the statements of
`db_sqlite.cpp`; the primary key makes the last of two equal ids win.

**RefreshCycle** is the core. `heap` is the character objects by address, because the
questions are about objects: who deletes one and who may still use it. `roster` is
`m_characters`, `mainQueue` and `posted` the events queued for the two threads, `stack` the
frames of `refresh()`, one on top of the other when they nest. Main-thread handlers are one
action each, since they run to completion under `m_mutex`: `Login`, `RemoveCharacter`,
`UpdateCharacter`, `RefreshNewCharacter`, `RequestRefresh`, `ForceSection`. `stopGracefully`
is three actions. `refresh()` is split wherever another thread may look or an event loop
runs: `BeginRefresh`/`SkipRefresh`, `ServerStatus`, `CopyCharacters`, one `SkipSection` or
`RefreshSection` per section, `HandOver` or `DeleteCopy` per copy, and the two stores at
the end, `ClearActive` and `EndRefresh`. `Restart` kills the process at any moment.

**CharacterRoster** is what the list promises to the UI: rows change by logins, removals,
forced refreshes, and by commits of coherent results, and the table is written in the same
step. `RefinesRoster` says that RefreshCycle implements it with `rows` mapped to the
contents of the list.

**EsiRequest** is `send_general_esi_request`: the slots of a thread on a stack, each in code
or waiting in its local loop. `Finished` is the signal of `m_nam`, to which every loop on
the stack is connected. `Retry`, `GiveUp`, `Answer`, `TimedOut` are the branches behind
`exec()`. `QuitThread` tells every running loop to quit and makes later ones return at once.

**SkillTraining** has the plan of the player, the time up to which the game has booked it,
the row, one refresh with its three requests, the copies under way and the table.
`CalcSkillQueue` is `Character::calcSkillQueue` without the data for display; it is part of
the 1 s tick, of the copy constructor, of `operator=` and of `operator>>`, and so of
`CalcCharactersSkillQueue`, `MakeCopy`, `UpdateCharacter` and `Restart`. The behaviour of
ESI (finished items stay listed until the game books them; a paused queue has no dates)
is external and marked so in the map.

**MailDownload** follows `requestCharacterMailBody` from the click of the user to the page.
The slots of the worker are on a `stack`, since a download waits in event loops that deliver
refreshes and further downloads, and a refresh waits in loops that deliver downloads. The
body goes into `row` through a pointer (`SetMailBody`), the signal is posted
(`EmitMailBodyDownloaded`) before the flag is cleared (`ClearFlag`), and the main thread
assigns copies to the row in between (`UpdateCharacter`). `view` is what the filtered list
shows, `page` the mail that is open.

**CharacterClasses** is data: for each class of a value the fields that `operator=` copies,
that `operator==` compares, and that the streams write and read in order; for each member of
`Character` its class, its place in the stream, the version since which it is there, how its
setter compares, and the ESI request that answers for it. **CharacterData** follows one
piece, a field of a member chosen at the start, through fetch, copy, assignment, save, kill
and restart, and does to it what the tables say. So a field that one of the operators
forgets is found by the run that follows it.

**Resolvers** has `refresh_location` with its chain of requests (`LocationAnswered`, the dock,
then system, constellation and region, then the ship), `resolve_location` with the cache and
the static set of forbidden citadels, the guessing of types for assets and clones, and the
resolution of names, nested in the waits of the first. `task` is the location under
resolution, `naming` the people, `told` the last answer given.

**Accounts** composes three components around the rows. **SsoLogin** is the callback server
(`StartSsoHandlerHttpServer`, `SlotCancelSsoAuth`, `Deliver`) and the stack of
`onCodeReceived` slots, each waiting for its tokens or for the id. A state is told by the
start of the server that made it, so `starts` is the newest one. **ImageCache** is `run()` of
a response, step by step; the three providers differ in the table, the default picture and
the address. **Announcements** is what the slots of `CharacterModel` collect by address and
what `squashNotifications` makes of it. The joint steps are `AddNewCharacter` (the last step of
a login, which connects two of three signals), `RemoveCharacter` (with `deletePortrait`, but
without purging what was collected), `UpdateCharacter` (with `checkNewMails`), `Squash` (with
any name, or the end of the process, for an object that is gone), and `Restart`.

## 3. The runs

| run | instance | distinct states | what it shows |
|---|---|---|---|
| `refresh_two_characters` | 2 ids, 2 rows, 4 objects, 1 section, fair | 862 636 | types, one owner per object, at most one refresh and a right indicator, the refinement of CharacterRoster; refreshes end, the shutdown returns, everybody has a turn |
| `refresh_duplicates` | 1 id, 2 rows, 3 objects, 2 sections, clock 1..2, restarts, 2 forced sections | 4 751 234 | duplicates, removals, kills: the table holds the list, nobody returns; a section forced while no copy is under way stays due until some of it was fetched (SKILLS: until it was asked for) |
| `refresh_discards` | 1 id, skills | violation | finding 1 |
| `esi_requests` | 2 slots of 2 requests, 2 attempts each, fair | 66 168 | no lost wake-up, early timeouts only by nesting, every slot returns |
| `esi_timeout` | 2 slots of 1 request | violation | finding 2 |
| `skill_training` | 2 skills, 3 levels, clock 1..4 | 3 039 457 | predicted levels and queue are the plan's; ticks announce once |
| `skill_queue_paused` | the same | violation | finding 3 |
| `mail` | 2 mails, 1 label, 2 opens, 2 refreshes, fair | 741 176 | the list shows the row, the body is there when its signal is, the indicator shows downloads and ends, every request is answered |
| `character_data` | every member and field, 2 entries, 2 changes, 1 kill, 5 versions, fair | 318 515 | the row follows the answers as far as the operators compare, a start gives the saved row, characters are lost in one window only, the game reaches the row |
| `character_shown` | the clones | violation | finding 4 |
| `resolvers` | 1 of 2 characters located, a station, two citadels, 3 systems, fair | 670 689 | names stay with ids unless the request for the name failed, places nest, caches are true, known names stay, the location is reached |
| `accounts` | 1 known character of 2, 3 addresses, 1 type, 1 corporation, 4 events, fair | 331 362 | stale logins refused, true pictures, no old portrait but by overlap, unread mail announced, requests end |

### Bounds

Two characters are what it takes for one to be removed while the other is refreshed; a
section treats its copy alone, so a third adds no new relation. Four objects are two rows
and two copies, the most the code creates at a time with two rows; `CopiesDue` keeps room
for them so that the bound never cuts an allocation of the worker short. `refresh_duplicates` makes do
with three for a clock of 2: a row with its copy under way while the id is added again and either is
removed; a refresh of both rows at once belongs to `refresh_two_characters`. One queued event
is enough for the orders of an update against a login, because handlers look at the head
only; `HandOver` is not bounded by it. Posted `refresh()` events are alike, so more than
`MaxEvents` of them are merged. Depth 2 is the first at which a `refresh()` nested in
another could run: IndicatorShowsRefresh says there is none, for any depth by the theorem.
Clock 2 is the first with a section due, not due, and due again (LOCATION has the shortest
cache time); `refresh_two_characters` stays at 1, before any section is due again. Of the ten sections one or two are in an instance: LOCATION, which can fail
half-way and expires, and SKILLS, whose count leaves out two of its three requests; all
sections run through the same action. Two requests in two slots are one outer request,
one that interrupts it, and one more of each.  In SkillTraining three levels give a skill
that finishes twice with another between; level 3 of `MaxLevel` leaves one level for
the double raise of a half-answered refresh. `MaxPosted` 1 is one copy in the queue while
the next one is made.

In MailDownload two mails are one that is read and one that is asked for meanwhile; a
refresh overlaps both downloads in every way, since it may begin, fetch and hand over at any
point, and with two of them a mail leaves the row and comes back between a click and its answer. In CharacterData two changes of the game are a value that goes away and comes back; a
list of two entries is the shortest that has an order; of the versions those that differ in
what they stream. `Coarse` 3 gives a value that compares fuzzily equal to two different
ones. In Resolvers the positions are a station, space, and two citadels in another system, so that each
level of the chain changes or stays; with two citadels the static location of those that refuse is used for
both. `Homes`, `Belongings` and `Guests` keep the instance small: the character begins at the station, the
other one has assets there and in the second citadel, and after the first state, where all are let in or
nobody is, the first citadel changes its mind about the one and the second about the other. `NestedIn` lists two of the waits in which people are resolved,
because a nested name request touches only the caches of names, and what the outer wait is for
makes no difference to it. In Accounts the events are everything that comes from outside: four of
them are a page, its code, a new start and the old code again; or a login, a removal and two changes of the mail
box; steps of the program itself are not counted. A refresh that comes before the notification
timer ran out counts as an event, since refreshes are a minute apart unless forced. Two
responses are two downloads of one picture, or a portrait and an icon. `MaxUnread` 1 still gives texts
with a count of 2, by refreshes 3 s apart. Addresses nothing refers to are alike, and a new object gets
either one of them or that of an object still among the collected ones.

### Fairness

`RefreshCycle!Fairness`: a request ends by its reply or by its timer of 15 s and a bounded
number of retries, so `refresh()` goes on (weak fairness of `RefreshProgress`); event loops
deliver what is posted to them; the 60 s timer repeats; `stopGracefully` has nothing to
wait for between its calls. Nothing is assumed of the user, of the network, or of the
outcome of a request. `EsiRequest!Fairness` assumes no reply at all: only timers and the
return of `exec()`, and both strongly, since a slot that nests is a pass of the loop and
each pass looks at the timers and at the exit flag. A slot that returns is the end of a
finite function (weak fairness). That `EsiRequest` returns is what entitles RefreshCycle to
its assumption on requests.

MailDownload, CharacterData and Resolvers take over from these two that requests end and
that slots go on. Beyond that, in CharacterData a request that is repeated for ever is
answered at some time, and in Resolvers the request for the location and that for the ship are
(strong fairness of the answers): without an answer nothing can reach the row. Only
`GameReachesRow` and `LocationReached` rest on it. In Accounts the timers of logins and downloads run out (weak fairness
of `LoginGivesUp` and `ResponseGoesOn`), no answer is assumed; the 3 s timer fires; and a refresh of
each character is handed over again and again while nothing waits to be announced (strong fairness of
`CalmUpdate`), which is `EveryoneRefreshed` of RefreshCycle with the requests answered.

## 4. What is proved

TLAPS proves for every set of ids, every list of sections and every bound:

* `RefreshCycleProofs!TypeCorrect`, `Ownership`, `Indicator`: `Spec => []TypeOK`,
  `[]OneOwner`, `[]IndicatorShowsRefresh`. Assumptions: those named in `CharacterRows` and
  `RefreshCycle` on the constants. The inductive invariant is

      IInv == TypeOK /\ FrameShape /\ OneOwner /\ IndicatorShowsRefresh

  None of its parts is inductive alone. That a copy is deleted once needs to know that only
  one frame holds copies, which is IndicatorShowsRefresh. That in turn needs `active` to be
  set through the whole of a refresh. `FrameShape` says what the position in `refresh()`
  means for the frame's locals: before the copy there are no copies, in a section the
  position is one of the list, and the loop is left before the end of the list only once
  an interruption was requested. The step of
  `CopyCharacters` is the heart: it needs that the new addresses are free, different from
  each other and from every held one.
* `EsiRequestProofs!TypeCorrect`, `NoSleeper`, `EarlyTimeouts`, for any number of attempts
  and any depth. The invariant is

      IInv == TypeOK /\ OthersWait /\ SlotsOK /\ EarlyTimeoutNeedsNesting

  `OthersWait` (all slots but the innermost are in their loops) is what makes the quit meant
  for an outer loop stay there; `SlotsOK` says for each slot what each wake-up reason did to
  the flag and why a woken request has no finished reply.
* `SkillTrainingProofs!TypeCorrect`, `Prediction`, `Announcements`: `Spec => []TypeOK`,
  `[]LevelsAsPlanned`, `TickAnnouncesOnce`, for every finite plan whose items finish at
  different times (`PlanAssumption`) and any age of the copies. The invariant is

      IInv == TypeOK /\ LevelsAsPlanned /\ CopiesAged /\ QueueAhead

  `CopiesAged` extends the claim to the copies under way and to the table: a sound one
  shows the plan at some time that has passed, and the copy under refresh shows, per
  request, the plan at the time of the answer. Assigning one of them calculates again, and
  the core of the proof is that doing so at time t to a state of time u <= t gives that of
  t: the items that finished after u and by t are disjoint from those before, so the
  number of items of a skill removed from the queue adds up with those booked already.
  `QueueAhead` parts what was announced, which finished by `shown`, from what is queued,
  which did not; it gives `Announcements`. Items are told apart by their dates too: a level
  announced without a date, from a paused queue, and later with one is no repeat.

* `RosterProofs!TableIsList`, `RemovedStaysRemoved`, `Refinement`, `ForcedStaysDue`:
  `TableHoldsRoster`, `NoResurrection`, `RefinesRoster` and `ForceNotForgotten`, on top of the
  `IInv` above. The proofs go through one lemma, `ListStep`: whatever the two threads do, the list
  and the table change as in one of six ways (a row added, removed, replaced, forced, a restart,
  nothing). Each of the six keeps `TableHoldsRoster`, since the statements that write the table go
  through the whole list. The refinement needs `RowsTrue`: every row, copy and record has
  what a refresh could have fetched by now and a date that fits it, because no section but SKILLS
  sets its timestamp without writing what it got. `ForceNotForgotten` is not inductive, since a copy
  that is not due could still be assigned; `ForcedInv` adds that the copies under way are
  due as well, or that the id is in the list twice and the update goes to another row. It also
  uses that no section but SKILLS is stamped without a fetch: the theorem says that a forced
  section stays due until some of it was fetched, and SKILLS only until it was asked for.
* `MailDownloadProofs!TypeCorrect`, `ListShown`, `BodyThere`, `IndicatorTrue`, for any mails,
  labels, depth and number of refreshes and clicks. The invariant is

      IInv == TypeOK /\ ListMatchesFilter /\ BodiesArrive /\ OneDownload /\ IndicatorShowsDownload

  `BodiesArrive` says of each slot of the stack what its position means: one that has found its mail
  is about to write it, and one that announces it, like a signal on its way, has its body in the row
  or in `lost`. `OneDownload`: without nesting at most one download is on the stack, so clearing the
  flag is the end of the only one.
  The proof showed the model wrong: with the history variable it had before, which marked only what an
  assigned copy overwrites, a mail that was not listed when its body came was forgotten. With two
  refreshes TLC finds the same, so the run now has two, and `lost` has both kinds.
* `AccountsProofs!TypeCorrect`, `PicturesRight`, `WishesHeard`, `CurrentLogins`: `TypeOK`,
  `PicturesTrue`, `OldPictureOnlyByOverlap` and the action property `StaleLoginRefused`. The
  invariant joins three: `LoginInv` (the state is that of the newest start or not set at all, and
  without it the server does not listen and no code waits), `PictureInv` (a response past its
  download carries the picture of its key, of a version no older than when it began; icons of
  types and corporations do not meet in their table, as their ids differ) and the shape of the rows.
* `ResolversProofs!TypeCorrect`, `NamesMatch`, `PlacesBelong`, `CacheRight`, `KnownRemains`:
  `TypeOK`, `NamesMatchIds`, `PlacesNest`, `CacheTrue` and the action property `KnownStays`. During
  a chain of requests the copy is right but for the level its pending request is about, which is the
  strengthening. A request whose answer goes into the cache is made only for what is not in it, which
  gives `KnownStays`; nested resolutions touch names only. What they leave out is what the code
  leaves wrong: a level whose request for the name failed keeps the name of the previous place
  (`missed`), and an entry without a type is deleted before it is asked for again.
* `CharacterDataProofs!TypeCorrect`, `RowShowsAnswer`, `StartKeepsRow`, `LossOnlyInSave`: `TypeOK`,
  `RowFollowsAnswer`, the action property `RestartKeepsRow` and `LostOnlyInSave`, for every member
  and field, any data and any number of changes and kills. They rest on facts about the tables that
  are computed, not assumed: `MemberRead` (what a version has written is read again, from the place
  after the members before it), `FieldsStreamed` (every field of a class is in its stream) and
  `MembersAssigned`. The invariant is

      IInv == TypeOK /\ Fits(piece, server) /\ (no copy while not running) /\ AllGood /\ NoDrift

  `AllGood` extends the claim to the copies under way and to the record: each shows its own answer.
  It is carried along by two lemmas on the setters, `SetShows` and `SetShowsAnswer`; the second
  needs that the comparison is transitive, which `qFuzzyCompare` is not. For the members that
  are compared by it `NoDrift` relates the row to the copies made of it, and it needs `MaxPosted <= 1`;
  TLC shows the drift with 2 (section 5). `LostOnlyInSave` has an invariant of its own: while the
  application runs the table has a readable record, unless `saveCharacters` is at work or the loss has
  been recorded.

The assumptions are those named in the modules. Some were added for the proofs and say what
was meant: the characters of Accounts are finitely many; in Resolvers each system has a
constellation and each constellation a region, whose ids are not 0 (`ChainAssumption`); in
CharacterData there is a key, and lists and values have room for one (`DataBoundsAssumption`).

All follow one layout: a lemma per action, `NextStep` or `NextInvariant` that splits
`Next`, and the theorem closed by temporal logic.

Only model-checked: the liveness properties, which are out of the prover's reach
(`EveryoneRefreshed`, `RefreshEnds`, `StopCompletes`, `SlotsReturn`, `RequestsEnd`,
`DownloadClearsIndicator`, `RequestsAnswered`, `GameReachesRow`, `LocationReached`,
`UnreadAnnounced`), and the properties of the runs that find a violation. Every invariant and
action property of a passing run is proved.

## 5. Findings and known weaknesses

1. `DiscardsOnlyUntouched` (documentation against code): a comment in `refresh()` says a copy
   with any updates goes back to the model. `refresh_skills` counts only the attributes
   reply, so newly fetched skills and queue are deleted with the copy when that reply is the
   one that failed.
2. `TimeoutMeansTime` (documentation against code): `eve_api.h` says -1 is a timeout. The
   reply to a nested request quits the loop of the outer one, which then reports -1 at once.
3. `OnlyFinishedRemoved` (code bug): items of a paused queue have no finish date, compare as
   finished, and are removed, levelled up and announced.
4. `ReturnedCopyShown` (code bug): `setClones` of the clones model tests the sizes the wrong way
   round in the branch that should "remove extra rows left", so a jump clone that is gone in the
   game stays in the list and in the table.

Weaknesses that contradict no statement of the repository, so no run is made of them:

* A section forced while a copy of the character is under way is lost: the copy, with its
  old timestamps, is assigned over the reset. `ForceNotForgotten` leaves this case out
  through the history variable `forced`, which records only resets made while no copy is
  under way.
* `refresh_skills` sets its timestamp even when its three requests failed (skills.cpp:199). Alone,
  the copy is then deleted with the timestamp; but if another section of it was updated, the copy
  is handed over, and a forced SKILLS section is no longer due although nothing of it was
  fetched. `ForceNotForgotten` leaves this out too: for SKILLS, `Honoured` says that asking is
  enough.
* When `/skills` fails and `/skillqueue` does not, a skill that has finished is levelled up
  again, at each such refresh. When the game books between the two answers a level is lost
  until the next refresh. `LevelsAsPlanned` speaks of the other rows, marked `sound`.
* The busy indicator of the mail page stays on when a token was refused, and goes off early
  when two downloads nest; `IndicatorShowsDownload` leaves both out through the history
  variables `refused` and `nested`. The signal is emitted before the flag is cleared, so a main thread
  that is quick finds a download in progress and the page does not take the mail over. The page
  takes whatever mail is announced, also one that was asked for before the page was opened.
* A copy of the row that was made before a download ends takes the body out of the row again
  when it is assigned; a second click brings it back from the cache.
* Lists whose entries compare by id only are not assigned when nothing but another field has
  changed; a balance that changes by less than `qFuzzyCompare` tells apart is not either.
  `RowFollowsAnswer` and `GameReachesRow` compare in the same way, so they say how far this goes.
* When the main thread is busy until two refreshes have handed over a copy, a value compared with
  `qFuzzyCompare` may drift by further units from what was answered: a copy that kept its own value
  comes to a row that has one close to it by then. `RowFollowsAnswer` leaves these members out when
  more than one copy may wait; the proof led to this, and TLC confirms it with `MaxPosted` 2.
* A name that could not be resolved is not asked for again until its id changes, and until then
  the name of the previous place stands beside the new id (location.cpp:50-51). The made-up
  location of a forbidden citadel has the type of the first location request of any kind in the process, and is cached for
  good, also for characters who are let in later.
* A cancelled login goes on: its queued code, and its requests, still add the character. When the
  port is busy the browser is sent to the login page all the same.
* A character added in this session announces no notifications until the next start. Two refreshes
  within 3 s announce double the number. New mail that brings the number back to one that was
  announced in this session is not announced.
* A name read through the address of a removed character is undefined behaviour; it may be another
  character's.
* A portrait that was being downloaded when it was deleted comes back, also that of a removed
  character.
* A timed-out request is not retried, although the log says how many retries are left.
* The activity flag goes off before the refreshing id does, so for a moment the UI may show
  a character being refreshed by nobody. `IndicatorShowsRefresh` has this state ("ended").
* What finished while the application was not running is never announced: the row is
  calculated before it is connected to the model.

## 6. Plan

Done: the refresh cycle with its abstract roster, ESI requests, skill training, mails, the data
of a character with its records, the resolvers, and accounts with logins, images and
notifications.

The invariants and action properties that the runs check are proved. What is left:

| what | how |
|---|---|
| the composition of `Accounts` in parts | invariants of SsoLogin, ImageCache and Announcements stated in their own modules, of which those of Accounts are instances |
| mutual exclusion of the list's mutex as an abstract specification | the six steps of `ListStep` as the actions of a specification of the table |
| the globals at the end of the process | a module of the application's destructor against the image pools and the worker |

## 7. What is not modelled

* Views, the roles of the list models and the static data: projections and look-ups without
  behaviour of their own. Settings are values without behaviour; the port of the callback server
  is constant.
* The JSON of the replies, prices, formulas of skill points: the properties do not
  tell them apart. Which field goes where, the order of the requests and what each one's failure
  does are kept. Further pages of an answer are part of it.
* Data races proper: `forceRefresh<kind>` writes a timestamp without `m_mutex` while the
  worker may copy it. Both orders are modelled, a torn value is not.
* The removal of a character while its mail is downloaded: the worker then writes through a
  dangling pointer, which has no outcome to model. Reading one, as `squashNotifications`
  does, has.
* The end of the process beyond the join of the worker: the globals that become null one after
  the other while threads of the image pools and of the worker may still ask for them.
* Errors of SQLite other than a failed insert, and the creation of the files.
* Backends of notifications other than the tray icon.
* The vendored web server and libraries. The Android service, a second process on the same
  database: two instances of RefreshCycle on one table are beyond TLC's reach, and the code has no
  protocol between them that could be checked alone.
