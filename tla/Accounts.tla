------------------------------ MODULE Accounts ------------------------------
(***************************************************************************)
(* The rows of the characters together with what is kept elsewhere about   *)
(* them: the login that adds a row, the portrait that goes with it, and    *)
(* the notifications collected under its address.  A row is added by the   *)
(* last step of a login, takes over what a refresh fetched, is removed     *)
(* with its portrait but not with its collected notifications, and is      *)
(* loaded from the database after a restart of the application.            *)
(***************************************************************************)
EXTENDS SsoLogin, ImageCache, Announcements

CONSTANTS
  Saved,      \* the characters saved by an earlier session
  MaxUnread,  \* bound: unread mails, and unread notifications, of a character
  MaxEvents   \* bound: events from outside, as counted by Event

ASSUME AccountsAssumption ==
  /\ Saved \subseteq Chars /\ Chars \subseteq Faces /\ Names = Chars
  /\ IsFiniteSet(Objects) /\ IsFiniteSet(Chars)
  /\ Cardinality(Chars) <= Cardinality(Objects)
  /\ {MaxUnread, MaxEvents} \subseteq Nat

Boxes == {"mails", "notifications"}
Counts == [Boxes -> 0 .. MaxUnread]
NoneUnread == [b \in Boxes |-> 0]

VARIABLES
  rows,   \* m_characters, and the saved rows of table characters
  inbox,  \* what is unread in the game
  events  \* counter for the bound

rowVars == <<rows, inbox>>
vars == <<rowVars, events, loginVars, imageVars, announcementVars>>

Rows == [object : Objects, char : Chars, connected : SUBSET Topics,
         unread : Counts]
RowOf(o, c, connected, unread) ==
  [object |-> o, char |-> c, connected |-> connected, unread |-> unread]

RowsWith(c) == {i \in DOMAIN rows : rows[i].char = c}
Used == {rows[i].object : i \in DOMAIN rows}
IsLast(i, c) == i \in RowsWith(c) /\ \A j \in RowsWith(c) : j <= i

(* Steps that spend the bound, and steps that do not.                      *)
Event == events < MaxEvents /\ events' = events + 1
NoEvent == UNCHANGED events

InOrder(ids) ==
  {s \in [1 .. Cardinality(ids) -> ids] :
     \A i, j \in 1 .. Cardinality(ids) : i < j => s[i] < s[j]}

(* Addresses that nothing refers to are all alike: they are taken in one   *)
(* order.                                                                  *)
Addresses ==
  CHOOSE a \in [1 .. Cardinality(Objects) -> Objects] :
    \A i, j \in 1 .. Cardinality(Objects) : a[i] = a[j] => i = j

(* CharacterModel::loadCharacters: a new object for each saved character,  *)
(* in the order of the ids, with all its signals connected.                *)
LoadCharacters(unread) ==
  {[i \in DOMAIN ids |->
      RowOf(Addresses[i], ids[i], Topics, unread[ids[i]])] :
     ids \in InOrder(DOMAIN unread)}

(* The rows of table characters: of several rows with an id the last.      *)
SavedRows ==
  [c \in {rows[i].char : i \in DOMAIN rows} |->
     rows[CHOOSE i \in DOMAIN rows : IsLast(i, c)].unread]

Init ==
  /\ LoginInit /\ ImageInit /\ AnnouncementInit
  /\ rows \in LoadCharacters([c \in Saved |-> NoneUnread])
  /\ inbox = [c \in Chars |-> NoneUnread]
  /\ events = 0

-----------------------------------------------------------------------------
(* Steps of one component.                                                 *)
OfLogin(step) == step /\ UNCHANGED <<rowVars, imageVars, announcementVars>>
OfImages(step) == step /\ UNCHANGED <<rowVars, loginVars, announcementVars>>

LoginEvents ==
  \/ \E portFree \in BOOLEAN : OfLogin(SlotStartSsoAuth(portFree))
  \/ \E t \in tabs, c \in Chars : OfLogin(Deliver([state |-> t, char |-> c]))

LoginSteps ==
  \/ OfLogin(SlotCancelSsoAuth)
  \/ OfLogin(OnCodeReceived)
  \/ OfLogin(TokensAnswered) \/ OfLogin(TokensRefused)
  \/ OfLogin(VerifyRefused)

LoginGivesUp == OfLogin(LoginTimedOut) /\ NoEvent

(* QML shows an image; the character has a new portrait; the user wants it *)
(* (requestRefreshCharacterPortrait).                                      *)
ImageEvents ==
  \/ \E f \in Faces : \/ OfImages(RequestPortrait(f))
                      \/ OfImages(Publish(f))
                      \/ OfImages(RemoveCachedImageForCharacter(f))
  \/ \E t \in TypeIds : OfImages(RequestTypeIcon(t))
  \/ \E c \in CorpIds : OfImages(RequestCorpIcon(c))

ImageSteps ==
  \E i \in DOMAIN responses :
    OfImages(RunPortrait(i) \/ RunTypeIcon(i) \/ RunCorpIcon(i))

(* What a response does without an answer of the image server.             *)
ResponseGoesOn ==
  /\ \E i \in DOMAIN responses :
       OfImages(Load(i) \/ DownloadTimedOut(i) \/ Save(i) \/ Finished(i))
  /\ NoEvent

-----------------------------------------------------------------------------
(* Steps of the rows.                                                      *)

(* A new object may get the address of a deleted one.                      *)
FreeAddresses ==
  LET free == Objects \ Used
      new == {o \in free : ~Waiting(o)}
  IN (free \ new) \cup IF new = {} THEN {} ELSE {CHOOSE o \in new : TRUE}

(* The end of onCodeReceived: CharacterModel::addNewCharacter appends the  *)
(* row and connects its signals, but not newNotificationReceived.          *)
AddNewCharacter ==
  /\ Verified
  /\ \E o \in FreeAddresses :
       rows' = Append(rows, RowOf(o, logins[Len(logins)].code.char,
                                  {"skills", "mails"}, NoneUnread))
  /\ UNCHANGED <<inbox, imageVars, announcementVars>>

(* CharacterModel::removeCharacter: the first row goes, and the portrait.  *)
RemoveCharacter(c) ==
  /\ RowsWith(c) # {}
  /\ \E i \in RowsWith(c) :
       /\ \A j \in RowsWith(c) : i <= j
       /\ rows' = WithoutAt(rows, i)
  /\ DeletePortrait(c)
  /\ UNCHANGED <<inbox, loginVars, announcementVars>>

(* CharacterModel::updateCharacter: the last row takes over what was       *)
(* fetched, if the mail box was due, and announces all that is unread.     *)
UpdateRow(i, c, unread) ==
  /\ IsLast(i, c)
  /\ rows' = [rows EXCEPT ![i].unread = unread]
  /\ collected' =
       CheckNewMails(collected, rows[i].object, unread, rows[i].connected)
  /\ Fits(collected')
  /\ UNCHANGED <<inbox, popups, trayed, loginVars, imageVars>>

UpdateCharacter(c, fetched) ==
  \E i \in RowsWith(c) :
    UpdateRow(i, c, IF fetched THEN inbox[c] ELSE rows[i].unread)

(* Refreshes are a minute apart, so that the timer has run out in between, *)
(* unless the user forces one: that is counted as an event.                *)
Calm(c) == \A i \in RowsWith(c) : IsLast(i, c) => ~Waiting(rows[i].object)
CalmUpdate(c, fetched) == Calm(c) /\ UpdateCharacter(c, fetched) /\ NoEvent
ForcedUpdate(c, fetched) == ~Calm(c) /\ UpdateCharacter(c, fetched) /\ Event

(* A skill of a row is finished (Character::calcSkillQueue).               *)
CompleteSkill(i) ==
  /\ "skills" \in rows[i].connected
  /\ collected' = OnSkillTrainingCompleted(collected, rows[i].object)
  /\ Fits(collected')
  /\ UNCHANGED <<rowVars, popups, trayed, loginVars, imageVars>>

(* Mail comes in, or is read in the game.                                  *)
ChangeInbox(c, b) ==
  /\ \E n \in 0 .. MaxUnread :
       n # inbox[c][b] /\ inbox' = [inbox EXCEPT ![c][b] = n]
  /\ UNCHANGED <<rows, loginVars, imageVars, announcementVars>>

(* The object of a collected notification may be gone, and its name is then*)
(* whatever is found at the address.                                       *)
Dangling == {o \in Objects \ Used : Waiting(o)}
NameAt(o) == rows[CHOOSE i \in DOMAIN rows : rows[i].object = o].char
Squash ==
  /\ \E names \in [Dangling -> AnyName] :
       SquashNotifications([o \in Objects |->
         CASE o \in Used -> NameAt(o) [] o \in Dangling -> names[o]
           [] OTHER -> 0])
  /\ UNCHANGED <<events, rowVars, loginVars, imageVars>>

(* The process ends, and a new one loads the saved rows.                   *)
Restart ==
  /\ rows' \in LoadCharacters(SavedRows)
  /\ LoginRestart /\ ImageRestart /\ AnnouncementRestart
  /\ UNCHANGED inbox

(* Reading a deleted object may end the process as well.                   *)
SquashCrashes == Dangling # {} /\ Restart

Events ==
  \/ LoginEvents
  \/ ImageEvents
  \/ \E c \in Chars : RemoveCharacter(c)
  \/ \E i \in DOMAIN rows : CompleteSkill(i)
  \/ \E c \in Chars, b \in Boxes : ChangeInbox(c, b)
  \/ Restart

Steps == LoginSteps \/ ImageSteps \/ AddNewCharacter \/ SquashCrashes

Next ==
  \/ Events /\ Event
  \/ Steps /\ NoEvent
  \/ LoginGivesUp
  \/ ResponseGoesOn
  \/ \E c \in Chars, fetched \in BOOLEAN :
       CalmUpdate(c, fetched) \/ ForcedUpdate(c, fetched)
  \/ Squash

Spec == Init /\ [][Next]_vars

(* Timers end what gets no answer, code without a request runs, the timer  *)
(* of the notifications fires, and every character is refreshed again and  *)
(* again.                                                                  *)
FairSpec ==
  /\ Spec
  /\ WF_vars(LoginGivesUp)
  /\ WF_vars(ResponseGoesOn)
  /\ WF_vars(Squash)
  /\ \A c \in Chars : SF_vars(CalmUpdate(c, TRUE))

-----------------------------------------------------------------------------
(* Properties.                                                             *)

(* The variables have their types; a response that has a picture to store  *)
(* or to show has one that is not null.                                    *)
TypeOK ==
  /\ LoginTypeOK /\ ImageTypeOK /\ AnnouncementTypeOK
  /\ rows \in Seq(Rows)
  /\ \A i, j \in DOMAIN rows : rows[i].object = rows[j].object => i = j
  /\ inbox \in [Chars -> Counts]
  /\ events \in 0 .. MaxEvents

(* Tokens are requested only for a code from a page that was opened after  *)
(* the last start of the callback server, however old the pages are that   *)
(* the user comes back to and whatever was queued when it was started.     *)
StaleLoginRefused ==
  [][Len(logins') > Len(logins) => logins'[Len(logins')].code.state = starts]_vars

(* What is shown and what is stored is the picture that was asked for, and *)
(* the default picture is shown at most, never stored.                     *)
PicturesTrue ==
  /\ \A f \in Faces : portraits[f] # NoImage =>
       portraits[f].kind = "portrait" /\ portraits[f].id = f
  /\ \A i \in TypeIds \cup CorpIds : icons[i] # NoImage =>
       icons[i].id = i /\ i \in IdsOfKind(icons[i].kind)
  /\ \A i \in DOMAIN responses :
       LET r == responses[i] IN
       r.image # NoImage => r.image.kind = r.kind /\ r.image.id \in {0, r.id}

(* After the user asked for a new portrait, or removed the character, no   *)
(* older one is in the cache, unless a download was under way just then.   *)
OldPictureOnlyByOverlap ==
  \A f \in Faces :
    portraits[f] # NoImage /\ portraits[f].version < asked[f] => f \in overlapped

(* Once nothing new happens, what is unread in the game is announced for   *)
(* every character whose row, the last one with its id, has its signals    *)
(* connected: in the window and through the tray icon, with its number.    *)
IsAnnounced(c, b) ==
  \A i \in RowsWith(c) :
    IsLast(i, c) /\ b \in rows[i].connected /\ inbox[c][b] > 0
      => <<b, c, inbox[c][b]>> \in popups \cap trayed
UnreadAnnounced == <>[](\A c \in Chars, b \in Boxes : IsAnnounced(c, b))

(* Every login and every image ends, whether servers answer or not.        *)
RequestsEnd ==
  /\ logins # <<>> ~> logins = <<>>
  /\ responses # <<>> ~> responses = <<>>
=============================================================================
