--------------------------- MODULE Announcements ---------------------------
(***************************************************************************)
(* The notifications of the application.  The signals of the characters    *)
(* are collected by the model under the pointer of the character; 3 s      *)
(* after the last of them a timer turns what was collected into a text for *)
(* each character, and a text is shown unless it was shown before, in the  *)
(* window and through the tray icon.                                       *)
(*                                                                         *)
(* A text is told by its topic, the name in it, and how much there is: the *)
(* number of mails or notifications, or of finished skills listed.         *)
(***************************************************************************)
EXTENDS Naturals, FiniteSets

CONSTANTS
  Objects,      \* addresses of Character objects
  Names,        \* ids of characters, standing for their names
  MaxCollected  \* bound: signals of a topic collected for an object

ASSUME AnnouncementAssumption ==
  /\ Objects \subseteq Nat
  /\ 0 \notin Names
  /\ MaxCollected \in Nat

Topics == {"skills", "mails", "notifications"}

(* What characterName() of a deleted object may return; 0 is any other text*)
AnyName == Names \cup {0}
Texts == Topics \X AnyName \X (1 .. MaxCollected)

VARIABLES
  collected,  \* m_collectedNotifications<Topic>; 0: no such key
  popups,     \* QmlEvemonApp::m_displayedNotificationsCache
  trayed      \* NotificationSystemPrivate::displayedNotifications

announcementVars == <<collected, popups, trayed>>

NothingCollected == [t \in Topics |-> [o \in Objects |-> 0]]

AnnouncementInit ==
  collected = NothingCollected /\ popups = {} /\ trayed = {}

-----------------------------------------------------------------------------
(* The slots of CharacterModel, as what they make of the collection; the   *)
(* timer is started again by each of them.                                 *)
OnSkillTrainingCompleted(c, o) == [c EXCEPT !["skills"][o] = @ + 1]
OnNewMailReceived(c, o, times) == [c EXCEPT !["mails"][o] = @ + times]
OnNewNotificationReceived(c, o, times) ==
  [c EXCEPT !["notifications"][o] = @ + times]

(* Character::checkNewMails: a signal for every unread mail and for every  *)
(* unread notification, to the slots that are connected.                   *)
CheckNewMails(c, o, unread, connected) ==
  LET Sent(topic) == IF topic \in connected THEN unread[topic] ELSE 0 IN
  OnNewNotificationReceived(
    OnNewMailReceived(c, o, Sent("mails")), o, Sent("notifications"))

Fits(c) == \A t \in Topics, o \in Objects : c[t][o] <= MaxCollected
Waiting(o) == \E t \in Topics : collected[t][o] > 0
SomethingCollected == \E o \in Objects : Waiting(o)

(* QmlEvemonApp::messagePopupNotification shows what it has not shown yet. *)
MessagePopupNotification(texts) == popups' = popups \cup texts

(* NotificationSystem::notify, with wasAlreadyDisplayed and                *)
(* markAsDisplayed; the desktop always has its backend.                    *)
AlreadyDisplayed(text) == text \in trayed
MarkAsDisplayed(texts) == trayed' = trayed \cup texts
Notify(texts) == MarkAsDisplayed({t \in texts : ~AlreadyDisplayed(t)})

(* QmlEvemonApp::onSkillCompletedMessage and its two sisters.              *)
OnMessages(texts) == MessagePopupNotification(texts) /\ Notify(texts)

(* Mutant: the text left over when the loop ends is not emitted.           *)
AllButLast(t) ==
  {o \in Objects : /\ collected[t][o] > 0
                   /\ \E p \in Objects : p > o /\ collected[t][p] > 0}

(* The loops of squashNotifications: each emits the text of the key before,*)
(* and the last text is emitted after the loop.                            *)
Announced(t) == {o \in Objects : collected[t][o] > 0}

(* CharacterModel::squashNotifications, by its timer.                      *)
SquashNotifications(nameOf) ==
  /\ SomethingCollected
  /\ OnMessages({<<k[1], nameOf[k[2]], collected[k[1]][k[2]]>> : k \in
                   {j \in Topics \X Objects : j[2] \in Announced(j[1])}})
  /\ collected' = NothingCollected

(* A new process has shown nothing.                                        *)
AnnouncementRestart ==
  collected' = NothingCollected /\ popups' = {} /\ trayed' = {}

-----------------------------------------------------------------------------
AnnouncementTypeOK ==
  /\ collected \in [Topics -> [Objects -> 0 .. MaxCollected]]
  /\ popups \subseteq Texts /\ trayed \subseteq Texts
=============================================================================
