-------------------------- MODULE SectionOutcomes --------------------------
(***************************************************************************)
(* What one call of each PeriodicalRefresherWorker::refresh_<section>      *)
(* function may do to the copy of a character it is given.                 *)
(*                                                                         *)
(* A section that is due sends its ESI requests one after the other and    *)
(* each of them may succeed or fail.  An outcome says which parts of the   *)
(* copy were written, whether the section's update timestamp was set       *)
(* (Character::setUpdateTimestamp) and the number of updates returned to   *)
(* PeriodicalRefresherWorker::refresh.                                     *)
(***************************************************************************)
EXTENDS Naturals, FiniteSets

(* The sections in the order in which refresh() calls them.                *)
RefreshOrder ==
  << "PUBLIC", "SKILLS", "LOCATION", "CLONES", "FATIGUE", "WALLET",
     "WALLET_JOURNAL", "MAIL", "NOTIFICATIONS", "ASSETS" >>

Kinds == {RefreshOrder[i] : i \in 1..10}

(* UpdateTimestamps::p_get_cache_seconds                                   *)
CacheSeconds ==
  [kind \in Kinds |->
     CASE kind \in {"PUBLIC", "SKILLS", "WALLET_JOURNAL", "CLONES", "ASSETS"} -> 3600
       [] kind = "NOTIFICATIONS" -> 600
       [] kind = "FATIGUE" -> 300
       [] kind \in {"WALLET", "MAIL"} -> 120
       [] kind = "LOCATION" -> 60]

Parts ==
  { "info", "corporation", "alliance",
    "attributes", "skills", "skillqueue",
    "position", "ship",
    "clones", "implants",
    "fatigueExpires", "lastJump",
    "isk", "journal", "transactions",
    "mailingLists", "labels", "headers",
    "notifications", "assetsFirstPage", "assetsOtherPages" }

Outcome == [wrote : SUBSET Parts, stamped : BOOLEAN, count : 0..3]

(* An early return 0: no update needed, no token, request failed.          *)
Nothing == [wrote |-> {}, stamped |-> FALSE, count |-> 0]

(* A section that writes whatever was answered, counts one update for each *)
(* part written and sets its timestamp only if there was an update.        *)
CountEach(wrote) ==
  [wrote |-> wrote, stamped |-> wrote # {}, count |-> Cardinality(wrote)]

-----------------------------------------------------------------------------
(* The corporation is requested after the public info, the alliance only   *)
(* after a corporation reply; neither failure fails the section.           *)
PublicOutcomes ==
  {Nothing} \cup
  { [wrote |-> w, stamped |-> TRUE, count |-> 1] :
      w \in { {"info"}, {"info", "corporation"}, {"info", "corporation", "alliance"} } }

(* Only the attributes reply is counted, and the timestamp is set whatever *)
(* the three requests returned.                                            *)
SkillsOutcomes ==
  {Nothing} \cup
  { [wrote |-> w, stamped |-> TRUE, count |-> IF "attributes" \in w THEN 1 ELSE 0] :
      w \in SUBSET {"attributes", "skills", "skillqueue"} }

(* Mutant: the timestamp is set when the position could not be fetched.    *)
LocationStampsFailure ==
  { [wrote |-> {}, stamped |-> TRUE, count |-> 0],
    [wrote |-> {"position"}, stamped |-> FALSE, count |-> 0],
    [wrote |-> {"position", "ship"}, stamped |-> TRUE, count |-> 1] }

(* The position is written before the ship is requested; a failed ship     *)
(* request returns 0 and leaves the new position in the copy.              *)
LocationOutcomes ==
  { Nothing,
    [wrote |-> {"position"}, stamped |-> FALSE, count |-> 0],
    [wrote |-> {"position", "ship"}, stamped |-> TRUE, count |-> 1] }

ClonesOutcomes == {CountEach(w) : w \in SUBSET {"clones", "implants"}}

(* One request; each of the two dates of the reply counts if it is valid.  *)
FatigueOutcomes == {CountEach(w) : w \in SUBSET {"fatigueExpires", "lastJump"}}

WalletOutcomes ==
  { Nothing, [wrote |-> {"isk"}, stamped |-> TRUE, count |-> 1] }

WalletJournalOutcomes == {CountEach(w) : w \in SUBSET {"journal", "transactions"}}

(* The mailing lists count as an update even when no header was fetched.   *)
MailOutcomes == {CountEach(w) : w \in SUBSET {"mailingLists", "labels", "headers"}}

NotificationsOutcomes ==
  { Nothing, [wrote |-> {"notifications"}, stamped |-> TRUE, count |-> 1] }

(* A first page that fails updates nothing; a later page that fails is     *)
(* left out of the new asset list.                                         *)
AssetsOutcomes ==
  { Nothing,
    [wrote |-> {"assetsFirstPage"}, stamped |-> TRUE, count |-> 1],
    [wrote |-> {"assetsFirstPage", "assetsOtherPages"}, stamped |-> TRUE, count |-> 1] }

Outcomes ==
  [kind \in Kinds |->
     CASE kind = "PUBLIC"         -> PublicOutcomes
       [] kind = "SKILLS"         -> SkillsOutcomes
       [] kind = "LOCATION"       -> LocationOutcomes
       [] kind = "CLONES"         -> ClonesOutcomes
       [] kind = "FATIGUE"        -> FatigueOutcomes
       [] kind = "WALLET"         -> WalletOutcomes
       [] kind = "WALLET_JOURNAL" -> WalletJournalOutcomes
       [] kind = "MAIL"           -> MailOutcomes
       [] kind = "NOTIFICATIONS"  -> NotificationsOutcomes
       [] kind = "ASSETS"         -> AssetsOutcomes]

=============================================================================
