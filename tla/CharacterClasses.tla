-------------------------- MODULE CharacterClasses --------------------------
(***************************************************************************)
(* What a Character is made of, and what the operators of its classes do   *)
(* with each part: which fields operator= copies, which ones operator==    *)
(* looks at, which ones the streams write and read, how the setter of a    *)
(* member compares, and which ESI endpoint answers for it.  CharacterData  *)
(* follows one part through all of them.                                   *)
(***************************************************************************)
EXTENDS Naturals, SequencesExt

-----------------------------------------------------------------------------
(* The classes of the entries.  For each: the fields that operator=        *)
(* copies, the fields that operator== compares, and the fields that        *)
(* operator<< and operator>> stream, in their order.                       *)

LocationFields ==
  {"locationId", "typeId", "solarSystemId", "name", "type", "x", "y", "z"}
LocationCompared == {"locationId"}
LocationStream ==
  <<"locationId", "typeId", "solarSystemId", "name", "type", "x", "y", "z">>

CloneFields == {"cloneName", "cloneId", "location", "implants"}
CloneCompared == {"cloneId", "implants"}
CloneStream == <<"cloneName", "cloneId", "location", "implants">>

(* The implants of the current clone.                                      *)
InvTypeFields == {"typeId", "typeName", "groupId", "groupName", "categoryId",
                  "categoryName", "attrs"}
InvTypeCompared == {"typeId"}
InvTypeStream == <<"typeId", "typeName", "groupId", "groupName", "categoryId",
                   "categoryName", "attrs">>

AssetFields == {"item_id", "type_id", "is_singleton", "quantity",
  "location_id", "location_type", "location_flag", "type_name", "location_name"}
AssetCompared == {"item_id"}
AssetStream == <<"item_id", "type_id", "is_singleton", "quantity",
  "location_id", "location_type", "location_flag", "type_name",
  "location_name">>

AssetLocationFields == {"locationId", "locationName", "count"}
AssetLocationCompared == {"locationId"}
AssetLocationStream == <<"locationId", "locationName", "count">>

JournalFields == {"id", "amount", "balance", "context_id", "context_id_type",
  "date", "description", "first_party_id", "second_party_id", "reason",
  "ref_type", "tax", "tax_receiver_id"}
JournalCompared == {"id"}
TransactionFields == {"client_id", "date", "is_buy", "is_personal",
  "journal_ref_id", "location_id", "quantity", "transaction_id", "type_id",
  "unit_price", "client_name", "location_name", "type_name"}
TransactionCompared == {"transaction_id"}
JournalStream == <<"id", "amount", "balance", "context_id", "context_id_type",
  "date", "description", "first_party_id", "second_party_id", "reason",
  "ref_type", "tax", "tax_receiver_id">>
TransactionStream == <<"client_id", "date", "is_buy", "is_personal",
  "journal_ref_id", "location_id", "quantity", "transaction_id", "type_id",
  "unit_price", "client_name", "location_name", "type_name">>

NotificationFields == {"notificationId", "notificationType", "senderId",
  "senderType", "timestamp", "text", "senderDisplayName", "is_read"}
NotificationCompared == NotificationFields
NotificationStream == <<"notificationId", "notificationType", "senderId",
  "senderType", "timestamp", "text", "senderDisplayName", "is_read">>

LabelFields == {"id", "name", "color", "unread_count"}
LabelCompared == {"id", "name", "color", "unread_count"}
RecipientFields == {"id", "type", "name"}
RecipientCompared == {"id", "type", "name"}
MailFields == {"id", "body", "subject", "from", "is_read", "timestamp",
               "labels", "labels_str", "recipients"}
MailCompared == {"id", "body", "subject", "from", "is_read", "timestamp",
                 "labels", "labels_str", "recipients"}
LabelStream == <<"id", "name", "color", "unread_count">>
RecipientStream == <<"id", "name", "type">>
MailStream == <<"id", "body", "subject", "from", "is_read", "timestamp",
                "labels", "labels_str", "recipients">>

QueueItemFields == {"skillId", "trainingLevel", "queuePosition",
  "levelStartSp", "levelEndSp", "trainingStartSp", "startDate", "finishDate"}
QueueItemStream == <<"skillId", "trainingLevel", "queuePosition",
  "levelStartSp", "levelEndSp", "trainingStartSp", "startDate", "finishDate">>

(* Of a skill; calcSkillQueue writes the fields about the queue and the    *)
(* points per hour anew after every assignment and load.                   *)
SkillTemplateFields == {"skillId", "skillName", "skillGroup",
  "primaryAttribute", "secondaryAttribute", "skillTimeConstant"}
SkillFields == SkillTemplateFields \cup {"trainedLevel", "activeLevel",
  "skillPointsInSkill", "skillPointsInLevel", "skillPointsForNextLevel"}
SkillCompared ==
  {"skillId", "trainedLevel", "activeLevel", "skillPointsInSkill"}
SkillStream == <<"skillId", "skillName", "primaryAttribute",
  "secondaryAttribute", "skillTimeConstant", "trainedLevel", "activeLevel",
  "skillPointsInSkill", "skillPointsInLevel", "skillPointsForNextLevel">>

TokenFields == {"access_token", "refresh_token", "expire_dt"}
TokenStream == <<"access_token", "refresh_token", "expire_dt">>

TimestampFields == {"dt_public", "dt_skills", "dt_wallet", "dt_location",
  "dt_clones", "dt_fatigue", "dt_assets", "dt_mail", "dt_notifications",
  "dt_wallet_journal"}
TimestampStream == <<"dt_public", "dt_skills", "dt_wallet", "dt_location",
  "dt_clones", "dt_fatigue", "dt_assets", "dt_mail", "dt_notifications",
  "dt_wallet_journal">>
(* What operator>> reads of a record of the given version.                 *)
TimestampsRead(v) ==
  <<"dt_public", "dt_skills", "dt_wallet", "dt_location", "dt_clones",
    "dt_fatigue", "dt_assets", "dt_mail">>
    \o (IF v >= 3 THEN <<"dt_notifications">> ELSE <<>>)
    \o (IF v >= 4 THEN <<"dt_wallet_journal">> ELSE <<>>)

-----------------------------------------------------------------------------
(* The members of a Character, group by group.                             *)

GeneralMembers == <<"characterName", "corporationId", "corporationName",
  "corporationTicker", "allianceId", "allianceName", "allianceTicker">>
OriginMembers == <<"raceId", "raceName", "ancestryId", "ancestryName",
  "bloodlineId", "bloodlineName", "gender", "birthday", "securityStatus",
  "bio">>
LocationMembers == <<"isk", "currentSolarSystemId", "currentSolarSystemName",
  "currentSolarSystemSecurity", "currentConstellationId",
  "currentConstellationName", "currentRegionId", "currentRegionName",
  "currentStationId", "currentStructureId", "currentStructureName",
  "currentShipTypeId", "currentShipTypeName", "currentShipFriendlyName">>
SkillMembers == <<"attributeCharisma", "attributeIntelligence",
  "attributeMemory", "attributePerception", "attributeWillpower",
  "numBonusRemaps", "lastRemapDate", "remapCooldownDate", "totalSp",
  "isAlphaClone", "skills", "skillQueue">>
CloneMembers == <<"currentClone", "clonesModel", "lastCloneJumpDate",
  "homeLocation", "jumpFatigueExpireDate", "lastJumpDate">>
MailMembers ==
  <<"mailLabels", "mails", "mailingLists", "mailNotifications">>
WalletMembers == <<"walletJournal", "walletTransactions">>

(* Mutant: the home station is forgotten.                                  *)
AssignedWithoutHome == <<"characterId">> \o GeneralMembers \o OriginMembers
  \o LocationMembers \o SkillMembers
  \o <<"currentClone", "clonesModel", "lastCloneJumpDate",
       "jumpFatigueExpireDate", "lastJumpDate">>
  \o MailMembers \o WalletMembers \o <<"assetsModel", "assetsLocations",
                                       "tokens", "update_timestamps">>

(* Character::operator= assigns these, one setter after the other.         *)
Assigned == <<"characterId">> \o GeneralMembers \o OriginMembers
  \o LocationMembers \o SkillMembers \o CloneMembers \o MailMembers
  \o WalletMembers \o <<"assetsModel", "assetsLocations", "tokens",
                        "update_timestamps">>

(* Mutants: the id after the tokens; the wallet before the mail.           *)
WrittenIdLate == <<"tokens", "characterId", "update_timestamps">>
  \o GeneralMembers \o OriginMembers \o LocationMembers \o SkillMembers
  \o CloneMembers \o MailMembers \o WalletMembers
  \o <<"assetsModel", "assetsLocations">>
WrittenWalletEarly == <<"characterId", "tokens", "update_timestamps">>
  \o GeneralMembers \o OriginMembers \o LocationMembers \o SkillMembers
  \o CloneMembers \o WalletMembers \o MailMembers
  \o <<"assetsModel", "assetsLocations">>

(* operator<< of a Character.                                              *)
Written == <<"characterId", "tokens", "update_timestamps">>
  \o GeneralMembers \o OriginMembers \o LocationMembers \o SkillMembers
  \o CloneMembers \o MailMembers \o WalletMembers
  \o <<"assetsModel", "assetsLocations">>

(* SAVEDATA_VERSION, and the versions of older records.                    *)
SavedVersions == 26 .. 30

(* The version since which a member is written, as operator<< notes it.    *)
Since(m) == IF m \in ToSet(WalletMembers) THEN 28
            ELSE IF m = "assetsModel" THEN 29
            ELSE IF m = "assetsLocations" THEN 30 ELSE 27
(* The members that a version has written, in the order of Written.        *)
WrittenIn(v) == {m \in ToSet(Written) : Since(m) <= v}

(* Mutant: a gate that is one version late.                                *)
ReadLate == [v \in SavedVersions |->
  <<"characterId", "tokens", "update_timestamps">>
  \o GeneralMembers \o OriginMembers \o LocationMembers \o SkillMembers
  \o CloneMembers \o MailMembers
  \o (IF v >= 29 THEN WalletMembers ELSE <<>>)
  \o (IF v >= 29 THEN <<"assetsModel">> ELSE <<>>)
  \o (IF v >= 30 THEN <<"assetsLocations">> ELSE <<>>)]

(* operator>> of a Character, for a record of version 27 or later.         *)
Read == [v \in SavedVersions |->
  <<"characterId", "tokens", "update_timestamps">>
  \o GeneralMembers \o OriginMembers \o LocationMembers \o SkillMembers
  \o CloneMembers \o MailMembers
  \o (IF v >= 28 THEN WalletMembers ELSE <<>>)
  \o (IF v >= 29 THEN <<"assetsModel">> ELSE <<>>)
  \o (IF v >= 30 THEN <<"assetsLocations">> ELSE <<>>)]

(* A member is read from the place where it was written, or something else *)
(* is: its place is after those of the earlier members of that version.    *)
At(seq, m) == CHOOSE i \in DOMAIN seq : seq[i] = m
PlaceIn(v, m) ==
  Cardinality({i \in 1 .. At(Written, m) : Written[i] \in WrittenIn(v)})
InPlace(v, m) == m \in WrittenIn(v) /\ PlaceIn(v, m) = At(Read[v], m)

(* The members that refreshes set.                                         *)
Members == ToSet(GeneralMembers \o OriginMembers \o LocationMembers
    \o SkillMembers \o CloneMembers \o MailMembers \o WalletMembers)
  \cup {"assetsModel", "assetsLocations", "tokens", "update_timestamps"}

(* Setters that do not compare.                                            *)
SetWithoutComparing == {"raceId", "ancestryId", "bloodlineId", "skillQueue",
                        "tokens", "update_timestamps"}
(* Setters that compare with qFuzzyCompare.                                *)
ComparedFuzzily == {"securityStatus", "isk", "currentSolarSystemSecurity"}

(* The class of the entries of a member; the others are single values.     *)
ClassOf == [homeLocation |-> "EveLocation", clonesModel |-> "CharacterClone",
  currentClone |-> "InvType", assetsModel |-> "AssetEntry",
  assetsLocations |-> "AssetLocationEntry",
  walletJournal |-> "WalletJournalEntry",
  walletTransactions |-> "WalletSingleTransaction",
  mailNotifications |-> "Notification", mailLabels |-> "MailLabel",
  mailingLists |-> "MailRecipient", mails |-> "Mail",
  skillQueue |-> "CharacterSkillQueueItem", skills |-> "CharacterSkill",
  tokens |-> "EveOAuthTokens", update_timestamps |-> "UpdateTimestamps"]

Class(fields, compared, stream) ==
  [fields |-> fields, compared |-> compared, stream |-> stream]
Classes == [
  EveLocation |-> Class(LocationFields, LocationCompared, LocationStream),
  CharacterClone |-> Class(CloneFields, CloneCompared, CloneStream),
  InvType |-> Class(InvTypeFields, InvTypeCompared, InvTypeStream),
  AssetEntry |-> Class(AssetFields, AssetCompared, AssetStream),
  AssetLocationEntry |-> Class(AssetLocationFields, AssetLocationCompared,
                               AssetLocationStream),
  WalletJournalEntry |-> Class(JournalFields, JournalCompared, JournalStream),
  WalletSingleTransaction |-> Class(TransactionFields, TransactionCompared,
                                    TransactionStream),
  Notification |-> Class(NotificationFields, NotificationCompared,
                         NotificationStream),
  MailLabel |-> Class(LabelFields, LabelCompared, LabelStream),
  MailRecipient |-> Class(RecipientFields, RecipientCompared,
                          RecipientStream),
  Mail |-> Class(MailFields, MailCompared, MailStream),
  CharacterSkillQueueItem |-> Class(QueueItemFields, {}, QueueItemStream),
  CharacterSkill |-> Class(SkillFields, SkillCompared, SkillStream),
  EveOAuthTokens |-> Class(TokenFields, {}, TokenStream),
  UpdateTimestamps |-> Class(TimestampFields, {}, TimestampStream)]

-----------------------------------------------------------------------------
(* The endpoints: what EveApi expects as the reply of each.                *)

AssetAndCloneEndpoints == [
  assets |-> "array", assets_names |-> "array", attributes |-> "object",
  clones |-> "object", fatigue |-> "object", implants |-> "array",
  public_info |-> "object", location |-> "object"]
(* Mutant: the notifications are taken for an object.                      *)
MailEndpointsWrong == [
  mail_headers |-> "array", mail_id |-> "object", mail_labels |-> "object",
  mailing_lists |-> "array", notifications |-> "object"]
MailEndpoints == [
  mail_headers |-> "array", mail_id |-> "object", mail_labels |-> "object",
  mailing_lists |-> "array", notifications |-> "array"]
SkillAndWalletEndpoints == [
  ship |-> "object", skillqueue |-> "array", skills |-> "object",
  wallet |-> "number", wallet_journal |-> "array",
  wallet_transactions |-> "array"]
UniverseEndpoints == [
  corporation |-> "object", alliance |-> "object", constellation |-> "object",
  names |-> "array", region |-> "object", station |-> "object",
  structure |-> "object", system |-> "object"]
Expected == UniverseEndpoints @@ SkillAndWalletEndpoints @@ MailEndpoints
            @@ AssetAndCloneEndpoints

(* What ESI sends.                                                         *)
Sent == [e \in DOMAIN Expected |->
  IF e = "wallet" THEN "number"
  ELSE IF e \in {"assets", "assets_names", "implants", "mail_headers",
                 "mailing_lists", "notifications", "skillqueue",
                 "wallet_journal", "wallet_transactions", "names"}
  THEN "array" ELSE "object"]

(* The endpoint that answers for a member; the names of races, types and   *)
(* the like come from the static data with the answer for their ids, and   *)
(* tokens and timestamps are set by the worker itself.                     *)
Endpoint(member) ==
  CASE member \in {"corporationName", "corporationTicker"} -> "corporation"
    [] member \in {"allianceName", "allianceTicker"} -> "alliance"
    [] member \in ToSet(GeneralMembers \o OriginMembers) -> "public_info"
    [] member = "isk" -> "wallet"
    [] member \in {"currentSolarSystemName", "currentSolarSystemSecurity",
                   "currentConstellationId"} -> "system"
    [] member \in {"currentConstellationName", "currentRegionId"} ->
         "constellation"
    [] member = "currentRegionName" -> "region"
    [] member = "currentStructureName" -> "structure"
    [] member \in {"currentShipTypeId", "currentShipTypeName",
                   "currentShipFriendlyName"} -> "ship"
    [] member \in ToSet(LocationMembers) -> "location"
    [] member \in {"totalSp", "isAlphaClone", "skills"} -> "skills"
    [] member = "skillQueue" -> "skillqueue"
    [] member \in ToSet(SkillMembers) -> "attributes"
    [] member = "currentClone" -> "implants"
    [] member \in {"clonesModel", "lastCloneJumpDate", "homeLocation"} ->
         "clones"
    [] member \in {"jumpFatigueExpireDate", "lastJumpDate"} -> "fatigue"
    [] member = "mailLabels" -> "mail_labels"
    [] member = "mails" -> "mail_headers"
    [] member = "mailingLists" -> "mailing_lists"
    [] member = "mailNotifications" -> "notifications"
    [] member = "walletJournal" -> "wallet_journal"
    [] member = "walletTransactions" -> "wallet_transactions"
    [] member \in {"assetsModel", "assetsLocations"} -> "assets"
    [] OTHER -> "none"
=============================================================================
