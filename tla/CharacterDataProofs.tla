------------------------ MODULE CharacterDataProofs ------------------------
(***************************************************************************)
(* Proofs about CharacterData, for every piece of a character: the row     *)
(* shows the last answer as far as the operators compare, a start reads    *)
(* what was written, and a character is lost in one window of              *)
(* saveCharacters only.                                                    *)
(***************************************************************************)
EXTENDS CharacterData, SequenceTheorems, FiniteSetTheorems, TLAPS

-----------------------------------------------------------------------------
(* The streams.                                                            *)

Places(v) == CASE v = 26 -> 56 [] v = 27 -> 56 [] v = 28 -> 58 [] v = 29 -> 59 [] v = 30 -> 60

LEMMA WrittenPlaces ==
  /\ DOMAIN Written = 1 .. 60
  /\ \A i, j \in DOMAIN Written : Written[i] = Written[j] => i = j
  /\ \A i \in 1 .. 60 :
       Since(Written[i]) = IF i <= 56 THEN 27 ELSE IF i <= 58 THEN 28 ELSE IF i = 59 THEN 29 ELSE 30
<1>1. DOMAIN Written = 1 .. 60
  BY DEF Written, GeneralMembers, OriginMembers, LocationMembers, SkillMembers,
    CloneMembers, MailMembers, WalletMembers
<1>2. \A i, j \in DOMAIN Written : Written[i] = Written[j] => i = j
  BY DEF Written, GeneralMembers, OriginMembers, LocationMembers, SkillMembers,
    CloneMembers, MailMembers, WalletMembers
<1>3. \A i \in 1 .. 60 :
       Since(Written[i]) = IF i <= 56 THEN 27 ELSE IF i <= 58 THEN 28 ELSE IF i = 59 THEN 29 ELSE 30
  BY DEF Since, ToSet, Written, GeneralMembers, OriginMembers, LocationMembers, SkillMembers,
    CloneMembers, MailMembers, WalletMembers
<1>4. QED
  BY <1>1, <1>2, <1>3

LEMMA ReadPlaces ==
  \A v \in SavedVersions :
    /\ DOMAIN Read[v] = 1 .. Places(v)
    /\ \A i \in 1 .. Places(v) : Read[v][i] = Written[i]
<1>1. SavedVersions = {26, 27, 28, 29, 30}
  BY DEF SavedVersions
<1>2. /\ DOMAIN Read[26] = 1 .. Places(26)
      /\ \A i \in 1 .. Places(26) : Read[26][i] = Written[i]
  BY <1>1 DEF Read, Places, Written, GeneralMembers, OriginMembers, LocationMembers, SkillMembers,
    CloneMembers, MailMembers, WalletMembers
<1>3. /\ DOMAIN Read[27] = 1 .. Places(27)
      /\ \A i \in 1 .. Places(27) : Read[27][i] = Written[i]
  BY <1>1 DEF Read, Places, Written, GeneralMembers, OriginMembers, LocationMembers, SkillMembers,
    CloneMembers, MailMembers, WalletMembers
<1>4. /\ DOMAIN Read[28] = 1 .. Places(28)
      /\ \A i \in 1 .. Places(28) : Read[28][i] = Written[i]
  BY <1>1 DEF Read, Places, Written, GeneralMembers, OriginMembers, LocationMembers, SkillMembers,
    CloneMembers, MailMembers, WalletMembers
<1>5. /\ DOMAIN Read[29] = 1 .. Places(29)
      /\ \A i \in 1 .. Places(29) : Read[29][i] = Written[i]
  BY <1>1 DEF Read, Places, Written, GeneralMembers, OriginMembers, LocationMembers, SkillMembers,
    CloneMembers, MailMembers, WalletMembers
<1>6. /\ DOMAIN Read[30] = 1 .. Places(30)
      /\ \A i \in 1 .. Places(30) : Read[30][i] = Written[i]
  BY <1>1 DEF Read, Places, Written, GeneralMembers, OriginMembers, LocationMembers, SkillMembers,
    CloneMembers, MailMembers, WalletMembers
<1>7. QED
  BY <1>1, <1>2, <1>3, <1>4, <1>5, <1>6

(* A member is read by a version since which it is there, from its place.  *)
LEMMA MemberRead ==
  ASSUME NEW v \in 27 .. 30, NEW m
  PROVE  /\ m \in ToSet(Read[v]) <=> m \in WrittenIn(v)
         /\ m \in WrittenIn(v) => InPlace(v, m)
<1>1. Places(v) \in 1 .. 60 /\ v \in SavedVersions
  BY DEF Places, SavedVersions
<1>2. \A i \in 1 .. 60 : Since(Written[i]) <= v <=> i <= Places(v)
  BY WrittenPlaces DEF Places
<1>3. \A i \in 1 .. 60 : Written[i] \in WrittenIn(v) <=> i <= Places(v)
  BY <1>2, WrittenPlaces DEF WrittenIn, ToSet
<1>4. m \in WrittenIn(v) <=> \E i \in 1 .. Places(v) : Written[i] = m
  BY <1>1, <1>2, WrittenPlaces DEF WrittenIn, ToSet
<1>5. m \in ToSet(Read[v]) <=> \E i \in 1 .. Places(v) : Written[i] = m
  BY <1>1, ReadPlaces DEF ToSet
<1>6. ASSUME m \in WrittenIn(v) PROVE InPlace(v, m)
  <2>1. PICK i \in 1 .. Places(v) : Written[i] = m
    BY <1>4, <1>6
  <2>2. At(Written, m) = i
    BY <1>1, <2>1, WrittenPlaces DEF At
  <2>3. At(Read[v], m) = i
    <3>1. DOMAIN Read[v] = 1 .. Places(v)
      BY <1>1, ReadPlaces
    <3>2. \A j \in 1 .. Places(v) : Read[v][j] = m <=> j = i
      <4>1. \A j \in 1 .. Places(v) : Read[v][j] = Written[j]
        BY <1>1, ReadPlaces
      <4>2. QED
        BY <1>1, <2>1, <4>1, WrittenPlaces
    <3>3. QED
      BY <2>1, <3>1, <3>2 DEF At
  <2>4. {k \in 1 .. i : Written[k] \in WrittenIn(v)} = 1 .. i
    BY <1>1, <1>3
  <2>5. PlaceIn(v, m) = i
    <3>1. PlaceIn(v, m) = Cardinality(1 .. i)
      BY <2>2, <2>4 DEF PlaceIn
    <3>2. i \in Int /\ i >= 1
      BY <1>1
    <3>3. Cardinality(1 .. i) = i
      BY <3>2, FS_Interval
    <3>4. QED
      BY <3>1, <3>3
  <2>6. QED
    BY <1>6, <2>3, <2>5 DEF InPlace
<1>7. QED
  BY <1>4, <1>5, <1>6

LEMMA IdInPlace == \A v \in 27 .. 30 : InPlace(v, "characterId")
<1>1. Written[1] = "characterId" /\ Since(Written[1]) = 27
  <2>1. Written[1] = "characterId"
    BY DEF Written
  <2>2. Since(Written[1]) = 27
    BY WrittenPlaces
  <2>3. QED
    BY <2>1, <2>2
<1>2. \A v \in 27 .. 30 : "characterId" \in WrittenIn(v)
  BY <1>1, WrittenPlaces DEF WrittenIn, ToSet
<1>3. QED
  BY <1>2, MemberRead

(* Every field of a class is in its stream; the group of a skill is looked *)
(* up.                                                                     *)
LEMMA FieldsStreamed ==
  \A c \in DOMAIN Classes :
    Classes[c].fields \subseteq ToSet(Classes[c].stream) \cup {"skillGroup"}
<1>1. ASSUME NEW c \in {"EveLocation", "CharacterClone", "InvType", "AssetEntry"}
      PROVE  Classes[c].fields \subseteq ToSet(Classes[c].stream) \cup {"skillGroup"}
  BY SMTT(30) DEF Classes, Class, ToSet, LocationFields, LocationStream, CloneFields, CloneStream,
    InvTypeFields, InvTypeStream, AssetFields, AssetStream
<1>2. ASSUME NEW c \in {"AssetLocationEntry", "WalletJournalEntry", "WalletSingleTransaction",
                       "Notification"}
      PROVE  Classes[c].fields \subseteq ToSet(Classes[c].stream) \cup {"skillGroup"}
  BY SMTT(30) DEF Classes, Class, ToSet, AssetLocationFields, AssetLocationStream, JournalFields,
    JournalStream, TransactionFields, TransactionStream, NotificationFields, NotificationStream
<1>3. ASSUME NEW c \in {"MailLabel", "MailRecipient", "Mail", "CharacterSkillQueueItem"}
      PROVE  Classes[c].fields \subseteq ToSet(Classes[c].stream) \cup {"skillGroup"}
  BY SMTT(30) DEF Classes, Class, ToSet, LabelFields, LabelStream, RecipientFields, RecipientStream,
    MailFields, MailStream, QueueItemFields, QueueItemStream
<1>4. ASSUME NEW c \in {"CharacterSkill", "EveOAuthTokens", "UpdateTimestamps"}
      PROVE  Classes[c].fields \subseteq ToSet(Classes[c].stream) \cup {"skillGroup"}
  BY SMTT(30) DEF Classes, Class, ToSet, SkillFields, SkillTemplateFields, SkillStream, TokenFields,
    TokenStream, TimestampFields, TimestampStream
<1>5. DOMAIN Classes = {"EveLocation", "CharacterClone", "InvType", "AssetEntry",
        "AssetLocationEntry", "WalletJournalEntry", "WalletSingleTransaction", "Notification",
        "MailLabel", "MailRecipient", "Mail", "CharacterSkillQueueItem", "CharacterSkill",
        "EveOAuthTokens", "UpdateTimestamps"}
  BY DEF Classes
<1>6. QED
  BY <1>1, <1>2, <1>3, <1>4, <1>5

LEMMA MemberKinds ==
  /\ \A m \in DOMAIN ClassOf : ClassOf[m] \in DOMAIN Classes
  /\ \A m \in ComparedFuzzily : m \notin DOMAIN ClassOf
  /\ "clonesModel" \notin ComparedFuzzily \cup ComparedByEntry
  /\ "clonesModel" \in DOMAIN ClassOf
  /\ "homeLocation" \in DOMAIN ClassOf /\ ~IsList("homeLocation")
  /\ IsList("clonesModel") /\ ~IsList("update_timestamps")
  /\ "update_timestamps" \in DOMAIN ClassOf
  /\ ComparedByEntry \subseteq DOMAIN ClassOf
<1>1. \A m \in DOMAIN ClassOf : ClassOf[m] \in DOMAIN Classes
  BY DEF ClassOf, Classes
<1>2. QED
  BY <1>1 DEF ClassOf, ComparedFuzzily, ComparedByEntry, SetWithoutComparing, IsList

LEMMA MembersAssigned == Members \subseteq ToSet(Assigned)
  BY DEF Members, ToSet, Assigned, GeneralMembers, OriginMembers, LocationMembers, SkillMembers,
    CloneMembers, MailMembers, WalletMembers

-----------------------------------------------------------------------------
(* A piece that somebody holds is not the mark of an absent one.           *)
LEMMA HeldIsThere == \A data, answer : Held(data, answer) # Absent
BY DEF Held, Absent

-----------------------------------------------------------------------------
(* Lists of entries.                                                       *)

LEMMA PrefixMeans ==
  ASSUME NEW S, NEW s \in Seq(S), NEW t \in Seq(S)
  PROVE  IsPrefix(s, t) <=> /\ Len(s) <= Len(t)
                            /\ \A i \in 1 .. Len(s) : s[i] = t[i]
<1>1. Len(s) \in Nat /\ Len(t) \in Nat
  BY LenProperties
<1>2. SubSeq(s, 1, Len(s)) = s
  BY SubSeqFull
<1>3. CASE ~(Len(s) <= Len(t))
  BY <1>3 DEF IsPrefix
<1>4. CASE Len(s) <= Len(t)
  <2>1. \A i \in 1 .. Len(s) : t[i] \in S
    BY <1>1, <1>4, ElementOfSeq
  <2>2. PICK u : u = SubSeq(t, 1, Len(s))
    OBVIOUS
  <2>3. u \in Seq(S) /\ Len(u) = Len(s) /\ \A i \in 1 .. Len(s) : u[i] = t[i]
    <3>1. 1 \in Int /\ Len(s) \in Int
      BY <1>1
    <3>2. /\ u \in Seq(S)
          /\ Len(u) = IF 1 <= Len(s) THEN Len(s) - 1 + 1 ELSE 0
          /\ \A i \in 1 .. Len(s) - 1 + 1 : u[i] = t[1 + i - 1]
      BY <2>1, <2>2, <3>1, SubSeqProperties
    <3>3. QED
      BY <1>1, <3>2
  <2>4. s = u <=> \A i \in 1 .. Len(s) : s[i] = u[i]
    BY <2>3, SeqEqual
  <2>5. QED
    BY <1>2, <1>4, <2>2, <2>3, <2>4 DEF IsPrefix
<1>5. QED
  BY <1>3, <1>4

LEMMA ClonesSet ==
  ASSUME NEW old \in Seq(Entries), NEW new \in Seq(Entries)
  PROVE  SetClones(old, new) \in Seq(Entries) /\ IsPrefix(new, SetClones(old, new))
<1>1. Len(old) \in Nat /\ Len(new) \in Nat
  BY LenProperties
<1>2. PICK rest : rest = SubSeq(old, Len(new) + 1, Len(old))
  OBVIOUS
<1>3. rest \in Seq(Entries)
  <2>1. \A i \in Len(new) + 1 .. Len(old) : old[i] \in Entries
    BY <1>1, ElementOfSeq
  <2>2. Len(new) + 1 \in Int /\ Len(old) \in Int
    BY <1>1
  <2>3. QED
    BY <1>2, <2>1, <2>2, SubSeqProperties
<1>4. Len(rest) \in Nat
  BY <1>3, LenProperties
<1>5. PICK all : all = new \o rest
  OBVIOUS
<1>6. /\ all \in Seq(Entries)
      /\ Len(all) = Len(new) + Len(rest)
      /\ \A i \in 1 .. Len(new) + Len(rest) :
           all[i] = IF i <= Len(new) THEN new[i] ELSE rest[i - Len(new)]
  BY <1>3, <1>5, ConcatProperties
<1>7. Len(new) <= Len(all) /\ \A i \in 1 .. Len(new) : new[i] = all[i]
  BY <1>1, <1>4, <1>6
<1>8. IsPrefix(new, all)
  BY <1>6, <1>7, PrefixMeans
<1>9. QED
  BY <1>2, <1>5, <1>6, <1>8 DEF SetClones

LEMMA PrefixOfPrefix ==
  ASSUME NEW s \in Seq(Entries), NEW t \in Seq(Entries), NEW u \in Seq(Entries),
         IsPrefix(s, t), IsPrefix(t, u)
  PROVE  IsPrefix(s, u)
<1>1. Len(s) \in Nat /\ Len(t) \in Nat /\ Len(u) \in Nat
  BY LenProperties
<1>2. /\ Len(s) <= Len(t) /\ \A i \in 1 .. Len(s) : s[i] = t[i]
      /\ Len(t) <= Len(u) /\ \A i \in 1 .. Len(t) : t[i] = u[i]
  BY PrefixMeans
<1>3. Len(s) <= Len(u) /\ \A i \in 1 .. Len(s) : s[i] = u[i]
  BY <1>1, <1>2
<1>4. QED
  BY <1>3, PrefixMeans

(* What the comparison of lists is good for.                               *)
LEMMA ListsCompare ==
  ASSUME NEW p, NEW d \in Seq(Entries), NEW e \in Seq(Entries), NEW f \in Seq(Entries)
  PROVE  /\ SameList(p, d, d)
         /\ SameList(p, d, e) /\ SameList(p, e, f) => SameList(p, d, f)
<1>1. \A i, j, k : SameEntry(p, i, j) /\ SameEntry(p, j, k) => SameEntry(p, i, k)
  BY DEF SameEntry
<1>2. \A i : SameEntry(p, i, i)
  BY DEF SameEntry
<1>3. DOMAIN d = 1 .. Len(d) /\ DOMAIN e = 1 .. Len(e)
  BY LenProperties
<1>4. QED
  BY <1>1, <1>2, <1>3 DEF SameList

(* An entry that is replaced, field by field, by another entry.            *)
LEMMA EntryTypes ==
  /\ \A e \in Entries : [e EXCEPT !.rest = 0] \in Entries /\ Entry(e.key, 0) \in Entries
  /\ \A k \in Keys \cup {0}, r \in 0 .. Coarse : Entry(k, r) \in Entries
  /\ \A e \in Entries : e.key \in Keys \cup {0} /\ e.rest \in 0 .. Coarse
  /\ Entry(0, 0) \in Entries /\ Entry(0, 1) \in Entries
<1>1. Coarse \in Nat \ {0}
  BY DataBoundsAssumption
<1>2. 0 \in 0 .. Coarse /\ 1 \in 0 .. Coarse
  BY <1>1
<1>3. QED
  BY <1>2 DEF Entries, Entry

LEMMA SingletonSeq ==
  ASSUME NEW S, NEW x \in S
  PROVE  <<x>> \in Seq(S) /\ Len(<<x>>) = 1
  OBVIOUS

-----------------------------------------------------------------------------
(* Pieces and their data.                                                  *)

(* A single value is a list of one entry.                                  *)
Fits(p, data) ==
  data \in Seq(Entries) /\ (~IsList(p.member) => Len(data) = 1)

LEMMA PieceKnown ==
  ASSUME NEW p \in Pieces
  PROVE  /\ p.member \in Members
         /\ p.member \in DOMAIN ClassOf => p.field \in Classes[ClassOf[p.member]].fields
<1>1. CASE \E m \in Tracked \ DOMAIN ClassOf : p = [member |-> m, field |-> "value"]
  BY <1>1, TrackedAssumption
<1>2. CASE \E m \in Tracked \cap DOMAIN ClassOf :
             \E f \in Classes[ClassOf[m]].fields : p = [member |-> m, field |-> f]
  BY <1>2, TrackedAssumption
<1>3. QED
  BY <1>1, <1>2 DEF Pieces

LEMMA DefaultFits ==
  ASSUME NEW p \in Pieces
  PROVE  Fits(p, Default(p.member))
<1>1. <<>> \in Seq(Entries)
  BY EmptySeq
<1>2. <<Entry(0, 0)>> \in Seq(Entries) /\ Len(<<Entry(0, 0)>>) = 1
  BY EntryTypes, SingletonSeq
<1>3. QED
  BY <1>1, <1>2 DEF Fits, Default

LEMMA SetFits ==
  ASSUME NEW p \in Pieces, NEW old, NEW new, Fits(p, old), Fits(p, new)
  PROVE  Fits(p, Set(p, old, new))
<1>1. CASE p.member = "clonesModel"
  BY <1>1, ClonesSet, MemberKinds DEF Fits, Set
<1>2. CASE p.member # "clonesModel"
  <2>1. Set(p, old, new) \in {old, new}
    BY <1>2 DEF Set
  <2>2. QED
    BY <2>1 DEF Fits
<1>3. QED
  BY <1>1, <1>2

LEMMA ShowsItself ==
  ASSUME NEW p \in Pieces, NEW data, Fits(p, data)
  PROVE  Shows(p, data, data)
<1>1. IsPrefix(data, data)
  BY PrefixMeans, LenProperties DEF Fits
<1>2. SameList(p, data, data)
  BY ListsCompare DEF Fits
<1>3. \A v : FuzzyEqual(v, v)
  BY DEF FuzzyEqual
<1>4. QED
  BY <1>1, <1>2, <1>3, MemberKinds DEF Shows

(* What is set is shown.                                                   *)
LEMMA SetShows ==
  ASSUME NEW p \in Pieces, NEW old, NEW new, Fits(p, old), Fits(p, new)
  PROVE  Shows(p, Set(p, old, new), new)
<1>1. CASE p.member = "clonesModel"
  BY <1>1, ClonesSet, MemberKinds DEF Fits, Set, Shows
<1>2. CASE p.member \in ComparedFuzzily
  BY <1>2, MemberKinds DEF Set, Shows, FuzzyEqual
<1>3. CASE p.member \in ComparedByEntry
  BY <1>3, MemberKinds, ListsCompare DEF Set, Shows, Fits
<1>4. CASE p.member \notin {"clonesModel"} \cup ComparedFuzzily \cup ComparedByEntry
  BY <1>4 DEF Set, Shows
<1>5. QED
  BY <1>1, <1>2, <1>3, <1>4

(* What shows an answer still does so after it is set, unless the setter   *)
(* compares fuzzily.                                                       *)
LEMMA SetShowsAnswer ==
  ASSUME NEW p \in Pieces, NEW old, NEW new, NEW answer,
         Fits(p, old), Fits(p, new), Fits(p, answer),
         p.member \notin ComparedFuzzily, Shows(p, new, answer)
  PROVE  Shows(p, Set(p, old, new), answer)
<1>1. CASE p.member = "clonesModel"
  <2>1. IsPrefix(answer, new)
    BY <1>1, MemberKinds DEF Shows
  <2>2. IsPrefix(new, SetClones(old, new)) /\ SetClones(old, new) \in Seq(Entries)
    BY ClonesSet DEF Fits
  <2>3. IsPrefix(answer, SetClones(old, new))
    BY <2>1, <2>2, PrefixOfPrefix DEF Fits
  <2>4. QED
    BY <1>1, <2>3, MemberKinds DEF Set, Shows
<1>2. CASE p.member \in ComparedByEntry
  <2>1. SameList(p, new, answer)
    BY <1>2, MemberKinds DEF Shows
  <2>2. SameList(p, old, new) => SameList(p, old, answer)
    BY <2>1, ListsCompare DEF Fits
  <2>3. QED
    BY <1>2, <2>1, <2>2, MemberKinds DEF Set, Shows
<1>3. CASE p.member \notin {"clonesModel"} \cup ComparedFuzzily \cup ComparedByEntry
  BY <1>3 DEF Set, Shows
<1>4. QED
  BY <1>1, <1>2, <1>3

(* operator= copies every field and sets every member.                     *)
LEMMA AssignSets ==
  ASSUME NEW p \in Pieces, NEW old, NEW new
  PROVE  Assign(p, old, new) = Set(p, old, new)
<1>1. Copied(p, new) = new
  BY PieceKnown DEF Copied
<1>2. QED
  BY <1>1, PieceKnown, MembersAssigned DEF Assign

(* operator>> reads what that version wrote, and else leaves the default.  *)
LEMMA LoadedAsWritten ==
  ASSUME NEW p \in Pieces, NEW s, s.version \in 27 .. 30
  PROVE  Loaded(p, s) = IF WrittenBy(p, s) THEN s.held.data ELSE Default(p.member)
<1>1. CASE p.member \notin WrittenIn(s.version)
  BY <1>1, MemberRead DEF Loaded, WrittenBy
<1>2. CASE p.member \in WrittenIn(s.version)
  <2>1. Loaded(p, s) = PieceRead(p, s.utst, s.held.data)
    BY <1>2, MemberRead DEF Loaded
  <2>2. CASE p.member = "update_timestamps"
    BY <1>2, <2>1, <2>2 DEF PieceRead, TimestampRead, WrittenBy
  <2>3. CASE p.member \in DOMAIN ClassOf \ {"update_timestamps"}
    <3>1. p.field \in ToSet(Classes[ClassOf[p.member]].stream) \cup {"skillGroup"}
      BY <2>3, PieceKnown, FieldsStreamed, MemberKinds
    <3>2. QED
      BY <1>2, <2>1, <2>3, <3>1 DEF PieceRead, FieldRead, WrittenBy
  <2>4. CASE p.member \notin DOMAIN ClassOf
    BY <1>2, <2>1, <2>4, MemberKinds DEF PieceRead, WrittenBy
  <2>5. QED
    BY <2>2, <2>3, <2>4
<1>3. QED
  BY <1>1, <1>2

-----------------------------------------------------------------------------
(* The game's answers.                                                     *)

(* A function on the places of a list.                                     *)
LEMMA SameShape ==
  ASSUME NEW p \in Pieces, NEW list, Fits(p, list), NEW data \in [DOMAIN list -> Entries]
  PROVE  Fits(p, data)
<1>1. DOMAIN list = 1 .. Len(list) /\ Len(list) \in Nat
  BY LenProperties DEF Fits
<1>2. data \in Seq(Entries)
  BY <1>1, SeqDef
<1>3. Len(data) = Len(list)
  BY <1>1, <1>2, LenProperties
<1>4. QED
  BY <1>2, <1>3 DEF Fits

LEMMA PartFits ==
  ASSUME NEW p \in Pieces, NEW list, Fits(p, list), NEW part \in Incomplete(list)
  PROVE  Fits(p, part)
<1>1. list \in Seq(Entries) /\ Len(list) \in Nat /\ DOMAIN list = 1 .. Len(list)
  BY LenProperties DEF Fits
<1>2. PICK n \in 0 .. Len(list) : part \in [1 .. n -> ToSet(list)]
  BY DEF Incomplete
<1>3. ToSet(list) \subseteq Entries
  BY <1>1, ElementOfSeq DEF ToSet
<1>4. part \in [1 .. n -> Entries] /\ n \in Nat
  BY <1>1, <1>2, <1>3
<1>5. part \in Seq(Entries)
  BY <1>4, SeqDef
<1>6. Len(part) = n
  BY <1>4, <1>5, LenProperties
<1>7. ASSUME Len(list) = 1 PROVE Len(part) = 1
  <2>1. list # <<>>
    BY <1>7
  <2>2. part # <<>>
    BY <2>1 DEF Incomplete
  <2>3. n # 0
    BY <1>5, <1>6, <2>2, EmptySeq
  <2>4. QED
    BY <1>2, <1>6, <1>7, <2>3
<1>8. QED
  BY <1>5, <1>7 DEF Fits

LEMMA AnswersFit ==
  ASSUME piece \in Pieces, Fits(piece, server), NEW data \in Answers
  PROVE  Fits(piece, data)
<1> DEFINE paged ==
             IF Endpoint(piece.member) # "assets" THEN {server} ELSE Incomplete(server)
           resolved(d) ==
             IF <<piece.member, piece.field>> \notin Resolved THEN {d}
             ELSE {[i \in DOMAIN d |-> IF i \in come THEN d[i] ELSE Entry(d[i].key, 0)] :
                     come \in SUBSET DOMAIN d}
           home == IF piece.member = "homeLocation" THEN {<<Entry(0, 0)>>} ELSE {}
<1>0. data \in home \/ \E d \in paged : data \in resolved(d)
  BY Zenon DEF Answers
<1>1. CASE \E d \in paged : data \in resolved(d)
  <2>1. PICK d \in paged : data \in resolved(d)
    BY <1>1
  <2>2. Fits(piece, d)
    BY <2>1, PartFits
  <2>3. CASE data = d
    BY <2>2, <2>3
  <2>4. CASE \E come \in SUBSET DOMAIN d :
               data = [i \in DOMAIN d |-> IF i \in come THEN d[i] ELSE Entry(d[i].key, 0)]
    <3>1. \A i \in DOMAIN d : d[i] \in Entries
      BY <2>2, LenProperties, ElementOfSeq DEF Fits
    <3>2. \A i \in DOMAIN d : Entry(d[i].key, 0) \in Entries
      BY <3>1, EntryTypes
    <3>3. data \in [DOMAIN d -> Entries]
      BY <2>4, <3>1, <3>2
    <3>4. QED
      BY <2>2, <3>3, SameShape
  <2>5. QED
    BY <2>1, <2>3, <2>4
<1>2. CASE data \in home
  <2>1. data = <<Entry(0, 0)>>
    BY <1>2
  <2>2. QED
    BY <2>1, EntryTypes, SingletonSeq DEF Fits
<1>3. QED
  BY <1>0, <1>1, <1>2, Zenon

-----------------------------------------------------------------------------
(* The invariant.                                                          *)

(* Values that may drift are left out of the claim.                        *)
Covered == piece.member \in ComparedFuzzily => MaxPosted <= 1

(* What somebody holds of the piece shows the answer that is noted with it.*)
Good(held) ==
  /\ held \in Values
  /\ Fits(piece, held.data) /\ Fits(piece, held.answer)
  /\ Covered => Shows(piece, held.data, held.answer)

AllGood ==
  /\ row # Absent => Good(row)
  /\ worker # Absent => Good(worker)
  /\ \A i \in 1 .. Len(posted) : Good(posted[i])
  /\ saved # NoRecord => Good(saved.held)

(* When values are compared fuzzily: a copy has the value of the row, or   *)
(* one that the setter tells from it; so what the setter keeps of the row  *)
(* when the copy comes back is as close to the answer as the copy is.      *)
Close(data, other) == FuzzyEqual(data[1].rest, other[1].rest)
NoDrift ==
  piece.member \in ComparedFuzzily /\ MaxPosted <= 1 /\ row # Absent =>
    /\ worker # Absent =>
         /\ posted # <<>> => row.data[1].rest = worker.data[1].rest
         /\ Close(row.data, worker.data) => row.data[1].rest = worker.data[1].rest
    /\ posted # <<>> /\ Close(row.data, posted[1].data) =>
         Close(row.data, posted[1].answer)

IInv ==
  /\ TypeOK
  /\ Fits(piece, server)
  /\ ~running => row = Absent /\ worker = Absent /\ posted = <<>>
  /\ AllGood
  /\ NoDrift

LEMMA HeldValue ==
  ASSUME NEW data \in Seq(Entries), NEW answer \in Seq(Entries)
  PROVE  /\ Held(data, answer) \in Values /\ Held(data, answer) # Absent
         /\ Held(data, answer).data = data /\ Held(data, answer).answer = answer
  BY HeldIsThere DEF Held, Values

LEMMA SavedRecord ==
  ASSUME NEW held \in Values
  PROVE  /\ Saved(held) \in [version : SavedVersions, utst : 2 .. 4, held : Values]
         /\ Saved(held).held = held /\ Saved(held) # NoRecord
  BY DEF Saved, SavedVersions, NoRecord

(* The fuzzily compared members are single values.                         *)
LEMMA FuzzyEntries ==
  ASSUME NEW p \in Pieces, p.member \in ComparedFuzzily, NEW data, Fits(p, data)
  PROVE  data[1].rest \in Nat
<1>1. ~IsList(p.member)
  BY MemberKinds DEF IsList
<1>2. data[1] \in Entries
  BY <1>1, ElementOfSeq DEF Fits
<1>3. QED
  BY <1>2, EntryTypes, DataBoundsAssumption

LEMMA GoodInit == Init => IInv
<1> SUFFICES ASSUME Init PROVE IInv
  OBVIOUS
<1>1. piece \in Pieces /\ row = Absent /\ worker = Absent /\ posted = <<>> /\ running = FALSE
      /\ saving = FALSE /\ changes = 0 /\ kills = 0 /\ dropped = FALSE
  BY DEF Init
<1>2. server \in Seq(Entries) /\ Len(server) = 1
  <2>1. CASE piece.member \in DOMAIN ClassOf
    <3>1. PICK k : k = CHOOSE j \in Keys : TRUE
      OBVIOUS
    <3>2. k \in Keys
      BY <3>1, DataBoundsAssumption
    <3>3. Entry(k, 1) \in Entries
      BY <3>2, EntryTypes, DataBoundsAssumption
    <3>4. server = <<Entry(k, 1)>>
      BY <2>1, <3>1 DEF Init
    <3>5. QED
      BY <3>3, <3>4, SingletonSeq
  <2>2. CASE piece.member \notin DOMAIN ClassOf
    <3>1. server = <<Entry(0, 1)>>
      BY <2>2 DEF Init
    <3>2. QED
      BY <3>1, EntryTypes, SingletonSeq
  <2>3. QED
    BY <2>1, <2>2
<1>3. Fits(piece, server)
  BY <1>2 DEF Fits
<1>4. PICK v \in Versions, utst \in 2 .. 4 :
        saved = [version |-> v, utst |-> utst, held |-> Held(server, server)]
  BY Zenon DEF Init
<1>5. Held(server, server) \in Values /\ Good(Held(server, server))
  <2>1. Shows(piece, server, server)
    BY <1>1, <1>3, ShowsItself
  <2>2. QED
    BY <1>2, <1>3, <2>1, HeldValue DEF Good
<1>6. saved \in [version : SavedVersions, utst : 2 .. 4, held : Values] /\ Good(saved.held)
  BY <1>4, <1>5, VersionsAssumption
<1>7. posted \in Seq(Values) /\ Len(posted) = 0
  BY <1>1, EmptySeq
<1>8. MaxRows \in Nat \ {0} /\ MaxChanges \in Nat /\ MaxKills \in Nat /\ MaxPosted \in Nat
  BY DataBoundsAssumption
<1>9. 0 \in 0 .. MaxChanges /\ 0 \in 0 .. MaxKills
  BY <1>8
<1>10. TypeOK
  <2>1. Len(server) <= MaxRows /\ Len(posted) <= MaxPosted
    BY <1>2, <1>7, <1>8
  <2>2. row \in Values \cup {Absent} /\ worker \in Values \cup {Absent}
    BY <1>1
  <2>3. running \in BOOLEAN /\ saving \in BOOLEAN /\ dropped \in BOOLEAN
        /\ changes \in 0 .. MaxChanges /\ kills \in 0 .. MaxKills
    BY <1>1, <1>9
  <2>4. QED
    BY <1>1, <1>2, <1>6, <1>7, <2>1, <2>2, <2>3 DEF TypeOK
<1>11. AllGood /\ NoDrift
  BY <1>1, <1>6, <1>7 DEF AllGood, NoDrift
<1>12. QED
  BY <1>1, <1>3, <1>10, <1>11 DEF IInv

-----------------------------------------------------------------------------
(* The steps of the game change no copy.                                   *)

LEMMA GameKeeps ==
  ASSUME IInv, NEW data, Changed(data), Fits(piece, data), Len(data) <= MaxRows
  PROVE  IInv'
<1>1. changes' \in 0 .. MaxChanges
  BY DataBoundsAssumption DEF IInv, TypeOK, Changed
<1>2. UNCHANGED <<piece, row, worker, posted, saved, running, saving, kills, dropped>>
      /\ server' = data
  BY DEF Changed
<1>3. TypeOK'
  BY <1>1, <1>2 DEF IInv, TypeOK, Fits
<1>4. Fits(piece, server)'
  BY <1>2 DEF Fits
<1>5. AllGood' /\ NoDrift'
  BY <1>2 DEF IInv, AllGood, Good, Covered, Fits, NoDrift, Close
<1>6. QED
  BY <1>2, <1>3, <1>4, <1>5 DEF IInv

LEMMA GameStep == IInv /\ GameNext => IInv'
<1> SUFFICES ASSUME IInv, GameNext PROVE IInv'
  OBVIOUS
<1>1. /\ piece \in Pieces /\ server \in Seq(Entries) /\ Len(server) <= MaxRows
      /\ Fits(piece, server)
  BY DEF IInv, TypeOK
<1>2. Len(server) \in Nat /\ DOMAIN server = 1 .. Len(server)
  BY <1>1, LenProperties
<1>3. Coarse \in Nat \ {0} /\ MaxRows \in Nat
  BY DataBoundsAssumption
<1>4. ASSUME NEW k \in Keys, GameAdds(k) PROVE IInv'
  <2>1. Entry(k, 1) \in Entries
    BY <1>3, EntryTypes
  <2>2. PICK data : data = Append(server, Entry(k, 1))
    OBVIOUS
  <2>3. data \in Seq(Entries) /\ Len(data) = Len(server) + 1
    BY <1>1, <2>1, <2>2, AppendProperties
  <2>4. Len(data) <= MaxRows /\ IsList(piece.member) /\ Changed(data)
    BY <1>2, <1>3, <1>4, <2>2, <2>3 DEF GameAdds
  <2>5. QED
    BY <2>3, <2>4, GameKeeps DEF Fits
<1>5. ASSUME NEW k \in Keys, GameMoves(k) PROVE IInv'
  <2>1. Len(server) = 1 /\ 1 \in 1 .. Len(server)
    BY <1>1, <1>5 DEF GameMoves, Fits, IsObject
  <2>2. PICK e : e = [server[1] EXCEPT !.key = k]
    OBVIOUS
  <2>3. server[1] \in Entries
    BY <1>1, <2>1, ElementOfSeq
  <2>4. e \in Entries
    BY <2>2, <2>3 DEF Entries
  <2>5. PICK data : data = [server EXCEPT ![1] = e]
    OBVIOUS
  <2>6. data \in Seq(Entries) /\ Len(data) = Len(server)
    BY <1>1, <2>1, <2>4, <2>5, ExceptSeq
  <2>7. Changed(data)
    BY <1>5, <2>2, <2>5 DEF GameMoves
  <2>8. QED
    BY <1>1, <2>1, <2>6, <2>7, GameKeeps DEF Fits
<1>6. ASSUME NEW i \in DOMAIN server, GameDrops(i) PROVE IInv'
  <2>1. PICK data : data = RemoveAt(server, i)
    OBVIOUS
  <2>2. data \in Seq(Entries) /\ Len(data) = Len(server) - 1
    <3>1. PICK front, back : /\ front = SubSeq(server, 1, i - 1)
                             /\ back = SubSeq(server, i + 1, Len(server))
      OBVIOUS
    <3>2. \A j \in 1 .. Len(server) : server[j] \in Entries
      BY <1>1, ElementOfSeq
    <3>3. i \in 1 .. Len(server)
      BY <1>2
    <3>4. front \in Seq(Entries) /\ Len(front) = i - 1
      <4>1. PICK n : n = i - 1
        OBVIOUS
      <4>2. n \in Nat /\ n <= Len(server)
        BY <1>2, <3>3, <4>1
      <4>3. 1 \in Int /\ n \in Int /\ \A j \in 1 .. n : server[j] \in Entries
        BY <1>2, <3>2, <4>2
      <4>4. SubSeq(server, 1, n) \in Seq(Entries)
            /\ Len(SubSeq(server, 1, n)) = IF 1 <= n THEN n - 1 + 1 ELSE 0
        BY <4>3, SubSeqProperties
      <4>5. QED
        BY <3>1, <4>1, <4>2, <4>4
    <3>5. back \in Seq(Entries) /\ Len(back) = Len(server) - i
      <4>1. PICK m : m = i + 1
        OBVIOUS
      <4>2. m \in Int /\ Len(server) \in Int
        BY <1>2, <3>3, <4>1
      <4>3. \A j \in m .. Len(server) : server[j] \in Entries
        BY <1>2, <3>2, <3>3, <4>1
      <4>4. SubSeq(server, m, Len(server)) \in Seq(Entries)
            /\ Len(SubSeq(server, m, Len(server)))
                 = IF m <= Len(server) THEN Len(server) - m + 1 ELSE 0
        BY <4>2, <4>3, SubSeqProperties
      <4>5. QED
        BY <1>2, <3>1, <3>3, <4>1, <4>4
    <3>6. front \o back \in Seq(Entries) /\ Len(front \o back) = Len(front) + Len(back)
      BY <3>4, <3>5, ConcatProperties
    <3>7. data = front \o back
      BY <2>1, <3>1 DEF RemoveAt
    <3>8. data \in Seq(Entries) /\ Len(data) = Len(front) + Len(back)
      BY <3>6, <3>7
    <3>9. QED
      BY <1>2, <3>3, <3>4, <3>5, <3>8
  <2>3. IsList(piece.member) /\ Changed(data) /\ Len(data) <= MaxRows
    BY <1>1, <1>2, <1>3, <1>6, <2>1, <2>2 DEF GameDrops
  <2>4. QED
    BY <2>2, <2>3, GameKeeps DEF Fits
<1>7. ASSUME NEW i \in DOMAIN server, NEW r \in 1 .. Coarse, GameChanges(i, r) PROVE IInv'
  <2>1. i \in 1 .. Len(server)
    BY <1>2
  <2>2. PICK e : e = [server[i] EXCEPT !.rest = r]
    OBVIOUS
  <2>3. server[i] \in Entries
    BY <1>1, <2>1, ElementOfSeq
  <2>4. r \in 0 .. Coarse
    BY <1>3
  <2>5. e \in Entries
    BY <2>2, <2>3, <2>4 DEF Entries
  <2>6. PICK data : data = [server EXCEPT ![i] = e]
    OBVIOUS
  <2>7. data \in Seq(Entries) /\ Len(data) = Len(server)
    BY <1>1, <2>1, <2>5, <2>6, ExceptSeq
  <2>8. Changed(data)
    BY <1>7, <2>2, <2>6 DEF GameChanges
  <2>9. QED
    BY <1>1, <2>7, <2>8, GameKeeps DEF Fits
<1>8. QED
  BY <1>4, <1>5, <1>6, <1>7 DEF GameNext

-----------------------------------------------------------------------------
(* The steps of the worker.                                                *)

(* A new copy has the value of the row.                                    *)
LEMMA FreshCopy ==
  ASSUME NEW p \in Pieces, p.member \in ComparedFuzzily, NEW data, Fits(p, data)
  PROVE  Set(p, Default(p.member), data)[1].rest = data[1].rest
<1>1. Default(p.member) = <<Entry(0, 0)>>
  BY MemberKinds DEF Default, IsList
<1>2. Default(p.member)[1].rest = 0
  BY <1>1 DEF Entry
<1>3. Set(p, Default(p.member), data) =
        IF FuzzyEqual(Default(p.member)[1].rest, data[1].rest) THEN Default(p.member) ELSE data
  BY MemberKinds DEF Set
<1>4. CASE FuzzyEqual(Default(p.member)[1].rest, data[1].rest)
  <2>1. data[1].rest = 0
    BY <1>2, <1>4 DEF FuzzyEqual
  <2>2. QED
    BY <1>2, <1>3, <1>4, <2>1
<1>5. CASE ~FuzzyEqual(Default(p.member)[1].rest, data[1].rest)
  BY <1>3, <1>5
<1>6. QED
  BY <1>4, <1>5

LEMMA CopyStep == IInv /\ CopyCharacter => IInv'
<1> SUFFICES ASSUME IInv, CopyCharacter PROVE IInv'
  OBVIOUS
<1>1. piece \in Pieces /\ Good(row) /\ row # Absent
  BY DEF IInv, TypeOK, AllGood, CopyCharacter
<1>2. PICK data : data = Set(piece, Default(piece.member), row.data)
  OBVIOUS
<1>3. worker' = Held(data, row.answer)
  BY <1>1, <1>2, AssignSets DEF CopyCharacter
<1>4. Fits(piece, data) /\ Fits(piece, row.answer)
  BY <1>1, <1>2, DefaultFits, SetFits DEF Good
<1>5. /\ worker' \in Values /\ worker' # Absent
      /\ worker'.data = data /\ worker'.answer = row.answer
  BY <1>3, <1>4, HeldValue DEF Fits
<1>6. piece.member \in ComparedFuzzily => data[1].rest = row.data[1].rest
  BY <1>1, <1>2, FreshCopy DEF Good
<1>7. Covered => Shows(piece, data, row.answer)
  <2>1. CASE piece.member \in ComparedFuzzily
    BY <1>1, <1>6, <2>1, MemberKinds DEF Good, Shows
  <2>2. CASE piece.member \notin ComparedFuzzily
    BY <1>1, <1>2, <2>2, DefaultFits, SetShowsAnswer DEF Good, Covered
  <2>3. QED
    BY <2>1, <2>2
<1>8. UNCHANGED <<piece, server, row, posted, saved, running, saving, changes, kills, dropped>>
      /\ running
  BY DEF CopyCharacter
<1>9. TypeOK'
  BY <1>5, <1>8 DEF IInv, TypeOK
<1>10. Good(worker)'
  BY <1>4, <1>5, <1>7, <1>8 DEF Good, Covered, Fits
<1>11. AllGood'
  BY <1>8, <1>10 DEF IInv, AllGood, Good, Covered, Fits
<1>12. NoDrift'
  BY <1>5, <1>6, <1>8 DEF IInv, NoDrift, Close
<1>13. QED
  BY <1>8, <1>9, <1>11, <1>12 DEF IInv, Fits

(* A copy is handed over: it is told from the row, or has its value and an *)
(* answer close to it.                                                     *)
LEMMA PostStep ==
  ASSUME IInv, NEW held, Good(held), worker # Absent, running,
         Len(posted) < MaxPosted, posted' = Append(posted, held), worker' = Absent,
         UNCHANGED <<piece, server, row, saved, running, saving, changes, kills, dropped>>,
         piece.member \in ComparedFuzzily /\ MaxPosted <= 1 /\ row # Absent
           => (Close(row.data, held.data) => Close(row.data, held.answer))
  PROVE  IInv'
<1>1. posted \in Seq(Values) /\ Len(posted) \in Nat /\ MaxPosted \in Nat
  BY LenProperties, DataBoundsAssumption DEF IInv, TypeOK
<1>2. held \in Values
  BY DEF Good
<1>3. /\ posted' \in Seq(Values) /\ Len(posted') = Len(posted) + 1
      /\ \A i \in 1 .. Len(posted) : posted'[i] = posted[i]
      /\ posted'[Len(posted) + 1] = held
  BY <1>1, <1>2, AppendProperties
<1>4. Len(posted') <= MaxPosted
  BY <1>1, <1>3
<1>5. TypeOK'
  BY <1>3, <1>4 DEF IInv, TypeOK
<1>6. \A i \in 1 .. Len(posted') : Good(posted'[i])
  <2>1. \A i \in 1 .. Len(posted) : Good(posted[i])
    BY DEF IInv, AllGood
  <2>2. \A i \in 1 .. Len(posted) : Good(posted'[i])
    BY <1>3, <2>1
  <2>3. \A i \in 1 .. Len(posted') : i \in 1 .. Len(posted) \/ i = Len(posted) + 1
    BY <1>1, <1>3
  <2>4. QED
    BY <1>3, <2>2, <2>3
<1>7. AllGood'
  BY <1>6 DEF IInv, AllGood, Good, Covered, Fits
<1>8. MaxPosted <= 1 => posted'[1] = held
  BY <1>1, <1>3
<1>9. NoDrift'
  BY <1>8 DEF NoDrift, Close
<1>10. QED
  BY <1>5, <1>7, <1>9 DEF IInv, Fits

LEMMA FetchStep == ASSUME IInv, NEW data \in Answers, Fetch(data) PROVE IInv'
<1>1. piece \in Pieces /\ Fits(piece, server) /\ Good(worker) /\ worker # Absent
  BY DEF IInv, TypeOK, AllGood, Fetch
<1>2. Fits(piece, data)
  BY <1>1, AnswersFit
<1>3. PICK set : set = Set(piece, worker.data, data)
  OBVIOUS
<1>4. Fits(piece, set) /\ Shows(piece, set, data)
  BY <1>1, <1>2, <1>3, SetFits, SetShows DEF Good
<1>5. PICK held : held = Held(set, data)
  OBVIOUS
<1>6. held \in Values /\ held.data = set /\ held.answer = data
  BY <1>2, <1>4, <1>5, HeldValue DEF Fits
<1>7. Good(held)
  BY <1>2, <1>4, <1>6 DEF Good
<1>8. ASSUME piece.member \in ComparedFuzzily, MaxPosted <= 1, row # Absent,
             Close(row.data, held.data)
      PROVE  Close(row.data, held.answer)
  <2>1. set = IF Close(worker.data, data) THEN worker.data ELSE data
    BY <1>3, <1>8, MemberKinds DEF Set, Close
  <2>2. CASE ~Close(worker.data, data)
    BY <1>6, <1>8, <2>1, <2>2
  <2>3. CASE Close(worker.data, data)
    <3>1. Close(row.data, worker.data)
      BY <1>6, <1>8, <2>1, <2>3
    <3>2. row.data[1].rest = worker.data[1].rest
      BY <1>1, <1>8, <3>1 DEF IInv, NoDrift
    <3>3. QED
      BY <1>6, <2>3, <3>2 DEF Close
  <2>4. QED
    BY <2>2, <2>3
<1>9. /\ running /\ Len(posted) < MaxPosted /\ posted' = Append(posted, held)
      /\ worker' = Absent
      /\ UNCHANGED <<piece, server, row, saved, running, saving, changes, kills, dropped>>
  BY <1>3, <1>5 DEF Fetch
<1>10. QED
  BY <1>1, <1>7, <1>8, <1>9, PostStep

LEMMA KeepStep == IInv /\ KeepPiece => IInv'
<1> SUFFICES ASSUME IInv, KeepPiece PROVE IInv'
  OBVIOUS
<1>1. Good(worker) /\ worker # Absent
  BY DEF IInv, AllGood, KeepPiece
<1>2. ASSUME piece.member \in ComparedFuzzily, MaxPosted <= 1, row # Absent,
             Close(row.data, worker.data)
      PROVE  Close(row.data, worker.answer)
  <2>1. Close(worker.data, worker.answer)
    BY <1>1, <1>2, MemberKinds DEF Good, Covered, Shows, Close
  <2>2. row.data[1].rest = worker.data[1].rest
    BY <1>1, <1>2 DEF IInv, NoDrift
  <2>3. QED
    BY <2>1, <2>2 DEF Close
<1>3. /\ running /\ Len(posted) < MaxPosted /\ posted' = Append(posted, worker)
      /\ worker' = Absent
      /\ UNCHANGED <<piece, server, row, saved, running, saving, changes, kills, dropped>>
  BY DEF KeepPiece
<1>4. QED
  BY <1>1, <1>2, <1>3, PostStep

LEMMA DeleteStep == IInv /\ DeleteCopy => IInv'
<1> SUFFICES ASSUME IInv, DeleteCopy PROVE IInv'
  OBVIOUS
<1>1. TypeOK'
  BY DEF DeleteCopy, IInv, TypeOK
<1>2. AllGood' /\ NoDrift'
  BY DEF DeleteCopy, IInv, AllGood, Good, Covered, Fits, NoDrift, Close
<1>3. QED
  BY <1>1, <1>2 DEF DeleteCopy, IInv, Fits

-----------------------------------------------------------------------------
(* The steps of the main thread.                                           *)

LEMMA PostedTail ==
  ASSUME IInv, posted # <<>>, posted' = Tail(posted), UNCHANGED piece
  PROVE  /\ Head(posted) = posted[1] /\ Good(posted[1])
         /\ posted' \in Seq(Values) /\ Len(posted') <= MaxPosted
         /\ \A i \in 1 .. Len(posted') : Good(posted'[i])
         /\ MaxPosted <= 1 => posted' = <<>>
<1>1. posted \in Seq(Values) /\ Len(posted) <= MaxPosted /\ MaxPosted \in Nat
  BY DataBoundsAssumption DEF IInv, TypeOK
<1>2. Len(posted) \in Nat \ {0}
  BY <1>1, EmptySeq
<1>3. /\ posted' \in Seq(Values) /\ Len(posted') = Len(posted) - 1
      /\ \A i \in 1 .. Len(posted') : posted'[i] = posted[i + 1]
  BY <1>1, HeadTailProperties
<1>4. \A i \in 1 .. Len(posted) : Good(posted[i])
  BY DEF IInv, AllGood
<1>5. Len(posted') <= MaxPosted
  BY <1>1, <1>2, <1>3
<1>6. \A i \in 1 .. Len(posted') : Good(posted'[i])
  BY <1>2, <1>3, <1>4
<1>7. MaxPosted <= 1 => posted' = <<>>
  <2>1. ASSUME MaxPosted <= 1 PROVE Len(posted') = 0
    BY <1>1, <1>2, <1>3, <2>1
  <2>2. QED
    BY <1>3, <2>1, EmptySeq
<1>8. Head(posted) = posted[1] /\ Good(posted[1])
  BY <1>1, <1>2, <1>4
<1>9. QED
  BY <1>3, <1>5, <1>6, <1>7, <1>8

(* A copy comes back to a row.                                             *)
LEMMA UpdateStep == IInv /\ UpdateCharacter => IInv'
<1> SUFFICES ASSUME IInv, UpdateCharacter PROVE IInv'
  OBVIOUS
<1>1. /\ posted # <<>> /\ posted' = Tail(posted) /\ running /\ piece \in Pieces
      /\ UNCHANGED <<piece, server, worker, running, saving, changes, kills, dropped>>
  BY DEF UpdateCharacter, IInv, TypeOK
<1>2. /\ Head(posted) = posted[1] /\ Good(posted[1])
      /\ posted' \in Seq(Values) /\ Len(posted') <= MaxPosted
      /\ \A i \in 1 .. Len(posted') : Good(posted'[i])
      /\ MaxPosted <= 1 => posted' = <<>>
  BY <1>1, PostedTail
<1>3. CASE row = Absent
  <2>1. UNCHANGED <<row, saved>>
    BY <1>3 DEF UpdateCharacter
  <2>2. TypeOK'
    BY <1>1, <1>2, <2>1 DEF IInv, TypeOK
  <2>3. AllGood'
    BY <1>1, <1>2, <2>1 DEF IInv, AllGood, Good, Covered, Fits
  <2>4. NoDrift'
    BY <1>3, <2>1 DEF NoDrift
  <2>5. QED
    BY <1>1, <2>2, <2>3, <2>4 DEF IInv, Fits
<1>4. CASE row # Absent
  <2>1. PICK copy : copy = posted[1]
    OBVIOUS
  <2>2. Good(copy) /\ Good(row)
    BY <1>2, <1>4, <2>1 DEF IInv, AllGood
  <2>3. PICK data : data = Set(piece, row.data, copy.data)
    OBVIOUS
  <2>4. row' = Held(data, copy.answer) /\ saved' = Saved(row')
    BY <1>1, <1>2, <1>4, <2>1, <2>3, AssignSets DEF UpdateCharacter
  <2>5. Fits(piece, data) /\ Fits(piece, copy.answer)
    BY <1>1, <2>2, <2>3, SetFits DEF Good
  <2>6. row' \in Values /\ row'.data = data /\ row'.answer = copy.answer
    BY <2>4, <2>5, HeldValue DEF Fits
  <2>7. piece.member \in ComparedFuzzily
          => data = IF Close(row.data, copy.data) THEN row.data ELSE copy.data
    BY <2>3, MemberKinds DEF Set, Close
  <2>8. Covered => Shows(piece, data, copy.answer)
    <3>1. CASE piece.member \notin ComparedFuzzily
      BY <1>1, <2>2, <2>3, <3>1, SetShowsAnswer DEF Good, Covered
    <3>2. CASE piece.member \in ComparedFuzzily /\ MaxPosted <= 1
      <4>1. Close(copy.data, copy.answer)
        BY <2>2, <3>2, MemberKinds DEF Good, Covered, Shows, Close
      <4>2. Close(row.data, copy.data) => Close(row.data, copy.answer)
        BY <1>1, <1>4, <2>1, <3>2 DEF IInv, NoDrift
      <4>3. Close(data, copy.answer)
        BY <2>7, <3>2, <4>1, <4>2
      <4>4. QED
        BY <3>2, <4>3, MemberKinds DEF Shows, Close
    <3>3. QED
      BY <3>1, <3>2 DEF Covered
  <2>9. Good(row)'
    BY <1>1, <2>5, <2>6, <2>8 DEF Good, Covered, Fits
  <2>10. /\ saved' \in [version : SavedVersions, utst : 2 .. 4, held : Values]
         /\ saved'.held = row'
    BY <2>4, <2>6, SavedRecord
  <2>11. TypeOK'
    BY <1>1, <1>2, <2>6, <2>10 DEF IInv, TypeOK
  <2>12. AllGood'
    BY <1>1, <1>2, <2>9, <2>10 DEF IInv, AllGood, Good, Covered, Fits
  <2>13. NoDrift'
    <3> SUFFICES ASSUME piece.member \in ComparedFuzzily, MaxPosted <= 1, worker # Absent,
                        Close(data, worker.data)
                 PROVE  data[1].rest = worker.data[1].rest
      BY <1>1, <1>2, <2>6 DEF NoDrift, Close
    <3>1. row.data[1].rest = worker.data[1].rest
      BY <1>1, <1>4 DEF IInv, NoDrift
    <3>2. CASE Close(row.data, copy.data)
      BY <2>7, <3>1, <3>2
    <3>3. CASE ~Close(row.data, copy.data)
      <4>1. data = copy.data
        BY <2>7, <3>3
      <4>2. row.data[1].rest \in Nat /\ copy.data[1].rest \in Nat
        BY <1>1, <2>2, FuzzyEntries DEF Good
      <4>3. FuzzyEqual(copy.data[1].rest, row.data[1].rest)
        BY <3>1, <4>1 DEF Close
      <4>4. FuzzyEqual(row.data[1].rest, copy.data[1].rest)
        BY <4>2, <4>3 DEF FuzzyEqual
      <4>5. QED
        BY <3>3, <4>4 DEF Close
    <3>4. QED
      BY <3>2, <3>3
  <2>14. QED
    BY <1>1, <2>11, <2>12, <2>13 DEF IInv, Fits
<1>5. QED
  BY <1>3, <1>4

LEMMA SaveStep == IInv /\ (DeleteRows \/ InsertRows) => IInv'
<1>1. ASSUME IInv, DeleteRows PROVE IInv'
  <2>1. TypeOK'
    BY <1>1 DEF DeleteRows, IInv, TypeOK
  <2>2. AllGood' /\ NoDrift'
    BY <1>1 DEF DeleteRows, IInv, AllGood, Good, Covered, Fits, NoDrift, Close
  <2>3. QED
    BY <1>1, <2>1, <2>2 DEF DeleteRows, IInv, Fits
<1>2. ASSUME IInv, InsertRows PROVE IInv'
  <2>1. /\ saved' \in [version : SavedVersions, utst : 2 .. 4, held : Values] \cup {NoRecord}
        /\ saved' # NoRecord => row # Absent /\ saved'.held = row
    <3>1. CASE row = Absent
      BY <1>2, <3>1 DEF InsertRows
    <3>2. CASE row # Absent
      <4>1. row \in Values
        BY <1>2, <3>2 DEF IInv, TypeOK
      <4>2. saved' = Saved(row)
        BY <1>2, <3>2 DEF InsertRows
      <4>3. QED
        BY <3>2, <4>1, <4>2, SavedRecord
    <3>3. QED
      BY <3>1, <3>2
  <2>2. TypeOK'
    BY <1>2, <2>1 DEF InsertRows, IInv, TypeOK
  <2>3. AllGood'
    BY <1>2, <2>1 DEF InsertRows, IInv, AllGood, Good, Covered, Fits
  <2>4. NoDrift'
    BY <1>2 DEF InsertRows, IInv, NoDrift, Close
  <2>5. QED
    BY <1>2, <2>2, <2>3, <2>4 DEF InsertRows, IInv, Fits
<1>3. QED
  BY <1>1, <1>2

LEMMA KillStep == IInv /\ Kill => IInv'
<1> SUFFICES ASSUME IInv, Kill PROVE IInv'
  OBVIOUS
<1>1. kills' \in 0 .. MaxKills
  BY DataBoundsAssumption DEF Kill, IInv, TypeOK
<1>2. posted' \in Seq(Values) /\ Len(posted') = 0 /\ Len(posted') <= MaxPosted
  <2>1. posted' = <<>>
    BY DEF Kill
  <2>2. posted' \in Seq(Values) /\ Len(posted') = 0
    BY <2>1, EmptySeq
  <2>3. QED
    BY <2>2, DataBoundsAssumption
<1>3. dropped' \in BOOLEAN
  BY DEF Kill, IInv, TypeOK
<1>4. TypeOK'
  BY <1>1, <1>2, <1>3 DEF Kill, IInv, TypeOK
<1>5. AllGood'
  BY <1>2 DEF Kill, IInv, AllGood, Good, Covered, Fits
<1>6. NoDrift'
  BY DEF Kill, NoDrift
<1>7. QED
  BY <1>4, <1>5, <1>6 DEF Kill, IInv, Fits

(* A start reads a good record, or the default of what it has not.         *)
LEMMA RestartStep == IInv /\ Restart => IInv'
<1> SUFFICES ASSUME IInv, Restart PROVE IInv'
  OBVIOUS
<1>1. /\ piece \in Pieces /\ worker = Absent /\ posted = <<>> /\ running'
      /\ UNCHANGED <<piece, server, worker, posted, saved, saving, changes, kills>>
  BY DEF IInv, TypeOK, Restart
<1>2. row' = Absent \/ (row' \in Values /\ Good(row)')
  <2>1. ASSUME row' # Absent PROVE row' \in Values /\ Good(row)'
    <3>1. /\ ~(saved.version < 27)
          /\ row' = Held(Loaded(piece, saved), IF WrittenBy(piece, saved) THEN saved.held.answer
                                               ELSE Default(piece.member))
      BY <2>1 DEF Restart
    <3>2. saved # NoRecord
      BY <3>1 DEF NoRecord
    <3>3. saved \in [version : SavedVersions, utst : 2 .. 4, held : Values] /\ Good(saved.held)
      BY <3>2 DEF IInv, TypeOK, AllGood
    <3>4. saved.version \in 27 .. 30
      BY <3>1, <3>3 DEF SavedVersions
    <3>5. PICK data, answer :
             /\ data = Loaded(piece, saved)
             /\ answer = IF WrittenBy(piece, saved) THEN saved.held.answer
                         ELSE Default(piece.member)
      OBVIOUS
    <3>6. data = IF WrittenBy(piece, saved) THEN saved.held.data ELSE Default(piece.member)
      BY <1>1, <3>4, <3>5, LoadedAsWritten
    <3>7. Fits(piece, data) /\ Fits(piece, answer) /\ (Covered => Shows(piece, data, answer))
      <4>1. CASE WrittenBy(piece, saved)
        BY <3>3, <3>5, <3>6, <4>1 DEF Good
      <4>2. CASE ~WrittenBy(piece, saved)
        BY <1>1, <3>5, <3>6, <4>2, DefaultFits, ShowsItself
      <4>3. QED
        BY <4>1, <4>2
    <3>8. row' \in Values /\ row'.data = data /\ row'.answer = answer
      BY <3>1, <3>5, <3>7, HeldValue DEF Fits
    <3>9. QED
      BY <1>1, <3>7, <3>8 DEF Good, Covered, Fits
  <2>2. QED
    BY <2>1
<1>3. dropped' \in BOOLEAN /\ running' \in BOOLEAN
  BY DEF Restart, IInv, TypeOK
<1>4. TypeOK'
  BY <1>1, <1>2, <1>3 DEF IInv, TypeOK
<1>5. AllGood'
  BY <1>1, <1>2 DEF IInv, AllGood, Good, Covered, Fits
<1>6. NoDrift'
  BY <1>1 DEF NoDrift
<1>7. QED
  BY <1>1, <1>4, <1>5, <1>6 DEF IInv, Fits

-----------------------------------------------------------------------------
(* The theorems.                                                           *)

LEMMA IInvNext == IInv /\ [Next]_vars => IInv'
<1> SUFFICES ASSUME IInv, [Next]_vars PROVE IInv'
  OBVIOUS
<1>1. CASE UNCHANGED vars
  BY <1>1 DEF vars, IInv, TypeOK, AllGood, Good, Covered, Fits, NoDrift, Close
<1>2. CASE GameNext
  BY <1>2, GameStep
<1>3. CASE WorkerNext
  BY <1>3, CopyStep, FetchStep, KeepStep, DeleteStep DEF WorkerNext
<1>4. CASE MainNext
  BY <1>4, UpdateStep, SaveStep, KillStep, RestartStep DEF MainNext
<1>5. QED
  BY <1>1, <1>2, <1>3, <1>4 DEF Next

LEMMA Invariant == Spec => []IInv
BY GoodInit, IInvNext, PTL DEF Spec

(* The variables have their types; in particular no start reads a value    *)
(* from the place of another member, whichever version has written it.     *)
THEOREM TypeCorrect == Spec => []TypeOK
<1>1. IInv => TypeOK
  BY DEF IInv
<1>2. QED
  BY <1>1, Invariant, PTL

(* The row shows the last answer it was given, as far as the operators of  *)
(* the member compare, whatever was copied, assigned, saved and loaded     *)
(* since, for every member, every field and every version of the record.   *)
THEOREM RowShowsAnswer == Spec => []RowFollowsAnswer
<1>1. IInv => RowFollowsAnswer
  BY DEF IInv, AllGood, Good, Covered, RowFollowsAnswer
<1>2. QED
  BY <1>1, Invariant, PTL

(* A start gives the value that was saved, whatever the version that saved *)
(* it.                                                                     *)
THEOREM StartKeepsRow == Spec => RestartKeepsRow
<1>1. ASSUME IInv, [Next]_vars,
             ~running /\ running' /\ row' # Absent /\ WrittenBy(piece, saved)
      PROVE  row'.data = saved.held.data
  <2>1. Restart
    <3>1. ~UNCHANGED vars
      BY <1>1 DEF vars
    <3>2. ~GameNext
      BY <1>1 DEF GameNext, GameAdds, GameDrops, GameMoves, GameChanges, Changed
    <3>3. ~WorkerNext
      BY <1>1 DEF WorkerNext, CopyCharacter, Fetch, KeepPiece, DeleteCopy
    <3>4. ~(UpdateCharacter \/ DeleteRows \/ InsertRows \/ Kill)
      BY <1>1 DEF UpdateCharacter, DeleteRows, InsertRows, Kill
    <3>5. QED
      BY <1>1, <3>1, <3>2, <3>3, <3>4 DEF Next, MainNext
  <2>2. ~(saved.version < 27) /\ row' = Held(Loaded(piece, saved), saved.held.answer)
    BY <1>1, <2>1 DEF Restart
  <2>3. saved # NoRecord
    BY <2>2 DEF NoRecord
  <2>4. saved.version \in 27 .. 30 /\ piece \in Pieces
    BY <1>1, <2>2, <2>3 DEF IInv, TypeOK, SavedVersions
  <2>5. Loaded(piece, saved) = saved.held.data
    BY <1>1, <2>4, LoadedAsWritten
  <2>6. QED
    BY <2>2, <2>5 DEF Held
<1>2. IInv /\ [Next]_vars =>
        [~running /\ running' /\ row' # Absent /\ WrittenBy(piece, saved) =>
           row'.data = saved.held.data]_vars
  BY <1>1
<1>3. QED
  BY <1>2, Invariant, PTL DEF Spec, RestartKeepsRow

-----------------------------------------------------------------------------
(* What is in the table while the application runs: the present record of  *)
(* the character, unless saveCharacters is at work or the loss is known.   *)
RecordOrLoss ==
  /\ saving => running
  /\ saved.version \in 0 .. 30
  /\ saved.version < 27 => \/ saving \/ dropped
                           \/ ~running /\ saved.version \in 1 .. 26

LossInv == LostOnlyInSave /\ RecordOrLoss

LEMMA LossInit == Init => LossInv
<1> SUFFICES ASSUME Init PROVE LossInv
  OBVIOUS
<1>1. PICK v \in Versions, utst \in 2 .. 4 :
        saved = [version |-> v, utst |-> utst, held |-> Held(server, server)]
  BY Zenon DEF Init
<1>2. v \in 26 .. 30
  BY VersionsAssumption DEF SavedVersions
<1>3. QED
  BY <1>1, <1>2 DEF Init, LossInv, LostOnlyInSave, RecordOrLoss

(* Only the main thread, a kill and a start touch what this is about.      *)
LEMMA LossElsewhere ==
  LossInv /\ UNCHANGED <<row, saved, running, saving, dropped>> => LossInv'
BY DEF LossInv, LostOnlyInSave, RecordOrLoss

LEMMA UpdateLosesNothing == LossInv /\ UpdateCharacter => LossInv'
<1> SUFFICES ASSUME LossInv, UpdateCharacter PROVE LossInv'
  OBVIOUS
<1>1. CASE row = Absent
  BY <1>1, LossElsewhere DEF UpdateCharacter
<1>2. CASE row # Absent
  <2>1. row' # Absent
    BY <1>2, HeldIsThere DEF UpdateCharacter
  <2>2. saved' = Saved(row')
    BY <1>2 DEF UpdateCharacter
  <2>3. saved'.version = 30
    BY <2>2 DEF Saved
  <2>4. QED
    BY <2>1, <2>3 DEF UpdateCharacter, LossInv, LostOnlyInSave, RecordOrLoss
<1>3. QED
  BY <1>1, <1>2

LEMMA SaveLosesNothing == LossInv /\ (DeleteRows \/ InsertRows) => LossInv'
<1>1. ASSUME LossInv, DeleteRows PROVE LossInv'
  <2>1. saved'.version = 0
    BY <1>1 DEF DeleteRows, NoRecord
  <2>2. QED
    BY <1>1, <2>1 DEF DeleteRows, LossInv, LostOnlyInSave, RecordOrLoss
<1>2. ASSUME LossInv, InsertRows PROVE LossInv'
  <2>1. saved'.version = IF row = Absent THEN 0 ELSE 30
    BY <1>2 DEF InsertRows, NoRecord, Saved
  <2>2. QED
    BY <1>2, <2>1 DEF InsertRows, LossInv, LostOnlyInSave, RecordOrLoss
<1>3. QED
  BY <1>1, <1>2

LEMMA KillLosesInSave == LossInv /\ Kill => LossInv'
BY DEF Kill, LossInv, LostOnlyInSave, RecordOrLoss

LEMMA RestartLosesOldRecords == LossInv /\ Restart => LossInv'
<1> SUFFICES ASSUME LossInv, Restart PROVE LossInv'
  OBVIOUS
<1>1. CASE saved.version < 27
  BY <1>1 DEF Restart, LossInv, LostOnlyInSave, RecordOrLoss
<1>2. CASE ~(saved.version < 27)
  <2>0. InPlace(saved.version, "characterId")
    BY <1>2, IdInPlace DEF LossInv, RecordOrLoss
  <2>1. row' # Absent
    BY <1>2, <2>0, HeldIsThere DEF Restart
  <2>2. QED
    BY <1>2, <2>1 DEF Restart, LossInv, LostOnlyInSave, RecordOrLoss
<1>3. QED
  BY <1>1, <1>2

LEMMA LossNext == LossInv /\ [Next]_vars => LossInv'
<1> SUFFICES ASSUME LossInv, [Next]_vars PROVE LossInv'
  OBVIOUS
<1>1. CASE GameNext
  BY <1>1, LossElsewhere DEF GameNext, GameAdds, GameDrops, GameMoves, GameChanges, Changed
<1>2. CASE WorkerNext
  BY <1>2, LossElsewhere DEF WorkerNext, CopyCharacter, Fetch, KeepPiece, DeleteCopy
<1>3. CASE MainNext
  BY <1>3, UpdateLosesNothing, SaveLosesNothing, KillLosesInSave, RestartLosesOldRecords
    DEF MainNext
<1>4. CASE UNCHANGED vars
  BY <1>4, LossElsewhere DEF vars
<1>5. QED
  BY <1>1, <1>2, <1>3, <1>4 DEF Next

(* A character disappears only when a kill hits saveCharacters between its *)
(* DELETE and its INSERTs, or when its record is older than version 27:    *)
(* whatever updates, saves, kills and restarts came before.                *)
THEOREM LossOnlyInSave == Spec => []LostOnlyInSave
<1>1. LossInv => LostOnlyInSave
  BY DEF LossInv
<1>2. QED
  BY <1>1, LossInit, LossNext, PTL DEF Spec
=============================================================================
