----------------------------- MODULE ImageCache -----------------------------
(***************************************************************************)
(* The three image providers of QML: portraits, type icons and corporation *)
(* icons.  A response runs in a thread of its provider's pool: it looks    *)
(* into the cache, downloads the picture if it is not there, and stores    *)
(* what it downloaded, or shows a default picture.  The portrait of a      *)
(* character is deleted from the cache when the user wants a new one and   *)
(* when the character is removed.                                          *)
(*                                                                         *)
(* Scaling to the requested size is left out, and so is the end of the     *)
(* process, where the database is gone.                                    *)
(***************************************************************************)
EXTENDS Naturals, Sequences

CONSTANTS
  Faces,         \* ids shown with a portrait
  TypeIds,       \* ids of item types
  CorpIds,       \* ids of corporations
  MaxPublished,  \* bound: new portraits of a character
  MaxResponses   \* bound: responses under way

(* Type and corporation icons share a table and are told apart by the id   *)
(* only: type ids end far below the corporation ids of the game.           *)
ASSUME IconIdsDiffer == TypeIds \cap CorpIds = {}
ASSUME ImageBounds == {MaxPublished, MaxResponses} \subseteq Nat

Kinds == {"portrait", "type", "corporation"}
IdsOfKind(kind) ==
  CASE kind = "portrait" -> Faces [] kind = "type" -> TypeIds
    [] kind = "corporation" -> CorpIds

(* A picture is told by what it shows and by the version of the portrait;  *)
(* id 0 is the default picture of the kind.                                *)
Picture(kind, id, version) == [kind |-> kind, id |-> id, version |-> version]
NoImage == Picture("none", 0, 0)
Default(kind) == Picture(kind, 0, 0)
Pictures ==
  UNION {[kind : {k}, id : IdsOfKind(k) \cup {0}, version : 0 .. MaxPublished]
           : k \in Kinds}

VARIABLES
  published,  \* the version of each portrait that the image server has
  portraits,  \* table portraits
  icons,      \* table type_icons
  responses,  \* the AsyncImageResponses whose run() has not ended
  asked,      \* history: the version published at the last deletion
  overlapped  \* history: faces deleted with a download of them under way

imageVars == <<published, portraits, icons, responses, asked, overlapped>>

ImageInit ==
  /\ published = [f \in Faces |-> 0]
  /\ portraits = [f \in Faces |-> NoImage]
  /\ icons = [i \in TypeIds \cup CorpIds |-> NoImage]
  /\ responses = <<>>
  /\ asked = [f \in Faces |-> 0]
  /\ overlapped = {}

-----------------------------------------------------------------------------
(* The character changes its portrait on the image server.                 *)
Publish(f) ==
  /\ published[f] < MaxPublished
  /\ published' = [published EXCEPT ![f] = @ + 1]
  /\ UNCHANGED <<portraits, icons, responses, asked, overlapped>>

Version(kind, id) == IF kind = "portrait" THEN published[id] ELSE 0

(* requestImageResponse of each provider: run() is given to the pool.      *)
Respond(kind, id) ==
  /\ Len(responses) < MaxResponses
  /\ responses' = Append(responses, [kind |-> kind, id |-> id, at |-> "load",
                                     image |-> NoImage, since |-> 0])
  /\ UNCHANGED <<published, portraits, icons, asked, overlapped>>
RequestPortrait(f) == Respond("portrait", f)
RequestTypeIcon(t) == Respond("type", t)
RequestCorpIcon(c) == Respond("corporation", c)

(* loadPortrait and loadTypeIcon; corporation icons use the latter too.    *)
LoadPortrait(f) == portraits[f]
LoadTypeIcon(id) == icons[id]
Cached(r) ==
  IF r.kind = "portrait" THEN LoadPortrait(r.id) ELSE LoadTypeIcon(r.id)

Step(i, from, r) ==
  /\ i \in DOMAIN responses
  /\ responses[i].at = from
  /\ responses' = [responses EXCEPT ![i] = r]
  /\ UNCHANGED <<published, asked, overlapped>>

(* The first step of run(): a cached picture is shown as it is.            *)
Load(i) ==
  /\ i \in DOMAIN responses
  /\ LET r == responses[i] IN
     Step(i, "load",
          IF Cached(r) # NoImage THEN [r EXCEPT !.at = "done", !.image = Cached(r)]
          ELSE [r EXCEPT !.at = "download", !.since = Version(r.kind, r.id)])
  /\ UNCHANGED <<portraits, icons>>

(* The image server answers with what it had at some time since the request*)
Downloaded(i) ==
  /\ i \in DOMAIN responses
  /\ LET r == responses[i] IN
     \E v \in r.since .. Version(r.kind, r.id) :
       Step(i, "download",
            [r EXCEPT !.at = "save", !.image = Picture(r.kind, r.id, v)])
  /\ UNCHANGED <<portraits, icons>>

(* Mutant: the null image of a failed download is shown.                   *)
ShowNothing(i) ==
  /\ i \in DOMAIN responses
  /\ Step(i, "download", [responses[i] EXCEPT !.at = "done"])
  /\ UNCHANGED <<portraits, icons>>

(* Mutant: the default picture is stored like a downloaded one.            *)
SaveDefault(i) ==
  /\ i \in DOMAIN responses
  /\ Step(i, "download", [responses[i] EXCEPT
                            !.at = "save", !.image = Default(responses[i].kind)])
  /\ UNCHANGED <<portraits, icons>>

(* The answer is no picture: the default one is shown, and not stored.     *)
ShowDefault(i) ==
  /\ i \in DOMAIN responses
  /\ Step(i, "download", [responses[i] EXCEPT
                            !.at = "done", !.image = Default(responses[i].kind)])
  /\ UNCHANGED <<portraits, icons>>

(* Mutant: the timer of the download is not started.                       *)
DownloadNeverEnds(i) == FALSE

(* No answer in 20 s: the same.                                            *)
DownloadTimedOut(i) == ShowDefault(i)

(* savePortrait and saveTypeIcon: INSERT OR REPLACE, which may fail.       *)
SavePortrait(f, picture) ==
  /\ portraits' \in {portraits, [portraits EXCEPT ![f] = picture]}
  /\ UNCHANGED icons
SaveTypeIcon(id, picture) ==
  /\ icons' \in {icons, [icons EXCEPT ![id] = picture]}
  /\ UNCHANGED portraits

Save(i) ==
  /\ i \in DOMAIN responses
  /\ LET r == responses[i] IN
     /\ Step(i, "save", [r EXCEPT !.at = "done"])
     /\ IF r.kind = "portrait" THEN SavePortrait(r.id, r.image)
        ELSE SaveTypeIcon(r.id, r.image)

WithoutAt(seq, i) ==
  [j \in 1 .. Len(seq) - 1 |-> seq[IF j < i THEN j ELSE j + 1]]

(* run() emits finished(), and the picture is shown.                       *)
Finished(i) ==
  /\ i \in DOMAIN responses
  /\ responses[i].at = "done"
  /\ responses' = WithoutAt(responses, i)
  /\ UNCHANGED <<published, portraits, icons, asked, overlapped>>

(* run() of each provider.                                                 *)
RunOf(kind, i) ==
  /\ i \in DOMAIN responses
  /\ responses[i].kind = kind
  /\ Load(i) \/ Downloaded(i) \/ ShowDefault(i) \/ Save(i) \/ Finished(i)
RunPortrait(i) == RunOf("portrait", i)
RunTypeIcon(i) == RunOf("type", i)
RunCorpIcon(i) == RunOf("corporation", i)

UnderWay(f) ==
  \E i \in DOMAIN responses : /\ responses[i].kind = "portrait"
                              /\ responses[i].id = f
                              /\ responses[i].at \in {"download", "save"}

(* DbSqlite::deletePortrait.                                               *)
DeletePortrait(f) ==
  /\ portraits' = [portraits EXCEPT ![f] = NoImage]
  /\ asked' = [asked EXCEPT ![f] = published[f]]
  /\ overlapped' = IF UnderWay(f) THEN overlapped \cup {f} ELSE overlapped \ {f}
  /\ UNCHANGED <<published, icons, responses>>

(* Mutant: the user's wish for a new portrait leaves the old one cached.   *)
KeepCachedImage(f) ==
  /\ asked' = [asked EXCEPT ![f] = published[f]]
  /\ overlapped' = IF UnderWay(f) THEN overlapped \cup {f} ELSE overlapped \ {f}
  /\ UNCHANGED <<published, portraits, icons, responses>>

(* PortraitCache::removeCachedImageForCharacter.                           *)
RemoveCachedImageForCharacter(f) == DeletePortrait(f)

(* A new process keeps the tables.                                         *)
ImageRestart ==
  /\ responses' = <<>>
  /\ UNCHANGED <<published, portraits, icons, asked, overlapped>>

-----------------------------------------------------------------------------
ImageTypeOK ==
  /\ published \in [Faces -> 0 .. MaxPublished]
  /\ portraits \in [Faces -> Pictures \cup {NoImage}]
  /\ icons \in [TypeIds \cup CorpIds -> Pictures \cup {NoImage}]
  /\ Len(responses) <= MaxResponses
  /\ \A i \in DOMAIN responses :
       LET r == responses[i] IN
       /\ r.kind \in Kinds /\ r.id \in IdsOfKind(r.kind)
       /\ r.since \in 0 .. MaxPublished
       /\ \/ r.at \in {"load", "download"} /\ r.image = NoImage
          \/ r.at \in {"save", "done"} /\ r.image \in Pictures
  /\ asked \in [Faces -> 0 .. MaxPublished]
  /\ overlapped \in SUBSET Faces
=============================================================================
