--------------------------- MODULE AccountsProofs ---------------------------
(***************************************************************************)
(* Proofs about Accounts, for all sets of characters, pictures and objects *)
(* and for all bounds: its types, the state that a login comes with, and   *)
(* the pictures in the caches.  Each part has the steps that change its    *)
(* variables, an invariant of its own, and the proof that those steps keep *)
(* it; the theorems put the parts together.                                *)
(***************************************************************************)
EXTENDS Accounts, SequenceTheorems, FiniteSetTheorems, TLAPS

-----------------------------------------------------------------------------
(* Sequences.                                                              *)

LEMMA NaturalBounds ==
  /\ MaxStarts \in Nat /\ MaxLogins \in Nat
  /\ MaxPublished \in Nat /\ MaxResponses \in Nat
  /\ MaxCollected \in Nat /\ MaxUnread \in Nat /\ MaxEvents \in Nat
BY LoginBounds, ImageBounds, AnnouncementAssumption, AccountsAssumption

(* The element at a place of a sequence is taken out.                      *)
LEMMA WithoutAtSeq ==
  ASSUME NEW S, NEW seq \in Seq(S), NEW i \in DOMAIN seq
  PROVE  /\ WithoutAt(seq, i) \in Seq(S)
         /\ Len(WithoutAt(seq, i)) = Len(seq) - 1
         /\ Len(seq) - 1 \in Nat
         /\ DOMAIN WithoutAt(seq, i) = 1 .. Len(seq) - 1
         /\ \A j \in DOMAIN WithoutAt(seq, i) :
              /\ (IF j < i THEN j ELSE j + 1) \in DOMAIN seq
              /\ WithoutAt(seq, i)[j] = seq[IF j < i THEN j ELSE j + 1]
<1> DEFINE from(j) == IF j < i THEN j ELSE j + 1
<1>1. Len(seq) \in Nat /\ DOMAIN seq = 1 .. Len(seq) /\ i \in 1 .. Len(seq)
  BY LenProperties
<1>2. Len(seq) - 1 \in Nat
  BY <1>1
<1>3. \A j \in 1 .. Len(seq) - 1 : from(j) \in DOMAIN seq
  BY <1>1
<1>4. \A j \in 1 .. Len(seq) - 1 : seq[from(j)] \in S
  BY <1>1, <1>3, ElementOfSeq
<1>5. WithoutAt(seq, i) \in [1 .. Len(seq) - 1 -> S]
  BY <1>4 DEF WithoutAt
<1>6. WithoutAt(seq, i) \in Seq(S)
  BY <1>2, <1>5, SeqDef
<1>7. Len(WithoutAt(seq, i)) = Len(seq) - 1
  BY <1>2, <1>5, <1>6, LenProperties
<1>8. QED
  BY <1>2, <1>3, <1>5, <1>6, <1>7 DEF WithoutAt

-----------------------------------------------------------------------------
(* The logins.                                                             *)

Slots == [code : Codes, at : {"token", "verify"}]

(* While the server listens, and while a code waits, the state is the one  *)
(* of the last start of the server.                                        *)
StateCurrent ==
  /\ state \in {0, starts}
  /\ state = 0 => queued = <<>> /\ ~listening

LoginInv == LoginTypeOK /\ StateCurrent

LoginNext ==
  \/ \E portFree \in BOOLEAN : SlotStartSsoAuth(portFree)
  \/ \E t \in tabs, c \in Chars : Deliver([state |-> t, char |-> c])
  \/ SlotCancelSsoAuth \/ OnCodeReceived
  \/ TokensAnswered \/ TokensRefused \/ TokensTimedOut
  \/ VerifyRefused \/ VerifyTimedOut \/ Verified
  \/ LoginRestart

(* A login begins with the state of the last start only.                   *)
LoginBegins ==
  Len(logins') > Len(logins) => logins'[Len(logins')].code.state = starts

LEMMA LoginStart == LoginInit => LoginInv
<1>1. <<>> \in Seq(Codes) /\ <<>> \in Seq(Slots) /\ Len(<<>>) = 0
  BY EmptySeq
<1>2. 0 \in States
  BY NaturalBounds DEF States
<1>3. ASSUME LoginInit
      PROVE  LoginTypeOK
  <2>1. Len(queued) <= MaxLogins /\ Len(logins) <= MaxLogins
    BY <1>1, <1>3, NaturalBounds DEF LoginInit
  <2>2. listening \in BOOLEAN
    BY <1>3 DEF LoginInit
  <2>3. QED
    BY <1>1, <1>2, <1>3, <2>1, <2>2 DEF LoginInit, LoginTypeOK, Slots
<1>4. LoginInit => StateCurrent
  BY DEF LoginInit, StateCurrent
<1>5. QED
  BY <1>3, <1>4 DEF LoginInv

LEMMA InnerSlot ==
  ASSUME LoginTypeOK, logins # <<>>
  PROVE  /\ InnerLogin \in Slots
         /\ Len(logins) \in 1 .. Len(logins)
         /\ LoginReturned \in Seq(Slots)
         /\ Len(LoginReturned) = Len(logins) - 1
<1>1. logins \in Seq(Slots) /\ Len(logins) \in Nat /\ Len(logins) # 0
  BY EmptySeq DEF LoginTypeOK, Slots
<1>2. Len(logins) \in 1 .. Len(logins)
  BY <1>1
<1>3. InnerLogin \in Slots
  BY <1>1, <1>2, ElementOfSeq DEF InnerLogin
<1> DEFINE n == Len(logins) - 1
<1>4. n \in Nat /\ n <= Len(logins) /\ n - 1 + 1 = n
  BY <1>1
<1>5. /\ LoginReturned \in Seq(Slots)
      /\ Len(LoginReturned) = n
  <2> HIDE DEF n
  <2>1. \A i \in 1 .. n : i \in 1 .. Len(logins)
    BY <1>1, <1>4
  <2>2. /\ SubSeq(logins, 1, n) \in Seq(Slots)
        /\ Len(SubSeq(logins, 1, n)) = IF 1 <= n THEN n - 1 + 1 ELSE 0
    BY <1>1, <1>4, <2>1, SubSeqProperties
  <2>3. n = IF 1 <= n THEN n - 1 + 1 ELSE 0
    BY <1>4
  <2>4. LoginReturned = SubSeq(logins, 1, n)
    BY DEF LoginReturned, n
  <2>5. QED
    BY <2>2, <2>3, <2>4
<1>6. QED
  BY <1>2, <1>3, <1>5

(* The slot on top of the stack returns.                                   *)
LEMMA SlotReturns ==
  ASSUME LoginInv, logins # <<>>, logins' = LoginReturned,
         UNCHANGED <<server, tabs, queued>>,
         spent' \in {spent, spent \cup {InnerLogin.code}}
  PROVE  LoginInv' /\ LoginBegins
<1>1. logins' \in Seq(Slots) /\ Len(logins') = Len(logins) - 1
  BY InnerSlot DEF LoginInv
<1>2. Len(logins) \in Nat /\ Len(logins) <= MaxLogins
  BY DEF LoginInv, LoginTypeOK
<1>3. InnerLogin.code \in Codes
  BY InnerSlot DEF LoginInv, Slots
<1>4. spent' \subseteq Codes
  BY <1>3 DEF LoginInv, LoginTypeOK
<1>5. Len(logins') <= MaxLogins /\ ~(Len(logins') > Len(logins))
  BY <1>1, <1>2, NaturalBounds
<1>6. QED
  BY <1>1, <1>4, <1>5
     DEF LoginInv, LoginTypeOK, StateCurrent, Slots, LoginBegins, server

LEMMA LoginStep ==
  ASSUME LoginInv, LoginNext
  PROVE  LoginInv' /\ LoginBegins
<1> USE DEF LoginInv
<1>0. /\ queued \in Seq(Codes) /\ logins \in Seq(Slots)
      /\ Len(queued) \in Nat /\ Len(logins) \in Nat
      /\ state \in States /\ starts \in Nat /\ tabs \subseteq States
  BY DEF LoginTypeOK, Slots, States
<1>1. ASSUME NEW portFree \in BOOLEAN, SlotStartSsoAuth(portFree)
      PROVE  LoginInv' /\ LoginBegins
  <2>1. UNCHANGED <<spent, queued, logins>> /\ tabs' = tabs \cup {state'}
    BY <1>1 DEF SlotStartSsoAuth
  <2>2. CASE listening \/ ~portFree
    <3>1. UNCHANGED server
      BY <1>1, <2>2 DEF SlotStartSsoAuth
    <3>2. listening' = listening /\ state' = state /\ starts' = starts
      BY <3>1 DEF server
    <3>3. LoginTypeOK'
      BY <1>0, <2>1, <3>2 DEF LoginTypeOK
    <3>4. StateCurrent'
      BY <2>1, <3>2 DEF StateCurrent
    <3>5. QED
      BY <1>0, <2>1, <3>3, <3>4 DEF LoginBegins
  <2>3. CASE ~(listening \/ ~portFree)
    <3>1. starts < MaxStarts /\ StartSsoHandlerHttpServer
      BY <1>1, <2>3 DEF SlotStartSsoAuth
    <3>2. /\ listening' = TRUE /\ starts' = starts + 1 /\ state' = starts'
          /\ starts' \in States /\ state' # 0
      BY <1>0, <3>1, NaturalBounds DEF StartSsoHandlerHttpServer, States
    <3>3. QED
      BY <1>0, <2>1, <3>2 DEF LoginTypeOK, StateCurrent, LoginBegins
  <2>4. QED
    BY <2>2, <2>3
<1>2. ASSUME NEW t \in tabs, NEW c \in Chars, Deliver([state |-> t, char |-> c])
      PROVE  LoginInv' /\ LoginBegins
  <2>1. [state |-> t, char |-> c] \in Codes
    BY <1>0 DEF Codes
  <2>2. /\ queued' \in Seq(Codes) /\ Len(queued') = Len(queued) + 1
        /\ UNCHANGED <<server, tabs, spent, logins>>
        /\ listening /\ Len(queued) < MaxLogins
    BY <1>0, <1>2, <2>1, AppendProperties DEF Deliver
  <2>3. Len(queued') <= MaxLogins
    BY <1>0, <2>2, NaturalBounds
  <2>4. state # 0
    BY <2>2 DEF StateCurrent
  <2>5. QED
    BY <1>0, <2>2, <2>3, <2>4
       DEF LoginTypeOK, StateCurrent, LoginBegins, server, Slots
<1>3. ASSUME SlotCancelSsoAuth
      PROVE  LoginInv' /\ LoginBegins
  <2>1. /\ listening' = FALSE /\ state' = state /\ starts' = starts
        /\ UNCHANGED <<tabs, spent, queued, logins>>
    BY <1>3 DEF SlotCancelSsoAuth, StopSsoHandlerHttpServer
  <2>2. LoginTypeOK'
    BY <2>1 DEF LoginTypeOK
  <2>3. StateCurrent'
    BY <2>1 DEF StateCurrent
  <2>4. QED
    BY <1>0, <2>1, <2>2, <2>3 DEF LoginBegins
<1>4. ASSUME OnCodeReceived
      PROVE  LoginInv' /\ LoginBegins
  <2>1. queued # <<>> /\ Len(logins) < MaxLogins /\ queued' = Tail(queued)
        /\ UNCHANGED <<server, tabs, spent>>
    BY <1>4 DEF OnCodeReceived
  <2>2. /\ queued' \in Seq(Codes) /\ Len(queued') = Len(queued) - 1
        /\ Head(queued) \in Codes
    BY <1>0, <2>1, HeadTailProperties
  <2>3. Len(queued') <= MaxLogins
    BY <1>0, <2>2, NaturalBounds DEF LoginTypeOK
  <2>4. state = starts
    BY <2>1 DEF StateCurrent
  <2>5. StateCurrent' /\ state # 0
    BY <2>1 DEF StateCurrent, server
  <2>6. CASE Head(queued).state # state
    <3>1. logins' = logins
      BY <1>4, <2>6 DEF OnCodeReceived
    <3>2. QED
      BY <1>0, <2>1, <2>2, <2>3, <2>5, <3>1
         DEF LoginTypeOK, LoginBegins, server
  <2>7. CASE Head(queued).state = state
    <3>1. logins' = Append(logins, RequestTokens(Head(queued)))
      BY <1>4, <2>7 DEF OnCodeReceived
    <3>2. RequestTokens(Head(queued)) \in Slots
      BY <2>2 DEF RequestTokens, Slots
    <3>3. /\ logins' \in Seq(Slots) /\ Len(logins') = Len(logins) + 1
          /\ logins'[Len(logins) + 1] = RequestTokens(Head(queued))
      BY <1>0, <3>1, <3>2, AppendProperties
    <3>4. Len(logins') <= MaxLogins
      BY <1>0, <2>1, <3>3, NaturalBounds
    <3>5. logins'[Len(logins')].code.state = starts
      BY <2>4, <2>7, <3>3 DEF RequestTokens
    <3>6. QED
      BY <2>1, <2>2, <2>3, <2>5, <3>3, <3>4, <3>5
         DEF LoginTypeOK, LoginBegins, server, Slots
  <2>8. QED
    BY <2>6, <2>7
<1>5. ASSUME TokensAnswered
      PROVE  LoginInv' /\ LoginBegins
  <2>1. /\ logins # <<>> /\ InnerLogin.code \notin spent
        /\ spent' = spent \cup {InnerLogin.code}
        /\ logins' = [logins EXCEPT ![Len(logins)] = RequestCharacterId(InnerLogin)]
        /\ UNCHANGED <<server, tabs, queued>>
    BY <1>5 DEF TokensAnswered, AtLogin
  <2>2. InnerLogin \in Slots /\ Len(logins) \in 1 .. Len(logins)
    BY <2>1, InnerSlot
  <2>3. InnerLogin.code \in Codes /\ RequestCharacterId(InnerLogin) \in Slots
    BY <2>2 DEF Slots, RequestCharacterId
  <2>4. logins' \in Seq(Slots) /\ Len(logins') = Len(logins)
    BY <1>0, <2>1, <2>2, <2>3, ExceptSeq
  <2>5. spent' \subseteq Codes
    BY <2>1, <2>3 DEF LoginTypeOK
  <2>6. QED
    BY <1>0, <2>1, <2>4, <2>5
       DEF LoginTypeOK, StateCurrent, LoginBegins, server, Slots
<1>6. ASSUME \/ TokensRefused \/ TokensTimedOut
             \/ VerifyRefused \/ VerifyTimedOut \/ Verified
      PROVE  LoginInv' /\ LoginBegins
  <2>1. /\ logins # <<>> /\ logins' = LoginReturned
        /\ UNCHANGED <<server, tabs, queued>>
        /\ spent' \in {spent, spent \cup {InnerLogin.code}}
    BY <1>6 DEF TokensRefused, TokensTimedOut, VerifyRefused, VerifyTimedOut,
                Verified, LoginFails, AtLogin
  <2>2. QED
    BY <2>1, SlotReturns
<1>7. ASSUME LoginRestart
      PROVE  LoginInv' /\ LoginBegins
  <2>1. <<>> \in Seq(Codes) /\ <<>> \in Seq(Slots) /\ Len(<<>>) = 0
    BY EmptySeq
  <2>2. 0 \in States
    BY NaturalBounds DEF States
  <2>3. 0 <= MaxLogins /\ ~(0 > Len(logins))
    BY <1>0, NaturalBounds
  <2>4. QED
    BY <1>7, <2>1, <2>2, <2>3
       DEF LoginRestart, LoginTypeOK, StateCurrent, LoginBegins, Slots
<1>8. QED
  BY <1>1, <1>2, <1>3, <1>4, <1>5, <1>6, <1>7 DEF LoginNext

LEMMA LoginKept ==
  ASSUME LoginInv, UNCHANGED loginVars
  PROVE  LoginInv' /\ LoginBegins
<1>1. Len(logins) \in Nat
  BY DEF LoginInv, LoginTypeOK
<1>2. QED
  BY <1>1 DEF LoginInv, LoginTypeOK, StateCurrent, LoginBegins, loginVars, server

-----------------------------------------------------------------------------
(* The pictures.                                                           *)

ImageNext ==
  \/ \E f \in Faces : RequestPortrait(f) \/ Publish(f) \/ DeletePortrait(f)
  \/ \E t \in TypeIds : RequestTypeIcon(t)
  \/ \E c \in CorpIds : RequestCorpIcon(c)
  \/ \E i \in DOMAIN responses :
       Load(i) \/ Downloaded(i) \/ ShowDefault(i) \/ Save(i) \/ Finished(i)
  \/ ImageRestart

AnyId == Faces \cup TypeIds \cup CorpIds
Responses ==
  [kind : Kinds, id : AnyId, at : {"load", "download", "save", "done"},
   image : Pictures \cup {NoImage}, since : 0 .. MaxPublished]

(* A response has a picture of what it was asked for or the default one,   *)
(* and the default one is not what it stores.                              *)
Typed(r) ==
  /\ r \in Responses
  /\ r.id \in IdsOfKind(r.kind)
  /\ r.at \in {"load", "download"} => r.image = NoImage
  /\ r.at \in {"save", "done"} =>
       r.image \in Pictures /\ r.image.kind = r.kind /\ r.image.id \in {0, r.id}
  /\ r.at = "save" => r.image.id = r.id

(* A portrait older than the last wish for a new one is on its way only if *)
(* its download was under way at that wish.                                *)
Fresh(r) ==
  r.kind = "portrait" =>
    /\ r.at = "download" /\ r.since < asked[r.id] => r.id \in overlapped
    /\ r.at = "save" /\ r.image.version < asked[r.id] => r.id \in overlapped

PortraitTrue(f, p) ==
  \/ p = NoImage
  \/ /\ p \in Pictures /\ p.kind = "portrait" /\ p.id = f
     /\ p.version < asked[f] => f \in overlapped

(* Icons are never portraits: the kind of an icon follows from its id.     *)
IconTrue(i, p) ==
  \/ p = NoImage
  \/ /\ p \in Pictures /\ p.kind \in {"type", "corporation"}
     /\ p.id = i /\ i \in IdsOfKind(p.kind)

VersionsOK ==
  /\ published \in [Faces -> 0 .. MaxPublished]
  /\ asked \in [Faces -> 0 .. MaxPublished]
  /\ \A f \in Faces : asked[f] <= published[f]
  /\ overlapped \subseteq Faces

PortraitsOK ==
  /\ portraits \in [Faces -> Pictures \cup {NoImage}]
  /\ \A f \in Faces : PortraitTrue(f, portraits[f])

IconsOK ==
  /\ icons \in [TypeIds \cup CorpIds -> Pictures \cup {NoImage}]
  /\ \A i \in TypeIds \cup CorpIds : IconTrue(i, icons[i])

ResponsesOK ==
  /\ responses \in Seq(Responses)
  /\ Len(responses) <= MaxResponses
  /\ \A i \in DOMAIN responses : Typed(responses[i]) /\ Fresh(responses[i])

PictureInv == VersionsOK /\ PortraitsOK /\ IconsOK /\ ResponsesOK

LEMMA PictureFacts ==
  /\ NoImage \notin Pictures
  /\ \A p \in Pictures : p.kind \in Kinds /\ p.version \in 0 .. MaxPublished
  /\ \A k \in Kinds, v \in 0 .. MaxPublished : \A id \in IdsOfKind(k) \cup {0} :
       /\ Picture(k, id, v) \in Pictures
       /\ Picture(k, id, v).kind = k
       /\ Picture(k, id, v).id = id
       /\ Picture(k, id, v).version = v
<1>1. ASSUME NEW p \in Pictures
      PROVE  \E k \in Kinds :
               p \in [kind : {k}, id : IdsOfKind(k) \cup {0}, version : 0 .. MaxPublished]
  BY <1>1, Zenon DEF Pictures
<1>2. \A p \in Pictures : p.kind \in Kinds /\ p.version \in 0 .. MaxPublished
  <2>1. TAKE p \in Pictures
  <2>2. PICK k \in Kinds :
          p \in [kind : {k}, id : IdsOfKind(k) \cup {0}, version : 0 .. MaxPublished]
    BY <1>1, Zenon
  <2>3. QED
    BY <2>2
<1>3. NoImage.kind \notin Kinds
  BY DEF NoImage, Picture, Kinds
<1>4. ASSUME NEW k \in Kinds, NEW v \in 0 .. MaxPublished, NEW id \in IdsOfKind(k) \cup {0}
      PROVE  /\ Picture(k, id, v) \in Pictures
             /\ Picture(k, id, v).kind = k
             /\ Picture(k, id, v).id = id
             /\ Picture(k, id, v).version = v
  <2>1. Picture(k, id, v) \in
          [kind : {k}, id : IdsOfKind(k) \cup {0}, version : 0 .. MaxPublished]
    BY DEF Picture
  <2>2. Picture(k, id, v) \in Pictures
    BY <2>1, Zenon DEF Pictures
  <2>3. QED
    BY <2>2 DEF Picture
<1>5. QED
  BY <1>2, <1>3, <1>4, Zenon

LEMMA KindFacts ==
  /\ Kinds = {"portrait", "type", "corporation"}
  /\ IdsOfKind("portrait") = Faces
  /\ IdsOfKind("type") = TypeIds
  /\ IdsOfKind("corporation") = CorpIds
BY DEF Kinds, IdsOfKind

(* What the invariant says is what the properties say.                     *)
LEMMA PicturesAsStated ==
  ASSUME PictureInv
  PROVE  ImageTypeOK /\ PicturesTrue /\ OldPictureOnlyByOverlap
<1>1. ASSUME NEW i \in DOMAIN responses
      PROVE  /\ Typed(responses[i]) /\ responses[i] \in Responses
             /\ responses[i].at \in {"load", "download", "save", "done"}
             /\ responses[i].image # NoImage => responses[i].at \in {"save", "done"}
  <2>1. Typed(responses[i])
    BY DEF PictureInv, ResponsesOK
  <2>2. responses[i] \in Responses
    BY <2>1 DEF Typed
  <2>3. responses[i].at \in {"load", "download", "save", "done"}
    BY <2>2 DEF Responses
  <2>4. QED
    BY <2>1, <2>2, <2>3 DEF Typed
<1>2. ImageTypeOK
  <2>1. ASSUME NEW i \in DOMAIN responses
        PROVE  LET r == responses[i] IN
               /\ r.kind \in Kinds /\ r.id \in IdsOfKind(r.kind)
               /\ r.since \in 0 .. MaxPublished
               /\ \/ r.at \in {"load", "download"} /\ r.image = NoImage
                  \/ r.at \in {"save", "done"} /\ r.image \in Pictures
    BY <1>1 DEF Typed, Responses
  <2>2. QED
    BY <2>1 DEF PictureInv, VersionsOK, PortraitsOK, IconsOK, ResponsesOK, ImageTypeOK
<1>3. PicturesTrue
  <2>1. \A f \in Faces : portraits[f] # NoImage =>
          portraits[f].kind = "portrait" /\ portraits[f].id = f
    BY DEF PictureInv, PortraitsOK, PortraitTrue
  <2>2. \A i \in TypeIds \cup CorpIds : icons[i] # NoImage =>
          icons[i].id = i /\ i \in IdsOfKind(icons[i].kind)
    BY DEF PictureInv, IconsOK, IconTrue
  <2>3. ASSUME NEW i \in DOMAIN responses
        PROVE  LET r == responses[i] IN
               r.image # NoImage => r.image.kind = r.kind /\ r.image.id \in {0, r.id}
    BY <1>1 DEF Typed
  <2>4. QED
    BY <2>1, <2>2, <2>3 DEF PicturesTrue
<1>4. OldPictureOnlyByOverlap
  BY DEF PictureInv, PortraitsOK, PortraitTrue, OldPictureOnlyByOverlap
<1>5. QED
  BY <1>2, <1>3, <1>4

LEMMA ImageStart == ImageInit => PictureInv
<1> SUFFICES ASSUME ImageInit PROVE PictureInv
  OBVIOUS
<1>1. 0 \in 0 .. MaxPublished
  BY NaturalBounds
<1>2. VersionsOK
  BY <1>1 DEF ImageInit, VersionsOK
<1>3. PortraitsOK
  BY DEF ImageInit, PortraitsOK, PortraitTrue
<1>4. IconsOK
  BY DEF ImageInit, IconsOK, IconTrue
<1>5. ResponsesOK
  BY EmptySeq, NaturalBounds DEF ImageInit, ResponsesOK
<1>6. QED
  BY <1>2, <1>3, <1>4, <1>5 DEF PictureInv

(* A response goes on, and what it knows stays true.                       *)
LEMMA ResponseMoves ==
  ASSUME PictureInv, NEW i \in DOMAIN responses, NEW r, Typed(r), Fresh(r),
         responses' = [responses EXCEPT ![i] = r],
         UNCHANGED <<published, asked, overlapped>>,
         PortraitsOK', IconsOK'
  PROVE  PictureInv'
<1>1. /\ responses \in Seq(Responses) /\ DOMAIN responses = 1 .. Len(responses)
      /\ Len(responses) <= MaxResponses /\ r \in Responses
  BY LenProperties DEF PictureInv, ResponsesOK, Typed
<1>2. /\ responses' \in Seq(Responses) /\ Len(responses') = Len(responses)
      /\ \A j \in 1 .. Len(responses) :
           responses'[j] = IF j = i THEN r ELSE responses[j]
  BY <1>1, ExceptSeq
<1>3. DOMAIN responses' = 1 .. Len(responses)
  BY <1>2, LenProperties
<1>4. ASSUME NEW j \in DOMAIN responses'
      PROVE  Typed(responses'[j]) /\ Fresh(responses[j])'
  <2>1. CASE j = i
    <3>1. responses'[j] = r
      BY <1>2, <1>3, <2>1
    <3>2. QED
      BY <3>1 DEF Fresh
  <2>2. CASE j # i
    <3>1. responses'[j] = responses[j] /\ j \in DOMAIN responses
      BY <1>1, <1>2, <1>3, <2>2
    <3>2. Typed(responses[j]) /\ Fresh(responses[j])
      BY <3>1 DEF PictureInv, ResponsesOK
    <3>3. QED
      BY <3>1, <3>2 DEF Fresh
  <2>3. QED
    BY <2>1, <2>2
<1>5. ResponsesOK'
  BY <1>1, <1>2, <1>4 DEF ResponsesOK
<1>6. VersionsOK'
  BY DEF PictureInv, VersionsOK
<1>7. QED
  BY <1>5, <1>6 DEF PictureInv

(* A picture that is unchanged stays true when the wishes do.              *)
LEMMA CachesKept ==
  ASSUME PictureInv, UNCHANGED <<asked, overlapped>>
  PROVE  /\ UNCHANGED portraits => PortraitsOK'
         /\ UNCHANGED icons => IconsOK'
BY DEF PictureInv, PortraitsOK, PortraitTrue, IconsOK, IconTrue

LEMMA ResponseFacts ==
  ASSUME PictureInv, NEW i \in DOMAIN responses
  PROVE  /\ Typed(responses[i]) /\ Fresh(responses[i])
         /\ responses[i].kind \in Kinds
         /\ responses[i].id \in IdsOfKind(responses[i].kind)
         /\ responses[i] = [kind |-> responses[i].kind, id |-> responses[i].id,
                            at |-> responses[i].at, image |-> responses[i].image,
                            since |-> responses[i].since]
         /\ Version(responses[i].kind, responses[i].id) \in 0 .. MaxPublished
         /\ responses[i].kind = "portrait" =>
              /\ responses[i].id \in Faces
              /\ asked[responses[i].id] \in Nat
              /\ asked[responses[i].id] <= published[responses[i].id]
<1>1. Typed(responses[i]) /\ Fresh(responses[i])
  BY DEF PictureInv, ResponsesOK
<1>2. /\ responses[i] \in Responses
      /\ responses[i].id \in IdsOfKind(responses[i].kind)
  BY <1>1 DEF Typed
<1>3. /\ responses[i].kind \in Kinds
      /\ responses[i] = [kind |-> responses[i].kind, id |-> responses[i].id,
                         at |-> responses[i].at, image |-> responses[i].image,
                         since |-> responses[i].since]
  BY <1>2 DEF Responses
<1>4. responses[i].kind = "portrait" => responses[i].id \in Faces
  BY <1>2, KindFacts
<1>5. 0 \in 0 .. MaxPublished
  BY NaturalBounds
<1>6. Version(responses[i].kind, responses[i].id) \in 0 .. MaxPublished
  BY <1>4, <1>5 DEF Version, PictureInv, VersionsOK
<1>7. QED
  BY <1>1, <1>2, <1>3, <1>4, <1>6 DEF PictureInv, VersionsOK

(* A request: a response is given to the pool.                             *)
LEMMA Responding ==
  ASSUME PictureInv, NEW kind \in Kinds, NEW id \in IdsOfKind(kind), Respond(kind, id)
  PROVE  PictureInv'
<1>1. PICK r : r = [kind |-> kind, id |-> id, at |-> "load", image |-> NoImage,
                    since |-> 0]
  OBVIOUS
<1>2. /\ Len(responses) < MaxResponses
      /\ responses' = Append(responses, r)
      /\ UNCHANGED <<published, portraits, icons, asked, overlapped>>
  BY <1>1 DEF Respond
<1>3. id \in AnyId
  BY KindFacts DEF AnyId
<1>4. r \in Responses
  BY <1>1, <1>3, NaturalBounds DEF Responses
<1>5. Typed(r) /\ Fresh(r)
  BY <1>1, <1>4 DEF Typed, Fresh
<1>6. /\ responses \in Seq(Responses) /\ Len(responses) \in Nat
      /\ DOMAIN responses = 1 .. Len(responses)
  BY LenProperties DEF PictureInv, ResponsesOK
<1>7. /\ responses' \in Seq(Responses) /\ Len(responses') = Len(responses) + 1
      /\ \A j \in 1 .. Len(responses) : responses'[j] = responses[j]
      /\ responses'[Len(responses) + 1] = r
  BY <1>2, <1>4, <1>6, AppendProperties
<1>8. DOMAIN responses' = 1 .. Len(responses) + 1
  BY <1>7, LenProperties
<1>9. ASSUME NEW j \in DOMAIN responses'
      PROVE  Typed(responses'[j]) /\ Fresh(responses[j])'
  <2>1. CASE j = Len(responses) + 1
    BY <1>2, <1>5, <1>7, <2>1 DEF Fresh
  <2>2. CASE j # Len(responses) + 1
    <3>1. j \in 1 .. Len(responses)
      BY <1>6, <1>8, <2>2
    <3>2. responses'[j] = responses[j] /\ Typed(responses[j]) /\ Fresh(responses[j])
      BY <1>6, <1>7, <3>1 DEF PictureInv, ResponsesOK
    <3>3. QED
      BY <1>2, <3>2 DEF Fresh
  <2>3. QED
    BY <2>1, <2>2
<1>10. Len(responses') <= MaxResponses
  BY <1>2, <1>6, <1>7, NaturalBounds
<1>11. ResponsesOK'
  BY <1>7, <1>9, <1>10 DEF ResponsesOK
<1>12. PortraitsOK' /\ IconsOK'
  BY <1>2, CachesKept
<1>13. VersionsOK'
  BY <1>2 DEF PictureInv, VersionsOK
<1>14. QED
  BY <1>11, <1>12, <1>13 DEF PictureInv

(* A response ends.                                                        *)
LEMMA ResponseEnds ==
  ASSUME PictureInv, NEW i \in DOMAIN responses,
         responses' = WithoutAt(responses, i),
         UNCHANGED <<published, portraits, icons, asked, overlapped>>
  PROVE  PictureInv'
<1>1. responses \in Seq(Responses) /\ Len(responses) \in Nat
  BY LenProperties DEF PictureInv, ResponsesOK
<1>2. /\ responses' \in Seq(Responses) /\ Len(responses') = Len(responses) - 1
      /\ \A j \in DOMAIN responses' :
           \E k \in DOMAIN responses : responses'[j] = responses[k]
  <2>1. PICK seq \in Seq(Responses) : seq = responses
    BY <1>1
  <2>2. responses' = WithoutAt(seq, i) /\ i \in DOMAIN seq
    BY <2>1
  <2>3. /\ WithoutAt(seq, i) \in Seq(Responses)
        /\ Len(WithoutAt(seq, i)) = Len(seq) - 1
        /\ \A j \in DOMAIN WithoutAt(seq, i) :
             /\ (IF j < i THEN j ELSE j + 1) \in DOMAIN seq
             /\ WithoutAt(seq, i)[j] = seq[IF j < i THEN j ELSE j + 1]
    BY <2>2, WithoutAtSeq
  <2>4. \A j \in DOMAIN responses' : \E k \in DOMAIN seq : responses'[j] = seq[k]
    BY <2>2, <2>3
  <2>5. QED
    BY <2>1, <2>2, <2>3, <2>4
<1>3. ASSUME NEW j \in DOMAIN responses'
      PROVE  Typed(responses'[j]) /\ Fresh(responses[j])'
  <2>1. PICK k \in DOMAIN responses : responses'[j] = responses[k]
    BY <1>2
  <2>2. Typed(responses[k]) /\ Fresh(responses[k])
    BY DEF PictureInv, ResponsesOK
  <2>3. QED
    BY <2>1, <2>2 DEF Fresh
<1>4. Len(responses') <= MaxResponses
  BY <1>1, <1>2, NaturalBounds DEF PictureInv, ResponsesOK
<1>5. ResponsesOK'
  BY <1>2, <1>3, <1>4 DEF ResponsesOK
<1>6. PortraitsOK' /\ IconsOK'
  BY CachesKept
<1>7. VersionsOK'
  BY DEF PictureInv, VersionsOK
<1>8. QED
  BY <1>5, <1>6, <1>7 DEF PictureInv

(* The parts of a step of run().                                           *)
LEMMA Stepping ==
  ASSUME PictureInv, NEW i, NEW from, NEW r, Step(i, from, r), Typed(r), Fresh(r),
         PortraitsOK', IconsOK'
  PROVE  PictureInv'
<1>1. /\ i \in DOMAIN responses
      /\ responses' = [responses EXCEPT ![i] = r]
      /\ UNCHANGED <<published, asked, overlapped>>
  BY DEF Step
<1>2. QED
  BY <1>1, ResponseMoves

LEMMA Loading ==
  ASSUME PictureInv, NEW i, Load(i)
  PROVE  PictureInv'
<1>1. i \in DOMAIN responses
  BY DEF Load
<1>2. PICK r : r = responses[i]
  OBVIOUS
<1>3. UNCHANGED <<portraits, icons>>
  BY DEF Load
<1>4. /\ Typed(r) /\ Fresh(r) /\ r.kind \in Kinds /\ r.id \in IdsOfKind(r.kind)
      /\ r = [kind |-> r.kind, id |-> r.id, at |-> r.at, image |-> r.image,
              since |-> r.since]
      /\ Version(r.kind, r.id) \in 0 .. MaxPublished
      /\ r.kind = "portrait" =>
           /\ r.id \in Faces /\ asked[r.id] \in Nat
           /\ asked[r.id] <= published[r.id]
  BY <1>1, <1>2, ResponseFacts
<1>5. r \in Responses
  BY <1>4 DEF Typed
<1>6. CASE Cached(r) # NoImage
  <2>1. PICK p : p = Cached(r)
    OBVIOUS
  <2>2. PICK s : s = [r EXCEPT !.at = "done", !.image = p]
    OBVIOUS
  <2>3. Step(i, "load", s)
    BY <1>2, <1>6, <2>1, <2>2 DEF Load
  <2>4. p \in Pictures /\ p.kind = r.kind /\ p.id = r.id
    <3>1. CASE r.kind = "portrait"
      BY <1>4, <1>6, <2>1, <3>1
         DEF Cached, LoadPortrait, PictureInv, PortraitsOK, PortraitTrue
    <3>2. CASE r.kind # "portrait"
      <4>1. r.id \in TypeIds \cup CorpIds
        BY <1>4, <3>2, KindFacts
      <4>2. IconTrue(r.id, p) /\ p # NoImage
        BY <1>6, <2>1, <3>2, <4>1 DEF Cached, LoadTypeIcon, PictureInv, IconsOK
      <4>3. /\ p \in Pictures /\ p.id = r.id
            /\ p.kind \in {"type", "corporation"} /\ r.id \in IdsOfKind(p.kind)
        BY <4>2 DEF IconTrue
      <4>4. p.kind = r.kind
        BY <1>4, <3>2, <4>3, KindFacts, IconIdsDiffer
      <4>5. QED
        BY <4>3, <4>4
    <3>3. QED
      BY <3>1, <3>2
  <2>5. /\ s.kind = r.kind /\ s.id = r.id /\ s.at = "done" /\ s.image = p
        /\ s \in Responses
    BY <1>4, <1>5, <2>2, <2>4 DEF Responses
  <2>6. p # NoImage
    BY <1>6, <2>1
  <2>7. Typed(s) /\ Fresh(s)
    BY <1>4, <2>4, <2>5 DEF Typed, Fresh
  <2>8. PortraitsOK' /\ IconsOK'
    BY <1>3, <2>3, CachesKept DEF Step
  <2>9. QED
    BY <2>3, <2>7, <2>8, Stepping
<1>7. CASE Cached(r) = NoImage
  <2>1. PICK s : s = [r EXCEPT !.at = "download", !.since = Version(r.kind, r.id)]
    OBVIOUS
  <2>2. Step(i, "load", s) /\ r.at = "load"
    BY <1>2, <1>7, <2>1 DEF Load, Step
  <2>3. /\ s.kind = r.kind /\ s.id = r.id /\ s.at = "download" /\ s.image = r.image
        /\ s.since = Version(r.kind, r.id) /\ s \in Responses
    BY <1>4, <1>5, <2>1 DEF Responses
  <2>4. Typed(s)
    BY <1>4, <2>2, <2>3 DEF Typed
  <2>5. Fresh(s)
    <3>1. ASSUME r.kind = "portrait"
          PROVE  ~(s.since < asked[r.id])
      <4>1. s.since = published[r.id]
        BY <2>3, <3>1 DEF Version
      <4>2. published[r.id] \in Nat
        BY <1>4, <3>1 DEF PictureInv, VersionsOK
      <4>3. QED
        BY <1>4, <3>1, <4>1, <4>2
    <3>2. QED
      BY <2>3, <3>1 DEF Fresh
  <2>6. PortraitsOK' /\ IconsOK'
    BY <1>3, <2>2, CachesKept DEF Step
  <2>7. QED
    BY <2>2, <2>4, <2>5, <2>6, Stepping
<1>8. QED
  BY <1>6, <1>7

LEMMA Downloading ==
  ASSUME PictureInv, NEW i, Downloaded(i)
  PROVE  PictureInv'
<1>1. i \in DOMAIN responses /\ UNCHANGED <<portraits, icons>>
  BY DEF Downloaded
<1>2. PICK r : r = responses[i]
  OBVIOUS
<1>3. /\ Typed(r) /\ Fresh(r) /\ r.kind \in Kinds /\ r.id \in IdsOfKind(r.kind)
      /\ r = [kind |-> r.kind, id |-> r.id, at |-> r.at, image |-> r.image,
              since |-> r.since]
      /\ Version(r.kind, r.id) \in 0 .. MaxPublished
      /\ r.kind = "portrait" => r.id \in Faces /\ asked[r.id] \in Nat
  BY <1>1, <1>2, ResponseFacts
<1>4. r \in Responses
  BY <1>3 DEF Typed
<1>5. PICK v \in r.since .. Version(r.kind, r.id) :
        Step(i, "download", [r EXCEPT !.at = "save", !.image = Picture(r.kind, r.id, v)])
  BY <1>2, Zenon DEF Downloaded
<1>6. r.since \in 0 .. MaxPublished
  BY <1>4 DEF Responses
<1>7. v \in 0 .. MaxPublished /\ r.since <= v
  BY <1>3, <1>5, <1>6, NaturalBounds
<1>8. PICK p : p = Picture(r.kind, r.id, v)
  OBVIOUS
<1>9. p \in Pictures /\ p.kind = r.kind /\ p.id = r.id /\ p.version = v
  BY <1>3, <1>7, <1>8, PictureFacts
<1>10. PICK s : s = [r EXCEPT !.at = "save", !.image = p]
  OBVIOUS
<1>11. Step(i, "download", s) /\ r.at = "download"
  BY <1>2, <1>5, <1>8, <1>10 DEF Step
<1>12. /\ s.kind = r.kind /\ s.id = r.id /\ s.at = "save" /\ s.image = p
       /\ s \in Responses
  BY <1>3, <1>4, <1>9, <1>10 DEF Responses
<1>13. Typed(s)
  BY <1>3, <1>9, <1>12 DEF Typed
<1>14. Fresh(s)
  <2>1. ASSUME r.kind = "portrait", v < asked[r.id]
        PROVE  r.id \in overlapped
    <3>1. r.since < asked[r.id]
      BY <1>3, <1>6, <1>7, <2>1, NaturalBounds
    <3>2. QED
      BY <1>3, <1>11, <2>1, <3>1 DEF Fresh
  <2>2. QED
    BY <1>9, <1>12, <2>1 DEF Fresh
<1>15. PortraitsOK' /\ IconsOK'
  BY <1>1, <1>11, CachesKept DEF Step
<1>16. QED
  BY <1>11, <1>13, <1>14, <1>15, Stepping

LEMMA ShowingDefault ==
  ASSUME PictureInv, NEW i, ShowDefault(i)
  PROVE  PictureInv'
<1>1. i \in DOMAIN responses /\ UNCHANGED <<portraits, icons>>
  BY DEF ShowDefault
<1>2. PICK r : r = responses[i]
  OBVIOUS
<1>3. /\ Typed(r) /\ r.kind \in Kinds /\ r.id \in IdsOfKind(r.kind)
      /\ r = [kind |-> r.kind, id |-> r.id, at |-> r.at, image |-> r.image,
              since |-> r.since]
  BY <1>1, <1>2, ResponseFacts
<1>4. r \in Responses
  BY <1>3 DEF Typed
<1>5. PICK p : p = Default(r.kind)
  OBVIOUS
<1>6. p \in Pictures /\ p.kind = r.kind /\ p.id = 0
  BY <1>3, <1>5, PictureFacts, NaturalBounds DEF Default
<1>7. PICK s : s = [r EXCEPT !.at = "done", !.image = p]
  OBVIOUS
<1>8. Step(i, "download", s)
  BY <1>2, <1>5, <1>7 DEF ShowDefault
<1>9. /\ s.kind = r.kind /\ s.id = r.id /\ s.at = "done" /\ s.image = p
      /\ s \in Responses
  BY <1>3, <1>4, <1>6, <1>7 DEF Responses
<1>10. Typed(s) /\ Fresh(s)
  BY <1>3, <1>6, <1>9 DEF Typed, Fresh
<1>11. PortraitsOK' /\ IconsOK'
  BY <1>1, <1>8, CachesKept DEF Step
<1>12. QED
  BY <1>8, <1>10, <1>11, Stepping

LEMMA Saving ==
  ASSUME PictureInv, NEW i, Save(i)
  PROVE  PictureInv'
<1>1. i \in DOMAIN responses
  BY DEF Save
<1>2. PICK r : r = responses[i]
  OBVIOUS
<1>3. /\ Typed(r) /\ Fresh(r) /\ r.kind \in Kinds /\ r.id \in IdsOfKind(r.kind)
      /\ r = [kind |-> r.kind, id |-> r.id, at |-> r.at, image |-> r.image,
              since |-> r.since]
  BY <1>1, <1>2, ResponseFacts
<1>4. r \in Responses
  BY <1>3 DEF Typed
<1>5. PICK s : s = [r EXCEPT !.at = "done"]
  OBVIOUS
<1>6. /\ Step(i, "save", s) /\ r.at = "save"
      /\ UNCHANGED <<asked, overlapped>>
  BY <1>2, <1>5 DEF Save, Step
<1>7. /\ r.image \in Pictures /\ r.image.kind = r.kind /\ r.image.id = r.id
  BY <1>3, <1>6 DEF Typed
<1>8. Typed(s) /\ Fresh(s)
  <2>1. /\ s.kind = r.kind /\ s.id = r.id /\ s.at = "done" /\ s.image = r.image
        /\ s \in Responses
    BY <1>3, <1>4, <1>5 DEF Responses
  <2>2. QED
    BY <1>3, <1>7, <2>1 DEF Typed, Fresh
<1>9. PortraitsOK' /\ IconsOK'
  <2>1. CASE r.kind = "portrait"
    <3>1. /\ portraits' \in {portraits, [portraits EXCEPT ![r.id] = r.image]}
          /\ icons' = icons
      BY <1>2, <2>1 DEF Save, SavePortrait
    <3>2. r.id \in Faces /\ PortraitTrue(r.id, r.image)
      BY <1>3, <1>6, <1>7, <2>1, KindFacts DEF Fresh, PortraitTrue
    <3>3. portraits' \in [Faces -> Pictures \cup {NoImage}]
      BY <1>7, <3>1, <3>2 DEF PictureInv, PortraitsOK
    <3>4. \A f \in Faces : PortraitTrue(f, portraits'[f])
      BY <3>1, <3>2 DEF PictureInv, PortraitsOK
    <3>5. PortraitsOK'
      BY <1>6, <3>3, <3>4 DEF PortraitsOK, PortraitTrue
    <3>6. QED
      BY <1>6, <3>1, <3>5, CachesKept
  <2>2. CASE r.kind # "portrait"
    <3>1. /\ icons' \in {icons, [icons EXCEPT ![r.id] = r.image]}
          /\ portraits' = portraits
      BY <1>2, <2>2 DEF Save, SaveTypeIcon
    <3>2. /\ r.id \in TypeIds \cup CorpIds
          /\ r.kind \in {"type", "corporation"}
      BY <1>3, <2>2, KindFacts
    <3>3. IconTrue(r.id, r.image)
      BY <1>3, <1>7, <3>2 DEF IconTrue
    <3>4. icons' \in [TypeIds \cup CorpIds -> Pictures \cup {NoImage}]
      BY <1>7, <3>1, <3>2 DEF PictureInv, IconsOK
    <3>5. \A j \in TypeIds \cup CorpIds : IconTrue(j, icons'[j])
      BY <3>1, <3>2, <3>3 DEF PictureInv, IconsOK
    <3>6. IconsOK'
      BY <3>4, <3>5 DEF IconsOK
    <3>7. QED
      BY <1>6, <3>1, <3>6, CachesKept
  <2>3. QED
    BY <2>1, <2>2
<1>10. QED
  BY <1>6, <1>8, <1>9, Stepping

LEMMA Publishing ==
  ASSUME PictureInv, NEW f \in Faces, Publish(f)
  PROVE  PictureInv'
<1>1. /\ published[f] < MaxPublished
      /\ published' = [published EXCEPT ![f] = @ + 1]
      /\ UNCHANGED <<portraits, icons, responses, asked, overlapped>>
  BY DEF Publish
<1>2. /\ published \in [Faces -> 0 .. MaxPublished]
      /\ asked \in [Faces -> 0 .. MaxPublished]
      /\ \A g \in Faces : asked[g] <= published[g]
  BY DEF PictureInv, VersionsOK
<1>3. published[f] + 1 \in 0 .. MaxPublished
  BY <1>1, <1>2, NaturalBounds
<1>4. published' \in [Faces -> 0 .. MaxPublished]
  BY <1>1, <1>2, <1>3
<1>5. ASSUME NEW g \in Faces
      PROVE  asked'[g] <= published'[g]
  <2>1. asked[g] \in Nat /\ published[g] \in Nat /\ asked[g] <= published[g]
    BY <1>2
  <2>2. published'[g] \in {published[g], published[g] + 1}
    BY <1>1, <1>2
  <2>3. QED
    BY <1>1, <2>1, <2>2
<1>6. VersionsOK'
  BY <1>1, <1>4, <1>5 DEF PictureInv, VersionsOK
<1>7. PortraitsOK' /\ IconsOK'
  BY <1>1, CachesKept
<1>8. ResponsesOK'
  BY <1>1 DEF PictureInv, ResponsesOK, Fresh
<1>9. QED
  BY <1>6, <1>7, <1>8 DEF PictureInv

LEMMA Deleting ==
  ASSUME PictureInv, NEW f \in Faces, DeletePortrait(f)
  PROVE  PictureInv'
<1>1. /\ portraits' = [portraits EXCEPT ![f] = NoImage]
      /\ asked' = [asked EXCEPT ![f] = published[f]]
      /\ overlapped' = IF UnderWay(f) THEN overlapped \cup {f} ELSE overlapped \ {f}
      /\ UNCHANGED <<published, icons, responses>>
  BY DEF DeletePortrait
<1>2. /\ published \in [Faces -> 0 .. MaxPublished]
      /\ asked \in [Faces -> 0 .. MaxPublished]
      /\ \A g \in Faces : asked[g] <= published[g]
      /\ overlapped \subseteq Faces
  BY DEF PictureInv, VersionsOK
<1>3. VersionsOK'
  <2>1. asked' \in [Faces -> 0 .. MaxPublished]
    BY <1>1, <1>2
  <2>2. \A g \in Faces : asked'[g] <= published'[g]
    <3>1. TAKE g \in Faces
    <3>2. published[g] \in Nat /\ asked'[g] \in {asked[g], published[g]}
      BY <1>1, <1>2
    <3>3. QED
      BY <1>1, <1>2, <3>2
  <2>3. overlapped' \subseteq Faces
    BY <1>1, <1>2
  <2>4. QED
    BY <1>1, <1>2, <2>1, <2>2, <2>3 DEF VersionsOK
(* Nothing is said anew of the other faces.                                *)
<1>4. \A g \in Faces \ {f} :
        asked'[g] = asked[g] /\ (g \in overlapped' <=> g \in overlapped)
  BY <1>1, <1>2
<1>5. PortraitsOK'
  <2>1. portraits' \in [Faces -> Pictures \cup {NoImage}]
    BY <1>1 DEF PictureInv, PortraitsOK
  <2>2. ASSUME NEW g \in Faces
        PROVE  PortraitTrue(g, portraits[g])'
    <3>1. CASE g = f
      BY <1>1, <3>1 DEF PictureInv, PortraitsOK, PortraitTrue
    <3>2. CASE g # f
      <4>1. portraits'[g] = portraits[g] /\ PortraitTrue(g, portraits[g])
        BY <1>1, <3>2 DEF PictureInv, PortraitsOK
      <4>2. QED
        BY <1>4, <3>2, <4>1 DEF PortraitTrue
    <3>3. QED
      BY <3>1, <3>2
  <2>3. QED
    BY <2>1, <2>2 DEF PortraitsOK
<1>6. IconsOK'
  BY <1>1 DEF PictureInv, IconsOK, IconTrue
<1>7. ResponsesOK'
  <2>1. ASSUME NEW i \in DOMAIN responses
        PROVE  Fresh(responses[i])'
    <3>1. PICK r : r = responses[i]
      OBVIOUS
    <3>2. /\ Fresh(r)
          /\ r.kind = "portrait" => r.id \in Faces
      BY <3>1, ResponseFacts
    <3>3. responses'[i] = r
      BY <1>1, <3>1
    <3>4. CASE r.kind = "portrait" /\ r.id = f /\ r.at \in {"download", "save"}
      <4>1. UnderWay(f)
        BY <3>1, <3>4 DEF UnderWay
      <4>2. f \in overlapped'
        BY <1>1, <4>1
      <4>3. QED
        BY <3>3, <3>4, <4>2 DEF Fresh
    <3>5. CASE r.kind = "portrait" /\ r.id # f
      <4>1. r.id \in Faces \ {f}
        BY <3>2, <3>5
      <4>2. asked'[r.id] = asked[r.id] /\ (r.id \in overlapped' <=> r.id \in overlapped)
        BY <1>4, <4>1
      <4>3. QED
        BY <3>2, <3>3, <4>2 DEF Fresh
    <3>6. CASE r.kind # "portrait" \/ r.at \notin {"download", "save"}
      BY <3>3, <3>6 DEF Fresh
    <3>7. QED
      BY <3>4, <3>5, <3>6
  <2>2. QED
    BY <1>1, <2>1 DEF PictureInv, ResponsesOK
<1>8. QED
  BY <1>3, <1>5, <1>6, <1>7 DEF PictureInv

LEMMA ImagesRestarting ==
  ASSUME PictureInv, ImageRestart
  PROVE  PictureInv'
<1>1. /\ responses' = <<>>
      /\ UNCHANGED <<published, portraits, icons, asked, overlapped>>
  BY DEF ImageRestart
<1>2. ResponsesOK'
  BY <1>1, EmptySeq, NaturalBounds DEF ResponsesOK
<1>3. VersionsOK'
  BY <1>1 DEF PictureInv, VersionsOK
<1>4. QED
  BY <1>1, <1>2, <1>3, CachesKept DEF PictureInv

LEMMA ImageStep ==
  ASSUME PictureInv, ImageNext
  PROVE  PictureInv'
<1>1. \A f \in Faces : RequestPortrait(f) => PictureInv'
  BY Responding, KindFacts DEF RequestPortrait
<1>2. \A t \in TypeIds : RequestTypeIcon(t) => PictureInv'
  BY Responding, KindFacts DEF RequestTypeIcon
<1>3. \A c \in CorpIds : RequestCorpIcon(c) => PictureInv'
  BY Responding, KindFacts DEF RequestCorpIcon
<1>4. \A i : Finished(i) => PictureInv'
  BY ResponseEnds DEF Finished
<1>5. QED
  BY <1>1, <1>2, <1>3, <1>4, Publishing, Deleting, Loading, Downloading,
     ShowingDefault, Saving, ImagesRestarting DEF ImageNext

LEMMA ImagesKept ==
  ASSUME PictureInv, UNCHANGED imageVars
  PROVE  PictureInv'
<1>1. UNCHANGED <<published, portraits, icons, responses, asked, overlapped>>
  BY DEF imageVars
<1>2. PortraitsOK' /\ IconsOK'
  BY <1>1, CachesKept
<1>3. VersionsOK' /\ ResponsesOK'
  BY <1>1 DEF PictureInv, VersionsOK, ResponsesOK, Fresh
<1>4. QED
  BY <1>2, <1>3 DEF PictureInv

-----------------------------------------------------------------------------
(* The rows and the notifications.                                         *)

RowsOK ==
  /\ rows \in Seq(Rows)
  /\ \A i, j \in DOMAIN rows : rows[i].object = rows[j].object => i = j
  /\ inbox \in [Chars -> Counts]

EventsOK == events \in 0 .. MaxEvents

LEMMA RowFacts ==
  ASSUME RowsOK, NEW i \in DOMAIN rows
  PROVE  /\ rows[i] \in Rows /\ rows[i].object \in Objects
         /\ rows[i].char \in Chars /\ rows[i].unread \in Counts
         /\ rows[i].connected \in SUBSET Topics
         /\ i \in 1 .. Len(rows) /\ Len(rows) \in Nat
         /\ DOMAIN rows = 1 .. Len(rows)
<1>1. /\ rows \in Seq(Rows) /\ Len(rows) \in Nat
      /\ DOMAIN rows = 1 .. Len(rows)
  BY LenProperties DEF RowsOK
<1>2. rows[i] \in Rows
  BY <1>1, ElementOfSeq
<1>3. QED
  BY <1>1, <1>2 DEF Rows

LEMMA ConstantSets ==
  /\ Saved \subseteq Chars /\ Chars \subseteq Nat \ {0} /\ Chars \subseteq Faces
  /\ Names = Chars /\ AnyName = Chars \cup {0}
  /\ IsFiniteSet(Objects) /\ IsFiniteSet(Chars)
  /\ Cardinality(Chars) <= Cardinality(Objects)
  /\ NoneUnread \in Counts
BY AccountsAssumption, CharsAssumption, NaturalBounds
   DEF AnyName, NoneUnread, Counts, Boxes

(* Of the positions of a list there is a last one.                         *)
LEMMA LastOf ==
  ASSUME NEW n \in Nat, NEW S \in SUBSET (1 .. n), S # {}
  PROVE  \E x \in S : \A y \in S : y <= x
<1> DEFINE T == {x .. n : x \in S}
           R == StrictSubsetOrdering(1 .. n)
<1>1. T \subseteq FiniteSubsetsOf(1 .. n) /\ T # {}
  <2>1. ASSUME NEW x \in S
        PROVE  x .. n \in SUBSET (1 .. n) /\ IsFiniteSet(x .. n)
    <3>1. x \in Int
      OBVIOUS
    <3>2. QED
      BY <3>1, FS_Interval
  <2>2. QED
    BY <2>1 DEF FiniteSubsetsOf
<1>2. IsWellFoundedOn(R, FiniteSubsetsOf(1 .. n))
  BY FS_StrictSubsetOrderingWellFounded
<1> HIDE DEF R
<1>3. \E t \in T : \A u \in T : ~ (<<u, t>> \in R)
  <2> HIDE DEF T
  <2>1. QED
    BY <1>1, <1>2, WFMin
<1>4. PICK x \in S : \A y \in S : ~ (<<y .. n, x .. n>> \in R)
  BY <1>3
<1>5. ASSUME NEW y \in S, ~ (y <= x)
      PROVE  FALSE
  <2>1. x \in 1 .. n /\ y \in 1 .. n /\ x < y
    BY <1>5
  <2>2. y .. n \in SUBSET (1 .. n) /\ x .. n \in SUBSET (1 .. n)
    BY <2>1
  <2>3. y .. n \subseteq x .. n /\ x \in x .. n /\ x \notin y .. n
    BY <2>1
  <2>4. <<y .. n, x .. n>> \in R
    BY <2>2, <2>3 DEF StrictSubsetOrdering, R
  <2>5. QED
    BY <1>4, <2>4
<1>6. QED
  BY <1>5

LEMMA AddressesDiffer ==
  /\ Addresses \in [1 .. Cardinality(Objects) -> Objects]
  /\ \A i, j \in 1 .. Cardinality(Objects) : Addresses[i] = Addresses[j] => i = j
<1>1. PICK a : a \in Bijection(1 .. Cardinality(Objects), Objects)
  BY FS_CardinalityType, ConstantSets DEF ExistsBijection
<1>2. /\ a \in [1 .. Cardinality(Objects) -> Objects]
      /\ \A i, j \in 1 .. Cardinality(Objects) : a[i] = a[j] => i = j
  BY <1>1 DEF Bijection, Injection, IsInjective
<1>3. QED
  BY <1>2 DEF Addresses

(* The rows that a new process loads.                                      *)
LEMMA Loaded ==
  ASSUME NEW ids \in SUBSET Chars, NEW unread \in [ids -> Counts],
         NEW new \in LoadCharacters(unread)
  PROVE  /\ new \in Seq(Rows)
         /\ \A i, j \in DOMAIN new : new[i].object = new[j].object => i = j
<1> DEFINE n == Cardinality(ids)
<1>1. n \in Nat /\ n <= Cardinality(Objects) /\ Cardinality(Objects) \in Nat
  <2>1. IsFiniteSet(ids) /\ n <= Cardinality(Chars)
    BY ConstantSets, FS_Subset
  <2>2. n \in Nat /\ Cardinality(Chars) \in Nat /\ Cardinality(Objects) \in Nat
    BY <2>1, ConstantSets, FS_CardinalityType
  <2>3. QED
    BY <2>1, <2>2, ConstantSets
<1>2. DOMAIN unread = ids
  OBVIOUS
<1> HIDE DEF n
<1>3. PICK s \in InOrder(ids) :
        new = [i \in DOMAIN s |->
                 RowOf(Addresses[i], s[i], Topics, unread[s[i]])]
  BY <1>2 DEF LoadCharacters
<1>4. s \in [1 .. n -> ids] /\ DOMAIN s = 1 .. n
  BY <1>3 DEF InOrder, n
<1>5. \A i \in 1 .. n : i \in 1 .. Cardinality(Objects)
  BY <1>1
<1>6. ASSUME NEW i \in 1 .. n
      PROVE  /\ new[i] \in Rows
             /\ new[i].object = Addresses[i]
  <2>1. new[i] = RowOf(Addresses[i], s[i], Topics, unread[s[i]])
    BY <1>3, <1>4
  <2>2. Addresses[i] \in Objects /\ s[i] \in Chars /\ unread[s[i]] \in Counts
    BY <1>4, <1>5, AddressesDiffer
  <2>3. QED
    BY <2>1, <2>2 DEF RowOf, Rows
<1>7. new \in [1 .. n -> Rows] /\ DOMAIN new = 1 .. n
  <2>1. new = [i \in 1 .. n |-> RowOf(Addresses[i], s[i], Topics, unread[s[i]])]
    BY <1>3, <1>4
  <2>2. DOMAIN new = 1 .. n
    BY <2>1
  <2>3. new = [i \in 1 .. n |-> new[i]]
    BY <2>1
  <2>4. QED
    BY <1>6, <2>2, <2>3
<1>8. new \in Seq(Rows)
  BY <1>1, <1>7, SeqDef
<1>9. ASSUME NEW i \in DOMAIN new, NEW j \in DOMAIN new, new[i].object = new[j].object
      PROVE  i = j
  BY <1>5, <1>6, <1>7, <1>9, AddressesDiffer
<1>10. QED
  BY <1>8, <1>9

(* What table characters holds has the type of what is loaded.             *)
LEMMA SavedType ==
  ASSUME RowsOK
  PROVE  \E ids \in SUBSET Chars : SavedRows \in [ids -> Counts]
<1> DEFINE ids == {rows[i].char : i \in DOMAIN rows}
<1>1. ids \in SUBSET Chars
  BY RowFacts
<1>2. ASSUME NEW c \in ids
      PROVE  rows[CHOOSE i \in DOMAIN rows : IsLast(i, c)].unread \in Counts
  <2>1. RowsWith(c) # {} /\ RowsWith(c) \in SUBSET DOMAIN rows
    BY DEF RowsWith
  <2>2. DOMAIN rows = 1 .. Len(rows) /\ Len(rows) \in Nat
    BY LenProperties DEF RowsOK
  <2>3. \E x \in RowsWith(c) : \A y \in RowsWith(c) : y <= x
    BY <2>1, <2>2, LastOf
  <2>4. \E i \in DOMAIN rows : IsLast(i, c)
    BY <2>1, <2>3 DEF IsLast
  <2>5. (CHOOSE i \in DOMAIN rows : IsLast(i, c)) \in DOMAIN rows
    BY <2>4
  <2>6. QED
    BY <2>5, RowFacts
<1>3. SavedRows \in [ids -> Counts]
  BY <1>2 DEF SavedRows
<1>4. QED
  BY <1>1, <1>3

LEMMA RowsStart ==
  ASSUME Init
  PROVE  RowsOK /\ AnnouncementTypeOK /\ EventsOK
<1>1. [c \in Saved |-> NoneUnread] \in [Saved -> Counts] /\ Saved \in SUBSET Chars
  BY ConstantSets
<1>2. rows \in LoadCharacters([c \in Saved |-> NoneUnread])
  BY DEF Init
<1>3. /\ rows \in Seq(Rows)
      /\ \A i, j \in DOMAIN rows : rows[i].object = rows[j].object => i = j
  BY <1>1, <1>2, Loaded
<1>4. RowsOK
  BY <1>3, ConstantSets DEF Init, RowsOK
<1>5. AnnouncementTypeOK
  <2>1. 0 \in 0 .. MaxCollected
    BY NaturalBounds
  <2>2. QED
    BY <2>1 DEF Init, AnnouncementInit, NothingCollected, AnnouncementTypeOK
<1>6. EventsOK
  BY NaturalBounds DEF Init, EventsOK
<1>7. QED
  BY <1>4, <1>5, <1>6

LEMMA Adding ==
  ASSUME RowsOK, AnnouncementTypeOK, LoginTypeOK, AddNewCharacter
  PROVE  RowsOK' /\ AnnouncementTypeOK'
<1>1. PICK o \in FreeAddresses :
        rows' = Append(rows, RowOf(o, logins[Len(logins)].code.char,
                                   {"skills", "mails"}, NoneUnread))
  BY DEF AddNewCharacter
<1>2. o \in Objects \ Used
  BY DEF FreeAddresses
<1>3. logins # <<>> /\ UNCHANGED <<inbox, announcementVars>>
  BY DEF AddNewCharacter, Verified, AtLogin
<1>4. logins[Len(logins)].code.char \in Chars
  <2>1. InnerLogin \in Slots
    BY <1>3, InnerSlot
  <2>2. QED
    BY <2>1 DEF InnerLogin, Slots, Codes
<1>5. PICK r : r = RowOf(o, logins[Len(logins)].code.char,
                         {"skills", "mails"}, NoneUnread)
  OBVIOUS
<1>6. r \in Rows /\ r.object = o
  BY <1>2, <1>4, <1>5, ConstantSets DEF RowOf, Rows, Topics
<1>7. /\ rows \in Seq(Rows) /\ Len(rows) \in Nat
      /\ DOMAIN rows = 1 .. Len(rows)
  BY LenProperties DEF RowsOK
<1>8. /\ rows' \in Seq(Rows) /\ Len(rows') = Len(rows) + 1
      /\ \A i \in 1 .. Len(rows) : rows'[i] = rows[i]
      /\ rows'[Len(rows) + 1] = r
  BY <1>1, <1>5, <1>6, <1>7, AppendProperties
<1>9. DOMAIN rows' = 1 .. Len(rows) + 1
  BY <1>8, LenProperties
<1>10. \A i \in 1 .. Len(rows) : rows[i].object # o
  BY <1>2, <1>7 DEF Used
<1>11. ASSUME NEW i \in DOMAIN rows', NEW j \in DOMAIN rows',
              rows'[i].object = rows'[j].object
       PROVE  i = j
  <2>1. CASE i = Len(rows) + 1 \/ j = Len(rows) + 1
    BY <1>6, <1>7, <1>8, <1>9, <1>10, <1>11, <2>1
  <2>2. CASE i # Len(rows) + 1 /\ j # Len(rows) + 1
    <3>1. i \in 1 .. Len(rows) /\ j \in 1 .. Len(rows)
      BY <1>7, <1>9, <2>2
    <3>2. QED
      BY <1>7, <1>8, <1>11, <3>1 DEF RowsOK
  <2>3. QED
    BY <2>1, <2>2
<1>12. RowsOK'
  BY <1>3, <1>8, <1>11 DEF RowsOK
<1>13. QED
  BY <1>3, <1>12 DEF AnnouncementTypeOK, announcementVars

LEMMA Removing ==
  ASSUME RowsOK, AnnouncementTypeOK, NEW c \in Chars, RemoveCharacter(c)
  PROVE  RowsOK' /\ AnnouncementTypeOK'
<1>1. PICK i \in RowsWith(c) : rows' = WithoutAt(rows, i)
  BY DEF RemoveCharacter
<1>2. UNCHANGED <<inbox, announcementVars>>
  BY DEF RemoveCharacter
<1>3. PICK seq \in Seq(Rows) : seq = rows
  BY DEF RowsOK
<1>4. i \in DOMAIN seq /\ rows' = WithoutAt(seq, i)
  BY <1>1, <1>3 DEF RowsWith
<1>5. /\ rows' \in Seq(Rows)
      /\ \A j \in DOMAIN rows' :
           /\ (IF j < i THEN j ELSE j + 1) \in DOMAIN seq
           /\ rows'[j] = seq[IF j < i THEN j ELSE j + 1]
      /\ DOMAIN rows' = 1 .. Len(seq) - 1
      /\ Len(seq) - 1 \in Nat
  BY <1>4, WithoutAtSeq
<1>6. i \in Nat
  BY <1>4, LenProperties
<1>7. ASSUME NEW j \in DOMAIN rows', NEW k \in DOMAIN rows',
             rows'[j].object = rows'[k].object
      PROVE  j = k
  <2>1. (IF j < i THEN j ELSE j + 1) = (IF k < i THEN k ELSE k + 1)
    BY <1>3, <1>5, <1>7 DEF RowsOK
  <2>2. j \in Nat /\ k \in Nat
    BY <1>5
  <2>3. QED
    BY <1>6, <2>1, <2>2
<1>8. RowsOK'
  BY <1>2, <1>5, <1>7 DEF RowsOK
<1>9. QED
  BY <1>2, <1>8 DEF AnnouncementTypeOK, announcementVars

(* Signals are counted in natural numbers, and the bound keeps them in.    *)
LEMMA CollectedMore ==
  ASSUME AnnouncementTypeOK, UNCHANGED <<popups, trayed>>,
         collected' \in [Topics -> [Objects -> Nat]], Fits(collected')
  PROVE  AnnouncementTypeOK'
<1>1. \A t \in Topics, o \in Objects : collected'[t][o] \in 0 .. MaxCollected
  BY NaturalBounds DEF Fits
<1>2. collected' \in [Topics -> [Objects -> 0 .. MaxCollected]]
  BY <1>1
<1>3. QED
  BY <1>2 DEF AnnouncementTypeOK

LEMMA Updating ==
  ASSUME RowsOK, AnnouncementTypeOK, NEW c \in Chars, NEW fetched \in BOOLEAN,
         UpdateCharacter(c, fetched)
  PROVE  RowsOK' /\ AnnouncementTypeOK'
<1>1. PICK i \in RowsWith(c) :
        UpdateRow(i, c, IF fetched THEN inbox[c] ELSE rows[i].unread)
  BY DEF UpdateCharacter
<1>2. i \in DOMAIN rows
  BY DEF RowsWith
<1>3. PICK unread : unread = IF fetched THEN inbox[c] ELSE rows[i].unread
  OBVIOUS
<1>4. unread \in Counts
  BY <1>2, <1>3, RowFacts DEF RowsOK
<1>5. /\ rows' = [rows EXCEPT ![i].unread = unread]
      /\ collected' =
           CheckNewMails(collected, rows[i].object, unread, rows[i].connected)
      /\ Fits(collected') /\ UNCHANGED <<inbox, popups, trayed>>
  BY <1>1, <1>3 DEF UpdateRow
<1>6. PICK r : r = [rows[i] EXCEPT !.unread = unread]
  OBVIOUS
<1>7. r \in Rows /\ r.object = rows[i].object
  BY <1>2, <1>4, <1>6, RowFacts DEF Rows
<1>8. /\ rows \in Seq(Rows) /\ i \in 1 .. Len(rows)
      /\ DOMAIN rows = 1 .. Len(rows)
  BY <1>2, RowFacts DEF RowsOK
<1>9. rows' = [rows EXCEPT ![i] = r]
  BY <1>5, <1>6
<1>10. /\ rows' \in Seq(Rows) /\ Len(rows') = Len(rows)
       /\ \A j \in 1 .. Len(rows) : rows'[j] = IF j = i THEN r ELSE rows[j]
  BY <1>7, <1>8, <1>9, ExceptSeq
<1>11. DOMAIN rows' = DOMAIN rows
  BY <1>9
<1>12. \A j \in DOMAIN rows : rows'[j].object = rows[j].object
  BY <1>7, <1>8, <1>10
<1>13. RowsOK'
  BY <1>5, <1>10, <1>11, <1>12 DEF RowsOK
<1>14. AnnouncementTypeOK'
  <2>1. PICK o \in Objects : o = rows[i].object
    BY <1>2, RowFacts
  <2>2. PICK wired : wired = rows[i].connected
    OBVIOUS
  <2>3. unread["mails"] \in Nat /\ unread["notifications"] \in Nat
    BY <1>4 DEF Counts, Boxes
  <2>4. PICK m \in Nat : m = IF "mails" \in wired THEN unread["mails"] ELSE 0
    BY <2>3
  <2>5. PICK n \in Nat :
          n = IF "notifications" \in wired THEN unread["notifications"] ELSE 0
    BY <2>3
  <2>6. collected' = OnNewNotificationReceived(OnNewMailReceived(collected, o, m), o, n)
    BY <1>5, <2>1, <2>2, <2>4, <2>5 DEF CheckNewMails
  <2>7. collected \in [Topics -> [Objects -> Nat]]
    BY DEF AnnouncementTypeOK
  <2>8. PICK b : b = OnNewMailReceived(collected, o, m)
    OBVIOUS
  <2>9. b \in [Topics -> [Objects -> Nat]]
    BY <2>7, <2>8 DEF OnNewMailReceived, Topics
  <2>10. collected' \in [Topics -> [Objects -> Nat]]
    BY <2>6, <2>8, <2>9 DEF OnNewNotificationReceived, Topics
  <2>11. QED
    BY <1>5, <2>10, CollectedMore
<1>15. QED
  BY <1>13, <1>14

LEMMA Completing ==
  ASSUME RowsOK, AnnouncementTypeOK, NEW i \in DOMAIN rows, CompleteSkill(i)
  PROVE  RowsOK' /\ AnnouncementTypeOK'
<1>1. PICK o \in Objects : o = rows[i].object
  BY RowFacts
<1>2. /\ collected' = OnSkillTrainingCompleted(collected, o)
      /\ Fits(collected') /\ UNCHANGED <<rowVars, popups, trayed>>
  BY <1>1 DEF CompleteSkill
<1>3. collected \in [Topics -> [Objects -> Nat]]
  BY DEF AnnouncementTypeOK
<1>4. collected' \in [Topics -> [Objects -> Nat]]
  BY <1>2, <1>3 DEF OnSkillTrainingCompleted, Topics
<1>5. AnnouncementTypeOK'
  BY <1>2, <1>4, CollectedMore
<1>6. QED
  BY <1>2, <1>5 DEF RowsOK, rowVars

LEMMA MailComes ==
  ASSUME RowsOK, AnnouncementTypeOK, NEW c \in Chars, NEW b \in Boxes,
         ChangeInbox(c, b)
  PROVE  RowsOK' /\ AnnouncementTypeOK'
<1>1. PICK n \in 0 .. MaxUnread : inbox' = [inbox EXCEPT ![c][b] = n]
  BY DEF ChangeInbox
<1>2. UNCHANGED <<rows, announcementVars>>
  BY DEF ChangeInbox
<1>3. inbox' \in [Chars -> Counts]
  BY <1>1 DEF RowsOK, Counts
<1>4. QED
  BY <1>2, <1>3 DEF RowsOK, AnnouncementTypeOK, announcementVars

(* The names in the texts are those of the rows, or of deleted objects.    *)
LEMMA Squashing ==
  ASSUME RowsOK, AnnouncementTypeOK, Squash
  PROVE  RowsOK' /\ AnnouncementTypeOK' /\ UNCHANGED events
<1>1. PICK names \in [Dangling -> AnyName] :
        SquashNotifications([o \in Objects |->
          CASE o \in Used -> NameAt(o) [] o \in Dangling -> names[o]
            [] OTHER -> 0])
  BY DEF Squash
<1>2. UNCHANGED <<events, rowVars>>
  BY DEF Squash
<1>3. PICK nameOf : nameOf = [o \in Objects |->
        CASE o \in Used -> NameAt(o) [] o \in Dangling -> names[o] [] OTHER -> 0]
  OBVIOUS
<1>4. ASSUME NEW o \in Objects
      PROVE  nameOf[o] \in AnyName
  <2>1. CASE o \in Used
    <3>1. PICK i \in DOMAIN rows : rows[i].object = o
      BY <2>1 DEF Used
    <3>2. (CHOOSE j \in DOMAIN rows : rows[j].object = o) \in DOMAIN rows
      BY <3>1
    <3>3. NameAt(o) \in AnyName
      BY <3>2, RowFacts, ConstantSets DEF NameAt
    <3>4. Dangling \cap Used = {}
      BY DEF Dangling
    <3>5. nameOf[o] = NameAt(o)
      BY <1>3, <2>1, <3>4
    <3>6. QED
      BY <3>3, <3>5
  <2>2. CASE o \notin Used /\ o \in Dangling
    <3>1. nameOf[o] = names[o]
      BY <1>3, <2>2
    <3>2. QED
      BY <2>2, <3>1
  <2>3. CASE o \notin Used /\ o \notin Dangling
    <3>1. nameOf[o] = 0
      BY <1>3, <2>3
    <3>2. QED
      BY <3>1 DEF AnyName
  <2>4. QED
    BY <2>1, <2>2, <2>3
<1>5. PICK texts : texts = {<<k[1], nameOf[k[2]], collected[k[1]][k[2]]>> : k \in
                              {j \in Topics \X Objects : j[2] \in Announced(j[1])}}
  OBVIOUS
<1>6. /\ OnMessages(texts)
      /\ collected' = NothingCollected
  BY <1>1, <1>3, <1>5 DEF SquashNotifications
<1>7. texts \subseteq Texts
  <2>1. ASSUME NEW k \in Topics \X Objects, k[2] \in Announced(k[1])
        PROVE  <<k[1], nameOf[k[2]], collected[k[1]][k[2]]>> \in Texts
    <3>1. k[1] \in Topics /\ k[2] \in Objects
      OBVIOUS
    <3>2. /\ collected[k[1]][k[2]] \in 0 .. MaxCollected
          /\ collected[k[1]][k[2]] > 0
      BY <2>1, <3>1 DEF Announced, AnnouncementTypeOK
    <3>3. collected[k[1]][k[2]] \in 1 .. MaxCollected
      BY <3>2, NaturalBounds
    <3>4. QED
      BY <1>4, <3>1, <3>3 DEF Texts
  <2>2. QED
    BY <1>5, <2>1
<1>8. popups' \subseteq Texts /\ trayed' \subseteq Texts
  BY <1>6, <1>7 DEF OnMessages, MessagePopupNotification, Notify, MarkAsDisplayed,
                    AnnouncementTypeOK
<1>9. collected' \in [Topics -> [Objects -> 0 .. MaxCollected]]
  <2>1. 0 \in 0 .. MaxCollected
    BY NaturalBounds
  <2>2. QED
    BY <1>6, <2>1 DEF NothingCollected
<1>10. QED
  BY <1>2, <1>8, <1>9 DEF RowsOK, AnnouncementTypeOK, rowVars

LEMMA Restarting ==
  ASSUME RowsOK, AnnouncementTypeOK, Restart
  PROVE  RowsOK' /\ AnnouncementTypeOK'
<1>1. /\ rows' \in LoadCharacters(SavedRows) /\ inbox' = inbox
      /\ collected' = NothingCollected /\ popups' = {} /\ trayed' = {}
  BY DEF Restart, AnnouncementRestart
<1>2. PICK ids \in SUBSET Chars : SavedRows \in [ids -> Counts]
  BY SavedType
<1>3. /\ rows' \in Seq(Rows)
      /\ \A i, j \in DOMAIN rows' : rows'[i].object = rows'[j].object => i = j
  BY <1>1, <1>2, Loaded
<1>4. collected' \in [Topics -> [Objects -> 0 .. MaxCollected]]
  <2>1. 0 \in 0 .. MaxCollected
    BY NaturalBounds
  <2>2. QED
    BY <1>1, <2>1 DEF NothingCollected
<1>5. QED
  BY <1>1, <1>3, <1>4 DEF RowsOK, AnnouncementTypeOK

LEMMA RowsKept ==
  ASSUME RowsOK, AnnouncementTypeOK, UNCHANGED <<rowVars, announcementVars>>
  PROVE  RowsOK' /\ AnnouncementTypeOK'
BY DEF RowsOK, AnnouncementTypeOK, rowVars, announcementVars

-----------------------------------------------------------------------------
(* The parts together.                                                     *)

IInv == LoginInv /\ PictureInv /\ RowsOK /\ AnnouncementTypeOK /\ EventsOK

LEMMA LoginPart == Next => LoginNext \/ UNCHANGED loginVars
<1>1. Restart => LoginNext
  BY DEF Restart, LoginNext
<1>2. LoginEvents => LoginNext
  BY DEF LoginEvents, OfLogin, LoginNext
<1>3. LoginSteps => LoginNext
  BY DEF LoginSteps, OfLogin, LoginNext
<1>4. LoginGivesUp => LoginNext
  BY DEF LoginGivesUp, LoginTimedOut, OfLogin, LoginNext
<1>5. AddNewCharacter => LoginNext
  BY DEF AddNewCharacter, LoginNext
<1>6. ImageEvents \/ ImageSteps \/ ResponseGoesOn => UNCHANGED loginVars
  BY DEF ImageEvents, ImageSteps, ResponseGoesOn, OfImages
<1>7. \A c \in Chars : RemoveCharacter(c) => UNCHANGED loginVars
  BY DEF RemoveCharacter
<1>8. \A i \in DOMAIN rows : CompleteSkill(i) => UNCHANGED loginVars
  BY DEF CompleteSkill
<1>9. \A c \in Chars, b \in Boxes : ChangeInbox(c, b) => UNCHANGED loginVars
  BY DEF ChangeInbox
<1>10. \A c \in Chars, fetched \in BOOLEAN :
         CalmUpdate(c, fetched) \/ ForcedUpdate(c, fetched) => UNCHANGED loginVars
  BY DEF CalmUpdate, ForcedUpdate, UpdateCharacter, UpdateRow
<1>11. Squash => UNCHANGED loginVars
  BY DEF Squash
<1>12. SquashCrashes => LoginNext
  BY <1>1 DEF SquashCrashes
<1>13. QED
  BY <1>1, <1>2, <1>3, <1>4, <1>5, <1>6, <1>7, <1>8, <1>9, <1>10, <1>11, <1>12
     DEF Next, Events, Steps

LEMMA ImagePart == Next => ImageNext \/ UNCHANGED imageVars
<1>1. Restart => ImageNext
  BY DEF Restart, ImageNext
<1>2. LoginEvents \/ LoginSteps \/ LoginGivesUp => UNCHANGED imageVars
  BY DEF LoginEvents, LoginSteps, LoginGivesUp, OfLogin
<1>3. AddNewCharacter => UNCHANGED imageVars
  BY DEF AddNewCharacter
<1>4. ImageEvents => ImageNext
  BY DEF ImageEvents, OfImages, RemoveCachedImageForCharacter, ImageNext
<1>5. ImageSteps => ImageNext
  BY DEF ImageSteps, OfImages, RunPortrait, RunTypeIcon, RunCorpIcon, RunOf, ImageNext
<1>6. ResponseGoesOn => ImageNext
  BY DEF ResponseGoesOn, OfImages, DownloadTimedOut, ImageNext
<1>7. \A c \in Chars : RemoveCharacter(c) => ImageNext
  BY ConstantSets DEF RemoveCharacter, ImageNext
<1>8. \A i \in DOMAIN rows : CompleteSkill(i) => UNCHANGED imageVars
  BY DEF CompleteSkill
<1>9. \A c \in Chars, b \in Boxes : ChangeInbox(c, b) => UNCHANGED imageVars
  BY DEF ChangeInbox
<1>10. \A c \in Chars, fetched \in BOOLEAN :
         CalmUpdate(c, fetched) \/ ForcedUpdate(c, fetched) => UNCHANGED imageVars
  BY DEF CalmUpdate, ForcedUpdate, UpdateCharacter, UpdateRow
<1>11. Squash => UNCHANGED imageVars
  BY DEF Squash
<1>12. SquashCrashes => ImageNext
  BY <1>1 DEF SquashCrashes
<1>13. QED
  BY <1>1, <1>2, <1>3, <1>4, <1>5, <1>6, <1>7, <1>8, <1>9, <1>10, <1>11, <1>12
     DEF Next, Events, Steps

LEMMA Counting ==
  ASSUME EventsOK
  PROVE  /\ Event => EventsOK'
         /\ NoEvent => EventsOK'
         /\ UNCHANGED events => EventsOK'
BY NaturalBounds DEF EventsOK, Event, NoEvent

LEMMA RowsPart ==
  ASSUME IInv, Next
  PROVE  RowsOK' /\ AnnouncementTypeOK' /\ EventsOK'
<1>0. RowsOK /\ AnnouncementTypeOK /\ EventsOK /\ LoginTypeOK
  BY DEF IInv, LoginInv
<1>1. Restart => RowsOK' /\ AnnouncementTypeOK'
  BY <1>0, Restarting
<1>2. LoginEvents \/ LoginSteps \/ LoginGivesUp => RowsOK' /\ AnnouncementTypeOK'
  <2>1. LoginEvents \/ LoginSteps \/ LoginGivesUp =>
          UNCHANGED <<rowVars, announcementVars>>
    BY DEF LoginEvents, LoginSteps, LoginGivesUp, OfLogin
  <2>2. QED
    BY <1>0, <2>1, RowsKept
<1>3. ImageEvents \/ ImageSteps \/ ResponseGoesOn => RowsOK' /\ AnnouncementTypeOK'
  <2>1. ImageEvents \/ ImageSteps \/ ResponseGoesOn =>
          UNCHANGED <<rowVars, announcementVars>>
    BY DEF ImageEvents, ImageSteps, ResponseGoesOn, OfImages
  <2>2. QED
    BY <1>0, <2>1, RowsKept
<1>4. AddNewCharacter => RowsOK' /\ AnnouncementTypeOK'
  BY <1>0, Adding
<1>5. \A c \in Chars : RemoveCharacter(c) => RowsOK' /\ AnnouncementTypeOK'
  BY <1>0, Removing
<1>6. \A i \in DOMAIN rows : CompleteSkill(i) => RowsOK' /\ AnnouncementTypeOK'
  BY <1>0, Completing
<1>7. \A c \in Chars, b \in Boxes :
        ChangeInbox(c, b) => RowsOK' /\ AnnouncementTypeOK'
  BY <1>0, MailComes
<1>8. ASSUME NEW c \in Chars, NEW fetched \in BOOLEAN,
             CalmUpdate(c, fetched) \/ ForcedUpdate(c, fetched)
      PROVE  RowsOK' /\ AnnouncementTypeOK' /\ EventsOK'
  <2>1. UpdateCharacter(c, fetched) /\ (Event \/ NoEvent)
    BY <1>8 DEF CalmUpdate, ForcedUpdate
  <2>2. QED
    BY <1>0, <2>1, Updating, Counting
<1>9. Squash => RowsOK' /\ AnnouncementTypeOK' /\ EventsOK'
  BY <1>0, Squashing, Counting
<1>10. CASE Events /\ Event
  BY <1>0, <1>1, <1>2, <1>3, <1>5, <1>6, <1>7, <1>10, Counting DEF Events
<1>11. CASE Steps /\ NoEvent
  BY <1>0, <1>1, <1>2, <1>3, <1>4, <1>11, Counting DEF Steps, SquashCrashes
<1>12. CASE LoginGivesUp \/ ResponseGoesOn
  <2>1. NoEvent
    BY <1>12 DEF LoginGivesUp, ResponseGoesOn
  <2>2. QED
    BY <1>0, <1>2, <1>3, <1>12, <2>1, Counting
<1>13. QED
  BY <1>8, <1>9, <1>10, <1>11, <1>12 DEF Next

LEMMA IInvInit == Init => IInv
BY LoginStart, ImageStart, RowsStart DEF Init, IInv

LEMMA IInvStep == IInv /\ [Next]_vars => IInv' /\ LoginBegins
<1> SUFFICES ASSUME IInv, [Next]_vars PROVE IInv' /\ LoginBegins
  OBVIOUS
<1>1. CASE Next
  <2>1. LoginInv' /\ LoginBegins
    BY <1>1, LoginPart, LoginStep, LoginKept DEF IInv
  <2>2. PictureInv'
    BY <1>1, ImagePart, ImageStep, ImagesKept DEF IInv
  <2>3. QED
    BY <1>1, <2>1, <2>2, RowsPart DEF IInv
<1>2. CASE UNCHANGED vars
  <2>1. UNCHANGED <<rowVars, events, loginVars, imageVars, announcementVars>>
    BY <1>2 DEF vars
  <2>2. LoginInv' /\ LoginBegins
    BY <2>1, LoginKept DEF IInv
  <2>3. PictureInv'
    BY <2>1, ImagesKept DEF IInv
  <2>4. RowsOK' /\ AnnouncementTypeOK'
    BY <2>1, RowsKept DEF IInv
  <2>5. EventsOK'
    BY <2>1, Counting DEF IInv
  <2>6. QED
    BY <2>2, <2>3, <2>4, <2>5 DEF IInv
<1>3. QED
  BY <1>1, <1>2

(* The invariant of this module holds.                                     *)
THEOREM Invariance == Spec => []IInv
BY IInvInit, IInvStep, PTL DEF Spec

(* The variables have their types: however the logins, the rows, the       *)
(* images and the notifications interleave, no two rows share an object,   *)
(* a new row gets an address that is free, and every response about to     *)
(* store or to show a picture has one.                                     *)
THEOREM TypeCorrect == Spec => []TypeOK
<1>1. IInv => TypeOK
  BY PicturesAsStated DEF IInv, LoginInv, RowsOK, EventsOK, TypeOK
<1>2. QED
  BY <1>1, Invariance, PTL

(* Each cache holds the picture of its key, and a default picture is never *)
(* stored; the icons of types and of corporations share a table and are    *)
(* not confused, as their ids differ.                                      *)
THEOREM PicturesRight == Spec => []PicturesTrue
<1>1. IInv => PicturesTrue
  BY PicturesAsStated DEF IInv
<1>2. QED
  BY <1>1, Invariance, PTL

(* A portrait older than the last wish for a new one is in the cache only  *)
(* if its download was under way at that wish.                             *)
THEOREM WishesHeard == Spec => []OldPictureOnlyByOverlap
<1>1. IInv => OldPictureOnlyByOverlap
  BY PicturesAsStated DEF IInv
<1>2. QED
  BY <1>1, Invariance, PTL

(* Tokens are requested only for a code that came with the state of the    *)
(* last start of the callback server.                                      *)
THEOREM CurrentLogins == Spec => StaleLoginRefused
<1>1. IInv /\ [Next]_vars =>
        [Len(logins') > Len(logins) => logins'[Len(logins')].code.state = starts]_vars
  BY IInvStep DEF LoginBegins
<1>2. QED
  BY <1>1, Invariance, PTL DEF Spec, StaleLoginRefused
=============================================================================
