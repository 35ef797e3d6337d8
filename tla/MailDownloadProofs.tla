------------------------- MODULE MailDownloadProofs -------------------------
(***************************************************************************)
(* Proofs about MailDownload, for all mails, labels and bounds: its types, *)
(* the filtered list, the body behind every answer and the busy indicator. *)
(***************************************************************************)
EXTENDS MailDownload, SequenceTheorems, TLAPS

-----------------------------------------------------------------------------
(* Lists of mails.                                                         *)

LEMMA MailListType ==
  ASSUME NEW mails \in MailLists
  PROVE  /\ DOMAIN mails \in SUBSET Mails
         /\ \A m \in DOMAIN mails : mails[m] \in Bodies
         /\ mails = [m \in DOMAIN mails |-> mails[m]]
<1>1. PICK l \in SUBSET Mails : mails \in [l -> Bodies]
  BY DEF MailLists
<1>2. QED
  BY <1>1

LEMMA HeadersType ==
  ASSUME NEW listed \in SUBSET Mails
  PROVE  Headers(listed) \in MailLists /\ DOMAIN Headers(listed) = listed
<1>1. Headers(listed) \in [listed -> Bodies]
  BY DEF Headers, Bodies
<1>2. QED
  BY <1>1 DEF MailLists

(* A body that is set stays with its mail, and changes no other.           *)
LEMMA WithBodyType ==
  ASSUME NEW mails \in MailLists, NEW m \in Mails
  PROVE  /\ WithBody(mails, m) \in MailLists
         /\ DOMAIN WithBody(mails, m) = DOMAIN mails
         /\ m \in DOMAIN mails => HasBody(WithBody(mails, m), m)
         /\ \A x : HasBody(mails, x) => HasBody(WithBody(mails, m), x)
<1>1. CASE m \in DOMAIN mails
  <2>1. WithBody(mails, m) = [mails EXCEPT ![m] = m]
    BY <1>1 DEF WithBody
  <2>2. PICK l \in SUBSET Mails : mails \in [l -> Bodies]
    BY DEF MailLists
  <2>3. [mails EXCEPT ![m] = m] \in [l -> Bodies]
    BY <2>2 DEF Bodies
  <2>4. WithBody(mails, m) \in MailLists
    BY <2>1, <2>3 DEF MailLists
  <2>5. QED
    BY <1>1, <2>1, <2>2, <2>4 DEF HasBody
<1>2. CASE m \notin DOMAIN mails
  BY <1>2 DEF WithBody
<1>3. QED
  BY <1>1, <1>2

LEMMA FilteredType ==
  ASSUME NEW mails \in MailLists, NEW label
  PROVE  Filtered(mails, label) \in SUBSET Mails
  BY MailListType DEF Filtered

-----------------------------------------------------------------------------
(* The slots on the stack of the worker.                                   *)

LEMMA SlotKinds ==
  ASSUME NEW s \in Slots
  PROVE  /\ s.slot \in {"download", "refresh"}
         /\ s.slot = "download" => s \in [slot : {"download"}, mail : Mails,
                                          at : DownloadSteps, ok : BOOLEAN]
         /\ s.slot = "refresh" => s \in [slot : {"refresh"}, copy : MailLists,
                                         at : {"fetch", "done"}, updates : BOOLEAN]
  BY DEF Slots

Entries(s) == {s[i] : i \in 1..Len(s)}

(* A download that has found its mail is about to write, to answer or to   *)
(* end; when it is to answer, the row has the body or it is known lost.    *)
Kept(m) == HasBody(row, m) \/ m \in lost

SlotTrue(s) ==
  s.slot = "download" =>
    /\ s.ok => s.at \in {"write", "emit", "clear"}
    /\ s.ok /\ s.at = "emit" => Kept(s.mail)

SignalTrue(s) == s.signal = "mailBodyDownloaded" /\ s.ok => Kept(s.mail)

BodiesArrive ==
  /\ \A s \in Entries(stack) : SlotTrue(s)
  /\ \A s \in Entries(posted) : SignalTrue(s)

(* Without nesting there is one download at most.                          *)
OneDownload == ~nested => \A i, j \in Downloads : i = j

IInv ==
  TypeOK /\ ListMatchesFilter /\ BodiesArrive /\ OneDownload /\ IndicatorShowsDownload

LEMMA TopSlot ==
  ASSUME TypeOK, stack # <<>>
  PROVE  /\ Len(stack) \in Nat \ {0} /\ Len(stack) \in 1..Len(stack)
         /\ Top \in Slots /\ Top \in Entries(stack)
         /\ Top.slot = "download" <=> Len(stack) \in Downloads
         /\ Downloads = {i \in 1..Len(stack) : stack[i].slot = "download"}
<1>1. stack \in Seq(Slots) /\ Len(stack) \in Nat \ {0}
  BY EmptySeq DEF TypeOK
<1>2. QED
  BY <1>1, ElementOfSeq DEF Top, Entries, Downloads

(* A slot is delivered: it is on top of the stack.                         *)
LEMMA Pushed ==
  ASSUME TypeOK, NEW s \in Slots, stack' = Append(stack, s)
  PROVE  /\ stack' \in Seq(Slots)
         /\ Entries(stack') = Entries(stack) \cup {s}
         /\ Downloads' = Downloads \cup
                         (IF s.slot = "download" THEN {Len(stack) + 1} ELSE {})
<1>1. stack \in Seq(Slots) /\ Len(stack) \in Nat
  BY DEF TypeOK
<1>2. /\ stack' \in Seq(Slots) /\ Len(stack') = Len(stack) + 1
      /\ \A i \in 1..Len(stack) : stack'[i] = stack[i]
      /\ stack'[Len(stack) + 1] = s
  BY <1>1, AppendProperties
<1>3. /\ 1..Len(stack') = 1..Len(stack) \cup {Len(stack) + 1}
      /\ DOMAIN stack' = 1..Len(stack') /\ DOMAIN stack = 1..Len(stack)
  BY <1>1, <1>2
<1>4. Entries(stack') = Entries(stack) \cup {s}
  BY <1>2, <1>3 DEF Entries
<1>5. QED
  BY <1>2, <1>3, <1>4 DEF Downloads

(* The slot on top goes on.                                                *)
LEMMA MovedOn ==
  ASSUME TypeOK, stack # <<>>, NEW s \in Slots, s.slot = Top.slot, stack' = Moved(s)
  PROVE  /\ stack' \in Seq(Slots)
         /\ Entries(stack') \subseteq Entries(stack) \cup {s}
         /\ Downloads' = Downloads
<1>1. stack \in Seq(Slots) /\ Len(stack) \in 1..Len(stack)
  BY TopSlot DEF TypeOK
<1>2. /\ stack' \in Seq(Slots) /\ Len(stack') = Len(stack)
      /\ \A i \in 1..Len(stack) : stack'[i] = IF i = Len(stack) THEN s ELSE stack[i]
  BY <1>1, ExceptSeq DEF Moved
<1>3. DOMAIN stack' = 1..Len(stack) /\ DOMAIN stack = 1..Len(stack)
  BY <1>1, <1>2
<1>4. Entries(stack') \subseteq Entries(stack) \cup {s}
  BY <1>2 DEF Entries
<1>5. Downloads' = Downloads
  BY <1>1, <1>2, <1>3 DEF Downloads, Top
<1>6. QED
  BY <1>2, <1>4, <1>5

(* The slot on top returns.                                                *)
LEMMA PoppedOff ==
  ASSUME TypeOK, stack # <<>>, stack' = Popped
  PROVE  /\ stack' \in Seq(Slots)
         /\ Entries(stack') \subseteq Entries(stack)
         /\ Downloads' = Downloads \ {Len(stack)}
<1>1. stack \in Seq(Slots) /\ Len(stack) \in Nat \ {0} /\ Len(stack) - 1 \in Int
  BY TopSlot DEF TypeOK
<1>2. \A i \in 1..(Len(stack) - 1) : stack[i] \in Slots
  BY <1>1, ElementOfSeq
<1> DEFINE n == Len(stack) - 1
<1>3. n \in Nat /\ n - 1 + 1 = n /\ \A i \in 1..n : 1 + i - 1 = i
  BY <1>1
<1>4. /\ stack' \in Seq(Slots) /\ Len(stack') = n
      /\ \A i \in 1..n : stack'[i] = stack[i]
  <2> HIDE DEF n
  <2>1. stack' = SubSeq(stack, 1, n)
    BY DEF Popped, n
  <2>2. \A i \in 1..n : stack[i] \in Slots
    BY <1>2 DEF n
  <2>3. /\ stack' \in Seq(Slots)
        /\ Len(stack') = IF 1 <= n THEN n - 1 + 1 ELSE 0
        /\ \A i \in 1..n - 1 + 1 : stack'[i] = stack[1 + i - 1]
    BY <1>3, <2>1, <2>2, SubSeqProperties
  <2>4. Len(stack') = n
    BY <1>3, <2>3
  <2>5. \A i \in 1..n : stack'[i] = stack[i]
    BY <1>3, <2>3
  <2>6. QED
    BY <2>3, <2>4, <2>5
<1>5. /\ DOMAIN stack' = 1..(Len(stack) - 1) /\ DOMAIN stack = 1..Len(stack)
      /\ 1..(Len(stack) - 1) = 1..Len(stack) \ {Len(stack)}
  BY <1>1, <1>4
<1>6. Entries(stack') \subseteq Entries(stack)
  BY <1>4, <1>5 DEF Entries
<1>7. Downloads' = Downloads \ {Len(stack)}
  BY <1>4, <1>5 DEF Downloads
<1>8. QED
  BY <1>4, <1>6, <1>7

(* Signals are appended to the queue of the main thread and taken from its *)
(* head.                                                                   *)
LEMMA Posted ==
  ASSUME TypeOK, NEW s \in Signals, posted' = Append(posted, s)
  PROVE  posted' \in Seq(Signals) /\ Entries(posted') \subseteq Entries(posted) \cup {s}
<1>1. posted \in Seq(Signals) /\ Len(posted) \in Nat
  BY DEF TypeOK
<1>2. /\ posted' \in Seq(Signals) /\ Len(posted') = Len(posted) + 1
      /\ \A i \in 1..Len(posted) : posted'[i] = posted[i]
      /\ posted'[Len(posted) + 1] = s
  BY <1>1, AppendProperties
<1>3. 1..Len(posted') = 1..Len(posted) \cup {Len(posted) + 1}
  BY <1>1, <1>2
<1>4. QED
  BY <1>2, <1>3 DEF Entries

LEMMA Taken ==
  ASSUME TypeOK, posted # <<>>, posted' = Tail(posted)
  PROVE  /\ Head(posted) \in Signals /\ Head(posted) \in Entries(posted)
         /\ posted' \in Seq(Signals) /\ Entries(posted') \subseteq Entries(posted)
<1>1. posted \in Seq(Signals) /\ Len(posted) \in Nat \ {0} /\ Head(posted) = posted[1]
  BY EmptySeq DEF TypeOK
<1>2. /\ Head(posted) \in Signals /\ posted' \in Seq(Signals)
      /\ Len(posted') = Len(posted) - 1
      /\ \A i \in 1..Len(posted') : posted'[i] = posted[i + 1]
  BY <1>1, HeadTailProperties
<1>3. \A i \in 1..Len(posted') : i + 1 \in 1..Len(posted)
  BY <1>1, <1>2
<1>4. QED
  BY <1>1, <1>2, <1>3 DEF Entries

LEMMA AnswersAreSignals ==
  TypeOK => (AnswerFindsBody <=> \A s \in Entries(posted) : SignalTrue(s))
<1> SUFFICES ASSUME TypeOK
             PROVE  AnswerFindsBody <=> \A s \in Entries(posted) : SignalTrue(s)
  OBVIOUS
<1>1. DOMAIN posted = 1..Len(posted)
  BY DEF TypeOK
<1>2. QED
  BY <1>1 DEF AnswerFindsBody, Entries, SignalTrue, Kept


-----------------------------------------------------------------------------
(* What the steps have in common.                                          *)

LEMMA BodiesStay ==
  ASSUME BodiesArrive,
         \A m : Kept(m) => (Kept(m))',
         \A s \in Entries(stack') : s \in Entries(stack) \/ (SlotTrue(s))',
         \A s \in Entries(posted') : s \in Entries(posted) \/ (SignalTrue(s))'
  PROVE  BodiesArrive'
<1>1. ASSUME NEW s \in Entries(stack') PROVE (SlotTrue(s))'
  BY <1>1 DEF BodiesArrive, SlotTrue
<1>2. ASSUME NEW s \in Entries(posted') PROVE (SignalTrue(s))'
  BY <1>2 DEF BodiesArrive, SignalTrue
<1>3. QED
  BY <1>1, <1>2 DEF BodiesArrive

LEMMA SameDownloads ==
  ASSUME OneDownload, IndicatorShowsDownload, Downloads' = Downloads,
         UNCHANGED <<flag, nested, refused>>
  PROVE  OneDownload' /\ IndicatorShowsDownload'
  BY DEF OneDownload, IndicatorShowsDownload

(* The steps that touch neither the row and its list nor the stack.        *)
LEMMA QuietStep ==
  ASSUME IInv, UNCHANGED <<row, filter, view, stack, flag, lost, nested, refused, active>>,
         page' \in Pages, calls' \in Seq(Mails), posted' \in Seq(Signals),
         cache' \in SUBSET Mails, opens' \in 0..MaxOpens, refreshes' \in 0..MaxRefreshes,
         Entries(posted') \subseteq Entries(posted)
  PROVE  IInv'
<1>1. TypeOK' /\ ListMatchesFilter'
  BY DEF IInv, TypeOK, ListMatchesFilter
<1>2. BodiesArrive'
  BY BodiesStay DEF IInv, Kept
<1>3. OneDownload' /\ IndicatorShowsDownload'
  BY SameDownloads DEF IInv, Downloads
<1>4. QED
  BY <1>1, <1>2, <1>3 DEF IInv

(* The steps of a slot on top that goes on without answering: what it does *)
(* to the row loses no body.                                               *)
LEMMA SlotStep ==
  ASSUME IInv, stack # <<>>, NEW s \in Slots, s.slot = Top.slot, stack' = Moved(s),
         UNCHANGED <<filter, page, flag, active, calls, opens, refreshes, nested, refused>>,
         UNCHANGED view, row' \in MailLists, DOMAIN row' = DOMAIN row,
         cache' \in SUBSET Mails, lost' \in SUBSET Mails, posted' \in Seq(Signals),
         \A m : Kept(m) => (Kept(m))', (SlotTrue(s))',
         \A t \in Entries(posted') : t \in Entries(posted) \/ (SignalTrue(t))'
  PROVE  IInv'
<1>1. /\ stack' \in Seq(Slots) /\ Entries(stack') \subseteq Entries(stack) \cup {s}
      /\ Downloads' = Downloads
  BY MovedOn DEF IInv
<1>2. TypeOK'
  BY <1>1 DEF IInv, TypeOK
<1>3. ListMatchesFilter'
  BY DEF IInv, ListMatchesFilter, Filtered
<1>4. BodiesArrive'
  BY <1>1, BodiesStay DEF IInv
<1>5. OneDownload' /\ IndicatorShowsDownload'
  BY <1>1, SameDownloads DEF IInv
<1>6. QED
  BY <1>2, <1>3, <1>4, <1>5 DEF IInv

-----------------------------------------------------------------------------
(* The steps of the main thread.                                           *)

LEMMA FilterStep ==
  ASSUME IInv, NEW label \in Labels \cup {0}, FilterMailsForLabel(label)
  PROVE  IInv'
<1>1. /\ filter' = label /\ view' = Filtered(row, label)
      /\ UNCHANGED <<row, page, worker, posted, cache, opens, refreshes, history>>
  BY DEF FilterMailsForLabel
<1>2. TypeOK' /\ ListMatchesFilter'
  BY <1>1, FilteredType DEF IInv, TypeOK, ListMatchesFilter, worker, history
<1>3. BodiesArrive'
  BY <1>1, BodiesStay DEF IInv, Kept, worker, history
<1>4. OneDownload' /\ IndicatorShowsDownload'
  BY <1>1, SameDownloads DEF IInv, Downloads, worker, history
<1>5. QED
  BY <1>2, <1>3, <1>4 DEF IInv

LEMMA OpenStep ==
  ASSUME IInv, NEW m \in Mails, RequestOpenMail(m)
  PROVE  IInv'
<1>1. calls' \in Seq(Mails)
  BY AppendProperties DEF IInv, TypeOK, RequestOpenMail
<1>2. page' \in Pages
  BY DEF RequestOpenMail, Closed, Pages, Bodies
<1>3. opens' \in 0..MaxOpens
  BY BoundsAssumption DEF IInv, TypeOK, RequestOpenMail
<1>4. QED
  BY <1>1, <1>2, <1>3, QuietStep DEF IInv, TypeOK, RequestOpenMail, history

LEMMA CloseStep ==
  ASSUME IInv, CloseMail
  PROVE  IInv'
<1>1. page' \in Pages
  BY DEF CloseMail, Closed, Pages, Bodies
<1>2. QED
  BY <1>1, QuietStep DEF IInv, TypeOK, CloseMail, worker, history

LEMMA AnswerStep ==
  ASSUME IInv, OnMailBodyDownloaded
  PROVE  IInv'
<1>1. /\ Head(posted) \in Signals
      /\ posted' \in Seq(Signals) /\ Entries(posted') \subseteq Entries(posted)
  BY Taken DEF IInv, OnMailBodyDownloaded
<1> DEFINE m == Head(posted).mail
<1>2. m \in Mails
  BY <1>1 DEF OnMailBodyDownloaded, Signals
<1>3. page' \in Pages
  <2>1. m \in DOMAIN row => row[m] \in Bodies
    BY MailListType DEF IInv, TypeOK
  <2>2. \/ page' = page
        \/ m \in DOMAIN row /\ page' = [page EXCEPT !.mail = m, !.body = row[m]]
    BY DEF OnMailBodyDownloaded
  <2> HIDE DEF m
  <2>3. QED
    BY <1>2, <2>1, <2>2 DEF IInv, TypeOK, Pages
<1>4. QED
  BY <1>1, <1>3, QuietStep DEF IInv, TypeOK, OnMailBodyDownloaded, worker, history

LEMMA UpdateStep ==
  ASSUME IInv, UpdateCharacter
  PROVE  IInv'
<1>1. /\ Head(posted) \in Signals
      /\ posted' \in Seq(Signals) /\ Entries(posted') \subseteq Entries(posted)
  BY Taken DEF IInv, UpdateCharacter
<1> DEFINE copy == Head(posted).copy
<1>2. copy \in MailLists
  BY <1>1 DEF UpdateCharacter, Signals
<1>3. /\ row' = copy /\ view' = Filtered(copy, filter)
      /\ lost' = lost \cup {m \in Mails : HasBody(row, m) /\ ~HasBody(row', m)}
      /\ UNCHANGED <<filter, page, stack, flag, active, calls, cache, opens, refreshes,
                     nested, refused>>
  BY DEF UpdateCharacter, AssignMails, main, worker
<1> HIDE DEF copy
<1>4. TypeOK' /\ ListMatchesFilter'
  BY <1>1, <1>2, <1>3, FilteredType DEF IInv, TypeOK, ListMatchesFilter
<1>5. ASSUME NEW m, Kept(m) PROVE (Kept(m))'
  <2>1. HasBody(row, m) => m \in Mails
    BY MailListType DEF IInv, TypeOK, HasBody
  <2>2. QED
    BY <1>3, <1>5, <2>1 DEF Kept
<1>6. BodiesArrive'
  BY <1>1, <1>3, <1>5, BodiesStay DEF IInv
<1>7. OneDownload' /\ IndicatorShowsDownload'
  BY <1>3, SameDownloads DEF IInv, Downloads
<1>8. QED
  BY <1>4, <1>6, <1>7 DEF IInv

-----------------------------------------------------------------------------
(* The steps of a download.                                                *)

LEMMA RequestStep ==
  ASSUME IInv, NEW at \in {"token", "lookup"}, RequestCharacterMailBody(at)
  PROVE  IInv'
<1>1. Head(calls) \in Mails /\ calls' \in Seq(Mails)
  BY HeadTailProperties DEF IInv, TypeOK, RequestCharacterMailBody
<1>2. PICK s \in Slots : s = Download(Head(calls), at)
  BY <1>1 DEF Download, Slots, DownloadSteps
<1>3. s.slot = "download" /\ (SlotTrue(s))'
  BY <1>2 DEF SlotTrue, Download
<1>4. /\ flag' = TRUE /\ stack' = Append(stack, s)
      /\ nested' = (nested \/ Downloads # {})
      /\ UNCHANGED <<row, filter, view, page, active, posted, cache, opens, refreshes,
                     lost, refused>>
  BY <1>2 DEF RequestCharacterMailBody, main
<1>5. /\ stack' \in Seq(Slots) /\ Entries(stack') = Entries(stack) \cup {s}
      /\ Downloads' = Downloads \cup {Len(stack) + 1}
  BY <1>3, <1>4, Pushed DEF IInv
<1>6. TypeOK' /\ ListMatchesFilter'
  BY <1>1, <1>4, <1>5 DEF IInv, TypeOK, ListMatchesFilter
<1>7. BodiesArrive'
  BY <1>3, <1>4, <1>5, BodiesStay DEF IInv, Kept
<1>8. OneDownload' /\ IndicatorShowsDownload'
  BY <1>4, <1>5 DEF OneDownload, IndicatorShowsDownload
<1>9. QED
  BY <1>6, <1>7, <1>8 DEF IInv

(* A download on top of the stack, and where it may go.                    *)
DownloadSlots ==
  [slot : {"download"}, mail : Mails, at : DownloadSteps, ok : BOOLEAN]

LEMMA DownloadGoesOn ==
  ASSUME NEW r \in DownloadSlots, NEW to \in DownloadSteps
  PROVE  /\ [r EXCEPT !.at = to] \in Slots
         /\ [r EXCEPT !.at = to].slot = r.slot
         /\ [r EXCEPT !.at = to].mail = r.mail
         /\ [r EXCEPT !.at = to].at = to
         /\ [r EXCEPT !.at = to].ok = r.ok
         /\ [r EXCEPT !.at = to, !.ok = TRUE] \in Slots
         /\ [r EXCEPT !.at = to, !.ok = TRUE].slot = r.slot
         /\ [r EXCEPT !.at = to, !.ok = TRUE].at = to
  BY DEF DownloadSlots, Slots

LEMMA TopDownload ==
  ASSUME IInv, NEW from, At("download", from)
  PROVE  /\ stack # <<>> /\ Top.slot = "download" /\ Top.at = from
         /\ Top \in DownloadSlots /\ Top.mail \in Mails /\ Top.ok \in BOOLEAN
         /\ Len(stack) \in Downloads /\ SlotTrue(Top)
<1>1. stack # <<>> /\ Top.slot = "download" /\ Top.at = from
  BY DEF At
<1>2. Top \in Slots /\ Top \in Entries(stack) /\ Len(stack) \in Downloads
  BY <1>1, TopSlot DEF IInv
<1>3. Top \in DownloadSlots
  BY <1>1, <1>2, SlotKinds DEF DownloadSlots
<1>4. SlotTrue(Top)
  BY <1>2 DEF IInv, BodiesArrive
<1>5. QED
  BY <1>1, <1>2, <1>3, <1>4 DEF DownloadSlots

(* The steps before the body is there.                                     *)
LEMMA EarlyStep ==
  ASSUME IInv, TokenRefreshed \/ LookUpMail \/ MailAnswered \/ MailFailed \/ SaveMailBody
  PROVE  IInv'
<1>1. ASSUME NEW from \in {"token", "lookup", "ask"}, NEW to \in {"lookup", "resolve", "ask", "emit"},
             StepDownload(from, [Top EXCEPT !.at = to]), UNCHANGED cache
      PROVE  IInv'
  <2>1. At("download", from) /\ stack' = Moved([Top EXCEPT !.at = to])
    BY <1>1 DEF StepDownload
  <2>2. to \in DownloadSteps
    BY DEF DownloadSteps
  <2>3. PICK s \in Slots : s = [Top EXCEPT !.at = to] /\ s.slot = Top.slot /\ s.ok = Top.ok
    <3>1. Top \in DownloadSlots
      BY <2>1, TopDownload
    <3>2. /\ [Top EXCEPT !.at = to] \in Slots
          /\ [Top EXCEPT !.at = to].slot = Top.slot
          /\ [Top EXCEPT !.at = to].ok = Top.ok
      BY <2>2, <3>1, DownloadGoesOn
    <3>3. QED
      BY <3>2, Zenon
  <2>4. stack # <<>> /\ Top.slot = "download" /\ Top.ok \in BOOLEAN /\ SlotTrue(Top) /\ Top.at = from
    BY <2>1, TopDownload
  <2>5. ~Top.ok
    BY <2>4 DEF SlotTrue
  <2>6. (SlotTrue(s))'
    BY <2>3, <2>5 DEF SlotTrue
  <2>7. UNCHANGED <<row, view, main, flag, active, calls, posted, opens, refreshes, history, cache>>
    BY <1>1 DEF StepDownload
  <2>8. QED
    BY <2>1, <2>3, <2>4, <2>6, <2>7, SlotStep DEF IInv, TypeOK, main, history, Kept
<1>2. CASE SaveMailBody
  <2>1. At("download", "resolve") /\ stack' = Moved([Top EXCEPT !.at = "write", !.ok = TRUE])
    BY <1>2 DEF StepDownload, SaveMailBody
  <2>2. "write" \in DownloadSteps /\ stack # <<>> /\ Top.mail \in Mails
    BY <2>1, TopDownload DEF DownloadSteps
  <2>3. PICK s \in Slots : s = [Top EXCEPT !.at = "write", !.ok = TRUE] /\ s.slot = Top.slot
                           /\ s.at = "write"
    BY <2>1, <2>2, TopDownload, DownloadGoesOn
  <2>4. (SlotTrue(s))'
    BY <2>3 DEF SlotTrue
  <2>5. /\ UNCHANGED <<row, view, main, flag, active, calls, posted, opens, refreshes, history>>
        /\ cache' \in {cache, cache \cup {Top.mail}}
    BY <1>2 DEF SaveMailBody, StepDownload
  <2>6. cache' \in SUBSET Mails
    BY <2>2, <2>5 DEF IInv, TypeOK
  <2>7. QED
    BY <2>1, <2>2, <2>3, <2>4, <2>5, <2>6, SlotStep DEF IInv, TypeOK, main, history, Kept
<1>3. QED
  BY <1>1, <1>2 DEF TokenRefreshed, LookUpMail, MailAnswered, MailFailed

(* The body is put into the row, or the mail is not listed any more.       *)
LEMMA WriteStep ==
  ASSUME IInv, SetMailBody
  PROVE  IInv'
<1>1. /\ At("download", "write") /\ stack' = Moved([Top EXCEPT !.at = "emit"])
      /\ row' = WithBody(row, Top.mail)
      /\ lost' = IF Top.mail \in DOMAIN row THEN lost \ {Top.mail} ELSE lost \cup {Top.mail}
      /\ UNCHANGED <<view, main, flag, active, calls, posted, cache, opens, refreshes,
                     nested, refused>>
  BY DEF SetMailBody
<1>2. "emit" \in DownloadSteps /\ stack # <<>> /\ Top.mail \in Mails /\ Top \in DownloadSlots
  BY <1>1, TopDownload DEF DownloadSteps
<1>3. PICK s \in Slots : s = [Top EXCEPT !.at = "emit"] /\ s.slot = Top.slot
                         /\ s.at = "emit" /\ s.mail = Top.mail
  BY <1>2, DownloadGoesOn
<1>4. PICK m \in Mails : m = Top.mail
  BY <1>2
<1>5. /\ row' \in MailLists /\ DOMAIN row' = DOMAIN row
      /\ m \in DOMAIN row => HasBody(row', m)
      /\ \A x : HasBody(row, x) => HasBody(row', x)
  BY <1>1, <1>4, WithBodyType DEF IInv, TypeOK
<1>6. \A x : Kept(x) => (Kept(x))'
  BY <1>1, <1>4, <1>5 DEF Kept
<1>7. (Kept(m))'
  BY <1>1, <1>4, <1>5 DEF Kept
<1>8. (SlotTrue(s))'
  BY <1>3, <1>4, <1>7 DEF SlotTrue
<1>9. lost' \in SUBSET Mails
  BY <1>1, <1>2 DEF IInv, TypeOK
<1>10. QED
  BY <1>1, <1>2, <1>3, <1>5, <1>6, <1>8, <1>9, SlotStep DEF IInv, TypeOK, main

LEMMA EmitStep ==
  ASSUME IInv, EmitMailBodyDownloaded
  PROVE  IInv'
<1>1. /\ At("download", "emit") /\ stack' = Moved([Top EXCEPT !.at = "clear"])
      /\ posted' = Append(posted, Downloaded(Top.mail, Top.ok))
      /\ UNCHANGED <<row, view, main, flag, active, calls, cache, opens, refreshes, history>>
  BY DEF EmitMailBodyDownloaded
<1>2. /\ "clear" \in DownloadSteps /\ stack # <<>> /\ Top \in DownloadSlots
      /\ Top.mail \in Mails /\ Top.ok \in BOOLEAN /\ SlotTrue(Top)
      /\ Top.slot = "download" /\ Top.at = "emit"
  BY <1>1, TopDownload DEF DownloadSteps
<1>3. PICK s \in Slots : s = [Top EXCEPT !.at = "clear"] /\ s.slot = Top.slot /\ s.at = "clear"
  BY <1>2, DownloadGoesOn
<1>4. (SlotTrue(s))'
  BY <1>3 DEF SlotTrue
<1>5. PICK t \in Signals : t = Downloaded(Top.mail, Top.ok)
  BY <1>2 DEF Downloaded, Signals
<1>6. (SignalTrue(t))'
  <2>1. t.mail = Top.mail /\ (t.ok <=> Top.ok)
    BY <1>5 DEF Downloaded
  <2>2. Top.ok => Kept(Top.mail)
    BY <1>2 DEF SlotTrue
  <2>3. PICK m \in Mails : m = Top.mail
    BY <1>2
  <2>4. t.mail = m /\ (t.ok => Kept(m))
    BY <2>1, <2>2, <2>3
  <2>5. t.ok => (Kept(m))'
    BY <1>1, <2>4 DEF Kept, history
  <2>6. QED
    BY <2>4, <2>5 DEF SignalTrue
<1>7. posted' \in Seq(Signals) /\ Entries(posted') \subseteq Entries(posted) \cup {t}
  BY <1>1, <1>5, Posted DEF IInv
<1>8. \A x : Kept(x) => (Kept(x))'
  BY <1>1 DEF Kept, history
<1>9. QED
  BY <1>1, <1>2, <1>3, <1>4, <1>6, <1>7, <1>8, SlotStep DEF IInv, TypeOK, main, history

(* A slot returns: what is left on the stack was there before.             *)
LEMMA ReturnStep ==
  ASSUME IInv, stack # <<>>, stack' = Popped, posted' \in Seq(Signals),
         flag' \in BOOLEAN, active' \in BOOLEAN, refused' \in BOOLEAN,
         UNCHANGED <<row, view, main, calls, cache, opens, refreshes, lost, nested>>,
         \A t \in Entries(posted') : t \in Entries(posted) \/ (SignalTrue(t))',
         ~nested /\ ~refused' => ~refused /\ (flag' <=> Downloads \ {Len(stack)} # {})
  PROVE  IInv'
<1>1. /\ stack' \in Seq(Slots) /\ Entries(stack') \subseteq Entries(stack)
      /\ Downloads' = Downloads \ {Len(stack)}
  BY PoppedOff DEF IInv
<1>2. TypeOK' /\ ListMatchesFilter'
  BY <1>1 DEF IInv, TypeOK, ListMatchesFilter, main
<1>3. BodiesArrive'
  BY <1>1, BodiesStay DEF IInv, Kept
<1>4. OneDownload' /\ IndicatorShowsDownload'
  BY <1>1 DEF IInv, OneDownload, IndicatorShowsDownload
<1>5. QED
  BY <1>2, <1>3, <1>4 DEF IInv

LEMMA RefusedStep ==
  ASSUME IInv, TokenRefused
  PROVE  IInv'
<1>1. /\ stack # <<>> /\ stack' = Popped /\ refused' = TRUE
      /\ UNCHANGED <<row, view, main, flag, active, calls, posted, cache, opens, refreshes,
                     lost, nested>>
  BY DEF TokenRefused, At
<1>2. QED
  BY <1>1, ReturnStep DEF IInv, TypeOK

(* Without nesting the download that ends is the only one.                 *)
LEMMA ClearStep ==
  ASSUME IInv, ClearFlag
  PROVE  IInv'
<1>1. /\ At("download", "clear") /\ flag' = FALSE /\ stack' = Popped
      /\ UNCHANGED <<row, view, main, active, calls, posted, cache, opens, refreshes, history>>
  BY DEF ClearFlag
<1>2. stack # <<>> /\ Len(stack) \in Downloads
  BY <1>1, TopDownload
<1>3. ~nested => Downloads \ {Len(stack)} = {}
  BY <1>2 DEF IInv, OneDownload
<1>4. QED
  BY <1>1, <1>2, <1>3, ReturnStep DEF IInv, TypeOK, history

-----------------------------------------------------------------------------
(* The steps of refresh().                                                 *)

LEMMA BeginRefreshStep ==
  ASSUME IInv, BeginRefresh
  PROVE  IInv'
<1>1. PICK s \in Slots : s = Refresh(row)
  BY DEF Refresh, Slots, IInv, TypeOK
<1>2. s.slot = "refresh" /\ (SlotTrue(s))'
  BY <1>1 DEF SlotTrue, Refresh
<1>3. /\ stack' = Append(stack, s) /\ active' = TRUE
      /\ refreshes < MaxRefreshes /\ refreshes' = refreshes + 1
      /\ UNCHANGED <<row, view, main, flag, calls, posted, cache, opens, history>>
  BY <1>1 DEF BeginRefresh
<1>4. /\ stack' \in Seq(Slots) /\ Entries(stack') = Entries(stack) \cup {s}
      /\ Downloads' = Downloads
  BY <1>2, <1>3, Pushed DEF IInv
<1>5. refreshes' \in 0..MaxRefreshes
  BY <1>3, BoundsAssumption DEF IInv, TypeOK
<1>6. TypeOK' /\ ListMatchesFilter'
  BY <1>3, <1>4, <1>5 DEF IInv, TypeOK, ListMatchesFilter, main, history
<1>7. BodiesArrive'
  BY <1>2, <1>3, <1>4, BodiesStay DEF IInv, Kept, history
<1>8. OneDownload' /\ IndicatorShowsDownload'
  BY <1>3, <1>4, SameDownloads DEF IInv, history
<1>9. QED
  BY <1>6, <1>7, <1>8 DEF IInv

RefreshSlots ==
  [slot : {"refresh"}, copy : MailLists, at : {"fetch", "done"}, updates : BOOLEAN]

LEMMA RefreshGoesOn ==
  ASSUME NEW r \in RefreshSlots, NEW copy \in MailLists, NEW updates \in BOOLEAN
  PROVE  /\ [r EXCEPT !.copy = copy, !.at = "done", !.updates = updates] \in Slots
         /\ [r EXCEPT !.copy = copy, !.at = "done", !.updates = updates].slot = "refresh"
         /\ [r EXCEPT !.at = "done", !.updates = updates] \in Slots
         /\ [r EXCEPT !.at = "done", !.updates = updates].slot = "refresh"
  BY DEF RefreshSlots, Slots

LEMMA TopRefresh ==
  ASSUME IInv, NEW from, At("refresh", from)
  PROVE  stack # <<>> /\ Top.slot = "refresh" /\ Top \in RefreshSlots
<1>1. stack # <<>> /\ Top.slot = "refresh"
  BY DEF At
<1>2. QED
  BY <1>1, TopSlot, SlotKinds DEF IInv, RefreshSlots

LEMMA FetchStep ==
  ASSUME IInv, HeadersKept \/ \E listed \in SUBSET Mails : HeadersFetched(listed)
  PROVE  IInv'
<1>1. /\ At("refresh", "fetch")
      /\ UNCHANGED <<row, view, main, flag, active, calls, posted, cache, opens, refreshes,
                     history>>
  BY DEF HeadersKept, HeadersFetched
<1>2. stack # <<>> /\ Top.slot = "refresh" /\ Top \in RefreshSlots
  BY <1>1, TopRefresh
<1>3. PICK s \in Slots : s.slot = "refresh" /\ stack' = Moved(s)
  <2>1. ASSUME NEW listed \in SUBSET Mails, HeadersFetched(listed)
        PROVE  \E s \in Slots : s.slot = "refresh" /\ stack' = Moved(s)
    <3>1. Headers(listed) \in MailLists /\ TRUE \in BOOLEAN
      BY HeadersType
    <3>2. stack' = Moved([Top EXCEPT !.copy = Headers(listed), !.at = "done", !.updates = TRUE])
      BY <2>1 DEF HeadersFetched
    <3>3. QED
      BY <1>2, <3>1, <3>2, RefreshGoesOn, Zenon
  <2>2. ASSUME HeadersKept
        PROVE  \E s \in Slots : s.slot = "refresh" /\ stack' = Moved(s)
    <3>1. PICK updates \in BOOLEAN :
             stack' = Moved([Top EXCEPT !.at = "done", !.updates = updates])
      BY <2>2 DEF HeadersKept
    <3>2. Headers({}) \in MailLists
      BY HeadersType
    <3>3. QED
      BY <1>2, <3>1, <3>2, RefreshGoesOn, Zenon
  <2>3. QED
    BY <2>1, <2>2
<1>4. (SlotTrue(s))'
  BY <1>3 DEF SlotTrue
<1>5. QED
  BY <1>1, <1>2, <1>3, <1>4, SlotStep DEF IInv, TypeOK, main, history, Kept

LEMMA HandOverStep ==
  ASSUME IInv, HandOver
  PROVE  IInv'
<1>1. /\ At("refresh", "done") /\ stack' = Popped /\ active' = FALSE
      /\ posted' = IF Top.updates THEN Append(posted, Updated(Top.copy)) ELSE posted
      /\ UNCHANGED <<row, view, main, flag, calls, cache, opens, refreshes, history>>
  BY DEF HandOver
<1>2. stack # <<>> /\ Top.slot = "refresh" /\ Top \in RefreshSlots
  BY <1>1, TopRefresh
<1>3. PICK t \in Signals : t = Updated(Top.copy)
  BY <1>2 DEF Updated, Signals, RefreshSlots
<1>4. t.signal = "characterUpdated" /\ (SignalTrue(t))'
  BY <1>3 DEF Updated, SignalTrue
<1>5. posted' \in Seq(Signals) /\ Entries(posted') \subseteq Entries(posted) \cup {t}
  <2>1. CASE posted' = Append(posted, t)
    BY <2>1, Posted DEF IInv
  <2>2. CASE posted' = posted
    BY <2>2 DEF IInv, TypeOK
  <2>3. QED
    BY <1>1, <1>3, <2>1, <2>2
<1>6. Len(stack) \notin Downloads
  BY <1>2, TopSlot DEF IInv
<1>7. QED
  BY <1>1, <1>2, <1>4, <1>5, <1>6, ReturnStep
     DEF IInv, TypeOK, IndicatorShowsDownload, history

-----------------------------------------------------------------------------
LEMMA InitInvariant == Init => IInv
<1> SUFFICES ASSUME Init PROVE IInv
  OBVIOUS
<1>1. PICK l \in SUBSET Mails : row = Headers(l)
  BY DEF Init
<1>2. row \in MailLists /\ DOMAIN row = l
  BY <1>1, HeadersType
<1>3. <<>> \in Seq(Slots) /\ <<>> \in Seq(Mails) /\ <<>> \in Seq(Signals) /\ Len(<<>>) = 0
  BY EmptySeq
<1>4. Downloads = {} /\ Entries(stack) = {} /\ Entries(posted) = {}
  BY <1>3 DEF Init, Downloads, Entries
<1>5. TypeOK
  <2>1. Closed \in Pages
    BY DEF Closed, Pages, Bodies
  <2>2. 0 \in 0..MaxOpens /\ 0 \in 0..MaxRefreshes
    BY BoundsAssumption
  <2>3. QED
    BY <1>2, <1>3, <2>1, <2>2 DEF Init, TypeOK
<1>6. view = Filtered(row, filter)
  BY DEF Init, Filtered, Accepts
<1>7. QED
  BY <1>4, <1>5, <1>6
     DEF Init, IInv, ListMatchesFilter, BodiesArrive, OneDownload, IndicatorShowsDownload

LEMMA NextInvariant == IInv /\ [Next]_vars => IInv'
<1> SUFFICES ASSUME IInv, [Next]_vars PROVE IInv'
  OBVIOUS
<1>1. CASE UNCHANGED vars
  BY <1>1, QuietStep DEF IInv, TypeOK, vars, main, worker, history
<1>2. CASE MainNext
  BY <1>2, FilterStep, OpenStep, CloseStep, UpdateStep, AnswerStep DEF MainNext
<1>3. CASE DownloadNext
  BY <1>3, RequestStep, EarlyStep, RefusedStep, WriteStep, EmitStep, ClearStep DEF DownloadNext
<1>4. CASE RefreshNext
  BY <1>4, BeginRefreshStep, FetchStep, HandOverStep DEF RefreshNext
<1>5. QED
  BY <1>1, <1>2, <1>3, <1>4 DEF Next

LEMMA Invariant == Spec => []IInv
  BY InitInvariant, NextInvariant, PTL DEF Spec

(* The types of the rows, slots, signals and pages.                        *)
THEOREM TypeCorrect == Spec => []TypeOK
  BY Invariant, PTL DEF IInv

(* The list on the screen is the row under the chosen label, whichever of  *)
(* the user, a refresh and a download changed what.                        *)
THEOREM ListShown == Spec => []ListMatchesFilter
  BY Invariant, PTL DEF IInv

(* When the main thread is told of a downloaded mail, its body is in the   *)
(* row or known to be lost, however the slots of the worker were nested    *)
(* and however many copies were assigned in between.                       *)
THEOREM BodyThere == Spec => []AnswerFindsBody
<1>1. IInv => AnswerFindsBody
  BY AnswersAreSignals DEF IInv, BodiesArrive
<1>2. QED
  BY <1>1, Invariant, PTL

(* The busy indicator of the mail page is on exactly during a download,    *)
(* unless downloads were nested or a token was refused.                    *)
THEOREM IndicatorTrue == Spec => []IndicatorShowsDownload
  BY Invariant, PTL DEF IInv

=============================================================================
