---------------------------- MODULE MailDownload ----------------------------
(***************************************************************************)
(* Reading a mail.  The page of the main thread asks the worker for the    *)
(* body; the worker takes it from the cache or from ESI, writes it through *)
(* a raw pointer into the row of the model and tells the main thread,      *)
(* which looks the mail up in the row and shows it.  Meanwhile refreshes   *)
(* of the same worker copy the row, fetch the headers again, and have the  *)
(* copy assigned back.  Every request of the worker waits in a local event *)
(* loop that delivers the slots queued for the worker, so slots nest.      *)
(*                                                                         *)
(* One character; its removal is in RefreshCycle.                          *)
(***************************************************************************)
EXTENDS Naturals, Sequences, FiniteSets

CONSTANTS
  Mails,         \* ids of the mails of the character
  Labels,        \* ids of mail labels and mailing lists
  LabelsOf,      \* the labels of a mail and the mailing lists it was sent to
  MaxOpens,      \* bound: mails opened by the user
  MaxRefreshes,  \* bound: refreshes of the worker
  MaxPosted      \* bound: signals waiting for the main thread

ASSUME MailsAssumption ==
  /\ IsFiniteSet(Mails)
  /\ 0 \notin Mails \cup Labels
  /\ LabelsOf \in [Mails -> SUBSET Labels]
ASSUME BoundsAssumption == {MaxOpens, MaxRefreshes, MaxPosted} \subseteq Nat

(* The text of a mail is told by its id; NoBody is the empty string, the   *)
(* body of a mail of which only the header is known.                       *)
NoBody == 0
Bodies == Mails \cup {NoBody}

(* A value of CharacterMails: the listed mails with their bodies.          *)
MailLists == UNION {[l -> Bodies] : l \in SUBSET Mails}
Headers(listed) == [m \in listed |-> NoBody]

VARIABLES
  row,        \* m_mails of the character in the model
  filter,     \* m_filterMailLabelId of m_mailsModel, 0 without one
  view,       \* the mails that the list of the mail tab shows
  page,       \* the MailView on top of the page stack
  flag,       \* m_mailDownloadInProgress
  active,     \* m_active
  stack,      \* the slots of the worker, the innermost last
  calls,      \* doRequestMailBody signals queued for the worker
  posted,     \* signals queued for the main thread
  cache,      \* the mails in table mails_cache
  opens, refreshes,  \* counters for the bounds
  lost,              \* history: mails whose body is not in the row, see HasBody
  nested,            \* history: a download began inside another one
  refused            \* history: a download ended for want of a token

main == <<filter, page>>
worker == <<flag, active, stack, calls>>
history == <<lost, nested, refused>>
vars == <<row, view, main, worker, posted, cache, opens, refreshes, history>>

Closed == [open |-> 0, mail |-> 0, body |-> NoBody]
Pages == [open : Mails \cup {0}, mail : Mails \cup {0}, body : Bodies]

(* The places where a slot may be.  requestCharacterMailBody refreshes the *)
(* token, looks into the cache, asks ESI, resolves names, writes the body, *)
(* emits, and clears the flag; refresh() fetches and hands over.           *)
DownloadSteps ==
  {"token", "lookup", "ask", "resolve", "write", "emit", "clear"}
Download(m, at) == [slot |-> "download", mail |-> m, at |-> at, ok |-> FALSE]
Refresh(copy) ==
  [slot |-> "refresh", copy |-> copy, at |-> "fetch", updates |-> FALSE]
Slots ==
  [slot : {"download"}, mail : Mails, at : DownloadSteps, ok : BOOLEAN]
    \cup [slot : {"refresh"}, copy : MailLists, at : {"fetch", "done"},
          updates : BOOLEAN]

Updated(copy) == [signal |-> "characterUpdated", copy |-> copy]
Downloaded(m, ok) == [signal |-> "mailBodyDownloaded", mail |-> m, ok |-> ok]
Signals ==
  [signal : {"characterUpdated"}, copy : MailLists]
    \cup [signal : {"mailBodyDownloaded"}, mail : Mails, ok : BOOLEAN]

Top == stack[Len(stack)]
At(slot, place) == stack # <<>> /\ Top.slot = slot /\ Top.at = place
Moved(slot) == [stack EXCEPT ![Len(stack)] = slot]
Popped == SubSeq(stack, 1, Len(stack) - 1)
Downloads == {i \in DOMAIN stack : stack[i].slot = "download"}

(* The worker is in an event loop: its own, or that of a request.          *)
InEventLoop ==
  stack # <<>> => Top.at \in {"token", "ask", "resolve", "fetch"}

-----------------------------------------------------------------------------
(* The list of mails.                                                      *)

(* MailLabelFilteredMailsModel::filterAcceptsRow.                          *)
Accepts(label, m) == label = 0 \/ label \in LabelsOf[m]
Filtered(mails, label) == {m \in DOMAIN mails : Accepts(label, m)}

(* Character::filterMailsForLabel: a new filter is applied at once.        *)
FilterMailsForLabel(label) ==
  /\ filter' = label
  /\ view' = Filtered(row, label)
  /\ UNCHANGED <<row, page, worker, posted, cache, opens, refreshes, history>>

(* CharacterMails::operator= on the row: the model is reset, and the proxy *)
(* filters its new rows.                                                   *)
AssignMails(mails) ==
  /\ row' = mails
  /\ view' = Filtered(mails, filter)

(* CharacterMails::setMailBody: only a mail still listed gets the body.    *)
WithBody(mails, m) ==
  IF m \in DOMAIN mails THEN [mails EXCEPT ![m] = m] ELSE mails

(* The history "lost" has the mails whose body came when the mail was not  *)
(* listed, and those whose body an assigned copy has overwritten since.    *)
HasBody(mails, m) == m \in DOMAIN mails /\ mails[m] = m

-----------------------------------------------------------------------------
(* The main thread.                                                        *)

(* QmlEvemonApp::requestOpenMail, from the list; the page is pushed empty. *)
RequestOpenMail(m) ==
  /\ page.open = 0
  /\ m \in view
  /\ opens < MaxOpens
  /\ opens' = opens + 1
  /\ calls' = Append(calls, m)
  /\ page' = [Closed EXCEPT !.open = m]
  /\ UNCHANGED <<row, view, filter, flag, active, stack, posted, cache,
                 refreshes, history>>

(* nav_back.                                                               *)
CloseMail ==
  /\ page.open # 0
  /\ page' = Closed
  /\ UNCHANGED <<row, view, filter, worker, posted, cache, opens, refreshes,
                 history>>

(* Mutant: the rows are replaced without the signals of a model reset.     *)
UpdateWithoutReset ==
  /\ posted # <<>> /\ Head(posted).signal = "characterUpdated"
  /\ row' = Head(posted).copy
  /\ posted' = Tail(posted)
  /\ lost' = lost \cup Mails
  /\ UNCHANGED <<view, main, worker, cache, opens, refreshes, nested, refused>>

(* QmlEvemonApp::onMailBodyDownloaded and onMailReady of the page: the     *)
(* mail is looked up in the row, and an open page takes it over unless the *)
(* flag still says that a download is in progress.                         *)
OnMailBodyDownloaded ==
  /\ posted # <<>> /\ Head(posted).signal = "mailBodyDownloaded"
  /\ LET m == Head(posted).mail IN
     page' = IF m \in DOMAIN row /\ page.open # 0 /\ ~flag
             THEN [page EXCEPT !.mail = m, !.body = row[m]]
             ELSE page
  /\ posted' = Tail(posted)
  /\ UNCHANGED <<row, view, filter, worker, cache, opens, refreshes, history>>

(* CharacterModel::updateCharacter: operator= assigns the mails of the     *)
(* copy when they differ from those of the row, bodies included.           *)
UpdateCharacter ==
  /\ posted # <<>> /\ Head(posted).signal = "characterUpdated"
  /\ AssignMails(Head(posted).copy)
  /\ posted' = Tail(posted)
  /\ lost' = lost \cup {m \in Mails : HasBody(row, m) /\ ~HasBody(row', m)}
  /\ UNCHANGED <<main, worker, cache, opens, refreshes, nested, refused>>

-----------------------------------------------------------------------------
(* The worker: requestCharacterMailBody.                                   *)

(* Mutant: a download is not begun while the flag is on.                   *)
RequestUnlessBusy(at) ==
  /\ InEventLoop
  /\ calls # <<>>
  /\ ~flag
  /\ flag' = TRUE
  /\ stack' = Append(stack, Download(Head(calls), at))
  /\ calls' = Tail(calls)
  /\ UNCHANGED <<row, view, main, active, posted, cache, opens, refreshes,
                 history>>

(* Mutant: the flag is set only when the mail is not in the cache.         *)
RequestWithoutFlag(at) ==
  /\ InEventLoop
  /\ calls # <<>>
  /\ flag' = (Head(calls) \notin cache)
  /\ stack' = Append(stack, Download(Head(calls), at))
  /\ calls' = Tail(calls)
  /\ nested' = (nested \/ Downloads # {})
  /\ UNCHANGED <<row, view, main, active, posted, cache, opens, refreshes,
                 lost, refused>>

(* The slot is delivered: the flag is set, and the tokens are fine or must *)
(* be refreshed first, which is a request of its own.                      *)
RequestCharacterMailBody(at) ==
  /\ InEventLoop
  /\ calls # <<>>
  /\ flag' = TRUE
  /\ stack' = Append(stack, Download(Head(calls), at))
  /\ calls' = Tail(calls)
  /\ nested' = (nested \/ Downloads # {})
  /\ UNCHANGED <<row, view, main, active, posted, cache, opens, refreshes,
                 lost, refused>>

StepDownload(from, slot) ==
  /\ At("download", from)
  /\ stack' = Moved(slot)
  /\ UNCHANGED <<row, view, main, flag, active, calls, posted, opens,
                 refreshes, history>>

TokenRefreshed ==
  /\ StepDownload("token", [Top EXCEPT !.at = "lookup"])
  /\ UNCHANGED cache

(* check_refresh_token fails: the slot returns at once.                    *)
TokenRefused ==
  /\ At("download", "token")
  /\ stack' = Popped
  /\ refused' = TRUE
  /\ UNCHANGED <<row, view, main, flag, active, calls, posted, cache, opens,
                 refreshes, lost, nested>>

(* requestMailBody: a cached mail needs no request for it, only for names. *)
LookUpMail ==
  /\ StepDownload("lookup", [Top EXCEPT
       !.at = IF Top.mail \in cache THEN "resolve" ELSE "ask"])
  /\ UNCHANGED cache

MailAnswered ==
  /\ StepDownload("ask", [Top EXCEPT !.at = "resolve"])
  /\ UNCHANGED cache

(* No answer: requestMailBody returns a Mail without an id, whose body is  *)
(* not stored; the signal is emitted all the same.                         *)
MailFailed ==
  /\ StepDownload("ask", [Top EXCEPT !.at = "emit"])
  /\ UNCHANGED cache

(* The names are resolved, and the mail is in the cache unless the insert  *)
(* failed.                                                                 *)
SaveMailBody ==
  /\ StepDownload("resolve", [Top EXCEPT !.at = "write", !.ok = TRUE])
  /\ cache' \in {cache, cache \cup {Top.mail}}

(* Mutant: the body is left to the one who handles the signal.             *)
SetNothing ==
  /\ At("download", "write")
  /\ stack' = Moved([Top EXCEPT !.at = "emit"])
  /\ lost' = lost \ {Top.mail}
  /\ UNCHANGED <<row, view, main, flag, active, calls, posted, cache, opens,
                 refreshes, nested, refused>>

(* Character::setMailBody on the object of the model.                      *)
SetMailBody ==
  /\ At("download", "write")
  /\ row' = WithBody(row, Top.mail)
  /\ stack' = Moved([Top EXCEPT !.at = "emit"])
  /\ lost' = IF Top.mail \in DOMAIN row THEN lost \ {Top.mail}
                                         ELSE lost \cup {Top.mail}
  /\ UNCHANGED <<view, main, flag, active, calls, posted, cache, opens,
                 refreshes, nested, refused>>

(* Mutant: the signal carries the id of the Mail that was returned.        *)
EmitIdOfMail ==
  /\ At("download", "emit")
  /\ Len(posted) < MaxPosted
  /\ posted' =
       Append(posted, Downloaded(IF Top.ok THEN Top.mail ELSE 0, Top.ok))
  /\ stack' = Moved([Top EXCEPT !.at = "clear"])
  /\ UNCHANGED <<row, view, main, flag, active, calls, cache, opens, refreshes,
                 history>>

(* The signal is emitted before the flag is cleared.                       *)
EmitMailBodyDownloaded ==
  /\ At("download", "emit")
  /\ Len(posted) < MaxPosted
  /\ posted' = Append(posted, Downloaded(Top.mail, Top.ok))
  /\ stack' = Moved([Top EXCEPT !.at = "clear"])
  /\ UNCHANGED <<row, view, main, flag, active, calls, cache, opens, refreshes,
                 history>>

(* Mutant: the slot returns without clearing the flag of a failed download.*)
ClearWhenDownloaded ==
  /\ At("download", "clear")
  /\ flag' = ~Top.ok
  /\ stack' = Popped
  /\ UNCHANGED <<row, view, main, active, calls, posted, cache, opens,
                 refreshes, history>>

(* setMailDownloadInProgress(false), and the slot returns.                 *)
ClearFlag ==
  /\ At("download", "clear")
  /\ flag' = FALSE
  /\ stack' = Popped
  /\ UNCHANGED <<row, view, main, active, calls, posted, cache, opens,
                 refreshes, history>>

-----------------------------------------------------------------------------
(* The worker: refresh() as far as it concerns mails.                      *)

(* The timer fires in an event loop of the worker; a running refresh is    *)
(* not started again.  The row is copied.                                  *)
BeginRefresh ==
  /\ InEventLoop
  /\ ~active
  /\ refreshes < MaxRefreshes
  /\ refreshes' = refreshes + 1
  /\ active' = TRUE
  /\ stack' = Append(stack, Refresh(row))
  /\ UNCHANGED <<row, view, main, flag, calls, posted, cache, opens, history>>

(* refresh_mail gets the headers: the copy lists them, without bodies.     *)
HeadersFetched(listed) ==
  /\ At("refresh", "fetch")
  /\ stack' = Moved([Top EXCEPT !.copy = Headers(listed), !.at = "done",
                                !.updates = TRUE])
  /\ UNCHANGED <<row, view, main, flag, active, calls, posted, cache, opens,
                 refreshes, history>>

(* Mails are not due or the request fails; other sections may have written *)
(* something.                                                              *)
HeadersKept ==
  /\ At("refresh", "fetch")
  /\ \E updates \in BOOLEAN :
       stack' = Moved([Top EXCEPT !.at = "done", !.updates = updates])
  /\ UNCHANGED <<row, view, main, flag, active, calls, posted, cache, opens,
                 refreshes, history>>

(* The copy is handed over or deleted, and refresh() ends.                 *)
HandOver ==
  /\ At("refresh", "done")
  /\ Len(posted) < MaxPosted
  /\ posted' = IF Top.updates THEN Append(posted, Updated(Top.copy)) ELSE posted
  /\ stack' = Popped
  /\ active' = FALSE
  /\ UNCHANGED <<row, view, main, flag, calls, cache, opens, refreshes, history>>

-----------------------------------------------------------------------------
(* The start: headers of any mails from the last session, nothing cached.  *)
Init ==
  /\ row \in {Headers(l) : l \in SUBSET Mails}
  /\ filter = 0
  /\ view = DOMAIN row
  /\ page = Closed
  /\ flag = FALSE /\ active = FALSE /\ stack = <<>> /\ calls = <<>>
  /\ posted = <<>>
  /\ cache = {}
  /\ opens = 0 /\ refreshes = 0
  /\ lost = {} /\ nested = FALSE /\ refused = FALSE

MainNext ==
  \/ \E label \in Labels \cup {0} : FilterMailsForLabel(label)
  \/ \E m \in Mails : RequestOpenMail(m)
  \/ CloseMail
  \/ UpdateCharacter
  \/ OnMailBodyDownloaded

DownloadNext ==
  \/ \E at \in {"token", "lookup"} : RequestCharacterMailBody(at)
  \/ TokenRefreshed \/ TokenRefused
  \/ LookUpMail
  \/ MailAnswered \/ MailFailed
  \/ SaveMailBody
  \/ SetMailBody
  \/ EmitMailBodyDownloaded
  \/ ClearFlag

RefreshNext ==
  \/ BeginRefresh
  \/ \E listed \in SUBSET Mails : HeadersFetched(listed)
  \/ HeadersKept
  \/ HandOver

Next == MainNext \/ DownloadNext \/ RefreshNext

Spec == Init /\ [][Next]_vars

(* The event loop of the main thread delivers its signals; requests of the *)
(* worker end, by their timers at the latest, and code between them runs.  *)
FairSpec ==
  /\ Spec
  /\ WF_vars(UpdateCharacter)
  /\ WF_vars(OnMailBodyDownloaded)
  /\ WF_vars(DownloadNext)
  /\ WF_vars(HeadersKept \/ HandOver)

-----------------------------------------------------------------------------
(* Properties.                                                             *)

(* The variables have their types.                                         *)
TypeOK ==
  /\ row \in MailLists
  /\ filter \in Labels \cup {0}
  /\ view \in SUBSET Mails
  /\ page \in Pages
  /\ flag \in BOOLEAN /\ active \in BOOLEAN
  /\ stack \in Seq(Slots)
  /\ calls \in Seq(Mails)
  /\ posted \in Seq(Signals)
  /\ cache \in SUBSET Mails
  /\ opens \in 0 .. MaxOpens /\ refreshes \in 0 .. MaxRefreshes
  /\ lost \in SUBSET Mails
  /\ nested \in BOOLEAN /\ refused \in BOOLEAN

(* The list shows the mails of the row that have the chosen label, also    *)
(* after the row was replaced by a refresh: a click opens what is there.   *)
ListMatchesFilter == view = Filtered(row, filter)

(* When the main thread is told that a mail was downloaded, the body is in *)
(* the row before it looks, unless the mail was not listed when its body   *)
(* came or a copy assigned in between has overwritten it.                  *)
AnswerFindsBody ==
  \A i \in DOMAIN posted :
    LET s == posted[i] IN
    s.signal = "mailBodyDownloaded" /\ s.ok => HasBody(row, s.mail) \/ s.mail \in lost

(* Unless downloads nested in each other or a token was refused, the busy  *)
(* indicator of the page is on exactly while a download is under way.      *)
IndicatorShowsDownload ==
  ~nested /\ ~refused => (flag <=> Downloads # {})

(* A download that has got past its token turns the indicator off, however *)
(* ESI answers.                                                            *)
DownloadClearsIndicator ==
  (\E i \in Downloads : stack[i].at # "token") ~> ~flag

(* Every mail that was asked for is answered or given up, and the worker   *)
(* returns to its own event loop.                                          *)
RequestsAnswered == calls # <<>> ~> calls = <<>> /\ Downloads = {}
=============================================================================
