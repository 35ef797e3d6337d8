----------------------------- MODULE EsiRequest -----------------------------
(***************************************************************************)
(* The ESI requests of one thread: EveApi::send_general_esi_request.       *)
(*                                                                         *)
(* A slot (refresh(), requestCharacterMailBody()) that sends a request     *)
(* waits for it in a local event loop, which is told to quit when a timer  *)
(* of 15 s fires or when m_nam emits finished.  The loop delivers slots,   *)
(* so a request may be sent while others of the same EveApi wait further   *)
(* down the stack, and all of them are connected to the same m_nam.        *)
(***************************************************************************)
EXTENDS Naturals, Sequences

CONSTANTS
  MaxRetries,   \* m_max_retries
  MaxDepth,     \* bound: slots on the stack of the thread
  MaxRequests   \* bound: requests sent by one slot

ASSUME RetriesAssumption == MaxRetries \in Nat \ {0}
ASSUME BoundsAssumption  == MaxDepth \in Nat /\ MaxRequests \in Nat

(* How a reply may end: with a 2xx status, with another status and a body, *)
(* with a network error and no status or no body, with status 504.         *)
Results == {"ok", "bad", "error", "gateway"}
Retried == {"error", "gateway"}

VARIABLES
  stack,     \* the slots under way in the thread, the innermost last
  quitting,  \* QThread::quit was called
  last       \* history: how the request that ended last did so

vars == <<stack, quitting, last>>

Top == stack[Len(stack)]
SetTop(slot) == stack' = [stack EXCEPT ![Len(stack)] = slot]

(* A slot that is not in a request.                                        *)
InCode(sent) ==
  [at |-> "code", sent |-> sent, retriesLeft |-> 0, reply |-> "none",
   quit |-> FALSE, expired |-> FALSE, disturbed |-> FALSE]

(* An event loop of the thread delivers events: its own one or a local one. *)
Dispatching == stack # <<>> /\ Top.at = "waiting"

Init ==
  /\ stack = <<>>
  /\ quitting = FALSE
  /\ last = [status |-> "none", expired |-> FALSE, disturbed |-> FALSE]

-----------------------------------------------------------------------------
(* A queued slot is called.                                                *)
Call ==
  /\ Dispatching \/ (stack = <<>> /\ ~quitting)
  /\ Len(stack) < MaxDepth
  /\ stack' = Append(stack, InCode(0))
  /\ UNCHANGED <<quitting, last>>

Return ==
  /\ stack # <<>>
  /\ Top.at = "code"
  /\ stack' = SubSeq(stack, 1, Len(stack) - 1)
  /\ UNCHANGED <<quitting, last>>

(* Mutant: exec() does not forget a quit() of the attempt before.          *)
AttemptKeepingQuit(slot) ==
  [slot EXCEPT !.at = IF quitting THEN "woken" ELSE "waiting",
               !.retriesLeft = @ - 1, !.reply = "pending",
               !.expired = FALSE, !.disturbed = FALSE]

(* One turn of the loop for retries: the request goes out, the timer       *)
(* starts, and exec() waits, or returns at once after QThread::quit.       *)
(* "expired" and "disturbed" say what happened since: the timer fired, or  *)
(* the reply to another request on the stack finished.                     *)
Attempt(slot) ==
  [slot EXCEPT !.at = IF quitting THEN "woken" ELSE "waiting",
               !.retriesLeft = @ - 1, !.reply = "pending",
               !.quit = FALSE, !.expired = FALSE, !.disturbed = FALSE]

SendRequest ==
  /\ stack # <<>>
  /\ Top.at = "code"
  /\ Top.sent < MaxRequests
  /\ SetTop(Attempt([Top EXCEPT !.sent = @ + 1, !.retriesLeft = MaxRetries]))
  /\ UNCHANGED <<quitting, last>>

(* Mutant: only the innermost loop is told.                                *)
FinishedQuitsInnermost(d, result) ==
  [i \in 1..Len(stack) |->
     [stack[i] EXCEPT !.reply = IF i = d THEN result ELSE @,
                      !.quit  = IF i = Len(stack) THEN TRUE ELSE @,
                      !.disturbed = @ \/ i # d]]

(* m_nam emits finished for the reply of slot d; every local loop on the   *)
(* stack is connected to it.                                               *)
Finished(d, result) ==
  [i \in 1..Len(stack) |->
     [stack[i] EXCEPT !.reply = IF i = d THEN result ELSE @,
                      !.quit  = TRUE,
                      !.disturbed = @ \/ i # d]]

ReplyFinishes(d, result) ==
  /\ Dispatching
  /\ stack[d].reply = "pending"
  /\ stack' = Finished(d, result)
  /\ UNCHANGED <<quitting, last>>

(* Mutant: the timer of a request is not started.                          *)
NoTimer(d) == FALSE

TimerFires(d) ==
  /\ Dispatching
  /\ ~stack[d].expired
  /\ stack' = [stack EXCEPT ![d].expired = TRUE, ![d].quit = TRUE]
  /\ UNCHANGED <<quitting, last>>

(* The innermost exec() has returned.                                      *)
Woken == stack # <<>> /\ (Top.at = "woken" \/ (Top.at = "waiting" /\ Top.quit))

(* Mutant: the attempts are not counted.                                   *)
RetryForEver ==
  /\ Woken
  /\ Top.reply \in Retried
  /\ SetTop(Attempt(Top))
  /\ UNCHANGED <<quitting, last>>

Retry ==
  /\ Woken
  /\ Top.reply \in Retried
  /\ Top.retriesLeft > 0
  /\ SetTop(Attempt(Top))
  /\ UNCHANGED <<quitting, last>>

(* The request ends with a status for the caller.                          *)
EndRequest(status) ==
  /\ SetTop(InCode(Top.sent))
  /\ last' = [status |-> status, expired |-> Top.expired, disturbed |-> Top.disturbed]
  /\ UNCHANGED quitting

GiveUp ==
  /\ Woken
  /\ Top.reply \in Retried
  /\ Top.retriesLeft = 0
  /\ EndRequest("failed")

Answer ==
  /\ Woken
  /\ Top.reply \in Results \ Retried
  /\ EndRequest("http")

(* The reply is not finished: status -1, and no retry.                     *)
TimedOut ==
  /\ Woken
  /\ Top.reply = "pending"
  /\ EndRequest("timeout")

(* QThread::quit: every event loop of the thread is told to quit.          *)
QuitThread ==
  /\ ~quitting
  /\ quitting' = TRUE
  /\ stack' = [i \in 1..Len(stack) |->
                 IF stack[i].at = "waiting" THEN [stack[i] EXCEPT !.quit = TRUE]
                                            ELSE stack[i]]
  /\ UNCHANGED last

Ended == quitting /\ stack = <<>> /\ UNCHANGED vars

-----------------------------------------------------------------------------
Resume == Retry \/ GiveUp \/ Answer \/ TimedOut

Next ==
  \/ Call
  \/ Return
  \/ SendRequest
  \/ \E d \in 1..Len(stack), result \in Results : ReplyFinishes(d, result)
  \/ \E d \in 1..Len(stack) : TimerFires(d)
  \/ Resume
  \/ QuitThread
  \/ Ended

Spec == Init /\ [][Next]_vars

(* Slots go on; no reply is ever certain to come.  Every pass of a local   *)
(* loop looks at the timers and then at the exit flag, and delivers a      *)
(* finite number of posted events, so nested slots, however many come, do  *)
(* not keep a timer from firing nor exec() from returning: strong fairness *)
(* for each depth.                                                         *)
Fairness ==
  \A d \in 1..MaxDepth :
    /\ SF_vars(d <= Len(stack) /\ TimerFires(d))
    /\ WF_vars(d = Len(stack) /\ (Return \/ SendRequest))
    /\ SF_vars(d = Len(stack) /\ Resume)

FairSpec == Spec /\ Fairness

-----------------------------------------------------------------------------
Slot == [at : {"code", "waiting", "woken"}, sent : 0..MaxRequests,
         retriesLeft : 0..MaxRetries, reply : {"none", "pending"} \cup Results,
         quit : BOOLEAN, expired : BOOLEAN, disturbed : BOOLEAN]

(* Types of the variables; an attempt is only made while retries are left. *)
TypeOK ==
  /\ stack \in Seq(Slot)
  /\ quitting \in BOOLEAN
  /\ last \in [status : {"none", "http", "timeout", "failed"},
               expired : BOOLEAN, disturbed : BOOLEAN]

(* A local event loop that has something to wake up for is told to quit:   *)
(* its own reply, its own timer, the end of the thread.  Otherwise the     *)
(* worker would sleep for ever, and the main thread with it in wait().     *)
NoLostWakeup ==
  \A d \in 1..Len(stack) :
     /\ stack[d].at = "waiting"
     /\ stack[d].reply # "pending" \/ stack[d].expired \/ quitting
     => stack[d].quit

(* The slots below the innermost one are in their local event loops.       *)
OthersWait == \A d \in 1..(Len(stack) - 1) : stack[d].at = "waiting"

(* Status -1 without 15 s having passed is always the work of another      *)
(* request on the stack, or of the end of the thread; a retry starts with  *)
(* a full time span.                                                       *)
EarlyTimeoutNeedsNesting ==
  last.status = "timeout" => last.expired \/ last.disturbed \/ quitting

(* eve_api.h on reply_http_status: "returns HTTP status code, or -1 on     *)
(* timeout".                                                               *)
TimeoutMeansTime == last.status = "timeout" => last.expired \/ quitting

(* Every slot returns: no request waits for ever, whatever the network     *)
(* does and however requests are nested.                                   *)
SlotsReturn ==
  \A d \in 1..MaxDepth : Len(stack) >= d ~> Len(stack) < d

=============================================================================
