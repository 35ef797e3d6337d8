-------------------------- MODULE EsiRequestProofs --------------------------
(***************************************************************************)
(* Proofs about EsiRequest: no local event loop sleeps when it has         *)
(* something to wake up for, and what an early timeout is the sign of, for *)
(* any depth of nesting and any number of retries.                         *)
(***************************************************************************)
EXTENDS EsiRequest, SequenceTheorems, TLAPS

(* Invariant of one slot: its loop is told to quit exactly when there is a *)
(* reason to, and exec() returns at once only after QThread::quit.         *)
SlotOK(slot, ended) ==
  /\ slot.at = "waiting" /\ (slot.reply # "pending" \/ slot.expired \/ ended) => slot.quit
  /\ slot.at = "waiting" /\ slot.quit
       => slot.reply # "pending" \/ slot.expired \/ slot.disturbed \/ ended
  /\ slot.at = "woken" => ended

SlotsOK == \A d \in 1..Len(stack) : SlotOK(stack[d], quitting)

IInv == TypeOK /\ OthersWait /\ SlotsOK /\ EarlyTimeoutNeedsNesting

-----------------------------------------------------------------------------
LEMMA TopSlot ==
  ASSUME TypeOK, stack # <<>>
  PROVE  Len(stack) \in Nat \ {0} /\ Len(stack) \in 1..Len(stack) /\ Top \in Slot
<1>1. stack \in Seq(Slot)
  BY DEF TypeOK
<1>2. Len(stack) \in Nat /\ Len(stack) # 0
  BY <1>1, EmptySeq
<1>3. Len(stack) \in 1..Len(stack)
  BY <1>2
<1>4. QED
  BY <1>1, <1>2, <1>3, ElementOfSeq DEF Top

(* A slot that begins an attempt.                                          *)
LEMMA AttemptType ==
  ASSUME TypeOK, NEW slot \in Slot, slot.retriesLeft > 0
  PROVE  Attempt(slot) \in Slot /\ SlotOK(Attempt(slot), quitting)
<1>1. slot.retriesLeft - 1 \in 0..MaxRetries
  BY RetriesAssumption DEF Slot
<1>2. Attempt(slot) \in Slot
  BY <1>1 DEF Attempt, Slot
<1>3. /\ Attempt(slot).at = IF quitting THEN "woken" ELSE "waiting"
      /\ Attempt(slot).reply = "pending"
      /\ Attempt(slot).quit = FALSE
      /\ Attempt(slot).expired = FALSE
  BY DEF Attempt, Slot
<1>4. SlotOK(Attempt(slot), quitting)
  BY <1>3 DEF SlotOK, TypeOK
<1>5. QED
  BY <1>2, <1>4

LEMMA InCodeType ==
  ASSUME NEW sent \in 0..MaxRequests, NEW ended
  PROVE  InCode(sent) \in Slot /\ SlotOK(InCode(sent), ended)
  BY RetriesAssumption DEF InCode, Slot, SlotOK

(* The innermost slot is replaced by a sound one.                          *)
LEMMA ReplaceTop ==
  ASSUME IInv, stack # <<>>, NEW slot \in Slot, SlotOK(slot, quitting),
         SetTop(slot), UNCHANGED quitting
  PROVE  stack' \in Seq(Slot) /\ OthersWait' /\ SlotsOK'
<1>1. stack \in Seq(Slot) /\ Len(stack) \in 1..Len(stack)
  BY TopSlot DEF IInv, TypeOK
<1>2. /\ stack' \in Seq(Slot)
      /\ Len(stack') = Len(stack)
      /\ \A d \in 1..Len(stack) : stack'[d] = IF d = Len(stack) THEN slot ELSE stack[d]
  BY <1>1, ExceptSeq DEF SetTop
<1>3. OthersWait'
  BY <1>1, <1>2 DEF OthersWait, IInv
<1>4. SlotsOK'
  BY <1>2 DEF SlotsOK, IInv
<1>5. QED
  BY <1>2, <1>3, <1>4

(* While events are delivered all slots wait.                              *)
LEMMA AllWait ==
  ASSUME IInv, Dispatching
  PROVE  \A d \in 1..Len(stack) : stack[d].at = "waiting" /\ stack[d] \in Slot
<1>1. stack \in Seq(Slot) /\ Len(stack) \in Nat
  BY LenProperties DEF IInv, TypeOK
<1>2. \A d \in 1..Len(stack) : stack[d] \in Slot
  BY <1>1, ElementOfSeq
<1>3. ASSUME NEW d \in 1..Len(stack) PROVE stack[d].at = "waiting"
  <2>1. CASE d = Len(stack)
    BY <2>1 DEF Dispatching, Top
  <2>2. CASE d # Len(stack)
    BY <1>1, <2>2 DEF IInv, OthersWait
  <2>3. QED
    BY <2>1, <2>2
<1>4. QED
  BY <1>2, <1>3

(* All slots change in place.                                              *)
LEMMA MapSlots ==
  ASSUME IInv, stack' = [i \in 1..Len(stack) |-> stack'[i]],
         \A d \in 1..Len(stack) : stack'[d] \in Slot /\ SlotOK(stack'[d], quitting'),
         \A d \in 1..Len(stack) : stack'[d].at = stack[d].at
  PROVE  stack' \in Seq(Slot) /\ OthersWait' /\ SlotsOK'
<1>1. Len(stack) \in Nat
  BY LenProperties DEF IInv, TypeOK
<1>2. stack' \in [1..Len(stack) -> Slot]
  OBVIOUS
<1>3. stack' \in Seq(Slot) /\ Len(stack') = Len(stack)
  BY <1>1, <1>2, SeqDef
<1>4. OthersWait'
  BY <1>1, <1>3 DEF OthersWait, IInv
<1>5. SlotsOK'
  BY <1>3 DEF SlotsOK
<1>6. QED
  BY <1>3, <1>4, <1>5

-----------------------------------------------------------------------------
(* One lemma for each kind of step.                                        *)
LEMMA InitStep == Init => IInv
<1> SUFFICES ASSUME Init PROVE IInv
  OBVIOUS
<1>1. stack \in Seq(Slot) /\ Len(stack) = 0
  BY EmptySeq DEF Init
<1>2. TypeOK
  BY <1>1 DEF Init, TypeOK
<1>3. QED
  BY <1>1, <1>2 DEF Init, IInv, OthersWait, SlotsOK, EarlyTimeoutNeedsNesting

LEMMA CallStep == IInv /\ Call => IInv'
<1> SUFFICES ASSUME IInv, Call PROVE IInv'
  OBVIOUS
<1>1. InCode(0) \in Slot /\ SlotOK(InCode(0), quitting')
  BY BoundsAssumption, InCodeType
<1>2. stack \in Seq(Slot) /\ Len(stack) \in Nat
  BY LenProperties DEF IInv, TypeOK
<1>3. /\ stack' \in Seq(Slot)
      /\ Len(stack') = Len(stack) + 1
      /\ \A d \in 1..Len(stack) : stack'[d] = stack[d]
      /\ stack'[Len(stack) + 1] = InCode(0)
  BY <1>1, <1>2, AppendProperties DEF Call
<1>4. TypeOK'
  BY <1>3 DEF Call, IInv, TypeOK
<1>5. OthersWait'
  <2>1. CASE Dispatching
    BY <1>2, <1>3, <2>1, AllWait DEF OthersWait
  <2>2. CASE stack = <<>>
    <3>1. Len(stack) = 0
      BY <2>2
    <3>2. QED
      BY <1>3, <3>1 DEF OthersWait
  <2>3. QED
    BY <2>1, <2>2 DEF Call
<1>6. SlotsOK'
  <2>1. quitting' = quitting
    BY DEF Call
  <2>2. ASSUME NEW d \in 1..Len(stack') PROVE SlotOK(stack'[d], quitting')
    <3>1. CASE d = Len(stack) + 1
      BY <1>1, <1>3, <3>1
    <3>2. CASE d # Len(stack) + 1
      <4>1. d \in 1..Len(stack)
        BY <1>2, <1>3, <3>2
      <4>2. QED
        BY <1>3, <2>1, <4>1 DEF IInv, SlotsOK
    <3>3. QED
      BY <3>1, <3>2
  <2>3. QED
    BY <2>2 DEF SlotsOK
<1>7. EarlyTimeoutNeedsNesting'
  BY DEF Call, IInv, EarlyTimeoutNeedsNesting
<1>8. QED
  BY <1>4, <1>5, <1>6, <1>7 DEF IInv

LEMMA ReturnStep == IInv /\ Return => IInv'
<1> SUFFICES ASSUME IInv, Return PROVE IInv'
  OBVIOUS
<1>1. stack \in Seq(Slot) /\ Len(stack) \in Nat \ {0}
  BY TopSlot DEF IInv, TypeOK, Return
<1>2. /\ stack' \in Seq(Slot)
      /\ Len(stack') = Len(stack) - 1
      /\ \A d \in 1..(Len(stack) - 1) : stack'[d] = stack[d]
  <2>1. stack' = SubSeq(stack, 1, Len(stack) - 1)
    BY DEF Return
  <2> DEFINE n == Len(stack) - 1
  <2>2. n \in 0..Len(stack)
    BY <1>1
  <2> HIDE DEF n
  <2>3. stack' = SubSeq(stack, 1, n)
    BY <2>1 DEF n
  <2>4. /\ stack' \in Seq(Slot)
        /\ Len(stack') = IF 1 <= n THEN n - 1 + 1 ELSE 0
        /\ \A i \in 1..(n - 1 + 1) : stack'[i] = stack[1 + i - 1]
    BY <1>1, <2>2, <2>3, SubSeqProperties
  <2>5. /\ n \in Nat /\ n - 1 + 1 = n
        /\ \A i \in 1..n : 1 + i - 1 = i
        /\ (IF 1 <= n THEN n ELSE 0) = n
    BY <2>2
  <2>6. Len(stack') = n /\ \A i \in 1..n : stack'[i] = stack[i]
    BY <2>4, <2>5
  <2>7. QED
    BY <2>4, <2>6 DEF n
<1>3. TypeOK'
  BY <1>2 DEF Return, IInv, TypeOK
<1>4. OthersWait' /\ SlotsOK'
  BY <1>1, <1>2 DEF Return, IInv, OthersWait, SlotsOK
<1>5. EarlyTimeoutNeedsNesting'
  BY DEF Return, IInv, EarlyTimeoutNeedsNesting
<1>6. QED
  BY <1>3, <1>4, <1>5 DEF IInv

LEMMA SendRequestStep == IInv /\ SendRequest => IInv'
<1> SUFFICES ASSUME IInv, SendRequest PROVE IInv'
  OBVIOUS
<1> DEFINE slot == [Top EXCEPT !.sent = @ + 1, !.retriesLeft = MaxRetries]
<1>1. Top \in Slot
  BY TopSlot DEF IInv, SendRequest
<1>2. Top.sent + 1 \in 0..MaxRequests
  BY <1>1, BoundsAssumption DEF Slot, SendRequest
<1>3. slot \in Slot /\ slot.retriesLeft > 0
  <2>1. MaxRetries \in 0..MaxRetries /\ MaxRetries > 0
    BY RetriesAssumption
  <2>2. slot \in Slot
    BY <1>1, <1>2, <2>1 DEF Slot
  <2>3. slot.retriesLeft = MaxRetries
    BY <1>1 DEF Slot
  <2>4. QED
    BY <2>1, <2>2, <2>3
<1>4. Attempt(slot) \in Slot /\ SlotOK(Attempt(slot), quitting)
  BY <1>3, AttemptType DEF IInv
<1>5. stack' \in Seq(Slot) /\ OthersWait' /\ SlotsOK'
  <2>1. SetTop(Attempt(slot)) /\ UNCHANGED quitting /\ stack # <<>>
    BY DEF SendRequest
  <2> HIDE DEF slot
  <2>2. QED
    BY <1>4, <2>1, ReplaceTop
<1>6. QED
  BY <1>5 DEF SendRequest, IInv, TypeOK, EarlyTimeoutNeedsNesting

LEMMA RetryStep == IInv /\ Retry => IInv'
<1> SUFFICES ASSUME IInv, Retry PROVE IInv'
  OBVIOUS
<1>1. Top \in Slot /\ stack # <<>>
  BY TopSlot DEF IInv, Retry, Woken
<1>2. Attempt(Top) \in Slot /\ SlotOK(Attempt(Top), quitting)
  BY <1>1, AttemptType DEF IInv, Retry
<1>3. stack' \in Seq(Slot) /\ OthersWait' /\ SlotsOK'
  BY <1>1, <1>2, ReplaceTop DEF Retry
<1>4. QED
  BY <1>3 DEF Retry, IInv, TypeOK, EarlyTimeoutNeedsNesting

LEMMA EndStep ==
  ASSUME IInv, Woken, NEW status \in {"http", "timeout", "failed"}, EndRequest(status),
         status = "timeout" => Top.reply = "pending"
  PROVE  IInv'
<1>1. Top \in Slot /\ stack # <<>> /\ Len(stack) \in 1..Len(stack)
  BY TopSlot DEF IInv, Woken
<1>2. InCode(Top.sent) \in Slot /\ SlotOK(InCode(Top.sent), quitting)
  BY <1>1, InCodeType DEF Slot
<1>3. stack' \in Seq(Slot) /\ OthersWait' /\ SlotsOK'
  BY <1>1, <1>2, ReplaceTop DEF EndRequest
<1>4. TypeOK'
  BY <1>1, <1>3 DEF EndRequest, IInv, TypeOK, Slot
<1>5. EarlyTimeoutNeedsNesting'
  <2>1. SlotOK(Top, quitting)
    BY <1>1 DEF IInv, SlotsOK, Top
  <2>2. status = "timeout" => Top.expired \/ Top.disturbed \/ quitting
    BY <2>1 DEF SlotOK, Woken
  <2>3. QED
    BY <2>2 DEF EndRequest, EarlyTimeoutNeedsNesting
<1>6. QED
  BY <1>3, <1>4, <1>5 DEF IInv

LEMMA ReplyStep ==
  ASSUME IInv, NEW d \in 1..Len(stack), NEW result \in Results, ReplyFinishes(d, result)
  PROVE  IInv'
<1> DEFINE f(i) == [stack[i] EXCEPT !.reply = IF i = d THEN result ELSE stack[i].reply,
                                    !.quit  = TRUE,
                                    !.disturbed = stack[i].disturbed \/ i # d]
<1>1. stack' = [i \in 1..Len(stack) |-> f(i)]
  BY DEF ReplyFinishes, Finished
<1>2. \A i \in 1..Len(stack) : stack[i].at = "waiting" /\ stack[i] \in Slot
  BY AllWait DEF ReplyFinishes
<1>3. ASSUME NEW i \in 1..Len(stack)
      PROVE  f(i) \in Slot /\ SlotOK(f(i), quitting') /\ f(i).at = stack[i].at
  <2>1. stack[i] \in Slot /\ stack[i].at = "waiting"
    BY <1>2
  <2>2. f(i) \in Slot /\ f(i).at = stack[i].at
    BY <2>1 DEF Slot
  <2>3. /\ f(i).quit = TRUE
        /\ f(i).disturbed = (stack[i].disturbed \/ i # d)
        /\ f(i).reply = IF i = d THEN result ELSE stack[i].reply
    BY <2>1 DEF Slot
  <2>4. f(i).reply # "pending" \/ f(i).disturbed
    BY <2>3 DEF Results
  <2>5. SlotOK(f(i), quitting')
    BY <2>1, <2>2, <2>3, <2>4 DEF SlotOK
  <2>6. QED
    BY <2>2, <2>5
<1>4. stack' \in Seq(Slot) /\ OthersWait' /\ SlotsOK'
  <2> HIDE DEF f
  <2>1. \A i \in 1..Len(stack) : stack'[i] = f(i)
    BY <1>1
  <2>2. stack' = [i \in 1..Len(stack) |-> stack'[i]]
    BY <1>1
  <2>3. QED
    BY <1>3, <2>1, <2>2, MapSlots
<1>5. QED
  BY <1>4 DEF ReplyFinishes, IInv, TypeOK, EarlyTimeoutNeedsNesting

LEMMA TimerStep ==
  ASSUME IInv, NEW d \in 1..Len(stack), TimerFires(d)
  PROVE  IInv'
<1> DEFINE f(i) == IF i = d THEN [stack[i] EXCEPT !.expired = TRUE, !.quit = TRUE] ELSE stack[i]
<1>1. \A i \in 1..Len(stack) : stack[i].at = "waiting" /\ stack[i] \in Slot
  BY AllWait DEF TimerFires
<1>2. stack' = [i \in 1..Len(stack) |-> f(i)]
  <2>1. stack \in [1..Len(stack) -> Slot]
    BY LenProperties DEF IInv, TypeOK
  <2>2. QED
    BY <2>1 DEF TimerFires
<1>3. ASSUME NEW i \in 1..Len(stack)
      PROVE  f(i) \in Slot /\ SlotOK(f(i), quitting') /\ f(i).at = stack[i].at
  <2>1. quitting' = quitting
    BY DEF TimerFires
  <2>2. CASE i # d
    BY <1>1, <2>1, <2>2 DEF IInv, SlotsOK
  <2>3. CASE i = d
    <3>1. f(i) \in Slot /\ f(i).at = stack[i].at /\ f(i).quit = TRUE /\ f(i).expired = TRUE
      BY <1>1, <2>3 DEF Slot
    <3>2. SlotOK(f(i), quitting')
      BY <1>1, <3>1 DEF SlotOK
    <3>3. QED
      BY <3>1, <3>2
  <2>4. QED
    BY <2>2, <2>3
<1>4. stack' \in Seq(Slot) /\ OthersWait' /\ SlotsOK'
  <2> HIDE DEF f
  <2>1. \A i \in 1..Len(stack) : stack'[i] = f(i)
    BY <1>2
  <2>2. stack' = [i \in 1..Len(stack) |-> stack'[i]]
    BY <1>2
  <2>3. QED
    BY <1>3, <2>1, <2>2, MapSlots
<1>5. QED
  BY <1>4 DEF TimerFires, IInv, TypeOK, EarlyTimeoutNeedsNesting

LEMMA QuitStep == IInv /\ QuitThread => IInv'
<1> SUFFICES ASSUME IInv, QuitThread PROVE IInv'
  OBVIOUS
<1> DEFINE f(i) == IF stack[i].at = "waiting" THEN [stack[i] EXCEPT !.quit = TRUE] ELSE stack[i]
<1>1. stack' = [i \in 1..Len(stack) |-> f(i)] /\ quitting' = TRUE
  BY DEF QuitThread
<1>2. \A i \in 1..Len(stack) : stack[i] \in Slot
  BY LenProperties, ElementOfSeq DEF IInv, TypeOK
<1>3. ASSUME NEW i \in 1..Len(stack)
      PROVE  f(i) \in Slot /\ SlotOK(f(i), quitting') /\ f(i).at = stack[i].at
  <2>1. f(i) \in Slot /\ f(i).at = stack[i].at /\ (stack[i].at = "waiting" => f(i).quit = TRUE)
    BY <1>2 DEF Slot
  <2>2. SlotOK(f(i), quitting')
    BY <1>1, <2>1 DEF SlotOK
  <2>3. QED
    BY <2>1, <2>2
<1>4. stack' \in Seq(Slot) /\ OthersWait' /\ SlotsOK'
  <2> HIDE DEF f
  <2>1. \A i \in 1..Len(stack) : stack'[i] = f(i)
    BY <1>1
  <2>2. stack' = [i \in 1..Len(stack) |-> stack'[i]]
    BY <1>1
  <2>3. QED
    BY <1>3, <2>1, <2>2, MapSlots
<1>5. QED
  BY <1>4 DEF QuitThread, IInv, TypeOK, EarlyTimeoutNeedsNesting

LEMMA StutterStep == IInv /\ UNCHANGED vars => IInv'
  BY DEF vars, IInv, TypeOK, OthersWait, SlotsOK, EarlyTimeoutNeedsNesting

LEMMA NextStep == IInv /\ [Next]_vars => IInv'
<1> SUFFICES ASSUME IInv, [Next]_vars PROVE IInv'
  OBVIOUS
<1>1. CASE Call
  BY <1>1, CallStep
<1>2. CASE Return
  BY <1>2, ReturnStep
<1>3. CASE SendRequest
  BY <1>3, SendRequestStep
<1>4. CASE \E d \in 1..Len(stack), result \in Results : ReplyFinishes(d, result)
  BY <1>4, ReplyStep
<1>5. CASE \E d \in 1..Len(stack) : TimerFires(d)
  BY <1>5, TimerStep
<1>6. CASE Resume
  <2>1. CASE Retry
    BY <2>1, RetryStep
  <2>2. CASE GiveUp
    BY <2>2, EndStep DEF GiveUp
  <2>3. CASE Answer
    BY <2>3, EndStep DEF Answer
  <2>4. CASE TimedOut
    BY <2>4, EndStep DEF TimedOut
  <2>5. QED
    BY <1>6, <2>1, <2>2, <2>3, <2>4 DEF Resume
<1>7. CASE QuitThread
  BY <1>7, QuitStep
<1>8. CASE Ended \/ UNCHANGED vars
  BY <1>8, StutterStep DEF Ended
<1>9. QED
  BY <1>1, <1>2, <1>3, <1>4, <1>5, <1>6, <1>7, <1>8 DEF Next

LEMMA EsiInvariant == Spec => []IInv
  BY InitStep, NextStep, PTL DEF Spec

(* The variables keep their types; in particular send_general_esi_request  *)
(* makes at most m_max_retries attempts.                                   *)
THEOREM TypeCorrect == Spec => []TypeOK
<1>1. IInv => TypeOK
  BY DEF IInv
<1>2. QED
  BY <1>1, EsiInvariant, PTL

(* No event loop of the worker sleeps when it has something to wake up     *)
(* for, however deep the slots are nested (the connections to m_nam and to *)
(* the timer at the head of send_general_esi_request).                     *)
THEOREM NoSleeper == Spec => []NoLostWakeup
<1>1. IInv => NoLostWakeup
  BY DEF IInv, SlotsOK, SlotOK, NoLostWakeup
<1>2. QED
  BY <1>1, EsiInvariant, PTL

(* A status of -1 before the 15 s are over means that another request on   *)
(* the stack has finished, or that the thread was told to quit.            *)
THEOREM EarlyTimeouts == Spec => []EarlyTimeoutNeedsNesting
<1>1. IInv => EarlyTimeoutNeedsNesting
  BY DEF IInv
<1>2. QED
  BY <1>1, EsiInvariant, PTL

=============================================================================
