------------------------- MODULE OrderAnswer_proofs -------------------------
(***************************************************************************)
(* Theorems about pending_order_request_, the word through which the       *)
(* callback thread lets a waiting call of Zorro's thread go on, and about  *)
(* what doSendOrder answers when it goes on.                               *)
(*                                                                         *)
(* As long as no call gives up and the engine takes what it is given, the  *)
(* word is 0 unless a call waits (OnlyWaiting). Then the callback thread   *)
(* may look at it and store 0 in two steps: the call it has seen waiting   *)
(* cannot have gone (EndsPending), and the end of a replay meets the       *)
(* retrieveOrder that asked for it (OneReplay). And no callback stores 0   *)
(* for an order that login restored (NobodyEnds), so a cancel of it waits  *)
(* for ever.                                                               *)
(*                                                                         *)
(* If no fault happens at all, an order that doSendOrder disowns (a null   *)
(* pointer, or an id that means nothing was sent) is gone from the         *)
(* exchange and has no fill. The hard case is the order without a number:  *)
(* its wait was ended by a callback although no line update came. The      *)
(* first callback that tells of an open order is a line update (Unheard),  *)
(* and so the callback that ended the wait told that the order is gone.    *)
(***************************************************************************)
EXTENDS OrderTruth_proofs

-----------------------------------------------------------------------------
(* The word. *)


OnlyWaiting ==
    /\ main.pc \notin {"timeout", "clear"}
    /\ main.then = "idle"
    /\ main.pc \notin Waiting => pending = 0

EndsPending ==
    /\ cb.pc = "test" => cb.id > IntMax
    /\ cb.pc = "reset" => pending = cb.id /\ pending # 0

(* The end of a replay is the only one, and is what the word waits for.    *)
OneReplay ==
    \A i \in 1..Len(inbox) : inbox[i].kind = "ReplayEnd" =>
        /\ main.pc = "retrieving" /\ pending = inbox[i].num
        /\ cb.pc # "reset"
        /\ \A j \in 1..Len(inbox) : inbox[j].kind = "ReplayEnd" => j = i

Handshake == OnlyWaiting /\ EndsPending /\ OneReplay

LEMMA SmallNums == \A n \in Nums : n # 0 /\ n \in Nat /\ n <= IntMax
BY NumAssumption, SlotAssumption DEF Nums, OwnNums, OneNum

(* Zorro's thread moves while the word is 0, and no callback comes or goes. *)
LEMMA HandshakeMove ==
    ASSUME Inv, Handshake, pending = 0, UNCHANGED <<cb, inbox>>, OnlyWaiting'
    PROVE  Handshake'
<1>1. cb.pc # "reset"
  BY DEF Handshake, EndsPending
<1>2. \A i \in 1..Len(inbox) : inbox[i].num \in Nums
  BY QueueFacts DEF Inv, TypeOK, EngineTypeOK
<1>3. \A i \in 1..Len(inbox) : inbox[i].kind # "ReplayEnd"
  BY <1>2, SmallNums DEF Handshake, OneReplay
<1> QED
  BY <1>1, <1>3 DEF Handshake, EndsPending, OneReplay

LEMMA HandshakeOfMain ==
    ASSUME Inv, Handshake, Undisturbed, Call \/ Proceed \/ GiveUp
    PROVE  Handshake'
<1>0. /\ main.pc \notin {"timeout", "clear"} /\ main.then = "idle"
      /\ main.pc \notin Waiting => pending = 0
      /\ main \in MainStates
  BY DEF Handshake, OnlyWaiting, Inv, TypeOK
<1>1. ~EngineMayFail /\ "Abort" \notin Faults /\ "Timeout" \notin Faults
  BY DEF Undisturbed, EngineMayFail
<1>2. Idle.pc = "idle" /\ Idle.then = "idle"
  BY DEF Idle
<1>3. Return => main' = Idle
  BY <1>0 DEF Return
<1>4. CASE \E n \in Nums : OpenOrderReplay(n)
  BY <1>4 DEF OpenOrderReplay, Handshake, OnlyWaiting, EndsPending, OneReplay
<1>5. CASE \/ Login \/ FinishSend \/ CancelNothing \/ FinishCancel \/ FinishRetrieve
  <2>1. pending = 0 /\ UNCHANGED <<pending, cb, inbox>> /\ main' = Idle
    BY <1>0, <1>3, <1>5 DEF Login, FinishSend, CancelNothing, FinishCancel, FinishRetrieve,
                            Retrieved, Waiting
  <2> QED
    BY <1>2, <2>1, HandshakeMove DEF OnlyWaiting
<1>6. ASSUME NEW pc \in Waiting \cup {"cancel"}, main'.pc = pc, main'.then = "idle",
             main.pc \notin Waiting, UNCHANGED <<cb, inbox>>, pc = "cancel" => pending' = pending
      PROVE  Handshake'
  <2>1. pending = 0 /\ OnlyWaiting'
    BY <1>0, <1>6 DEF OnlyWaiting, Waiting
  <2> QED
    BY <1>6, <2>1, HandshakeMove
<1>7. CASE \E r \in Requests : SendOrder(r)
  <2>1. main'.pc = "buying" /\ main'.then = "idle" /\ main.pc \notin Waiting
        /\ UNCHANGED <<cb, inbox>>
    BY <1>1, <1>7 DEF SendOrder, mainIdle, Waiting, Idle
  <2> QED
    BY <1>6, <2>1 DEF Waiting
<1>8. CASE \E n \in Nums : DoCancel(n)
  <2>1. main'.pc = "cancel" /\ main'.then = "idle" /\ main.pc \notin Waiting
        /\ UNCHANGED <<pending, cb, inbox>>
    BY <1>8 DEF DoCancel, mainIdle, Waiting, Idle
  <2> QED
    BY <1>6, <2>1
<1>9. CASE SendCancel
  <2>1. main'.pc = "cancelling" /\ main'.then = "idle" /\ main.pc \notin Waiting
        /\ UNCHANGED <<cb, inbox>>
    BY <1>0, <1>1, <1>9 DEF SendCancel, Waiting, MainStates
  <2> QED
    BY <1>6, <2>1 DEF Waiting
<1>10. ASSUME NEW n \in Nums, RetrieveOrder(n)
       PROVE  Handshake'
  <2> DEFINE msgs == ReplayOf(n)
  <2>1. /\ pending = 0 /\ main'.pc = "retrieving" /\ main'.then = "idle" /\ pending' = n
        /\ Emit(msgs) /\ UNCHANGED cb
    BY <1>0, <1>1, <1>10 DEF RetrieveOrder, mainIdle, Waiting, Idle
  <2>2. inbox \in Seq(Message) /\ EngineTypeOK
    BY DEF Inv, TypeOK, EngineTypeOK
  <2>3. /\ msgs \in Seq(Message)
        /\ \A j \in 1..Len(msgs) : msgs[j].num = n /\ (msgs[j].kind = "ReplayEnd" => j = Len(msgs))
    BY <2>2, ReplaySays
  <2> HIDE DEF msgs
  <2>4. /\ \A j \in 1..Len(inbox) : inbox'[j] = inbox[j]
        /\ \A j \in 1..Len(inbox') : j \notin 1..Len(inbox) =>
             j - Len(inbox) \in 1..Len(msgs) /\ inbox'[j] = msgs[j - Len(inbox)]
        /\ Len(inbox') = Len(inbox) + Len(msgs) /\ Len(inbox) \in Nat /\ Len(msgs) \in Nat
    <3>1. inbox \in Seq(Message) /\ msgs \in Seq(Message) /\ Emit(msgs)
      BY <2>1, <2>2, <2>3
    <3> QED
      BY <3>1, Joined
  <2>5. \A i \in 1..Len(inbox) : inbox[i].kind # "ReplayEnd"
    <3>1. \A i \in 1..Len(inbox) : inbox[i].num # 0
      BY <2>2, SmallNums, QueueFacts
    <3> QED
      BY <2>1, <3>1 DEF Handshake, OneReplay
  <2>6. \A i \in 1..Len(inbox') : inbox'[i].kind = "ReplayEnd" =>
          inbox'[i].num = n /\ i = Len(inbox')
    <3> SUFFICES ASSUME NEW i \in 1..Len(inbox'), inbox'[i].kind = "ReplayEnd"
                 PROVE  inbox'[i].num = n /\ i = Len(inbox')
      OBVIOUS
    <3>1. i \notin 1..Len(inbox)
      BY <2>4, <2>5
    <3>2. i - Len(inbox) \in 1..Len(msgs) /\ inbox'[i] = msgs[i - Len(inbox)]
      BY <2>4, <3>1
    <3>3. inbox'[i].num = n /\ i - Len(inbox) = Len(msgs)
      BY <2>3, <3>2
    <3> QED
      BY <2>4, <3>3
  <2>7. cb.pc # "reset"
    BY <2>1 DEF Handshake, EndsPending
  <2> QED
    BY <2>1, <2>6, <2>7 DEF Handshake, OnlyWaiting, EndsPending, OneReplay, Waiting
<1>11. ~(CancelTimedOut \/ ReturnTimedOut \/ AbortSend \/ TimeOut \/ AbortCancel \/ AbortRetrieve)
  BY <1>0, <1>1 DEF CancelTimedOut, ReturnTimedOut, AbortSend, TimeOut, AbortCancel, AbortRetrieve
<1> QED
  BY <1>4, <1>5, <1>7, <1>8, <1>9, <1>10, <1>11 DEF Call, Proceed, GiveUp

(* A callback leaves the queue, and none joins it.                         *)
LEMMA ReplayLeft ==
    ASSUME Inv, Handshake, NEW i \in Deliverable, NEW kinds, Takes(i, kinds),
           UNCHANGED <<main, pending>>,
           cb'.pc # "reset" \/ inbox[i].kind = "ReplayEnd"
    PROVE  OneReplay'
<1>0. /\ i \in 1..Len(inbox) /\ Len(inbox) \in Nat
      /\ \A j \in 1..Len(inbox') : /\ inbox'[j] = inbox[IF j < i THEN j ELSE j + 1]
                                   /\ j + 1 \in 1..Len(inbox) /\ j \in 1..Len(inbox)
  BY Remaining DEF Inv, TypeOK, EngineTypeOK
<1> DEFINE Old(j) == IF j < i THEN j ELSE j + 1
<1>1. \A j, k \in 1..Len(inbox') : Old(j) \in 1..Len(inbox) /\ Old(j) # i
                                   /\ (Old(j) = Old(k) => j = k)
  <2> SUFFICES ASSUME NEW j \in 1..Len(inbox'), NEW k \in 1..Len(inbox')
               PROVE  Old(j) \in 1..Len(inbox) /\ Old(j) # i /\ (Old(j) = Old(k) => j = k)
    OBVIOUS
  <2>1. j \in Nat /\ k \in Nat /\ i \in Nat
    BY <1>0
  <2> QED
    BY <1>0, <2>1
<1>2. \A j \in 1..Len(inbox') : inbox'[j] = inbox[Old(j)]
  BY <1>0
<1> HIDE DEF Old
<1> SUFFICES ASSUME NEW j \in 1..Len(inbox'), inbox'[j].kind = "ReplayEnd"
             PROVE  /\ main.pc = "retrieving" /\ pending = inbox'[j].num
                    /\ cb'.pc # "reset"
                    /\ \A k \in 1..Len(inbox') : inbox'[k].kind = "ReplayEnd" => k = j
  BY DEF OneReplay
<1>3. /\ main.pc = "retrieving" /\ pending = inbox'[j].num
      /\ \A k \in 1..Len(inbox) : inbox[k].kind = "ReplayEnd" => k = Old(j)
  BY <1>1, <1>2 DEF Handshake, OneReplay
<1> QED
  BY <1>0, <1>1, <1>2, <1>3

LEMMA HandshakeOfCallback ==
    ASSUME Inv, Handshake, Callback
    PROVE  Handshake'
<1>1. ASSUME NEW i \in Deliverable, Handle(i)
      PROVE  Handshake'
  <2>t. PICK kinds : Takes(i, kinds)
    BY <1>1 DEF Handle, LineDropped, LineStale, LineSendsCancel, LineApplied, LineError,
                ReportApplied, ReportDropped, NotCancelledReport, SingleOrderReplay
  <2>1. UNCHANGED <<main, pending>> /\ cb.pc = "idle"
    BY <1>1 DEF Handle, LineDropped, LineStale, LineSendsCancel, LineApplied, LineError,
                ReportApplied, ReportDropped, NotCancelledReport, SingleOrderReplay, Takes
  <2>2. inbox[i].num \in Nums
    <3>1. inbox \in Seq(Message)
      BY DEF Inv, TypeOK, EngineTypeOK
    <3> QED
      BY <2>t, <3>1, TakesFacts
  <2>3. \/ UNCHANGED cb
        \/ cb' = [pc |-> "test", id |-> Tag(inbox[i].num)]
        \/ /\ cb' = [pc |-> "reset", id |-> inbox[i].num] /\ pending = inbox[i].num
           /\ inbox[i].kind = "ReplayEnd"
    <3>1. CASE SingleOrderReplay(i)
      BY <3>1 DEF SingleOrderReplay, Takes, ReplayAnswers
    <3>2. CASE LineStale(i) \/ LineApplied(i)
      BY <3>2 DEF LineStale, LineApplied, CallbackReturns, TestPending
    <3>3. CASE LineError(i) \/ ReportApplied(i)
      BY <3>3 DEF LineError, ReportApplied, CallbackReturns, TestPending
    <3>4. CASE LineDropped(i) \/ LineSendsCancel(i) \/ ReportDropped(i) \/ NotCancelledReport(i)
      BY <3>4 DEF LineDropped, LineSendsCancel, ReportDropped, NotCancelledReport, CallbackReturns
    <3> QED
      BY <1>1, <3>1, <3>2, <3>3, <3>4 DEF Handle
  <2>4. EndsPending' /\ OnlyWaiting'
    <3>1. OnlyWaiting'
      BY <2>1 DEF Handshake, OnlyWaiting
    <3>2. inbox[i].num # 0 /\ Tag(inbox[i].num) > IntMax
      BY <2>2, SmallNums, TagFacts
    <3>3. EndsPending'
      BY <2>1, <2>3, <3>2 DEF EndsPending
    <3> QED
      BY <3>1, <3>3
  <2>5. OneReplay'
    BY <2>t, <2>1, <2>3, ReplayLeft
  <2> QED
    BY <2>4, <2>5 DEF Handshake
<1>2. CASE Test
  <2>1. UNCHANGED <<main, pending, inbox>> /\ cb.pc = "test"
        /\ cb' = IF pending = cb.id THEN [cb EXCEPT !.pc = "reset"] ELSE [pc |-> "idle", id |-> 0]
    BY <1>2 DEF Test, PassesTest
  <2>2. cb \in CallbackStates /\ cb.id > IntMax
    BY <2>1 DEF Inv, TypeOK, Handshake, EndsPending
  <2>3. cb'.pc = "reset" => pending = cb.id /\ cb'.id = cb.id
    BY <2>1, <2>2 DEF CallbackStates
  <2>4. cb'.pc # "test"
    BY <2>1, <2>2 DEF CallbackStates
  <2>5. cb.id \in Nat /\ cb.id # 0
    BY <2>2, NumAssumption DEF CallbackStates
  <2>6. \A i \in 1..Len(inbox) : inbox[i].kind = "ReplayEnd" => cb'.pc # "reset"
    <3> SUFFICES ASSUME NEW i \in 1..Len(inbox), inbox[i].kind = "ReplayEnd", pending = cb.id
                 PROVE  FALSE
      BY <2>3
    <3>1. pending = inbox[i].num /\ inbox[i].num \in Nums
      BY QueueFacts DEF Handshake, OneReplay, Inv, TypeOK, EngineTypeOK
    <3> QED
      BY <2>2, <2>5, <3>1, SmallNums, NumAssumption
  <2> QED
    BY <2>1, <2>3, <2>4, <2>5, <2>6 DEF Handshake, OnlyWaiting, EndsPending, OneReplay
<1>3. CASE Reset
  <2>1. UNCHANGED <<main, inbox>> /\ cb.pc = "reset" /\ pending' = 0 /\ cb'.pc = "idle"
    BY <1>3 DEF Reset
  <2> QED
    BY <2>1 DEF Handshake, OnlyWaiting, EndsPending, OneReplay
<1> QED
  BY <1>1, <1>2, <1>3 DEF Callback

LEMMA HandshakeOfEngine ==
    ASSUME Inv, Truth, Handshake, NEW n \in Nums, Engine(n)
    PROVE  Handshake'
<1>0. inbox \in Seq(Message)
  BY DEF Inv, TypeOK, EngineTypeOK
<1>1. UNCHANGED <<main, pending, cb>>
  BY DEF Engine
<1>2. PICK f \in ExchangeOrder, msgs \in Seq(Message) : Says(n, exch[n], f, msgs) /\ Emit(msgs)
  BY EngineGoesOn DEF Inv, TypeOK, Truth, Engine
<1>3. \A j \in 1..Len(msgs) : msgs[j].kind # "ReplayEnd"
  BY <1>2 DEF Says
<1>4. \A j \in 1..Len(inbox') : inbox'[j].kind = "ReplayEnd" =>
        j \in 1..Len(inbox) /\ inbox'[j] = inbox[j]
  BY <1>0, <1>2, <1>3, Joined
<1> QED
  BY <1>1, <1>4 DEF Handshake, OnlyWaiting, EndsPending, OneReplay

LEMMA HandshakeStep ==
    ASSUME Inv, Truth, Handshake, Undisturbed, [Next]_vars
    PROVE  Handshake'
<1>1. CASE UNCHANGED vars
  BY <1>1 DEF vars, Handshake, OnlyWaiting, EndsPending, OneReplay
<1> QED
  BY <1>1, HandshakeOfMain, HandshakeOfCallback, HandshakeOfEngine DEF Next

LEMMA HandshakeInvariance ==
    ASSUME Undisturbed
    PROVE  Spec => []Handshake
<1>1. Init => Handshake
  BY DEF Init, EngineInit, Idle, Waiting, Handshake, OnlyWaiting, EndsPending, OneReplay
<1>2. Inv /\ Truth /\ Handshake /\ [Next]_vars => Handshake'
  BY HandshakeStep
<1> QED
  BY <1>1, <1>2, Inductive, TruthInvariance, PTL DEF Spec

(* The assertion of SingleOrderReplay holds: retrieveOrder still waits for *)
(* the replay whose end has come.                                          *)
THEOREM ReplayEndsAreAwaited ==
    ASSUME Undisturbed
    PROVE  Spec => []ReplayIsAwaited
<1>1. Inv /\ Handshake => ReplayIsAwaited
  BY DEF Inv, Handshake, OneReplay, ReplayIsAwaited, ReplayAnswers, Deliverable
<1> QED
  BY <1>1, Inductive, HandshakeInvariance, PTL

(* The store of 0 behind the test ends the request that was tested, never  *)
(* one that another call has made since.                                   *)
THEOREM ResetsEndTheirRequest ==
    ASSUME Undisturbed
    PROVE  Spec => ResetEndsItsRequest
<1>1. Handshake /\ [Next]_vars =>
        [pending # 0 /\ cb.pc = "reset" /\ cb'.pc = "idle" => pending = cb.id]_vars
  BY DEF Handshake, EndsPending
<1> QED
  BY <1>1, HandshakeInvariance, PTL DEF Spec, ResetEndsItsRequest

-----------------------------------------------------------------------------
(* The cancel of an order that login restored. *)

(* The callback thread never stores 0 for the client order id that every   *)
(* restored order has: its callbacks bring tags and order numbers.         *)
NobodyEnds ==
    /\ cb.pc = "reset" => cb.id # IntMax
    /\ HangsOnRestored => pending = IntMax

LEMMA NobodyEndsAtReset ==
    ASSUME Inv, Handshake, NobodyEnds, [Next]_vars
    PROVE  cb'.pc = "reset" => cb'.id # IntMax
<1> SUFFICES ASSUME cb'.pc = "reset" PROVE cb'.id # IntMax
  OBVIOUS
<1>1. CASE UNCHANGED cb
  BY <1>1 DEF NobodyEnds
<1>2. ASSUME NEW i \in Deliverable, SingleOrderReplay(i)
      PROVE  cb' = cb \/ cb'.id # IntMax
  <2>1. inbox[i].num \in Nums
    BY QueueFacts DEF Deliverable, Inv, TypeOK, EngineTypeOK
  <2>2. inbox[i].num # IntMax
    BY <2>1, NumAssumption, SlotAssumption DEF Nums, OwnNums, OneNum
  <2> QED
    BY <1>2, <2>2 DEF SingleOrderReplay
<1>3. CASE Test
  <2>1. cb.id > IntMax /\ cb.id \in Nat /\ cb'.id \in {cb.id, 0}
    BY <1>3 DEF Test, Handshake, EndsPending, Inv, TypeOK, CallbackStates
  <2> QED
    BY <1>3, <2>1, NumAssumption DEF Test
<1>4. ASSUME NEW i \in Deliverable, Handle(i), ~SingleOrderReplay(i)
      PROVE  cb' = cb \/ cb'.pc # "reset"
  BY <1>4
  DEF Handle, LineDropped, LineStale, LineSendsCancel, LineApplied, LineError, ReportApplied,
      ReportDropped, NotCancelledReport, CallbackReturns, TestPending
<1>5. CASE Reset
  BY <1>5 DEF Reset
<1>6. Call \/ Proceed \/ GiveUp \/ (\E n \in Nums : Engine(n)) \/ UNCHANGED vars
        => UNCHANGED cb
  BY DEF Call, SendOrder, OpenOrderReplay, DoCancel, RetrieveOrder, Proceed, Login, FinishSend,
         CancelTimedOut, ReturnTimedOut, CancelNothing, SendCancel, FinishCancel,
         FinishRetrieve, Retrieved, GiveUp, AbortSend, TimeOut, AbortCancel, AbortRetrieve,
         Engine, vars
<1> QED
  BY <1>1, <1>2, <1>3, <1>4, <1>5, <1>6 DEF Next, Callback

(* Zorro's thread, once in the wait, stays there and leaves all as it is.  *)
LEMMA HangHolds ==
    ASSUME Inv, Truth, Deaf, Handshake, NobodyEnds, HangsOnRestored, Undisturbed, [Next]_vars
    PROVE  UNCHANGED <<main, byId, pending>>
<1>0. /\ main.pc = "cancelling" /\ pending = IntMax /\ IntMax # 0
      /\ cb.pc = "reset" => pending = cb.id /\ cb.id # IntMax
  BY NumAssumption DEF HangsOnRestored, NobodyEnds, Handshake, EndsPending
<1>1. ~Reset
  BY <1>0 DEF Reset
<1>2. CASE (\E i \in Deliverable : Handle(i)) \/ Test \/ UNCHANGED vars
  BY <1>2
  DEF Handle, LineDropped, LineStale, LineSendsCancel, LineApplied, LineError, ReportApplied,
      ReportDropped, NotCancelledReport, SingleOrderReplay, Test, vars
<1>3. ~Call
  BY <1>0 DEF Call, SendOrder, OpenOrderReplay, DoCancel, RetrieveOrder, mainIdle
<1>4. ~Proceed
  BY <1>0 DEF Proceed, Login, FinishSend, CancelTimedOut, ReturnTimedOut, CancelNothing,
              SendCancel, FinishCancel, FinishRetrieve
<1>5. ~GiveUp
  BY DEF GiveUp, AbortSend, TimeOut, AbortCancel, AbortRetrieve, Undisturbed
<1>6. CASE \E n \in Nums : Engine(n)
  BY <1>6 DEF Engine
<1> QED
  BY <1>1, <1>2, <1>3, <1>4, <1>5, <1>6 DEF Next, Callback

LEMMA NobodyEndsStep ==
    ASSUME Inv, Inv', Truth, Deaf, Handshake, NobodyEnds, Undisturbed, [Next]_vars
    PROVE  NobodyEnds' /\ (HangsOnRestored => HangsOnRestored')
<1>1. Frozen
  BY DeafStep
<1>2. CASE HangsOnRestored
  <2>1. UNCHANGED <<main, byId, pending>>
    BY <1>2, HangHolds
  <2>2. byId[main.num] \in Slots
    BY <1>2 DEF HangsOnRestored, Inv, TypeOK, CallOK
  <2>3. HangsOnRestored'
    BY <1>1, <1>2, <2>1, <2>2 DEF HangsOnRestored, Restored, Frozen
  <2> QED
    BY <1>2, <2>1, <2>3, NobodyEndsAtReset DEF NobodyEnds
<1>3. CASE ~HangsOnRestored
  <2> SUFFICES ASSUME HangsOnRestored'
               PROVE  pending' = IntMax
    BY <1>3, NobodyEndsAtReset DEF NobodyEnds
  <2>0. /\ main \in MainStates
        /\ Return => main'.pc \in {"clear", "idle"}
        /\ main' = [main EXCEPT !.pc = "cancelling"] => main'.num = main.num
    <3>1. main \in MainStates
      BY DEF Inv, TypeOK
    <3> QED
      BY <3>1 DEF MainStates, Return, Idle
  <2>1. CASE SendCancel
    <3>1. main'.pc = "cancelling" /\ main'.num = main.num
      BY <2>0, <2>1 DEF SendCancel, HangsOnRestored
    <3> QED
      BY <2>1, <3>1 DEF SendCancel, CancelId, HangsOnRestored, Restored
  <2>2. CASE ~SendCancel
    <3>1. main.pc = "cancelling" /\ UNCHANGED <<main, byId>>
      <4>1. main'.pc = "cancelling"
        BY DEF HangsOnRestored
      <4>2. ~Call \/ UNCHANGED <<main, byId>>
        <5>1. ASSUME NEW r \in Requests, SendOrder(r)
              PROVE  main'.pc # "cancelling"
          BY <5>1 DEF SendOrder, mainIdle, Idle
        <5>2. ASSUME NEW n \in Nums, OpenOrderReplay(n) \/ DoCancel(n) \/ RetrieveOrder(n)
              PROVE  main'.pc # "cancelling" \/ UNCHANGED <<main, byId>>
          BY <5>2 DEF OpenOrderReplay, DoCancel, RetrieveOrder, mainIdle, Idle
        <5> QED
          BY <4>1, <5>1, <5>2 DEF Call
      <4>3. ~Proceed
        <5>1. ~CancelTimedOut
          BY <2>0, <4>1 DEF CancelTimedOut, MainStates
        <5>2. ~(CancelNothing \/ FinishCancel)
          BY <2>0, <4>1 DEF CancelNothing, FinishCancel
        <5>3. ~(Login \/ FinishSend \/ ReturnTimedOut \/ FinishRetrieve)
          BY <4>1 DEF Login, FinishSend, ReturnTimedOut, FinishRetrieve, Retrieved, Idle
        <5> QED
          BY <2>2, <5>1, <5>2, <5>3 DEF Proceed
      <4>4. ~GiveUp
        BY DEF GiveUp, AbortSend, TimeOut, AbortCancel, AbortRetrieve, Undisturbed
      <4>5. ASSUME NEW i \in Deliverable, Handle(i)
            PROVE  UNCHANGED <<main, byId>>
        BY <4>5
        DEF Handle, LineDropped, LineStale, LineSendsCancel, LineApplied, LineError,
            ReportApplied, ReportDropped, NotCancelledReport, SingleOrderReplay
      <4>6. CASE Test \/ Reset \/ UNCHANGED vars \/ \E n \in Nums : Engine(n)
        <5>1. UNCHANGED <<main, byId>>
          BY <4>6 DEF Test, Reset, Engine, vars
        <5> QED
          BY <4>1, <5>1
      <4> QED
        BY <4>1, <4>2, <4>3, <4>4, <4>5, <4>6 DEF Next, Callback
    <3>2. byId[main.num] \in Slots /\ byId[main.num] < nextIndex
      <4>1. main.num \in Nums /\ byId[main.num] # NoSlot
        BY <3>1 DEF Inv, CallOK
      <4> QED
        BY <4>1, RegisteredBelongs DEF Inv, FreshOK
    <3>3. Restored(orders, byId[main.num])
      BY <1>1, <3>1, <3>2 DEF Frozen, HangsOnRestored, Restored
    <3> QED
      BY <1>3, <3>1, <3>3 DEF HangsOnRestored, Restored
  <2> QED
    BY <2>1, <2>2
<1> QED
  BY <1>2, <1>3

(* DO_CANCEL of an order that login restored never returns: whatever the   *)
(* exchange answers, the wait goes on, because the order waits for the     *)
(* client order id that atoi made and no callback names. Only a cancel     *)
(* that the user aborts, or a call that had given up before, ends it.      *)
THEOREM RestoredCancelsHang ==
    ASSUME Undisturbed
    PROVE  Spec => [](HangsOnRestored => []HangsOnRestored)
<1>1. Init => NobodyEnds
  BY DEF Init, EngineInit, NobodyEnds, HangsOnRestored
<1>2. Inv /\ Inv' /\ Truth /\ Deaf /\ Handshake /\ NobodyEnds /\ [Next]_vars
        => NobodyEnds' /\ (HangsOnRestored => HangsOnRestored')
  BY NobodyEndsStep
<1>3. Inv /\ Truth /\ Deaf /\ [Next]_vars => Deaf'
  BY DeafStep
<1> QED
  BY <1>1, <1>2, <1>3, DeafInit, Inductive, TruthInvariance, HandshakeInvariance, PTL DEF Spec

-----------------------------------------------------------------------------
(* What the answer means. *)


Gone(n) == exch[n].st \in {"none", "Refused"} \cup Ends

(* A line update of order n is in the queue, before its i-th callback.     *)
LineBefore(n, i) == \E j \in 1..Len(inbox) : j < i /\ inbox[j].num = n /\ inbox[j].kind = "Line"

(* What is so of order n, in slot s, until its first line update is taken. *)
Unheard(s, n) ==
    /\ orders[s].ts = 0 /\ orders[s].armed = FALSE /\ exch[n].cancels = 0
    /\ exch[n].st = "open" => LineBefore(n, Len(inbox) + 1)
    /\ \A i \in 1..Len(inbox) : inbox[i].num = n =>
         /\ inbox[i].kind # "History"
         /\ inbox[i].kind \in {"Fill", "Cancel"} => LineBefore(n, i)
         /\ inbox[i].kind \in {"Failure", "Reject"} => Gone(n)
    /\ cb.pc # "idle" /\ cb.id = Tag(n) => Gone(n)
    /\ pending = 0 => Gone(n)

SentIsUnheard ==
    main.pc = "buying" /\ orders[main.slot].num = 0 => Unheard(main.slot, OrderNum(main.slot))

(* The callback thread works for orders that were sent.                    *)
WorksForSent == \A n \in Nums : cb.pc # "idle" /\ cb.id = Tag(n) => exch[n].st # "none"

NoneCancelled == \A s \in Slots : s >= nextIndex => exch[OrderNum(s)].cancels = 0

Disowning == {"NotSent", "NoNumber", "Completed", "Disowned"}

DisownedAreGone == \A s \in Slots : returned[s] \in Disowning => Gone(OrderNum(s))

Answers == SentIsUnheard /\ WorksForSent /\ NoneCancelled /\ DisownedAreGone

Grounded == Inv /\ Truth /\ Unsent /\ Handshake

-----------------------------------------------------------------------------
(* Orders that were sent. *)

(* The slot that doSendOrder works on.                                     *)
LEMMA SendingFacts ==
    ASSUME Inv, main.pc = "buying", NEW s, s = main.slot, NEW n, n = OrderNum(s)
    PROVE  /\ s \in Slots /\ n \in Nums /\ orders[s] \in Order
           /\ ctx[n] = s /\ orders[s].cid = Tag(n) /\ s < nextIndex
           /\ pending \in {0, Tag(n)}
<1>1. Sending(s)
  BY DEF Inv, CallOK
<1>2. s \in Slots /\ ctx[n] = s /\ orders[s].cid = Tag(n) /\ s < nextIndex
  BY <1>1 DEF Sending
<1>3. n \in Nums
  BY <1>2, SlotFacts
<1>4. orders[s] \in Order
  BY <1>2 DEF Inv, TypeOK
<1>5. pending \in {0, Tag(n)}
  BY <1>2 DEF Inv, WaitOwnsPending, Waiting, Awaited
<1> QED
  BY <1>2, <1>3, <1>4, <1>5

(* What is gone stays so, unless it is sent; what was sent has been sent.  *)
LEMMA GoneStays ==
    ASSUME Inv, Truth, Next, NEW n \in Nums,
           \A r \in Requests : SendOrder(r) => n # OrderNum(nextIndex)
    PROVE  /\ Gone(n) => Gone(n)'
           /\ exch'[n].st = "none" => exch[n].st = "none"
<1>0. exch \in [Nums -> ExchangeOrder] /\ inbox \in Seq(Message)
  BY DEF Inv, TypeOK, EngineTypeOK
<1>1. CASE exch'[n].st = exch[n].st
  BY <1>1 DEF Gone
<1>2. ASSUME NEW k \in Nums, Engine(k)
      PROVE  /\ Gone(n) => Gone(n)'
             /\ exch'[n].st = "none" => exch[n].st = "none"
  <2>1. PICK f \in ExchangeOrder :
          exch' = [exch EXCEPT ![k] = f] /\ Evolves(exch[k], f)
    BY <1>2, EngineGoesOn DEF Inv, TypeOK, Truth, Engine
  <2>2. CASE k = n
    <3>1. exch'[n] = f /\ Evolves(exch[n], f)
      BY <1>0, <2>1, <2>2
    <3> QED
      BY <3>1 DEF Evolves, Gone, Finished, Reasons, Ends
  <2>3. CASE k # n
    BY <1>0, <1>1, <2>1, <2>3
  <2> QED
    BY <2>2, <2>3
<1>3. ASSUME NEW r \in Requests, SendOrder(r)
      PROVE  exch'[n].st = exch[n].st
  BY <1>0, <1>3 DEF SendOrder
<1>4. CASE SendCancel
  <2>1. main.num \in Nums
    BY <1>4 DEF SendCancel, Inv, CallOK
  <2> QED
    BY <1>0, <1>1, <1>4, <2>1, SentCancel DEF SendCancel, SameExchange
<1>5. ASSUME NEW i \in Deliverable, LineSendsCancel(i)
      PROVE  exch'[n].st = exch[n].st
  <2>1. inbox[i].num \in Nums
    BY <1>0, <1>5, TakesFacts DEF LineSendsCancel
  <2> QED
    BY <1>0, <1>5, <2>1, SentCancel DEF LineSendsCancel, SameExchange
<1>6. CASE UNCHANGED exch
  BY <1>1, <1>6
<1> QED
  BY <1>1, <1>2, <1>3, <1>4, <1>5, <1>6
  DEF Next, Call, Proceed, GiveUp, Callback, Handle, OpenOrderReplay, Login, FinishSend,
      AbortSend, TimeOut, CancelTimedOut, ReturnTimedOut, DoCancel, CancelNothing,
      FinishCancel, AbortCancel, RetrieveOrder, FinishRetrieve, Retrieved, AbortRetrieve,
      LineDropped, LineStale, LineApplied, LineError, ReportApplied, ReportDropped,
      NotCancelledReport, SingleOrderReplay, Test, Reset

LEMMA NoneCancelledStep ==
    ASSUME Inv, Truth, Unsent, NoneCancelled, Next
    PROVE  NoneCancelled'
<1>0. /\ exch \in [Nums -> ExchangeOrder] /\ nextIndex \in 0..MaxOrders
      /\ \A s \in Slots : s \in Nat /\ OrderNum(s) \in Nums
      /\ inbox \in Seq(Message)
  BY SlotFacts DEF Inv, TypeOK, EngineTypeOK
<1>1. ASSUME NEW r \in Requests, SendOrder(r)
      PROVE  NoneCancelled'
  <2>1. nextIndex \in Slots /\ nextIndex' = nextIndex + 1
    BY <1>0, <1>1, SlotFacts DEF SendOrder
  <2>2. \A k \in Nums : k # OrderNum(nextIndex) => exch'[k] = exch[k]
    BY <1>0, <1>1 DEF SendOrder
  <2> QED
    BY <1>0, <2>1, <2>2, SlotFacts DEF NoneCancelled
<1>2. ASSUME NEW k \in Nums, \A s \in Slots : s >= nextIndex => k # OrderNum(s),
             \A j \in Nums : j # k => exch'[j] = exch[j], nextIndex' = nextIndex
      PROVE  NoneCancelled'
  BY <1>0, <1>2 DEF NoneCancelled
<1>3. ASSUME NEW n \in Nums, Engine(n)
      PROVE  NoneCancelled'
  <2>1. PICK f \in ExchangeOrder :
          exch' = [exch EXCEPT ![n] = f] /\ Evolves(exch[n], f)
    BY <1>3, EngineGoesOn DEF Inv, TypeOK, Truth, Engine
  <2>2. \A k \in Nums : k # n => exch'[k] = exch[k]
    BY <1>0, <2>1
  <2>3. exch[n].st # "none" /\ nextIndex' = nextIndex
    BY <1>3, <2>1 DEF Evolves, Engine
  <2> QED
    BY <1>2, <2>2, <2>3 DEF Unsent
<1>4. CASE SendCancel
  <2>1. main.num \in Nums /\ byId[main.num] # NoSlot
    BY <1>4 DEF SendCancel, Inv, CallOK
  <2>2. \A j \in Nums : j # main.num => exch'[j] = exch[j]
    BY <1>0, <1>4, <2>1 DEF SendCancel
  <2>3. \A s \in Slots : s >= nextIndex => main.num # OrderNum(s)
    BY <2>1 DEF Inv, FreshOK
  <2> QED
    BY <1>2, <1>4, <2>1, <2>2, <2>3 DEF SendCancel
<1>5. ASSUME NEW i \in Deliverable, LineSendsCancel(i)
      PROVE  NoneCancelled'
  <2>1. inbox[i].num \in Nums /\ inbox[i].kind \in Lines /\ i \in 1..Len(inbox)
    BY <1>0, <1>5, TakesFacts DEF LineSendsCancel, Deliverable
  <2>2. exch[inbox[i].num].st # "none"
    BY <2>1 DEF Truth, NoneUnsent, Lines
  <2>3. \A j \in Nums : j # inbox[i].num => exch'[j] = exch[j]
    BY <1>0, <1>5, <2>1 DEF LineSendsCancel
  <2> QED
    BY <1>2, <1>5, <2>1, <2>2, <2>3 DEF LineSendsCancel, Unsent
<1>6. CASE UNCHANGED exch /\ nextIndex' \in {nextIndex, nextIndex + 1}
  BY <1>0, <1>6, SlotAssumption DEF NoneCancelled
<1> QED
  BY <1>1, <1>3, <1>4, <1>5, <1>6
  DEF Next, Call, Proceed, GiveUp, Callback, Handle, OpenOrderReplay, Login, FinishSend,
      AbortSend, TimeOut, CancelTimedOut, ReturnTimedOut, DoCancel, CancelNothing,
      FinishCancel, AbortCancel, RetrieveOrder, FinishRetrieve, Retrieved, AbortRetrieve,
      LineDropped, LineStale, LineApplied, LineError, ReportApplied, ReportDropped,
      NotCancelledReport, SingleOrderReplay, Test, Reset

-----------------------------------------------------------------------------
(* The callbacks of an order without a number. *)

LEMMA LinesTaken ==
    ASSUME inbox \in Seq(Message), "Reorder" \notin Faults, NEW i \in Deliverable,
           NEW kinds, Takes(i, kinds), NEW n, ~(inbox[i].num = n /\ inbox[i].kind = "Line"),
           NEW k \in Nat, LineBefore(n, k + 1)
    PROVE  LineBefore(n, k)'
<1>0. /\ i = 1 /\ Len(inbox) \in Nat
      /\ \A j \in 1..Len(inbox) : j > 1 => j - 1 \in 1..Len(inbox') /\ inbox'[j - 1] = inbox[j]
  BY TakenFirst
<1>1. PICK j \in 1..Len(inbox) : j < k + 1 /\ inbox[j].num = n /\ inbox[j].kind = "Line"
  BY DEF LineBefore
<1>2. j > 1 /\ j - 1 < k
  BY <1>0, <1>1
<1>3. j - 1 \in 1..Len(inbox') /\ inbox'[j - 1] = inbox[j]
  BY <1>0, <1>2
<1> QED
  BY <1>1, <1>2, <1>3 DEF LineBefore

(* The first line update is recorded: none is taken while the slot has no  *)
(* number, and what is taken leaves the slot as it is.                     *)
LEMMA TakenUnheard ==
    ASSUME Grounded, Faults = {}, main.pc = "buying", NEW s, s = main.slot,
           NEW n, n = OrderNum(s), orders[s].num = 0 => Unheard(s, n),
           NEW i \in Deliverable, Handle(i), orders'[s].num = 0
    PROVE  /\ orders[s].num = 0
           /\ inbox[i].num = n =>
                inbox[i].kind \in {"LineError", "Failure", "Reject", "NotCancelled", "ReplayEnd"}
           /\ orders'[s].ts = orders[s].ts /\ orders'[s].armed = orders[s].armed
           /\ exch'[n] = exch[n]
<1> DEFINE m == inbox[i]
<1>0. /\ exch \in [Nums -> ExchangeOrder] /\ inbox \in Seq(Message)
      /\ ctx \in [Nums -> Slots \cup {NoSlot}] /\ orders \in [Slots -> Order]
  BY DEF Grounded, Inv, TypeOK, EngineTypeOK
<1>1. s \in Slots /\ n \in Nums /\ orders[s] \in Order /\ ctx[n] = s /\ orders[s].cid = Tag(n)
  BY SendingFacts DEF Grounded
<1>2. i \in 1..Len(inbox) /\ m \in Message /\ m.num \in Nums /\ m.num # 0 /\ i = 1
  <2>1. i \in 1..Len(inbox) /\ i = 1
    BY DEF Deliverable
  <2>2. inbox[i] \in Message /\ inbox[i].num \in Nums
    BY <1>0, <2>1, QueueFacts
  <2> QED
    BY <2>1, <2>2, SmallNums
<1>3. CASE m.num # n
  <2>1. ctx[m.num] # NoSlot => ctx[m.num] # s
    BY <1>1, <1>2, <1>3, OneOrderPerSlot DEF Grounded
  <2>2. ctx[m.num] # NoSlot => ctx[m.num] \in Slots
    BY <1>0, <1>2
  <2>3. orders'[s] = orders[s]
    <3>1. CASE LineSendsCancel(i)
      BY <1>0, <1>1, <2>1, <3>1 DEF LineSendsCancel, HasSlot, Ours
    <3>2. CASE LineApplied(i)
      BY <1>0, <1>1, <2>1, <3>2 DEF LineApplied, HasSlot, Ours
    <3>3. CASE ReportApplied(i)
      BY <1>0, <1>1, <2>1, <3>3 DEF ReportApplied, Ours
    <3> QED
      BY <3>1, <3>2, <3>3 DEF Handle, LineDropped, LineStale, LineError, ReportDropped,
                              NotCancelledReport, SingleOrderReplay
  <2>4. exch'[n] = exch[n]
    BY <1>0, <1>1, <1>3 DEF Handle, LineDropped, LineStale, LineSendsCancel, LineApplied,
             LineError, ReportApplied, ReportDropped, NotCancelledReport, SingleOrderReplay
  <2> QED
    BY <1>3, <2>3, <2>4
<1>4. CASE m.num = n
  <2>1. CASE m.kind \in Lines
    <3>1. orders[s].num = 0
      <4>1. CASE LineSendsCancel(i)
        <5>1. orders' = [orders EXCEPT ![s].armed = FALSE]
          BY <1>1, <1>4, <4>1 DEF LineSendsCancel
        <5>2. [orders[s] EXCEPT !.armed = FALSE].num = orders[s].num
          BY <1>1 DEF Order
        <5> QED
          BY <1>0, <1>1, <5>1, <5>2
      <4>2. CASE LineApplied(i)
        <5>1. orders'[s] = Updated(orders[s], m)
          BY <1>0, <1>1, <1>4, <4>2 DEF LineApplied
        <5>2. Updated(orders[s], m).num = IF m.kind = "Line" THEN m.num ELSE orders[s].num
          BY <1>1 DEF Updated, Order
        <5> QED
          BY <1>2, <5>1, <5>2
      <4>3. CASE LineDropped(i) \/ LineStale(i)
        BY <4>3 DEF LineDropped, LineStale
      <4> QED
        BY <2>1, <4>1, <4>2, <4>3 DEF Handle, Takes, Lines, LineError, ReportApplied,
             ReportDropped, NotCancelledReport, SingleOrderReplay, Reported
    <3>2. Unheard(s, n) /\ m.kind = "Line"
      BY <1>2, <1>4, <2>1, <3>1 DEF Unheard, Lines
    <3>3. HasSlot(m) /\ ~Stale(m) /\ ~orders[ctx[m.num]].armed
      <4>1. m.ts \in Nat
        BY <1>2 DEF Message
      <4> QED
        BY <1>1, <1>4, <3>2, <4>1, SlotFacts DEF HasSlot, Ours, Stale, Unheard
    <3>4. LineApplied(i)
      BY <3>2, <3>3 DEF Handle, LineDropped, LineStale, LineSendsCancel, Takes, Lines, LineError,
           ReportApplied, ReportDropped, NotCancelledReport, SingleOrderReplay, Reported
    <3>5. orders'[s] = Updated(orders[s], m)
      BY <1>0, <1>1, <1>4, <3>4 DEF LineApplied
    <3>6. Updated(orders[s], m).num = m.num
      BY <1>1, <3>2 DEF Updated, Order
    <3> QED
      BY <1>2, <3>5, <3>6
  <2>2. CASE m.kind \notin Lines
    <3>1. UNCHANGED exch
      BY <2>2 DEF Handle, LineDropped, LineStale, LineSendsCancel, LineApplied, LineError, Takes,
               ReportApplied, ReportDropped, NotCancelledReport, SingleOrderReplay
    <3>2. /\ orders'[s].num = orders[s].num /\ orders'[s].ts = orders[s].ts
          /\ orders'[s].armed = orders[s].armed
      <4>1. CASE ReportApplied(i)
        <5>1. orders'[s] = Marked(orders[s], m) /\ m.kind \in Reported
          BY <1>0, <1>1, <1>4, <4>1 DEF ReportApplied, Takes
        <5>2. CASE m.kind = "Cancel"
          BY <1>1, <5>1, <5>2 DEF Marked, Order
        <5>3. CASE m.kind = "Fill"
          BY <1>1, <5>1, <5>3 DEF Marked, Order
        <5>4. CASE m.kind \in {"Failure", "Reject"}
          BY <1>1, <5>1, <5>4 DEF Marked, Order
        <5> QED
          BY <5>1, <5>2, <5>3, <5>4 DEF Reported
      <4>2. CASE ~ReportApplied(i)
        <5>1. UNCHANGED orders
          BY <2>2, <4>2 DEF Handle, LineDropped, LineStale, LineSendsCancel, LineApplied,
               LineError, Takes, ReportDropped, NotCancelledReport, SingleOrderReplay
        <5> QED
          BY <5>1
      <4> QED
        BY <4>1, <4>2
    <3>3. m.kind \notin {"Fill", "Cancel"}
      <4> SUFFICES ASSUME m.kind \in {"Fill", "Cancel"}
                   PROVE  FALSE
        OBVIOUS
      <4>1. LineBefore(n, 1)
        BY <1>2, <1>4, <3>2 DEF Unheard
      <4> QED
        BY <4>1 DEF LineBefore
    <3> QED
      BY <1>2, <2>2, <3>1, <3>2, <3>3 DEF Message, Reports, Lines
  <2> QED
    BY <2>1, <2>2
<1> QED
  BY <1>3, <1>4

(* What a handler leaves for the callback thread to test or store.         *)
LEMMA HandlerWorksFor ==
    ASSUME Inv, NEW i \in Deliverable, Handle(i)
    PROVE  /\ cb.pc = "idle" /\ inbox[i].num \in Nums /\ UNCHANGED <<main, pending, nextIndex, returned>>
           /\ \A n \in Nums : cb'.pc # "idle" /\ cb'.id = Tag(n) =>
                inbox[i].num = n /\ inbox[i].kind # "ReplayEnd" /\ inbox[i].kind # "NotCancelled"
           /\ \E kinds : Takes(i, kinds)
<1>t. PICK kinds : Takes(i, kinds)
  BY DEF Handle, LineDropped, LineStale, LineSendsCancel, LineApplied, LineError,
         ReportApplied, ReportDropped, NotCancelledReport, SingleOrderReplay
<1>1. UNCHANGED <<main, pending, nextIndex, returned>> /\ cb.pc = "idle"
  BY DEF Handle, LineDropped, LineStale, LineSendsCancel, LineApplied, LineError,
         ReportApplied, ReportDropped, NotCancelledReport, SingleOrderReplay, Takes
<1>2. inbox[i].num \in Nums
  <2>1. inbox \in Seq(Message)
    BY DEF Inv, TypeOK, EngineTypeOK
  <2> QED
    BY <1>t, <2>1, TakesFacts
<1>3. ASSUME NEW n \in Nums, cb'.pc # "idle", cb'.id = Tag(n)
      PROVE  inbox[i].num = n /\ inbox[i].kind # "ReplayEnd" /\ inbox[i].kind # "NotCancelled"
  <2>1. inbox[i].num = n <=> Tag(inbox[i].num) = Tag(n)
    BY <1>2, TagFacts
  <2>2. CASE SingleOrderReplay(i)
    <3>1. inbox[i].num # Tag(n)
      BY <1>2, TagFacts, SmallNums, NumAssumption
    <3> QED
      BY <1>1, <1>3, <2>2, <3>1 DEF SingleOrderReplay
  <2>3. CASE LineStale(i) \/ LineApplied(i)
    BY <1>1, <1>3, <2>1, <2>3 DEF LineStale, LineApplied, CallbackReturns, TestPending, Takes, Lines
  <2>4. CASE LineError(i) \/ ReportApplied(i)
    BY <1>1, <1>3, <2>1, <2>4 DEF LineError, ReportApplied, CallbackReturns, TestPending, Takes,
                                  Reported
  <2>5. CASE LineDropped(i) \/ LineSendsCancel(i) \/ ReportDropped(i) \/ NotCancelledReport(i)
    BY <1>1, <1>3, <2>5 DEF LineDropped, LineSendsCancel, ReportDropped, NotCancelledReport,
                            CallbackReturns
  <2> QED
    BY <2>2, <2>3, <2>4, <2>5 DEF Handle
<1> QED
  BY <1>t, <1>1, <1>2, <1>3

LEMMA UnheardOfHandler ==
    ASSUME Grounded, Faults = {}, SentIsUnheard, NEW i \in Deliverable, Handle(i)
    PROVE  SentIsUnheard'
<1>0. /\ inbox \in Seq(Message) /\ "Reorder" \notin Faults
      /\ cb.pc = "idle" /\ inbox[i].num \in Nums /\ UNCHANGED <<main, pending>>
  BY HandlerWorksFor DEF Grounded, Inv, TypeOK, EngineTypeOK
<1> SUFFICES ASSUME main.pc = "buying", orders'[main.slot].num = 0,
                    NEW s, s = main.slot, NEW n, n = OrderNum(s)
             PROVE  Unheard(s, n)'
  BY <1>0 DEF SentIsUnheard
<1>1. s \in Slots /\ n \in Nums
  BY SendingFacts DEF Grounded
<1>2. /\ orders[s].num = 0
      /\ inbox[i].num = n =>
           inbox[i].kind \in {"LineError", "Failure", "Reject", "NotCancelled", "ReplayEnd"}
      /\ orders'[s].ts = orders[s].ts /\ orders'[s].armed = orders[s].armed
      /\ exch'[n] = exch[n]
  BY TakenUnheard DEF SentIsUnheard
<1>3. Unheard(s, n)
  BY <1>2 DEF SentIsUnheard
<1>4. PICK kinds : Takes(i, kinds)
  BY HandlerWorksFor DEF Grounded
<1>5. /\ i = 1 /\ i \in 1..Len(inbox) /\ Len(inbox') = Len(inbox) - 1 /\ Len(inbox) \in Nat
      /\ \A j \in 1..Len(inbox') : inbox'[j] = inbox[j + 1] /\ j + 1 \in 1..Len(inbox)
  BY <1>0, <1>4, TakenFirst
<1>6. \A k \in Nat : LineBefore(n, k + 1) => LineBefore(n, k)'
  BY <1>0, <1>2, <1>4, LinesTaken
<1>7. exch[n].st = "open" => LineBefore(n, Len(inbox) + 1)'
  <2> SUFFICES ASSUME exch[n].st = "open"
               PROVE  \E j \in 1..Len(inbox') :
                        j < Len(inbox') + 1 /\ inbox'[j].num = n /\ inbox'[j].kind = "Line"
    BY DEF LineBefore
  <2>1. LineBefore(n, Len(inbox) + 1) /\ Len(inbox) \in Nat
    BY <1>3, <1>5 DEF Unheard
  <2>2. PICK j \in 1..Len(inbox') : inbox'[j].num = n /\ inbox'[j].kind = "Line"
    BY <1>6, <2>1 DEF LineBefore
  <2>3. j < Len(inbox') + 1
    BY <1>5
  <2> QED
    BY <2>2, <2>3
<1>8. ASSUME NEW j \in 1..Len(inbox'), inbox'[j].num = n
      PROVE  /\ inbox'[j].kind # "History"
             /\ inbox'[j].kind \in {"Fill", "Cancel"} => LineBefore(n, j)'
             /\ inbox'[j].kind \in {"Failure", "Reject"} => Gone(n)
  <2>1. inbox'[j] = inbox[j + 1] /\ j + 1 \in 1..Len(inbox) /\ j \in Nat
    BY <1>5
  <2>2. /\ inbox[j + 1].kind # "History"
        /\ inbox[j + 1].kind \in {"Fill", "Cancel"} => LineBefore(n, j + 1)
        /\ inbox[j + 1].kind \in {"Failure", "Reject"} => Gone(n)
    BY <1>3, <1>8, <2>1 DEF Unheard
  <2> QED
    BY <1>6, <2>1, <2>2
<1>9. cb'.pc # "idle" /\ cb'.id = Tag(n) => Gone(n)
  <2> SUFFICES ASSUME cb'.pc # "idle", cb'.id = Tag(n)
               PROVE  Gone(n)
    OBVIOUS
  <2>1. inbox[i].num = n /\ inbox[i].kind \in {"LineError", "Failure", "Reject"}
    BY <1>1, <1>2, HandlerWorksFor DEF Grounded
  <2>2. inbox[i].kind = "LineError" => exch[n].st = "Refused"
    BY <1>5, <2>1 DEF Grounded, Truth, Truthful, TrueOf
  <2>3. inbox[i].kind \in {"Failure", "Reject"} => Gone(n)
    BY <1>3, <1>5, <2>1 DEF Unheard
  <2> QED
    BY <2>1, <2>2, <2>3 DEF Gone
<1>10. pending' = 0 => Gone(n)
  BY <1>0, <1>3 DEF Unheard
<1>11. orders'[s].ts = 0 /\ orders'[s].armed = FALSE /\ exch'[n].cancels = 0
       /\ (Gone(n) => Gone(n)')
  BY <1>2, <1>3 DEF Unheard, Gone
<1> QED
  BY <1>2, <1>7, <1>8, <1>9, <1>10, <1>11 DEF Unheard

LEMMA UnheardOfTest ==
    ASSUME Grounded, SentIsUnheard, Test \/ Reset
    PROVE  SentIsUnheard'
<1> SUFFICES ASSUME main.pc = "buying", orders[main.slot].num = 0,
                    NEW s, s = main.slot, NEW n, n = OrderNum(s)
             PROVE  Unheard(s, n)'
  BY DEF SentIsUnheard, Test, Reset
<1>1. Unheard(s, n) /\ pending \in {0, Tag(n)} /\ cb \in CallbackStates
  BY SendingFacts DEF Grounded, SentIsUnheard, Inv, TypeOK
<1>2. UNCHANGED <<exch, orders, inbox>>
  BY DEF Test, Reset
<1>3. cb'.pc # "idle" => cb.pc # "idle" /\ cb'.id = cb.id
  BY <1>1 DEF Test, Reset, CallbackStates
<1>4. pending' = 0 => Gone(n)
  <2>1. CASE Test
    BY <1>1, <2>1 DEF Test, Unheard
  <2>2. CASE Reset
    <3>1. pending = cb.id /\ pending # 0 /\ cb.pc # "idle"
      BY <2>2 DEF Reset, Grounded, Handshake, EndsPending
    <3> QED
      BY <1>1, <3>1 DEF Unheard
  <2> QED
    BY <2>1, <2>2
<1>5. Gone(n)' <=> Gone(n)
  BY <1>2 DEF Gone
<1>6. \A i : LineBefore(n, i)' <=> LineBefore(n, i)
  BY <1>2 DEF LineBefore
<1> QED
  BY <1>1, <1>2, <1>3, <1>4, <1>5, <1>6 DEF Unheard

LEMMA LinesJoined ==
    ASSUME inbox \in Seq(Message), NEW msgs \in Seq(Message), Emit(msgs)
    PROVE  \A n, i : LineBefore(n, i) => LineBefore(n, i)'
<1>1. /\ \A j \in 1..Len(inbox) : inbox'[j] = inbox[j]
      /\ Len(inbox') = Len(inbox) + Len(msgs) /\ Len(inbox) \in Nat /\ Len(msgs) \in Nat
  BY Joined
<1>2. \A j \in 1..Len(inbox) : j \in 1..Len(inbox')
  BY <1>1
<1> QED
  BY <1>1, <1>2 DEF LineBefore

LEMMA UnheardOfEngine ==
    ASSUME Grounded, SentIsUnheard, NEW k \in Nums, Engine(k)
    PROVE  SentIsUnheard'
<1>0. exch \in [Nums -> ExchangeOrder] /\ inbox \in Seq(Message)
  BY DEF Grounded, Inv, TypeOK, EngineTypeOK
<1>1. UNCHANGED <<main, orders, pending, cb>>
  BY DEF Engine
<1> SUFFICES ASSUME main.pc = "buying", orders[main.slot].num = 0,
                    NEW s, s = main.slot, NEW n, n = OrderNum(s)
             PROVE  Unheard(s, n)'
  BY <1>1 DEF SentIsUnheard
<1>2. Unheard(s, n) /\ n \in Nums
  BY SendingFacts DEF Grounded, SentIsUnheard
<1>3. PICK f \in ExchangeOrder, msgs \in Seq(Message) :
        /\ exch' = [exch EXCEPT ![k] = f]
        /\ Evolves(exch[k], f) /\ f.cancels <= exch[k].cancels
        /\ Says(k, exch[k], f, msgs) /\ Emit(msgs)
  BY EngineGoesOn DEF Grounded, Inv, TypeOK, Truth, Engine
<1>4. /\ \A j \in 1..Len(inbox) : inbox'[j] = inbox[j]
      /\ \A j \in 1..Len(msgs) : inbox'[Len(inbox) + j] = msgs[j]
      /\ \A j \in 1..Len(inbox') : j \notin 1..Len(inbox) =>
           j - Len(inbox) \in 1..Len(msgs) /\ inbox'[j] = msgs[j - Len(inbox)]
      /\ Len(inbox') = Len(inbox) + Len(msgs) /\ Len(inbox) \in Nat /\ Len(msgs) \in Nat
  <2>1. inbox \in Seq(Message) /\ msgs \in Seq(Message) /\ Emit(msgs)
    BY <1>0, <1>3
  <2>2. Len(inbox) \in Nat /\ Len(msgs) \in Nat
    BY <2>1
  <2> QED
    BY <2>1, <2>2, Joined
<1>5. \A i : LineBefore(n, i) => LineBefore(n, i)'
  BY <1>0, <1>3, LinesJoined
<1>6. Gone(n) => Gone(n)'
  <2>1. Next /\ \A r \in Requests : ~SendOrder(r)
    BY DEF Next, SendOrder, mainIdle
  <2> QED
    BY <1>2, <2>1, GoneStays DEF Grounded
<1>7. exch'[n].cancels = 0
  <2>1. CASE k = n
    <3>1. exch'[n] = f /\ f.cancels <= exch[n].cancels /\ f.cancels \in Nat
      BY <1>0, <1>3, <2>1 DEF ExchangeOrder
    <3> QED
      BY <1>2, <3>1 DEF Unheard
  <2>2. CASE k # n
    BY <1>0, <1>2, <1>3, <2>2 DEF Unheard
  <2> QED
    BY <2>1, <2>2
<1>8. exch'[n].st = "open" => LineBefore(n, Len(inbox) + 1)'
  <2> SUFFICES ASSUME exch'[n].st = "open"
               PROVE  \E j \in 1..Len(inbox') :
                        j < Len(inbox') + 1 /\ inbox'[j].num = n /\ inbox'[j].kind = "Line"
    BY DEF LineBefore
  <2>1. ASSUME NEW j \in 1..Len(inbox'), inbox'[j].num = n, inbox'[j].kind = "Line"
        PROVE  \E j2 \in 1..Len(inbox') :
                 j2 < Len(inbox') + 1 /\ inbox'[j2].num = n /\ inbox'[j2].kind = "Line"
    BY <1>4, <2>1
  <2>2. CASE exch[n].st = "open"
    <3>1. \E j \in 1..Len(inbox') : inbox'[j].num = n /\ inbox'[j].kind = "Line"
      BY <1>2, <1>5, <2>2 DEF Unheard, LineBefore
    <3> QED
      BY <2>1, <3>1
  <2>3. CASE exch[n].st # "open"
    <3>1. k = n
      BY <1>0, <1>2, <1>3, <2>3
    <3>2. exch'[n] = f /\ f.st = "open" /\ exch[n].st \notin Finished \cup {"none"}
      BY <1>0, <1>3, <3>1 DEF Evolves, Finished, Reasons
    <3>3. exch[n].st = "sent"
      BY <1>0, <1>2, <2>3, <3>2 DEF ExchangeOrder
    <3>4. msgs[1].kind = "Line" /\ msgs[1].num = n /\ 1 \in 1..Len(msgs)
      BY <1>3, <1>4, <3>1, <3>2, <3>3 DEF Says
    <3>5. Len(inbox) + 1 \in 1..Len(inbox') /\ inbox'[Len(inbox) + 1] = msgs[1]
      BY <1>4, <3>4
    <3> QED
      BY <2>1, <3>4, <3>5
  <2> QED
    BY <2>2, <2>3
<1>9. ASSUME NEW j \in 1..Len(inbox'), inbox'[j].num = n
      PROVE  /\ inbox'[j].kind # "History"
             /\ inbox'[j].kind \in {"Fill", "Cancel"} => LineBefore(n, j)'
             /\ inbox'[j].kind \in {"Failure", "Reject"} => Gone(n)'
  <2>1. CASE j \in 1..Len(inbox)
    BY <1>2, <1>4, <1>5, <1>6, <1>9, <2>1 DEF Unheard
  <2>2. CASE j \notin 1..Len(inbox)
    <3>1. PICK l \in 1..Len(msgs) : inbox'[j] = msgs[l]
      BY <1>4, <2>2
    <3>2. /\ msgs[l].num = k /\ msgs[l].kind # "History"
          /\ msgs[l].kind \in {"Fill", "Cancel"} => exch[k].st = "open"
          /\ msgs[l].kind \in {"Failure", "Reject"} =>
               f.st \in {"Failure", "Reject"} \/ exch[k].cancels > 0
      BY <1>3 DEF Says
    <3>3. k = n /\ exch'[n] = f
      BY <1>0, <1>3, <1>9, <3>1, <3>2
    <3>4. exch[n].st = "open" => LineBefore(n, j)'
      <4> SUFFICES ASSUME exch[n].st = "open"
                   PROVE  \E j2 \in 1..Len(inbox') :
                            j2 < j /\ inbox'[j2].num = n /\ inbox'[j2].kind = "Line"
        BY DEF LineBefore
      <4>1. PICK j2 \in 1..Len(inbox) : inbox[j2].num = n /\ inbox[j2].kind = "Line"
        BY <1>2 DEF Unheard, LineBefore
      <4>2. j2 < j /\ j2 \in 1..Len(inbox')
        BY <1>4, <2>2
      <4> QED
        BY <1>4, <4>1, <4>2
    <3>5. f.st \in {"Failure", "Reject"} => Gone(n)'
      BY <3>3 DEF Gone, Ends
    <3>6. ~(exch[n].cancels > 0)
      BY <1>2 DEF Unheard
    <3> QED
      BY <3>1, <3>2, <3>3, <3>4, <3>5, <3>6
  <2> QED
    BY <2>1, <2>2
<1> QED
  BY <1>1, <1>2, <1>6, <1>7, <1>8, <1>9 DEF Unheard

-----------------------------------------------------------------------------
(* Zorro's thread. *)

LEMMA UnheardOfSend ==
    ASSUME Grounded, Answers, Undisturbed, NEW r \in Requests, SendOrder(r)
    PROVE  SentIsUnheard'
<1> DEFINE n == OrderNum(nextIndex)
           o == NewOrder(Tag(n), 0, r.limit, r.lasting)
<1>0. /\ exch \in [Nums -> ExchangeOrder] /\ orders \in [Slots -> Order]
      /\ nextIndex \in 0..MaxOrders /\ inbox \in Seq(Message)
  BY DEF Grounded, Inv, TypeOK, EngineTypeOK
<1>1. nextIndex \in Slots /\ n \in Nums
  BY <1>0, SlotFacts DEF SendOrder
<1>2. exch[n].st = "none" /\ exch[n].cancels = 0
  BY <1>0, <1>1 DEF Grounded, Unsent, Answers, NoneCancelled, Slots
<1>3. o.ts = 0 /\ o.armed = FALSE
  BY DEF NewOrder
<1>4. /\ main' = [Idle EXCEPT !.pc = "buying", !.slot = nextIndex]
      /\ exch' = [exch EXCEPT ![n].st = "sent", ![n].rests = r.limit /\ r.lasting]
      /\ orders' = [orders EXCEPT ![nextIndex] = o]
      /\ pending' = Tag(n) /\ UNCHANGED <<cb, inbox>>
  BY DEF SendOrder, Undisturbed, EngineMayFail
<1>5. main'.slot = nextIndex /\ orders'[nextIndex] = o
  BY <1>0, <1>1, <1>4 DEF Idle
<1>6. exch'[n].st = "sent" /\ exch'[n].cancels = 0
  BY <1>0, <1>1, <1>2, <1>4 DEF ExchangeOrder
<1>7. pending' # 0
  BY <1>1, <1>4, TagFacts, NumAssumption
<1> HIDE DEF o
<1>8. \A i \in 1..Len(inbox) : inbox[i].num = n => inbox[i].kind = "ReplayEnd"
  BY <1>2 DEF Grounded, Truth, NoneUnsent
<1>9. ~(cb.pc # "idle" /\ cb.id = Tag(n))
  BY <1>1, <1>2 DEF Answers, WorksForSent
<1>10. \A s, k : s = nextIndex /\ k = n => Unheard(s, k)'
  BY <1>3, <1>4, <1>5, <1>6, <1>7, <1>8, <1>9 DEF Unheard
<1>11. OrderNum(main'.slot) = n
  BY <1>5
<1> QED
  BY <1>5, <1>10, <1>11 DEF SentIsUnheard

(* How doSendOrder returns.                                                *)
LEMMA ReturnedAreGone ==
    ASSUME Grounded, Answers, Faults = {}, FinishSend
    PROVE  DisownedAreGone'
<1> DEFINE s == main.slot
           n == OrderNum(s)
           o == orders[s]
<1>1. /\ s \in Slots /\ n \in Nums /\ o \in Order /\ ctx[n] = s
  BY SendingFacts DEF Grounded, FinishSend
<1>2. UNCHANGED exch /\ pending = 0 /\ main.pc = "buying"
  BY DEF FinishSend
<1>3. returned \in [Slots -> Outcomes]
  BY DEF Grounded, Inv, TypeOK
<1>4. PICK how :
        /\ returned' = [returned EXCEPT ![s] = how]
        /\ how \in Disowning => o.num = 0 \/ o.reason \in Ends
  <2>1. ReadReason(o) = {o.reason}
    BY DEF ReadReason
  <2>2. o.reason \in Reasons \cup {"None"}
    BY <1>1 DEF Order
  <2> QED
    <3> DEFINE How(read, again) ==
                 IF o.num = 0 THEN "NoNumber"
                 ELSE IF read \notin {"None", "Fill", "PFBC"} THEN "Completed"
                 ELSE IF again \in {"Failure", "Cancel", "Reject"} THEN "Disowned"
                 ELSE "Accepted"
    <3>1. \E read \in ReadReason(o), again \in ReadReason(o) :
            returned' = [returned EXCEPT ![s] = How(read, again)]
      BY DEF FinishSend
    <3>2. returned' = [returned EXCEPT ![s] = How(o.reason, o.reason)]
      BY <2>1, <3>1
    <3>3. How(o.reason, o.reason) \in Disowning => o.num = 0 \/ o.reason \in Ends
      BY <2>2 DEF Disowning, Ends, Reasons
    <3> HIDE DEF How
    <3> QED
      BY <3>2, <3>3
<1>5. o.num = 0 => Gone(n)
  BY <1>2 DEF Answers, SentIsUnheard, Unheard
<1>6. o.reason \in Ends => Gone(n)
  BY <1>1, SlotFacts DEF Grounded, Truth, SlotsTruthful, Holds, SlotTrueOf, Gone
<1>7. \A t \in Slots : returned'[t] \in Disowning => Gone(OrderNum(t))
  BY <1>1, <1>3, <1>4, <1>5, <1>6 DEF Answers, DisownedAreGone
<1> QED
  BY <1>2, <1>7 DEF DisownedAreGone, Gone

LEMMA DisownedStay ==
    ASSUME Grounded, Answers, Undisturbed, Next, ~FinishSend
    PROVE  DisownedAreGone'
<1>0. returned \in [Slots -> Outcomes] /\ nextIndex \in 0..MaxOrders
  BY DEF Grounded, Inv, TypeOK
<1>1. ~(ReturnTimedOut \/ AbortSend)
  BY DEF Undisturbed, AbortSend, ReturnTimedOut, Grounded, Handshake, OnlyWaiting
<1>2. UNCHANGED returned
  BY <1>1 DEF Next, Call, Proceed, GiveUp, Callback, Handle, Engine, OpenOrderReplay, Login,
      TimeOut, CancelTimedOut, DoCancel, CancelNothing, SendOrder, SendCancel, Undisturbed,
      FinishCancel, AbortCancel, RetrieveOrder, FinishRetrieve, Retrieved, AbortRetrieve,
      LineDropped, LineStale, LineSendsCancel, LineApplied, LineError, ReportApplied,
      ReportDropped, NotCancelledReport, SingleOrderReplay, Test, Reset, EngineMayFail
<1> SUFFICES ASSUME NEW s \in Slots, returned[s] \in Disowning
             PROVE  Gone(OrderNum(s))'
  BY <1>2 DEF DisownedAreGone
<1>3. s < nextIndex
  BY DEF Grounded, Inv, FreshOK, Disowning
<1>4. \A r \in Requests : SendOrder(r) => OrderNum(s) # OrderNum(nextIndex)
  <2>1. ASSUME NEW r \in Requests, SendOrder(r)
        PROVE  nextIndex \in Slots
    BY <1>0, <2>1, SlotFacts DEF SendOrder
  <2> QED
    BY <1>0, <1>3, <2>1, SlotFacts
<1>5. Gone(OrderNum(s)) /\ OrderNum(s) \in Nums
  BY SlotFacts DEF Answers, DisownedAreGone
<1> QED
  BY <1>4, <1>5, GoneStays DEF Grounded

(* The other steps of Zorro's thread: no order is being sent after them.   *)
LEMMA NotBuying ==
    ASSUME Grounded, Undisturbed, Call \/ Proceed \/ GiveUp,
           \A r \in Requests : ~SendOrder(r)
    PROVE  main'.pc # "buying"
<1>1. /\ main.pc \notin {"timeout", "clear"} /\ main.then = "idle"
      /\ main \in MainStates
  BY DEF Grounded, Handshake, OnlyWaiting, Inv, TypeOK
<1>2. Return => main'.pc = "idle"
  BY <1>1 DEF Return, Idle
<1>3. ~EngineMayFail /\ "Abort" \notin Faults /\ "Timeout" \notin Faults
  BY DEF Undisturbed, EngineMayFail
<1>4. Idle.pc = "idle" /\ [Idle EXCEPT !.pc = "cancel"].pc = "cancel"
  BY DEF Idle
<1> QED
  BY <1>1, <1>2, <1>3, <1>4
  DEF Call, Proceed, GiveUp, OpenOrderReplay, DoCancel, RetrieveOrder, Login, FinishSend,
      CancelTimedOut, ReturnTimedOut, CancelNothing, SendCancel, FinishCancel, FinishRetrieve,
      Retrieved, AbortSend, TimeOut, AbortCancel, AbortRetrieve, MainStates, mainIdle, Idle

LEMMA WorksForSentStep ==
    ASSUME Grounded, WorksForSent, Next
    PROVE  WorksForSent'
<1> SUFFICES ASSUME NEW n \in Nums, cb'.pc # "idle", cb'.id = Tag(n)
             PROVE  exch'[n].st # "none"
  BY DEF WorksForSent
<1>1. exch[n].st # "none" => exch'[n].st # "none"
  <2>1. \A r \in Requests : SendOrder(r) => nextIndex \in Slots
    BY SlotFacts DEF Grounded, Inv, TypeOK, SendOrder
  <2>2. CASE \A r \in Requests : SendOrder(r) => n # OrderNum(nextIndex)
    BY <2>2, GoneStays DEF Grounded
  <2>3. CASE \E r \in Requests : SendOrder(r) /\ n = OrderNum(nextIndex)
    BY <2>1, <2>3 DEF Grounded, Unsent, Slots
  <2> QED
    BY <2>2, <2>3
<1>2. ASSUME NEW i \in Deliverable, Handle(i)
      PROVE  exch[n].st # "none"
  <2>1. inbox[i].num = n /\ inbox[i].kind # "ReplayEnd" /\ i \in 1..Len(inbox)
    BY <1>2, HandlerWorksFor DEF Grounded, Deliverable
  <2> QED
    BY <2>1 DEF Grounded, Truth, NoneUnsent
<1>3. CASE Test \/ Reset
  <2>1. cb.pc # "idle" /\ cb.id = Tag(n)
    BY <1>3 DEF Test, Reset, Grounded, Inv, TypeOK, CallbackStates
  <2> QED
    BY <1>1, <2>1 DEF WorksForSent
<1>4. CASE Call \/ Proceed \/ GiveUp \/ \E k \in Nums : Engine(k)
  <2>1. UNCHANGED cb
    BY <1>4 DEF Call, Proceed, GiveUp, Engine, SendOrder, OpenOrderReplay, DoCancel,
      RetrieveOrder, Login, FinishSend, CancelTimedOut, ReturnTimedOut, CancelNothing, SendCancel,
      FinishCancel, FinishRetrieve, Retrieved, AbortSend, TimeOut, AbortCancel, AbortRetrieve
  <2> QED
    BY <1>1, <2>1 DEF WorksForSent
<1> QED
  BY <1>1, <1>2, <1>3, <1>4 DEF Next, Callback

LEMMA AnswersStep ==
    ASSUME Grounded, Answers, Faults = {}, [Next]_vars
    PROVE  Answers'
<1>u. Undisturbed
  BY DEF Undisturbed
<1>1. CASE UNCHANGED vars
  <2>1. \A n, i : LineBefore(n, i)' <=> LineBefore(n, i)
    BY <1>1 DEF vars, LineBefore
  <2>2. \A n : Gone(n)' <=> Gone(n)
    BY <1>1 DEF vars, Gone
  <2>3. \A s, n : Unheard(s, n) => Unheard(s, n)'
    BY <1>1, <2>1, <2>2 DEF vars, Unheard
  <2> QED
    BY <1>1, <2>2, <2>3
    DEF vars, Answers, SentIsUnheard, WorksForSent, NoneCancelled, DisownedAreGone
<1>2. CASE Next
  <2>1. WorksForSent' /\ NoneCancelled'
    BY <1>2, WorksForSentStep, NoneCancelledStep DEF Answers, Grounded
  <2>2. DisownedAreGone'
    BY <1>u, <1>2, ReturnedAreGone, DisownedStay
  <2>3. SentIsUnheard'
    <3>1. CASE Call \/ Proceed \/ GiveUp
      <4>1. CASE \E r \in Requests : SendOrder(r)
        BY <1>u, <4>1, UnheardOfSend
      <4>2. CASE ~\E r \in Requests : SendOrder(r)
        BY <1>u, <3>1, <4>2, NotBuying DEF SentIsUnheard
      <4> QED
        BY <4>1, <4>2
    <3>2. CASE Callback
      BY <3>2, UnheardOfHandler, UnheardOfTest DEF Callback, Answers
    <3>3. CASE \E n \in Nums : Engine(n)
      BY <3>3, UnheardOfEngine DEF Answers
    <3> QED
      BY <1>2, <3>1, <3>2, <3>3 DEF Next
  <2> QED
    BY <2>1, <2>2, <2>3 DEF Answers
<1> QED
  BY <1>1, <1>2

LEMMA AnswersInit == Init => Answers
<1> SUFFICES ASSUME Init PROVE Answers
  OBVIOUS
<1>1. main.pc # "buying" /\ cb.pc = "idle" /\ \A s \in Slots : returned[s] = "none"
  BY DEF Init, Idle
<1>2. \A n \in Nums : exch[n].cancels = 0
  BY DEF Init, EngineInit, NoExchangeOrder
<1> QED
  BY <1>1, <1>2, SlotFacts
  DEF Answers, SentIsUnheard, WorksForSent, NoneCancelled, DisownedAreGone, Disowning

(* No order that doSendOrder disowns is at the exchange or was filled      *)
(* there, if the engine takes what it is given, no call gives up, and      *)
(* callbacks come in order.                                                *)
THEOREM DisownedOrdersAreDead ==
    ASSUME Faults = {}
    PROVE  Spec => []DisownedIsDead
<1>u. Undisturbed
  BY DEF Undisturbed
<1>1. Grounded /\ Answers /\ [Next]_vars => Answers'
  BY AnswersStep
<1>2. Truth /\ Answers => DisownedIsDead
  <2> SUFFICES ASSUME Truth, NEW s \in Slots, Gone(OrderNum(s))
               PROVE  ~Live(OrderNum(s)) /\ exch[OrderNum(s)].filled = 0
    BY DEF Answers, DisownedAreGone, DisownedIsDead, Disowning
  <2>1. Sound(exch[OrderNum(s)])
    BY SlotFacts DEF Truth
  <2> QED
    BY <2>1 DEF Gone, Ends, Sound, Live
<1>3. Spec => []Grounded
  BY <1>u, Inductive, TruthInvariance, HandshakeInvariance, PTL DEF Grounded
<1> QED
  BY <1>1, <1>2, <1>3, AnswersInit, PTL DEF Spec, Grounded
=============================================================================
