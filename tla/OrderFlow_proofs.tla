-------------------------- MODULE OrderFlow_proofs --------------------------
(***************************************************************************)
(* Theorems about OrderFlow, for every value of its constants: any number  *)
(* of slots and old orders, every fault.                                   *)
(*                                                                         *)
(* Inv is the inductive invariant.  Its parts say who owns what: a slot    *)
(* that some order's context names belongs to that order and to no other   *)
(* (CtxOK), a number that was not sent yet is not registered (FreshOK),    *)
(* and the slot of the call under way is bound to its order (CallOK).      *)
(***************************************************************************)
EXTENDS OrderFlow, TLAPS

(* Slot s holds order n, or nothing that a callback for another order can  *)
(* match.                                                                  *)
Belongs(s, n) ==
    /\ orders[s].num \in {0, n}
    /\ orders[s].num = 0 => orders[s].cid = Tag(n)
    /\ orders[s].cid \in {0, IntMax, Tag(n)}

CtxOK ==
    \A n \in Nums : ctx[n] # NoSlot => ctx[n] < nextIndex /\ Belongs(ctx[n], n)

(* Until login is over only restored orders have slots, and nothing is     *)
(* registered.                                                             *)
LoginBooks ==
    /\ \A n \in Nums : byId[n] = NoSlot
    /\ \A n \in Nums : ctx[n] # NoSlot => orders[ctx[n]].num = n
    /\ \A s \in Slots : orders[s].num # 0 =>
         /\ s < nextIndex
         /\ orders[s].num \in Tagged /\ orders[s].cid = RestoredId(orders[s].num)
         /\ ctx[orders[s].num] = s \/ (EngineMayFail /\ ctx[orders[s].num] = NoSlot)

FreshOK ==
    /\ \A s \in Slots : returned[s] # "none" => s < nextIndex
    /\ \A n \in Nums : byId[n] # NoSlot => byId[n] < nextIndex
    /\ \A s \in Slots : s >= nextIndex => byId[OrderNum(s)] = NoSlot
    /\ main.pc = "login" => LoginBooks

(* The slot that doSendOrder works on, from the send to its return.        *)
Sending(s) ==
    /\ s \in Slots
    /\ s < nextIndex
    /\ ctx[OrderNum(s)] = s
    /\ orders[s].cid = Tag(OrderNum(s))
    /\ orders[s].num \in {0, OrderNum(s)}
    /\ byId[OrderNum(s)] = NoSlot

Retrieving(s, n) ==
    /\ s \in Slots
    /\ n \in Nums
    /\ ctx[n] = s
    /\ orders[s].num = n
    /\ orders[s].cid \in {0, Tag(n)}
    /\ \A k \in Slots : k >= nextIndex => n # OrderNum(k)

CallOK ==
    /\ main.pc \in {"buying", "timeout", "clear"} => Sending(main.slot)
    /\ main.pc = "retrieving" => Retrieving(main.slot, main.num)
    /\ main.pc \in {"cancel", "cancelling"} => main.num \in Nums
    /\ main.pc \in {"cancel", "cancelling"} /\ main.then = "clear" =>
         main.num = OrderNum(main.slot) /\ Sending(main.slot)
    /\ main.pc = "cancelling" => byId[main.num] # NoSlot

Inv == TypeOK /\ RegisteredIsHeard /\ CtxOK /\ FreshOK /\ CallOK /\ WaitOwnsPending
-----------------------------------------------------------------------------
(* Numbers, tags and slots. *)

(* The tags of different orders differ, and none survives atoi.            *)
LEMMA TagFacts ==
    /\ 0 \notin Nums /\ Nums \subseteq Nat
    /\ \A n \in Nums : Tag(n) \in Nat /\ Tag(n) > IntMax
    /\ \A m, n \in Nums : Tag(m) = Tag(n) => m = n
<1> USE NumAssumption, BaseAssumption, SlotAssumption
<1> USE DEF Nums, OwnNums, OneNum, Tag
<1>1. 0 \notin Nums /\ Nums \subseteq Nat
  OBVIOUS
<1>2. \A n \in Nums : Tag(n) \in Nat /\ Tag(n) > IntMax
  OBVIOUS
<1>3. ASSUME NEW m \in Nums, NEW n \in Nums, Tag(m) = Tag(n)
      PROVE  m = n
  BY <1>1, <1>3
<1> QED
  BY <1>1, <1>2, <1>3

(* No restored order keeps the client order id of its tag.                 *)
LEMMA RestoredFacts ==
    \A n \in Nums : RestoredId(n) = IntMax /\ RestoredId(n) \in Nat
BY TagFacts, NumAssumption DEF RestoredId, Atoi

(* The ids that a registered order may have are none that a slot without   *)
(* an order has.                                                           *)
LEMMA KnownFacts ==
    \A n \in Nums : Tag(n) \in KnownIds(n) /\ 0 \notin KnownIds(n)
                     /\ (n \in Tagged => RestoredId(n) \in KnownIds(n))
                     /\ (n \notin Tagged => KnownIds(n) = {Tag(n)})
<1>1. IntMax # 0 /\ \A n \in Nums : Tag(n) # 0
  BY TagFacts, NumAssumption
<1> QED
  BY <1>1, RestoredFacts DEF KnownIds

(* Slots and order numbers correspond, and no slot is NoSlot.              *)
LEMMA SlotFacts ==
    /\ NoSlot \notin Slots
    /\ \A s \in Slots : s \in Nat /\ OrderNum(s) \in Nums /\ OrderNum(s) # OneNum
                        /\ OrderNum(s) \notin OldNums
    /\ \A r, s \in Slots : OrderNum(r) = OrderNum(s) => r = s
    /\ \A k \in 0..MaxOrders : k < MaxOrders => k \in Slots
BY NumAssumption, SlotAssumption DEF Slots, NoSlot, OrderNum, Nums, OwnNums, OneNum

(* Taking a callback out of the queue leaves a queue.                      *)
LEMMA TakesFacts ==
    ASSUME inbox \in Seq(Message), NEW i \in Deliverable, NEW kinds, Takes(i, kinds)
    PROVE  /\ inbox' \in Seq(Message)
           /\ inbox[i] \in Message
           /\ inbox[i].kind \in kinds
           /\ inbox[i].num \in Nums
<1>1. i \in 1..Len(inbox)
  BY DEF Deliverable
<1>2. SubSeq(inbox, 1, i-1) \in Seq(Message) /\ SubSeq(inbox, i+1, Len(inbox)) \in Seq(Message)
  BY <1>1
<1>3. inbox' \in Seq(Message)
  BY <1>2 DEF Takes, RemoveAt
<1>4. inbox[i] \in Message
  BY <1>1
<1>5. inbox[i].num \in Nums
  BY <1>4 DEF Message
<1> QED
  BY <1>3, <1>4, <1>5 DEF Takes

(* What the engine emits joins the queue.                                  *)
LEMMA EmitFacts ==
    ASSUME inbox \in Seq(Message), NEW a \in Message, NEW b \in Message
    PROVE  Emit(<<a>>) \/ Emit(<<a, b>>) => inbox' \in Seq(Message)
<1>1. <<a>> \in Seq(Message) /\ <<a, b>> \in Seq(Message)
  OBVIOUS
<1>2. \A msgs \in Seq(Message) : inbox \o msgs \in Seq(Message)
  OBVIOUS
<1> QED
  BY <1>1, <1>2 DEF Emit

(* The callbacks about an exchange order are well formed.                  *)
LEMMA MessageFacts ==
    ASSUME NEW n \in Nums, NEW e \in ExchangeOrder
    PROVE  /\ \A kind \in Lines, reason \in Reasons \cup {"None"} :
                Line(kind, n, e, reason) \in Message
           /\ \A kind \in Reports, filled \in 0..Qty : Report(kind, n, filled) \in Message
           /\ Reason(e) \in Reasons \cup {"None"}
BY DEF Line, Report, Reason, Message, ExchangeOrder, Finished

-----------------------------------------------------------------------------
(* Type correctness. *)

(* New and updated orders are orders.                                      *)
LEMMA OrderFacts ==
    /\ \A cid \in Nat, num \in Nums \cup {0}, limit \in BOOLEAN, lasting \in BOOLEAN :
         NewOrder(cid, num, limit, lasting) \in Order
    /\ \A o \in Order, m \in Message :
         /\ Updated(o, m) \in Order
         /\ m.kind \in Reported => Marked(o, m) \in Order
<1>1. ASSUME NEW cid \in Nat, NEW num \in Nums \cup {0}, NEW limit \in BOOLEAN,
             NEW lasting \in BOOLEAN
      PROVE  NewOrder(cid, num, limit, lasting) \in Order
  BY QtyAssumption DEF NewOrder, Order
<1>2. ASSUME NEW o \in Order, NEW m \in Message
      PROVE  Updated(o, m) \in Order
  BY TagFacts DEF Updated, Order, Message
<1>3. ASSUME NEW o \in Order, NEW m \in Message, m.kind \in Reported
      PROVE  Marked(o, m) \in Order
  BY <1>3 DEF Marked, Order, Message, Reported
<1> QED
  BY <1>1, <1>2, <1>3

(* The engine keeps its own types.                                         *)
LEMMA EngineTypeStep ==
    ASSUME EngineTypeOK, NEW n \in Nums, EngineStep(n)
    PROVE  EngineTypeOK'
<1> USE DEF EngineTypeOK
<1>0. exch[n] \in ExchangeOrder /\ exch[n].seq + 1 \in Nat /\ ctx' = ctx
  <2>1. exch[n] \in ExchangeOrder /\ exch[n].seq + 1 \in Nat
    BY DEF ExchangeOrder
  <2>2. ctx' = ctx
    BY DEF EngineStep, Acknowledge, Refuse, Reject, Fill, Cancel, RefuseCancel, Announce
  <2> QED
    BY <2>1, <2>2
<1>1. ASSUME NEW e \in ExchangeOrder, exch' = [exch EXCEPT ![n] = e]
      PROVE  exch' \in [Nums -> ExchangeOrder]
  BY <1>1
<1>2. ASSUME NEW e \in ExchangeOrder, NEW report \in Message, Announce(n, e, report)
      PROVE  EngineTypeOK'
  <2>1. Line("Line", n, e, Reason(e)) \in Message
    BY MessageFacts DEF Lines
  <2>2. \A a, b \in Message : Emit(<<a, b>>) => inbox' \in Seq(Message)
    BY EmitFacts
  <2>3. inbox' \in Seq(Message)
    BY <1>2, <2>1, <2>2 DEF Announce
  <2> QED
    BY <1>0, <1>1, <1>2, <2>3 DEF Announce
<1>9. ASSUME NEW a \in Message, Emit(<<a>>)
      PROVE  inbox' \in Seq(Message)
  BY <1>9, EmitFacts
<1>3. CASE Acknowledge(n)
  <2> DEFINE e == [exch[n] EXCEPT !.st = "open", !.seq = @ + 1]
  <2>1. e \in ExchangeOrder
    BY <1>0 DEF ExchangeOrder
  <2>2. Line("Line", n, e, "None") \in Message
    BY <2>1, MessageFacts DEF Lines
  <2>3. inbox' \in Seq(Message)
    BY <1>3, <1>9, <2>2 DEF Acknowledge
  <2> QED
    BY <1>0, <1>1, <1>3, <2>1, <2>3 DEF Acknowledge
<1>4. CASE Refuse(n)
  <2>1. Report("LineError", n, 0) \in Message
    BY QtyAssumption, <1>0, MessageFacts DEF Reports
  <2>2. inbox' \in Seq(Message)
    BY <1>4, <1>9, <2>1 DEF Refuse
  <2>3. exch' \in [Nums -> ExchangeOrder]
    BY <1>4, <1>0 DEF Refuse, ExchangeOrder, Finished
  <2> QED
    BY <1>0, <2>2, <2>3
<1>5. CASE Reject(n)
  <2>1. PICK why \in {"Reject", "Failure"} :
          Announce(n, [exch[n] EXCEPT !.st = why, !.seq = @ + 1], Report(why, n, 0))
    BY <1>5 DEF Reject
  <2>2. [exch[n] EXCEPT !.st = why, !.seq = @ + 1] \in ExchangeOrder
    BY <1>0 DEF ExchangeOrder, Finished, Reasons
  <2>3. Report(why, n, 0) \in Message
    BY <1>0, QtyAssumption, MessageFacts DEF Reports
  <2> QED
    BY <1>2, <2>1, <2>2, <2>3
<1>6. CASE Fill(n)
  <2>1. PICK total \in exch[n].filled + 1 .. Qty :
          Announce(n, [exch[n] EXCEPT !.filled = total, !.seq = @ + 1,
                                      !.st = IF total = Qty THEN "Fill" ELSE @],
                   Report("Fill", n, total))
    BY <1>6 DEF Fill
  <2>2. total \in 0..Qty
    BY <1>0, QtyAssumption DEF ExchangeOrder
  <2>3. [exch[n] EXCEPT !.filled = total, !.seq = @ + 1,
                        !.st = IF total = Qty THEN "Fill" ELSE @] \in ExchangeOrder
    BY <1>0, <2>2 DEF ExchangeOrder, Finished, Reasons
  <2>4. Report("Fill", n, total) \in Message
    BY <1>0, <2>2, MessageFacts DEF Reports
  <2> QED
    BY <1>2, <2>1, <2>3, <2>4
<1>7. CASE Cancel(n)
  <2>1. [exch[n] EXCEPT !.st = IF exch[n].filled > 0 THEN "PFBC" ELSE "Cancel",
                        !.seq = @ + 1,
                        !.cancels = IF @ > 0 THEN @ - 1 ELSE @] \in ExchangeOrder
    <3>1. (IF exch[n].cancels > 0 THEN exch[n].cancels - 1 ELSE exch[n].cancels) \in Nat
      BY <1>0 DEF ExchangeOrder
    <3>2. (IF exch[n].filled > 0 THEN "PFBC" ELSE "Cancel") \in Finished
      BY DEF Finished, Reasons
    <3> QED
      BY <1>0, <3>1, <3>2 DEF ExchangeOrder
  <2>2. Report("Cancel", n, 0) \in Message
    BY <1>0, QtyAssumption, MessageFacts DEF Reports
  <2> QED
    BY <1>2, <1>7, <2>1, <2>2 DEF Cancel
<1>8. CASE RefuseCancel(n)
  <2>1. \A kind \in {"NotCancelled", "Failure"} : Report(kind, n, 0) \in Message
    BY QtyAssumption, <1>0, MessageFacts DEF Reports
  <2>2. inbox' \in Seq(Message)
    BY <1>8, <1>9, <2>1 DEF RefuseCancel
  <2>3. exch' \in [Nums -> ExchangeOrder]
    <3>1. exch[n].cancels - 1 \in Nat
      BY <1>8, <1>0 DEF RefuseCancel, ExchangeOrder
    <3>2. [exch[n] EXCEPT !.cancels = @ - 1] \in ExchangeOrder
      BY <1>0, <3>1 DEF ExchangeOrder
    <3>3. exch' = [exch EXCEPT ![n] = [exch[n] EXCEPT !.cancels = @ - 1]]
      BY <1>8 DEF RefuseCancel
    <3> QED
      BY <1>1, <3>2, <3>3
  <2> QED
    BY <1>0, <2>2, <2>3
<1> QED
  BY <1>3, <1>4, <1>5, <1>6, <1>7, <1>8 DEF EngineStep

(* Every step of the plugin and of the engine keeps the types.             *)
LEMMA TypeStep ==
    ASSUME Inv, Next
    PROVE  TypeOK'
<1> USE DEF TypeOK, EngineTypeOK
<1>0. TypeOK /\ CallOK
  BY DEF Inv
<1>a. ASSUME NEW s, NEW o \in Order, orders' = [orders EXCEPT ![s] = o]
      PROVE  orders' \in [Slots -> Order]
  BY <1>0, <1>a
<1>b. nextIndex < MaxOrders => nextIndex \in Slots /\ nextIndex + 1 \in 0..MaxOrders
  BY <1>0, SlotAssumption DEF Slots
<1>c. Idle \in MainStates
  BY DEF Idle, MainStates
<1>d. Return => main' \in MainStates
  BY <1>0, <1>c DEF Return, MainStates
<1>f. ASSUME NEW n \in Nums, exch[n].cancels + 1 \in Nat
      PROVE  [exch EXCEPT ![n].cancels = @ + 1, ![n].asked = TRUE]
               \in [Nums -> ExchangeOrder]
  BY <1>0, <1>f DEF ExchangeOrder
<1>1. ASSUME NEW n \in Nums, OpenOrderReplay(n)
      PROVE  TypeOK'
  <2>1. nextIndex \in Slots /\ nextIndex + 1 \in 0..MaxOrders
    BY <1>1, <1>b DEF OpenOrderReplay
  <2>2. NewOrder(RestoredId(n), n, FALSE, TRUE) \in Order
    BY RestoredFacts, OrderFacts
  <2>3. exch[n].filled \in 0..Qty
    BY <1>0 DEF ExchangeOrder
  <2>4. [NewOrder(RestoredId(n), n, FALSE, TRUE) EXCEPT !.exec = exch[n].filled] \in Order
    BY <2>2, <2>3 DEF Order
  <2>5. orders' \in [Slots -> Order]
    BY <1>1, <1>a, <2>4 DEF OpenOrderReplay
  <2>6. ctx' \in [Nums -> Slots \cup {NoSlot}]
    BY <1>0, <1>1, <2>1 DEF OpenOrderReplay
  <2> QED
    BY <1>0, <1>1, <2>1, <2>5, <2>6 DEF OpenOrderReplay
<1>login. CASE Login
  <2>1. byId' \in [Nums -> Slots \cup {NoSlot}]
    BY <1>login DEF Login
  <2> QED
    BY <1>0, <1>c, <1>login, <2>1 DEF Login
<1>2. ASSUME NEW r \in Requests, SendOrder(r)
      PROVE  TypeOK'
  <2> DEFINE n == OrderNum(nextIndex)
  <2>1. nextIndex \in Slots /\ nextIndex + 1 \in 0..MaxOrders
    BY <1>2, <1>b DEF SendOrder
  <2>2. n \in Nums /\ Tag(n) \in Nat /\ r.limit \in BOOLEAN /\ r.lasting \in BOOLEAN
    BY <2>1, SlotFacts, TagFacts, RequestAssumption
  <2>3. orders' \in [Slots -> Order]
    <3>1. NewOrder(Tag(n), 0, r.limit, r.lasting) \in Order
      BY <2>2, OrderFacts
    <3> QED
      BY <1>2, <1>a, <3>1 DEF SendOrder
  <2>4. exch' \in [Nums -> ExchangeOrder]
    <3>1. (r.limit /\ r.lasting) \in BOOLEAN
      OBVIOUS
    <3>2. [exch EXCEPT ![n].st = "sent", ![n].rests = r.limit /\ r.lasting]
            \in [Nums -> ExchangeOrder]
      BY <1>0, <2>2, <3>1 DEF ExchangeOrder
    <3> QED
      BY <1>0, <1>2, <3>2 DEF SendOrder
  <2>5. ctx' \in [Nums -> Slots \cup {NoSlot}]
    BY <1>0, <1>2, <2>1 DEF SendOrder
  <2>6. main' \in MainStates
    BY <1>0, <1>2, <2>1 DEF SendOrder, Idle, Waiting, MainStates
  <2>7. returned' \in [Slots -> Outcomes]
    BY <1>0, <1>2 DEF SendOrder, Null, Outcomes
  <2>8. pending' \in Nat /\ nextIndex' \in 0..MaxOrders
    BY <1>2, <2>1, <2>2 DEF SendOrder
  <2> QED
    BY <1>0, <1>2, <2>3, <2>4, <2>5, <2>6, <2>7, <2>8 DEF SendOrder
<1>3. ASSUME NEW n \in Nums, DoCancel(n)
      PROVE  TypeOK'
  BY <1>0, <1>3 DEF DoCancel, Idle, MainStates
<1>4. ASSUME NEW n \in Nums, RetrieveOrder(n)
      PROVE  TypeOK'
  <2>1. nextIndex \in Slots /\ nextIndex + 1 \in 0..MaxOrders
    BY <1>4, <1>b DEF RetrieveOrder
  <2>2. orders' \in [Slots -> Order]
    <3>1. NewOrder(0, n, FALSE, FALSE) \in Order
      BY OrderFacts
    <3> QED
      BY <1>4, <1>a, <3>1 DEF RetrieveOrder
  <2>3. Emit(ReplayOf(n)) => inbox' \in Seq(Message)
    <3> DEFINE h == Line("History", n, exch[n], Reason(exch[n]))
               e == Report("ReplayEnd", n, 0)
    <3>1. exch[n] \in ExchangeOrder
      BY <1>0
    <3>2. h \in Message
      <4>1. Reason(exch[n]) \in Reasons \cup {"None"}
        BY <3>1, MessageFacts
      <4> QED
        BY <3>1, <4>1, MessageFacts DEF Lines
    <3>3. e \in Message
      BY <3>1, QtyAssumption, MessageFacts DEF Reports
    <3>4. ReplayOf(n) = <<e>> \/ ReplayOf(n) = <<h, e>>
      BY DEF ReplayOf
    <3>5. Emit(<<e>>) => inbox' \in Seq(Message)
      BY <1>0, <3>3, EmitFacts
    <3>6. Emit(<<h, e>>) => inbox' \in Seq(Message)
      BY <1>0, <3>2, <3>3, EmitFacts
    <3> HIDE DEF h, e
    <3> QED
      BY <3>4, <3>5, <3>6
  <2>4. pending' \in Nat
    BY <1>0, <1>4, TagFacts DEF RetrieveOrder
  <2>5. ctx' \in [Nums -> Slots \cup {NoSlot}]
    BY <1>0, <1>4, <2>1 DEF RetrieveOrder
  <2>6. main' \in MainStates
    BY <1>0, <1>4, <2>1 DEF RetrieveOrder, Idle, Waiting, MainStates
  <2>7. inbox' \in Seq(Message)
    BY <1>0, <1>4, <2>3 DEF RetrieveOrder
  <2> QED
    BY <1>0, <1>4, <2>1, <2>2, <2>4, <2>5, <2>6, <2>7 DEF RetrieveOrder
<1>5. ASSUME FinishSend \/ AbortSend \/ TimeOut \/ CancelTimedOut \/ ReturnTimedOut
      PROVE  TypeOK'
  <2>0. main.pc \in {"buying", "timeout", "clear"} /\ Sending(main.slot)
    BY <1>0, <1>5 DEF CallOK, FinishSend, AbortSend, TimeOut, CancelTimedOut, ReturnTimedOut
  <2>1. main.slot \in Slots /\ orders[main.slot] \in Order
    BY <1>0, <2>0 DEF Sending
  <2>2. CASE FinishSend
    <3> DEFINE how == returned'[main.slot]
    <3>1. returned' \in [Slots -> Outcomes]
      BY <1>0, <2>1, <2>2 DEF FinishSend, Outcomes, Null
    <3>2. byId' \in [Nums -> Slots \cup {NoSlot}]
      BY <1>0, <2>1, <2>2 DEF FinishSend
    <3> QED
      BY <1>0, <1>c, <2>2, <3>1, <3>2 DEF FinishSend
  <2>3. CASE AbortSend
    BY <1>0, <1>c, <2>3 DEF AbortSend, Outcomes, Null
  <2>4. CASE TimeOut
    BY <1>0, <2>4 DEF TimeOut, MainStates
  <2>5. CASE CancelTimedOut
    <3>1. main' \in MainStates
      BY <1>0, <2>1, <2>5 DEF CancelTimedOut, MainStates, Order
    <3>2. CASE UNCHANGED orders
      BY <1>0, <2>5, <3>1, <3>2 DEF CancelTimedOut
    <3>3. [orders[main.slot] EXCEPT !.armed = orders[main.slot].limit] \in Order
      BY <2>1 DEF Order
    <3>4. CASE orders' = [orders EXCEPT ![main.slot].armed = ArmsCancel(orders[main.slot])]
      <4>1. orders' = [orders EXCEPT ![main.slot] =
                         [orders[main.slot] EXCEPT !.armed = orders[main.slot].limit]]
        BY <3>4 DEF ArmsCancel
      <4>2. orders' \in [Slots -> Order]
        BY <1>a, <3>3, <4>1
      <4> QED
        BY <1>0, <2>5, <3>1, <4>2 DEF CancelTimedOut
    <3> QED
      BY <2>5, <3>2, <3>4 DEF CancelTimedOut
  <2>6. CASE ReturnTimedOut
    BY <1>0, <1>c, <2>6 DEF ReturnTimedOut, Outcomes, Null
  <2> QED
    BY <1>5, <2>2, <2>3, <2>4, <2>5, <2>6
<1>6. ASSUME CancelNothing \/ FinishCancel \/ AbortCancel
      PROVE  TypeOK'
  <2>1. Return /\ UNCHANGED <<pending, nextIndex, orders, byId, returned, cb, exch, ctx, inbox>>
    BY <1>6 DEF CancelNothing, FinishCancel, AbortCancel
  <2> QED
    BY <1>0, <1>d, <2>1
<1>7. CASE SendCancel
  <2>1. main.pc = "cancel" /\ main.num \in Nums
    BY <1>0, <1>7 DEF SendCancel, CallOK
  <2>2. byId[main.num] \in Slots /\ orders[byId[main.num]] \in Order
    BY <1>0, <1>7, <2>1 DEF SendCancel
  <2>3. pending' \in Nat
    BY <1>7, <2>2 DEF SendCancel, CancelId, Order
  <2>4. main' \in MainStates
    BY <1>0, <1>d, <1>7 DEF SendCancel, MainStates, Waiting
  <2>5. ctx' \in [Nums -> Slots \cup {NoSlot}]
    BY <1>0, <1>7, <2>1, <2>2 DEF SendCancel
  <2>6. exch' \in [Nums -> ExchangeOrder]
    <3>1. exch[main.num] \in ExchangeOrder /\ exch[main.num].cancels + 1 \in Nat
      BY <1>0, <2>1 DEF ExchangeOrder
    <3>2. [exch EXCEPT ![main.num].cancels = @ + 1, ![main.num].asked = TRUE]
            \in [Nums -> ExchangeOrder]
      BY <1>0, <2>1, <3>1, <1>f
    <3> QED
      BY <1>0, <1>7, <3>2 DEF SendCancel
  <2> QED
    BY <1>0, <1>7, <2>3, <2>4, <2>5, <2>6 DEF SendCancel
<1>8. ASSUME FinishRetrieve \/ AbortRetrieve
      PROVE  TypeOK'
  <2>1. Retrieving(main.slot, main.num)
    BY <1>0, <1>8 DEF FinishRetrieve, AbortRetrieve, CallOK
  <2>2. main' = Idle
    BY <1>8 DEF FinishRetrieve, AbortRetrieve, Retrieved
  <2>3. byId' \in [Nums -> Slots \cup {NoSlot}]
    BY <1>0, <1>8, <2>1 DEF FinishRetrieve, AbortRetrieve, Retrieved, Retrieving
  <2> QED
    BY <1>0, <1>8, <1>c, <2>2, <2>3 DEF FinishRetrieve, AbortRetrieve, Retrieved
<1>9. ASSUME NEW i \in Deliverable, Handle(i)
      PROVE  TypeOK'
  <2> DEFINE m == inbox[i]
  <2>0. UNCHANGED <<main, pending, nextIndex, byId, returned, ctx>>
    BY <1>9 DEF Handle, LineDropped, LineStale, LineSendsCancel, LineApplied, LineError,
                ReportApplied, ReportDropped, NotCancelledReport, SingleOrderReplay
  <2>1. PICK kinds : Takes(i, kinds)
    BY <1>9 DEF Handle, LineDropped, LineStale, LineSendsCancel, LineApplied, LineError,
                ReportApplied, ReportDropped, NotCancelledReport, SingleOrderReplay
  <2>2. inbox' \in Seq(Message) /\ m \in Message /\ m.num \in Nums /\ Tag(m.num) \in Nat
    BY <1>0, <2>1, TakesFacts, TagFacts
  <2>3. m.num \in Nat
    BY <2>2, TagFacts
  <2>4. \/ CallbackReturns \/ TestPending(Tag(m.num))
        \/ cb' = [pc |-> "reset", id |-> m.num]
    BY <1>9 DEF Handle, LineDropped, LineStale, LineSendsCancel, LineApplied, LineError,
                ReportApplied, ReportDropped, NotCancelledReport, SingleOrderReplay,
                CallbackReturns
  <2>5. cb' \in CallbackStates
    BY <1>0, <2>2, <2>3, <2>4 DEF CallbackReturns, TestPending, CallbackStates
  <2>6. orders' \in [Slots -> Order] /\ exch' \in [Nums -> ExchangeOrder]
    <3>1. CASE UNCHANGED <<orders, exch>>
      BY <1>0, <3>1
    <3>2. CASE LineSendsCancel(i)
      <4>1. exch[m.num] \in ExchangeOrder /\ exch[m.num].cancels + 1 \in Nat
        BY <1>0, <2>2 DEF ExchangeOrder
      <4>2. [exch EXCEPT ![m.num].cancels = @ + 1, ![m.num].asked = TRUE]
              \in [Nums -> ExchangeOrder]
        BY <1>0, <2>2, <4>1, <1>f
      <4>3. exch' \in [Nums -> ExchangeOrder]
        BY <1>0, <3>2, <4>2 DEF LineSendsCancel
      <4>4. ctx[m.num] \in Slots /\ orders[ctx[m.num]] \in Order
        BY <1>0, <2>2, <3>2 DEF LineSendsCancel, HasSlot, Ours
      <4>5. [orders[ctx[m.num]] EXCEPT !.armed = FALSE] \in Order
        BY <4>4 DEF Order
      <4>6. orders' = [orders EXCEPT ![ctx[m.num]] =
                         [orders[ctx[m.num]] EXCEPT !.armed = FALSE]]
        BY <3>2 DEF LineSendsCancel
      <4>7. orders' \in [Slots -> Order]
        BY <1>a, <4>5, <4>6
      <4> QED
        BY <4>3, <4>7
    <3>3. CASE LineApplied(i)
      <4>1. ctx[m.num] \in Slots
        BY <1>0, <2>2, <3>3 DEF LineApplied, HasSlot, Ours
      <4>2. Updated(orders[ctx[m.num]], m) \in Order
        BY <1>0, <2>2, <4>1, OrderFacts
      <4>3. orders' = [orders EXCEPT ![ctx[m.num]] = Updated(orders[ctx[m.num]], m)]
        BY <3>3 DEF LineApplied
      <4> QED
        BY <1>0, <1>a, <3>3, <4>2, <4>3 DEF LineApplied
    <3>4. CASE ReportApplied(i)
      <4>1. ctx[m.num] \in Slots
        BY <1>0, <2>2, <3>4 DEF ReportApplied, Ours
      <4>2. m.kind \in Reported
        BY <3>4 DEF ReportApplied, Takes
      <4>3. Marked(orders[ctx[m.num]], m) \in Order
        BY <1>0, <2>2, <4>1, <4>2, OrderFacts
      <4>4. orders' = [orders EXCEPT ![ctx[m.num]] = Marked(orders[ctx[m.num]], m)]
        BY <3>4 DEF ReportApplied
      <4> QED
        BY <1>0, <1>a, <3>4, <4>3, <4>4 DEF ReportApplied
    <3> QED
      BY <1>9, <3>1, <3>2, <3>3, <3>4
      DEF Handle, LineDropped, LineStale, LineError, ReportDropped, NotCancelledReport,
          SingleOrderReplay
  <2> QED
    BY <1>0, <2>0, <2>2, <2>5, <2>6
<1>10. ASSUME Test \/ Reset
       PROVE  TypeOK'
  <2>1. cb' \in CallbackStates
    BY <1>0, <1>10 DEF Test, Reset, CallbackStates
  <2>2. pending' \in Nat
    BY <1>0, <1>10 DEF Test, Reset
  <2> QED
    BY <1>0, <1>10, <2>1, <2>2 DEF Test, Reset
<1>11. ASSUME NEW n \in Nums, Engine(n)
       PROVE  TypeOK'
  <2>1. EngineTypeOK'
    BY <1>0, <1>11, EngineTypeStep DEF Engine
  <2> QED
    BY <1>0, <1>11, <2>1 DEF Engine
<1> QED
  BY <1>1, <1>2, <1>3, <1>4, <1>5, <1>6, <1>7, <1>8, <1>9, <1>10, <1>11,
   <1>login DEF Next, Call, Proceed, GiveUp, Callback

-----------------------------------------------------------------------------
(* Who owns what. *)

Safe == RegisteredIsHeard /\ CtxOK /\ FreshOK /\ CallOK /\ WaitOwnsPending

(* A registered order has its own slot.                                    *)
LEMMA RegisteredBelongs ==
    ASSUME Inv, NEW n \in Nums, byId[n] # NoSlot
    PROVE  byId[n] \in Slots /\ Belongs(byId[n], n) /\ orders[byId[n]].num = n
<1>1. byId[n] \in Slots /\ orders[byId[n]].num = n /\ n # 0
  BY TagFacts DEF Inv, TypeOK, RegisteredIsHeard
<1>2. orders[byId[n]].cid \in {IntMax, Tag(n)}
  BY RestoredFacts DEF Inv, RegisteredIsHeard, KnownIds
<1> QED
  BY <1>1, <1>2 DEF Belongs

(* The names of the order in slot s stay.                                  *)
SameOrder(s) == orders'[s].num = orders[s].num /\ orders'[s].cid = orders[s].cid

(* The engine keeps the context of order n, or is handed the slot that is  *)
(* registered for it.                                                      *)
KeepsContext(n) == ctx'[n] = ctx[n] \/ (byId[n] # NoSlot /\ ctx'[n] = byId[n])

(* The books stay in order while slots and registrations stay.             *)
LEMMA BooksStay ==
    ASSUME Inv, TypeOK',
           UNCHANGED <<nextIndex, byId>>,
           \A n \in Nums : KeepsContext(n),
           \A s \in Slots : SameOrder(s),
           \A s \in Slots : returned'[s] # "none" => s < nextIndex,
           main'.pc = "login" => main.pc = "login"
    PROVE  RegisteredIsHeard' /\ CtxOK' /\ FreshOK'
<1> USE DEF Inv, SameOrder
<1>1. \A n \in Nums : byId[n] \in Slots \cup {NoSlot} /\ ctx[n] \in Slots \cup {NoSlot}
  BY DEF TypeOK, EngineTypeOK
<1>2. RegisteredIsHeard'
  BY <1>1 DEF RegisteredIsHeard, ContextRefused, EngineMayFail, KeepsContext
<1>3. CtxOK'
  <2> SUFFICES ASSUME NEW n \in Nums, ctx'[n] # NoSlot
               PROVE  ctx'[n] < nextIndex /\ Belongs(ctx'[n], n)
    BY <1>1, SlotFacts DEF CtxOK, Belongs, TypeOK, EngineTypeOK
  <2>1. CASE ctx'[n] = ctx[n]
    BY <2>1 DEF CtxOK
  <2>2. CASE byId[n] # NoSlot /\ ctx'[n] = byId[n]
    BY <2>2, RegisteredBelongs DEF FreshOK
  <2> QED
    BY <2>1, <2>2 DEF KeepsContext
<1>4. FreshOK'
  <2>1. LoginBooks => LoginBooks'
    BY <1>1 DEF LoginBooks, TypeOK, Order, EngineMayFail, KeepsContext
  <2> QED
    BY <2>1 DEF FreshOK
<1> QED
  BY <1>2, <1>3, <1>4

(* What a call may rely on stays while nothing of its slot changes.        *)
LEMMA CallStays ==
    ASSUME Inv, TypeOK',
           UNCHANGED <<main, nextIndex, byId, ctx>>,
           \A s \in Slots : SameOrder(s),
           pending' \in {0, pending}
    PROVE  CallOK' /\ WaitOwnsPending'
<1> USE DEF Inv, SameOrder
<1>1. CallOK'
  BY DEF CallOK, Sending, Retrieving
<1>2. /\ main.pc = "buying" => main.slot \in Slots
      /\ main.pc = "cancelling" => byId[main.num] \in Slots
  BY DEF CallOK, Sending, TypeOK
<1>3. WaitOwnsPending'
  <2>1. main.pc \in Waiting => Awaited' = Awaited
    BY <1>2 DEF Awaited, Waiting
  <2> QED
    BY <2>1 DEF WaitOwnsPending
<1> QED
  BY <1>1, <1>3

(* A line update gives the slot the names of its own order, which is the   *)
(* only one whose callbacks point there.                                   *)
LEMMA LineNames ==
    ASSUME Inv, NEW i \in Deliverable, LineApplied(i)
    PROVE  \/ \A s \in Slots : SameOrder(s)
           \/ LET m == inbox[i]
                  t == ctx[m.num]
              IN  /\ m.num \in Nums /\ t \in Slots
                  /\ \A n \in Nums : ctx[n] = t => n = m.num
                  /\ orders'[t].num = m.num /\ orders'[t].cid = Tag(m.num)
                  /\ \A s \in Slots \ {t} : SameOrder(s)
                  /\ orders[t].cid \in {0, Tag(m.num)}
<1> USE DEF Inv, SameOrder
<1> DEFINE m == inbox[i]
           t == ctx[m.num]
<1>1. m \in Message /\ m.num \in Nums /\ m.kind \in Lines
  BY TakesFacts DEF LineApplied, TypeOK, EngineTypeOK
<1>2. t \in Slots /\ t # NoSlot
  BY <1>1, SlotFacts DEF LineApplied, HasSlot, Ours, TypeOK, EngineTypeOK
<1>3. orders' = [orders EXCEPT ![t] = Updated(orders[t], m)]
  BY DEF LineApplied
<1>4. /\ orders[t] \in Order
      /\ orders'[t] = Updated(orders[t], m)
      /\ \A s \in Slots \ {t} : orders'[s] = orders[s]
  BY <1>2, <1>3 DEF TypeOK
<1>5. /\ orders'[t].num = IF m.kind = "Line" THEN m.num ELSE orders[t].num
      /\ orders'[t].cid = IF m.kind = "History" /\ orders[t].cid = 0 THEN Tag(m.num)
                          ELSE orders[t].cid
  BY <1>4 DEF Updated, Order
<1>6. \A n \in Nums : ctx[n] = t => Belongs(t, n)
  BY <1>2 DEF CtxOK
<1>7. IntMax \in Nat /\ Tag(m.num) # 0 /\ Tag(m.num) # IntMax
  <2>1. m.num \in Nums
    BY <1>1
  <2>2. Tag(m.num) \in Nat /\ Tag(m.num) > IntMax
    BY <2>1, TagFacts
  <2>3. IntMax \in Nat
    BY NumAssumption
  <2> HIDE DEF m
  <2> QED
    BY <2>2, <2>3
<1>8. CASE m.kind = "Line"
  <2>1. orders[t].cid = Tag(m.num)
    BY <1>8 DEF LineApplied, HasSlot, Ours
  <2>2. \A n \in Nums : ctx[n] = t => n = m.num
    BY <1>1, <1>6, <1>7, <2>1, TagFacts DEF Belongs
  <2> QED
    BY <1>1, <1>2, <1>4, <1>5, <1>8, <2>1, <2>2
<1>9. CASE m.kind = "History" /\ orders[t].cid = 0
  <2>1. orders[t].num = m.num
    BY <1>1, <1>6, <1>7, <1>9 DEF Belongs
  <2>2. \A n \in Nums : ctx[n] = t => n = m.num
    BY <1>1, <1>6, <2>1, TagFacts DEF Belongs
  <2> QED
    BY <1>1, <1>2, <1>4, <1>5, <1>9, <2>1, <2>2
<1>10. CASE m.kind = "History" /\ orders[t].cid # 0
  BY <1>4, <1>5, <1>10
<1> QED
  BY <1>1, <1>8, <1>9, <1>10 DEF Lines

(* An order that Zorro may ask for is not one that is sent later.          *)
LEMMA TradesAreOld ==
    ASSUME Inv, NEW n \in Trades, n \in Nums, NEW k \in Slots, k >= nextIndex
    PROVE  n # OrderNum(k)
<1>1. CASE n \in OldNums
  BY <1>1, SlotFacts
<1>2. CASE n \notin OldNums
  <2>1. PICK s \in Slots : BrokerBuy2(s) = n
    BY <1>2 DEF Trades
  <2>2. n # 0 /\ n # -2
    BY TagFacts
  <2>3. n = OneNum \/ (n = OrderNum(s) /\ returned[s] = "Accepted")
    BY <2>1, <2>2 DEF BrokerBuy2
  <2>4. CASE n = OrderNum(s) /\ returned[s] = "Accepted"
    <3>1. s < nextIndex
      BY <2>4 DEF Inv, FreshOK
    <3>2. s # k
      BY <3>1, SlotFacts DEF Inv, TypeOK
    <3> QED
      BY <2>4, <3>2, SlotFacts
  <2> QED
    BY <2>3, <2>4, SlotFacts
<1> QED
  BY <1>1, <1>2

(* Calls that end, and calls that only move on.                            *)
LEMMA ReturnSafe ==
    ASSUME Inv, TypeOK',
           UNCHANGED <<nextIndex, byId, ctx>>,
           \A s \in Slots : SameOrder(s),
           \A s \in Slots : returned'[s] # "none" => s < nextIndex,
           main'.pc = "idle"
    PROVE  Safe'
<1>1. RegisteredIsHeard' /\ CtxOK' /\ FreshOK'
  BY BooksStay DEF KeepsContext
<1> QED
  BY <1>1 DEF Safe, CallOK, WaitOwnsPending, Waiting

(* sendOrder takes a slot that no order was sent from.                     *)
LEMMA SendSafe ==
    ASSUME Inv, TypeOK', NEW r \in Requests, SendOrder(r)
    PROVE  Safe'
<1> DEFINE x == nextIndex
           n == OrderNum(x)
<1>1. x \in Slots /\ x \in Nat /\ n \in Nums /\ x # NoSlot
  BY SlotFacts DEF Inv, TypeOK, SendOrder
<1>2. /\ orders'[x].num = 0 /\ orders'[x].cid = Tag(n)
      /\ \A s \in Slots \ {x} : orders'[s] = orders[s]
      /\ nextIndex' = x + 1 /\ byId' = byId
      /\ \A k \in Nums \ {n} : ctx'[k] = ctx[k]
      /\ ctx'[n] \in {x, ctx[n]}
  BY <1>1 DEF SendOrder, NewOrder, Inv, TypeOK, EngineTypeOK
<1>3. \A k \in Nums : ctx[k] # NoSlot => ctx[k] \in Slots /\ ctx[k] \in Nat /\ ctx[k] < x
  BY SlotFacts DEF Inv, CtxOK, TypeOK, EngineTypeOK
<1>4. byId[n] = NoSlot
  BY <1>1 DEF Inv, FreshOK
<1>5. RegisteredIsHeard'
  <2> SUFFICES ASSUME NEW k \in Nums, byId[k] # NoSlot
               PROVE  (ctx'[k] = byId[k] \/ ContextRefused(k)') /\ orders'[byId[k]].num = k
                      /\ orders'[byId[k]].cid \in KnownIds(k)
    BY <1>2 DEF RegisteredIsHeard
  <2>1. ctx'[k] = ctx[k]
    BY <1>2, <1>4
  <2>2. byId[k] \in Slots \ {x}
    BY <1>1, RegisteredBelongs DEF Inv, FreshOK
  <2> QED
    BY <1>2, <2>1, <2>2 DEF Inv, RegisteredIsHeard, ContextRefused, EngineMayFail
<1>6. CtxOK'
  <2> SUFFICES ASSUME NEW k \in Nums, ctx'[k] # NoSlot
               PROVE  ctx'[k] < x + 1 /\ Belongs(ctx[k], k)' 
    BY <1>2 DEF CtxOK, Belongs
  <2>1. CASE ctx'[k] = ctx[k]
    <3>1. ctx[k] \in Slots \ {x} /\ ctx[k] < x /\ ctx[k] \in Nat
      BY <1>3, <2>1
    <3>2. Belongs(ctx[k], k)
      BY <2>1 DEF Inv, CtxOK
    <3>3. Belongs(ctx[k], k)'
      BY <1>2, <2>1, <3>1, <3>2 DEF Belongs
    <3> QED
      BY <1>1, <2>1, <3>1, <3>3
  <2>2. CASE k = n /\ ctx'[k] = x
    BY <1>1, <1>2, <2>2 DEF Belongs
  <2> QED
    BY <1>2, <2>1, <2>2
<1>7. FreshOK'
  <2>1. \A s \in Slots : returned'[s] # "none" => s < x + 1
    <3>1. \A s \in Slots : s # x => returned'[s] = returned[s]
      BY DEF SendOrder, Inv, TypeOK
    <3>2. \A s \in Slots : s # x /\ returned[s] # "none" => s < x /\ s \in Nat
      BY SlotFacts DEF Inv, FreshOK
    <3> QED
      BY <1>1, <3>1, <3>2
  <2>2. \A s \in Slots : s >= x + 1 => byId'[OrderNum(s)] = NoSlot
    <3>1. \A s \in Slots : s \in Nat /\ (s >= x + 1 => s >= x)
      BY <1>1, SlotFacts
    <3> QED
      BY <1>2, <3>1 DEF Inv, FreshOK
  <2>3. main'.pc # "login"
    BY DEF SendOrder, Idle, mainIdle
  <2>4. \A k \in Nums : byId[k] # NoSlot => byId[k] < x + 1
    <3>1. \A s \in Slots : s \in Nat /\ (s < x => s < x + 1)
      BY <1>1, SlotFacts
    <3> QED
      BY <3>1, RegisteredBelongs DEF Inv, FreshOK
  <2> QED
    BY <1>2, <2>1, <2>2, <2>3, <2>4 DEF FreshOK
<1>8. CASE main'.pc = "idle"
  BY <1>5, <1>6, <1>7, <1>8 DEF Safe, CallOK, WaitOwnsPending, Waiting
<1>9. CASE main' = [Idle EXCEPT !.pc = "buying", !.slot = x] /\ ctx' = [ctx EXCEPT ![n] = x]
  <2>1. main'.pc = "buying" /\ main'.slot = x
    BY <1>9 DEF Idle
  <2>2. ctx'[n] = x
    BY <1>1, <1>9 DEF Inv, TypeOK, EngineTypeOK
  <2>3. Sending(main.slot)'
    BY <1>1, <1>2, <1>4, <2>1, <2>2 DEF Sending
  <2>4. CallOK'
    BY <2>1, <2>3 DEF CallOK
  <2>5. pending' = Awaited'
    BY <1>2, <2>1 DEF SendOrder, Awaited
  <2>6. WaitOwnsPending'
    BY <2>5 DEF WaitOwnsPending
  <2> QED
    BY <1>5, <1>6, <1>7, <2>4, <2>6 DEF Safe
<1> QED
  BY <1>8, <1>9 DEF SendOrder, mainIdle

(* A slot that is filled for the first time disturbs no order: login and   *)
(* retrieveOrder bind the next slot to order n, which is not registered.   *)
LEMMA BindSafe ==
    ASSUME Inv, TypeOK', NEW n \in Nums, byId[n] = NoSlot, nextIndex \in Slots,
           UNCHANGED <<byId, returned>>,
           nextIndex' = nextIndex + 1,
           \A s \in Slots \ {nextIndex} : orders'[s] = orders[s],
           orders'[nextIndex].num = n, orders'[nextIndex].cid \in {0, IntMax},
           \A k \in Nums \ {n} : ctx'[k] = ctx[k],
           ctx'[n] \in {nextIndex, ctx[n]},
           main'.pc = "login" => LoginBooks'
    PROVE  RegisteredIsHeard' /\ CtxOK' /\ FreshOK'
<1> DEFINE x == nextIndex
<1>1. x \in Nat /\ x # NoSlot /\ n # 0
  BY SlotFacts, TagFacts
<1>2. \A k \in Nums : ctx[k] # NoSlot => ctx[k] \in Slots /\ ctx[k] \in Nat /\ ctx[k] < x
  BY SlotFacts DEF Inv, CtxOK, TypeOK, EngineTypeOK
<1>3. RegisteredIsHeard'
  <2> SUFFICES ASSUME NEW k \in Nums, byId[k] # NoSlot
               PROVE  (ctx'[k] = byId[k] \/ ContextRefused(k)') /\ orders'[byId[k]].num = k
                      /\ orders'[byId[k]].cid \in KnownIds(k)
    BY DEF RegisteredIsHeard
  <2>1. ctx'[k] = ctx[k]
    OBVIOUS
  <2>2. byId[k] \in Slots \ {x}
    BY <1>1, RegisteredBelongs DEF Inv, FreshOK
  <2> QED
    BY <2>1, <2>2 DEF Inv, RegisteredIsHeard, ContextRefused, EngineMayFail
<1>4. CtxOK'
  <2> SUFFICES ASSUME NEW k \in Nums, ctx'[k] # NoSlot
               PROVE  ctx'[k] < x + 1 /\ Belongs(ctx[k], k)'
    BY DEF CtxOK, Belongs
  <2>1. CASE ctx'[k] = ctx[k]
    <3>1. ctx[k] \in Slots \ {x} /\ ctx[k] < x /\ ctx[k] \in Nat
      BY <1>2, <2>1
    <3>2. Belongs(ctx[k], k)
      BY <2>1 DEF Inv, CtxOK
    <3>3. Belongs(ctx[k], k)'
      BY <2>1, <3>1, <3>2 DEF Belongs
    <3> QED
      BY <1>1, <2>1, <3>1, <3>3
  <2>2. CASE k = n /\ ctx'[k] = x
    BY <1>1, <2>2 DEF Belongs
  <2> QED
    BY <2>1, <2>2
<1>5. FreshOK'
  <2>1. \A s \in Slots : s \in Nat /\ (s >= x + 1 => s >= x) /\ (s < x => s < x + 1)
    BY <1>1, SlotFacts
  <2>2. \A k \in Nums : byId[k] # NoSlot => byId[k] < x + 1
    BY <2>1, RegisteredBelongs DEF Inv, FreshOK
  <2> QED
    BY <2>1, <2>2 DEF Inv, FreshOK
<1> QED
  BY <1>3, <1>4, <1>5

(* An order restored at login.                                             *)
LEMMA RestoreSafe ==
    ASSUME Inv, TypeOK', NEW n \in Nums, OpenOrderReplay(n)
    PROVE  Safe'
<1> DEFINE x == nextIndex
<1>1. /\ main.pc = "login" /\ main' = main /\ UNCHANGED <<pending, byId, returned>>
      /\ n \in Tagged /\ ~Replayed(n) /\ x' = x + 1
  BY DEF OpenOrderReplay
<1>2. x \in Slots /\ x \in Nat /\ n # 0 /\ x # NoSlot
  BY SlotAssumption, SlotFacts, TagFacts DEF Slots, OpenOrderReplay, Inv, TypeOK
<1>3. /\ orders'[x].num = n /\ orders'[x].cid = RestoredId(n)
      /\ \A s \in Slots \ {x} : orders'[s] = orders[s]
  BY <1>2 DEF OpenOrderReplay, Inv, TypeOK, NewOrder
<1>4. /\ ctx'[n] = x \/ (EngineMayFail /\ ctx'[n] = ctx[n])
      /\ \A k \in Nums \ {n} : ctx'[k] = ctx[k]
  BY DEF OpenOrderReplay, Inv, TypeOK, EngineTypeOK
<1>5. LoginBooks
  BY <1>1 DEF Inv, FreshOK
<1>6. \A k \in Nums : ctx[k] # NoSlot => ctx[k] \in Slots \ {x} /\ ctx[k] < x
  BY <1>2, SlotFacts DEF Inv, CtxOK, TypeOK, EngineTypeOK
<1>7. \A s \in Slots : orders[s].num # n
  BY <1>1, <1>2, <1>5 DEF LoginBooks, Replayed
<1>8. ctx[n] = NoSlot
  BY <1>5, <1>6, <1>7 DEF LoginBooks
<1>9. LoginBooks'
  <2>1. ASSUME NEW k \in Nums, ctx'[k] # NoSlot
        PROVE  orders'[ctx'[k]].num = k
    <3>1. CASE k = n
      BY <1>3, <1>4, <1>8, <2>1, <3>1
    <3>2. CASE k # n
      BY <1>3, <1>4, <1>5, <1>6, <2>1, <3>2 DEF LoginBooks
    <3> QED
      BY <3>1, <3>2
  <2>2. ASSUME NEW s \in Slots, orders'[s].num # 0
        PROVE  /\ s < x + 1
               /\ orders'[s].num \in Tagged /\ orders'[s].cid = RestoredId(orders'[s].num)
               /\ \/ ctx'[orders'[s].num] = s
                  \/ EngineMayFail /\ ctx'[orders'[s].num] = NoSlot
    <3>1. CASE s = x
      BY <1>1, <1>2, <1>3, <1>4, <1>8, <3>1
    <3>2. CASE s # x
      <4>1. orders[s].num \in Nums \ {n} /\ orders'[s] = orders[s]
        BY <1>3, <1>7, <2>2, <3>2 DEF Inv, TypeOK, Order
      <4>2. s < x /\ s \in Nat
        BY <1>5, <2>2, <4>1, SlotFacts DEF LoginBooks
      <4> QED
        BY <1>2, <1>4, <1>5, <2>2, <4>1, <4>2 DEF LoginBooks
    <3> QED
      BY <3>1, <3>2
  <2>3. \A k \in Nums : byId'[k] = NoSlot
    BY <1>1, <1>5 DEF LoginBooks
  <2> QED
    BY <1>1, <2>1, <2>2, <2>3 DEF LoginBooks, EngineMayFail
<1>10. RegisteredIsHeard' /\ CtxOK' /\ FreshOK'
  <2>1. byId[n] = NoSlot /\ RestoredId(n) = IntMax
    BY <1>5, RestoredFacts DEF LoginBooks
  <2> QED
    BY <1>1, <1>2, <1>3, <1>4, <1>9, <2>1, BindSafe
<1> QED
  BY <1>1, <1>10 DEF Safe, CallOK, WaitOwnsPending, Waiting

(* The end of login registers the restored orders, each by its own slot.   *)
LEMMA LoginSafe ==
    ASSUME Inv, TypeOK', Login
    PROVE  Safe'
<1>1. /\ main.pc = "login" /\ main'.pc = "idle"
      /\ UNCHANGED <<pending, nextIndex, orders, returned, ctx>>
  BY DEF Login, Idle
<1>2. LoginBooks
  BY <1>1 DEF Inv, FreshOK
<1>3. ASSUME NEW n \in Nums, byId'[n] # NoSlot
      PROVE  /\ n \in Tagged /\ byId'[n] < nextIndex /\ orders[byId'[n]].num = n
             /\ orders[byId'[n]].cid = RestoredId(n)
             /\ ctx[n] = byId'[n] \/ (EngineMayFail /\ ctx[n] = NoSlot)
  <2> DEFINE P(s) == s < nextIndex /\ orders[s].num = n
  <2>1. byId'[n] = IF \E s \in Slots : P(s) THEN CHOOSE s \in Slots : P(s) ELSE NoSlot
    BY DEF Login, Replayed
  <2>2. \E s \in Slots : P(s)
    BY <1>3, <2>1
  <2>3. byId'[n] \in Slots /\ P(byId'[n])
    BY <2>1, <2>2
  <2> QED
    BY <1>2, <2>3, TagFacts DEF LoginBooks
<1>4. RegisteredIsHeard'
  BY <1>1, <1>3, KnownFacts DEF RegisteredIsHeard, ContextRefused, EngineMayFail
<1>5. CtxOK'
  BY <1>1 DEF Inv, CtxOK, Belongs
<1>6. FreshOK'
  <2>1. \A s \in Slots : byId'[OrderNum(s)] = NoSlot
    BY <1>3, SlotFacts, TaggedAssumption
  <2> QED
    BY <1>1, <1>3, <2>1 DEF Inv, FreshOK
<1> QED
  BY <1>1, <1>4, <1>5, <1>6 DEF Safe, CallOK, WaitOwnsPending, Waiting

LEMMA RetrieveSafe ==
    ASSUME Inv, TypeOK', NEW n \in Nums, RetrieveOrder(n)
    PROVE  Safe'
<1> DEFINE x == nextIndex
<1>1. x \in Slots /\ x \in Nat /\ n \in Trades /\ byId[n] = NoSlot /\ main.pc = "idle"
  BY SlotFacts DEF RetrieveOrder, Inv, TypeOK, mainIdle
<1>2. /\ orders'[x].num = n /\ orders'[x].cid = 0
      /\ \A s \in Slots \ {x} : orders'[s] = orders[s]
  BY <1>1 DEF RetrieveOrder, NewOrder, Inv, TypeOK
<1>3. /\ \A k \in Nums \ {n} : ctx'[k] = ctx[k]
      /\ ctx'[n] \in {x, ctx[n]}
  BY <1>1 DEF RetrieveOrder, Inv, TypeOK, EngineTypeOK
<1>4. RegisteredIsHeard' /\ CtxOK' /\ FreshOK'
  <2>1. main'.pc # "login"
    BY <1>1 DEF RetrieveOrder, Idle
  <2>2. UNCHANGED <<byId, returned>> /\ nextIndex' = x + 1
    BY DEF RetrieveOrder
  <2> QED
    BY <1>1, <1>2, <1>3, <2>1, <2>2, BindSafe
<1>5. CASE main' = main
  BY <1>1, <1>4, <1>5 DEF Safe, CallOK, WaitOwnsPending, Waiting
<1>6. CASE /\ main' = [Idle EXCEPT !.pc = "retrieving", !.slot = x, !.num = n]
           /\ ctx' = [ctx EXCEPT ![n] = x]
           /\ pending' = n
  <2>1. main'.pc = "retrieving" /\ main'.slot = x /\ main'.num = n
    BY <1>6 DEF Idle
  <2>2. ctx'[n] = x
    BY <1>1, <1>6 DEF Inv, TypeOK, EngineTypeOK
  <2>3. \A k \in Slots : k >= x + 1 => n # OrderNum(k)
    <3>1. \A k \in Slots : k >= x + 1 => k >= x
      BY <1>1, SlotFacts
    <3> QED
      BY <1>1, <3>1, TradesAreOld
  <2>4. nextIndex' = x + 1
    BY DEF RetrieveOrder
  <2>5. Retrieving(main.slot, main.num)'
    BY <1>1, <1>2, <2>1, <2>2, <2>3, <2>4 DEF Retrieving
  <2>6. CallOK'
    BY <2>1, <2>5 DEF CallOK
  <2>7. WaitOwnsPending'
    BY <1>6, <2>1 DEF WaitOwnsPending, Awaited
  <2> QED
    BY <1>4, <2>6, <2>7 DEF Safe
<1> QED
  BY <1>5, <1>6 DEF RetrieveOrder

(* A call that registers its order: the slot is bound to order n, which is *)
(* not one that is sent later.                                             *)
LEMMA RegisterSafe ==
    ASSUME Inv, TypeOK', NEW s \in Slots, NEW n \in Nums,
           UNCHANGED <<nextIndex, orders, ctx>>,
           byId' = byId \/ byId' = [byId EXCEPT ![n] = s],
           byId' # byId => ctx[n] = s /\ orders[s].num = n /\ orders[s].cid = Tag(n),
           \A k \in Slots : k >= nextIndex => n # OrderNum(k),
           \A k \in Slots : returned'[k] # "none" => k < nextIndex,
           main'.pc = "idle"
    PROVE  Safe'
<1>1. RegisteredIsHeard'
  <2>1. CASE byId' = byId
    BY <2>1 DEF Inv, RegisteredIsHeard, ContextRefused, EngineMayFail
  <2>2. CASE byId' # byId
    <3> SUFFICES ASSUME NEW k \in Nums, byId'[k] # NoSlot
                 PROVE  (ctx[k] = byId'[k] \/ ContextRefused(k)') /\ orders[byId'[k]].num = k
                        /\ orders[byId'[k]].cid \in KnownIds(k)
      BY DEF RegisteredIsHeard
    <3>1. byId'[k] = IF k = n THEN s ELSE byId[k]
      BY <2>2 DEF Inv, TypeOK
    <3> QED
      BY <2>2, <3>1, KnownFacts DEF Inv, RegisteredIsHeard, ContextRefused, EngineMayFail
  <2> QED
    BY <2>1, <2>2
<1>2. CtxOK'
  BY DEF Inv, CtxOK, Belongs
<1>3. FreshOK'
  <2>1. \A k \in Slots : k >= nextIndex => byId'[OrderNum(k)] = byId[OrderNum(k)]
    BY SlotFacts DEF Inv, TypeOK
  <2>2. \A k \in Nums : byId'[k] # NoSlot => byId'[k] < nextIndex
    <3>1. byId' # byId => s < nextIndex
      BY SlotFacts DEF Inv, CtxOK
    <3> QED
      BY <3>1 DEF Inv, TypeOK, FreshOK
  <2> QED
    BY <2>1, <2>2 DEF Inv, FreshOK
<1> QED
  BY <1>1, <1>2, <1>3 DEF Safe, CallOK, WaitOwnsPending, Waiting

LEMMA FinishSafe ==
    ASSUME Inv, TypeOK', FinishSend \/ FinishRetrieve
    PROVE  Safe'
<1>1. CASE FinishSend
  <2> DEFINE s == main.slot
             n == OrderNum(s)
  <2>1. Sending(s)
    BY <1>1 DEF Inv, CallOK, FinishSend
  <2>2. s \in Slots /\ n \in Nums /\ s < nextIndex
    BY <2>1, SlotFacts DEF Sending
  <2>3. byId' = byId \/ (byId' = [byId EXCEPT ![n] = s] /\ orders[s].num = n)
    BY <1>1, <2>1 DEF FinishSend, Sending
  <2>4. \A k \in Slots : k >= nextIndex => n # OrderNum(k)
    <3>1. \A k \in Slots : k >= nextIndex => k # s
      BY <2>2, SlotFacts DEF Inv, TypeOK
    <3> QED
      BY <2>2, <3>1, SlotFacts
  <2>5. \A k \in Slots : returned'[k] # "none" => k < nextIndex
    <3>1. \A k \in Slots : k # s => returned'[k] = returned[k]
      BY <1>1 DEF FinishSend, Inv, TypeOK
    <3> QED
      BY <2>2, <3>1 DEF Inv, FreshOK
  <2>6. UNCHANGED <<nextIndex, orders, ctx>> /\ main'.pc = "idle"
    BY <1>1 DEF FinishSend, Idle
  <2>7. ctx[n] = s /\ orders[s].cid = Tag(n)
    BY <2>1 DEF Sending
  <2> HIDE DEF s, n
  <2> QED
    BY <2>2, <2>3, <2>4, <2>5, <2>6, <2>7, RegisterSafe
<1>2. CASE FinishRetrieve
  <2> DEFINE s == main.slot
             n == main.num
  <2>1. Retrieving(s, n)
    BY <1>2 DEF Inv, CallOK, FinishRetrieve
  <2>2. /\ s \in Slots /\ n \in Nums /\ ctx[n] = s /\ orders[s].num = n
        /\ \A k \in Slots : k >= nextIndex => n # OrderNum(k)
    BY <2>1 DEF Retrieving
  <2>3. \/ byId' = byId
        \/ byId' = [byId EXCEPT ![n] = s] /\ orders[s].cid = Tag(n)
    BY <1>2, <2>1 DEF FinishRetrieve, Retrieved, Retrieving
  <2>4. UNCHANGED <<nextIndex, orders, ctx, returned>> /\ main'.pc = "idle"
    BY <1>2 DEF FinishRetrieve, Retrieved, Idle
  <2>5. \A k \in Slots : returned'[k] # "none" => k < nextIndex
    BY <2>4 DEF Inv, FreshOK
  <2> HIDE DEF s, n
  <2> QED
    BY <2>2, <2>3, <2>4, <2>5, RegisterSafe
<1> QED
  BY <1>1, <1>2

(* The end of doSendOrder's wait, and cancelOrder inside it: the order is  *)
(* still the sender's.                                                     *)
LEMMA MoveSafe ==
    ASSUME Inv, TypeOK',
           \/ TimeOut \/ CancelTimedOut \/ CancelNothing \/ FinishCancel \/ AbortCancel
           \/ SendCancel
    PROVE  Safe'
<1>1. \A s \in Slots : SameOrder(s)
  BY DEF TimeOut, CancelTimedOut, CancelNothing, FinishCancel, AbortCancel, SendCancel,
         SameOrder, Inv, TypeOK, Order
<1>2. UNCHANGED <<nextIndex, byId, returned>>
  BY DEF TimeOut, CancelTimedOut, CancelNothing, FinishCancel, AbortCancel, SendCancel
<1>3. \A n \in Nums : KeepsContext(n)
  <2>1. CASE SendCancel
    BY <2>1 DEF SendCancel, KeepsContext, Inv, CallOK, TypeOK, EngineTypeOK
  <2> QED
    BY <2>1 DEF TimeOut, CancelTimedOut, CancelNothing, FinishCancel, AbortCancel, KeepsContext
<1>4. main.pc \in {"buying", "timeout", "cancel", "cancelling"}
  BY DEF TimeOut, CancelTimedOut, CancelNothing, FinishCancel, AbortCancel, SendCancel
<1>5. main'.pc # "login"
  <2>1. main \in MainStates
    BY DEF Inv, TypeOK
  <2>2. Return => main'.pc # "login"
    BY <2>1 DEF Return, Idle, MainStates
  <2>3. CASE TimeOut \/ CancelTimedOut
    BY <2>1, <2>3 DEF TimeOut, CancelTimedOut, MainStates
  <2>4. CASE SendCancel
    BY <2>1, <2>2, <2>4 DEF SendCancel, MainStates
  <2> QED
    BY <2>2, <2>3, <2>4 DEF CancelNothing, FinishCancel, AbortCancel
<1>6. RegisteredIsHeard' /\ CtxOK' /\ FreshOK'
  BY <1>1, <1>2, <1>3, <1>5, BooksStay DEF Inv, FreshOK, KeepsContext
<1>7. \A s : Sending(s) => Sending(s)'
  BY <1>1, <1>2, <1>3, SlotFacts DEF Sending, SameOrder, KeepsContext
<1>8. CASE TimeOut
  <2>1. main'.pc = "timeout" /\ main'.slot = main.slot
    BY <1>8 DEF TimeOut, Inv, TypeOK, MainStates
  <2>2. Sending(main.slot)'
    BY <1>7, <1>8, <2>1 DEF TimeOut, Inv, CallOK, Sending
  <2> QED
    BY <1>6, <2>1, <2>2 DEF Safe, CallOK, WaitOwnsPending, Waiting
<1>9. CASE CancelTimedOut
  <2>1. Sending(main.slot) /\ main'.slot = main.slot
    BY <1>9 DEF CancelTimedOut, Inv, CallOK, TypeOK, MainStates
  <2>2. Sending(main.slot)'
    BY <1>7, <2>1 DEF Sending
  <2>3. \/ main'.pc = "clear"
        \/ main'.pc = "cancel" /\ main'.num = OrderNum(main.slot)
    BY <1>9, <2>1 DEF CancelTimedOut, Sending, Inv, TypeOK, MainStates
  <2>4. OrderNum(main.slot) \in Nums
    BY <2>1, SlotFacts DEF Sending
  <2>5. CallOK'
    BY <2>1, <2>2, <2>3, <2>4 DEF CallOK
  <2> QED
    BY <1>6, <2>3, <2>5 DEF Safe, WaitOwnsPending, Waiting
<1>10. CASE Return /\ main.pc \in {"cancel", "cancelling"}
  <2>1. CASE main.then = "clear"
    <3>1. main'.pc = "clear" /\ main'.slot = main.slot
      BY <1>10, <2>1 DEF Return, Inv, TypeOK, MainStates
    <3>2. Sending(main.slot)'
      BY <1>7, <1>10, <2>1, <3>1 DEF Inv, CallOK, Sending
    <3> QED
      BY <1>6, <3>1, <3>2 DEF Safe, CallOK, WaitOwnsPending, Waiting
  <2>2. CASE main.then # "clear"
    BY <1>6, <1>10, <2>2 DEF Return, Idle, Safe, CallOK, WaitOwnsPending, Waiting
  <2> QED
    BY <2>1, <2>2
<1>11. CASE SendCancel /\ main' = [main EXCEPT !.pc = "cancelling"]
  <2>1. /\ main'.pc = "cancelling" /\ main'.slot = main.slot /\ main'.num = main.num
        /\ main'.then = main.then
    BY <1>11 DEF Inv, TypeOK, MainStates
  <2>2. main.pc = "cancel" /\ main.num \in Nums /\ byId[main.num] # NoSlot
    BY <1>11 DEF SendCancel, Inv, CallOK
  <2>3. main.then = "clear" => Sending(main.slot)'
    BY <1>7, <2>1, <2>2 DEF Inv, CallOK, Sending
  <2>4. CallOK'
    BY <1>2, <2>1, <2>2, <2>3 DEF Inv, CallOK
  <2>5. pending' = orders'[byId'[main.num]].cid
    BY <1>2, <1>11, <2>2 DEF SendCancel, CancelId
  <2>6. WaitOwnsPending'
    BY <2>1, <2>5 DEF WaitOwnsPending, Awaited
  <2> QED
    BY <1>6, <2>4, <2>6 DEF Safe
<1> QED
  BY <1>8, <1>9, <1>10, <1>11 DEF CancelNothing, FinishCancel, AbortCancel, SendCancel

(* The callback that gives a slot its names.                               *)
LEMMA LineSafe ==
    ASSUME Inv, TypeOK', NEW i \in Deliverable, LineApplied(i)
    PROVE  Safe'
<1> DEFINE m == inbox[i]
           t == ctx[m.num]
<1>1. UNCHANGED <<main, pending, nextIndex, byId, returned, ctx>>
  BY DEF LineApplied
<1>2. CASE \A s \in Slots : SameOrder(s)
  <2>1. RegisteredIsHeard' /\ CtxOK' /\ FreshOK'
    BY <1>1, <1>2, BooksStay DEF Inv, FreshOK, KeepsContext
  <2>2. CallOK' /\ WaitOwnsPending'
    BY <1>1, <1>2, CallStays
  <2> QED
    BY <2>1, <2>2 DEF Safe
<1>3. CASE /\ m.num \in Nums /\ t \in Slots
           /\ \A n \in Nums : ctx[n] = t => n = m.num
           /\ orders'[t].num = m.num /\ orders'[t].cid = Tag(m.num)
           /\ \A s \in Slots \ {t} : SameOrder(s)
           /\ orders[t].cid \in {0, Tag(m.num)}
  <2>t. t = ctx[m.num]
    OBVIOUS
  <2> HIDE DEF m, t
  <2>0. \A n \in Nums : ctx[n] \in Slots \cup {NoSlot} /\ byId[n] \in Slots \cup {NoSlot}
    BY DEF Inv, TypeOK, EngineTypeOK
  <2>1. RegisteredIsHeard'
    <3> SUFFICES ASSUME NEW k \in Nums, byId[k] # NoSlot
                 PROVE  /\ ctx[k] = byId[k] \/ ContextRefused(k)'
                        /\ orders'[byId[k]].num = k /\ orders'[byId[k]].cid \in KnownIds(k)
      BY <1>1 DEF RegisteredIsHeard
    <3>1. CASE byId[k] = t
      <4>1. k = m.num
        <5>1. CASE ctx[k] = byId[k]
          BY <1>3, <3>1, <5>1
        <5>2. CASE ContextRefused(k)
          <6>1. orders[t].num = m.num \/ orders[t].num = 0
            BY <1>3, <2>t, SlotFacts DEF Inv, CtxOK, Belongs
          <6> QED
            BY <3>1, <6>1, TagFacts DEF Inv, RegisteredIsHeard
        <5> QED
          BY <5>1, <5>2 DEF Inv, RegisteredIsHeard
      <4> QED
        BY <1>3, <2>t, <3>1, <4>1, KnownFacts
    <3>2. CASE byId[k] # t
      BY <1>1, <1>3, <2>0, <3>2 DEF Inv, RegisteredIsHeard, ContextRefused, EngineMayFail,
                                    SameOrder
    <3> QED
      BY <3>1, <3>2
  <2>2. CtxOK'
    BY <1>1, <1>3, <2>0 DEF Inv, CtxOK, Belongs, SameOrder
  <2>3. FreshOK'
    <3>1. LoginBooks => orders[t].cid = IntMax
      BY <1>3, RestoredFacts, SlotFacts, TagFacts, <2>t DEF LoginBooks
    <3>2. IntMax # 0 /\ Tag(m.num) # IntMax
      <4>1. m.num \in Nums
        BY <1>3
      <4>2. IntMax \in Nat /\ IntMax # 0
        BY NumAssumption
      <4>3. Tag(m.num) \in Nat /\ Tag(m.num) > IntMax
        BY <4>1, TagFacts
      <4> QED
        BY <4>2, <4>3
    <3>3. main.pc # "login"
      BY <1>3, <3>1, <3>2 DEF Inv, FreshOK
    <3> QED
      BY <1>1, <3>3 DEF Inv, FreshOK
  <2>4. \A s : Sending(s) => Sending(s)' /\ orders'[s].cid = orders[s].cid
    <3> SUFFICES ASSUME NEW s, Sending(s)
                 PROVE  Sending(s)' /\ orders'[s].cid = orders[s].cid
      OBVIOUS
    <3>1. CASE s = t
      BY <1>1, <1>3, <3>1, SlotFacts DEF Sending
    <3>2. CASE s # t
      BY <1>1, <1>3, <3>2 DEF Sending, SameOrder
    <3> QED
      BY <3>1, <3>2
  <2>5. \A s, n : Retrieving(s, n) => Retrieving(s, n)'
    <3> SUFFICES ASSUME NEW s, NEW n, Retrieving(s, n)
                 PROVE  Retrieving(s, n)'
      OBVIOUS
    <3>1. CASE s = t
      BY <1>1, <1>3, <3>1 DEF Retrieving
    <3>2. CASE s # t
      BY <1>1, <1>3, <3>2 DEF Retrieving, SameOrder
    <3> QED
      BY <3>1, <3>2
  <2>6. CallOK'
    <3>1. main' = main /\ byId' = byId
      BY <1>1
    <3>2. main.pc \in {"buying", "timeout", "clear"} => Sending(main.slot)'
      BY <1>1, <2>4 DEF Inv, CallOK, Sending
    <3>3. main.pc = "retrieving" => Retrieving(main.slot, main.num)'
      BY <1>1, <2>5 DEF Inv, CallOK, Retrieving
    <3>4. main.pc \in {"cancel", "cancelling"} /\ main.then = "clear" => Sending(main.slot)'
      BY <1>1, <2>4 DEF Inv, CallOK, Sending
    <3> QED
      BY <3>1, <3>2, <3>3, <3>4 DEF Inv, CallOK
  <2>7. WaitOwnsPending'
    <3>1. main.pc = "cancelling" => orders'[byId[main.num]].cid = orders[byId[main.num]].cid
      <4> SUFFICES ASSUME main.pc = "cancelling"
                   PROVE  orders'[byId[main.num]].cid = orders[byId[main.num]].cid
        OBVIOUS
      <4>1. /\ main.num \in Nums /\ byId[main.num] \in Slots
            /\ orders[byId[main.num]].cid # 0
        BY <2>0, KnownFacts DEF Inv, CallOK, RegisteredIsHeard
      <4>2. CASE byId[main.num] = t
        BY <1>3, <4>1, <4>2
      <4>3. CASE byId[main.num] # t
        BY <1>3, <4>1, <4>3 DEF SameOrder
      <4> QED
        BY <4>2, <4>3
    <3>2. main.pc \in Waiting => Awaited' = Awaited
      BY <1>1, <2>4, <3>1 DEF Awaited, Waiting, Inv, CallOK
    <3> QED
      BY <1>1, <3>2 DEF Inv, WaitOwnsPending
  <2> QED
    BY <2>1, <2>2, <2>3, <2>6, <2>7 DEF Safe
<1> QED
  BY <1>2, <1>3, LineNames

(* The other callbacks, the test and the reset, and the engine.            *)
LEMMA QuietSafe ==
    ASSUME Inv, TypeOK',
           \/ \E i \in Deliverable : Handle(i) /\ ~LineApplied(i)
           \/ Test \/ Reset \/ \E n \in Nums : Engine(n)
    PROVE  Safe'
<1>1. UNCHANGED <<main, nextIndex, byId, returned, ctx>> /\ pending' \in {0, pending}
  <2>1. CASE \E i \in Deliverable : Handle(i) /\ ~LineApplied(i)
    BY <2>1 DEF Handle, LineDropped, LineStale, LineSendsCancel, LineError, ReportApplied,
                ReportDropped, NotCancelledReport, SingleOrderReplay
  <2>2. CASE Test \/ Reset
    BY <2>2 DEF Test, Reset
  <2>3. CASE \E n \in Nums : Engine(n)
    <3>1. PICK n \in Nums : Engine(n)
      BY <2>3
    <3>2. ctx' = ctx
      BY <3>1 DEF Engine, EngineStep, Acknowledge, Refuse, Reject, Fill, Cancel,
                  RefuseCancel, Announce
    <3> QED
      BY <3>1, <3>2 DEF Engine
  <2> QED
    BY <2>1, <2>2, <2>3
<1>2. \A s \in Slots : SameOrder(s)
  <2>1. CASE UNCHANGED orders
    BY <2>1 DEF SameOrder
  <2>2. ASSUME NEW i \in Deliverable, LineSendsCancel(i)
        PROVE  \A s \in Slots : SameOrder(s)
    BY <2>2 DEF LineSendsCancel, SameOrder, Inv, TypeOK, Order
  <2>3. ASSUME NEW i \in Deliverable, ReportApplied(i)
        PROVE  \A s \in Slots : SameOrder(s)
    <3>1. inbox[i].kind \in Reported
      BY <2>3 DEF ReportApplied, Takes
    <3>2. \A o \in Order : Marked(o, inbox[i]).num = o.num /\ Marked(o, inbox[i]).cid = o.cid
      BY <3>1 DEF Marked, Order, Reported
    <3>3. orders' = [orders EXCEPT ![ctx[inbox[i].num]] =
                       Marked(orders[ctx[inbox[i].num]], inbox[i])]
      BY <2>3 DEF ReportApplied
    <3> QED
      BY <3>2, <3>3 DEF SameOrder, Inv, TypeOK
  <2>4. ~(\E i \in Deliverable : LineSendsCancel(i) \/ ReportApplied(i)) => UNCHANGED orders
    BY DEF Handle, LineDropped, LineStale, LineError, ReportDropped, NotCancelledReport,
           SingleOrderReplay, Test, Reset, Engine
  <2> QED
    BY <2>1, <2>2, <2>3, <2>4
<1>3. RegisteredIsHeard' /\ CtxOK' /\ FreshOK'
  BY <1>1, <1>2, BooksStay DEF Inv, FreshOK, KeepsContext
<1>4. CallOK' /\ WaitOwnsPending'
  BY <1>1, <1>2, CallStays
<1> QED
  BY <1>3, <1>4 DEF Safe

(* The calls that give up, and DO_CANCEL.                                  *)
LEMMA LeaveSafe ==
    ASSUME Inv, TypeOK',
           AbortSend \/ ReturnTimedOut \/ AbortRetrieve \/ \E n \in Nums : DoCancel(n)
    PROVE  Safe'
<1>1. UNCHANGED <<nextIndex, byId, ctx, orders>>
  BY DEF AbortSend, ReturnTimedOut, AbortRetrieve, DoCancel
<1>2. \A s \in Slots : SameOrder(s)
  BY <1>1 DEF SameOrder
<1>3. \A s \in Slots : returned'[s] # "none" => s < nextIndex
  <2>1. CASE UNCHANGED returned
    BY <2>1 DEF Inv, FreshOK
  <2>2. CASE AbortSend \/ ReturnTimedOut
    <3>1. main.slot \in Slots /\ main.slot < nextIndex
      BY <2>2 DEF AbortSend, ReturnTimedOut, Inv, CallOK, Sending
    <3>2. \A s \in Slots : s # main.slot => returned'[s] = returned[s]
      BY <2>2 DEF AbortSend, ReturnTimedOut, Inv, TypeOK
    <3> QED
      BY <3>1, <3>2 DEF Inv, FreshOK
  <2> QED
    BY <2>1, <2>2 DEF AbortRetrieve, DoCancel
<1>4. CASE main'.pc = "idle"
  BY <1>1, <1>2, <1>3, <1>4, ReturnSafe
<1>5. ASSUME NEW n \in Nums, DoCancel(n)
      PROVE  Safe'
  <2>1. main'.pc = "cancel" /\ main'.num = n /\ main'.then = "idle"
    BY <1>5 DEF DoCancel, Idle
  <2>2. RegisteredIsHeard' /\ CtxOK' /\ FreshOK'
    BY <1>1, <1>2, <1>3, <2>1, BooksStay DEF KeepsContext
  <2> QED
    BY <2>1, <2>2 DEF Safe, CallOK, WaitOwnsPending, Waiting
<1> QED
  BY <1>4, <1>5 DEF AbortSend, ReturnTimedOut, AbortRetrieve, Idle

-----------------------------------------------------------------------------
(* The invariant is inductive. *)

LEMMA InvInit == Init => Inv
<1> SUFFICES ASSUME Init PROVE Inv
  OBVIOUS
<1>1. TypeOK
  <2>1. EngineTypeOK
    <3>1. \A n \in Nums : exch[n] \in ExchangeOrder
      <4>1. NoExchangeOrder \in ExchangeOrder
        BY QtyAssumption DEF NoExchangeOrder, ExchangeOrder, Finished
      <4>2. [NoExchangeOrder EXCEPT !.st = "open", !.rests = TRUE, !.seq = 1]
              \in ExchangeOrder
        BY <4>1 DEF ExchangeOrder
      <4> QED
        BY <4>1, <4>2 DEF Init, EngineInit
    <3> QED
      BY <3>1 DEF Init, EngineInit, EngineTypeOK
  <2>2. orders \in [Slots -> Order]
    <3>1. NewOrder(0, 0, FALSE, FALSE) \in Order
      BY OrderFacts
    <3> QED
      BY <3>1 DEF Init
  <2>3. main \in MainStates
    BY DEF Init, Idle, MainStates
  <2>4. nextIndex \in 0..MaxOrders
    BY SlotAssumption DEF Init
  <2>5. returned \in [Slots -> Outcomes]
    BY DEF Init, Outcomes
  <2>6. cb \in CallbackStates
    BY DEF Init, CallbackStates
  <2>7. byId \in [Nums -> Slots \cup {NoSlot}] /\ pending \in Nat
    BY DEF Init
  <2> QED
    BY <2>1, <2>2, <2>3, <2>4, <2>5, <2>6, <2>7 DEF TypeOK
<1>2. main.pc = "login"
  BY DEF Init, Idle
<1>3. CallOK /\ WaitOwnsPending
  BY <1>2 DEF CallOK, WaitOwnsPending, Waiting
<1>4. RegisteredIsHeard /\ CtxOK
  BY DEF Init, EngineInit, RegisteredIsHeard, CtxOK
<1>5. FreshOK
  <2>1. orders = [s \in Slots |-> NewOrder(0, 0, FALSE, FALSE)]
    BY DEF Init
  <2>2. LoginBooks
    BY <2>1 DEF Init, EngineInit, LoginBooks, NewOrder
  <2> QED
    BY <2>2, SlotFacts DEF Init, FreshOK
<1> QED
  BY <1>1, <1>3, <1>4, <1>5 DEF Inv

LEMMA InvStep == Inv /\ [Next]_vars => Inv'
<1> SUFFICES ASSUME Inv, [Next]_vars PROVE Inv'
  OBVIOUS
<1>1. CASE Next
  <2>1. TypeOK'
    BY <1>1, TypeStep
  <2>2. Safe'
    <3>1. CASE Login \/ \E n \in Nums : OpenOrderReplay(n)
      BY <2>1, <3>1, LoginSafe, RestoreSafe
    <3>2. CASE \E r \in Requests : SendOrder(r)
      BY <2>1, <3>2, SendSafe
    <3>3. CASE \E n \in Nums : RetrieveOrder(n)
      BY <2>1, <3>3, RetrieveSafe
    <3>4. CASE FinishSend \/ FinishRetrieve
      BY <2>1, <3>4, FinishSafe
    <3>5. CASE \/ TimeOut \/ CancelTimedOut \/ CancelNothing \/ FinishCancel \/ AbortCancel
               \/ SendCancel
      BY <2>1, <3>5, MoveSafe
    <3>6. CASE AbortSend \/ ReturnTimedOut \/ AbortRetrieve \/ \E n \in Nums : DoCancel(n)
      BY <2>1, <3>6, LeaveSafe
    <3>7. CASE Callback \/ \E n \in Nums : Engine(n)
      BY <2>1, <3>7, LineSafe, QuietSafe DEF Callback
    <3> QED
      BY <1>1, <3>1, <3>2, <3>3, <3>4, <3>5, <3>6, <3>7 DEF Next, Call, Proceed, GiveUp
  <2> QED
    BY <2>1, <2>2 DEF Inv, Safe
<1>2. CASE UNCHANGED vars
  <2>1. TypeOK'
    BY <1>2 DEF vars, Inv, TypeOK, EngineTypeOK
  <2>2. RegisteredIsHeard' /\ CtxOK' /\ FreshOK'
    BY <1>2, <2>1, BooksStay DEF vars, SameOrder, Inv, FreshOK, KeepsContext
  <2>3. CallOK' /\ WaitOwnsPending'
    BY <1>2, <2>1, CallStays DEF vars, SameOrder
  <2> QED
    BY <2>1, <2>2, <2>3 DEF Inv
<1> QED
  BY <1>1, <1>2

LEMMA Inductive == Spec => []Inv
BY InvInit, InvStep, PTL DEF Spec

(* The slots, the maps and the queue hold what their types say.            *)
THEOREM TypeCorrect == Spec => []TypeOK
<1>1. Inv => TypeOK
  BY DEF Inv
<1> QED
  BY <1>1, Inductive, PTL

(* BrokerTrade and DO_CANCEL read the slot that the callbacks of their     *)
(* order write: orders_by_id_ and the engine's contexts never name         *)
(* different slots, whatever calls fail, are abandoned or time out. What   *)
(* is left is a restored order whose setOrderContext failed: it has none.  *)
THEOREM RegisteredOrdersAreHeard == Spec => []RegisteredIsHeard
<1>1. Inv => RegisteredIsHeard
  BY DEF Inv
<1> QED
  BY <1>1, Inductive, PTL

(* A call that waits finds its own request in pending_order_request_, or   *)
(* none, whatever requests of other calls were abandoned before.           *)
THEOREM WaitingCallOwnsPending == Spec => []WaitOwnsPending
<1>1. Inv => WaitOwnsPending
  BY DEF Inv
<1> QED
  BY <1>1, Inductive, PTL

-----------------------------------------------------------------------------
(* The cancel of a timed-out limit order. *)

(* The cancel that doSendOrder sends for a timed-out order finds no entry  *)
(* in orders_by_id_, whatever the engine did, and so is never sent.        *)
THEOREM TimedOutCancelFindsNothing == Spec => []TimedOutCancelUnregistered
<1>1. Inv => TimedOutCancelUnregistered
  BY DEF Inv, CallOK, Sending, TimedOutCancelUnregistered
<1> QED
  BY <1>1, Inductive, PTL

(* The slots whose cancel was left to the first line update, also while    *)
(* doSendOrder is about to return; and the cancel itself.                  *)
Left(s) ==
    \/ returned[s] = "Armed"
    \/ main.pc = "clear" /\ main.num = 0 /\ main.slot = s /\ orders[s].limit
Coming(s) == orders[s].armed \/ exch[OrderNum(s)].asked

Kept ==
    /\ \A s \in Slots : returned[s] # "none" => orders[s].cid = Tag(OrderNum(s))
    /\ main.pc \in {"buying", "timeout"} => main.num = 0 /\ returned[main.slot] = "none"
    /\ \A s \in Slots : Left(s) => Coming(s)

(* A step that takes no cancel away.                                       *)
LEMMA KeptStays ==
    ASSUME Inv, Kept, TypeOK',
           \A s \in Slots : orders'[s].cid = orders[s].cid \/ returned'[s] = "none",
           \A s \in Slots : returned'[s] = returned[s]
                            \/ orders[s].cid = Tag(OrderNum(s)),
           \A s \in Slots : Left(s)' => Left(s) \/ Coming(s)',
           \A s \in Slots : Left(s) /\ Coming(s) => Coming(s)',
           main'.pc \in {"buying", "timeout"} =>
             main'.num = 0 /\ returned'[main'.slot] = "none"
    PROVE  Kept'
<1>1. \A s \in Slots : returned'[s] # "none" => orders'[s].cid = Tag(OrderNum(s))
  BY DEF Kept
<1>2. \A s \in Slots : Left(s)' => Coming(s)'
  BY DEF Kept
<1> QED
  BY <1>1, <1>2 DEF Kept

(* Steps of the engine never take a requested cancel back.                 *)
LEMMA AskedStays ==
    ASSUME Inv, TypeOK', Next
    PROVE  \A n \in Nums : exch[n].asked => exch'[n].asked
<1>0. exch \in [Nums -> ExchangeOrder]
  BY DEF Inv, TypeOK, EngineTypeOK
<1>1. CASE UNCHANGED exch
  BY <1>1
<1>2. ASSUME NEW r \in Requests, SendOrder(r)
      PROVE  \A n \in Nums : exch[n].asked => exch'[n].asked
  BY <1>0, <1>2 DEF SendOrder, ExchangeOrder
<1>3. CASE SendCancel
  BY <1>0, <1>3 DEF SendCancel, ExchangeOrder
<1>4. ASSUME NEW i \in Deliverable, LineSendsCancel(i)
      PROVE  \A n \in Nums : exch[n].asked => exch'[n].asked
  BY <1>0, <1>4 DEF LineSendsCancel, ExchangeOrder
<1>5. ASSUME NEW k \in Nums, EngineStep(k)
      PROVE  \A n \in Nums : exch[n].asked => exch'[n].asked
  <2>1. CASE Acknowledge(k)
    BY <1>0, <2>1 DEF Acknowledge, ExchangeOrder
  <2>2. CASE Refuse(k)
    BY <1>0, <2>2 DEF Refuse, ExchangeOrder
  <2>3. CASE Reject(k)
    BY <1>0, <2>3 DEF Reject, Announce, ExchangeOrder
  <2>4. CASE Fill(k)
    BY <1>0, <2>4 DEF Fill, Announce, ExchangeOrder
  <2>5. CASE Cancel(k)
    BY <1>0, <2>5 DEF Cancel, Announce, ExchangeOrder
  <2>6. CASE RefuseCancel(k)
    BY <1>0, <2>6 DEF RefuseCancel, ExchangeOrder
  <2> QED
    BY <1>5, <2>1, <2>2, <2>3, <2>4, <2>5, <2>6 DEF EngineStep
<1> QED
  BY <1>1, <1>2, <1>3, <1>4, <1>5
  DEF Next, Call, Proceed, GiveUp, Callback, Handle, Engine, OpenOrderReplay, Login, FinishSend,
      AbortSend, TimeOut, CancelTimedOut, ReturnTimedOut, DoCancel, CancelNothing,
      FinishCancel, AbortCancel, RetrieveOrder, FinishRetrieve, Retrieved, AbortRetrieve,
      LineDropped, LineStale, LineApplied, LineError, ReportApplied, ReportDropped,
      NotCancelledReport, SingleOrderReplay, Test, Reset

(* The next slot is nobody's: no order was sent from it.                   *)
LEMMA KeptByNewSlot ==
    ASSUME Inv, Kept, TypeOK', Next, nextIndex \in Slots,
           \A s \in Slots \ {nextIndex} : orders'[s] = orders[s],
           UNCHANGED returned,
           main'.pc # "clear", main'.pc # "timeout",
           main'.pc = "buying" => main'.num = 0 /\ main'.slot = nextIndex
    PROVE  Kept'
<1>1. returned[nextIndex] = "none"
  BY SlotFacts DEF Inv, FreshOK
<1>2. \A s \in Slots : Left(s)' => Left(s) /\ s # nextIndex
  BY <1>1 DEF Left
<1>3. \A s \in Slots : s # nextIndex /\ Coming(s) => Coming(s)'
  BY AskedStays, SlotFacts DEF Coming
<1>4. \A s \in Slots : Left(s)' => Coming(s)'
  BY <1>2, <1>3 DEF Kept
<1>5. \A s \in Slots : returned'[s] # "none" => orders'[s].cid = Tag(OrderNum(s))
  BY <1>1 DEF Kept
<1> QED
  BY <1>1, <1>4, <1>5 DEF Kept

(* A line update that sends the cancel of slot t sends it for the order    *)
(* that was sent from t.                                                   *)
LEMMA KeptBySending ==
    ASSUME Inv, Kept, TypeOK', Next, NEW i \in Deliverable, LineSendsCancel(i),
           "EngineFails" \notin Faults
    PROVE  Kept'
<1> SUFFICES ASSUME NEW m, m = inbox[i], NEW t, t = ctx[m.num]
             PROVE  Kept'
  OBVIOUS
<1>1. m.num \in Nums
  BY TakesFacts DEF LineSendsCancel, Inv, TypeOK, EngineTypeOK
<1>2. t \in Slots /\ t # NoSlot
  BY <1>1, SlotFacts DEF LineSendsCancel, HasSlot, Ours, Inv, TypeOK, EngineTypeOK
<1>3. UNCHANGED <<main, returned>>
  BY DEF LineSendsCancel
<1>4. /\ \A s \in Slots : orders'[s].cid = orders[s].cid /\ orders'[s].limit = orders[s].limit
      /\ \A s \in Slots \ {t} : orders'[s] = orders[s]
  <2>1. orders' = [orders EXCEPT ![t].armed = FALSE]
    BY DEF LineSendsCancel
  <2>2. orders \in [Slots -> Order]
    BY DEF Inv, TypeOK
  <2> QED
    BY <1>2, <2>1, <2>2 DEF Order
<1>5. exch'[m.num].asked
  BY <1>1 DEF LineSendsCancel, EngineMayFail, Inv, TypeOK, EngineTypeOK, ExchangeOrder
<1>6. orders[t].cid = Tag(OrderNum(t)) => m.num = OrderNum(t)
  <2>1. Belongs(t, m.num)
    BY <1>1, <1>2 DEF Inv, CtxOK
  <2>2. OrderNum(t) \in Nums
    BY <1>2, SlotFacts
  <2>3. Tag(OrderNum(t)) # 0 /\ Tag(OrderNum(t)) # IntMax
    <3>1. Tag(OrderNum(t)) \in Nat /\ Tag(OrderNum(t)) > IntMax /\ IntMax \in Nat
      BY <2>2, TagFacts, NumAssumption
    <3> QED
      BY <3>1
  <2> QED
    BY <1>1, <2>1, <2>2, <2>3, TagFacts DEF Belongs
<1>7. Left(t) => orders[t].cid = Tag(OrderNum(t))
  <2>1. main.pc = "clear" => orders[main.slot].cid = Tag(OrderNum(main.slot))
    BY DEF Inv, CallOK, Sending
  <2>2. returned[t] = "Armed" => orders[t].cid = Tag(OrderNum(t))
    BY <1>2 DEF Kept
  <2> QED
    BY <2>1, <2>2 DEF Left
<1>8. \A s \in Slots : Left(s) /\ Coming(s) => Coming(s)'
  <2>1. \A s \in Slots \ {t} : Coming(s) => Coming(s)'
    BY <1>4, AskedStays, SlotFacts DEF Coming
  <2>2. Left(t) => Coming(t)'
    BY <1>5, <1>6, <1>7 DEF Coming
  <2> QED
    BY <2>1, <2>2
<1>9. \A s \in Slots : Left(s)' => Left(s)
  BY <1>3, <1>4 DEF Left
<1> QED
  BY <1>3, <1>4, <1>8, <1>9, KeptStays DEF Kept

(* Updates and reports change neither the flag nor the price.              *)
LEMMA KeptByCallback ==
    ASSUME Inv, Kept, TypeOK', Next, NEW i \in Deliverable, Handle(i), ~LineSendsCancel(i)
    PROVE  Kept'
<1>1. UNCHANGED <<main, returned, ctx>>
  BY DEF Handle, LineDropped, LineStale, LineApplied, LineError, ReportApplied, ReportDropped,
         NotCancelledReport, SingleOrderReplay
<1>2. \A s \in Slots : orders'[s].armed = orders[s].armed /\ orders'[s].limit = orders[s].limit
  <2>1. CASE UNCHANGED orders
    BY <2>1
  <2>2. CASE LineApplied(i)
    <3>1. orders' = [orders EXCEPT ![ctx[inbox[i].num]] =
                       Updated(orders[ctx[inbox[i].num]], inbox[i])]
      BY <2>2 DEF LineApplied
    <3>2. \A o \in Order : Updated(o, inbox[i]).armed = o.armed
                           /\ Updated(o, inbox[i]).limit = o.limit
      BY DEF Updated, Order
    <3> QED
      BY <3>1, <3>2 DEF Inv, TypeOK
  <2>3. CASE ReportApplied(i)
    <3>1. inbox[i].kind \in Reported
      BY <2>3 DEF ReportApplied, Takes
    <3>2. \A o \in Order : Marked(o, inbox[i]).armed = o.armed
                           /\ Marked(o, inbox[i]).limit = o.limit
      BY <3>1 DEF Marked, Order, Reported
    <3>3. orders' = [orders EXCEPT ![ctx[inbox[i].num]] =
                       Marked(orders[ctx[inbox[i].num]], inbox[i])]
      BY <2>3 DEF ReportApplied
    <3> QED
      BY <3>2, <3>3 DEF Inv, TypeOK
  <2> QED
    BY <2>1, <2>2, <2>3 DEF Handle, LineDropped, LineStale, LineError, ReportDropped,
                            NotCancelledReport, SingleOrderReplay
<1>3. \A s \in Slots : returned[s] # "none" => orders'[s].cid = orders[s].cid
  <2>1. CASE LineApplied(i)
    <3>1. inbox[i].num \in Nums
      BY <2>1, TakesFacts DEF LineApplied, Inv, TypeOK, EngineTypeOK
    <3>2. \A s \in Slots : returned[s] # "none" => orders[s].cid # 0
      <4>1. \A s \in Slots : OrderNum(s) \in Nums
        BY SlotFacts
      <4>2. \A s \in Slots : Tag(OrderNum(s)) \in Nat /\ Tag(OrderNum(s)) > IntMax
        BY <4>1, TagFacts
      <4>3. \A s \in Slots : Tag(OrderNum(s)) # 0
        BY <4>2, NumAssumption
      <4> QED
        BY <4>3 DEF Kept
    <3> QED
      BY <2>1, <3>2, LineNames DEF SameOrder
  <2>2. CASE ~LineApplied(i)
    <3>1. CASE UNCHANGED orders
      BY <3>1
    <3>2. CASE ReportApplied(i)
      <4>1. inbox[i].kind \in Reported
        BY <3>2 DEF ReportApplied, Takes
      <4>2. \A o \in Order : Marked(o, inbox[i]).cid = o.cid
        BY <4>1 DEF Marked, Order, Reported
      <4>3. orders' = [orders EXCEPT ![ctx[inbox[i].num]] =
                         Marked(orders[ctx[inbox[i].num]], inbox[i])]
        BY <3>2 DEF ReportApplied
      <4> QED
        BY <4>2, <4>3 DEF Inv, TypeOK
    <3> QED
      BY <2>2, <3>1, <3>2 DEF Handle, LineDropped, LineStale, LineError, ReportDropped,
                              NotCancelledReport, SingleOrderReplay
  <2> QED
    BY <2>1, <2>2
<1>4. \A s \in Slots : Left(s)' => Left(s)
  BY <1>1, <1>2 DEF Left
<1>5. \A s \in Slots : Coming(s) => Coming(s)'
  BY <1>2, AskedStays, SlotFacts DEF Coming
<1> QED
  BY <1>1, <1>3, <1>4, <1>5, KeptStays DEF Kept

(* The moves of a call that waits, cancels or gives up.                    *)
LEMMA KeptByCall ==
    ASSUME Inv, Kept, TypeOK', Next,
           \/ FinishSend \/ AbortSend \/ TimeOut \/ CancelTimedOut \/ ReturnTimedOut
           \/ CancelNothing \/ FinishCancel \/ AbortCancel \/ SendCancel
           \/ FinishRetrieve \/ AbortRetrieve \/ \E n \in Nums : DoCancel(n)
    PROVE  Kept'
<1>0. main \in MainStates /\ orders \in [Slots -> Order] /\ returned \in [Slots -> Outcomes]
  BY DEF Inv, TypeOK
<1>1. CASE UNCHANGED <<orders, returned>> /\ main'.pc \notin {"clear", "buying", "timeout"}
  <2>1. \A s \in Slots : Left(s)' => Left(s)
    BY <1>1 DEF Left
  <2>2. \A s \in Slots : Coming(s) => Coming(s)'
    BY <1>1, AskedStays, SlotFacts DEF Coming
  <2> QED
    BY <1>1, <2>1, <2>2, KeptStays
<1>2. CASE TimeOut
  <2>1. /\ main'.pc = "timeout" /\ main'.num = main.num /\ main.pc = "buying"
        /\ main'.slot = main.slot
    BY <1>0, <1>2 DEF TimeOut, MainStates
  <2>2. \A s \in Slots : Left(s)' => Left(s)
    BY <1>2, <2>1 DEF TimeOut, Left
  <2>3. \A s \in Slots : Coming(s) => Coming(s)'
    BY <1>2, AskedStays, SlotFacts DEF TimeOut, Coming
  <2> QED
    BY <1>2, <2>1, <2>2, <2>3, KeptStays DEF TimeOut, Kept
<1>3. CASE CancelTimedOut
  <2> DEFINE o == orders[main.slot]
  <2>1. main.slot \in Slots /\ main'.slot = main.slot /\ o.num \in {0, OrderNum(main.slot)}
    BY <1>0, <1>3 DEF CancelTimedOut, MainStates, Inv, CallOK, Sending
  <2>2. \A s \in Slots : orders'[s].cid = orders[s].cid /\ orders'[s].limit = orders[s].limit
    BY <1>0, <1>3 DEF CancelTimedOut, Order
  <2>3. CASE o.limit /\ o.num # 0
    <3>1. main'.pc = "cancel" /\ UNCHANGED <<orders, returned>>
      BY <1>0, <1>3, <2>3 DEF CancelTimedOut, ArmsCancel, MainStates
    <3> QED
      BY <1>1, <3>1
  <2>4. CASE ~(o.limit /\ o.num # 0)
    <3>1. main'.pc = "clear" /\ orders' = [orders EXCEPT ![main.slot].armed = o.limit]
      BY <1>0, <1>3, <2>4 DEF CancelTimedOut, ArmsCancel, MainStates
    <3>2. orders'[main.slot].armed = o.limit
      BY <1>0, <2>1, <3>1 DEF Order
    <3>3. \A s \in Slots \ {main.slot} : orders'[s] = orders[s]
      BY <1>0, <3>1
    <3>4. returned' = returned
      BY <1>3 DEF CancelTimedOut
    <3>5. \A s \in Slots : Left(s)' => Left(s) \/ Coming(s)'
      BY <2>1, <2>2, <3>2, <3>4 DEF Left, Coming
    <3>6. \A s \in Slots \ {main.slot} : Coming(s) => Coming(s)'
      BY <3>3, AskedStays, SlotFacts DEF Coming
    <3>7. ~Left(main.slot)
      BY <1>3 DEF CancelTimedOut, Kept, Left
    <3> QED
      BY <2>2, <3>1, <3>4, <3>5, <3>6, <3>7, KeptStays
  <2> QED
    BY <2>3, <2>4
<1>4. CASE FinishSend \/ AbortSend \/ ReturnTimedOut
  <2> DEFINE t == main.slot
  <2>1. main'.pc = "idle" /\ UNCHANGED <<orders>>
    BY <1>4 DEF FinishSend, AbortSend, ReturnTimedOut, Idle
  <2>2. t \in Slots /\ orders[t].cid = Tag(OrderNum(t))
    BY <1>4 DEF FinishSend, AbortSend, ReturnTimedOut, Inv, CallOK, Sending
  <2>3. \A s \in Slots : s # t => returned'[s] = returned[s]
    BY <1>0, <1>4 DEF FinishSend, AbortSend, ReturnTimedOut
  <2>4. \A s \in Slots : Left(s)' => Left(s)
    <3>1. \A s \in Slots : Left(s)' => returned'[s] = "Armed"
      BY <2>1 DEF Left
    <3>2. returned'[t] = "Armed" => Left(t)
      BY <1>0, <1>4, <2>2 DEF FinishSend, AbortSend, ReturnTimedOut, Left
    <3> QED
      BY <2>3, <3>1, <3>2 DEF Left
  <2>5. \A s \in Slots : Coming(s) => Coming(s)'
    BY <2>1, AskedStays, SlotFacts DEF Coming
  <2> HIDE DEF t
  <2> QED
    BY <2>1, <2>2, <2>3, <2>4, <2>5, KeptStays
<1>5. CASE /\ Return /\ main.pc \in {"cancel", "cancelling"}
           /\ UNCHANGED <<orders, returned>>
  <2>1. CASE main.then = "clear"
    <3>1. main'.pc = "clear" /\ main'.num = main.num
      BY <1>0, <1>5, <2>1 DEF Return, MainStates
    <3>2. main.num # 0
      BY <1>5, TagFacts DEF Inv, CallOK
    <3>3. \A s \in Slots : Left(s)' => Left(s)
      BY <1>5, <3>1, <3>2 DEF Left
    <3>4. \A s \in Slots : Coming(s) => Coming(s)'
      BY <1>5, AskedStays, SlotFacts DEF Coming
    <3> QED
      BY <1>5, <3>1, <3>3, <3>4, KeptStays
  <2>2. CASE main.then # "clear"
    BY <1>1, <1>5, <2>2 DEF Return, Idle
  <2> QED
    BY <2>1, <2>2
<1>6. CASE SendCancel /\ main' = [main EXCEPT !.pc = "cancelling"]
  <2>1. main'.pc = "cancelling"
    BY <1>0, <1>6 DEF MainStates
  <2> QED
    BY <1>1, <1>6, <2>1 DEF SendCancel
<1>7. CASE FinishRetrieve \/ AbortRetrieve \/ \E n \in Nums : DoCancel(n)
  <2>1. CASE FinishRetrieve \/ AbortRetrieve
    BY <1>1, <2>1 DEF FinishRetrieve, AbortRetrieve, Retrieved, Idle
  <2>2. ASSUME NEW n \in Nums, DoCancel(n)
        PROVE  Kept'
    <3>1. main'.pc = "cancel" /\ UNCHANGED <<orders, returned>>
      BY <2>2 DEF DoCancel, Idle
    <3> QED
      BY <1>1, <3>1
  <2> QED
    BY <1>7, <2>1, <2>2
<1> QED
  BY <1>2, <1>3, <1>4, <1>5, <1>6, <1>7
  DEF CancelNothing, FinishCancel, AbortCancel, SendCancel

LEMMA KeptStep ==
    ASSUME Inv, Kept, "EngineFails" \notin Faults, [Next]_vars
    PROVE  Kept'
<1>1. CASE Next
  <2>1. TypeOK'
    BY <1>1, TypeStep
  <2>2. ASSUME NEW n \in Nums, OpenOrderReplay(n)
        PROVE  Kept'
    <3>1. nextIndex \in Slots
      BY <2>2, SlotAssumption DEF OpenOrderReplay, Inv, TypeOK, Slots
    <3>2. main'.pc = "login" /\ UNCHANGED returned
      BY <2>2 DEF OpenOrderReplay
    <3>3. \A s \in Slots \ {nextIndex} : orders'[s] = orders[s]
      BY <2>2 DEF OpenOrderReplay, Inv, TypeOK
    <3> QED
      BY <1>1, <2>1, <3>1, <3>2, <3>3, KeptByNewSlot
  <2>login. CASE Login
    <3>1. main'.pc = "idle" /\ UNCHANGED <<orders, returned>>
      BY <2>login DEF Login, Idle
    <3>2. \A s \in Slots : Left(s)' => Left(s)
      BY <3>1 DEF Left
    <3>3. \A s \in Slots : Coming(s) => Coming(s)'
      BY <1>1, <2>1, <3>1, AskedStays, SlotFacts DEF Coming
    <3> QED
      BY <2>1, <3>1, <3>2, <3>3, KeptStays DEF Kept
  <2>3. ASSUME NEW r \in Requests, SendOrder(r)
        PROVE  Kept'
    <3>1. nextIndex \in Slots
      BY <2>3, SlotAssumption DEF SendOrder, Inv, TypeOK, Slots
    <3>2. /\ UNCHANGED returned
          /\ main' = [Idle EXCEPT !.pc = "buying", !.slot = nextIndex]
      BY <2>3 DEF SendOrder, EngineMayFail
    <3>3. main'.pc = "buying" /\ main'.num = 0 /\ main'.slot = nextIndex
      BY <3>2 DEF Idle
    <3>4. \A s \in Slots \ {nextIndex} : orders'[s] = orders[s]
      BY <2>3 DEF SendOrder, Inv, TypeOK
    <3> QED
      BY <1>1, <2>1, <3>1, <3>2, <3>3, <3>4, KeptByNewSlot
  <2>4. ASSUME NEW n \in Nums, RetrieveOrder(n)
        PROVE  Kept'
    <3>1. nextIndex \in Slots
      BY <2>4, SlotAssumption DEF RetrieveOrder, Inv, TypeOK, Slots
    <3>2. main'.pc = "retrieving" /\ UNCHANGED returned
      BY <2>4 DEF RetrieveOrder, EngineMayFail, Idle
    <3>3. \A s \in Slots \ {nextIndex} : orders'[s] = orders[s]
      BY <2>4 DEF RetrieveOrder, Inv, TypeOK
    <3> QED
      BY <1>1, <2>1, <3>1, <3>2, <3>3, KeptByNewSlot
  <2>5. CASE \/ FinishSend \/ AbortSend \/ TimeOut \/ CancelTimedOut \/ ReturnTimedOut
             \/ CancelNothing \/ FinishCancel \/ AbortCancel \/ SendCancel
             \/ FinishRetrieve \/ AbortRetrieve \/ \E n \in Nums : DoCancel(n)
    BY <1>1, <2>1, <2>5, KeptByCall
  <2>6. ASSUME NEW i \in Deliverable, Handle(i)
        PROVE  Kept'
    BY <1>1, <2>1, <2>6, KeptBySending, KeptByCallback
  <2>7. CASE Test \/ Reset \/ \E n \in Nums : Engine(n)
    <3>1. UNCHANGED <<main, orders, returned>>
      BY <2>7 DEF Test, Reset, Engine
    <3>2. \A s \in Slots : Left(s)' => Left(s)
      BY <3>1 DEF Left
    <3>3. \A s \in Slots : Coming(s) => Coming(s)'
      BY <1>1, <2>1, <3>1, AskedStays, SlotFacts DEF Coming
    <3> QED
      BY <2>1, <3>1, <3>2, <3>3, KeptStays DEF Kept
  <2> QED
    BY <1>1, <2>2, <2>login, <2>3, <2>4, <2>5, <2>6, <2>7
    DEF Next, Call, Proceed, GiveUp, Callback
<1>2. CASE UNCHANGED vars
  BY <1>2 DEF vars, Kept, Left, Coming
<1> QED
  BY <1>1, <1>2

(* Unless the engine itself fails, the cancel that a timed-out limit order *)
(* leaves in its slot is never lost: LineUpdate, the reports and           *)
(* doSendOrder write the slot concurrently, and none drops the flag.       *)
THEOREM ArmedCancelIsKept ==
    ASSUME "EngineFails" \notin Faults
    PROVE  Spec => []ArmedCancelKept
<1>1. Init => Kept
  BY DEF Init, Idle, Kept, Left
<1>2. Inv /\ Kept /\ [Next]_vars => Kept'
  BY KeptStep
<1>3. Kept => ArmedCancelKept
  BY DEF Kept, Left, Coming, ArmedCancelKept
<1> QED
  BY <1>1, <1>2, <1>3, Inductive, PTL DEF Spec
=============================================================================
