----------------------- MODULE OrderRefinement_proofs -----------------------
(***************************************************************************)
(* OrderFlow implements the safety part of OrderContract, whatever faults  *)
(* happen and whatever orders an earlier session left: every step maps to  *)
(* a step of the contract or to none.                                      *)
(*                                                                         *)
(* Only four kinds of steps are seen through the mapping: the exchange     *)
(* works on an order, doSendOrder sends it or returns, a callback, or      *)
(* retrieveOrder, changes what BrokerTrade goes by, and login registers    *)
(* the orders it restored.  That nothing is invented is what Truth says,   *)
(* that nothing is taken back is what Ascends says of callbacks in order,  *)
(* and that a disowned order is dead is what Answers says if no fault      *)
(* happens.                                                                *)
(*                                                                         *)
(* What such an invariant leaves open is whether a call that waits for an  *)
(* answer can still get one.  The last part shows that it can: no step of  *)
(* the engine and no callback takes the answer away without ending the     *)
(* wait, if nothing else than a callback may end it.                       *)
(***************************************************************************)
EXTENDS OrderAnswer_proofs, OrderRefinement

Told(n) == IF Known(n) THEN orders[byId[n]].exec ELSE 0

CalledOff(n) == Known(n) /\ orders[byId[n]].cancelled

(* BrokerBuy2 is under way, also while it cancels a timed-out order.       *)
UnderWay ==
    \/ main.pc \in {"buying", "timeout", "clear"}
    \/ main.pc \in {"cancel", "cancelling"} /\ main.then = "clear"

(* The order that BrokerBuy2 works on was sent and is not answered, and    *)
(* every order that it accepted is registered.  retrieveOrder asks only    *)
(* for others, and no order that login restores was called cancelled.      *)
Registered ==
    /\ UnderWay => returned[main.slot] = "none" /\ exch[OrderNum(main.slot)].st # "none"
    /\ UnderWay /\ main.pc # "buying" => Faults # {}
    /\ main.pc = "retrieving" => main.num \in OldNums \cup {OneNum}
    /\ main.pc = "login" => \A s \in Slots : ~orders[s].cancelled
    /\ \A s \in Slots : returned[s] = "Accepted" => byId[OrderNum(s)] # NoSlot

(* Everything that is known of the states that are reached.                *)
Reached ==
    /\ Inv /\ Truth /\ Unsent /\ Registered
    /\ "Reorder" \notin Faults => Ascends
    /\ Faults = {} => Grounded /\ Answers

-----------------------------------------------------------------------------
(* What the contract sees. *)

Unseen(n) ==
    /\ AnswerTo(n)' = AnswerTo(n)
    /\ AtExchange(n)' = AtExchange(n)
    /\ exch'[n].filled = exch[n].filled
    /\ Told(n)' = Told(n)
    /\ CalledOff(n)' = CalledOff(n)

(* The moves of the contract, for one order.                               *)
Asked(n) ==
    /\ AnswerTo(n) = "none" /\ AnswerTo(n)' = "asked" /\ AtExchange(n)' = "in"
    /\ exch'[n].filled = exch[n].filled
    /\ Told(n)' = Told(n) /\ CalledOff(n)' = CalledOff(n)

Declined(n) ==
    /\ AnswerTo(n) = "none" /\ AnswerTo(n)' = "disowned" /\ AtExchange(n)' = AtExchange(n)
    /\ exch'[n].filled = exch[n].filled
    /\ Told(n)' = Told(n) /\ CalledOff(n)' = CalledOff(n)

Worked(n) ==
    /\ AtExchange(n) = "in" /\ AtExchange(n)' \in {"in", "cancelled", "over"}
    /\ exch'[n].filled \in exch[n].filled..Qty
    /\ AnswerTo(n)' = AnswerTo(n)
    /\ Told(n)' = Told(n) /\ CalledOff(n)' = CalledOff(n)

Tells(n, least) ==
    /\ Told(n)' \in least..exch[n].filled
    /\ CalledOff(n)' # CalledOff(n) => CalledOff(n)' = TRUE /\ AtExchange(n) = "cancelled"
    /\ AtExchange(n)' = AtExchange(n)
    /\ exch'[n].filled = exch[n].filled

Accepted(n) == AnswerTo(n) = "asked" /\ AnswerTo(n)' = "accepted" /\ Tells(n, Told(n))

Disowned(n) ==
    /\ AnswerTo(n) = "asked" /\ AnswerTo(n)' = "disowned"
    /\ Faults # {} \/ (AtExchange(n) \in {"cancelled", "over"} /\ exch[n].filled = 0)
    /\ AtExchange(n)' = AtExchange(n) /\ exch'[n].filled = exch[n].filled
    /\ Told(n)' = Told(n) /\ CalledOff(n)' = CalledOff(n)

Lowest(n) == IF "Reorder" \in Faults THEN 0 ELSE Told(n)

Heard(n) ==
    AnswerTo(n) = "accepted" /\ AnswerTo(n)' = "accepted" /\ Tells(n, Lowest(n))

LEMMA ForgivenFacts ==
    /\ "Forsakes" \in Forgiven <=> Faults # {}
    /\ "TakesBack" \in Forgiven <=> "Reorder" \in Faults
BY DEF Forgiven

LEMMA StutterOfContract ==
    ASSUME \A n \in RealNums : Unseen(n)
    PROVE  UNCHANGED Promise!contractVars
BY DEF Promise!contractVars, Unseen, Told, CalledOff

LEMMA MoveOfContract ==
    ASSUME NEW n \in RealNums, \A k \in RealNums : k # n => Unseen(k),
           \/ Asked(n) \/ Declined(n) \/ Worked(n) \/ Accepted(n) \/ Disowned(n)
           \/ Heard(n)
    PROVE  Promise!Next
<1> DEFINE answer == [k \in RealNums |-> AnswerTo(k)]
           market == [k \in RealNums |-> AtExchange(k)]
           filled == [k \in RealNums |-> exch[k].filled]
           told == [k \in RealNums |-> Told(k)]
           off == [k \in RealNums |-> CalledOff(k)]
<1>1. /\ answer' = [answer EXCEPT ![n] = AnswerTo(n)']
      /\ market' = [market EXCEPT ![n] = AtExchange(n)']
      /\ filled' = [filled EXCEPT ![n] = exch'[n].filled]
      /\ told' = [told EXCEPT ![n] = Told(n)']
      /\ off' = [off EXCEPT ![n] = CalledOff(n)']
  BY DEF Unseen
<1>2. /\ answer[n] = AnswerTo(n) /\ market[n] = AtExchange(n) /\ filled[n] = exch[n].filled
      /\ told[n] = Told(n) /\ off[n] = CalledOff(n)
  OBVIOUS
<1>4. CASE Asked(n)
  <2>1. filled' = filled /\ told' = told /\ off' = off
    BY <1>4 DEF Unseen, Asked
  <2>2. Promise!Ask(n)
    BY <1>1, <1>2, <1>4, <2>1 DEF Promise!Ask, Asked, Told, CalledOff
  <2> QED
    BY <2>2 DEF Promise!Next
<1>3. CASE Declined(n)
  <2>1. market' = market /\ filled' = filled /\ told' = told /\ off' = off
    BY <1>3 DEF Unseen, Declined
  <2>2. Promise!Decline(n)
    BY <1>1, <1>2, <1>3, <2>1 DEF Promise!Decline, Declined, Told, CalledOff
  <2> QED
    BY <2>2 DEF Promise!Next
<1>5. CASE Worked(n)
  <2>1. answer' = answer /\ told' = told /\ off' = off
    BY <1>5 DEF Unseen, Worked
  <2>2. Promise!Work(n)
    BY <1>1, <1>2, <1>5, <2>1 DEF Promise!Work, Promise!Dead, Worked, Told, CalledOff
  <2> QED
    BY <2>2 DEF Promise!Next
<1>6. CASE Disowned(n)
  <2>1. market' = market /\ filled' = filled /\ told' = told /\ off' = off
    BY <1>6 DEF Unseen, Disowned
  <2>2. Promise!Disown(n)
    BY <1>1, <1>2, <1>6, <2>1, ForgivenFacts
    DEF Promise!Disown, Promise!Dead, Disowned, Told, CalledOff
  <2> QED
    BY <2>2 DEF Promise!Next
<1>7. ASSUME NEW least, Tells(n, least)
      PROVE  /\ market' = market /\ filled' = filled
             /\ told' = [told EXCEPT ![n] = Told(n)'] /\ Told(n)' \in least..filled[n]
             /\ off' = off \/ (off' = [off EXCEPT ![n] = TRUE] /\ market[n] = "cancelled")
  <2>1. market' = market /\ filled' = filled
    BY <1>7 DEF Unseen, Tells
  <2>2. CASE CalledOff(n)' = CalledOff(n)
    <3>1. off' = off
      BY <2>2 DEF Unseen
    <3> QED
      BY <1>1, <1>2, <1>7, <2>1, <3>1 DEF Tells
  <2>3. CASE CalledOff(n)' # CalledOff(n)
    BY <1>1, <1>2, <1>7, <2>1, <2>3 DEF Tells
  <2> QED
    BY <2>2, <2>3
<1>8. CASE Accepted(n)
  <2>1. Promise!Accept(n)
    <3>1. answer[n] = "asked" /\ answer' = [answer EXCEPT ![n] = "accepted"]
      BY <1>1, <1>2, <1>8 DEF Accepted
    <3> QED
      BY <1>7, <1>8, <3>1 DEF Promise!Accept, Accepted, Told, CalledOff
  <2> QED
    BY <2>1 DEF Promise!Next
<1>9. CASE Heard(n)
  <2>1. Promise!Report(n)
    <3>1. answer[n] = "accepted" /\ answer' = answer
      BY <1>1, <1>2, <1>9 DEF Heard, Unseen
    <3>2. Lowest(n) = IF "TakesBack" \in Forgiven THEN 0 ELSE told[n]
      BY <1>2, ForgivenFacts DEF Lowest
    <3> QED
      BY <1>7, <1>9, <3>1, <3>2 DEF Promise!Report, Promise!Least, Heard, Told, CalledOff
  <2> QED
    BY <2>1 DEF Promise!Next
<1> QED
  BY <1>3, <1>4, <1>5, <1>6, <1>8, <1>9

-----------------------------------------------------------------------------
(* The steps. *)

LEMMA NumberFacts ==
    /\ RealNums \subseteq Nums
    /\ \A n \in RealNums : n # OneNum /\ n # 0
    /\ \A n \in RealNums \ OldNums : SentFrom(n) \in Slots /\ n = OrderNum(SentFrom(n))
    /\ \A s \in Slots : /\ OrderNum(s) \in RealNums /\ OrderNum(s) \notin OldNums
                        /\ SentFrom(OrderNum(s)) = s
BY NumAssumption, SlotAssumption
DEF RealNums, Nums, OwnNums, OneNum, SentFrom, OrderNum, Slots

(* What a step leaves alone, as far as order n is concerned.               *)
LEMMA UnseenFacts ==
    ASSUME NEW n \in RealNums,
           n \notin OldNums => returned'[SentFrom(n)] = returned[SentFrom(n)],
           exch'[n].st = exch[n].st, exch'[n].filled = exch[n].filled, byId'[n] = byId[n],
           Known(n) =>
              /\ orders'[byId[n]].exec = orders[byId[n]].exec
              /\ orders'[byId[n]].cancelled = orders[byId[n]].cancelled
    PROVE  Unseen(n)
<1>1. AnswerTo(n)' = AnswerTo(n)
  BY DEF AnswerTo
<1>2. AtExchange(n)' = AtExchange(n)
  BY DEF AtExchange, Live
<1>3. Known(n)' <=> Known(n)
  BY <1>1 DEF Known
<1>4. Told(n)' = Told(n) /\ CalledOff(n)' = CalledOff(n)
  BY <1>3 DEF Told, CalledOff
<1> QED
  BY <1>1, <1>2, <1>4 DEF Unseen

LEMMA ReachedFacts ==
    ASSUME Reached
    PROVE  /\ Inv /\ Truth /\ Unsent /\ Registered
           /\ exch \in [Nums -> ExchangeOrder] /\ orders \in [Slots -> Order]
           /\ byId \in [Nums -> Slots \cup {NoSlot}] /\ ctx \in [Nums -> Slots \cup {NoSlot}]
           /\ returned \in [Slots -> Outcomes] /\ nextIndex \in 0..MaxOrders
           /\ main \in MainStates /\ inbox \in Seq(Message)
BY DEF Reached, Inv, TypeOK, EngineTypeOK

(* The order that BrokerBuy2 works on.                                     *)
LEMMA UnderWayFacts ==
    ASSUME Reached, UnderWay
    PROVE  \E s \in Slots, n \in RealNums :
             /\ s = main.slot /\ n = OrderNum(s) /\ s = SentFrom(n)
             /\ n \notin OldNums /\ n \in Nums
             /\ ctx[n] = s /\ orders[s].num \in {0, n} /\ byId[n] = NoSlot
             /\ returned[s] = "none" /\ exch[n].st # "none" /\ AnswerTo(n) = "asked"
<1>1. Sending(main.slot)
  BY ReachedFacts DEF UnderWay, Inv, CallOK
<1>2. PICK s \in Slots, n \in RealNums : s = main.slot /\ n = OrderNum(s) /\ s = SentFrom(n)
                                         /\ n \notin OldNums /\ n \in Nums
  BY <1>1, NumberFacts DEF Sending
<1>3. returned[s] = "none" /\ exch[n].st # "none"
  BY <1>2, ReachedFacts DEF Registered
<1>4. AnswerTo(n) = "asked"
  BY <1>2, <1>3 DEF AnswerTo, Outcomes, Null
<1> QED
  BY <1>1, <1>2, <1>3, <1>4 DEF Sending

(* What a trade answers: the slot it is registered with.                   *)
LEMMA TradeFacts ==
    ASSUME Reached, NEW n \in RealNums, Known(n)
    PROVE  /\ byId[n] \in Slots /\ byId[n] < nextIndex /\ Holds(byId[n], n)
           /\ ctx[n] \in {byId[n], NoSlot} /\ AnswerTo(n) = "accepted"
           /\ orders[byId[n]] \in Order /\ exch[n] \in ExchangeOrder
           /\ orders[byId[n]].exec \in Nat /\ orders[byId[n]].exec <= exch[n].filled
           /\ orders[byId[n]].cancelled => AtExchange(n) = "cancelled"
<1>0. n \in Nums /\ byId[n] # NoSlot /\ Inv
  BY NumberFacts, ReachedFacts DEF Known
<1>1. byId[n] \in Slots /\ Holds(byId[n], n) /\ byId[n] < nextIndex /\ ctx[n] \in {byId[n], NoSlot}
  BY <1>0, RegisteredHolds DEF Inv, RegisteredIsHeard, ContextRefused, FreshOK
<1>2. AnswerTo(n) = "accepted"
  BY DEF Known
<1>3. SlotTrueOf(orders[byId[n]], exch[n])
  BY <1>0, <1>1, ReachedFacts DEF Truth, SlotsTruthful
<1>4. orders[byId[n]] \in Order /\ exch[n] \in ExchangeOrder /\ orders[byId[n]].exec \in Nat
  BY <1>0, <1>1, ReachedFacts, QtyAssumption DEF Order
<1> QED
  BY <1>1, <1>2, <1>3, <1>4 DEF SlotTrueOf, AtExchange, Live

(* The steps that only the plugin's own books notice.                      *)
LEMMA BooksStep ==
    ASSUME Reached, SameExchange, UNCHANGED <<byId, returned>>,
           \A n \in RealNums : Known(n) =>
              /\ orders'[byId[n]].exec = orders[byId[n]].exec
              /\ orders'[byId[n]].cancelled = orders[byId[n]].cancelled
    PROVE  UNCHANGED Promise!contractVars
<1> SUFFICES ASSUME NEW n \in RealNums
             PROVE  Unseen(n)
  BY StutterOfContract
<1>1. exch'[n].st = exch[n].st /\ exch'[n].filled = exch[n].filled
  BY NumberFacts DEF SameExchange
<1> QED
  BY <1>1, UnseenFacts DEF Known

LEMMA EngineKeeps ==
    ASSUME Reached, NEW n \in Nums, Engine(n)
    PROVE  [Promise!Next]_(Promise!contractVars)
<1>0. exch \in [Nums -> ExchangeOrder] /\ UNCHANGED <<orders, byId, returned>>
  BY ReachedFacts DEF Engine
<1>1. PICK f \in ExchangeOrder : exch' = [exch EXCEPT ![n] = f] /\ Evolves(exch[n], f)
  BY EngineGoesOn, ReachedFacts DEF Inv, TypeOK, Truth, Engine
<1>2. exch'[n] = f /\ \A k \in Nums : k # n => exch'[k] = exch[k]
  BY <1>0, <1>1
<1>3. \A k \in RealNums : k # n => Unseen(k)
  BY <1>0, <1>2, NumberFacts, UnseenFacts
<1>4. CASE n \notin RealNums
  BY <1>3, <1>4, StutterOfContract
<1>5. CASE n \in RealNums
  <2>1. AnswerTo(n)' = AnswerTo(n) /\ Told(n)' = Told(n) /\ CalledOff(n)' = CalledOff(n)
    BY <1>0, <1>1, <1>2 DEF AnswerTo, Told, CalledOff, Known, Evolves
  <2>2. f.filled \in exch[n].filled..Qty
    BY <1>0, <1>1, QtyAssumption DEF Evolves, ExchangeOrder
  <2>3. CASE Live(n)
    <3>1. AtExchange(n) = "in" /\ AtExchange(n)' \in {"in", "cancelled", "over"}
      BY <1>1, <1>2, <2>3 DEF AtExchange, Live, Evolves
    <3>2. Worked(n)
      BY <1>2, <2>1, <2>2, <3>1 DEF Worked
    <3> QED
      BY <1>3, <1>5, <3>2, MoveOfContract
  <2>4. CASE ~Live(n)
    <3>1. exch[n].st \in Finished
      BY <1>0, <1>1, <2>4 DEF Evolves, ExchangeOrder, Live
    <3>2. f.st = exch[n].st /\ f.filled = exch[n].filled
      BY <1>1, <3>1 DEF Evolves, Finished, Reasons
    <3>3. Unseen(n)
      BY <1>0, <1>2, <1>5, <3>2, UnseenFacts
    <3> QED
      BY <1>3, <3>3, StutterOfContract
  <2> QED
    BY <2>3, <2>4
<1> QED
  BY <1>4, <1>5

(* A callback writes the slot of its order, and takes no cancel back.      *)
LEMMA HandlerWrites ==
    ASSUME Reached, NEW i \in Deliverable, Handle(i)
    PROVE  /\ UNCHANGED <<main, ctx, byId, returned>> /\ SameExchange
           /\ inbox[i].num \in Nums
           /\ \/ UNCHANGED orders
              \/ \E o \in Order :
                   /\ ctx[inbox[i].num] \in Slots
                   /\ orders' = [orders EXCEPT ![ctx[inbox[i].num]] = o]
                   /\ orders[ctx[inbox[i].num]].cancelled => o.cancelled
<1> DEFINE m == inbox[i]
           s == ctx[m.num]
<1>0. Inv /\ orders \in [Slots -> Order] /\ ctx \in [Nums -> Slots \cup {NoSlot}]
      /\ exch \in [Nums -> ExchangeOrder]
  BY ReachedFacts
<1>1. UNCHANGED <<main, ctx, byId, returned>> /\ i \in 1..Len(inbox)
  BY DEF Handle, LineDropped, LineStale, LineSendsCancel, LineApplied, LineError,
         ReportApplied, ReportDropped, NotCancelledReport, SingleOrderReplay, Deliverable
<1>2. m.num \in Nums /\ m \in Message
  BY <1>0, <1>1, ExecFacts
<1>3. SameExchange
  <2>1. CASE LineSendsCancel(i)
    BY <1>0, <1>2, <2>1, SentCancel DEF LineSendsCancel
  <2>2. CASE ~LineSendsCancel(i)
    BY <2>2 DEF Handle, LineDropped, LineStale, LineApplied, LineError, ReportApplied,
                ReportDropped, NotCancelledReport, SingleOrderReplay, SameExchange
  <2> QED
    BY <2>1, <2>2
<1>4. \/ UNCHANGED orders
      \/ \E o \in Order : s \in Slots /\ orders' = [orders EXCEPT ![s] = o]
                          /\ (orders[s].cancelled => o.cancelled)
  <2>1. CASE LineApplied(i)
    <3>1. HasSlot(m) /\ orders' = [orders EXCEPT ![s] = Updated(orders[s], m)]
      BY <2>1 DEF LineApplied
    <3>2. s \in Slots /\ orders[s] \in Order
      BY <1>0, <1>2, <3>1 DEF HasSlot, Ours
    <3>3. Updated(orders[s], m) \in Order
      BY <1>2, <3>2, OrderFacts
    <3>4. Updated(orders[s], m).cancelled = orders[s].cancelled
      BY <3>2 DEF Updated, Order
    <3> HIDE DEF s, m
    <3> QED
      BY <3>1, <3>2, <3>3, <3>4
  <2>2. CASE ReportApplied(i)
    <3>1. m.kind \in Reported /\ Ours(m) /\ orders' = [orders EXCEPT ![s] = Marked(orders[s], m)]
      BY <2>2 DEF ReportApplied, Takes
    <3>2. s \in Slots /\ orders[s] \in Order
      BY <1>0, <1>2, <3>1 DEF Ours
    <3>3. Marked(orders[s], m) \in Order
      BY <1>2, <3>1, <3>2, OrderFacts
    <3>4. orders[s].cancelled => Marked(orders[s], m).cancelled
      <4>1. CASE m.kind = "Cancel"
        BY <3>2, <4>1 DEF Marked, Order
      <4>2. CASE m.kind = "Fill"
        BY <3>2, <4>2 DEF Marked, Order
      <4>3. CASE m.kind \in {"Failure", "Reject"}
        BY <3>2, <4>3 DEF Marked, Order
      <4> QED
        BY <3>1, <4>1, <4>2, <4>3 DEF Reported
    <3> HIDE DEF s, m
    <3> QED
      BY <3>1, <3>2, <3>3, <3>4
  <2>3. CASE LineSendsCancel(i)
    <3>1. HasSlot(m) /\ orders' = [orders EXCEPT ![s].armed = FALSE]
      BY <2>3 DEF LineSendsCancel
    <3>2. s \in Slots /\ orders[s] \in Order
      BY <1>0, <1>2, <3>1 DEF HasSlot, Ours
    <3>3. /\ [orders[s] EXCEPT !.armed = FALSE] \in Order
          /\ [orders[s] EXCEPT !.armed = FALSE].cancelled = orders[s].cancelled
      BY <3>2 DEF Order
    <3> HIDE DEF s, m
    <3> QED
      BY <3>1, <3>2, <3>3
  <2> QED
    BY <2>1, <2>2, <2>3
    DEF Handle, LineDropped, LineStale, LineError, ReportDropped, NotCancelledReport,
        SingleOrderReplay
<1> QED
  BY <1>1, <1>2, <1>3, <1>4

LEMMA HandlerKeeps ==
    ASSUME Reached, Reached', "Reorder" \notin Faults => Rises, NEW i \in Deliverable, Handle(i)
    PROVE  [Promise!Next]_(Promise!contractVars)
<1>1. UNCHANGED <<main, ctx, byId, returned>> /\ SameExchange /\ inbox[i].num \in Nums
  BY HandlerWrites
<1>2. CASE UNCHANGED orders
  BY <1>1, <1>2, BooksStep
<1>3. ASSUME NEW n \in Nums, n = inbox[i].num, NEW o \in Order, ctx[n] \in Slots,
             orders' = [orders EXCEPT ![ctx[n]] = o], orders[ctx[n]].cancelled => o.cancelled
      PROVE  [Promise!Next]_(Promise!contractVars)
  <2>0. orders \in [Slots -> Order] /\ exch \in [Nums -> ExchangeOrder]
    BY ReachedFacts
  <2>1. orders'[ctx[n]] = o /\ \A s \in Slots : s # ctx[n] => orders'[s] = orders[s]
    BY <1>3, <2>0
  <2>2. \A k \in RealNums : k # n => Unseen(k)
    <3> SUFFICES ASSUME NEW k \in RealNums, k # n
                 PROVE  Unseen(k)
      OBVIOUS
    <3>1. Known(k) => orders'[byId[k]] = orders[byId[k]]
      <4> SUFFICES ASSUME Known(k) PROVE byId[k] # ctx[n]
        BY <2>1, TradeFacts
      <4>1. k \in Nums /\ Holds(byId[k], k) /\ Holds(ctx[n], n) /\ Inv
        BY NumberFacts, ReachedFacts, TradeFacts DEF Holds
      <4> QED
        BY <1>3, <4>1, OneHeldPerSlot
    <3>2. exch'[k].st = exch[k].st /\ exch'[k].filled = exch[k].filled
      BY <1>1, NumberFacts DEF SameExchange
    <3> QED
      BY <1>1, <3>1, <3>2, UnseenFacts DEF Known
  <2>3. CASE n \notin RealNums
    BY <2>2, <2>3, StutterOfContract
  <2>4. CASE n \in RealNums /\ ~Known(n)
    <3>1. Unseen(n)
      BY <1>1, <2>4, UnseenFacts DEF SameExchange
    <3> QED
      BY <2>2, <3>1, StutterOfContract
  <2>5. CASE n \in RealNums /\ Known(n)
    <3>1. /\ byId[n] = ctx[n] /\ AnswerTo(n) = "accepted" /\ orders[ctx[n]].exec \in Nat
          /\ orders[ctx[n]].cancelled \in BOOLEAN
      BY <1>3, <2>5, TradeFacts, SlotFacts DEF Order
    <3>2. Known(n)' /\ AnswerTo(n)' = "accepted" /\ AtExchange(n)' = AtExchange(n)
          /\ exch'[n].filled = exch[n].filled
      BY <1>1, <2>5, <3>1 DEF Known, AnswerTo, AtExchange, Live, SameExchange
    <3>3. o.exec <= exch[n].filled /\ (o.cancelled => AtExchange(n) = "cancelled")
      <4>1. SlotTrueOf(o, exch'[n])
        BY <1>1, <1>3, <2>1, SlotFacts DEF Reached, Truth, SlotsTruthful, Holds
      <4> QED
        BY <1>1, <4>1 DEF SlotTrueOf, AtExchange, Live, SameExchange
    <3>4. o.exec \in Nat /\ o.cancelled \in BOOLEAN /\ exch[n].filled \in Nat
          /\ ("Reorder" \notin Faults => o.exec >= orders[ctx[n]].exec)
      BY <1>3, <2>0, <2>1, QtyAssumption DEF Rises, Order, ExchangeOrder
    <3>5. /\ Told(n) = orders[ctx[n]].exec /\ Told(n)' = o.exec
          /\ CalledOff(n) = orders[ctx[n]].cancelled /\ CalledOff(n)' = o.cancelled
      BY <1>1, <2>1, <2>5, <3>1, <3>2, <3>4 DEF Told, CalledOff
    <3>6. Tells(n, Lowest(n))
      BY <1>3, <3>1, <3>2, <3>3, <3>4, <3>5 DEF Tells, Lowest
    <3>7. Heard(n)
      BY <3>1, <3>2, <3>6 DEF Heard
    <3> QED
      BY <2>2, <2>5, <3>7, MoveOfContract
  <2> QED
    BY <2>3, <2>4, <2>5
<1> QED
  BY <1>2, <1>3, HandlerWrites

(* doSendOrder sends the order, or the engine fails and it never is.       *)
LEMMA SendKeeps ==
    ASSUME Reached, NEW r \in Requests, SendOrder(r)
    PROVE  /\ [Promise!Next]_(Promise!contractVars)
           /\ Registered'
<1>0. /\ exch \in [Nums -> ExchangeOrder] /\ orders \in [Slots -> Order]
      /\ nextIndex \in Slots /\ returned \in [Slots -> Outcomes] /\ main.pc = "idle"
  BY ReachedFacts, SlotFacts DEF SendOrder, mainIdle
<1>1. PICK s \in Slots, n \in RealNums : s = nextIndex /\ n = OrderNum(s) /\ s = SentFrom(n)
                                         /\ n \notin OldNums /\ n \in Nums
  BY <1>0, NumberFacts
<1>2. exch[n].st = "none" /\ returned[s] = "none" /\ byId[n] = NoSlot
  <2>1. nextIndex >= nextIndex /\ ~(nextIndex < nextIndex)
    BY ReachedFacts
  <2> QED
    BY <1>1, <2>1, ReachedFacts DEF Unsent, Inv, FreshOK
<1>3. UNCHANGED byId /\ orders' = [orders EXCEPT ![s] = NewOrder(Tag(n), 0, r.limit, r.lasting)]
  BY <1>1 DEF SendOrder
<1>4. \A k \in RealNums : Known(k) => orders'[byId[k]] = orders[byId[k]]
  <2> SUFFICES ASSUME NEW k \in RealNums, Known(k) PROVE byId[k] # s
    BY <1>0, <1>3, TradeFacts
  <2>1. byId[k] < nextIndex
    BY TradeFacts
  <2>2. ~(s < s)
    BY SlotFacts
  <2> QED
    BY <1>1, <2>1, <2>2
<1>5. AnswerTo(n) = "none" /\ ~Known(n)
  BY <1>1, <1>2 DEF AnswerTo, Known, Outcomes, Null
<1>6. CASE /\ main' = [Idle EXCEPT !.pc = "buying", !.slot = s]
           /\ exch' = [exch EXCEPT ![n].st = "sent", ![n].rests = r.limit /\ r.lasting]
           /\ UNCHANGED returned
  <2>1. /\ exch'[n].st = "sent" /\ exch'[n].filled = exch[n].filled
        /\ \A k \in Nums : k # n => exch'[k] = exch[k]
    BY <1>0, <1>1, <1>6 DEF ExchangeOrder
  <2>2. \A k \in RealNums : k # n => Unseen(k)
    BY <1>3, <1>4, <1>6, <2>1, NumberFacts, UnseenFacts
  <2>3. AnswerTo(n)' = "asked" /\ AtExchange(n)' = "in"
    BY <1>1, <1>2, <1>6, <2>1 DEF AnswerTo, AtExchange, Live, Outcomes, Null
  <2>4. Told(n)' = Told(n) /\ CalledOff(n)' = CalledOff(n)
    BY <1>5, <2>3 DEF Told, CalledOff, Known
  <2>5. Asked(n)
    BY <1>5, <2>1, <2>3, <2>4 DEF Asked
  <2>6. main'.pc = "buying" /\ main'.slot = s
    BY <1>6 DEF Idle
  <2>7. Registered'
    BY <1>1, <1>2, <1>3, <1>6, <2>1, <2>6, ReachedFacts DEF Registered, UnderWay
  <2> QED
    BY <1>1, <2>2, <2>5, <2>7, MoveOfContract
<1>7. CASE returned' = [returned EXCEPT ![s] = "NotSent"] /\ UNCHANGED <<main, exch>>
  <2>1. returned'[s] = "NotSent" /\ \A t \in Slots : t # s => returned'[t] = returned[t]
    BY <1>0, <1>7
  <2>2. \A k \in RealNums : k # n => Unseen(k)
    <3> SUFFICES ASSUME NEW k \in RealNums, k # n PROVE Unseen(k)
      OBVIOUS
    <3>1. k \notin OldNums => returned'[SentFrom(k)] = returned[SentFrom(k)]
      BY <1>1, <2>1, NumberFacts
    <3> QED
      BY <1>3, <1>4, <1>7, <3>1, UnseenFacts
  <2>3. AnswerTo(n)' = "disowned" /\ AtExchange(n)' = AtExchange(n)
    BY <1>1, <1>7, <2>1 DEF AnswerTo, AtExchange, Live, Outcomes, Null
  <2>4. Told(n)' = Told(n) /\ CalledOff(n)' = CalledOff(n)
    BY <1>5, <2>3 DEF Told, CalledOff, Known
  <2>5. Declined(n)
    BY <1>5, <1>7, <2>3, <2>4 DEF Declined
  <2>6. Registered'
    BY <1>0, <1>3, <1>7, <2>1, ReachedFacts DEF Registered, UnderWay
  <2> QED
    BY <1>1, <2>2, <2>5, <2>6, MoveOfContract
<1> QED
  BY <1>1, <1>6, <1>7 DEF SendOrder

(* BrokerBuy2 answers without the order it has sent, or with it.           *)
LEMMA AnswerKeeps ==
    ASSUME Reached, UnderWay, NEW s \in Slots, NEW n \in RealNums,
           s = main.slot, n = OrderNum(s), NEW how \in Outcomes \ {"none"},
           returned' = [returned EXCEPT ![s] = how], UNCHANGED <<exch, orders>>,
           \A k \in Nums : k # n => byId'[k] = byId[k],
           \/ how = "Accepted" /\ byId'[n] = s
           \/ how # "Accepted" /\ Faults # {}
           \/ how # "Accepted" /\ AtExchange(n) \in {"cancelled", "over"} /\ exch[n].filled = 0
    PROVE  Promise!Next
<1>0. /\ exch \in [Nums -> ExchangeOrder] /\ orders \in [Slots -> Order]
      /\ returned \in [Slots -> Outcomes]
  BY ReachedFacts
<1>1. /\ n \notin OldNums /\ n \in Nums /\ ctx[n] = s /\ s = SentFrom(n) /\ ~Known(n)
      /\ AnswerTo(n) = "asked"
  BY UnderWayFacts DEF Known
<1>2. returned'[s] = how /\ \A t \in Slots : t # s => returned'[t] = returned[t]
  BY <1>0
<1>3. \A k \in RealNums : k # n => Unseen(k)
  <2> SUFFICES ASSUME NEW k \in RealNums, k # n PROVE Unseen(k)
    OBVIOUS
  <2>1. k \notin OldNums => returned'[SentFrom(k)] = returned[SentFrom(k)]
    BY <1>1, <1>2, NumberFacts
  <2> QED
    BY <2>1, NumberFacts, UnseenFacts
<1>4. AtExchange(n)' = AtExchange(n) /\ exch'[n].filled = exch[n].filled
  BY DEF AtExchange, Live
<1>5. CASE how = "Accepted" /\ byId'[n] = s
  <2>1. AnswerTo(n)' = "accepted"
    BY <1>1, <1>2, <1>5 DEF AnswerTo
  <2>2. Known(n)'
    BY <1>5, <2>1, SlotFacts DEF Known
  <2>3. SlotTrueOf(orders[s], exch[n]) /\ exch[n].filled \in Nat /\ orders[s].exec \in Nat
        /\ orders[s].cancelled \in BOOLEAN
    <3>1. SlotTrueOf(orders[s], exch[n])
      BY <1>1, ReachedFacts, SlotFacts DEF Truth, SlotsTruthful, Holds
    <3>2. orders[s] \in Order /\ exch[n] \in ExchangeOrder
      BY <1>0, <1>1
    <3> QED
      BY <3>1, <3>2, QtyAssumption DEF ExchangeOrder, Order
  <2>4. /\ Told(n) = 0 /\ Told(n)' = orders[s].exec
        /\ CalledOff(n) = FALSE /\ CalledOff(n)' = orders[s].cancelled
    BY <1>1, <1>5, <2>2, <2>3 DEF Told, CalledOff
  <2>5. orders[s].cancelled => AtExchange(n) = "cancelled"
    BY <2>3 DEF SlotTrueOf, AtExchange, Live
  <2>6. Accepted(n)
    <3>1. Told(n)' \in Told(n)..exch[n].filled
      BY <2>3, <2>4 DEF SlotTrueOf
    <3>2. CalledOff(n)' # CalledOff(n) => CalledOff(n)' = TRUE /\ AtExchange(n) = "cancelled"
      BY <2>3, <2>4, <2>5
    <3> QED
      BY <1>1, <1>4, <2>1, <3>1, <3>2 DEF Accepted, Tells
  <2> QED
    BY <1>3, <2>6, MoveOfContract
<1>6. CASE how # "Accepted" /\ (Faults # {} \/ (AtExchange(n) \in {"cancelled", "over"} /\ exch[n].filled = 0))
  <2>1. AnswerTo(n)' = "disowned"
    BY <1>1, <1>2, <1>6 DEF AnswerTo
  <2>2. Told(n)' = Told(n) /\ CalledOff(n)' = CalledOff(n)
    BY <1>1, <2>1 DEF Told, CalledOff, Known
  <2>3. Disowned(n)
    BY <1>1, <1>4, <1>6, <2>1, <2>2 DEF Disowned
  <2> QED
    BY <1>3, <2>3, MoveOfContract
<1> QED
  BY <1>5, <1>6

LEMMA FinishSendReturns ==
    ASSUME Reached, FinishSend, NEW s \in Slots, NEW n \in Nums,
           s = main.slot, n = OrderNum(s)
    PROVE  \E how \in Disowning \cup {"Accepted"} :
             /\ returned' = [returned EXCEPT ![s] = how]
             /\ byId' \in {byId, [byId EXCEPT ![n] = s]}
             /\ how = "Accepted" => byId' = [byId EXCEPT ![n] = s]
<1>1. orders[s].num \in {0, n}
  BY ReachedFacts DEF FinishSend, Inv, CallOK, Sending
<1>2. PICK read \in ReadReason(orders[s]), again \in ReadReason(orders[s]) :
        LET how == IF orders[s].num = 0 THEN "NoNumber"
                   ELSE IF read \notin {"None", "Fill", "PFBC"} THEN "Completed"
                   ELSE IF again \in {"Failure", "Cancel", "Reject"} THEN "Disowned"
                   ELSE "Accepted"
        IN  /\ returned' = [returned EXCEPT ![s] = how]
            /\ byId' = IF how \in {"Disowned", "Accepted"}
                       THEN [byId EXCEPT ![orders[s].num] = s] ELSE byId
  BY DEF FinishSend
<1>3. CASE orders[s].num = 0
  BY <1>2, <1>3 DEF Disowning
<1>4. CASE orders[s].num # 0 /\ read \notin {"None", "Fill", "PFBC"}
  BY <1>2, <1>4 DEF Disowning
<1>5. CASE /\ orders[s].num # 0 /\ read \in {"None", "Fill", "PFBC"}
           /\ again \in {"Failure", "Cancel", "Reject"}
  BY <1>1, <1>2, <1>5 DEF Disowning
<1>6. CASE /\ orders[s].num # 0 /\ read \in {"None", "Fill", "PFBC"}
           /\ again \notin {"Failure", "Cancel", "Reject"}
  BY <1>1, <1>2, <1>6
<1> QED
  BY <1>3, <1>4, <1>5, <1>6

LEMMA FinishSendKeeps ==
    ASSUME Reached, Reached', FinishSend
    PROVE  [Promise!Next]_(Promise!contractVars)
<1>0. /\ byId \in [Nums -> Slots \cup {NoSlot}] /\ returned \in [Slots -> Outcomes]
      /\ UnderWay /\ UNCHANGED <<exch, orders>>
  BY ReachedFacts DEF FinishSend, UnderWay
<1>1. PICK s \in Slots, n \in RealNums : /\ s = main.slot /\ n = OrderNum(s) /\ n \in Nums
                                         /\ exch[n].st # "none"
  BY <1>0, UnderWayFacts
<1>2. PICK how \in Disowning \cup {"Accepted"} :
        /\ returned' = [returned EXCEPT ![s] = how]
        /\ byId' \in {byId, [byId EXCEPT ![n] = s]}
        /\ how = "Accepted" => byId' = [byId EXCEPT ![n] = s]
  BY <1>1, FinishSendReturns
<1>3. how \in Outcomes \ {"none"} /\ (how # "Accepted" => how \in Disowning)
  BY DEF Outcomes, Null, Disowning
<1>4. \A k \in Nums : k # n => byId'[k] = byId[k]
  BY <1>0, <1>2
<1>5. how = "Accepted" => byId'[n] = s
  BY <1>0, <1>1, <1>2
<1>6. how # "Accepted" /\ Faults = {} => AtExchange(n) \in {"cancelled", "over"} /\ exch[n].filled = 0
  <2> SUFFICES ASSUME how \in Disowning, Faults = {}
               PROVE  AtExchange(n) \in {"cancelled", "over"} /\ exch[n].filled = 0
    BY <1>3
  <2>1. Gone(n)
    BY <1>0, <1>1, <1>2 DEF Reached, Answers, DisownedAreGone, Gone
  <2> QED
    BY <1>1, <2>1, ReachedFacts DEF Gone, Truth, Sound, Ends, AtExchange, Live
<1> QED
  BY <1>0, <1>1, <1>2, <1>3, <1>4, <1>5, <1>6, AnswerKeeps

(* BrokerBuy2 is given up, or its time is over.                            *)
LEMMA GiveUpKeeps ==
    ASSUME Reached, AbortSend \/ ReturnTimedOut
    PROVE  [Promise!Next]_(Promise!contractVars)
<1>1. UnderWay /\ Faults # {}
  BY ReachedFacts DEF AbortSend, ReturnTimedOut, Registered, UnderWay
<1>2. PICK s \in Slots, n \in RealNums : s = main.slot /\ n = OrderNum(s)
  BY <1>1, UnderWayFacts
<1>3. PICK how \in {"Aborted", "Armed", "TimedOut"} : returned' = [returned EXCEPT ![s] = how]
  BY <1>2 DEF AbortSend, ReturnTimedOut
<1>4. UNCHANGED <<exch, orders, byId>>
  BY DEF AbortSend, ReturnTimedOut
<1>5. how \in Outcomes \ {"none"} /\ how # "Accepted"
  BY DEF Outcomes, Null
<1> QED
  BY <1>1, <1>2, <1>3, <1>4, <1>5, AnswerKeeps

(* retrieveOrder asks only for orders of an earlier session: those of this *)
(* one that are trades are registered.                                     *)
LEMMA RetrieveKeeps ==
    ASSUME Reached, NEW n \in Nums, RetrieveOrder(n)
    PROVE  /\ UNCHANGED Promise!contractVars
           /\ Registered'
<1>0. /\ orders \in [Slots -> Order] /\ nextIndex \in Slots
      /\ orders' = [orders EXCEPT ![nextIndex] = NewOrder(0, n, FALSE, FALSE)]
      /\ UNCHANGED <<exch, byId, returned>> /\ main.pc = "idle"
      /\ main' \in {main, [Idle EXCEPT !.pc = "retrieving", !.slot = nextIndex, !.num = n]}
  BY ReachedFacts, SlotFacts DEF RetrieveOrder, mainIdle
<1>1. \A k \in RealNums : Known(k) => orders'[byId[k]] = orders[byId[k]]
  <2> SUFFICES ASSUME NEW k \in RealNums, Known(k) PROVE byId[k] # nextIndex
    BY <1>0, TradeFacts
  <2>1. byId[k] < nextIndex
    BY TradeFacts
  <2>2. ~(nextIndex < nextIndex)
    BY ReachedFacts
  <2> QED
    BY <2>1, <2>2
<1>2. UNCHANGED Promise!contractVars
  BY <1>0, <1>1, BooksStep DEF SameExchange
<1>3. n \in OldNums \cup {OneNum}
  <2>1. byId[n] = NoSlot /\ n \in Trades
    BY DEF RetrieveOrder
  <2>2. ASSUME NEW s \in Slots, BrokerBuy2(s) = n
        PROVE  n = OneNum
    <3>1. returned[s] # "Accepted"
      <4> SUFFICES ASSUME returned[s] = "Accepted" PROVE FALSE
        OBVIOUS
      <4>1. BrokerBuy2(s) = OrderNum(s)
        BY DEF BrokerBuy2, Null
      <4>2. byId[OrderNum(s)] # NoSlot
        BY ReachedFacts DEF Registered
      <4> QED
        BY <2>1, <2>2, <4>1, <4>2
    <3>2. n # 0 /\ n # -2
      BY NumAssumption, SlotAssumption DEF Nums, OwnNums, OneNum
    <3> QED
      BY <2>2, <3>1, <3>2 DEF BrokerBuy2
  <2> QED
    BY <2>1, <2>2 DEF Trades
<1>4. Registered'
  <2>1. main'.pc \in {"idle", "retrieving"} /\ (main'.pc = "retrieving" => main'.num = n)
    BY <1>0 DEF Idle
  <2> QED
    BY <1>0, <1>3, <2>1, ReachedFacts DEF Registered, UnderWay
<1> QED
  BY <1>2, <1>4

LEMMA FinishRetrieveKeeps ==
    ASSUME Reached, FinishRetrieve
    PROVE  /\ [Promise!Next]_(Promise!contractVars)
           /\ Registered'
<1>0. /\ orders \in [Slots -> Order] /\ byId \in [Nums -> Slots \cup {NoSlot}]
      /\ exch \in [Nums -> ExchangeOrder]
      /\ main.pc = "retrieving" /\ main'.pc = "idle" /\ UNCHANGED <<exch, orders, ctx, returned>>
  BY ReachedFacts DEF FinishRetrieve, Retrieved, Idle
<1>1. PICK s \in Slots, n \in Nums : /\ s = main.slot /\ n = main.num /\ ctx[n] = s
                                     /\ orders[s].num = n /\ n \in OldNums \cup {OneNum}
  BY <1>0, ReachedFacts DEF Inv, CallOK, Retrieving, Registered
<1>2. byId' = byId \/ byId' = [byId EXCEPT ![n] = s]
  BY <1>1 DEF FinishRetrieve, Retrieved
<1>3. \A k \in Nums : k # n => byId'[k] = byId[k]
  BY <1>0, <1>2
<1>4. \A k \in RealNums : k # n => Unseen(k)
  BY <1>0, <1>3, NumberFacts, UnseenFacts
<1>5. Registered'
  <2>1. \A t \in Slots : OrderNum(t) # n
    BY <1>1, SlotFacts
  <2>2. \A t \in Slots : byId'[OrderNum(t)] = byId[OrderNum(t)]
    BY <1>3, <2>1, SlotFacts
  <2> QED
    BY <1>0, <2>2, ReachedFacts DEF Registered, UnderWay
<1>6. CASE n \notin RealNums \/ byId' = byId \/ byId[n] = s
  <2>1. n \in RealNums => Unseen(n)
    BY <1>0, <1>1, <1>2, <1>6, UnseenFacts
  <2> QED
    BY <1>4, <1>5, <2>1, StutterOfContract
<1>7. CASE n \in RealNums /\ byId' = [byId EXCEPT ![n] = s] /\ byId[n] # s
  <2>1. byId[n] = NoSlot /\ byId'[n] = s
    BY <1>0, <1>1, <1>7, ReachedFacts, SlotFacts DEF Inv, RegisteredIsHeard, ContextRefused
  <2>2. ~Known(n) /\ Known(n)'
    BY <1>1, <1>7, <2>1, NumberFacts, SlotFacts DEF Known, AnswerTo
  <2>3. SlotTrueOf(orders[s], exch[n]) /\ exch[n].filled \in Nat /\ orders[s].exec \in Nat
        /\ orders[s].cancelled \in BOOLEAN
    <3>1. SlotTrueOf(orders[s], exch[n])
      BY <1>1, ReachedFacts, SlotFacts DEF Truth, SlotsTruthful, Holds
    <3>2. orders[s] \in Order /\ exch[n] \in ExchangeOrder
      BY <1>0, <1>1
    <3> QED
      BY <3>1, <3>2, QtyAssumption DEF ExchangeOrder, Order
  <2>4. /\ Told(n) = 0 /\ Told(n)' = orders[s].exec
        /\ CalledOff(n) = FALSE /\ CalledOff(n)' = orders[s].cancelled
    BY <1>0, <2>1, <2>2, <2>3 DEF Told, CalledOff
  <2>5. orders[s].cancelled => AtExchange(n) = "cancelled"
    BY <2>3 DEF SlotTrueOf, AtExchange, Live
  <2>6. Told(n)' \in Told(n)..exch[n].filled
    BY <2>3, <2>4 DEF SlotTrueOf
  <2>7. AtExchange(n)' = AtExchange(n) /\ exch'[n].filled = exch[n].filled
    BY <1>0 DEF AtExchange, Live
  <2>8. AnswerTo(n) = "accepted" /\ AnswerTo(n)' = "accepted"
    BY <1>1, <1>7, NumberFacts DEF AnswerTo
  <2>9. Heard(n)
    BY <2>3, <2>4, <2>5, <2>6, <2>7, <2>8 DEF Heard, Tells, Lowest
  <2> QED
    BY <1>4, <1>5, <1>7, <2>9, MoveOfContract
<1> QED
  BY <1>2, <1>5, <1>6, <1>7

(* Login registers the orders it restored, all at once, with what was      *)
(* filled of them when they were replayed.                                 *)
LEMMA LoginKeeps ==
    ASSUME Reached, Login
    PROVE  /\ Promise!Next
           /\ Registered'
<1>0. /\ LoginBooks /\ orders \in [Slots -> Order] /\ byId \in [Nums -> Slots \cup {NoSlot}]
      /\ exch \in [Nums -> ExchangeOrder] /\ \A s \in Slots : ~orders[s].cancelled
      /\ UNCHANGED <<exch, orders, returned>> /\ main'.pc = "idle"
      /\ byId' \in [Nums -> Slots \cup {NoSlot}]
  BY ReachedFacts DEF Inv, FreshOK, Login, Registered, Idle
<1>1. ASSUME NEW n \in RealNums
      PROVE  /\ AnswerTo(n)' = AnswerTo(n) /\ AtExchange(n)' = AtExchange(n)
             /\ Told(n) = 0 /\ Told(n)' \in 0..exch[n].filled
             /\ CalledOff(n) = FALSE /\ CalledOff(n)' = FALSE
             /\ n \notin OldNums => Told(n)' = 0
             /\ exch[n].filled \in 0..Qty
  <2>0. n \in Nums /\ exch[n] \in ExchangeOrder /\ exch[n].filled \in 0..Qty
    BY <1>0, NumberFacts DEF ExchangeOrder
  <2>1. AnswerTo(n)' = AnswerTo(n) /\ AtExchange(n)' = AtExchange(n)
    BY <1>0 DEF AnswerTo, AtExchange, Live
  <2>2. Told(n) = 0 /\ CalledOff(n) = FALSE
    BY <1>0, <2>0 DEF LoginBooks, Told, CalledOff, Known
  <2>3. CASE byId'[n] = NoSlot
    <3>1. ~Known(n)'
      BY <2>3 DEF Known
    <3> QED
      BY <2>0, <2>1, <2>2, <3>1, QtyAssumption DEF Told, CalledOff
  <2>4. CASE byId'[n] # NoSlot
    <3>1. PICK s \in Slots : byId'[n] = s /\ orders[s].num = n
      BY <2>0, <2>4 DEF Login
    <3>2. Holds(s, n) /\ n \in Tagged
      <4>1. orders[s].num # 0
        BY <2>0, <3>1, TagFacts
      <4> QED
        BY <1>0, <2>0, <3>1, <4>1, RestoredFacts DEF LoginBooks, Holds
    <3>3. n \in OldNums
      BY <3>2, TaggedAssumption
    <3>4. SlotTrueOf(orders[s], exch[n])
      BY <2>0, <3>2, ReachedFacts DEF Truth, SlotsTruthful
    <3>5. orders[s].exec \in 0..exch[n].filled
      BY <1>0, <2>0, <3>4, QtyAssumption DEF SlotTrueOf, Order
    <3>6. Told(n)' \in 0..exch[n].filled
      BY <1>0, <2>0, <3>1, <3>5, QtyAssumption DEF Told
    <3>7. CalledOff(n)' = FALSE
      BY <1>0, <3>1 DEF CalledOff
    <3> QED
      BY <2>0, <2>1, <2>2, <3>3, <3>6, <3>7
  <2> QED
    BY <2>3, <2>4
<1> DEFINE told == [k \in RealNums |-> Told(k)]
<1>2. told' \in [RealNums -> 0..Qty]
  <2>1. \A f \in 0..Qty : 0..f \subseteq 0..Qty
    BY QtyAssumption
  <2>2. \A k \in RealNums : Told(k)' \in 0..Qty
    BY <1>1, <2>1
  <2> QED
    BY <2>2
<1>3. /\ \A k \in RealNums : told'[k] \in told[k]..exch[k].filled
      /\ \A k \in RealNums \ OldNums : told'[k] = told[k]
  BY <1>1
<1>4. /\ [k \in RealNums |-> AnswerTo(k)]' = [k \in RealNums |-> AnswerTo(k)]
      /\ [k \in RealNums |-> AtExchange(k)]' = [k \in RealNums |-> AtExchange(k)]
      /\ [k \in RealNums |-> exch[k].filled]' = [k \in RealNums |-> exch[k].filled]
      /\ [k \in RealNums |-> CalledOff(k)]' = [k \in RealNums |-> CalledOff(k)]
  BY <1>0, <1>1
<1>5. Promise!Restore
  BY <1>2, <1>3, <1>4 DEF Promise!Restore, Told, CalledOff
<1>6. Registered'
  <2>1. \A s \in Slots : returned'[s] # "Accepted"
    BY <1>0, ReachedFacts, SlotFacts DEF Registered, LoginBooks
  <2> QED
    BY <1>0, <2>1 DEF Registered, UnderWay
<1> QED
  BY <1>5, <1>6 DEF Promise!Next

(* The other steps of Zorro's thread, and what a callback has left to do.  *)
LEMMA OtherSteps ==
    ASSUME Reached,
           \/ CancelNothing \/ SendCancel \/ FinishCancel \/ CancelTimedOut
           \/ TimeOut \/ AbortCancel \/ AbortRetrieve \/ Test \/ Reset \/ UNCHANGED vars
           \/ \E n \in Nums : OpenOrderReplay(n) \/ DoCancel(n)
    PROVE  /\ UNCHANGED Promise!contractVars
           /\ Registered'
<1>0. exch \in [Nums -> ExchangeOrder] /\ orders \in [Slots -> Order] /\ main \in MainStates
  BY ReachedFacts
<1>1. UnderWay => main.slot \in Slots /\ OrderNum(main.slot) \in Nums
  BY UnderWayFacts
<1>2. ASSUME SameExchange, UNCHANGED <<byId, returned>>,
             \A n \in RealNums : Known(n) =>
                /\ orders'[byId[n]].exec = orders[byId[n]].exec
                /\ orders'[byId[n]].cancelled = orders[byId[n]].cancelled,
             UnderWay' => UnderWay /\ main'.slot = main.slot,
             UnderWay' /\ main'.pc # "buying" => Faults # {},
             main'.pc = "retrieving" => main'.pc = main.pc /\ main'.num = main.num,
             main'.pc = "login" => main.pc = "login" /\ \A s \in Slots : ~orders'[s].cancelled
      PROVE  UNCHANGED Promise!contractVars /\ Registered'
  <2>1. UNCHANGED Promise!contractVars
    BY <1>2, BooksStep
  <2>2. UnderWay' => returned'[main'.slot] = "none" /\ exch'[OrderNum(main'.slot)].st # "none"
    BY <1>1, <1>2, ReachedFacts DEF Registered, SameExchange
  <2>3. \A s \in Slots : returned'[s] = "Accepted" => byId'[OrderNum(s)] # NoSlot
    BY <1>2, ReachedFacts DEF Registered
  <2>4. main'.pc = "retrieving" => main'.num \in OldNums \cup {OneNum}
    BY <1>2, ReachedFacts DEF Registered
  <2> HIDE <1>2
  <2>5. Registered'
    BY <1>2, <2>2, <2>3, <2>4 DEF Registered
  <2> QED
    BY <2>1, <2>5
<1>3. CASE SendCancel
  <2>1. main.num \in Nums
    BY <1>3, ReachedFacts DEF SendCancel, Inv, CallOK
  <2>2. SameExchange /\ UNCHANGED <<byId, orders, returned>>
    BY <1>0, <1>3, <2>1, SentCancel DEF SendCancel
  <2>3. main' \in {[main EXCEPT !.pc = "clear"], [main EXCEPT !.pc = "cancelling"], Idle}
        /\ (main'.pc = "clear" => main.then = "clear") /\ main.pc = "cancel"
    BY <1>0, <1>3 DEF SendCancel, Return, Idle, MainStates
  <2>4. /\ UnderWay' => UnderWay /\ main'.slot = main.slot
        /\ main'.pc \notin {"buying", "retrieving", "login"}
    BY <1>0, <2>3 DEF UnderWay, Idle, MainStates
  <2> QED
    BY <1>2, <2>2, <2>3, <2>4, ReachedFacts DEF Registered, UnderWay
<1>4. CASE CancelNothing \/ FinishCancel \/ AbortCancel
  <2>1. UNCHANGED <<byId, orders, returned, exch>> /\ SameExchange
    BY <1>4 DEF CancelNothing, FinishCancel, AbortCancel, SameExchange
  <2>2. main' \in {[main EXCEPT !.pc = "clear"], Idle}
        /\ (main'.pc = "clear" => main.then = "clear") /\ main.pc \in {"cancel", "cancelling"}
    BY <1>0, <1>4 DEF CancelNothing, FinishCancel, AbortCancel, Return, Idle, MainStates
  <2>3. /\ UnderWay' => UnderWay /\ main'.slot = main.slot
        /\ main'.pc \notin {"buying", "retrieving", "login"}
    BY <1>0, <2>2 DEF UnderWay, Idle, MainStates
  <2> QED
    BY <1>2, <2>1, <2>2, <2>3, ReachedFacts DEF Registered, UnderWay
<1>5. CASE \E n \in Nums : DoCancel(n)
  <2>1. UNCHANGED <<byId, orders, returned, exch>> /\ SameExchange
    BY <1>5 DEF DoCancel, SameExchange
  <2>2. ~UnderWay' /\ main'.pc = "cancel"
    BY <1>5 DEF DoCancel, Idle, UnderWay
  <2> QED
    BY <1>2, <2>1, <2>2
<1>6. CASE Test \/ Reset \/ UNCHANGED vars
  <2>1. UNCHANGED <<byId, orders, returned, exch, main>> /\ SameExchange
    BY <1>6 DEF Test, Reset, vars, SameExchange
  <2> QED
    BY <1>2, <2>1, ReachedFacts DEF Registered, UnderWay
<1>7. CASE TimeOut
  <2>1. UNCHANGED <<byId, orders, returned, exch>> /\ SameExchange /\ Faults # {}
        /\ main.pc = "buying" /\ main' = [main EXCEPT !.pc = "timeout"]
    BY <1>7 DEF TimeOut, SameExchange
  <2>2. UnderWay /\ main'.slot = main.slot /\ main'.pc = "timeout"
    BY <1>0, <2>1 DEF UnderWay, MainStates
  <2> QED
    BY <1>2, <2>1, <2>2
<1>8. CASE CancelTimedOut
  <2>1. /\ UnderWay /\ Faults # {} /\ main.pc = "timeout"
        /\ UNCHANGED <<byId, returned, exch>> /\ SameExchange
    BY <1>8, ReachedFacts DEF CancelTimedOut, UnderWay, Registered, SameExchange
  <2>2. main'.slot = main.slot /\ main'.pc \in {"cancel", "clear"}
    BY <1>0, <1>8 DEF CancelTimedOut, MainStates
  <2>3. \/ UNCHANGED orders
        \/ \E b \in BOOLEAN : orders' = [orders EXCEPT ![main.slot].armed = b]
    <3>1. UNCHANGED orders \/ orders' = [orders EXCEPT ![main.slot].armed =
                                           ArmsCancel(orders[main.slot])]
      BY <1>8 DEF CancelTimedOut
    <3>2. ArmsCancel(orders[main.slot]) \in BOOLEAN
      BY <1>0, <1>1, <2>1 DEF ArmsCancel, Order
    <3> QED
      BY <3>1, <3>2
  <2>4. \A t \in Slots : orders'[t].exec = orders[t].exec
                        /\ orders'[t].cancelled = orders[t].cancelled
    <3>1. CASE UNCHANGED orders
      BY <3>1
    <3>2. ASSUME NEW b \in BOOLEAN, orders' = [orders EXCEPT ![main.slot].armed = b]
          PROVE  \A t \in Slots : orders'[t].exec = orders[t].exec
                                /\ orders'[t].cancelled = orders[t].cancelled
      BY <1>0, <1>1, <2>1, <3>2 DEF Order
    <3> QED
      BY <2>3, <3>1, <3>2
  <2>5. \A n \in RealNums : Known(n) => byId[n] \in Slots
    BY TradeFacts
  <2> QED
    BY <1>2, <2>1, <2>2, <2>4, <2>5
<1>9. CASE AbortRetrieve
  <2>1. UNCHANGED <<byId, orders, returned, exch>> /\ SameExchange
    BY <1>9 DEF AbortRetrieve, SameExchange
  <2>2. ~UnderWay' /\ main'.pc = "idle"
    BY <1>9 DEF AbortRetrieve, Idle, UnderWay
  <2> QED
    BY <1>2, <2>1, <2>2
<1>10. CASE \E n \in Nums : OpenOrderReplay(n)
  <2>1. PICK n \in Nums : OpenOrderReplay(n)
    BY <1>10
  <2>2. /\ nextIndex \in Slots /\ main.pc = "login" /\ LoginBooks
        /\ \A s \in Slots : ~orders[s].cancelled
        /\ UNCHANGED <<main, byId, returned, exch>> /\ SameExchange
        /\ orders' = [orders EXCEPT ![nextIndex] =
                       [NewOrder(RestoredId(n), n, FALSE, TRUE) EXCEPT !.exec = exch[n].filled]]
    BY <2>1, ReachedFacts, SlotFacts DEF OpenOrderReplay, Inv, FreshOK, Registered, SameExchange
  <2>3. \A t \in Slots : ~orders'[t].cancelled
    <3>1. ~[NewOrder(RestoredId(n), n, FALSE, TRUE) EXCEPT !.exec = exch[n].filled].cancelled
      BY DEF NewOrder
    <3> QED
      BY <1>0, <2>2, <3>1
  <2>4. \A k \in RealNums : ~Known(k)
    BY <2>2, NumberFacts DEF LoginBooks, Known
  <2> QED
    BY <1>2, <2>2, <2>3, <2>4, ReachedFacts DEF Registered, UnderWay
<1> QED
  BY <1>3, <1>4, <1>5, <1>6, <1>7, <1>8, <1>9, <1>10

(* Nothing is said to the orders that login restores.                      *)
LEMMA DeafAtLogin ==
    ASSUME Reached, main.pc = "login", NEW i \in Deliverable, Handle(i)
    PROVE  \A s \in Slots : ~orders'[s].cancelled
<1> DEFINE m == inbox[i]
           s == ctx[m.num]
<1>0. /\ LoginBooks /\ orders \in [Slots -> Order] /\ ctx \in [Nums -> Slots \cup {NoSlot}]
      /\ \A t \in Slots : ~orders[t].cancelled
  BY ReachedFacts DEF Inv, FreshOK, Registered
<1>1. m.num \in Nums
  BY HandlerWrites
<1>2. ~Ours(m)
  <2> SUFFICES ASSUME s # NoSlot PROVE orders[s].cid # Tag(m.num)
    BY DEF Ours
  <2>1. orders[s].cid = IntMax
    BY <1>0, <1>1, RestoredFacts, TagFacts DEF LoginBooks
  <2>2. \A n \in Nums : Tag(n) # IntMax
    BY TagFacts, NumAssumption
  <2> QED
    BY <1>1, <2>1, <2>2
<1>3. \/ UNCHANGED orders
      \/ s \in Slots /\ orders' = [orders EXCEPT ![s].armed = FALSE]
      \/ s \in Slots /\ orders' = [orders EXCEPT ![s] = Updated(orders[s], m)]
  <2>1. HasSlot(m) => s \in Slots
    BY <1>0, <1>1 DEF HasSlot, Ours
  <2> QED
    BY <1>2, <2>1
    DEF Handle, LineDropped, LineStale, LineSendsCancel, LineApplied, LineError, ReportApplied,
        ReportDropped, NotCancelledReport, SingleOrderReplay
<1>4. \A t \in Slots : orders'[t].cancelled = orders[t].cancelled
  <2> HIDE DEF s, m
  <2>1. s \in Slots => Updated(orders[s], m).cancelled = orders[s].cancelled
    BY <1>0 DEF Updated, Order
  <2> QED
    BY <1>0, <1>3, <2>1 DEF Order
<1> QED
  BY <1>0, <1>4

LEMMA RegisteredStep ==
    ASSUME Reached, [Next]_vars
    PROVE  Registered'
<1>0. UnderWay => main.slot \in Slots /\ OrderNum(main.slot) \in Nums
  BY UnderWayFacts
<1>1. ASSUME NEW i \in Deliverable, Handle(i)
      PROVE  Registered'
  <2>1. UNCHANGED <<main, ctx, byId, returned>> /\ SameExchange
    BY <1>1, HandlerWrites
  <2>2. ASSUME main.pc = "login"
        PROVE  \A s \in Slots : ~orders'[s].cancelled
    BY <1>1, <2>2, DeafAtLogin
  <2> QED
    BY <1>0, <2>1, <2>2, ReachedFacts DEF Registered, UnderWay, SameExchange
<1>2. ASSUME NEW n \in Nums, Engine(n)
      PROVE  Registered'
  <2>0. exch \in [Nums -> ExchangeOrder] /\ UNCHANGED <<main, orders, byId, returned>>
    BY <1>2, ReachedFacts DEF Engine
  <2>1. PICK f \in ExchangeOrder : exch' = [exch EXCEPT ![n] = f] /\ Evolves(exch[n], f)
    BY <1>2, EngineGoesOn, ReachedFacts DEF Inv, TypeOK, Truth, Engine
  <2>2. \A k \in Nums : exch[k].st # "none" => exch'[k].st # "none"
    BY <2>0, <2>1 DEF Evolves
  <2> QED
    BY <1>0, <2>0, <2>2, ReachedFacts DEF Registered, UnderWay
<1>3. CASE FinishSend
  <2>0. /\ byId \in [Nums -> Slots \cup {NoSlot}] /\ returned \in [Slots -> Outcomes]
        /\ UnderWay /\ main'.pc = "idle"
    BY <1>3, ReachedFacts DEF FinishSend, Idle, UnderWay
  <2>1. PICK s \in Slots, n \in Nums : s = main.slot /\ n = OrderNum(s)
    BY <1>0, <2>0
  <2>2. PICK how \in Disowning \cup {"Accepted"} :
          /\ returned' = [returned EXCEPT ![s] = how]
          /\ byId' \in {byId, [byId EXCEPT ![n] = s]}
          /\ how = "Accepted" => byId' = [byId EXCEPT ![n] = s]
    BY <1>3, <2>1, FinishSendReturns
  <2>3. \A t \in Slots : returned'[t] = "Accepted" => byId'[OrderNum(t)] # NoSlot
    <3> SUFFICES ASSUME NEW t \in Slots, returned'[t] = "Accepted"
                 PROVE  byId'[OrderNum(t)] # NoSlot
      OBVIOUS
    <3>1. CASE t = s
      BY <2>0, <2>1, <2>2, <3>1, SlotFacts
    <3>2. CASE t # s
      <4>1. byId[OrderNum(t)] # NoSlot
        BY <2>0, <2>2, <3>2, ReachedFacts DEF Registered
      <4> QED
        BY <2>0, <2>1, <2>2, <4>1, SlotFacts
    <3> QED
      BY <3>1, <3>2
  <2> QED
    BY <2>0, <2>3 DEF Registered, UnderWay
<1>4. CASE AbortSend \/ ReturnTimedOut
  <2>1. main'.pc = "idle" /\ UNCHANGED byId
    BY <1>4 DEF AbortSend, ReturnTimedOut, Idle
  <2>2. \A t \in Slots : returned'[t] = "Accepted" => returned[t] = "Accepted"
    BY <1>4, ReachedFacts DEF AbortSend, ReturnTimedOut
  <2> QED
    BY <2>1, <2>2, ReachedFacts DEF Registered, UnderWay
<1>5. CASE Call
  BY <1>5, SendKeeps, RetrieveKeeps, OtherSteps DEF Call
<1>6. CASE Proceed \/ GiveUp \/ UNCHANGED vars \/ Test \/ Reset
  BY <1>3, <1>4, <1>6, FinishRetrieveKeeps, LoginKeeps, OtherSteps DEF Proceed, GiveUp
<1> QED
  BY <1>1, <1>2, <1>5, <1>6 DEF Next, Callback

LEMMA RegisteredInit == Init => Registered
BY SlotFacts DEF Init, Idle, Registered, UnderWay, NewOrder

LEMMA ContractStep ==
    ASSUME Reached, Reached', [Next]_vars
    PROVE  [Promise!Next]_(Promise!contractVars)
<1>1. "Reorder" \notin Faults => Rises
  BY AscendsStep DEF Reached
<1>2. ASSUME NEW i \in Deliverable, Handle(i)
      PROVE  [Promise!Next]_(Promise!contractVars)
  BY <1>1, <1>2, HandlerKeeps
<1>3. CASE \E n \in Nums : Engine(n)
  BY <1>3, EngineKeeps
<1>4. CASE Call
  BY <1>4, SendKeeps, RetrieveKeeps, OtherSteps DEF Call
<1>5. CASE Proceed \/ GiveUp \/ UNCHANGED vars \/ Test \/ Reset
  BY <1>5, FinishSendKeeps, GiveUpKeeps, FinishRetrieveKeeps, LoginKeeps, OtherSteps
  DEF Proceed, GiveUp
<1> QED
  BY <1>2, <1>3, <1>4, <1>5 DEF Next, Callback

LEMMA ContractInit ==
    ASSUME Init
    PROVE  Promise!Init
<1>1. /\ \A s \in Slots : returned[s] = "none"
      /\ \A n \in Nums : ~Known(n)
      /\ \A n \in OldNums : exch[n].st = "open" /\ exch[n].filled = 0
      /\ \A n \in Nums \ OldNums : exch[n].st = "none" /\ exch[n].filled = 0
  BY DEF Init, EngineInit, NoExchangeOrder, Known, Nums
<1>2. \A n \in RealNums : /\ AnswerTo(n) = IF n \in OldNums THEN "accepted" ELSE "none"
                          /\ AtExchange(n) = IF n \in OldNums THEN "in" ELSE "out"
                          /\ exch[n].filled = 0 /\ ~Known(n)
  BY <1>1, NumberFacts DEF AnswerTo, AtExchange, Live, Outcomes, Null
<1> QED
  BY <1>2 DEF Promise!Init

LEMMA ReachedInvariance == Spec => []Reached
<1>1. Spec => [](Inv /\ Truth /\ Unsent)
  BY Inductive, TruthInvariance, PTL
<1>2. ASSUME "Reorder" \notin Faults
      PROVE  Spec => []Ascends
  <2>1. Inv /\ Truth /\ Ascends /\ [Next]_vars => Ascends'
    BY <1>2, AscendsStep
  <2> QED
    BY <1>1, <2>1, AscendsInit, PTL DEF Spec
<1>3. Spec => []("Reorder" \notin Faults => Ascends)
  <2>1. CASE "Reorder" \in Faults
    <3>1. "Reorder" \notin Faults => Ascends
      BY <2>1
    <3> QED
      BY <3>1, PTL
  <2>2. CASE "Reorder" \notin Faults
    <3>1. Ascends => ("Reorder" \notin Faults => Ascends)
      OBVIOUS
    <3> QED
      BY <1>2, <2>2, <3>1, PTL
  <2> QED
    BY <2>1, <2>2
<1>4. ASSUME Faults = {}
      PROVE  Spec => [](Grounded /\ Answers)
  <2>u. Undisturbed
    BY <1>4 DEF Undisturbed
  <2>1. Spec => []Grounded
    BY <1>1, <2>u, HandshakeInvariance, PTL DEF Grounded
  <2>2. Grounded /\ Answers /\ [Next]_vars => Answers'
    BY <1>4, AnswersStep
  <2> QED
    BY <2>1, <2>2, AnswersInit, PTL DEF Spec
<1>5. Spec => [](Faults = {} => Grounded /\ Answers)
  <2>1. CASE Faults # {}
    <3>1. Faults = {} => Grounded /\ Answers
      BY <2>1
    <3> QED
      BY <3>1, PTL
  <2>2. CASE Faults = {}
    <3>1. Grounded /\ Answers => (Faults = {} => Grounded /\ Answers)
      OBVIOUS
    <3> QED
      BY <1>4, <2>2, <3>1, PTL
  <2> QED
    BY <2>1, <2>2
<1>6. Reached /\ [Next]_vars => Registered'
  BY RegisteredStep
<1> QED
  BY <1>1, <1>3, <1>5, <1>6, RegisteredInit, PTL DEF Spec, Reached

(* What BrokerBuy2 and BrokerTrade tell Zorro keeps the contract, whatever *)
(* faults happen and whatever orders login restores: an order is answered  *)
(* once, the fills that are told were made and, if callbacks do not        *)
(* overtake each other, are never taken back, only an order that the       *)
(* exchange cancelled is called cancelled, and if no fault happens, only   *)
(* an order that is dead and has no fill is disowned.                      *)
THEOREM OrdersKeepTheContract == Spec => HonoursContract
<1>1. Reached /\ Reached' /\ [Next]_vars => [Promise!Next]_(Promise!contractVars)
  BY ContractStep
<1>2. Init => Promise!Init
  BY ContractInit
<1> QED
  BY <1>1, <1>2, ReachedInvariance, PTL DEF Spec, Promise!Contract, HonoursContract

-----------------------------------------------------------------------------
(* No answer is lost. *)

(* The callback thread is about to end the wait.                           *)
Ending == cb.pc # "idle" /\ cb.id = pending

(* History is only of orders of an earlier session, and of those that were *)
(* never sent.                                                             *)
HistoryIsOld ==
    \A i \in 1..Len(inbox) : inbox[i].kind = "History" => inbox[i].num \in OldNums \cup {OneNum}

NoneArmed == \A s \in Slots : ~orders[s].armed

(* Nobody has cancelled an order that is not registered.                   *)
Uncancelled ==
    \A n \in Nums : byId[n] = NoSlot =>
        /\ exch[n].cancels = 0
        /\ n \in OldNums \cup {OneNum} =>
             exch[n].st = "none" \/ (exch[n].rests /\ exch[n].st \notin {"Cancel", "PFBC"})

CancelIn(n) == \E i \in 1..Len(inbox) : inbox[i].num = n /\ inbox[i].kind = "Cancel"

(* That an order is cancelled is in its slot, or under way to it.          *)
CancelHeard(n) ==
    Hears(n) /\ exch[n].st \in {"Cancel", "PFBC"} => orders[ctx[n]].cancelled \/ CancelIn(n)

(* Nothing has been said yet to a doSendOrder that goes on at any line, or *)
(* to a cancelOrder that is heard.                                         *)
SendWaits ==
    main.pc = "buying" =>
        /\ exch[AwaitedNum].rests = (orders[main.slot].limit /\ orders[main.slot].lasting)
        /\ AwaitsAnyLine /\ pending # 0 /\ ~Ending => orders[main.slot].ts = 0

CancelWaits ==
    main.pc = "cancelling" /\ pending \notin {0, IntMax} /\ ~Ending =>
        ~orders[byId[main.num]].cancelled

Answerable ==
    /\ HistoryIsOld /\ NoneArmed /\ Uncancelled
    /\ \A n \in Nums : CancelHeard(n)
    /\ SendWaits /\ CancelWaits

(* A callback that is not taken stays.                                     *)
LEMMA StillIn ==
    ASSUME inbox \in Seq(Message), NEW i \in Deliverable, NEW kinds, Takes(i, kinds)
    PROVE  /\ \A k \in 1..Len(inbox) : k # i => \E j \in 1..Len(inbox') : inbox'[j] = inbox[k]
           /\ \A j \in 1..Len(inbox') : \E k \in 1..Len(inbox) : inbox'[j] = inbox[k]
<1>1. /\ i \in 1..Len(inbox) /\ Len(inbox') = Len(inbox) - 1
      /\ \A j \in 1..Len(inbox') : /\ inbox'[j] = inbox[IF j < i THEN j ELSE j + 1]
                                   /\ j + 1 \in 1..Len(inbox) /\ j \in 1..Len(inbox)
  BY Remaining
<1>2. Len(inbox) \in Nat
  OBVIOUS
<1>3. ASSUME NEW k \in 1..Len(inbox), k # i
      PROVE  \E j \in 1..Len(inbox') : inbox'[j] = inbox[k]
  <2>1. CASE k < i
    <3>1. k \in 1..Len(inbox')
      BY <1>1, <1>2, <2>1
    <3>2. inbox'[k] = inbox[k]
      BY <1>1, <2>1, <3>1
    <3> QED
      BY <3>1, <3>2
  <2>2. CASE k > i
    <3>1. k - 1 \in 1..Len(inbox') /\ ~(k - 1 < i) /\ (k - 1) + 1 = k
      BY <1>1, <1>2, <2>2
    <3>2. inbox'[k - 1] = inbox[k]
      BY <1>1, <3>1
    <3> QED
      BY <3>1, <3>2
  <2>3. k \in Nat /\ i \in Nat
    BY <1>1
  <2> QED
    BY <1>3, <2>1, <2>2, <2>3
<1> QED
  BY <1>1, <1>3

(* What the engine says when it goes on: no order leaves the market, and   *)
(* no cancel is answered, without a word.                                  *)
Speaks(n, e, f, msgs) ==
    LET Said(kinds) == \E j \in 1..Len(msgs) : msgs[j].kind \in kinds
        SaidFinal == \E j \in 1..Len(msgs) : Final(msgs[j])
    IN  /\ f.rests = e.rests
        /\ e.cancels = 0 => f.cancels = 0
        /\ \/ f.st = e.st
           \/ e.st = "sent" /\ f.st = "open" /\ Said({"Line"})
           \/ f.st \in Finished /\ SaidFinal
        /\ \/ f.cancels = e.cancels
           \/ SaidFinal
           \/ e.st \in Finished /\ "NotCancelled" \in Refusals
        /\ f.st \in {"Cancel", "PFBC"} /\ f.st # e.st =>
             Said({"Cancel"}) /\ (e.cancels > 0 \/ ~e.rests)

LEMMA EngineSpeaks ==
    ASSUME EngineTypeOK, NEW n \in Nums, EngineStep(n)
    PROVE  \E f \in ExchangeOrder, msgs \in Seq(Message) :
             /\ exch' = [exch EXCEPT ![n] = f]
             /\ Speaks(n, exch[n], f, msgs) /\ Emit(msgs)
             /\ \A j \in 1..Len(msgs) : msgs[j].num = n /\ msgs[j].kind # "History"
<1> DEFINE e == exch[n]
           Becomes(f) == exch' = [exch EXCEPT ![n] = f]
           Plain(msgs) == \A j \in 1..Len(msgs) : msgs[j].num = n /\ msgs[j].kind # "History"
           Goal(f, msgs) == /\ f \in ExchangeOrder /\ msgs \in Seq(Message) /\ Becomes(f)
                            /\ Speaks(n, e, f, msgs) /\ Emit(msgs)
                            /\ Plain(msgs)
<1> SUFFICES \E f, msgs : Goal(f, msgs)
  OBVIOUS
<1>0. /\ e \in ExchangeOrder /\ e.seq + 1 \in Nat /\ e.cancels \in Nat /\ e.filled \in 0..Qty
      /\ 0 \in 0..Qty
  BY QtyAssumption DEF EngineTypeOK, ExchangeOrder
<1>1. ASSUME NEW f \in ExchangeOrder, NEW report \in Message, Announce(n, f, report),
             report.num = n, report.kind # "History", f.rests = e.rests, e.cancels = 0 => f.cancels = 0,
             f.st = e.st \/ f.st \in Reasons,
             f.cancels = e.cancels \/ Final(report),
             f.st \in {"Cancel", "PFBC"} /\ f.st # e.st =>
               report.kind = "Cancel" /\ (e.cancels > 0 \/ ~e.rests)
      PROVE  \E msgs : Goal(f, msgs)
  <2> DEFINE line == Line("Line", n, f, Reason(f))
  <2>1. line \in Message /\ line.num = n /\ line.kind = "Line" /\ line.reason = Reason(f)
    BY MessageFacts DEF Lines, Line
  <2>2. f.st # e.st => f.st \in Finished /\ Final(line)
    BY <1>1, <2>1 DEF Final, Reason, Finished, Reasons
  <2>3. \A a, b \in Message : <<a, b>> \in Seq(Message) /\ Len(<<a, b>>) = 2
                              /\ <<a, b>>[1] = a /\ <<a, b>>[2] = b /\ 1..2 = {1, 2}
    OBVIOUS
  <2>4. Emit(<<line, report>>) \/ Emit(<<report, line>>)
    BY <1>1 DEF Announce
  <2>5. Becomes(f)
    BY <1>1 DEF Announce
  <2> HIDE DEF line, Becomes
  <2>6. \A a, b \in Message : {a, b} = {line, report} =>
          Speaks(n, e, f, <<a, b>>) /\ Plain(<<a, b>>)
    <3> SUFFICES ASSUME NEW a \in Message, NEW b \in Message, {a, b} = {line, report}
                 PROVE  Speaks(n, e, f, <<a, b>>) /\ Plain(<<a, b>>)
      OBVIOUS
    <3> DEFINE ms == <<a, b>>
    <3>1. \A j \in 1..Len(ms) : ms[j] \in {line, report}
      BY <2>3
    <3>2. \A m \in {line, report} : \E j \in 1..Len(ms) : ms[j] = m
      BY <2>3
    <3> HIDE DEF ms
    <3>3. f.st # e.st => f.st \in Finished /\ \E j \in 1..Len(ms) : Final(ms[j])
      BY <2>2, <3>2
    <3>4. f.cancels = e.cancels \/ \E j \in 1..Len(ms) : Final(ms[j])
      BY <1>1, <3>2
    <3>5. f.st \in {"Cancel", "PFBC"} /\ f.st # e.st =>
            /\ \E j \in 1..Len(ms) : ms[j].kind \in {"Cancel"}
            /\ e.cancels > 0 \/ ~e.rests
      BY <1>1, <3>2
    <3>6. \A j \in 1..Len(ms) : ms[j].num = n /\ ms[j].kind # "History"
      BY <1>1, <2>1, <3>1
    <3>7. Speaks(n, e, f, ms)
      BY <1>1, <3>3, <3>4, <3>5 DEF Speaks
    <3> QED
      BY <3>6, <3>7 DEF ms
  <2>7. PICK a \in Message, b \in Message : {a, b} = {line, report} /\ Emit(<<a, b>>)
    BY <1>1, <2>1, <2>4
  <2> DEFINE msgs == <<a, b>>
  <2>8. /\ msgs \in Seq(Message) /\ Emit(msgs) /\ Speaks(n, e, f, msgs)
        /\ Plain(msgs)
    BY <2>6, <2>7
  <2> HIDE DEF msgs
  <2> QED
    BY <1>1, <2>5, <2>8
<1>2. ASSUME NEW f \in ExchangeOrder, NEW m \in Message, Becomes(f), Emit(<<m>>),
             m.num = n, m.kind # "History", f.rests = e.rests, e.cancels = 0 => f.cancels = 0,
             \/ f.st = e.st
             \/ e.st = "sent" /\ f.st = "open" /\ m.kind = "Line"
             \/ f.st = "Refused" /\ Final(m),
             \/ f.cancels = e.cancels
             \/ Final(m)
             \/ e.st \in Finished /\ "NotCancelled" \in Refusals
      PROVE  \E msgs : Goal(f, msgs)
  <2>1. <<m>> \in Seq(Message) /\ Len(<<m>>) = 1 /\ <<m>>[1] = m /\ 1..1 = {1}
    OBVIOUS
  <2>2. Speaks(n, e, f, <<m>>)
    BY <1>2, <2>1 DEF Speaks, Finished
  <2> QED
    BY <1>2, <2>1, <2>2
<1> HIDE DEF Goal, Becomes
<1>3. CASE Acknowledge(n)
  <2> DEFINE f == [e EXCEPT !.st = "open", !.seq = @ + 1]
             m == Line("Line", n, f, "None")
  <2>1. f \in ExchangeOrder /\ f.st = "open" /\ f.rests = e.rests /\ f.cancels = e.cancels
    BY <1>0 DEF ExchangeOrder
  <2>2. m \in Message /\ m.num = n /\ m.kind = "Line"
    BY <2>1, MessageFacts DEF Lines, Line
  <2>3. e.st = "sent" /\ Becomes(f) /\ Emit(<<m>>)
    BY <1>3 DEF Acknowledge, Becomes
  <2> HIDE DEF f, m
  <2> QED
    BY <1>2, <2>1, <2>2, <2>3
<1>4. CASE Refuse(n)
  <2> DEFINE f == [e EXCEPT !.st = "Refused"]
             m == Report("LineError", n, 0)
  <2>1. f \in ExchangeOrder /\ f.st = "Refused" /\ f.rests = e.rests /\ f.cancels = e.cancels
    BY <1>0 DEF ExchangeOrder, Finished
  <2>2. m \in Message /\ m.num = n /\ m.kind = "LineError"
    BY <1>0, ReportFacts DEF Reports
  <2>3. Becomes(f) /\ Emit(<<m>>)
    BY <1>4 DEF Refuse, Becomes
  <2> HIDE DEF f, m
  <2> QED
    BY <1>2, <2>1, <2>2, <2>3 DEF Final
<1>5. CASE Reject(n)
  <2>1. PICK why \in {"Reject", "Failure"} :
          Announce(n, [e EXCEPT !.st = why, !.seq = @ + 1], Report(why, n, 0))
    BY <1>5 DEF Reject
  <2> DEFINE f == [e EXCEPT !.st = why, !.seq = @ + 1]
             m == Report(why, n, 0)
  <2>2. f \in ExchangeOrder /\ f.st = why /\ f.rests = e.rests /\ f.cancels = e.cancels
    BY <1>0 DEF ExchangeOrder, Finished, Reasons
  <2>3. m \in Message /\ m.num = n /\ m.kind # "History"
    BY <1>0, ReportFacts DEF Reports
  <2>4. Announce(n, f, m)
    BY <2>1
  <2> HIDE DEF f, m
  <2> QED
    BY <1>1, <2>2, <2>3, <2>4 DEF Reasons
<1>6. CASE Fill(n)
  <2>1. PICK total \in e.filled + 1 .. Qty :
          Announce(n, [e EXCEPT !.filled = total, !.seq = @ + 1,
                                !.st = IF total = Qty THEN "Fill" ELSE @],
                   Report("Fill", n, total))
    BY <1>6 DEF Fill
  <2> DEFINE f == [e EXCEPT !.filled = total, !.seq = @ + 1,
                            !.st = IF total = Qty THEN "Fill" ELSE @]
             m == Report("Fill", n, total)
  <2>2. total \in 0..Qty
    BY <1>0, QtyAssumption
  <2>3. f \in ExchangeOrder /\ f.st \in {"Fill", e.st} /\ f.rests = e.rests /\ f.cancels = e.cancels
    BY <1>0, <2>2 DEF ExchangeOrder, Finished, Reasons
  <2>4. m \in Message /\ m.num = n /\ m.kind # "History"
    BY <2>2, ReportFacts DEF Reports
  <2>5. Announce(n, f, m)
    BY <2>1
  <2> HIDE DEF f, m
  <2> QED
    BY <1>1, <2>3, <2>4, <2>5 DEF Reasons
<1>7. CASE Cancel(n)
  <2> DEFINE st == IF e.filled > 0 THEN "PFBC" ELSE "Cancel"
             left == IF e.cancels > 0 THEN e.cancels - 1 ELSE e.cancels
             f == [e EXCEPT !.st = st, !.seq = @ + 1, !.cancels = left]
             m == Report("Cancel", n, 0)
  <2>1. /\ st \in {"PFBC", "Cancel"} /\ left \in Nat /\ (e.cancels = 0 => left = 0)
        /\ Announce(n, f, m)
    BY <1>0, <1>7 DEF Cancel
  <2>2. e.cancels > 0 \/ ~e.rests
    BY <1>7 DEF Cancel
  <2>3. m \in Message /\ m.num = n /\ m.kind = "Cancel"
    BY <1>0, ReportFacts DEF Reports
  <2> HIDE DEF st, left, m
  <2>4. f \in ExchangeOrder /\ f.st = st /\ f.rests = e.rests /\ f.cancels = left
    BY <1>0, <2>1 DEF ExchangeOrder, Finished, Reasons
  <2> HIDE DEF f
  <2> QED
    BY <1>1, <2>1, <2>2, <2>3, <2>4 DEF Reasons, Final
<1>8. CASE RefuseCancel(n)
  <2> DEFINE f == [e EXCEPT !.cancels = @ - 1]
  <2>1. e.cancels > 0 /\ e.cancels - 1 \in Nat /\ e.st \in Finished /\ Becomes(f)
    BY <1>0, <1>8 DEF RefuseCancel, Becomes
  <2>2. f \in ExchangeOrder /\ f.st = e.st /\ f.rests = e.rests
    BY <1>0, <2>1 DEF ExchangeOrder
  <2>3. PICK kind \in Refusals \cap {"NotCancelled", "Failure"} : Emit(<<Report(kind, n, 0)>>)
    BY <1>8 DEF RefuseCancel
  <2> DEFINE m == Report(kind, n, 0)
  <2>4. m \in Message /\ m.num = n /\ m.kind = kind
    BY <1>0, ReportFacts DEF Reports
  <2>5. Emit(<<m>>)
    BY <2>3
  <2> HIDE DEF f, m
  <2>6. e.cancels # 0
    BY <1>0, <2>1
  <2>7. Final(m) \/ (e.st \in Finished /\ "NotCancelled" \in Refusals)
    BY <2>1, <2>3, <2>4 DEF Final
  <2> QED
    BY <1>2, <2>1, <2>2, <2>4, <2>5, <2>6, <2>7
<1> QED
  BY <1>3, <1>4, <1>5, <1>6, <1>7, <1>8 DEF EngineStep

(* What a callback brings while no slot has a cancel left in it.           *)
LEMMA HandlerBrings ==
    ASSUME Inv, NoneArmed, NEW i \in Deliverable, Handle(i)
    PROVE  LET m == inbox[i]
               t == ctx[m.num]
           IN  /\ UNCHANGED <<main, pending, byId, ctx, exch>> /\ cb.pc = "idle"
               /\ \E kinds : Takes(i, kinds)
               /\ i \in 1..Len(inbox) /\ m \in Message /\ m.num \in Nums
               /\ \A s \in Slots :
                    /\ orders'[s].limit = orders[s].limit /\ orders'[s].lasting = orders[s].lasting
                    /\ ~orders'[s].armed
                    /\ \/ orders'[s].cancelled = orders[s].cancelled
                       \/ s = t /\ m.kind = "Cancel" /\ Ours(m) /\ orders'[s].cancelled
                    /\ \/ orders'[s].ts = orders[s].ts
                       \/ s = t /\ LineApplied(i)
                    /\ \/ orders'[s].cid = orders[s].cid
                       \/ s = t /\ m.kind = "History" /\ orders[s].cid = 0
               /\ m.kind = "Cancel" /\ Ours(m) => orders'[t].cancelled
<1> DEFINE m == inbox[i]
           t == ctx[m.num]
<1>0. /\ orders \in [Slots -> Order] /\ ctx \in [Nums -> Slots \cup {NoSlot}]
      /\ inbox \in Seq(Message) /\ i \in 1..Len(inbox)
  BY DEF Inv, TypeOK, EngineTypeOK, Deliverable
<1>1. m \in Message /\ m.num \in Nums
  BY <1>0, ExecFacts
<1>2. HasSlot(m) => t \in Slots
  BY <1>0, <1>1 DEF HasSlot, Ours
<1>3. ~LineSendsCancel(i)
  BY <1>2 DEF LineSendsCancel, NoneArmed
<1>4. /\ UNCHANGED <<main, pending, byId, ctx, exch>> /\ cb.pc = "idle"
      /\ \E kinds : Takes(i, kinds)
  BY <1>3 DEF Handle, LineDropped, LineStale, LineApplied, LineError, ReportApplied,
              ReportDropped, NotCancelledReport, SingleOrderReplay, Takes
<1> DEFINE Goal ==
      /\ \A s \in Slots :
           /\ orders'[s].limit = orders[s].limit /\ orders'[s].lasting = orders[s].lasting
           /\ ~orders'[s].armed
           /\ \/ orders'[s].cancelled = orders[s].cancelled
              \/ s = t /\ m.kind = "Cancel" /\ Ours(m) /\ orders'[s].cancelled
           /\ \/ orders'[s].ts = orders[s].ts
              \/ s = t /\ LineApplied(i)
           /\ \/ orders'[s].cid = orders[s].cid
              \/ s = t /\ m.kind = "History" /\ orders[s].cid = 0
      /\ m.kind = "Cancel" /\ Ours(m) => orders'[t].cancelled
<1> HIDE DEF m, t
<1>5. ASSUME LineApplied(i)
      PROVE  Goal
  <2>1. /\ HasSlot(m) /\ m.kind \in Lines /\ orders' = [orders EXCEPT ![t] = Updated(orders[t], m)]
    BY <1>5 DEF LineApplied, Takes, m, t
  <2>2. t \in Slots /\ orders[t] \in Order /\ m.kind # "Cancel"
    BY <1>0, <1>2, <2>1 DEF Lines
  <2>3. LET o == Updated(orders[t], m)
        IN  /\ o.limit = orders[t].limit /\ o.lasting = orders[t].lasting
            /\ o.armed = orders[t].armed /\ o.cancelled = orders[t].cancelled
            /\ o.cid = orders[t].cid \/ (m.kind = "History" /\ orders[t].cid = 0)
    BY <2>2 DEF Updated, Order
  <2>4. orders'[t] = Updated(orders[t], m) /\ \A s \in Slots : s # t => orders'[s] = orders[s]
    BY <1>0, <2>1, <2>2
  <2> QED
    BY <1>5, <2>2, <2>3, <2>4 DEF NoneArmed
<1>6. ASSUME ReportApplied(i)
      PROVE  Goal
  <2>1. /\ Ours(m) /\ m.kind \in Reported /\ orders' = [orders EXCEPT ![t] = Marked(orders[t], m)]
    BY <1>6 DEF ReportApplied, Takes, m, t
  <2>2. t \in Slots /\ orders[t] \in Order
    BY <1>0, <1>1, <2>1 DEF Ours, t
  <2>3. LET o == Marked(orders[t], m)
        IN  /\ o.limit = orders[t].limit /\ o.lasting = orders[t].lasting
            /\ o.armed = orders[t].armed /\ o.ts = orders[t].ts /\ o.cid = orders[t].cid
            /\ o.cancelled = orders[t].cancelled \/ (m.kind = "Cancel" /\ o.cancelled)
            /\ m.kind = "Cancel" => o.cancelled
    <3>1. CASE m.kind = "Cancel"
      BY <2>2, <3>1 DEF Marked, Order
    <3>2. CASE m.kind = "Fill"
      BY <2>2, <3>2 DEF Marked, Order
    <3>3. CASE m.kind \in {"Failure", "Reject"}
      BY <2>2, <3>3 DEF Marked, Order
    <3> QED
      BY <2>1, <3>1, <3>2, <3>3 DEF Reported
  <2>4. orders'[t] = Marked(orders[t], m) /\ \A s \in Slots : s # t => orders'[s] = orders[s]
    BY <1>0, <2>1, <2>2
  <2> QED
    BY <2>1, <2>2, <2>3, <2>4 DEF NoneArmed
<1>7. ASSUME UNCHANGED orders, ~(m.kind = "Cancel" /\ Ours(m))
      PROVE  Goal
  BY <1>7 DEF NoneArmed
<1>8. \/ LineApplied(i) \/ ReportApplied(i)
      \/ UNCHANGED orders /\ ~(m.kind = "Cancel" /\ Ours(m))
  BY <1>3
  DEF Handle, LineDropped, LineStale, LineError, ReportDropped, NotCancelledReport,
      SingleOrderReplay, Takes, Lines, m
<1>9. Goal
  BY <1>5, <1>6, <1>7, <1>8
<1> QED
  BY <1>0, <1>1, <1>4, <1>9 DEF m, t

(* Whom a callback about an order that is heard releases.                  *)
LEMMA HandlerReleases ==
    ASSUME Inv, NoneArmed, NEW i \in Deliverable, Handle(i)
    PROVE  LET m == inbox[i]
               o == orders[ctx[m.num]]
           IN  /\ Ours(m) /\ (Final(m) \/ (m.kind = "Line" /\ ~Stale(m) /\ o.limit /\ o.lasting)) =>
                    cb' = [pc |-> "test", id |-> Tag(m.num)]
               /\ m.kind = "ReplayEnd" /\ pending = m.num => cb' = [pc |-> "reset", id |-> m.num]
<1> DEFINE m == inbox[i]
           o == orders[ctx[m.num]]
<1>0. Ours(m) => ctx[m.num] \in Slots
  BY ExecFacts DEF Ours, Deliverable
<1>1. ASSUME Ours(m), Final(m) \/ (m.kind = "Line" /\ ~Stale(m) /\ o.limit /\ o.lasting)
      PROVE  cb' = [pc |-> "test", id |-> Tag(m.num)]
  <2>1. CASE m.kind = "Line"
    <3>1. ~LineDropped(i) /\ ~LineSendsCancel(i)
      BY <1>0, <1>1, <2>1 DEF LineDropped, LineSendsCancel, HasSlot, NoneArmed
    <3>2. LineStale(i) \/ LineApplied(i)
      BY <2>1, <3>1 DEF Handle, LineError, ReportApplied, ReportDropped, NotCancelledReport,
                        SingleOrderReplay, Takes, Reported
    <3>3. CASE LineStale(i)
      BY <1>1, <2>1, <3>3 DEF LineStale, TestPending, Final
    <3>4. CASE LineApplied(i)
      BY <1>1, <2>1, <3>4 DEF LineApplied, Releases, TestPending, Final
    <3> QED
      BY <3>2, <3>3, <3>4
  <2>2. CASE m.kind = "LineError"
    <3>1. LineError(i)
      BY <2>2 DEF Handle, LineDropped, LineStale, LineSendsCancel, LineApplied, ReportApplied,
                  ReportDropped, NotCancelledReport, SingleOrderReplay, Takes, Reported, Lines
    <3> QED
      BY <3>1 DEF LineError, TestPending
  <2>3. CASE m.kind \in {"Cancel", "Failure", "Reject"}
    <3>1. ReportApplied(i)
      BY <1>1, <2>3 DEF Handle, LineDropped, LineStale, LineSendsCancel, LineApplied, LineError,
                  ReportDropped, NotCancelledReport, SingleOrderReplay, Takes, Lines
    <3> QED
      BY <2>3, <3>1 DEF ReportApplied, TestPending
  <2> QED
    BY <1>1, <2>1, <2>2, <2>3 DEF Final
<1>2. ASSUME m.kind = "ReplayEnd", pending = m.num
      PROVE  cb' = [pc |-> "reset", id |-> m.num]
  <2>1. SingleOrderReplay(i)
    BY <1>2 DEF Handle, LineDropped, LineStale, LineSendsCancel, LineApplied, LineError,
                ReportApplied, ReportDropped, NotCancelledReport, Takes, Reported, Lines
  <2> QED
    BY <1>2, <2>1 DEF SingleOrderReplay, ReplayAnswers
<1> QED
  BY <1>1, <1>2

(* The order that doSendOrder, or a cancelOrder that is heard, waits for.  *)
LEMMA AwaitedFacts ==
    ASSUME Inv, main.pc \in {"buying", "cancelling"}, pending # 0,
           main.pc = "cancelling" => pending # IntMax
    PROVE  \E s \in Slots, n \in Nums :
             /\ n = AwaitedNum /\ ctx[n] = s /\ orders[s].cid = Tag(n) /\ pending = Tag(n)
             /\ main.pc = "buying" => s = main.slot /\ n = OrderNum(s)
             /\ main.pc = "cancelling" => n = main.num /\ s = byId[n]
<1>1. CASE main.pc = "buying"
  <2>1. Sending(main.slot) /\ pending \in {0, Awaited}
    BY <1>1 DEF Inv, CallOK, WaitOwnsPending, Waiting
  <2>2. OrderNum(main.slot) \in Nums /\ AwaitedNum = OrderNum(main.slot)
        /\ Awaited = orders[main.slot].cid
    BY <1>1, <2>1, SlotFacts DEF Sending, AwaitedNum, Awaited
  <2> QED
    BY <1>1, <2>1, <2>2 DEF Sending
<1>2. CASE main.pc = "cancelling"
  <2>1. main.num \in Nums /\ byId[main.num] # NoSlot /\ pending \in {0, Awaited}
    BY <1>2 DEF Inv, CallOK, WaitOwnsPending, Waiting
  <2>2. Awaited = orders[byId[main.num]].cid /\ AwaitedNum = main.num
    BY <1>2 DEF Awaited, AwaitedNum
  <2>3. /\ byId[main.num] \in Slots /\ ctx[main.num] = byId[main.num]
        /\ orders[byId[main.num]].cid \in KnownIds(main.num)
    BY <1>2, <2>1, <2>2, RestoredFacts DEF Inv, RegisteredIsHeard, ContextRefused, TypeOK
  <2>4. orders[byId[main.num]].cid = Tag(main.num)
    BY <1>2, <2>1, <2>3, <2>2, RestoredFacts DEF KnownIds
  <2> QED
    BY <1>2, <2>1, <2>3, <2>2, <2>4
<1> QED
  BY <1>1, <1>2

(* A callback that is said to end the wait does.                           *)
LEMMA EndsTheWait ==
    ASSUME Reached, Handshake, Answerable, NEW i \in Deliverable, Handle(i),
           main.pc \in Waiting, pending # 0, main.pc = "cancelling" => pending # IntMax,
           EndsWait(inbox[i])
    PROVE  Ending'
<1> DEFINE m == inbox[i]
<1>0. /\ Inv /\ NoneArmed /\ cb.pc = "idle" /\ UNCHANGED <<main, pending>> /\ m.num = AwaitedNum
      /\ i \in 1..Len(inbox) /\ m \in Message
  BY ReachedFacts, HandlerBrings DEF Answerable, EndsWait
<1>1. CASE main.pc = "retrieving"
  <2>1. m.kind = "ReplayEnd" /\ pending = m.num
    BY <1>0, <1>1 DEF EndsWait, Handshake, OneReplay
  <2>2. cb' = [pc |-> "reset", id |-> m.num]
    BY <1>0, <2>1, HandlerReleases
  <2> QED
    BY <1>0, <2>1, <2>2 DEF Ending
<1>2. CASE main.pc # "retrieving"
  <2>1. main.pc \in {"buying", "cancelling"}
    BY <1>2 DEF Waiting
  <2>2. PICK s \in Slots, n \in Nums :
          /\ n = AwaitedNum /\ ctx[n] = s /\ orders[s].cid = Tag(n) /\ pending = Tag(n)
          /\ main.pc = "buying" => s = main.slot
    BY <1>0, <2>1, AwaitedFacts
  <2>3. Ours(m)
    BY <1>0, <2>2, SlotFacts DEF Ours
  <2>4. Final(m) \/ (m.kind = "Line" /\ ~Stale(m) /\ orders[s].limit /\ orders[s].lasting)
    <3> SUFFICES ASSUME ~Final(m)
                 PROVE  m.kind = "Line" /\ ~Stale(m) /\ orders[s].limit /\ orders[s].lasting
      OBVIOUS
    <3>1. AwaitsAnyLine /\ m.kind = "Line"
      BY <1>2 DEF EndsWait
    <3>2. main.pc = "buying" /\ orders[s].limit /\ orders[s].lasting
      BY <2>2, <3>1 DEF AwaitsAnyLine
    <3>3. orders[s].ts = 0
      BY <1>0, <2>2, <3>1, <3>2 DEF Answerable, SendWaits, Ending
    <3>4. ~(0 > m.ts)
      BY <1>0 DEF Message
    <3> QED
      BY <1>0, <2>2, <3>1, <3>2, <3>3, <3>4 DEF Stale
  <2>5. cb' = [pc |-> "test", id |-> Tag(n)]
    BY <1>0, <2>2, <2>3, <2>4, HandlerReleases
  <2> QED
    BY <1>0, <2>2, <2>5 DEF Ending
<1> QED
  BY <1>1, <1>2

-----------------------------------------------------------------------------
(* What the argument rests on is kept. *)

(* Callbacks join the queue behind those that wait.                        *)
LEMMA AlsoIn ==
    ASSUME inbox \in Seq(Message), NEW msgs \in Seq(Message), Emit(msgs)
    PROVE  /\ \A k \in 1..Len(inbox) : \E j \in 1..Len(inbox') : inbox'[j] = inbox[k]
           /\ \A k \in 1..Len(msgs) : \E j \in 1..Len(inbox') : inbox'[j] = msgs[k]
           /\ \A j \in 1..Len(inbox') : \/ \E k \in 1..Len(inbox) : inbox'[j] = inbox[k]
                                        \/ \E k \in 1..Len(msgs) : inbox'[j] = msgs[k]
<1>1. /\ Len(inbox') = Len(inbox) + Len(msgs) /\ Len(inbox) \in Nat /\ Len(msgs) \in Nat
      /\ \A j \in 1..Len(inbox) : inbox'[j] = inbox[j]
      /\ \A j \in 1..Len(msgs) : inbox'[Len(inbox) + j] = msgs[j]
      /\ \A j \in 1..Len(inbox') : j \notin 1..Len(inbox) =>
           j - Len(inbox) \in 1..Len(msgs) /\ inbox'[j] = msgs[j - Len(inbox)]
  BY Joined
<1>2. ASSUME NEW k \in 1..Len(inbox)
      PROVE  k \in 1..Len(inbox') /\ inbox'[k] = inbox[k]
  BY <1>1
<1>3. ASSUME NEW k \in 1..Len(msgs)
      PROVE  Len(inbox) + k \in 1..Len(inbox') /\ inbox'[Len(inbox) + k] = msgs[k]
  BY <1>1
<1> QED
  BY <1>1, <1>2, <1>3

LEMMA AnswerableOfHandler ==
    ASSUME Reached, Handshake, Answerable, NEW i \in Deliverable, Handle(i)
    PROVE  Answerable'
<1> DEFINE m == inbox[i]
           t == ctx[m.num]
<1>0. /\ Inv /\ NoneArmed /\ UNCHANGED <<main, pending, byId, ctx, exch>> /\ cb.pc = "idle"
      /\ orders \in [Slots -> Order] /\ ctx \in [Nums -> Slots \cup {NoSlot}]
      /\ inbox \in Seq(Message) /\ i \in 1..Len(inbox) /\ m \in Message /\ m.num \in Nums
  BY ReachedFacts, HandlerBrings DEF Answerable
<1>1. PICK kinds : Takes(i, kinds)
  BY <1>0, HandlerBrings
<1>2. /\ \A s \in Slots :
           /\ orders'[s].limit = orders[s].limit /\ orders'[s].lasting = orders[s].lasting
           /\ ~orders'[s].armed
           /\ \/ orders'[s].cancelled = orders[s].cancelled
              \/ s = t /\ m.kind = "Cancel" /\ Ours(m) /\ orders'[s].cancelled
           /\ \/ orders'[s].ts = orders[s].ts
              \/ s = t /\ LineApplied(i)
           /\ \/ orders'[s].cid = orders[s].cid
              \/ s = t /\ m.kind = "History" /\ orders[s].cid = 0
      /\ m.kind = "Cancel" /\ Ours(m) => orders'[t].cancelled
  BY <1>0, HandlerBrings
<1>3. /\ \A k \in 1..Len(inbox) : k # i => \E j \in 1..Len(inbox') : inbox'[j] = inbox[k]
      /\ \A j \in 1..Len(inbox') : \E k \in 1..Len(inbox) : inbox'[j] = inbox[k]
  BY <1>0, <1>1, StillIn
<1>4. HistoryIsOld' /\ NoneArmed' /\ Uncancelled'
  BY <1>0, <1>2, <1>3 DEF Answerable, HistoryIsOld, NoneArmed, Uncancelled
<1>5. ASSUME NEW n \in Nums
      PROVE  CancelHeard(n)'
  <2> SUFFICES ASSUME Hears(n)', exch[n].st \in {"Cancel", "PFBC"}
               PROVE  orders'[ctx[n]].cancelled \/ CancelIn(n)'
    BY <1>0 DEF CancelHeard
  <2>1. ctx[n] \in Slots /\ orders'[ctx[n]].cid = Tag(n)
    BY <1>0 DEF Hears
  <2>2. CASE Hears(n)
    <3>1. CASE orders[ctx[n]].cancelled
      BY <1>2, <2>1, <3>1
    <3>2. CASE CancelIn(n)
      <4>1. PICK k \in 1..Len(inbox) : inbox[k].num = n /\ inbox[k].kind = "Cancel"
        BY <3>2 DEF CancelIn
      <4>2. CASE k = i
        BY <1>2, <2>2, <4>1, <4>2 DEF Ours, Hears
      <4>3. CASE k # i
        BY <1>3, <4>1, <4>3 DEF CancelIn
      <4> QED
        BY <4>2, <4>3
    <3> QED
      BY <2>2, <3>1, <3>2 DEF Answerable, CancelHeard
  <2>3. CASE ~Hears(n)
    <3>1. ctx[n] = t /\ m.kind = "History" /\ orders[ctx[n]].cid = 0
      BY <1>2, <2>1, <2>3, SlotFacts DEF Hears
    <3>2. n = m.num
      BY <1>0, <2>1, <3>1, OneOrderPerSlot, SlotFacts
    <3>3. n \in OldNums \cup {OneNum}
      BY <1>0, <3>1, <3>2 DEF Answerable, HistoryIsOld
    <3>4. byId[n] = NoSlot
      BY <1>0, <2>1, <3>1, KnownFacts, SlotFacts DEF Inv, RegisteredIsHeard, ContextRefused
    <3> QED
      BY <3>3, <3>4 DEF Answerable, Uncancelled
  <2> QED
    BY <2>2, <2>3
<1>6. SendWaits'
  <2> SUFFICES ASSUME main.pc = "buying"
               PROVE  /\ exch'[AwaitedNum'].rests = (orders'[main.slot].limit /\ orders'[main.slot].lasting)
                      /\ AwaitsAnyLine' /\ pending # 0 /\ ~Ending' => orders'[main.slot].ts = 0
    BY <1>0 DEF SendWaits
  <2>1. Sending(main.slot) /\ AwaitedNum' = AwaitedNum /\ AwaitedNum = OrderNum(main.slot)
    BY <1>0 DEF Inv, CallOK, AwaitedNum
  <2>2. /\ main.slot \in Slots /\ ctx[AwaitedNum] = main.slot /\ AwaitedNum \in Nums
        /\ AwaitedNum \notin OldNums \cup {OneNum}
    BY <2>1, SlotFacts DEF Sending
  <2>3. AwaitsAnyLine' = AwaitsAnyLine
    BY <1>0, <1>2, <2>2 DEF AwaitsAnyLine
  <2>4. exch'[AwaitedNum'].rests = (orders'[main.slot].limit /\ orders'[main.slot].lasting)
    BY <1>0, <1>2, <2>1, <2>2 DEF Answerable, SendWaits
  <2>5. ASSUME AwaitsAnyLine, pending # 0, ~Ending', orders'[main.slot].ts # 0
        PROVE  FALSE
    <3>1. orders[main.slot].ts = 0
      BY <1>0, <2>5 DEF Answerable, SendWaits, Ending
    <3>2. main.slot = t /\ LineApplied(i)
      BY <1>2, <2>2, <2>5, <3>1
    <3>3. m.num = AwaitedNum
      BY <1>0, <2>2, <3>2, OneOrderPerSlot, SlotFacts
    <3>4. m.kind = "Line"
      BY <1>0, <2>2, <3>2, <3>3 DEF LineApplied, Takes, Lines, Answerable, HistoryIsOld
    <3>5. EndsWait(m)
      BY <2>5, <3>3, <3>4 DEF EndsWait
    <3> QED
      BY <2>5, <3>5, EndsTheWait DEF Waiting
  <2> QED
    BY <2>3, <2>4, <2>5
<1>7. CancelWaits'
  <2> SUFFICES ASSUME main.pc = "cancelling", pending \notin {0, IntMax}, ~Ending',
                      orders'[byId[main.num]].cancelled
               PROVE  FALSE
    BY <1>0 DEF CancelWaits
  <2>1. /\ main.num \in Nums /\ byId[main.num] = ctx[main.num] /\ ctx[main.num] \in Slots
        /\ AwaitedNum = main.num
    BY <1>0, AwaitedFacts DEF AwaitedNum
  <2>2. ~orders[byId[main.num]].cancelled
    BY <1>0 DEF Answerable, CancelWaits, Ending
  <2>3. byId[main.num] = t /\ m.kind = "Cancel"
    BY <1>2, <2>1, <2>2
  <2>4. m.num = main.num
    BY <1>0, <2>1, <2>3, OneOrderPerSlot, SlotFacts
  <2>5. EndsWait(m)
    BY <2>1, <2>3, <2>4 DEF EndsWait, Final
  <2> QED
    BY <2>5, EndsTheWait DEF Waiting
<1> QED
  BY <1>4, <1>5, <1>6, <1>7 DEF Answerable

(* What the engine changes of the order it works on.                       *)
LEMMA EngineChanges ==
    ASSUME Reached, NEW n \in Nums, Engine(n)
    PROVE  /\ UNCHANGED <<main, pending, nextIndex, orders, byId, returned, cb, ctx>>
           /\ inbox \in Seq(Message) /\ exch \in [Nums -> ExchangeOrder] /\ exch[n].st # "none"
           /\ \E msgs \in Seq(Message) :
                /\ Speaks(n, exch[n], exch'[n], msgs) /\ Emit(msgs)
                /\ \A j \in 1..Len(msgs) : msgs[j].num = n /\ msgs[j].kind # "History"
           /\ \A k \in Nums : k # n => exch'[k] = exch[k]
           /\ exch[n].st \in Finished => exch'[n].st = exch[n].st
           /\ exch'[n] \in ExchangeOrder
<1>1. /\ inbox \in Seq(Message) /\ exch \in [Nums -> ExchangeOrder] /\ EngineTypeOK
      /\ Sound(exch[n]) /\ EngineStep(n)
      /\ UNCHANGED <<main, pending, nextIndex, orders, byId, returned, cb>>
  BY ReachedFacts DEF Inv, TypeOK, Truth, Engine
<1>2. UNCHANGED ctx
  BY <1>1 DEF EngineStep, Acknowledge, Refuse, Reject, Fill, Cancel, RefuseCancel, Announce
<1>3. PICK f \in ExchangeOrder, msgs \in Seq(Message) :
        /\ exch' = [exch EXCEPT ![n] = f]
        /\ Speaks(n, exch[n], f, msgs) /\ Emit(msgs)
        /\ \A j \in 1..Len(msgs) : msgs[j].num = n /\ msgs[j].kind # "History"
  BY <1>1, EngineSpeaks
<1>4. exch'[n] = f /\ \A k \in Nums : k # n => exch'[k] = exch[k]
  BY <1>1, <1>3
<1>5. exch[n].st # "none" /\ (exch[n].st \in Finished => exch'[n].st = exch[n].st)
  <2>1. PICK g \in ExchangeOrder : exch' = [exch EXCEPT ![n] = g] /\ Evolves(exch[n], g)
    BY <1>1, EngineGoesOn
  <2>2. exch'[n] = g
    BY <1>1, <2>1
  <2> QED
    BY <2>1, <2>2 DEF Evolves
<1> QED
  BY <1>1, <1>2, <1>3, <1>4, <1>5

LEMMA AnswerableOfEngine ==
    ASSUME Reached, Answerable, NEW n \in Nums, Engine(n)
    PROVE  Answerable'
<1>0. /\ UNCHANGED <<main, pending, nextIndex, orders, byId, returned, cb, ctx>>
      /\ inbox \in Seq(Message) /\ exch \in [Nums -> ExchangeOrder] /\ exch[n].st # "none"
      /\ \A k \in Nums : k # n => exch'[k] = exch[k]
      /\ Inv
  BY EngineChanges, ReachedFacts
<1>1. PICK msgs \in Seq(Message) :
        /\ Speaks(n, exch[n], exch'[n], msgs) /\ Emit(msgs)
        /\ \A j \in 1..Len(msgs) : msgs[j].num = n /\ msgs[j].kind # "History"
  BY EngineChanges
<1>2. /\ \A k \in 1..Len(inbox) : \E j \in 1..Len(inbox') : inbox'[j] = inbox[k]
      /\ \A k \in 1..Len(msgs) : \E j \in 1..Len(inbox') : inbox'[j] = msgs[k]
      /\ \A j \in 1..Len(inbox') : \/ \E k \in 1..Len(inbox) : inbox'[j] = inbox[k]
                                   \/ \E k \in 1..Len(msgs) : inbox'[j] = msgs[k]
  BY <1>0, <1>1, AlsoIn
<1>3. HistoryIsOld'
  BY <1>1, <1>2 DEF Answerable, HistoryIsOld
<1>4. NoneArmed'
  BY <1>0 DEF Answerable, NoneArmed
<1>5. Uncancelled'
  <2> SUFFICES ASSUME NEW k \in Nums, byId[k] = NoSlot
               PROVE  /\ exch'[k].cancels = 0
                      /\ k \in OldNums \cup {OneNum} =>
                           \/ exch'[k].st = "none"
                           \/ exch'[k].rests /\ exch'[k].st \notin {"Cancel", "PFBC"}
    BY <1>0 DEF Uncancelled
  <2>1. /\ exch[k].cancels = 0
        /\ k \in OldNums \cup {OneNum} =>
             exch[k].st = "none" \/ (exch[k].rests /\ exch[k].st \notin {"Cancel", "PFBC"})
    BY DEF Answerable, Uncancelled
  <2>2. CASE k # n
    BY <1>0, <2>1, <2>2
  <2>3. CASE k = n
    BY <1>0, <1>1, <2>1, <2>3 DEF Speaks
  <2> QED
    BY <2>2, <2>3
<1>6. ASSUME NEW k \in Nums
      PROVE  CancelHeard(k)'
  <2> SUFFICES ASSUME Hears(k), exch'[k].st \in {"Cancel", "PFBC"}
               PROVE  orders[ctx[k]].cancelled \/ CancelIn(k)'
    BY <1>0 DEF CancelHeard, Hears
  <2>1. CASE exch'[k].st = exch[k].st
    <3>1. orders[ctx[k]].cancelled \/ CancelIn(k)
      BY <2>1 DEF Answerable, CancelHeard
    <3> QED
      BY <1>2, <3>1 DEF CancelIn
  <2>2. CASE exch'[k].st # exch[k].st
    <3>1. k = n
      BY <1>0, <2>2
    <3>2. PICK j \in 1..Len(msgs) : msgs[j].kind = "Cancel"
      BY <1>1, <2>2, <3>1 DEF Speaks
    <3> QED
      BY <1>1, <1>2, <3>1, <3>2 DEF CancelIn
  <2> QED
    BY <2>1, <2>2
<1>7. SendWaits'
  <2>1. main.pc = "buying" => AwaitedNum \in Nums
    BY <1>0, SlotFacts DEF Inv, CallOK, Sending, AwaitedNum
  <2>2. \A k \in Nums : exch'[k].rests = exch[k].rests
    BY <1>0, <1>1 DEF Speaks
  <2> QED
    BY <1>0, <2>1, <2>2 DEF Answerable, SendWaits, AwaitedNum, AwaitsAnyLine, Ending
<1>8. CancelWaits'
  BY <1>0 DEF Answerable, CancelWaits, Ending
<1> QED
  BY <1>3, <1>4, <1>5, <1>6, <1>7, <1>8 DEF Answerable

(* Zorro's thread makes a call, or goes on.                                *)
LEMMA AnswerableFrame ==
    ASSUME Answerable, HistoryIsOld', NoneArmed', SendWaits', CancelWaits',
           \A n \in Nums : CancelIn(n) => CancelIn(n)',
           \A n \in Nums : byId'[n] = NoSlot =>
              byId[n] = NoSlot /\ exch'[n].cancels = exch[n].cancels,
           \A n \in Nums :
              \/ exch'[n].st = exch[n].st /\ exch'[n].rests = exch[n].rests
              \/ exch'[n].st = "sent" /\ n \notin OldNums \cup {OneNum},
           \A n \in Nums : Hears(n)' =>
              \/ Hears(n) /\ orders'[ctx'[n]].cancelled = orders[ctx[n]].cancelled
              \/ exch'[n].st = "sent"
    PROVE  Answerable'
<1>1. Uncancelled'
  BY DEF Answerable, Uncancelled
<1>2. \A n \in Nums : CancelHeard(n)'
  BY DEF Answerable, CancelHeard
<1> QED
  BY <1>1, <1>2 DEF Answerable

(* An order is given a slot of its own.                                    *)
LEMMA HeardByNewSlot ==
    ASSUME Inv, nextIndex \in Slots, NEW o, orders' = [orders EXCEPT ![nextIndex] = o],
           NEW n \in Nums, ctx' = [ctx EXCEPT ![n] = nextIndex]
    PROVE  /\ orders'[nextIndex] = o
           /\ \A s \in Slots : s # nextIndex => orders'[s] = orders[s]
           /\ ctx'[n] = nextIndex
           /\ \A k \in Nums : k # n /\ Hears(k)' =>
                Hears(k) /\ orders'[ctx'[k]].cancelled = orders[ctx[k]].cancelled
<1>1. orders \in [Slots -> Order] /\ ctx \in [Nums -> Slots \cup {NoSlot}]
  BY DEF Inv, TypeOK, EngineTypeOK
<1>2. orders'[nextIndex] = o /\ \A s \in Slots : s # nextIndex => orders'[s] = orders[s]
  BY <1>1
<1>3. ctx'[n] = nextIndex /\ \A k \in Nums : k # n => ctx'[k] = ctx[k]
  BY <1>1
<1>4. \A k \in Nums : ctx[k] # NoSlot => ctx[k] \in Slots /\ ctx[k] # nextIndex
  BY <1>1, SlotFacts DEF Inv, CtxOK
<1> QED
  BY <1>2, <1>3, <1>4 DEF Hears

LEMMA AnswerableOfSend ==
    ASSUME Reached, Answerable, Undisturbed, NEW r \in Requests, SendOrder(r)
    PROVE  Answerable' /\ (main'.pc = "buying" /\ exch'[AwaitedNum'].st = "sent")
<1> DEFINE n == OrderNum(nextIndex)
           o == NewOrder(Tag(n), 0, r.limit, r.lasting)
<1>0. /\ Inv /\ nextIndex \in Slots /\ n \in Nums /\ n \notin OldNums \cup {OneNum}
      /\ exch \in [Nums -> ExchangeOrder]
  BY ReachedFacts, SlotFacts DEF SendOrder
<1>1. /\ orders' = [orders EXCEPT ![nextIndex] = o] /\ UNCHANGED <<byId, inbox>>
      /\ main' = [Idle EXCEPT !.pc = "buying", !.slot = nextIndex]
      /\ exch' = [exch EXCEPT ![n].st = "sent", ![n].rests = r.limit /\ r.lasting]
      /\ ctx' = [ctx EXCEPT ![n] = nextIndex]
  BY DEF SendOrder, EngineMayFail, Undisturbed
<1>2. o.limit = r.limit /\ o.lasting = r.lasting /\ o.ts = 0 /\ ~o.armed
  BY DEF NewOrder
<1> HIDE DEF o
<1>3. /\ orders'[nextIndex] = o
      /\ \A s \in Slots : s # nextIndex => orders'[s] = orders[s]
      /\ \A k \in Nums : k # n /\ Hears(k)' =>
           Hears(k) /\ orders'[ctx'[k]].cancelled = orders[ctx[k]].cancelled
  BY <1>0, <1>1, HeardByNewSlot
<1>4. /\ exch'[n].st = "sent" /\ exch'[n].rests = (r.limit /\ r.lasting)
      /\ \A k \in Nums : exch'[k].cancels = exch[k].cancels
      /\ \A k \in Nums : k # n => exch'[k] = exch[k]
  BY <1>0, <1>1 DEF ExchangeOrder
<1>5. main'.pc = "buying" /\ main'.slot = nextIndex /\ AwaitedNum' = n
  <2>1. main'.pc = "buying" /\ main'.slot = nextIndex
    BY <1>1 DEF Idle
  <2> QED
    BY <2>1 DEF AwaitedNum
<1>6. HistoryIsOld' /\ NoneArmed'
  BY <1>1, <1>2, <1>3 DEF Answerable, HistoryIsOld, NoneArmed
<1>7. SendWaits' /\ CancelWaits'
  BY <1>2, <1>3, <1>4, <1>5 DEF SendWaits, CancelWaits
<1> QED
  BY <1>0, <1>1, <1>3, <1>4, <1>5, <1>6, <1>7, AnswerableFrame DEF CancelIn

LEMMA AnswerableOfRetrieve ==
    ASSUME Reached, Answerable, Undisturbed, NEW n \in Nums, RetrieveOrder(n)
    PROVE  /\ Answerable' /\ main'.pc = "retrieving" /\ main'.num = n
           /\ \E i \in 1..Len(inbox') : inbox'[i].num = n /\ inbox'[i].kind = "ReplayEnd"
<1> DEFINE o == NewOrder(0, n, FALSE, FALSE)
           msgs == ReplayOf(n)
<1>0. /\ Inv /\ nextIndex \in Slots /\ EngineTypeOK /\ inbox \in Seq(Message)
  BY ReachedFacts, SlotFacts DEF RetrieveOrder, Inv, TypeOK
<1>1. /\ orders' = [orders EXCEPT ![nextIndex] = o] /\ UNCHANGED <<byId, exch>>
      /\ main' = [Idle EXCEPT !.pc = "retrieving", !.slot = nextIndex, !.num = n]
      /\ ctx' = [ctx EXCEPT ![n] = nextIndex] /\ Emit(msgs)
  BY DEF RetrieveOrder, EngineMayFail, Undisturbed
<1>2. o.cid = 0 /\ ~o.armed
  BY DEF NewOrder
<1>3. main'.pc = "retrieving" /\ main'.num = n
  BY <1>1 DEF Idle
<1>4. n \in OldNums \cup {OneNum}
  BY <1>3, RetrieveKeeps DEF Registered
<1>5. msgs \in Seq(Message) /\ \A j \in 1..Len(msgs) : msgs[j].num = n
  BY <1>0, ReplaySays
<1>6. \E j \in 1..Len(msgs) : msgs[j].kind = "ReplayEnd"
  <2> DEFINE line == Line("History", n, exch[n], Reason(exch[n]))
             end == Report("ReplayEnd", n, 0)
  <2>1. end.kind = "ReplayEnd"
    BY DEF Report
  <2>2. msgs = <<end>> \/ msgs = <<line, end>>
    BY DEF ReplayOf
  <2> HIDE DEF line, end, msgs
  <2>3. CASE msgs = <<end>>
    <3>1. Len(msgs) = 1 /\ msgs[1] = end
      BY <2>3
    <3> QED
      BY <2>1, <3>1
  <2>4. CASE msgs = <<line, end>>
    <3>1. Len(msgs) = 2 /\ msgs[2] = end
      BY <2>4
    <3> QED
      BY <2>1, <3>1
  <2> QED
    BY <2>2, <2>3, <2>4
<1> HIDE DEF o, msgs
<1>7. /\ \A k \in 1..Len(inbox) : \E j \in 1..Len(inbox') : inbox'[j] = inbox[k]
      /\ \A k \in 1..Len(msgs) : \E j \in 1..Len(inbox') : inbox'[j] = msgs[k]
      /\ \A j \in 1..Len(inbox') : \/ \E k \in 1..Len(inbox) : inbox'[j] = inbox[k]
                                   \/ \E k \in 1..Len(msgs) : inbox'[j] = msgs[k]
  BY <1>0, <1>1, <1>5, AlsoIn
<1>8. /\ orders'[nextIndex] = o /\ ctx'[n] = nextIndex
      /\ \A s \in Slots : s # nextIndex => orders'[s] = orders[s]
      /\ \A k \in Nums : k # n /\ Hears(k)' =>
           Hears(k) /\ orders'[ctx'[k]].cancelled = orders[ctx[k]].cancelled
  BY <1>0, <1>1, HeardByNewSlot
<1>9. ~Hears(n)'
  <2>1. Tag(n) > IntMax /\ IntMax \in Nat
    BY TagFacts, NumAssumption
  <2>2. Tag(n) # 0
    BY <2>1
  <2> QED
    BY <1>2, <1>8, <2>2 DEF Hears
<1>10. HistoryIsOld' /\ NoneArmed'
  <2>1. NoneArmed'
    BY <1>2, <1>8 DEF Answerable, NoneArmed
  <2>2. ASSUME NEW i \in 1..Len(inbox'), inbox'[i].kind = "History"
        PROVE  inbox'[i].num \in OldNums \cup {OneNum}
    <3>1. CASE \E k \in 1..Len(inbox) : inbox'[i] = inbox[k]
      BY <2>2, <3>1 DEF Answerable, HistoryIsOld
    <3>2. CASE \E k \in 1..Len(msgs) : inbox'[i] = msgs[k]
      BY <1>4, <1>5, <3>2
    <3> QED
      BY <1>7, <3>1, <3>2
  <2> QED
    BY <2>1, <2>2 DEF HistoryIsOld
<1>11. SendWaits' /\ CancelWaits'
  BY <1>3 DEF SendWaits, CancelWaits
<1>12. \A k \in Nums : CancelIn(k) => CancelIn(k)'
  BY <1>7 DEF CancelIn
<1>13. \A k \in Nums : Hears(k)' =>
         Hears(k) /\ orders'[ctx'[k]].cancelled = orders[ctx[k]].cancelled
  BY <1>8, <1>9
<1>14. \E i \in 1..Len(inbox') : inbox'[i].num = n /\ inbox'[i].kind = "ReplayEnd"
  BY <1>5, <1>6, <1>7
<1>15. Answerable'
  BY <1>1, <1>10, <1>11, <1>12, <1>13, AnswerableFrame
<1> QED
  BY <1>3, <1>14, <1>15

LEMMA AnswerableOfRestore ==
    ASSUME Reached, Answerable, Undisturbed, NEW n \in Nums, OpenOrderReplay(n)
    PROVE  Answerable'
<1> DEFINE o == [NewOrder(RestoredId(n), n, FALSE, TRUE) EXCEPT !.exec = exch[n].filled]
<1>0. Inv /\ nextIndex \in Slots
  BY ReachedFacts, SlotFacts DEF OpenOrderReplay
<1>1. /\ orders' = [orders EXCEPT ![nextIndex] = o] /\ UNCHANGED <<main, byId, exch, inbox>>
      /\ ctx' = [ctx EXCEPT ![n] = nextIndex] /\ main.pc = "login"
  BY DEF OpenOrderReplay, EngineMayFail, Undisturbed
<1>2. o.cid = RestoredId(n) /\ ~o.armed
  BY DEF NewOrder
<1> HIDE DEF o
<1>3. /\ orders'[nextIndex] = o /\ ctx'[n] = nextIndex
      /\ \A s \in Slots : s # nextIndex => orders'[s] = orders[s]
      /\ \A k \in Nums : k # n /\ Hears(k)' =>
           Hears(k) /\ orders'[ctx'[k]].cancelled = orders[ctx[k]].cancelled
  BY <1>0, <1>1, HeardByNewSlot
<1>4. ~Hears(n)'
  <2>1. Tag(n) > IntMax /\ RestoredId(n) = IntMax /\ IntMax \in Nat
    BY TagFacts, RestoredFacts, NumAssumption
  <2>2. Tag(n) # RestoredId(n)
    BY <2>1
  <2> QED
    BY <1>2, <1>3, <2>2 DEF Hears
<1>5. HistoryIsOld' /\ NoneArmed' /\ SendWaits' /\ CancelWaits'
  BY <1>1, <1>2, <1>3
  DEF Answerable, HistoryIsOld, NoneArmed, SendWaits, CancelWaits
<1>6. \A k \in Nums : Hears(k)' =>
        Hears(k) /\ orders'[ctx'[k]].cancelled = orders[ctx[k]].cancelled
  BY <1>3, <1>4
<1> QED
  BY <1>1, <1>5, <1>6, AnswerableFrame DEF CancelIn

LEMMA AnswerableOfCancel ==
    ASSUME Reached, Handshake, Answerable, Undisturbed, SendCancel
    PROVE  /\ Answerable' /\ main'.pc = "cancelling"
           /\ exch'[AwaitedNum'].cancels > 0
<1>0. /\ Inv /\ exch \in [Nums -> ExchangeOrder] /\ main \in MainStates
      /\ ctx \in [Nums -> Slots \cup {NoSlot}]
      /\ main.pc = "cancel" /\ main.num \in Nums /\ byId[main.num] # NoSlot
      /\ ctx[main.num] = byId[main.num]
  BY ReachedFacts
  DEF SendCancel, Inv, CallOK, RegisteredIsHeard, ContextRefused, EngineMayFail, Undisturbed
<1>1. /\ main' = [main EXCEPT !.pc = "cancelling"]
      /\ exch' = [exch EXCEPT ![main.num].cancels = @ + 1, ![main.num].asked = TRUE]
      /\ ctx' = [ctx EXCEPT ![main.num] = byId[main.num]]
      /\ UNCHANGED <<orders, byId, inbox>> /\ ~orders[byId[main.num]].cancelled
  BY DEF SendCancel, EngineMayFail, Undisturbed
<1>2. /\ \A k \in Nums : exch'[k].st = exch[k].st /\ exch'[k].rests = exch[k].rests
      /\ \A k \in Nums : k # main.num => exch'[k] = exch[k]
      /\ exch'[main.num].cancels > 0
  BY <1>0, <1>1 DEF ExchangeOrder
<1>3. \A k \in Nums : ctx'[k] = ctx[k]
  BY <1>0, <1>1
<1>4. main'.pc = "cancelling" /\ main'.num = main.num
  BY <1>0, <1>1 DEF MainStates
<1>5. AwaitedNum' = main.num
  BY <1>4 DEF AwaitedNum
<1>6. HistoryIsOld' /\ NoneArmed' /\ SendWaits' /\ CancelWaits'
  BY <1>1, <1>4 DEF Answerable, HistoryIsOld, NoneArmed, SendWaits, CancelWaits
<1>7. Answerable'
  <2>1. \A k \in Nums : Hears(k)' =>
          Hears(k) /\ orders'[ctx'[k]].cancelled = orders[ctx[k]].cancelled
    BY <1>1, <1>3 DEF Hears
  <2>2. \A k \in Nums : CancelIn(k) => CancelIn(k)'
    BY <1>1 DEF CancelIn
  <2>3. \A k \in Nums : byId'[k] = NoSlot =>
          byId[k] = NoSlot /\ exch'[k].cancels = exch[k].cancels
    BY <1>0, <1>1, <1>2
  <2> QED
    BY <1>2, <1>6, <2>1, <2>2, <2>3, AnswerableFrame
<1> QED
  BY <1>2, <1>4, <1>5, <1>7

(* A call that returns, and one that is only begun, await nothing.         *)
LEMMA AnswerableOfReturn ==
    ASSUME Reached, Handshake, Answerable,
           \/ Login \/ FinishSend \/ CancelNothing \/ FinishCancel \/ FinishRetrieve
           \/ \E n \in Nums : DoCancel(n)
    PROVE  Answerable' /\ main'.pc \in {"idle", "cancel"}
<1>0. /\ Inv /\ main.then = "idle" /\ main.pc \notin {"timeout", "clear"}
      /\ byId \in [Nums -> Slots \cup {NoSlot}]
  BY ReachedFacts DEF Handshake, OnlyWaiting
<1>1. main'.pc \in {"idle", "cancel"} /\ UNCHANGED <<orders, ctx, exch, inbox>>
  <2>1. CASE Login \/ FinishSend \/ CancelNothing \/ FinishCancel \/ FinishRetrieve
    <3>1. main' = Idle
      BY <1>0, <2>1 DEF Login, FinishSend, CancelNothing, FinishCancel, FinishRetrieve,
                        Retrieved, Return
    <3>2. UNCHANGED <<orders, ctx, exch, inbox>>
      BY <2>1 DEF Login, FinishSend, CancelNothing, FinishCancel, FinishRetrieve, Retrieved
    <3> QED
      BY <3>1, <3>2 DEF Idle
  <2>2. CASE \E n \in Nums : DoCancel(n)
    BY <2>2 DEF DoCancel, Idle
  <2> QED
    BY <2>1, <2>2
<1>2. \A n \in Nums : byId'[n] = NoSlot => byId[n] = NoSlot
  <2>1. CASE Login
    BY <1>0, <2>1 DEF Login, Inv, FreshOK, LoginBooks
  <2>2. CASE FinishSend
    <3>1. main.slot \in Slots /\ byId'\in {byId, [byId EXCEPT ![orders[main.slot].num] = main.slot]}
      BY <1>0, <2>2 DEF FinishSend, Inv, CallOK, Sending
    <3> QED
      BY <1>0, <3>1, SlotFacts
  <2>3. CASE FinishRetrieve
    <3>1. main.slot \in Slots /\ byId'\in {byId, [byId EXCEPT ![orders[main.slot].num] = main.slot]}
      BY <1>0, <2>3 DEF FinishRetrieve, Retrieved, Inv, CallOK, Retrieving
    <3> QED
      BY <1>0, <3>1, SlotFacts
  <2>4. CASE CancelNothing \/ FinishCancel \/ \E n \in Nums : DoCancel(n)
    BY <2>4 DEF CancelNothing, FinishCancel, DoCancel
  <2> QED
    BY <2>1, <2>2, <2>3, <2>4
<1>3. HistoryIsOld' /\ NoneArmed' /\ SendWaits' /\ CancelWaits'
  BY <1>1 DEF Answerable, HistoryIsOld, NoneArmed, SendWaits, CancelWaits
<1>4. Answerable'
  BY <1>1, <1>2, <1>3, AnswerableFrame DEF CancelIn, Hears
<1> QED
  BY <1>1, <1>4

(* The callback thread, once about to end the wait, goes on to end it.     *)
LEMMA AnswerableOfTest ==
    ASSUME Reached, Answerable, Test \/ Reset \/ UNCHANGED vars
    PROVE  /\ Answerable'
           /\ UNCHANGED <<main, orders, byId, ctx, exch, inbox>>
           /\ pending' = 0 \/ (pending' = pending /\ (Ending => Ending'))
<1>1. UNCHANGED <<main, orders, byId, ctx, exch, inbox>>
  BY DEF Test, Reset, vars
<1>2. pending' = 0 \/ (pending' = pending /\ (Ending => Ending'))
  <2>1. CASE Test
    <3>1. cb \in CallbackStates /\ pending' = pending /\ cb.pc = "test"
      BY <2>1, ReachedFacts DEF Test, Inv, TypeOK
    <3>2. Ending => cb' = [cb EXCEPT !.pc = "reset"]
      BY <2>1 DEF Test, PassesTest, Ending
    <3> QED
      BY <3>1, <3>2 DEF Ending, CallbackStates
  <2>2. CASE Reset
    BY <2>2 DEF Reset
  <2>3. CASE UNCHANGED vars
    BY <2>3 DEF vars, Ending
  <2> QED
    BY <2>1, <2>2, <2>3
<1>3. SendWaits' /\ CancelWaits'
  BY <1>1, <1>2 DEF Answerable, SendWaits, CancelWaits, AwaitedNum, AwaitsAnyLine
<1>4. HistoryIsOld' /\ NoneArmed'
  BY <1>1 DEF Answerable, HistoryIsOld, NoneArmed
<1>5. Answerable'
  BY <1>1, <1>3, <1>4, AnswerableFrame DEF CancelIn, Hears
<1> QED
  BY <1>1, <1>2, <1>5

-----------------------------------------------------------------------------
(* An answer that is owed stays owed until it comes. *)

(* A call asks, and the engine owes the answer.                            *)
LEMMA OwedOfCall ==
    ASSUME Reached, Handshake, Answerable, Undisturbed, Call \/ Proceed \/ GiveUp
    PROVE  Answerable' /\ WaitIsOwed'
<1>1. CASE \E r \in Requests : SendOrder(r)
  <2>1. Answerable' /\ main'.pc = "buying" /\ exch'[AwaitedNum'].st = "sent"
    BY <1>1, AnswerableOfSend
  <2> QED
    BY <2>1 DEF WaitIsOwed, AnswerOwed, Owing
<1>2. ASSUME NEW n \in Nums, RetrieveOrder(n)
      PROVE  Answerable' /\ WaitIsOwed'
  <2>1. /\ Answerable' /\ main'.pc = "retrieving" /\ main'.num = n
        /\ \E i \in 1..Len(inbox') : inbox'[i].num = n /\ inbox'[i].kind = "ReplayEnd"
    BY <1>2, AnswerableOfRetrieve
  <2> QED
    BY <2>1 DEF WaitIsOwed, EndsWait, AwaitedNum
<1>3. CASE SendCancel
  <2>1. Answerable' /\ main'.pc = "cancelling" /\ exch'[AwaitedNum'].cancels > 0
    BY <1>3, AnswerableOfCancel
  <2> QED
    BY <2>1 DEF WaitIsOwed, AnswerOwed
<1>4. CASE \/ Login \/ FinishSend \/ CancelNothing \/ FinishCancel \/ FinishRetrieve
           \/ \E n \in Nums : DoCancel(n)
  <2>1. Answerable' /\ main'.pc \in {"idle", "cancel"}
    BY <1>4, AnswerableOfReturn
  <2> QED
    BY <2>1 DEF WaitIsOwed, Waiting
<1>5. ASSUME NEW n \in Nums, OpenOrderReplay(n)
      PROVE  Answerable' /\ WaitIsOwed'
  <2>1. Answerable' /\ main'.pc = "login"
    BY <1>5, AnswerableOfRestore DEF OpenOrderReplay
  <2> QED
    BY <2>1 DEF WaitIsOwed, Waiting
<1>6. ~(CancelTimedOut \/ ReturnTimedOut \/ AbortSend \/ TimeOut \/ AbortCancel \/ AbortRetrieve)
  BY DEF CancelTimedOut, ReturnTimedOut, AbortSend, TimeOut, AbortCancel, AbortRetrieve,
         Handshake, OnlyWaiting, Undisturbed
<1> QED
  BY <1>1, <1>2, <1>3, <1>4, <1>5, <1>6 DEF Call, Proceed, GiveUp

EndComes == \E i \in 1..Len(inbox) : EndsWait(inbox[i])

LEMMA EndIsIn ==
    ASSUME UNCHANGED main, AwaitedNum' = AwaitedNum, AwaitsAnyLine' <=> AwaitsAnyLine,
           NEW m, EndsWait(m), NEW j \in 1..Len(inbox'), inbox'[j] = m
    PROVE  EndComes'
<1>1. EndsWait(inbox[j])'
  BY DEF EndsWait, Final
<1> QED
  BY <1>1 DEF EndComes

LEMMA OwedOfHandler ==
    ASSUME Reached, Handshake, Answerable, WaitIsOwed, NEW i \in Deliverable, Handle(i)
    PROVE  WaitIsOwed'
<1>0. /\ Inv /\ NoneArmed /\ UNCHANGED <<main, pending, byId, ctx, exch>> /\ cb.pc = "idle"
      /\ inbox \in Seq(Message) /\ \E kinds : Takes(i, kinds)
      /\ \A s \in Slots : orders'[s].limit = orders[s].limit /\ orders'[s].lasting = orders[s].lasting
  BY ReachedFacts, HandlerBrings DEF Answerable
<1> SUFFICES ASSUME main.pc \in Waiting, pending # 0, main.pc = "cancelling" => pending # IntMax
             PROVE  \/ Ending' \/ EndComes' \/ AnswerOwed'
                    \/ "NotCancelled" \in Refusals /\ RefusedAtExchange'
  BY <1>0 DEF WaitIsOwed, Ending, EndComes
<1>1. AwaitedNum' = AwaitedNum /\ (AwaitsAnyLine' <=> AwaitsAnyLine)
  <2>1. main.pc = "buying" => main.slot \in Slots
    BY <1>0 DEF Inv, CallOK, Sending
  <2> QED
    BY <1>0, <2>1 DEF AwaitedNum, AwaitsAnyLine
<1>2. (AnswerOwed => AnswerOwed') /\ (RefusedAtExchange => RefusedAtExchange')
  BY <1>0, <1>1 DEF AnswerOwed, Owing, RefusedAtExchange
<1>3. ASSUME NEW k \in 1..Len(inbox), EndsWait(inbox[k])
      PROVE  Ending' \/ EndComes'
  <2>1. CASE k = i
    BY <1>3, <2>1, EndsTheWait
  <2>2. CASE k # i
    <3>1. PICK j \in 1..Len(inbox') : inbox'[j] = inbox[k]
      BY <1>0, <2>2, StillIn
    <3> QED
      BY <1>0, <1>1, <1>3, <3>1, EndIsIn
  <2> QED
    BY <2>1, <2>2
<1> QED
  BY <1>0, <1>2, <1>3 DEF WaitIsOwed

(* What the engine owed it owes still, or it has queued the answer.        *)
LEMMA OwedOfEngine ==
    ASSUME Reached, Answerable, WaitIsOwed, NEW n \in Nums, Engine(n)
    PROVE  WaitIsOwed'
<1>0. /\ UNCHANGED <<main, pending, nextIndex, orders, byId, returned, cb, ctx>>
      /\ inbox \in Seq(Message) /\ exch \in [Nums -> ExchangeOrder]
      /\ \A k \in Nums : k # n => exch'[k] = exch[k]
      /\ exch[n].st \in Finished => exch'[n].st = exch[n].st
      /\ Inv /\ exch'[n] \in ExchangeOrder
  BY EngineChanges, ReachedFacts
<1>1. PICK msgs \in Seq(Message) :
        /\ Speaks(n, exch[n], exch'[n], msgs) /\ Emit(msgs)
        /\ \A j \in 1..Len(msgs) : msgs[j].num = n /\ msgs[j].kind # "History"
  BY EngineChanges
<1>2. /\ \A k \in 1..Len(inbox) : \E j \in 1..Len(inbox') : inbox'[j] = inbox[k]
      /\ \A k \in 1..Len(msgs) : \E j \in 1..Len(inbox') : inbox'[j] = msgs[k]
  BY <1>0, <1>1, AlsoIn
<1> SUFFICES ASSUME main.pc \in Waiting, pending # 0, main.pc = "cancelling" => pending # IntMax,
                    ~Ending, ~EndComes'
             PROVE  AnswerOwed' \/ ("NotCancelled" \in Refusals /\ RefusedAtExchange')
  BY <1>0 DEF WaitIsOwed, Ending, EndComes
<1>3. AwaitedNum' = AwaitedNum /\ (AwaitsAnyLine' <=> AwaitsAnyLine)
  BY <1>0 DEF AwaitedNum, AwaitsAnyLine
<1>4. /\ \A k \in 1..Len(inbox) : ~EndsWait(inbox[k])
      /\ \A k \in 1..Len(msgs) : ~EndsWait(msgs[k])
  BY <1>0, <1>2, <1>3, EndIsIn
<1>5. AnswerOwed \/ ("NotCancelled" \in Refusals /\ RefusedAtExchange)
  BY <1>4 DEF WaitIsOwed, Ending
<1>6. main.pc \in {"buying", "cancelling"}
  BY <1>5 DEF AnswerOwed, RefusedAtExchange, Waiting
<1>7. PICK s \in Slots, a \in Nums :
        /\ a = AwaitedNum /\ ctx[a] = s /\ orders[s].cid = Tag(a)
        /\ main.pc = "buying" => s = main.slot /\ a = OrderNum(s)
        /\ main.pc = "cancelling" => a = main.num /\ s = byId[a]
  BY <1>0, <1>6, AwaitedFacts
<1>8. CASE n # a
  <2>1. exch'[a] = exch[a]
    BY <1>0, <1>8
  <2> QED
    BY <1>0, <1>3, <1>5, <1>6, <1>7, <2>1 DEF AnswerOwed, RefusedAtExchange, Owing
<1>9. CASE n = a
  <2>1. \A k \in 1..Len(msgs) : ~Final(msgs[k]) /\ (AwaitsAnyLine => msgs[k].kind # "Line")
    BY <1>1, <1>4, <1>6, <1>7, <1>9 DEF EndsWait
  <2>2. /\ exch'[a].rests = exch[a].rests
        /\ exch[a].cancels = 0 => exch'[a].cancels = 0
        /\ \/ exch'[a].st = exch[a].st
           \/ exch[a].st = "sent" /\ exch'[a].st = "open" /\ ~AwaitsAnyLine
        /\ \/ exch'[a].cancels = exch[a].cancels
           \/ exch[a].st \in Finished /\ "NotCancelled" \in Refusals
        /\ exch[a].cancels \in Nat /\ exch'[a].cancels \in Nat
    BY <1>0, <1>1, <1>9, <2>1 DEF Speaks, ExchangeOrder
  <2>3. CASE main.pc = "buying"
    <3>1. /\ byId[a] = NoSlot
          /\ exch[a].rests = (orders[s].limit /\ orders[s].lasting)
          /\ AwaitsAnyLine <=> (orders[s].limit /\ orders[s].lasting)
      BY <1>0, <1>7, <2>3 DEF Inv, CallOK, Sending, Answerable, SendWaits, AwaitsAnyLine
    <3>2. exch[a].cancels = 0
      BY <3>1 DEF Answerable, Uncancelled
    <3>3. exch[a].st = "sent" \/ (exch[a].st = "open" /\ ~exch[a].rests)
      BY <1>5, <1>7, <2>3, <3>2 DEF AnswerOwed, RefusedAtExchange, Owing
    <3>4. exch'[a].st = "sent" \/ (exch'[a].st = "open" /\ ~exch'[a].rests)
      BY <2>2, <3>1, <3>3
    <3> QED
      BY <1>0, <1>3, <1>7, <2>3, <3>4 DEF AnswerOwed, Owing
  <2>4. CASE main.pc = "cancelling"
    <3>1. CASE exch'[a].cancels > 0
      BY <1>0, <1>3, <1>7, <2>4, <3>1 DEF AnswerOwed
    <3>2. CASE ~(exch'[a].cancels > 0)
      <4>1. exch'[a].cancels = 0
        BY <2>2, <3>2
      <4>2. exch[a].st \in Finished /\ exch'[a].st = exch[a].st /\ "NotCancelled" \in Refusals
        BY <1>0, <1>5, <1>7, <1>9, <2>2, <2>4, <4>1 DEF AnswerOwed, RefusedAtExchange
      <4>3. exch[a].st \notin {"Cancel", "PFBC"}
        <5> SUFFICES ASSUME exch[a].st \in {"Cancel", "PFBC"} PROVE FALSE
          OBVIOUS
        <5>1. Hears(a)
          BY <1>7, SlotFacts DEF Hears
        <5>2. orders[s].cancelled \/ CancelIn(a)
          BY <1>7, <5>1 DEF Answerable, CancelHeard
        <5>3. ~orders[s].cancelled
          BY <1>7, <2>4 DEF Answerable, CancelWaits
        <5>4. PICK k \in 1..Len(inbox) : inbox[k].num = a /\ inbox[k].kind = "Cancel"
          BY <5>2, <5>3 DEF CancelIn
        <5>5. EndsWait(inbox[k])
          BY <1>7, <2>4, <5>4 DEF EndsWait, Final
        <5> QED
          BY <1>4, <5>5
      <4> QED
        BY <1>0, <1>7, <2>4, <4>1, <4>2, <4>3 DEF RefusedAtExchange
    <3> QED
      BY <3>1, <3>2
  <2> QED
    BY <1>6, <2>3, <2>4
<1> QED
  BY <1>8, <1>9

LEMMA OwedStep ==
    ASSUME Reached, Handshake, Answerable, WaitIsOwed, Undisturbed, [Next]_vars
    PROVE  Answerable' /\ WaitIsOwed'
<1>1. CASE Call \/ Proceed \/ GiveUp
  BY <1>1, OwedOfCall
<1>2. CASE \E i \in Deliverable : Handle(i)
  BY <1>2, AnswerableOfHandler, OwedOfHandler
<1>3. CASE \E n \in Nums : Engine(n)
  BY <1>3, AnswerableOfEngine, OwedOfEngine
<1>4. CASE Test \/ Reset \/ UNCHANGED vars
  <2>1. /\ Answerable'
        /\ UNCHANGED <<main, orders, byId, ctx, exch, inbox>>
        /\ pending' = 0 \/ (pending' = pending /\ (Ending => Ending'))
    BY <1>4, AnswerableOfTest
  <2>2. EndComes => EndComes'
    BY <2>1 DEF EndComes, EndsWait, AwaitedNum, AwaitsAnyLine, Final
  <2>3. (AnswerOwed => AnswerOwed') /\ (RefusedAtExchange => RefusedAtExchange')
    BY <2>1 DEF AnswerOwed, AwaitedNum, Owing, RefusedAtExchange
  <2> QED
    BY <2>1, <2>2, <2>3 DEF WaitIsOwed, Ending, EndComes
<1> QED
  BY <1>1, <1>2, <1>3, <1>4 DEF Next, Callback

LEMMA OwedInit == Init => Answerable /\ WaitIsOwed
<1> SUFFICES ASSUME Init PROVE Answerable /\ WaitIsOwed
  OBVIOUS
<1>1. /\ main.pc = "login" /\ inbox = << >>
      /\ \A s \in Slots : ~orders[s].armed
      /\ \A n \in Nums : ctx[n] = NoSlot
  BY DEF Init, EngineInit, Idle, NewOrder
<1>2. \A n \in Nums : /\ exch[n].cancels = 0
                      /\ exch[n].st = "none" \/ (exch[n].st = "open" /\ exch[n].rests)
  BY DEF Init, EngineInit, NoExchangeOrder
<1> QED
  BY <1>1, <1>2
  DEF Answerable, HistoryIsOld, NoneArmed, Uncancelled, CancelHeard, Hears, SendWaits,
      CancelWaits, WaitIsOwed, Waiting

(* No answer is lost: a call of Zorro's thread that waits is about to go   *)
(* on, or a callback that lets it go on is under way, or the engine owes   *)
(* one, unless it is a cancelOrder that was answered by the                *)
(* NotCancelledReport, which releases nobody, or whose order login         *)
(* restored. Callbacks may overtake each other.                            *)
THEOREM NoAnswerIsLost ==
    ASSUME Undisturbed
    PROVE  Spec => []WaitIsOwed
<1>1. Reached /\ Handshake /\ Answerable /\ WaitIsOwed /\ [Next]_vars
        => Answerable' /\ WaitIsOwed'
  BY OwedStep
<1> QED
  BY <1>1, OwedInit, ReachedInvariance, HandshakeInvariance, PTL DEF Spec
=============================================================================
