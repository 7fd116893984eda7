----------------------------- MODULE OrderFlow -----------------------------
(***************************************************************************)
(* Orders of the plugin: src/src/client_order.cpp with BrokerBuy2,         *)
(* BrokerTrade and DO_CANCEL of src/src/rithmic_zorro_plugin.cpp.          *)
(*                                                                         *)
(* Two threads share the slots of orders_ (atomic<shared_ptr<Order>>) and  *)
(* the one word pending_order_request_: Zorro's thread, which runs the     *)
(* Broker functions and waits in them until the word is 0, and the         *)
(* callback thread of RApi, which runs LineUpdate and the reports.         *)
(*                                                                         *)
(* Steps.  A compare-exchange loop recomputes its body from what it        *)
(* reloads, so it is one step, at the exchange that succeeds.  The test    *)
(* pending_order_request_ == id and the store of 0 behind it are two       *)
(* steps.  A turn of a waiting loop that changes nothing is no step.       *)
(*                                                                         *)
(* Faults: "EngineFails", a call of the engine returns 0; "Abort",         *)
(* BrokerProgress returns 0; "Timeout", the wait of doSendOrder passes     *)
(* wait_time_; "Reorder", callbacks overtake each other; "Dangling", the   *)
(* buffer that completion_reason_ points into, which was the callback's,   *)
(* has been overwritten when the waiting thread reads it.                  *)
(***************************************************************************)
EXTENDS OrderEngine, SequencesExt

CONSTANTS
    Tagged,       \* the old orders that OpenOrderReplay finds by their tag
    Requests,     \* what BrokerBuy2 is asked for: records [limit, lasting]
    MaxCancels    \* bound: DO_CANCELs of one order that await their answer

ASSUME TaggedAssumption == Tagged \subseteq OldNums
ASSUME RequestAssumption == Requests \subseteq [limit : BOOLEAN, lasting : BOOLEAN]
ASSUME CancelAssumption == MaxCancels \in Nat

VARIABLES
    main,       \* Zorro's thread: where it is, for which slot and order
    pending,    \* pending_order_request_
    nextIndex,  \* next_order_index_
    orders,     \* orders_
    byId,       \* orders_by_id_, NoSlot where the map has no entry
    returned,   \* how doSendOrder returned for the order sent from each slot
    cb          \* the callback thread: at its test or store of pending

vars == <<main, pending, nextIndex, orders, byId, returned, cb, exch, ctx, inbox>>

(* limit: price_ is a number.  lasting: the duration Zorro had set is DAY  *)
(* or GTC, not IOC or FOK.  text: text_ is not empty.  armed is            *)
(* pending_cancel_, cid client_order_id_, num order_num_, ts               *)
(* last_update_time_, and cancelled, exec and reason are cancelled_,       *)
(* exec_qty_ and completion_reason_.                                       *)
Order == [cid : Nat, num : Nums \cup {0}, limit : BOOLEAN, lasting : BOOLEAN, exec : 0..Qty,
          ts : Nat, reason : Reasons \cup {"None"}, text : BOOLEAN,
          armed : BOOLEAN, cancelled : BOOLEAN]

NewOrder(cid, num, limit, lasting) ==
    [cid |-> cid, num |-> num, limit |-> limit, lasting |-> lasting, exec |-> 0,
     ts |-> 0, reason |-> "None", text |-> FALSE, armed |-> FALSE, cancelled |-> FALSE]

(* atoi of a client order id: pid << 32 | index never fits an int.         *)
Atoi(x) == IF x > IntMax THEN IntMax ELSE x

(* The client order id of an order restored at login.                      *)
RestoredId(n) == Atoi(Tag(n))

Idle == [pc |-> "idle", slot |-> NoSlot, num |-> 0, then |-> "idle"]

Waiting == {"buying", "cancelling", "retrieving"}

Null == {"NotSent", "Aborted", "TimedOut", "Armed", "NoNumber", "Completed"}

MainStates == [pc : Waiting \cup {"login", "idle", "timeout", "cancel", "clear"},
               slot : Slots \cup {NoSlot}, num : Nums \cup {0}, then : {"idle", "clear"}]
CallbackStates == [pc : {"idle", "test", "reset"}, id : Nat]
Outcomes == Null \cup {"none", "Accepted", "Disowned"}

TypeOK ==
    /\ EngineTypeOK
    /\ main \in MainStates
    /\ pending \in Nat
    /\ nextIndex \in 0..MaxOrders
    /\ orders \in [Slots -> Order]
    /\ byId \in [Nums -> Slots \cup {NoSlot}]
    /\ returned \in [Slots -> Outcomes]
    /\ cb \in CallbackStates

Init ==
    /\ EngineInit
    /\ main = [Idle EXCEPT !.pc = "login"]
    /\ pending = 0
    /\ nextIndex = 0
    /\ orders = [s \in Slots |-> NewOrder(0, 0, FALSE, FALSE)]
    /\ byId = [n \in Nums |-> NoSlot]
    /\ returned = [s \in Slots |-> "none"]
    /\ cb = [pc |-> "idle", id |-> 0]

mainIdle == main.pc = "idle"

-----------------------------------------------------------------------------
(* Login: subscribeOrder, answered by OpenOrderReplay.  An open order whose *)
(* sUserTag is ours gets a slot, with the client order id that atoi makes  *)
(* of its tag.  setOrderContext may fail, which is only logged: the slot   *)
(* stays, and the order has no context.                                    *)

EngineMayFail == "EngineFails" \in Faults

Replayed(n) == \E s \in Slots : s < nextIndex /\ orders[s].num = n

OpenOrderReplay(n) ==
    /\ main.pc = "login"
    /\ n \in Tagged /\ exch[n].st = "open" /\ ~Replayed(n)
    /\ nextIndex < MaxOrders
    /\ nextIndex' = nextIndex + 1
    /\ orders' = [orders EXCEPT ![nextIndex] =
                    [NewOrder(RestoredId(n), n, FALSE, TRUE) EXCEPT !.exec = exch[n].filled]]
    /\ \/ ctx' = [ctx EXCEPT ![n] = nextIndex]
       \/ EngineMayFail /\ UNCHANGED ctx
    /\ UNCHANGED <<main, pending, byId, returned, cb, exch, inbox>>

(* The replay is complete: login registers every slot that has a number.   *)
Login ==
    /\ main.pc = "login"
    /\ \A n \in Tagged : exch[n].st = "open" /\ nextIndex < MaxOrders => Replayed(n)
    /\ byId' = [n \in Nums |->
                  IF Replayed(n)
                  THEN CHOOSE s \in Slots : s < nextIndex /\ orders[s].num = n
                  ELSE NoSlot]
    /\ main' = Idle
    /\ UNCHANGED <<pending, nextIndex, orders, returned, cb, exch, ctx, inbox>>

-----------------------------------------------------------------------------
(* BrokerBuy2: sendOrder with a price (limit) or without (market), and     *)
(* doSendOrder.                                                            *)

Return == main' = IF main.then = "clear" THEN [main EXCEPT !.pc = "clear"] ELSE Idle

SendOrder(r) ==
    /\ mainIdle
    /\ nextIndex < MaxOrders
    /\ LET n == OrderNum(nextIndex)
       IN  /\ orders' = [orders EXCEPT ![nextIndex] =
                           NewOrder(Tag(n), 0, r.limit, r.lasting)]
           /\ nextIndex' = nextIndex + 1
           /\ pending' = Tag(n)
           /\ \/ /\ EngineMayFail
                 /\ returned' = [returned EXCEPT ![nextIndex] = "NotSent"]
                 /\ UNCHANGED <<main, exch, ctx>>
              \/ /\ main' = [Idle EXCEPT !.pc = "buying", !.slot = nextIndex]
                 /\ exch' = [exch EXCEPT ![n].st = "sent",
                                         ![n].rests = r.limit /\ r.lasting]
                 /\ ctx' = [ctx EXCEPT ![n] = nextIndex]
                 /\ UNCHANGED returned
    /\ UNCHANGED <<byId, cb, inbox>>

(* What the waiting thread sees in completion_reason_: a pointer into the  *)
(* buffer of the callback that set it.                                     *)
ReadReason(o) ==
    IF o.reason = "None" THEN {"None"}
    ELSE IF "Dangling" \in Faults THEN Reasons ELSE {o.reason}

(* The loop has seen 0: the rest of doSendOrder, and of BrokerBuy2.        *)
FinishSend ==
    /\ main.pc = "buying"
    /\ pending = 0
    /\ LET s == main.slot
           o == orders[s]
       IN  \E read \in ReadReason(o), again \in ReadReason(o) :
             LET how == IF o.num = 0 THEN "NoNumber"
                        ELSE IF read \notin {"None", "Fill", "PFBC"} THEN "Completed"
                        ELSE IF again \in {"Failure", "Cancel", "Reject"} THEN "Disowned"
                        ELSE "Accepted"
             IN  /\ returned' = [returned EXCEPT ![s] = how]
                 /\ byId' = IF how \in {"Disowned", "Accepted"}
                            THEN [byId EXCEPT ![o.num] = s] ELSE byId
    /\ main' = Idle
    /\ UNCHANGED <<pending, nextIndex, orders, cb, exch, ctx, inbox>>

(* BrokerProgress has returned 0: the order stays where it is.             *)
AbortSend ==
    /\ "Abort" \in Faults
    /\ main.pc = "buying"
    /\ pending # 0
    /\ returned' = [returned EXCEPT ![main.slot] = "Aborted"]
    /\ main' = Idle
    /\ UNCHANGED <<pending, nextIndex, orders, byId, cb, exch, ctx, inbox>>

(* The wait is over, seen with pending still set; what follows runs        *)
(* concurrently with the callbacks.                                        *)
TimeOut ==
    /\ "Timeout" \in Faults
    /\ main.pc = "buying"
    /\ pending # 0
    /\ main' = [main EXCEPT !.pc = "timeout"]
    /\ UNCHANGED <<pending, nextIndex, orders, byId, returned, cb, exch, ctx, inbox>>

(* Only a limit order is cancelled when its wait is over.                  *)
ArmsCancelOfMarket(o) == ~o.limit
ArmsCancel(o) == o.limit

(* A timed-out limit order: cancelOrder if its number is known, else leave *)
(* the cancel to the first line update.                                    *)
CancelTimedOut ==
    /\ main.pc = "timeout"
    /\ LET s == main.slot
           o == orders[s]
       IN  IF ArmsCancel(o) /\ o.num # 0
           THEN /\ main' = [main EXCEPT !.pc = "cancel", !.num = o.num, !.then = "clear"]
                /\ UNCHANGED orders
           ELSE /\ main' = [main EXCEPT !.pc = "clear"]
                /\ orders' = [orders EXCEPT ![s].armed = ArmsCancel(o)]
    /\ UNCHANGED <<pending, nextIndex, byId, returned, cb, exch, ctx, inbox>>

ReturnTimedOut ==
    /\ main.pc = "clear"
    /\ pending' = 0
    /\ returned' = [returned EXCEPT ![main.slot] =
                      IF orders[main.slot].limit /\ main.num = 0 THEN "Armed" ELSE "TimedOut"]
    /\ main' = Idle
    /\ UNCHANGED <<nextIndex, orders, byId, cb, exch, ctx, inbox>>

(* What BrokerBuy2 answers for the order sent from slot s.                 *)
BrokerBuy2(s) ==
    CASE returned[s] = "Accepted" -> OrderNum(s)
      [] returned[s] = "Disowned" -> 0
      [] returned[s] \in Null /\ ~orders[s].lasting -> OneNum
      [] returned[s] \in {"TimedOut", "Armed"} /\ orders[s].lasting -> -2
      [] OTHER -> 0

(* The trades Zorro may ask for: what BrokerBuy2 returned, and what Zorro  *)
(* kept of an earlier session.                                             *)
Trades == OldNums \cup {n \in Nums : \E s \in Slots : BrokerBuy2(s) = n}

-----------------------------------------------------------------------------
(* cancelOrder, for DO_CANCEL and for a timed-out limit order.             *)

DoCancel(n) ==
    /\ mainIdle
    /\ n \in Trades
    /\ exch[n].cancels < MaxCancels
    /\ main' = [Idle EXCEPT !.pc = "cancel", !.num = n]
    /\ UNCHANGED <<pending, nextIndex, orders, byId, returned, cb, exch, ctx, inbox>>

(* No entry in orders_by_id_, or an order that is cancelled already.       *)
CancelNothing ==
    /\ main.pc = "cancel"
    /\ byId[main.num] # NoSlot => orders[byId[main.num]].cancelled
    /\ Return
    /\ UNCHANGED <<pending, nextIndex, orders, byId, returned, cb, exch, ctx, inbox>>

(* The request that a cancel waits with, and its variant by order number.  *)
CancelIdNum(o) == o.num
CancelId(o) == o.cid

SendCancel ==
    /\ main.pc = "cancel"
    /\ byId[main.num] # NoSlot
    /\ ~orders[byId[main.num]].cancelled
    /\ pending' = CancelId(orders[byId[main.num]])
    /\ \/ EngineMayFail /\ Return /\ UNCHANGED <<exch, ctx>>
       \/ /\ main' = [main EXCEPT !.pc = "cancelling"]
          /\ exch' = [exch EXCEPT ![main.num].cancels = @ + 1, ![main.num].asked = TRUE]
          /\ ctx' = [ctx EXCEPT ![main.num] = byId[main.num]]
    /\ UNCHANGED <<nextIndex, orders, byId, returned, cb, inbox>>

FinishCancel ==
    /\ main.pc = "cancelling"
    /\ pending = 0
    /\ Return
    /\ UNCHANGED <<pending, nextIndex, orders, byId, returned, cb, exch, ctx, inbox>>

AbortCancel ==
    /\ "Abort" \in Faults
    /\ main.pc = "cancelling"
    /\ pending # 0
    /\ Return
    /\ UNCHANGED <<pending, nextIndex, orders, byId, returned, cb, exch, ctx, inbox>>

-----------------------------------------------------------------------------
(* BrokerTrade of an order that is not in orders_by_id_: retrieveOrder.    *)
(* The engine answers a replay with the order's line, if it has one, and   *)
(* the end of the replay.                                                  *)

ReplayOf(n) ==
    LET end == Report("ReplayEnd", n, 0)
    IN  IF exch[n].st = "none" THEN <<end>>
        ELSE <<Line("History", n, exch[n], Reason(exch[n])), end>>

RetrieveOrder(n) ==
    /\ mainIdle
    /\ n \in Trades
    /\ byId[n] = NoSlot
    /\ nextIndex < MaxOrders
    /\ orders' = [orders EXCEPT ![nextIndex] = NewOrder(0, n, FALSE, FALSE)]
    /\ nextIndex' = nextIndex + 1
    /\ \/ EngineMayFail /\ UNCHANGED <<main, pending, ctx, inbox>>
       \/ /\ ctx' = [ctx EXCEPT ![n] = nextIndex]
          /\ pending' = n
          /\ \/ EngineMayFail /\ UNCHANGED <<main, inbox>>
             \/ /\ Emit(ReplayOf(n))
                /\ main' = [Idle EXCEPT !.pc = "retrieving", !.slot = nextIndex, !.num = n]
    /\ UNCHANGED <<byId, returned, cb, exch>>

(* An order that still has client order id 0 was not found.                *)
Retrieved ==
    /\ byId' = IF orders[main.slot].cid = 0 THEN byId
               ELSE [byId EXCEPT ![orders[main.slot].num] = main.slot]
    /\ main' = Idle
    /\ UNCHANGED <<pending, nextIndex, orders, returned, cb, exch, ctx, inbox>>

(* Variant: does not wait for the end of the replay.                       *)
FinishRetrieveAtOnce == main.pc = "retrieving" /\ Retrieved

FinishRetrieve ==
    /\ main.pc = "retrieving"
    /\ pending = 0
    /\ Retrieved

AbortRetrieve ==
    /\ "Abort" \in Faults
    /\ main.pc = "retrieving"
    /\ pending # 0
    /\ main' = Idle
    /\ UNCHANGED <<pending, nextIndex, orders, byId, returned, cb, exch, ctx, inbox>>

-----------------------------------------------------------------------------
(* The callback thread.  A handler takes a callback, updates the slot, and *)
(* may go on to test pending_order_request_ against the order's tag.       *)

Takes(i, kinds) ==
    /\ cb.pc = "idle"
    /\ inbox[i].kind \in kinds
    /\ inbox' = RemoveAt(inbox, i)

CallbackReturns == UNCHANGED cb

TestPending(id) == cb' = [pc |-> "test", id |-> id]

(* The order of a callback is not ours: no context, or a slot that holds   *)
(* another client order id.                                                *)
Ours(m) == ctx[m.num] # NoSlot /\ orders[ctx[m.num]].cid = Tag(m.num)

HasSlot(m) == IF m.kind = "History" THEN ctx[m.num] # NoSlot ELSE Ours(m)

Stale(m) == orders[ctx[m.num]].ts > m.ts

LineDropped(i) ==
    /\ Takes(i, Lines)
    /\ ~HasSlot(inbox[i])
    /\ CallbackReturns
    /\ UNCHANGED <<main, pending, nextIndex, orders, byId, returned, exch, ctx>>

(* Stale information does not reach the slot; a completed line still       *)
(* releases the request.                                                   *)
LineStale(i) ==
    LET m == inbox[i]
    IN  /\ Takes(i, Lines)
        /\ HasSlot(m)
        /\ Stale(m)
        /\ IF m.kind = "Line" /\ m.reason # "None"
           THEN TestPending(Tag(m.num)) ELSE CallbackReturns
        /\ UNCHANGED <<main, pending, nextIndex, orders, byId, returned, exch, ctx>>

(* A cancel was left pending: the line update sends it and records nothing *)
(* else, and the flag is gone even if the engine fails.                    *)
LineSendsCancel(i) ==
    LET m == inbox[i]
    IN  /\ Takes(i, Lines)
        /\ HasSlot(m)
        /\ ~Stale(m)
        /\ orders[ctx[m.num]].armed
        /\ orders' = [orders EXCEPT ![ctx[m.num]].armed = FALSE]
        /\ \/ EngineMayFail /\ UNCHANGED exch
           \/ exch' = [exch EXCEPT ![m.num].cancels = @ + 1, ![m.num].asked = TRUE]
        /\ CallbackReturns
        /\ UNCHANGED <<main, pending, nextIndex, byId, returned, ctx>>

(* Variants: the filled quantity is added up, is left out, or the client   *)
(* order id goes through atoi, as in OpenOrderReplay.                      *)
UpdatedAddsUp(o, m) ==
    [o EXCEPT !.cid = IF m.kind = "History" /\ @ = 0 THEN Tag(m.num) ELSE @,
              !.num = IF m.kind = "Line" THEN m.num ELSE @,
              !.exec = @ + m.filled, !.ts = m.ts, !.reason = m.reason]

UpdatedNotFilled(o, m) ==
    [o EXCEPT !.cid = IF m.kind = "History" /\ @ = 0 THEN Tag(m.num) ELSE @,
              !.num = IF m.kind = "Line" THEN m.num ELSE @,
              !.ts = m.ts, !.reason = m.reason]

UpdatedTruncated(o, m) ==
    [o EXCEPT !.cid = IF m.kind = "History" /\ @ = 0 THEN Atoi(Tag(m.num)) ELSE @,
              !.num = IF m.kind = "Line" THEN m.num ELSE @,
              !.exec = m.filled, !.ts = m.ts, !.reason = m.reason]

(* The slot's order after a line update that is recorded: history names    *)
(* the tag of an order that had none, a live line the order number.        *)
Updated(o, m) ==
    [o EXCEPT !.cid = IF m.kind = "History" /\ @ = 0 THEN Tag(m.num) ELSE @,
              !.num = IF m.kind = "Line" THEN m.num ELSE @,
              !.exec = m.filled, !.ts = m.ts, !.reason = m.reason]

(* Variant: a resting order does not end the wait.                         *)
ReleasesCompleted(o, m) == m.kind = "Line" /\ m.reason # "None"

(* What ends the wait: the order is complete, or rests in the book.        *)
Releases(o, m) ==
    m.kind = "Line" /\ (m.reason # "None" \/ (o.limit /\ o.lasting))

LineApplied(i) ==
    LET m == inbox[i]
        s == ctx[m.num]
    IN  /\ Takes(i, Lines)
        /\ HasSlot(m)
        /\ ~Stale(m)
        /\ ~orders[s].armed
        /\ orders' = [orders EXCEPT ![s] = Updated(@, m)]
        /\ IF Releases(orders[s], m) THEN TestPending(Tag(m.num)) ELSE CallbackReturns
        /\ UNCHANGED <<main, pending, nextIndex, byId, returned, exch, ctx>>

(* A line update with an error code looks at its tag only.                 *)
LineError(i) ==
    /\ Takes(i, {"LineError"})
    /\ TestPending(Tag(inbox[i].num))
    /\ UNCHANGED <<main, pending, nextIndex, orders, byId, returned, exch, ctx>>

(* Variants: every report counts what is filled, or is stored over a flag  *)
(* that was set meanwhile, or a failure counts as a cancel.                *)
MarkedCounts(o, m) ==
    [o EXCEPT !.exec = m.filled, !.cancelled = (m.kind = "Cancel") \/ @,
              !.text = (m.kind \in {"Failure", "Reject"}) \/ @]

MarkedOver(o, m) == [MarkedCounts(o, m) EXCEPT !.armed = FALSE]

MarkedFailed(o, m) ==
    CASE m.kind \in {"Cancel", "Failure", "Reject"} -> [o EXCEPT !.cancelled = TRUE]
      [] m.kind = "Fill" -> [o EXCEPT !.exec = m.filled]

(* CancelReport, FailureReport and RejectReport mark the order and release *)
(* whoever waits for it; FillReport counts, and releases nobody.           *)
Marked(o, m) ==
    CASE m.kind = "Cancel" -> [o EXCEPT !.cancelled = TRUE]
      [] m.kind \in {"Failure", "Reject"} -> [o EXCEPT !.text = TRUE]
      [] m.kind = "Fill" -> [o EXCEPT !.exec = m.filled]

Reported == {"Cancel", "Failure", "Reject", "Fill"}

ReportApplied(i) ==
    LET m == inbox[i]
    IN  /\ Takes(i, Reported)
        /\ Ours(m)
        /\ orders' = [orders EXCEPT ![ctx[m.num]] = Marked(@, m)]
        /\ IF m.kind = "Fill" THEN CallbackReturns ELSE TestPending(Tag(m.num))
        /\ UNCHANGED <<main, pending, nextIndex, byId, returned, exch, ctx>>

ReportDropped(i) ==
    /\ Takes(i, Reported)
    /\ ~Ours(inbox[i])
    /\ CallbackReturns
    /\ UNCHANGED <<main, pending, nextIndex, orders, byId, returned, exch, ctx>>

(* NotCancelledReport only logs: it does not release cancelOrder.          *)
NotCancelledReport(i) ==
    /\ Takes(i, {"NotCancelled"})
    /\ CallbackReturns
    /\ UNCHANGED <<main, pending, nextIndex, orders, byId, returned, exch, ctx>>

(* The end of a replay answers the request that is pending: the code       *)
(* asserts it, and a release build goes on.                                *)
ReplayAnswers(i) == pending = inbox[i].num

SingleOrderReplay(i) ==
    /\ Takes(i, {"ReplayEnd"})
    /\ cb' = IF ReplayAnswers(i) THEN [pc |-> "reset", id |-> inbox[i].num] ELSE cb
    /\ UNCHANGED <<main, pending, nextIndex, orders, byId, returned, exch, ctx>>

(* Variant: any callback ends any request.                                 *)
PassesAnyTest(id) == pending # 0
PassesTest(id) == pending = id

Test ==
    /\ cb.pc = "test"
    /\ cb' = IF PassesTest(cb.id) THEN [cb EXCEPT !.pc = "reset"]
             ELSE [pc |-> "idle", id |-> 0]
    /\ UNCHANGED <<main, pending, nextIndex, orders, byId, returned, exch, ctx, inbox>>

Reset ==
    /\ cb.pc = "reset"
    /\ pending' = 0
    /\ cb' = [pc |-> "idle", id |-> 0]
    /\ UNCHANGED <<main, nextIndex, orders, byId, returned, exch, ctx, inbox>>

-----------------------------------------------------------------------------

Engine(n) ==
    EngineStep(n) /\ UNCHANGED <<main, pending, nextIndex, orders, byId, returned, cb>>

Handle(i) ==
    \/ LineDropped(i) \/ LineStale(i) \/ LineSendsCancel(i) \/ LineApplied(i)
    \/ LineError(i) \/ ReportApplied(i) \/ ReportDropped(i)
    \/ NotCancelledReport(i) \/ SingleOrderReplay(i)

Callback == (\E i \in Deliverable : Handle(i)) \/ Test \/ Reset

Call ==
    \/ \E r \in Requests : SendOrder(r)
    \/ \E n \in Nums : OpenOrderReplay(n) \/ DoCancel(n) \/ RetrieveOrder(n)

(* What Zorro's thread does by itself once it is called.                   *)
Proceed ==
    \/ Login \/ FinishSend \/ CancelTimedOut \/ ReturnTimedOut \/ CancelNothing \/ SendCancel
    \/ FinishCancel \/ FinishRetrieve

GiveUp == AbortSend \/ TimeOut \/ AbortCancel \/ AbortRetrieve

Next == Call \/ Proceed \/ GiveUp \/ Callback \/ \E n \in Nums : Engine(n)

Spec == Init /\ [][Next]_vars

(* Zorro's thread does not stop inside a call, RApi's thread delivers what *)
(* it has, and the engine does what it owes.                               *)
Fairness ==
    /\ WF_vars(Proceed)
    /\ WF_vars(Callback)
    /\ \A n \in Nums : WF_vars(Owing(n) /\ Engine(n))

FairSpec == Spec /\ Fairness

-----------------------------------------------------------------------------
(* Properties. *)

(* The client order ids that a registered order may have.  Only that of    *)
(* its tag lets the handlers accept its callbacks.                         *)
KnownIds(n) == IF n \in Tagged THEN {Tag(n), RestoredId(n)} ELSE {Tag(n)}

(* An order restored at login, whose context the engine then refused: its  *)
(* callbacks carry none until a cancel of it hands the engine the slot.    *)
ContextRefused(n) ==
    /\ EngineMayFail
    /\ n \in Tagged /\ orders[byId[n]].cid = RestoredId(n)
    /\ ctx[n] = NoSlot

(* An order in orders_by_id_ is heard: its callbacks carry the slot that   *)
(* BrokerTrade and DO_CANCEL read, the slot has its number and, unless the *)
(* order was restored at login, the client order id of its tag. Excepted   *)
(* is a restored order whose setOrderContext failed: login registers it    *)
(* all the same, and the slot it names hears nothing.                      *)
RegisteredIsHeard ==
    \A n \in Nums : byId[n] # NoSlot =>
        /\ ctx[n] = byId[n] \/ ContextRefused(n)
        /\ orders[byId[n]].num = n
        /\ orders[byId[n]].cid \in KnownIds(n)

(* No call gives up, and the engine takes what it is given.                *)
Undisturbed == Faults \cap {"EngineFails", "Abort", "Timeout"} = {}

(* The id that the waiting call put into pending_order_request_.           *)
Awaited ==
    CASE main.pc = "buying" -> orders[main.slot].cid
      [] main.pc = "cancelling" -> orders[byId[main.num]].cid
      [] main.pc = "retrieving" -> main.num

(* Nobody but the waiting call sets the pending request.                   *)
WaitOwnsPending == main.pc \in Waiting => pending \in {0, Awaited}

(* The callback thread ends only the request it was called for, although   *)
(* it stores 0 after another look at the word.                             *)
ResetEndsItsRequest ==
    [][pending # 0 /\ cb.pc = "reset" /\ cb'.pc = "idle" => pending = cb.id]_vars

(* "nullptr if the order was not sent or an error occurred": no order that *)
(* BrokerBuy2 disowns is at the exchange, or was filled there.             *)
DisownedIsDead ==
    \A s \in Slots : returned[s] \in {"NotSent", "NoNumber", "Completed", "Disowned"} =>
        LET e == exch[OrderNum(s)] IN ~Live(OrderNum(s)) /\ e.filled = 0

(* The end of a replay is the answer to the request that is waiting.       *)
ReplayIsAwaited ==
    \A i \in Deliverable : cb.pc = "idle" /\ inbox[i].kind = "ReplayEnd" => ReplayAnswers(i)

(* When nothing is under way, the slot of a registered order knows exactly *)
(* what was filled: of the orders that were not restored at login, and of  *)
(* those that were.                                                        *)
KnowsFills(n) == byId[n] # NoSlot => orders[byId[n]].exec = exch[n].filled

Quiet == inbox = << >> /\ cb.pc = "idle"

FillsRecorded == Quiet => \A n \in Nums \ Tagged : KnowsFills(n)

RestoredFillsRecorded == Quiet => \A n \in Tagged : KnowsFills(n)

(* exec_qty_ of an order never falls.                                      *)
FillsNeverFall ==
    [][\A s \in Slots : orders'[s].exec >= orders[s].exec]_vars

(* What BrokerTrade goes by has happened, however late and in whatever     *)
(* order it was told: the fills were made, and an order that is called     *)
(* cancelled is gone.                                                      *)
NothingInvented ==
    \A n \in Nums : byId[n] # NoSlot =>
        /\ orders[byId[n]].exec <= exch[n].filled
        /\ orders[byId[n]].cancelled => ~Live(n)

(* The cancel that a timed-out limit order left in its slot is not lost to *)
(* a concurrent update: it is still there, was sent, or came too late.     *)
ArmedCancelKept ==
    \A s \in Slots : returned[s] = "Armed" =>
        LET e == exch[OrderNum(s)] IN orders[s].armed \/ e.asked \/ ~Live(OrderNum(s))

(* cancelOrder waits for an order that ended otherwise, and the engine has *)
(* refused the cancel.                                                     *)
RefusedAtExchange ==
    /\ main.pc = "cancelling"
    /\ exch[main.num].st \in Finished \ {"Cancel", "PFBC"}
    /\ exch[main.num].cancels = 0

CancelRefused == RefusedAtExchange /\ pending # 0 /\ Quiet

(* The order that the waiting call waits for, and the callbacks about it   *)
(* that end the wait.                                                      *)
AwaitedNum == IF main.pc = "buying" THEN OrderNum(main.slot) ELSE main.num

AwaitsAnyLine ==
    main.pc = "buying" /\ orders[main.slot].limit /\ orders[main.slot].lasting

Final(m) ==
    \/ m.kind \in {"LineError", "Cancel", "Failure", "Reject"}
    \/ m.kind = "Line" /\ m.reason # "None"

EndsWait(m) ==
    /\ m.num = AwaitedNum
    /\ CASE main.pc = "retrieving" -> m.kind = "ReplayEnd"
         [] OTHER -> Final(m) \/ (AwaitsAnyLine /\ m.kind = "Line")

(* What the engine still has to say to the call: of a new order, that it   *)
(* is accepted or has ended, and the answer to a cancel.                   *)
AnswerOwed ==
    CASE main.pc = "buying" -> Owing(AwaitedNum)
      [] main.pc = "cancelling" -> exch[AwaitedNum].cancels > 0
      [] main.pc = "retrieving" -> FALSE

(* No answer is lost: as long as a call waits, the callback thread is      *)
(* about to end the wait, a callback that will do so is under way, or the  *)
(* engine owes one. Excepted are a cancel that NotCancelledReport answered *)
(* and one of an order that login restored, whose callbacks are dropped.   *)
WaitIsOwed ==
    main.pc \in Waiting /\ pending # 0 =>
        \/ cb.pc # "idle" /\ cb.id = pending
        \/ \E i \in 1..Len(inbox) : EndsWait(inbox[i])
        \/ AnswerOwed
        \/ "NotCancelled" \in Refusals /\ RefusedAtExchange
        \/ main.pc = "cancelling" /\ pending = IntMax

(* Every call ends: doSendOrder without its timeout, retrieveOrder and     *)
(* cancelOrder, which have none, unless a NotCancelledReport, which        *)
(* releases nobody, was the only answer to the cancel.                     *)
OnlyRefusedCancelsHang ==
    (main.pc \notin {"login", "idle"}) ~> (main.pc = "idle" \/ CancelRefused)

(* An order whose cancel was left to the first line update leaves the      *)
(* market.                                                                 *)
ArmedLeavesMarket ==
    \A s \in Slots : (returned[s] = "Armed") ~> ~Live(OrderNum(s))

(* cancelOrder waits for an order that login restored: no callback brings  *)
(* the client order id that atoi made of its tag.                          *)
HangsOnRestored == main.pc = "cancelling" /\ orders[byId[main.num]].cid = IntMax

(* The cancel that doSendOrder sends when its wait is over finds no entry  *)
(* in orders_by_id_: the order is registered only at the end of a          *)
(* doSendOrder that did not time out.                                      *)
TimedOutCancelUnregistered ==
    main.pc \in {"cancel", "cancelling"} /\ main.then = "clear" => byId[main.num] = NoSlot

(* A timed-out limit order is on its way out of the market.                *)
TimedOutLimitIsCancelled ==
    \A s \in Slots : returned[s] \in {"TimedOut", "Armed"} /\ orders[s].limit =>
        \/ orders[s].armed
        \/ exch[OrderNum(s)].asked
        \/ ~Live(OrderNum(s))
=============================================================================
