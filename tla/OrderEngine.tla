---------------------------- MODULE OrderEngine ----------------------------
(***************************************************************************)
(* The order side of the Rithmic engine (RApi::REngine and the exchange    *)
(* behind it), as src/src/client_order.cpp uses it.  It is not code of     *)
(* this repository: every definition here is external, and says no more    *)
(* than the calls and the callbacks of the plugin rely on.                 *)
(*                                                                         *)
(* The engine works on the orders the plugin sends, each with an order     *)
(* number and the tag "ZORRO_<client order id>" it was sent with, keeps    *)
(* one context pointer per order (a slot of orders_), and delivers what    *)
(* happens to an order as callbacks, one at a time.                        *)
(***************************************************************************)
EXTENDS Integers, Sequences

CONSTANTS
    MaxOrders,    \* slots of orders_ that the model lets the plugin use
    FirstNum,     \* order number of the order sent from slot 0
    OldNums,      \* order numbers that a previous session left working
    ProcessBase,  \* pid_ << 32 of this process
    OldBase,      \* pid_ << 32 of the process that sent the old orders
    IntMax,       \* INT_MAX: where atoi saturates
    Qty,          \* llQuantityToFill of every order
    MaxInbox,     \* bound: callbacks that may wait for the callback thread
    Refusals,     \* how the engine turns down an order or a cancel
    Faults        \* which faults may happen, see OrderFlow

FaultKinds == {"EngineFails", "Abort", "Timeout", "Reorder", "Dangling"}

ASSUME SlotAssumption == MaxOrders \in Nat \ {0}
ASSUME NumAssumption ==
    /\ IntMax \in Nat /\ FirstNum \in 2..IntMax
    /\ FirstNum + MaxOrders <= IntMax
    /\ OldNums \subseteq 2..FirstNum-1
ASSUME BaseAssumption ==
    /\ ProcessBase \in Nat /\ OldBase \in Nat
    /\ OldBase > IntMax /\ ProcessBase > OldBase + IntMax
ASSUME QtyAssumption == Qty \in Nat \ {0} /\ MaxInbox \in Nat
ASSUME FaultAssumption ==
    /\ Faults \subseteq FaultKinds
    /\ Refusals \subseteq {"LineError", "Reject", "Failure", "NotCancelled"}

Slots == 0..MaxOrders-1
NoSlot == -1

(* BrokerBuy2 answers 1 for an IOC or FOK order that was not filled, so    *)
(* Zorro may ask for trade 1, which no exchange order has.                 *)
OneNum == 1

OwnNums == FirstNum .. FirstNum + MaxOrders - 1
Nums == OwnNums \cup OldNums \cup {OneNum}

OrderNum(s) == FirstNum + s

(* The client order id in the tag of order n.                              *)
Tag(n) == IF n \in OwnNums THEN ProcessBase + (n - FirstNum) ELSE OldBase + n

Reasons == {"Fill", "PFBC", "Cancel", "Reject", "Failure"}
Finished == Reasons \cup {"Refused"}

Reports == {"LineError", "Fill", "Cancel", "Reject", "Failure", "NotCancelled",
            "ReplayEnd"}
Lines == {"Line", "History"}

Message == [kind : Lines \cup Reports, num : Nums, ts : Nat, filled : 0..Qty,
            reason : Reasons \cup {"None"}]

VARIABLES
    exch,   \* the orders at the exchange, by order number
    ctx,    \* the context of each order: the slot its callbacks point to
    inbox   \* callbacks not yet delivered, oldest first

engineVars == <<exch, ctx, inbox>>

ExchangeOrder == [st : {"none", "sent", "open"} \cup Finished, rests : BOOLEAN,
                  filled : 0..Qty, seq : Nat, cancels : Nat, asked : BOOLEAN]

EngineTypeOK ==
    /\ exch \in [Nums -> ExchangeOrder]
    /\ ctx \in [Nums -> Slots \cup {NoSlot}]
    /\ inbox \in Seq(Message)

NoExchangeOrder == [st |-> "none", rests |-> FALSE, filled |-> 0, seq |-> 0,
                    cancels |-> 0, asked |-> FALSE]

EngineInit ==
    /\ exch = [n \in Nums |-> IF n \in OldNums
                 THEN [NoExchangeOrder EXCEPT !.st = "open", !.rests = TRUE, !.seq = 1]
                 ELSE NoExchangeOrder]
    /\ ctx = [n \in Nums |-> NoSlot]
    /\ inbox = << >>

-----------------------------------------------------------------------------
(* Callback contents. *)

Line(kind, n, e, reason) ==
    [kind |-> kind, num |-> n, ts |-> e.seq, filled |-> e.filled, reason |-> reason]

Report(kind, n, filled) ==
    [kind |-> kind, num |-> n, ts |-> 0, filled |-> filled, reason |-> "None"]

Reason(e) == IF e.st \in Reasons THEN e.st ELSE "None"

Emit(msgs) ==
    /\ Len(inbox) + Len(msgs) <= MaxInbox
    /\ inbox' = inbox \o msgs

(* A change of order n to e, told by a line update and, in either order,   *)
(* by a report of its own.                                                 *)
Announce(n, e, report) ==
    /\ exch' = [exch EXCEPT ![n] = e]
    /\ \/ Emit(<<Line("Line", n, e, Reason(e)), report>>)
       \/ Emit(<<report, Line("Line", n, e, Reason(e))>>)
    /\ UNCHANGED ctx

-----------------------------------------------------------------------------
(* What may happen to order n at the exchange. *)

Acknowledge(n) ==
    LET e == [exch[n] EXCEPT !.st = "open", !.seq = @ + 1]
    IN  /\ exch[n].st = "sent"
        /\ exch' = [exch EXCEPT ![n] = e]
        /\ Emit(<<Line("Line", n, e, "None")>>)
        /\ UNCHANGED ctx

(* The order does not pass the engine: a line update with iRpCode # API_OK. *)
Refuse(n) ==
    /\ "LineError" \in Refusals
    /\ exch[n].st = "sent"
    /\ exch' = [exch EXCEPT ![n].st = "Refused"]
    /\ Emit(<<Report("LineError", n, 0)>>)
    /\ UNCHANGED ctx

Reject(n) ==
    /\ exch[n].st \in {"sent", "open"}
    /\ exch[n].filled = 0
    /\ \E why \in Refusals \cap {"Reject", "Failure"} :
         Announce(n, [exch[n] EXCEPT !.st = why, !.seq = @ + 1], Report(why, n, 0))

Fill(n) ==
    /\ exch[n].st = "open"
    /\ \E total \in exch[n].filled + 1 .. Qty :
         Announce(n, [exch[n] EXCEPT !.filled = total, !.seq = @ + 1,
                                     !.st = IF total = Qty THEN "Fill" ELSE @],
                  Report("Fill", n, total))

(* A requested cancel, or the end of an order that is not meant to rest.   *)
Cancel(n) ==
    /\ exch[n].st = "open"
    /\ exch[n].cancels > 0 \/ ~exch[n].rests
    /\ Announce(n, [exch[n] EXCEPT !.st = IF exch[n].filled > 0 THEN "PFBC" ELSE "Cancel",
                                   !.seq = @ + 1,
                                   !.cancels = IF @ > 0 THEN @ - 1 ELSE @],
                Report("Cancel", n, 0))

RefuseCancel(n) ==
    /\ exch[n].cancels > 0
    /\ exch[n].st \in Finished
    /\ exch' = [exch EXCEPT ![n].cancels = @ - 1]
    /\ \E kind \in Refusals \cap {"NotCancelled", "Failure"} : Emit(<<Report(kind, n, 0)>>)
    /\ UNCHANGED ctx

EngineStep(n) ==
    \/ Acknowledge(n) \/ Refuse(n) \/ Reject(n) \/ Fill(n) \/ Cancel(n)
    \/ RefuseCancel(n)

(* The engine owes an answer to a new order, the end of an order that does *)
(* not rest, and an answer to a cancel.                                    *)
Owing(n) ==
    \/ exch[n].st = "sent"
    \/ exch[n].st = "open" /\ ~exch[n].rests
    \/ exch[n].cancels > 0

(* Delivery is in order, unless callbacks may overtake each other.         *)
Deliverable == IF "Reorder" \in Faults THEN 1..Len(inbox) ELSE 1..Len(inbox) \cap {1}

Live(n) == exch[n].st \in {"sent", "open"}
=============================================================================
