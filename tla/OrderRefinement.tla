-------------------------- MODULE OrderRefinement --------------------------
(***************************************************************************)
(* OrderFlow keeps OrderContract: the trades Zorro knows are the orders by *)
(* number, and what BrokerTrade goes by is the slot that orders_by_id_     *)
(* names for the number.  Without a fault it keeps it to the letter.  Any  *)
(* fault may make it forsake an order, and only callbacks out of order     *)
(* make it take back what it told.                                         *)
(***************************************************************************)
EXTENDS OrderFlow

(* The slot that an order of this session was sent from.                   *)
SentFrom(n) == n - FirstNum

AnswerTo(n) ==
    IF n \in OldNums THEN "accepted"
    ELSE CASE returned[SentFrom(n)] = "Accepted" -> "accepted"
           [] returned[SentFrom(n)] \in Outcomes \ {"none", "Accepted"} -> "disowned"
           [] returned[SentFrom(n)] = "none" /\ exch[n].st # "none" -> "asked"
           [] OTHER -> "none"

AtExchange(n) ==
    CASE exch[n].st = "none" -> "out"
      [] Live(n) -> "in"
      [] exch[n].st \in {"Cancel", "PFBC"} -> "cancelled"
      [] OTHER -> "over"

(* Zorro asks only for trades: doSendOrder may register an order that it   *)
(* then disowns.                                                           *)
Known(n) == byId[n] # NoSlot /\ AnswerTo(n) = "accepted"

RealNums == OwnNums \cup OldNums

Forgiven ==
    (IF Faults = {} THEN {} ELSE {"Forsakes"})
        \cup (IF "Reorder" \in Faults THEN {"TakesBack"} ELSE {})

Promise == INSTANCE OrderContract WITH
    Orders <- RealNums, Earlier <- OldNums, Size <- Qty, Lapses <- Forgiven,
    answer <- [n \in RealNums |-> AnswerTo(n)],
    market <- [n \in RealNums |-> AtExchange(n)],
    filled <- [n \in RealNums |-> exch[n].filled],
    told <- [n \in RealNums |-> IF Known(n) THEN orders[byId[n]].exec ELSE 0],
    cancelled <- [n \in RealNums |-> Known(n) /\ orders[byId[n]].cancelled]

(* What BrokerBuy2 and BrokerTrade tell Zorro is what OrderContract        *)
(* promises, whatever faults happen: an order is answered once, no fill is *)
(* told that was not made or, unless callbacks overtake each other, taken  *)
(* back, only an order that the exchange cancelled is called cancelled,    *)
(* and, if no fault happens, only one that is dead and has no fill is      *)
(* disowned.                                                               *)
HonoursContract == Promise!Contract

(* If no fault happens, every order is also answered, and every fill of a  *)
(* trade of this session is told.                                          *)
KeepsContract == Promise!FairContract
=============================================================================
