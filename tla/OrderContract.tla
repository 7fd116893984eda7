--------------------------- MODULE OrderContract ---------------------------
(***************************************************************************)
(* What the plugin promises Zorro about a trade: BrokerBuy2 and            *)
(* BrokerTrade of src/src/rithmic_zorro_plugin.cpp, without threads,       *)
(* callbacks and requests.  OrderRefinement shows that OrderFlow keeps it. *)
(***************************************************************************)
EXTENDS Naturals

CONSTANTS
    Orders,     \* every order Zorro may hear of
    Earlier,    \* those that an earlier session left at the exchange
    Size,       \* the quantity of an order
    Lapses      \* what it forgives, among "Forsakes" and "TakesBack"

VARIABLES
    answer,     \* of BrokerBuy2: whether the order is a trade
    market,     \* the order at the exchange: out, in, cancelled, or over otherwise
    filled,     \* how much of it was filled there
    told,       \* the exec_qty_ that BrokerTrade goes by
    cancelled   \* BrokerTrade calls the order cancelled

contractVars == <<answer, market, filled, told, cancelled>>

Init ==
    /\ answer = [o \in Orders |-> IF o \in Earlier THEN "accepted" ELSE "none"]
    /\ market = [o \in Orders |-> IF o \in Earlier THEN "in" ELSE "out"]
    /\ filled = [o \in Orders |-> 0]
    /\ told = [o \in Orders |-> 0]
    /\ cancelled = [o \in Orders |-> FALSE]

(* An order enters the market in the call that asks for it.                *)
Ask(o) ==
    /\ answer[o] = "none"
    /\ answer' = [answer EXCEPT ![o] = "asked"]
    /\ market' = [market EXCEPT ![o] = "in"]
    /\ UNCHANGED <<filled, told, cancelled>>

(* The exchange fills the order, or ends it, or both.                      *)
Dead == {"cancelled", "over"}

Work(o) ==
    /\ market[o] = "in"
    /\ \E q \in filled[o]..Size : filled' = [filled EXCEPT ![o] = q]
    /\ \E m \in {"in"} \cup Dead : market' = [market EXCEPT ![o] = m]
    /\ UNCHANGED <<answer, told, cancelled>>

(* BrokerBuy2 answers with the order, and with what it knows of it.        *)
Accept(o) ==
    /\ answer[o] = "asked"
    /\ answer' = [answer EXCEPT ![o] = "accepted"]
    /\ \E q \in told[o]..filled[o] : told' = [told EXCEPT ![o] = q]
    /\ \/ UNCHANGED cancelled
       \/ market[o] = "cancelled" /\ cancelled' = [cancelled EXCEPT ![o] = TRUE]
    /\ UNCHANGED <<market, filled>>

(* BrokerBuy2 answers without an order, and never sends it.                *)
Decline(o) ==
    /\ answer[o] = "none"
    /\ answer' = [answer EXCEPT ![o] = "disowned"]
    /\ UNCHANGED <<market, filled, told, cancelled>>

(* BrokerBuy2 answers without the order it has sent: it is dead and was    *)
(* not filled, unless the plugin may forsake a live order.                 *)
Disown(o) ==
    /\ answer[o] = "asked"
    /\ "Forsakes" \in Lapses \/ (market[o] \in Dead /\ filled[o] = 0)
    /\ answer' = [answer EXCEPT ![o] = "disowned"]
    /\ UNCHANGED <<market, filled, told, cancelled>>

(* News of a trade: never more than was filled, never less than before,    *)
(* unless the plugin may take back what it told, and cancelled only if the *)
(* exchange has cancelled it.                                              *)
Least(o) == IF "TakesBack" \in Lapses THEN 0 ELSE told[o]

Report(o) ==
    /\ answer[o] = "accepted"
    /\ \E q \in Least(o)..filled[o] : told' = [told EXCEPT ![o] = q]
    /\ \/ UNCHANGED cancelled
       \/ market[o] = "cancelled" /\ cancelled' = [cancelled EXCEPT ![o] = TRUE]
    /\ UNCHANGED <<answer, market, filled>>

(* A login brings news of several orders of an earlier session at once.    *)
Restore ==
    /\ told' \in [Orders -> 0..Size]
    /\ \A o \in Orders : told'[o] \in told[o]..filled[o]
    /\ \A o \in Orders \ Earlier : told'[o] = told[o]
    /\ UNCHANGED <<answer, market, filled, cancelled>>

Next ==
    \/ \E o \in Orders : \/ Ask(o) \/ Work(o) \/ Accept(o) \/ Decline(o) \/ Disown(o)
                         \/ Report(o)
    \/ Restore

(* Every order is answered, and every fill of a trade of this session is   *)
(* reported.                                                               *)
Fairness ==
    \A o \in Orders \ Earlier :
        /\ WF_contractVars(Accept(o) \/ Disown(o))
        /\ WF_contractVars(Report(o) /\ told' # told)

Contract == Init /\ [][Next]_contractVars

FairContract == Contract /\ Fairness
=============================================================================
