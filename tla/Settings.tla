------------------------------ MODULE Settings ------------------------------
(***************************************************************************)
(* The settings that Zorro makes by BrokerCommand and the next BrokerBuy2  *)
(* or BrokerAsset uses: struct Global of src/src/global.h and              *)
(* BrokerCommand and BrokerBuy2 of src/src/rithmic_zorro_plugin.cpp.       *)
(*                                                                         *)
(* limit_price_ and amount_ are for one order, the others last, and        *)
(* vol_type_ lasts longer than the session.                                *)
(***************************************************************************)
EXTENDS Naturals

CONSTANTS
    Limits,    \* limit prices
    Amounts,   \* what SET_AMOUNT may ask a lot to be: whole contracts
    OrderTypes,  \* what SET_ORDERTYPE may be told
    WaitTimes,   \* milliseconds that SET_WAIT may ask for
    VolumeTypes  \* what SET_VOLTYPE may be told

NoLimit == 0   \* NAN, which is no price

Durations == {"IOC", "FOK", "GTC", "DAY"}

VARIABLES
    global,    \* Global, as far as orders and volumes depend on it
    order,     \* what BrokerBuy2 has sent and waits for, or NoOrder
    wanted     \* what Zorro has asked for since the session began and, for
               \* the limit and the amount, since the last order: as the
               \* names of the commands and src/README.md:97 say; overruled
               \* once 2001 came while GTC was set. Not read by the code

settingVars == <<global, order, wanted>>

(* wait_time_ is compared with milliseconds. It is counted here in units   *)
(* of 64 of them: an int holds less than Signed, 2^25, and wraps at 2^26.  *)
Unit == 64
Wrap == 67108864
Signed == 33554432
Forever == 1073741824

(* Variant: a wait that has overflowed is kept signed, and is over at once. *)
WaitTimeSigned(ms) ==
    LET product == (ms * 15625) % Wrap IN IF product < Signed THEN product ELSE 0

(* SET_WAIT: ms * 1000000 in an int of 32 bits, kept in 64 without a sign: *)
(* what has become negative is longer than any wait.                       *)
WaitTime(ms) ==
    LET product == (ms * 15625) % Wrap IN IF product < Signed THEN product ELSE Forever

DefaultWait == 60000
Defaults == [limit |-> NoLimit, amount |-> 1, duration |-> "IOC", wait |-> 937500000, volume |-> 0]

DefaultWish == [limit |-> NoLimit, amount |-> 1, duration |-> "IOC", overruled |-> FALSE,
                wait |-> DefaultWait]

NoOrder == [limit |-> NoLimit, qty |-> 0, duration |-> "DAY"]

Setting == [limit : Limits \cup {NoLimit}, amount : Amounts \cup {1}, duration : Durations,
            wait : {Defaults.wait} \cup {WaitTime(ms) : ms \in WaitTimes},
            volume : VolumeTypes \cup {0}]

SettingsTypeOK ==
    /\ global \in Setting
    /\ order \in [limit : Limits \cup {NoLimit}, qty : Amounts \cup {0, 1},
                 duration : Durations]

SettingsInit == global = Defaults /\ order = NoOrder /\ wanted = DefaultWish

-----------------------------------------------------------------------------

(* Variants of Global::reset: the duration or the wait of an earlier       *)
(* session stays as well.                                                  *)
ResetKeepsDuration == [Defaults EXCEPT !.volume = global.volume, !.duration = global.duration]
ResetKeepsWait == [Defaults EXCEPT !.volume = global.volume, !.wait = global.wait]

(* Global::reset, which BrokerLogin calls: all but vol_type_.              *)
Reset == [Defaults EXCEPT !.volume = global.volume]

SessionBegins ==
    /\ global' = Reset
    /\ wanted' = DefaultWish
    /\ UNCHANGED order

(* BrokerCommand, between orders.                                          *)
Command(setting, wish) ==
    /\ order = NoOrder
    /\ global' = setting
    /\ wanted' = wish
    /\ UNCHANGED order

SetLimit(p) == Command([global EXCEPT !.limit = p], [wanted EXCEPT !.limit = p])

SetAmount(a) == Command([global EXCEPT !.amount = a], [wanted EXCEPT !.amount = a])

SetWait(ms) == Command([global EXCEPT !.wait = WaitTime(ms)], [wanted EXCEPT !.wait = ms])

SetVolumeType(v) == Command([global EXCEPT !.volume = v], wanted)

(* SET_ORDERTYPE: 0, 1, 2, and IOC for all others.                         *)
SetOrderType(t) ==
    LET d == CASE t = 1 -> "FOK" [] t = 2 -> "GTC" [] OTHER -> "IOC"
    IN  Command([global EXCEPT !.duration = d],
                [wanted EXCEPT !.duration = d, !.overruled = FALSE])

(* Command 2001, whatever the duration was.                                *)
DayOrders(on) ==
    LET d == IF on THEN "DAY" ELSE "IOC"
    IN  Command([global EXCEPT !.duration = d],
                IF wanted.duration = "GTC" THEN [wanted EXCEPT !.overruled = TRUE]
                ELSE [wanted EXCEPT !.duration = d])

(* "reset amount and limit price, they will be set again prior playing     *)
(* next order"; and variant: only after an order that was sent.            *)
ForgottenIfSent == IF order = NoOrder THEN global
                   ELSE [global EXCEPT !.amount = 1, !.limit = NoLimit]
Forgotten == [global EXCEPT !.amount = 1, !.limit = NoLimit]

(* BrokerBuy2 of one lot. A market order is a DAY order. For a symbol that *)
(* is unknown, closed or without a trade route nothing is sent.            *)
SendOrder ==
    /\ order = NoOrder
    /\ order' = [limit |-> global.limit, qty |-> global.amount,
                 duration |-> IF global.limit = NoLimit THEN "DAY" ELSE global.duration]
    /\ UNCHANGED <<global, wanted>>

NotSent ==
    /\ order = NoOrder
    /\ global' = Forgotten
    /\ wanted' = [wanted EXCEPT !.limit = NoLimit, !.amount = 1]
    /\ UNCHANGED order

(* BrokerBuy2 returns.                                                     *)
Return ==
    /\ order # NoOrder
    /\ global' = Forgotten
    /\ order' = NoOrder
    /\ wanted' = [wanted EXCEPT !.limit = NoLimit, !.amount = 1]

SetSomething ==
    \/ \E p \in Limits : SetLimit(p)
    \/ \E a \in Amounts : SetAmount(a)
    \/ \E ms \in WaitTimes : SetWait(ms)
    \/ \E t \in OrderTypes : SetOrderType(t)
    \/ \E on \in BOOLEAN : DayOrders(on)
    \/ \E v \in VolumeTypes : SetVolumeType(v)

-----------------------------------------------------------------------------
(* Properties. *)

(* An order has the limit and the amount that were set for it, and none    *)
(* that was set for an earlier one or in an earlier session: a market      *)
(* order does not become a limit order. Its duration is the one that was   *)
(* asked for, or DAY for a market order. Excepted is GTC after command     *)
(* 2001: "this command has no effect if GTC order is used", says           *)
(* src/README.md:97, but it has, and the order is no GTC order then.       *)
OrderIsAsSet ==
    order # NoOrder =>
        /\ order.limit = wanted.limit /\ order.qty = wanted.amount
        /\ \/ order.duration = wanted.duration
           \/ order.duration = "DAY" /\ order.limit = NoLimit
           \/ order.duration \in {"DAY", "IOC"} /\ wanted.overruled

(* Although SET_WAIT overflows and takes one unit for another, no order is *)
(* given up before the time that was set. That depends on the time: there  *)
(* are some for which what is left of the product is too little, such as   *)
(* 133144.                                                                 *)
WaitSuffices == global.wait >= wanted.wait \div Unit
=============================================================================
