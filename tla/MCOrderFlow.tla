---------------------------- MODULE MCOrderFlow ----------------------------
(* Instances of OrderFlow for TLC. *)
EXTENDS OrderRefinement

(* What Zorro buys: limit orders under a lasting duration (DAY, GTC), and  *)
(* market orders.                                                          *)
RestingAndMarket == {[limit |-> TRUE, lasting |-> TRUE], [limit |-> FALSE, lasting |-> FALSE]}

RestingLimit == {[limit |-> TRUE, lasting |-> TRUE]}

(* What an earlier session left at the exchange.                           *)
OldOrder == {2}
OldOrders == {2, 3}
NoOldOrder == {}
=============================================================================
