----------------------------- MODULE Positions -----------------------------
(***************************************************************************)
(* Positions and the account's balance: PnlReplay, PnlUpdate,              *)
(* handlePnlInfo and getPosition of src/src/client_pnl.cpp, and what       *)
(* BrokerTrade of src/src/rithmic_zorro_plugin.cpp makes of them.          *)
(*                                                                         *)
(* A trade is an order for one contract.  Its fill reaches the plugin      *)
(* twice, without an order between the two: as a line update of the order  *)
(* (OrderFlow), and as an update of the asset's position.  BrokerTrade     *)
(* compares what came of both.                                             *)
(*                                                                         *)
(* Each of the two compare-exchange loops of handlePnlInfo is a step.      *)
(***************************************************************************)
EXTENDS Integers, FiniteSets, SequencesExt

CONSTANTS
    Assets,
    Trades,      \* orders for one contract
    Earlier,     \* those that were filled in an earlier session
    Others,      \* those that another application makes on the account
    AssetOf,     \* the asset of a trade
    Side,        \* "Buy" or "Sell"
    Carried,     \* positions an asset may have from earlier sessions
    Opening,     \* the account's balance at login
    MaxTime,     \* bound: updates that carry a time stamp of their own
    Faults       \* of "Overtake", those that may happen

ASSUME AssetAssumption == IsFiniteSet(Assets) /\ Assets # {}
ASSUME FiniteAssumption == IsFiniteSet(Trades)
ASSUME TradeAssumption == AssetOf \in [Trades -> Assets] /\ Side \in [Trades -> {"Buy", "Sell"}]
ASSUME EarlierAssumption == Earlier \subseteq Trades
ASSUME OthersAssumption == Others \subseteq Trades \ Earlier
ASSUME CarriedAssumption == Carried \subseteq {-1, 0, 1}
ASSUME OpeningAssumption == Opening \in Nat
ASSUME TimeAssumption == MaxTime \in Nat \ {0}
ASSUME FaultAssumption == Faults \subseteq {"Overtake"}

VARIABLES
    net,        \* exchange: position of each asset
    filled,     \* exchange: trades that are filled
    time,       \* exchange: time stamp of the last update
    watched,    \* exchange: the last fill was of an asset that was subscribed
    lines,      \* line updates of fills that are under way
    updates,    \* PnL callbacks that are under way, oldest first
    known,      \* the keys of asset_position_
    position,   \* asset_position_
    pnl,        \* pnl_
    exec,       \* trades whose exec_qty_ has reached qty_
    cb          \* the callback thread: what is left of its PnL callback

vars == <<net, filled, time, watched, lines, updates, known, position, pnl, exec, cb>>

exchange == <<net, filled, time, watched>>

States == {"Clear", "Use", "Ignore"}
Quantities == -(Cardinality(Trades) + 1)..(Cardinality(Trades) + 1)

(* A PnlInfo: a value counts only in the state Use.  The balance counts    *)
(* one for every trade since the login.                                    *)
Balances == 0..(Opening + Cardinality(Trades))

Info == [asset : Assets, ts : 1..MaxTime, held : States, qty : Quantities,
         balanced : States, balance : Balances]

Position == [ts : 0..MaxTime, qty : Quantities]
PnL == [ts : 0..MaxTime, balance : Balances]

CallbackIdle == [pc |-> "idle", infos |-> << >>]

TypeOK ==
    /\ net \in [Assets -> Quantities]
    /\ filled \subseteq Trades /\ lines \subseteq filled /\ exec \subseteq filled
    /\ time \in 1..MaxTime /\ watched \in BOOLEAN
    /\ known \subseteq Assets
    /\ \A i \in DOMAIN updates : \A j \in DOMAIN updates[i] : updates[i][j] \in Info
    /\ position \in [Assets -> Position]
    /\ pnl \in PnL
    /\ cb.pc \in {"idle", "pnl", "position"}
    /\ \A j \in DOMAIN cb.infos : cb.infos[j] \in Info

(* The answer to replayPnl, with every asset and the account's balance,    *)
(* waits from the login on.                                                *)
Replay(held) ==
    [i \in 1..Cardinality(Assets) |->
        LET a == SetToSeq(Assets)[i]
        IN  [asset |-> a, ts |-> 1, held |-> "Use", qty |-> held[a],
             balanced |-> "Use", balance |-> Opening]]

Init ==
    /\ net \in [Assets -> Carried]
    /\ filled = Earlier /\ time = 1 /\ watched = FALSE /\ lines = {}
    /\ updates = <<Replay(net)>>
    /\ known = {} /\ exec = {}
    /\ position = [a \in Assets |-> [ts |-> 0, qty |-> 0]]
    /\ pnl = [ts |-> 0, balance |-> 0]
    /\ cb = CallbackIdle

-----------------------------------------------------------------------------
(* The engine. *)

Balance == Opening + Cardinality(filled \ Earlier)

(* A fill changes position and balance; a flat position is cleared.  Zorro *)
(* trades what it has subscribed to, other applications trade anything,    *)
(* and their line updates are not for our slots.                           *)
Fill(t) ==
    /\ t \notin filled
    /\ AssetOf[t] \in known \/ t \in Others
    /\ time < MaxTime
    /\ LET a == AssetOf[t]
           q == IF Side[t] = "Buy" THEN net[a] + 1 ELSE net[a] - 1
       IN  /\ net' = [net EXCEPT ![a] = q]
           /\ updates' = Append(updates,
                <<[asset |-> a, ts |-> time + 1, held |-> IF q = 0 THEN "Clear" ELSE "Use",
                   qty |-> q, balanced |-> "Use", balance |-> Balance + 1]>>)
           /\ watched' = (a \in known)
    /\ filled' = filled \cup {t}
    /\ lines' = lines \cup ({t} \ Others)
    /\ time' = time + 1
    /\ UNCHANGED <<known, position, pnl, exec, cb>>

(* A change of the market is news of the open PnL alone.                   *)
MarketMoves(a) ==
    /\ time < MaxTime
    /\ updates' = Append(updates, <<[asset |-> a, ts |-> time + 1, held |-> "Ignore", qty |-> 0,
                                    balanced |-> "Ignore", balance |-> 0]>>)
    /\ time' = time + 1
    /\ UNCHANGED <<net, filled, watched, lines, known, position, pnl, exec, cb>>

(* The callback of the engine that may come next: the oldest, or one that  *)
(* overtakes it; news that leaves fields out does not overtake.            *)
Deliverable ==
    {i \in DOMAIN updates :
        i = 1 \/ ("Overtake" \in Faults /\ updates[i][1].held # "Ignore")}

-----------------------------------------------------------------------------
(* The plugin. *)

(* subscribe: from now on updates of the asset are kept.                   *)
Subscribe(a) ==
    /\ a \notin known
    /\ known' = known \cup {a}
    /\ UNCHANGED <<exchange, lines, updates, position, pnl, exec, cb>>

LineUpdate(t) ==
    /\ cb.pc = "idle"
    /\ t \in lines
    /\ lines' = lines \ {t}
    /\ exec' = exec \cup {t}
    /\ UNCHANGED <<exchange, updates, known, position, pnl, cb>>

(* BrokerTrade of a trade that is not known yet: retrieveOrder, in full.   *)
RetrieveOrder(t) ==
    /\ t \in Earlier \ exec
    /\ exec' = exec \cup {t}
    /\ UNCHANGED <<exchange, lines, updates, known, position, pnl, cb>>

(* PnlUpdate brings one PnlInfo, PnlReplay an array of them.               *)
PnlCallback(i) ==
    /\ cb.pc = "idle"
    /\ i \in Deliverable
    /\ updates' = RemoveAt(updates, i)
    /\ cb' = [pc |-> "pnl", infos |-> updates[i]]
    /\ UNCHANGED <<exchange, lines, known, position, pnl, exec>>

Infos(rest) == IF rest = << >> THEN CallbackIdle ELSE [pc |-> "pnl", infos |-> rest]

(* Variant: values are changes.                                            *)
TakenAdds(state, value, old) ==
    CASE state = "Clear" -> 0 [] state = "Use" -> old + value [] state = "Ignore" -> old

Taken(state, value, old) ==
    CASE state = "Clear" -> 0 [] state = "Use" -> value [] state = "Ignore" -> old

(* Variant: the account's values are those of the update that came last.   *)
OlderNever(info) == FALSE
Older(info) == pnl.ts > info.ts

(* Variant: what is old for the account is skipped altogether.             *)
PositionFollowsNewer(info) == info.asset \in known /\ ~Older(info)
PositionFollows(info) == info.asset \in known

(* handlePnlInfo, first loop: the account, which every asset's updates     *)
(* share.  An unknown asset is skipped.                                    *)
HandlePnl ==
    LET info == Head(cb.infos)
    IN  /\ cb.pc = "pnl"
        /\ pnl' = IF info.asset \notin known \/ Older(info) THEN pnl
                  ELSE [ts |-> info.ts, balance |-> Taken(info.balanced, info.balance, pnl.balance)]
        /\ cb' = IF PositionFollows(info) THEN [cb EXCEPT !.pc = "position"]
                 ELSE Infos(Tail(cb.infos))
        /\ UNCHANGED <<exchange, lines, updates, known, position, exec>>

(* Second loop: the asset.                                                 *)
HandlePosition ==
    LET info == Head(cb.infos)
        old == position[info.asset]
    IN  /\ cb.pc = "position"
        /\ position' = IF info.ts < old.ts THEN position
                       ELSE [position EXCEPT ![info.asset] =
                               [ts |-> info.ts, qty |-> Taken(info.held, info.qty, old.qty)]]
        /\ cb' = Infos(Tail(cb.infos))
        /\ UNCHANGED <<exchange, lines, updates, known, pnl, exec>>

(* Neither retrieveOrder nor a line update sets side_: a retrieved trade   *)
(* is taken for a bought one.                                              *)
SideOfOrder(t) == IF t \in Earlier THEN "Buy" ELSE Side[t]

(* Variant: a flat position closes nothing.                                *)
ClosesBeyondFlat(t, qty) == IF SideOfOrder(t) = "Buy" THEN qty < 0 ELSE qty > 0
Closes(t, qty) == IF SideOfOrder(t) = "Buy" THEN qty <= 0 ELSE qty >= 0

(* BrokerTrade answers -1 for a trade that is filled and has no position   *)
(* of its side any more, or its exec_qty_.                                 *)
BrokerTrade(t) ==
    IF t \notin exec THEN 0
    ELSE IF position[AssetOf[t]].ts # 0 /\ Closes(t, position[AssetOf[t]].qty) THEN -1
    ELSE 1

-----------------------------------------------------------------------------

Callback ==
    \/ \E t \in Trades : LineUpdate(t)
    \/ \E i \in DOMAIN updates : PnlCallback(i)
    \/ HandlePnl \/ HandlePosition

Next ==
    \/ \E t \in Trades : Fill(t) \/ RetrieveOrder(t)
    \/ \E a \in Assets : MarketMoves(a) \/ Subscribe(a)
    \/ Callback

Spec == Init /\ [][Next]_vars

(* RApi's thread delivers what it has.                                     *)
FairSpec == Spec /\ WF_vars(Callback)

-----------------------------------------------------------------------------
(* Properties. *)

(* The exchange holds a position of their side.                            *)
OpenTrades ==
    {t \in Trades : IF Side[t] = "Buy" THEN net[AssetOf[t]] > 0 ELSE net[AssetOf[t]] < 0}

(* What is under way: in the callbacks that wait, and what the running one *)
(* has still to do for the account and for the assets.                     *)
Undelivered == UNION {Range(updates[i]) : i \in DOMAIN updates}

Unbooked == Undelivered \cup
    {cb.infos[j] : j \in {k \in DOMAIN cb.infos : cb.pc = "position" => k # 1}}

Unplaced == Undelivered \cup Range(cb.infos)

(* The balance that BrokerAccount answers is the exchange's, as soon as no *)
(* balance is under way and whatever order the updates of the assets came  *)
(* in, if the asset of the last fill was subscribed. Excepted is a balance *)
(* that came with any other asset, as the one of the replay at login does: *)
(* handlePnlInfo drops it, and answers what it had, 0 at first, until the  *)
(* next change of a subscribed asset.                                      *)
BalanceAgrees ==
    watched /\ (\A v \in Unbooked : v.balanced # "Use") => pnl.balance = Balance

(* No position of the asset is under way.                                  *)
PositionTold(a) == \A v \in Unplaced : v.asset = a => v.held = "Ignore"

(* As soon as no position of its asset is under way, BrokerTrade calls a   *)
(* trade that it knows for filled closed exactly when the exchange holds   *)
(* no position of its side: a trade of this session, and a retrieved one   *)
(* that was bought, once a fill has told the position of its asset.        *)
Own == Trades \ (Earlier \cup Others)

ToldBy(t) == {u \in filled \cap Own : AssetOf[u] = AssetOf[t]}

Judged ==
    ((filled \cap Own) \ lines)
      \cup {t \in Earlier \cap exec : Side[t] = "Buy" /\ ToldBy(t) # {}}

VerdictAgrees ==
    \A t \in Judged : PositionTold(AssetOf[t]) =>
        (BrokerTrade(t) = -1 <=> t \notin OpenTrades)

(* A trade whose position stays closed is called closed in the end.        *)
ClosedIsReported ==
    \A t \in Own : (t \in filled \ OpenTrades) ~> (BrokerTrade(t) = -1 \/ t \in OpenTrades)

(* "the trade was completed closed": when BrokerTrade answers -1 for the   *)
(* only trade of its asset, the position at the exchange is not open.      *)
ClosedIsClosed ==
    \A t \in Own :
        BrokerTrade(t) = -1 /\ (\A u \in filled : AssetOf[u] = AssetOf[t] => u = t)
            => t \notin OpenTrades
=============================================================================
