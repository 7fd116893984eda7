# A verification project for the Rithmic plugin for Zorro

The plugin (`src/src/`) is a DLL through which the trading program Zorro uses
the Rithmic market: Zorro calls `Broker...` functions, the plugin calls the
engine of RApi, and RApi calls the plugin back on a thread of its own.  This
directory holds TLA+ modules that model its protocols, TLC runs that check
them on small instances, and proofs of theorems that hold for every instance.

## 1. Inventory

### Threads and what they share

There are three threads.  **Zorro's thread** runs the `Broker...` functions
(`rithmic_zorro_plugin.cpp`); several of them send something to the engine and
then wait in a loop that calls `BrokerProgress` (which returns 0 when the user
gives up) until a shared word changes.  The **callback thread** of RApi runs
the handlers of `RithmicClient` one at a time.  A login that succeeds starts a
**thread for the logos**, which lives until the window that `g_hDlg` names is
gone.  Locks are few; the shared state is atomic words and
`atomic<shared_ptr<T>>` slots that a compare-exchange loop copies, changes and
replaces.

| Component | State | Operations | Talks to |
|---|---|---|---|
| Orders: `client_order.cpp`, `order.h`, `BrokerBuy2`, `BrokerTrade`, `DO_CANCEL` | `orders_`, `next_order_index_`, `orders_by_id_`, `pending_order_request_`, per order `order_num_`, `exec_qty_`, `pending_cancel_`, `cancelled_`, `completion_reason_` | `sendOrder`, `cancelOrder`, `retrieveOrder`, `subscribeOrder`; `LineUpdate`, `FillReport`, `CancelReport`, `RejectReport`, `FailureReport`, `NotCancelledReport`, `OpenOrderReplay`, `SingleOrderReplay` | waits on `pending_order_request_`, which the callbacks reset |
| Session and requests: `client.cpp`, `client_clert.cpp`, part of `client_md.cpp` | `login_status_`, `account_received_`, `request_status_` | `login`, `waitForRequest`; `Alert`, `AccountList`, `TradeRouteList` | `request_status_` is one word for every request |
| History: `client_histories.cpp`, `BrokerHistory2` | `ticks_`, `n_ticks_requested_`, `asset_no_data_` | `replayBars`; `Bar`, `BarReplay` | waits in `waitForRequest` |
| Quotes: `client_md.cpp`, `client_trade.cpp`, `symbol.h`, `BrokerAsset` | `symbols_` with `top_`, `last_trade_`, `ready_`; `price_type_` | `subscribe`, `BrokerAsset`; quote, trade and market mode callbacks | posts `WM_APP+1` to Zorro's window; Zorro answers with `BrokerAsset` |
| Positions and balance: `client_pnl.cpp`, `pnl.h`, `BrokerAccount`, `BrokerTrade`, `GET_POSITION` | `pnl_`, `asset_position_` | `subscribePnl`, `getPosition`; `PnlReplay`, `PnlUpdate` | `BrokerTrade` compares it with what came of the orders |
| Settings: `global.h`, `BrokerCommand`, `BrokerBuy2` | `Global`, which outlives the client | `SET_LIMIT`, `SET_AMOUNT`, `SET_WAIT`, `SET_ORDERTYPE`, `SET_PRICETYPE`, command 2001, `Global::reset` | read by orders, history and quotes |
| Login and its dialog: `BrokerLogin`, `rithmic_login_dialog.cpp` | `savedServer`, `savedGateway`, the combo boxes, the registry | `ShowLoginDialog`, `LoginDialogProc`, `populateGateway` | offers the configuration's servers; its answer goes to `setServer` |
| Configuration: `rithmic_system_config.cpp`, `config.h` | servers and gateways | `servers`, `server_gateways`, `setServer` | `setServer` throws for a choice it does not have |
| Logos: `rithmic_logos_dialog.cpp` | `g_hDlg` | `ShowRithmicLogosDialog`, `CloseRithmicLogosDialog` | shown by a login, closed by the logout |
| Copyright dialog, reading of files, DLL entry, helpers | no state that a protocol uses | | |

### What is hard

* `pending_order_request_` is tested and stored in two steps by the callback
  thread, and set again by Zorro's thread after an abandoned wait.
* A limit order whose wait is over leaves its cancel in its slot for the
  callback thread, which rewrites the same slot all the time.
* `request_status_` is overwritten by every answer, whoever asked.
* Order callbacks and position callbacks tell the same fill twice, in no
  order; updates of all assets share the time stamp of the account.
* Quote, ready flag and window message are three steps.
* Orders of an earlier session are restored at login, under another client
  order id than their callbacks carry.
* `Global` outlives the session; limit and amount are meant for one order, and
  `BrokerBuy2` has many ways out.
* The login dialog keeps indices of one list and uses them on another; what it
  returns may be unknown to the configuration, and nobody catches the exception.
* `g_hDlg` is one word for the windows of several logins.
* Calls that may never be answered: a PnL replay (10 s), a send (`wait_time_`),
  a cancel and a replay of one order (no limit but the user).

### What makes each part correct

* Orders: a callback reaches the slot that `BrokerTrade` and `DO_CANCEL` read;
  a call ends only for its own answer; an order that `BrokerBuy2` disowns is
  dead; a fill is recorded and never taken back; a timed-out limit order leaves
  the market.
* Session, History: a session has everything it waited for; an answer completes
  its own request; a history call returns its bars and no others.
* Quotes: no answer without a price; Zorro hears of every announced change.
* Positions: balance, positions and the verdict "closed" agree with the
  exchange, once a subscribed asset has been traded.
* Settings: an order is sent as it was set, and nothing but the type of volume
  is carried into the next order or session.
* Login: the session is with the server and gateway that were confirmed; the
  logos go with the session.

## 2. Modules

| Module | Models |
|---|---|
| `OrderEngine` | the order side of the engine and the exchange, external: orders by number, one context per order, a queue of callbacks |
| `OrderFlow` (extends `OrderEngine`) | orders: Zorro's thread, the callback thread, the slots |
| `OrderContract` | abstract: what Zorro may rely on about a trade, without threads, callbacks and requests |
| `OrderRefinement` (extends `OrderFlow`) | the mapping that makes `OrderFlow` an implementation of `OrderContract` |
| `OrderFlow_proofs`, `OrderTruth_proofs`, `OrderAnswer_proofs`, `OrderRefinement_proofs` | theorems about orders, each module using the one before |
| `Session` | one client: login, `waitForRequest`, history calls, logout |
| `LoginDialog` | the choice of server and gateway, and the registry |
| `Settings` | `BrokerCommand`, `Global` and what `BrokerBuy2` makes of them |
| `Plugin` (extends `Session`, instantiates `LoginDialog` and `Settings`) | the life of the process: login after login, with dialog, settings and logos |
| `Session_proofs`, `Plugin_proofs` | theorems about a client, and about all clients of a process |
| `MarketData`, `MarketData_proofs` | quotes |
| `Positions`, `Positions_proofs` | positions, balance, `BrokerTrade`'s verdict, on trades of an earlier session too |
| `MCOrderFlow`, `MCSession`, `MCPlugin`, `MCPositions` | values of constants for TLC |

Names are those of the source where TLA+ allows it: an action is named for the
handler or the phase of the call it models.  A definition whose comment says
"Variant" is no part of the specification: it is a mutated form of the
definition below it, kept to show that a property depends on that definition.

### Steps

* A compare-exchange loop recomputes its body from the value it reloads, so it
  is one step, at the exchange that succeeds (`LineApplied`, `ReportApplied`,
  `HandlePnl`, `HandlePosition`).  `handlePnlInfo` has two loops: two steps.
* `if (pending_order_request_ == id) pending_order_request_ = 0` is two steps,
  `Test` and `Reset`.
* `waitForRequest` is two steps, `Answered` (the load that ends the loop) and
  `Return` (the store of `NoRequest`).
* A turn of a waiting loop that changes nothing is no step; its exits by
  `BrokerProgress`, timeout and answer are actions of their own.
* Taking a slot, setting the pending request and the call of the engine are one
  step of `SendOrder`: before the call no callback about the order exists.
* `BrokerAsset` loads the quote and the last trade in two steps; a callback
  stores a quote, sets the ready flag and posts the message in three.

### What stands for what

`orders[s]` is slot `s` of `orders_`; `main` is the place of Zorro's thread,
with the slot and the number it works on; `cb` is what is left of the running
callback; `byId` is `orders_by_id_`; `returned[s]` says through which return
statement `doSendOrder` left, from which `BrokerBuy2(s)` computes the answer to
Zorro; `returned[s]` becomes "Accepted" only for an order that Zorro takes for a
trade.  In `Session`, `step` is the function `login` or `replayBars` is in and
`result` is the status that `waitForRequest` is about to return.  In `Plugin`,
`login` is Zorro's thread in `BrokerLogin` before it calls the engine, `chosen`
what `ShowLoginDialog` returned, `env` what `setServer` connects to, and
`logos[l]` the thread of login `l`; the client's part of the state is that of
`Session`, set back (`Fresh`, `Client`) when a client is made or destroyed.  In
`Settings`, `wanted` records what Zorro asked for, by the names of the commands
and by `src/README.md:97`, which says that command 2001 has no effect on a GTC
order: `wanted` stays GTC then and is marked `overruled`.  The code never reads
it.  In `LoginDialog`, `list` is the content of the gateway box
and `saved` the pair `savedServer`, `savedGateway`.  In `MarketData`, `told` is what `BrokerAsset` last answered and `due` the assets
Zorro asks about after a message.  In `Positions` one quantity stands for the
fields of a `PnlInfo` that are taken in the same way (`CLEAR`, `USE`,
`IGNORE`).  `watched` records whether the asset of the last fill was subscribed;
`Others` are trades of other applications on the account, which may be of any
asset.

### The contract and the mapping

`OrderContract` has, per order number, the answer of `BrokerBuy2`, where the
order is at the exchange, what was filled, what `BrokerTrade` goes by (`told`)
and whether it calls the order cancelled.  Its actions allow what Zorro may see:
an order is asked for, worked, accepted, disowned or declined, and reported, and
a login reports several earlier orders at once (`Restore`).  A disowned order is
gone and was not filled; `told` never exceeds what was filled and never falls;
only an order that the exchange cancelled is called cancelled.  Its fairness
promises that every order is answered and every fill of a trade of this session
reported.

The contract has two clauses that the code does not keep under faults, and the
constant `Lapses` names those that are forgiven: with "Forsakes" the plugin may
disown a live order, with "TakesBack" `told` may fall.  Everything else is
promised whatever happens.

`OrderRefinement` reads these off `OrderFlow`: the answer for number `n` from
`returned` of slot `n - FirstNum`, `market` and `filled` from the exchange,
`told` and `cancelled` from the slot that `orders_by_id_` names for `n`.  All of
the plugin's own bookkeeping (`pending_order_request_`, contexts, slots, queue)
is hidden.  An order of an earlier session, restored at login or retrieved,
counts as accepted.  `Forgiven` makes the lapses depend on the faults of the
instance: none without faults, "Forsakes" with any fault (an abandoned or
timed-out `doSendOrder`, a failed call of the engine and a dangling completion
reason all make `BrokerBuy2` answer without an order that may live), "TakesBack"
only with `Reorder` (a late `FillReport`).

### Assumptions about code outside the repository

The engine delivers callbacks one at a time; the context of a callback is read
when it is delivered; `cancelOrder` with a null context keeps the context of the
order; `pCompletionReason.pData` is null when there is no reason; a change of an
order is told by a line update and a report in either order; line updates with
an `llQuantityToFill` of 0 change nothing; a line that is not completed has the
status OPEN; fills carry position and balance in their PnL update, moves of the
market leave them to `IGNORE`.  Zorro asks for trades that `BrokerBuy2`
answered, or that it kept from an earlier session, and logs out before it logs
in again.  The registry can be written; every server of the configuration has a
gateway.

## 3. Runs

Faults are switched on per run by the constant `Faults` (and `PluginFaults`), so
that each property is checked under the widest set under which the code keeps
it.

| Run (cfg) | Question | Properties | Verdict |
|---|---|---|---|
| `orders_clean` (`OrderFlow_clean`) | without timeouts and abandoned calls, does the protocol of `pending_order_request_` give Zorro what the contract promises, and does every wait have an answer to come? | `DisownedIsDead`, `ReplayIsAwaited`, `WaitIsOwed`, `ResetEndsItsRequest`, `OnlyRefusedCancelsHang`, `KeepsContract` | holds |
| `orders_faults` (`OrderFlow_faults`) | what survives failing engine calls, abandoned waits and restored orders, of the bookkeeping and of the contract? | `TypeOK`, `RegisteredIsHeard`, `WaitOwnsPending`, `FillsRecorded`, `FillsNeverFall`, `HonoursContract` | holds, but for a restored order whose `setOrderContext` failed |
| `orders_reordered` (`OrderFlow_reordered`) | when callbacks overtake each other: is the cancel of a timed-out limit order lost, is a fill or a cancel invented, is more of the contract broken than it forgives? | `ArmedCancelKept`, `NothingInvented`, `ArmedLeavesMarket`, `HonoursContract` | holds |
| `session_in_time` (`Plugin_intime`) | over several logins: does every answer complete its own request, and does a session keep to itself? | `PluginTypeOK`, `LoginIsComplete`, `AnswerIsOwn`, `BarsFit`, `SessionStartsClean`, `ConnectsAsConfirmed`, `ThrowsWithoutGateway`, `OrderIsAsSet`, `WaitSuffices`, `ReopensAsConfirmed`, `HistoryIsOwn`, `CallsEnd`, `LogosGo` | holds if the PnL replay is answered within its 10 s or never; `vol_type_` and GTC after 2001 excepted |
| `quotes` (`MarketData_quotes`) | does Zorro get prices, and all of them, whenever `SET_PRICETYPE` is called? | `TypeOK`, `NoPriceMissed`, `AnswersPrice`, `PriceArrives` | holds |
| `positions_overtaken` (`Positions_overtaken`) | do updates that overtake each other leave the right balance and verdict? | `TypeOK`, `BalanceAgrees`, `VerdictAgrees`, `ClosedIsReported` | holds after a fill of a subscribed asset |
| `orders_lostcancel` | is a timed-out limit order cancelled? | `TimedOutLimitIsCancelled` | violated |
| `orders_unsent` | is an order that `BrokerBuy2` disowns dead, with timeouts? | `DisownedIsDead` | violated |
| `orders_restored` | are fills of restored orders recorded? | `RestoredFillsRecorded` | violated |
| `session_late_pnl` (`Session_latepnl`) | and if the PnL replay is late? | `HistoryIsOwn` | violated |
| `login_dialog` (`Plugin_dialog`) | does coming back to the saved server bring its saved gateway back? | `SavedGatewayReturns` | violated |
| `positions_lag` (`Positions_lag`) | is a trade closed when `BrokerTrade` says so? | `ClosedIsClosed` | violated |

### What the violated runs show

1. `orders_lostcancel`: the `cancelOrder` at `client_order.cpp:360` looks the
   order up in a map into which it is entered only at `:393`; it finds nothing,
   and the order stays in the market.  The theorem `TimedOutCancelFindsNothing`
   says so for every instance.
2. `orders_unsent`: a callback tests `pending_order_request_` for the order
   before, the wait for that order times out, the next order is sent, and the
   store of 0 ends its wait: it is reported as not sent and is alive.
3. `orders_restored`: the id of a restored order goes through `atoi`, which
   cannot hold it, so the order's callbacks are dropped as a mismatch.
   `RestoredOrdersStayAsTheyWere` proves that no step ever changes what the slot
   of such an order says, and `RestoredCancelsHang` that a `DO_CANCEL` of it
   waits for ever.
4. `session_late_pnl`: the late answer to the PnL replay of the login completes
   a history request before its bars have come.
5. `login_dialog`: `CBN_SELCHANGE` looks the saved gateway up in the box that
   still has the gateways of the server before, and uses the index on the new
   list: another gateway is selected, or none.  A dialog confirmed with none
   makes `setServer` throw, and `BrokerLogin` does not catch it;
   `ThrowsWithoutGateway` says that nothing else gets there, and
   `SavedGatewayReturnsToEqualLists` that the lookup in the wrong list is the
   only cause: if all servers have the same gateways, the saved one comes back.
6. `positions_lag`: between fill and position update a trade that was just
   opened is answered as closed.

### Bounds

* `MaxOrders = 2` (shared with restored and retrieved orders): the hazards
  relate an order to the one before it, or to itself; `orders_lostcancel` needs
  one.
* `MaxInbox` 2 or 3 callbacks under way: a change is told by two callbacks, and
  three let those of two changes overtake each other.  The theorems do not
  depend on it.
* `OldNums` has one order of an earlier session, or two in `orders_faults`: one
  that `login` restores (`Tagged`) and one that `BrokerTrade` retrieves.
* `Qty` 1, and 2 in `orders_reordered`, where partial fills matter.
* `MaxCancels` 1.  It is 0 in `orders_reordered`: with a bounded queue an
  endless alternation of cancels and refusals would keep the engine from
  emitting what it owes, which no real queue does.
* `orders_clean` has all four ways in which an order or a cancel is refused.
  `OnlyRefusedCancelsHang` excepts the one case that the code leaves hanging:
  `NotCancelledReport` releases nobody, so a cancel that is refused by it waits
  for the user.
* `FillsNeverFall` is checked with callbacks in order: `FillReport` ignores
  `last_update_time_`, and with `Reorder` it does take fills back.  What is left
  under `Reorder`, that nothing is invented, is `NothingInvented`.
* `ProcessBase`, `OldBase`, `IntMax` stand for `pid << 32` and `INT_MAX`; only
  their order matters, and the theorems assume no more.
* `Session`: `MaxBars`, `Sizes`, `MaxCalls` allow fewer, as many and more bars
  than asked for, and a second call after an abandoned one.  In `session_in_time`
  a call asks for one bar and gets none, one or two.
* `Plugin`: `MaxLogins = 2`, since what is carried over is carried from one
  session to the next.  Two servers with one and two gateways that share a name,
  and registries that name a gateway or a server that is gone.  One limit price,
  one amount besides 1, two of the order types (IOC and GTC), one type of volume
  besides 0.
* `WaitTimes`: `SET_WAIT` multiplies milliseconds by 1000000 in an `int`.  2148
  is the first value that overflows (to a wait without end); some larger ones,
  such as 4295, come round to a small positive wait (32.7 s).  `WaitsSuffice`
  proves the property for all times up to 133143 ms; 133144 comes round to
  13.8 s, less than it asks for, so no longer interval will do.  Since the result is compared with
  milliseconds, and the default is 60000000000 of them, only `SET_WAIT(0)` and
  values that come round give waits that run out: this is what the fault
  `Timeout` of `OrderFlow` stands for.
* `MarketData`: two assets, two prices, the price types 0 (ask) and 2 (last
  trade), set at any time; `BrokerAsset` and the callbacks treat price type 1
  as 0.
* `Positions`: two trades that close each other, one of another asset and one of
  an earlier session, and one that another application makes, of an asset that
  Zorro need not have subscribed to; `MaxTime` 4 time stamps (3 in
  `positions_lag`); positions of 0 or 1 and a balance of 1 carried over, so that
  the balance differs from the 0 that `pnl_` starts with.

### What the faults leave out

* `session_in_time` lacks `PnlLate` (the finding above) and `AbortHistory`: an
  abandoned history call leaves an answer under way that `BarsFit` and
  `HistoryIsOwn` do not survive.  It also lacks `QuickLogout`: a logout before
  the logos have their window leaves that window, since `g_hDlg` is still empty
  when it is to be destroyed.
* `CallsEnd` excepts the wait for the account list, which has no exit but
  `BrokerProgress` (`WaitsForAccount`).
* The exception that leaves `BrokerLogin` ends the behaviour (`login =
  "thrown"`): what Zorro does with it is not known.
* `RegisteredIsHeard` excepts an order that `login` restored and whose
  `setOrderContext` failed (`client_order.cpp:173-176`, only logged).  `login`
  registers it all the same, and its callbacks carry no context until a cancel of
  it hands the engine the slot (`ContextRefused`).
* `SessionStartsClean` excepts `vol_type_`: `Global::reset` (`global.h:61-74`)
  forgets it, so `BrokerAsset` answers the volume of the type that an earlier
  session set.  `handle_` and the log level outlast a session as well and are not
  modelled.
* `OrderIsAsSet` excepts GTC after command 2001.  `src/README.md:97` says "This
  command has no effect if GTC order is used", but
  `rithmic_zorro_plugin.cpp:509-522` sets DAY or IOC whatever was set before, and
  the order is no GTC order then.  This is a disagreement of the code with its
  document, kept as a hazard in PROJECT.json.
* `BalanceAgrees` speaks only while the last fill was of a subscribed asset
  (`watched`).  `handlePnlInfo` drops an update of any other asset with the
  account's balance in it (`client_pnl.cpp:80-84`).  The replay at login, if it
  is not late, comes before anything is subscribed and is dropped: `BrokerAccount`
  answers 0 until an update of a subscribed asset brings the balance, and after a
  trade of another application in another asset it answers an old one.
* `BalanceAgrees` and `VerdictAgrees` speak from the moment on when no balance,
  or no position of the asset, is under way, whatever else is.  They let only
  complete updates overtake; an update that ignores a field and overtakes one that
  sets it makes the code drop
  the latter (a hazard in PROJECT.json).

`CHECK_DEADLOCK FALSE` is set everywhere: when the bounds are used up and
nothing is under way, the system is at rest.

### Fairness

* `OrderFlow`: Zorro's thread proceeds inside a call, RApi's thread delivers
  what it has, and the engine does what it owes (an answer to a new order, the
  end of an order that does not rest, an answer to a cancel).  A resting order
  need never be filled, and no fault is fair.  `KeepsContract` derives the
  fairness of `OrderContract` from it.
* `Session`, `Plugin`: Zorro's thread returns from a call of the engine and from
  `BrokerBuy2` and proceeds inside calls that wait; the engine logs in, sends
  the account list and answers; with `PnlLost` it may answer the PnL replay by
  nothing; the thread of the logos runs.  The user need do nothing: a dialog may
  stay open for ever, and Zorro need not log out.
* `MarketData`: handlers end; a waiting `BrokerAsset` gives up after its 10 s;
  Zorro takes its window's messages between calls and asks about each asset
  after one (strong fairness: calls of other assets come in between).
* `Positions`: RApi's thread delivers what it has.

## 4. Theorems

Everything below is proved for all values of the constants that satisfy the
named assumptions of the modules, and where nothing else is said for all faults.

### Orders: who owns what (`OrderFlow_proofs`)

* `TypeCorrect`: `Spec => []TypeOK`.
* `RegisteredOrdersAreHeard`: `Spec => []RegisteredIsHeard`.  The map
  `orders_by_id_` and the contexts of the engine name the same slot, whatever
  else fails or overtakes; the exception is a restored order that the engine was
  given no context for.
* `WaitingCallOwnsPending`: `Spec => []WaitOwnsPending`.
* `TimedOutCancelFindsNothing`: the lookup after a timeout always fails.
* `ArmedCancelIsKept`: if the engine's calls do not fail, `Spec =>
  []ArmedCancelKept`.

`RegisteredIsHeard` is not inductive: it must be known before an order is
registered that its slot is its own.  The inductive invariant `Inv` adds who
owns what:

* `CtxOK`: a slot that the context of an order names belongs to that order, so
  no callback of another order matches its client order id (tags of different
  orders differ, and no tag survives `atoi`, by `NumAssumption` and
  `BaseAssumption`);
* `FreshOK`: nothing is registered for slots that were not taken, and until the
  login is over only restored orders have slots (`LoginBooks`);
* `CallOK`: the slot of the call under way is bound to its order, from the send
  to the return, and that order is not yet registered (`Sending`), which is
  also why the cancel after a timeout finds nothing.

There is one lemma per group of actions that can disturb a part, and one
`...Step` lemma per part.  For `ArmedCancelIsKept`, `Kept` also covers the time
between the decision to leave the cancel and the return of `doSendOrder`; it is
preserved by all writers of the slot because each copies the flag it reloads.
The assumption that the engine's calls do not fail is needed: `LineUpdate`
clears the flag even if the engine refused the cancel.

### Orders: what the slots say (`OrderTruth_proofs`)

* `NothingIsInvented`: `Spec => []NothingInvented`, with every fault.  `Truth`
  says of every callback under way and of every slot bound to an order that what
  it tells was so at the exchange: fills it counts were made, an end it reports
  has come.  `Unsent` adds that orders of slots not yet taken are unknown there.
* `FillsAreRecorded`: without `Reorder`, `Spec => []FillsRecorded`.  `Counted`
  says that a slot that hears its order has counted all fills or a `FillReport`
  for it is in the queue, and that every callback that counts fills tells all of
  them or has such a report behind it.
* `FillsGoUp`: without `Reorder`, `Spec => FillsNeverFall`.  `Ascends` orders the
  queue: no callback tells less than one before it (`Grows`), none tells less
  than the slot it is for (`Ahead`), and replays and fresh slots fit in
  (`HistoryIsAsked`, `Blank`).
* `RestoredOrdersStayAsTheyWere`, with every fault: no step changes id, quantity
  or cancel mark of a slot that `login` restored.  The invariant is `Deaf`: no
  history is under way to such a slot, so nothing that could be applied to it is.

### Orders: whose answer it is (`OrderAnswer_proofs`)

* `ReplayEndsAreAwaited` and `ResetsEndTheirRequest`, if no wait is abandoned or
  runs out and the engine takes what it is given (`Undisturbed`).  The invariant
  is `Handshake`: a pending request has its caller waiting (`OnlyWaiting`), a
  test that succeeded still stands when the store comes (`EndsPending`), and at
  most one replay is under way (`OneReplay`).  With timeouts the second fails:
  that is the finding of `orders_unsent`.
* `RestoredCancelsHang`, under the same assumption: once a `DO_CANCEL` of a
  restored order waits, it waits for ever, `Spec => [](HangsOnRestored =>
  []HangsOnRestored)`.  This is a safety property: the way out is closed at every
  step (`NobodyEnds`: no callback has tested the id that `atoi` made).
* `DisownedOrdersAreDead`, without faults: the order that a `doSendOrder`
  without result leaves behind is gone.  `Answers` relates every way out of
  `doSendOrder` to the exchange; it rests on `Inv`, `Truth` and `Handshake`.

### Orders: the contract (`OrderRefinement_proofs`)

* `OrdersKeepTheContract`: `Spec => HonoursContract`, that is `Spec =>
  Promise!Contract`, for every set of faults and whatever orders are restored.
  Every action of `OrderFlow` maps to `Ask`, `Work`, `Accept`, `Decline`,
  `Disown` or `Report` of one order, to `Restore`, or to no step.  The invariant
  is `Reached`: `Inv`, `Truth`, `Unsent` and `Registered` (an order of this session is in
  `orders_by_id_` if it was accepted, and the call that is under way has sent its
  order) always, `Ascends` unless callbacks overtake, `Answers` if no fault
  happens.  So the theorem says for each fault what is left of the contract.
* `NoAnswerIsLost`: if no call gives up and the engine takes what it is given
  (`Undisturbed`), `Spec => []WaitIsOwed`, also when callbacks overtake each
  other.  While `doSendOrder`, `cancelOrder` or `retrieveOrder` waits, the
  callback thread is about to end the wait, the queue holds a callback that will,
  or the engine owes one.  Two waits are excepted: a cancel that
  `NotCancelledReport` answered, and one of a restored order.  This is the safety
  half of `OnlyRefusedCancelsHang`; the other half is that what is under way
  arrives, which is fairness.  The property is not inductive: that a callback
  counts as an answer depends on what its slot says when it comes.  `Answerable`
  adds that a resting order that is waited for has heard no line yet, so that the
  first is not stale (`SendWaits`), that an order whose cancel is waited for is
  not marked cancelled (`CancelWaits`) unless its `CancelReport` is under way
  (`CancelHeard`), that only registered orders are cancelled (`Uncancelled`) and
  none by a line update (`NoneArmed`), and that history never comes for an order
  that was sent (`HistoryIsOld`).

### Session and process (`Session_proofs`, `Plugin_proofs`)

* `SessionTypeCorrect`, and `LoginsAreComplete` with every fault: a login that
  succeeds has its connections, account, trade routes and open orders (nothing is
  said of the PnL replay, which `login` does without).  `LoginInv`
  says which answers may still be owed at each step of `login` (`Owed`), what
  has been passed (`Passed`), and that the status that was loaded is the own one
  (`OwnAnswer`).
* `AnswersAreOwn`, `BarsAlwaysFit`, `HistoriesAreOwn` for `Punctual` sessions,
  without `PnlLate` and `AbortHistory`.  `HistoryInv` follows the bars of the
  call under way from the engine to `ticks_`.
* `Plugin_proofs` carries these over to all sessions of a process
  (`EveryLoginIsComplete`, `EveryAnswerIsOwn`, `EveryHistoryIsOwn`: a step of
  `Plugin` is a step of `Session`, leaves the client alone, or makes a new one)
  and proves `PluginTypeCorrect`, `SessionsConnectAsConfirmed`,
  `OnlyNoGatewayThrows`, `SessionsStartClean` and `OrdersAreAsSet`.  The
  invariant `PluginInv` adds `LoginBooks` (an open dialog shows gateways of the
  server it shows, and a choice is configured or lacks its gateway),
  `SettingBooks` (`Global` is what Zorro has asked for, or what command 2001 made
  of a GTC), `OwnTypes` and
  `LogosBooks`.  `ServerAssumption` is the one about the configuration above.
* `WaitsSuffice`: for `WaitTimes` within 0 .. 133143, `PluginSpec =>
  []WaitSuffices`.  Its arithmetic is one lemma about a product modulo 2^32
  (`WaitTimeSuffices`); the rest is that only `SET_WAIT` and `Global::reset` set
  the time.
* `DialogReopensAsConfirmed`: `PluginSpec => ReopensAsConfirmed`, for every
  configuration: between sessions the registry is what was connected to
  (`Remembers`), however many dialogs were cancelled or logins failed.
* `SavedGatewayReturnsToEqualLists`: the violated property of `login_dialog`
  under the assumption that all servers have the same gateways.

### Quotes and positions (`MarketData_proofs`, `Positions_proofs`)

* `TypeCorrect`, `PricesAreNotMissed`, `AnswersHaveAPrice`.  `Ready`: each ready
  flag has a quote behind it; `Current`: a price that Zorro does not know is
  stored by a handler that will post, is announced by a posted message, is asked
  about, or is about to be answered.
* `PositionsTypeCorrect`, `BalanceAgreesOnceTold`, `VerdictAgreesOnceTold`, for
  finitely many trades and assets.  `AccountInv`: for some time `last` (that of
  the last change), and if the asset of that change was subscribed, the account is
  as of `last`, or an update that will make it so is under way, and no later one
  changes it; `AssetInv(a)` says the same of each
  asset, on the second of the two loops.  Both results are per value: the balance
  agrees although positions are still under way, and the verdict on a trade
  although updates of other assets are.

### Only model-checked

The liveness properties (`OnlyRefusedCancelsHang`, `ArmedLeavesMarket`,
`CallsEnd`, `LogosGo`, `PriceArrives`, `ClosedIsReported`) and the fairness part
of `KeepsContract`, since the proof system does not handle fairness and
`ENABLED`.  Every other property of a run that holds is a theorem, under
assumptions that the run's constants satisfy.  The properties that are violated
are refuted by their runs; what is proved about them is named in section 3.

## 5. Not modelled

* Undefined behaviour of containers that both threads use (`symbols_`,
  `asset_position_`, `ticks_`): any outcome is possible.
* More than `MAX_ORDER_NUM` orders; the index is not checked.
* Client order ids that a second session of the same process repeats:
  `OrderFlow` is about one client.
* Stop orders: `BrokerBuy2` passes no trigger price.  Orders of 0 lots, which
  return before limit and amount are reset; Zorro sends none.
* Contents of bars and of history requests, volume, spread, `can_trade_`;
  symbol, multiplier, leverage, texts and window handle of `BrokerCommand`; the
  log level.  The type of volume is modelled as a setting only.
* `checkAgreements`, `getRefData`, `getPriceIncInfo` and their callbacks, which
  nothing calls or nothing depends on.
* The copyright dialog, which has no state; bitmaps and positions of windows;
  the reading of configuration files; logging; loading of the DLL.
* A symbol that becomes ready only by `MarketMode`, which posts no message:
  `PriceArrives` is about assets that Zorro has had a price of.
* A sold trade of an earlier session: a retrieved order keeps the side `Buy`, so
  `BrokerTrade` judges it by the wrong side.  `Positions` models this
  (`SideOfOrder`), and `VerdictAgrees` is about bought ones.

## 6. Plan

Done: `OrderEngine`, `OrderFlow` with its runs and proofs; `OrderContract` and
the refinement; `Session`, `LoginDialog`, `Settings` and `Plugin`; `MarketData`
and `Positions`; proofs of the safety properties of all of them.

What would come next:

1. `OrderFlow` below `Plugin`: the client order ids of two sessions of one
   process, and the callbacks of the first that the second may get.
2. `OrderFlow` composed with `Positions`, so that fill and position of an order
   come from one exchange.
3. Safety halves of the other liveness properties, as `WaitIsOwed` is one of
   `OnlyRefusedCancelsHang`: for `ArmedLeavesMarket` (a live order whose cancel
   is armed has a line update to come) and `CallsEnd` (a request that is waited
   for is owed an answer).
