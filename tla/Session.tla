------------------------------ MODULE Session ------------------------------
(***************************************************************************)
(* A session with the Rithmic engine: RithmicClient::login with Alert,     *)
(* AccountList, TradeRouteList, OpenOrderReplay and PnlReplay, and after   *)
(* it the history calls, replayBars with Bar and BarReplay                 *)
(* (src/src/client.cpp, client_clert.cpp, client_md.cpp, client_pnl.cpp,   *)
(* client_histories.cpp).                                                  *)
(*                                                                         *)
(* All of them wait in waitForRequest for one word, request_status_, that  *)
(* every answer overwrites, whoever asked.                                 *)
(*                                                                         *)
(* Faults: "EngineFails", a call of the engine returns 0; "Abort" and      *)
(* "AbortHistory", BrokerProgress returns 0 in login or in replayBars;     *)
(* "Broken", a connection fails; "Refused", OpenOrderReplay has an error   *)
(* code; "PnlLost", replayPnl is never answered; "PnlLate", it is answered *)
(* after the 10 s that subscribePnl waits; "NoAccounts", the list of the   *)
(* user's accounts may be empty.                                           *)
(***************************************************************************)
EXTENDS Naturals, Sequences, SequencesExt

CONSTANTS
    Faults,      \* which faults may happen
    MaxBars,     \* bound: bars that the engine has for one request
    Sizes,       \* nTicks that BrokerHistory2 is asked for
    MaxCalls     \* bound: calls of BrokerHistory2

FaultKinds == {"EngineFails", "Abort", "AbortHistory", "Broken", "Refused", "PnlLost", "PnlLate",
               "NoAccounts"}

ASSUME FaultAssumption == Faults \subseteq FaultKinds
ASSUME HistoryAssumption == MaxBars \in Nat /\ MaxCalls \in Nat /\ Sizes \subseteq Nat

Connections == {"MarketData", "TradingSystem", "IntradayHistory", "PnL"}
Answers == {"Routes", "Orders", "Pnl"}

VARIABLES
    step,         \* Zorro's thread: the function it is in, or what it waits for
    loginStatus,  \* login_status_
    account,      \* account_received_
    accounts,     \* engine: the user has an account
    request,      \* request_status_
    result,       \* the status that waitForRequest is about to return
    known,        \* the replays that were handled without an error
    due,          \* engine: answers to login's requests
    history,      \* engine: bars and ends of history, oldest first
    ticks,        \* ticks_
    asked,        \* n_ticks_requested_
    noData,       \* the asset is in asset_no_data_
    call,         \* number of the last call of replayBars
    sent          \* how many bars the engine sends for it

loginVars == <<loginStatus, account, accounts>>
historyVars == <<history, ticks, asked, noData, call, sent>>
vars == <<step, loginVars, request, result, known, due, historyVars>>

Waits == {"routes", "orders", "pnl", "bars"}
Asks == {"listTradeRoutes", "subscribeOrder", "subscribePnl", "replayBars"}
(* closed: there is no client, since login failed or Zorro has logged out. *)
Ended == {"idle", "closed"}

HistoryMessage == [kind : {"Bar", "BarReplay"}, call : 1..MaxCalls, bar : 0..MaxBars]

TypeOK ==
    /\ step \in {"connect", "account"} \cup Asks \cup Waits \cup Ended
    /\ loginStatus \subseteq Connections \cup {"Failure"}
    /\ account \in BOOLEAN /\ accounts \in BOOLEAN
    /\ request \in {"NoRequest", "AwaitingResults", "Complete", "Failed"}
    /\ result \in {"none", "NoRequest", "Complete", "Failed", "Timeout"}
    /\ known \subseteq Answers /\ due \subseteq Answers
    /\ history \in Seq(HistoryMessage) /\ ticks \in Seq(HistoryMessage)
    /\ asked \in Sizes \cup {0} /\ noData \in BOOLEAN
    /\ call \in 0..MaxCalls /\ sent \in 0..MaxBars

Accounts == IF "NoAccounts" \in Faults THEN BOOLEAN ELSE {TRUE}

Fresh(where) ==
    /\ step = where /\ accounts \in Accounts
    /\ loginStatus = {} /\ account = FALSE
    /\ request = "NoRequest" /\ result = "none"
    /\ known = {} /\ due = {}
    /\ history = << >> /\ ticks = << >>
    /\ asked = 0 /\ noData = FALSE /\ call = 0 /\ sent = 0

Init == Fresh("connect")

(* A new client, or none: whatever an earlier one had is gone. noData is   *)
(* not the client's.                                                       *)
Client(where) ==
    /\ step' = where /\ accounts' \in Accounts
    /\ loginStatus' = {} /\ account' = FALSE
    /\ request' = "NoRequest" /\ result' = "none"
    /\ known' = {} /\ due' = {}
    /\ history' = << >> /\ ticks' = << >>
    /\ asked' = 0 /\ call' = 0 /\ sent' = 0

EngineMayFail == "EngineFails" \in Faults

-----------------------------------------------------------------------------
(* login, up to its requests. *)

(* login_status_ < 15: some connection is not complete and none has failed. *)
Connecting == ~(Connections \subseteq loginStatus \/ "Failure" \in loginStatus)

Connected ==
    /\ step = "connect"
    /\ ~Connecting
    /\ step' = IF loginStatus = Connections THEN "account" ELSE "closed"
    /\ UNCHANGED <<loginVars, request, result, known, due, historyVars>>

HasAccount ==
    /\ step = "account"
    /\ account
    /\ step' = "listTradeRoutes"
    /\ UNCHANGED <<loginVars, request, result, known, due, historyVars>>

(* BrokerProgress has returned 0 before any request.                       *)
AbortConnect ==
    /\ "Abort" \in Faults
    /\ step \in {"connect", "account"}
    /\ step' = "closed"
    /\ UNCHANGED <<loginVars, request, result, known, due, historyVars>>

-----------------------------------------------------------------------------
(* Requests. *)

Ask(from, to, answer) ==
    /\ step = from
    /\ request' = "AwaitingResults"
    /\ \/ EngineMayFail /\ step' = "closed" /\ UNCHANGED due
       \/ step' = to /\ due' = due \cup {answer}
    /\ UNCHANGED <<loginVars, result, known, historyVars>>

ListTradeRoutes == Ask("listTradeRoutes", "routes", "Routes")
SubscribeOrder == Ask("subscribeOrder", "orders", "Orders")
SubscribePnl == Ask("subscribePnl", "pnl", "Pnl")

(* Variant: the ticks of the call before stay.                             *)
NotCleared == ticks
Cleared == << >>

(* BrokerHistory2 calls replayBars, which clears ticks_ first.             *)
BrokerHistory2 ==
    /\ step = "idle"
    /\ ~noData
    /\ call < MaxCalls
    /\ call' = call + 1
    /\ ticks' = Cleared
    /\ step' = "replayBars"
    /\ UNCHANGED <<loginVars, request, result, known, due, history, asked, noData, sent>>

HistoryOf(n) ==
    [i \in 1..n |-> [kind |-> "Bar", call |-> call, bar |-> i]]
      \o <<[kind |-> "BarReplay", call |-> call, bar |-> 0]>>

(* An engine that has no data says so, and the asset is not asked for      *)
(* again.                                                                  *)
ReplayBars(size) ==
    /\ step = "replayBars"
    /\ asked' = size
    /\ request' = "AwaitingResults"
    /\ \/ /\ EngineMayFail
          /\ step' = "idle"
          /\ noData' \in BOOLEAN
          /\ UNCHANGED <<history, sent>>
       \/ \E n \in 0..MaxBars :
            /\ sent' = n
            /\ history' = history \o HistoryOf(n)
            /\ step' = "bars"
            /\ UNCHANGED noData
    /\ UNCHANGED <<loginVars, result, known, due, ticks, call>>

-----------------------------------------------------------------------------
(* waitForRequest: a load that ends the loop, and the store of NoRequest.  *)

Waiting == step \in Waits /\ result = "none"

(* Variant: the word is looked at only once.                               *)
LoopEndsAtOnce == TRUE
LoopEnds == request # "AwaitingResults"

Answered ==
    /\ Waiting
    /\ LoopEnds
    /\ result' = request
    /\ UNCHANGED <<step, loginVars, request, known, due, historyVars>>

AbortWait ==
    /\ Waiting
    /\ request = "AwaitingResults"
    /\ IF step = "bars" THEN "AbortHistory" \in Faults ELSE "Abort" \in Faults
    /\ result' = "Failed"
    /\ UNCHANGED <<step, loginVars, request, known, due, historyVars>>

(* Variants: the wait for the PnL replay expires too early, or never.      *)
ExpiresEarly == step = "pnl"
ExpiresNever == FALSE

(* Only the wait for the PnL replay can expire.                            *)
Expires == step = "pnl" /\ ("Pnl" \notin due \/ "PnlLate" \in Faults)

TimeOut ==
    /\ Waiting
    /\ request = "AwaitingResults"
    /\ Expires
    /\ result' = "Timeout"
    /\ UNCHANGED <<step, loginVars, request, known, due, historyVars>>

(* Variant: a request that was not completed is taken for one that was.    *)
SucceedsAnyway == TRUE
Succeeds == result = "Complete" \/ (step = "pnl" /\ result = "Timeout")

Following ==
    CASE step = "routes" -> "subscribeOrder"
      [] step = "orders" -> "subscribePnl"
      [] step \in {"pnl", "bars"} -> "idle"

(* replayBars returns what it has, whatever the status.                    *)
Return ==
    /\ result # "none"
    /\ request' = "NoRequest"
    /\ result' = "none"
    /\ step' = IF step = "bars" \/ Succeeds THEN Following ELSE "closed"
    /\ ticks' = IF step = "bars" THEN Reverse(ticks) ELSE ticks
    /\ UNCHANGED <<loginVars, known, due, history, asked, noData, call, sent>>

-----------------------------------------------------------------------------
(* The callback thread; it ends with the client.                           *)

Alert(alert) ==
    /\ step # "closed"
    /\ loginStatus' = loginStatus \cup {alert}
    /\ UNCHANGED <<step, account, accounts, request, result, known, due, historyVars>>

ConnectionFails == "Broken" \in Faults /\ Alert("Failure")

(* An empty list leaves login where it is.                                 *)
AccountList ==
    /\ step # "closed"
    /\ "TradingSystem" \in loginStatus
    /\ account' = accounts
    /\ UNCHANGED <<step, loginStatus, accounts, request, result, known, due, historyVars>>

Answer(answer, status) ==
    /\ step # "closed"
    /\ answer \in due
    /\ due' = due \ {answer}
    /\ request' = status
    /\ known' = IF status = "Complete" THEN known \cup {answer} ELSE known
    /\ UNCHANGED <<step, loginVars, result, historyVars>>

TradeRouteList == Answer("Routes", "Complete")
PnlReplay == Answer("Pnl", "Complete")
OpenOrderReplay ==
    \/ Answer("Orders", "Complete")
    \/ "Refused" \in Faults /\ Answer("Orders", "Failed")

PnlNotReplayed ==
    /\ step # "closed"
    /\ "PnlLost" \in Faults
    /\ "Pnl" \in due
    /\ due' = due \ {"Pnl"}
    /\ UNCHANGED <<step, loginVars, request, result, known, historyVars>>

(* Variant: one bar more than was asked for.                               *)
TakesBarOver == Len(ticks) <= asked
TakesBar == Len(ticks) < asked

Bar ==
    /\ step # "closed"
    /\ history # << >> /\ Head(history).kind = "Bar"
    /\ history' = Tail(history)
    /\ ticks' = IF TakesBar THEN Append(ticks, Head(history)) ELSE ticks
    /\ UNCHANGED <<step, loginVars, request, result, known, due, asked, noData, call, sent>>

BarReplay ==
    /\ step # "closed"
    /\ history # << >> /\ Head(history).kind = "BarReplay"
    /\ history' = Tail(history)
    /\ request' = "Complete"
    /\ UNCHANGED <<step, loginVars, result, known, due, ticks, asked, noData, call, sent>>

-----------------------------------------------------------------------------

Login == Connected \/ HasAccount \/ ListTradeRoutes \/ SubscribeOrder \/ SubscribePnl

Proceed == Login \/ (\E size \in Sizes : ReplayBars(size)) \/ Answered \/ TimeOut \/ Return

Replay == TradeRouteList \/ OpenOrderReplay \/ PnlReplay \/ PnlNotReplayed \/ Bar \/ BarReplay

Next ==
    \/ Proceed \/ BrokerHistory2 \/ AbortConnect \/ AbortWait
    \/ (\E c \in Connections : Alert(c)) \/ ConnectionFails \/ AccountList \/ Replay

Spec == Init /\ [][Next]_vars

(* The engine logs in every connection and answers what it is asked;       *)
(* Zorro's thread does not stop inside a call.                             *)
Fairness ==
    /\ WF_vars(Proceed) /\ WF_vars(Replay) /\ WF_vars(AccountList)
    /\ \A c \in Connections : WF_vars(Alert(c))

FairSpec == Spec /\ Fairness

-----------------------------------------------------------------------------
(* Properties. *)

(* A session that Zorro works with has its account, its trade routes and   *)
(* its open orders: no answer to one request was taken for another's.      *)
LoginIsComplete ==
    step \in {"idle", "replayBars", "bars"} =>
        Connections \subseteq loginStatus /\ account /\ {"Routes", "Orders"} \subseteq known

OwnAnswerCame ==
    CASE step = "routes" -> "Routes" \in known
      [] step = "orders" -> "Orders" \in known
      [] step = "pnl" -> "Pnl" \in known
      [] step = "bars" -> \A i \in DOMAIN history : history[i].call # call

(* A request is completed by its own answer.                               *)
AnswerIsOwn == step \in Waits /\ request = "Complete" => OwnAnswerCame

(* BrokerHistory2 copies no more bars than Zorro has room for.             *)
BarsFit == step = "bars" => Len(ticks) <= asked

(* What the last call of replayBars should return: the bars of its own     *)
(* request, as many as were asked for, the latest first.                   *)
OwnBars ==
    LET n == IF sent < asked THEN sent ELSE asked
    IN  [i \in 1..n |-> [kind |-> "Bar", call |-> call, bar |-> n + 1 - i]]

(* A history request that was completed returns all of its bars and no     *)
(* others.                                                                 *)
HistoryIsOwn ==
    [][step = "bars" /\ step' = "idle" /\ result = "Complete" => ticks' = OwnBars]_vars

(* Every call ends: login whether the PnL replay is answered or not, but   *)
(* not for a user without an account.                                      *)
WaitsForAccount == step = "account" /\ ~accounts

CallsEnd == step \notin Ended ~> step \in Ended \/ WaitsForAccount
=============================================================================
