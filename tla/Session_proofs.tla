--------------------------- MODULE Session_proofs ---------------------------
(***************************************************************************)
(* Theorems about Session, for any number and size of history calls.       *)
(*                                                                         *)
(* LoginInv says whose answer may still come in each step of login, and    *)
(* holds with every fault.  HistoryInv says what of the bars of the call   *)
(* under way is in ticks_ and what the engine still has; it needs a PnL    *)
(* replay that comes in time or never, and history calls that wait for     *)
(* their end.                                                              *)
(***************************************************************************)
EXTENDS Session, TLAPS

Before(answer) ==
    CASE answer = "Routes" -> {"connect", "account", "listTradeRoutes"}
      [] answer = "Orders" -> {"connect", "account", "listTradeRoutes", "routes", "subscribeOrder"}
      [] answer = "Pnl" -> {"connect", "account", "listTradeRoutes", "routes", "subscribeOrder",
                            "orders", "subscribePnl"}

LoggedIn == {"idle", "replayBars", "bars"}

(* An answer that is owed is that of the step, or the one to the PnL       *)
(* replay of a login that went on without it.                              *)
Owed ==
    /\ "Routes" \in due => step \in {"routes", "closed"}
    /\ "Orders" \in due => step \in {"orders", "closed"}
    /\ "Pnl" \in due => step \in {"pnl", "closed"} \cup LoggedIn
    /\ known \cap due = {}
    /\ \A answer \in known : step \notin Before(answer)
    /\ history # << >> => step \in {"closed"} \cup LoggedIn

(* What login has passed, it has.                                          *)
Passed ==
    /\ account => accounts
    /\ step \notin {"connect", "closed"} => Connections \subseteq loginStatus
    /\ step \notin {"connect", "account", "closed"} => account
    /\ step \in {"subscribeOrder", "orders", "subscribePnl", "pnl"} \cup LoggedIn
         => "Routes" \in known
    /\ step \in {"subscribePnl", "pnl"} \cup LoggedIn => "Orders" \in known

(* A wait of login ends for its own answer.                                *)
OwnAnswer ==
    /\ step = "routes" /\ "Complete" \in {request, result} => "Routes" \in known
    /\ step = "orders" /\ "Complete" \in {request, result} => "Orders" \in known
    /\ step = "pnl" /\ "Complete" \in {request, result} => "Pnl" \in known

LoginInv == Owed /\ Passed /\ OwnAnswer

(* No answer and no bar comes after its call has returned.                 *)
Punctual == Faults \cap {"PnlLate", "AbortHistory"} = {}

BarNo(i) == [kind |-> "Bar", call |-> call, bar |-> i]
EndOfBars == [kind |-> "BarReplay", call |-> call, bar |-> 0]

(* How many bars of the call the engine has delivered.                     *)
Delivered == IF history = << >> THEN sent ELSE sent + 1 - Len(history)

Fitting(n) == IF n < asked THEN n ELSE asked

BarsInv ==
    /\ Len(history) <= sent + 1
    /\ \A i \in 1..Len(history) :
          history[i] = IF i = Len(history) THEN EndOfBars ELSE BarNo(Delivered + i)
    /\ Len(ticks) = Fitting(Delivered)
    /\ \A i \in 1..Len(ticks) : ticks[i] = BarNo(i)
    /\ request \in {"AwaitingResults", "Complete"}
    /\ request = "Complete" <=> history = << >>
    /\ result # "none" => result = "Complete" /\ history = << >>

HistoryInv ==
    /\ step \in LoggedIn => "Pnl" \notin due
    /\ step = "pnl" /\ result = "Timeout" => "Pnl" \notin due
    /\ step = "bars" => BarsInv
    /\ step = "idle" => history = << >>
    /\ step = "replayBars" => history = << >> /\ ticks = << >>

(* A call of replayBars has a number, and only a wait a result.            *)
Types ==
    /\ TypeOK
    /\ step \in {"replayBars", "bars"} => call # 0
    /\ result # "none" => step \in Waits

Inv == Types /\ LoginInv /\ (Punctual => HistoryInv)

-----------------------------------------------------------------------------
(* Sequences. *)

LEMMA ReverseIsSeq ==
    ASSUME NEW S, NEW s \in Seq(S)
    PROVE  /\ Reverse(s) \in Seq(S)
           /\ Len(Reverse(s)) = Len(s)
           /\ \A i \in 1..Len(s) : Reverse(s)[i] = s[Len(s) - i + 1]
<1>1. Len(s) \in Nat /\ \A i \in 1..Len(s) : s[i] \in S
  OBVIOUS
<1>2. \A i \in 1..Len(s) : (Len(s) - i) + 1 \in 1..Len(s)
  BY <1>1
<1>3. Reverse(s) = [i \in 1..Len(s) |-> s[(Len(s) - i) + 1]]
  BY DEF Reverse
<1> QED
  BY <1>1, <1>2, <1>3

LEMMA HistoryOfIsSeq ==
    ASSUME TypeOK, call \in 1..MaxCalls, NEW n \in 0..MaxBars
    PROVE  /\ HistoryOf(n) \in Seq(HistoryMessage)
           /\ Len(HistoryOf(n)) = n + 1
           /\ \A i \in 1..n + 1 : HistoryOf(n)[i] = IF i = n + 1 THEN EndOfBars ELSE BarNo(i)
<1> DEFINE Bars == [i \in 1..n |-> BarNo(i)]
<1>1. n \in Nat /\ MaxBars \in Nat
  BY HistoryAssumption
<1>2. EndOfBars \in HistoryMessage /\ \A i \in 1..n : BarNo(i) \in HistoryMessage
  BY <1>1 DEF EndOfBars, BarNo, HistoryMessage
<1>3. Bars \in Seq(HistoryMessage) /\ Len(Bars) = n
  BY <1>1, <1>2
<1>4. HistoryOf(n) = Bars \o <<EndOfBars>>
  BY DEF HistoryOf, BarNo, EndOfBars
<1>5. \A i \in 1..n : Bars[i] = BarNo(i)
  OBVIOUS
<1> HIDE DEF Bars
<1> QED
  BY <1>1, <1>2, <1>3, <1>4, <1>5

-----------------------------------------------------------------------------
LEMMA TypesStep ==
    ASSUME Types, [Next]_vars
    PROVE  Types'
<1> USE HistoryAssumption DEF Types, TypeOK, loginVars, historyVars
<1> USE DEF Waits, Ended, Asks
<1>1. CASE Connected \/ HasAccount \/ AbortConnect
  BY <1>1 DEF Connected, HasAccount, AbortConnect
<1>2. CASE ListTradeRoutes \/ SubscribeOrder \/ SubscribePnl
  BY <1>2 DEF ListTradeRoutes, SubscribeOrder, SubscribePnl, Ask, Answers
<1>3. CASE BrokerHistory2
  <2>1. call' \in 0..MaxCalls /\ call' # 0
    BY <1>3 DEF BrokerHistory2
  <2> QED
    BY <1>3, <2>1 DEF BrokerHistory2, Cleared, Asks
<1>4. ASSUME NEW size \in Sizes, ReplayBars(size)
      PROVE  Types'
  <2>1. call \in 1..MaxCalls
    BY <1>4 DEF ReplayBars
  <2>2. ASSUME NEW n \in 0..MaxBars, history' = history \o HistoryOf(n)
        PROVE  history' \in Seq(HistoryMessage)
    BY <2>1, <2>2, HistoryOfIsSeq
  <2>3. UNCHANGED HistoryMessage
    OBVIOUS
  <2> QED
    BY <1>4, <2>1, <2>2, <2>3 DEF ReplayBars
<1>5. CASE Answered
  BY <1>5 DEF Answered, Waiting, LoopEnds
<1>6. CASE TimeOut \/ AbortWait
  BY <1>6 DEF TimeOut, AbortWait, Waiting
<1>7. CASE Return
  <2>1. ticks' \in Seq(HistoryMessage)
    BY <1>7, ReverseIsSeq DEF Return
  <2> QED
    BY <1>7, <2>1 DEF Return, Following, Succeeds
<1>8. CASE (\E c \in Connections : Alert(c)) \/ ConnectionFails
  BY <1>8 DEF Alert, ConnectionFails
<1>9. CASE AccountList
  BY <1>9 DEF AccountList
<1>10. CASE TradeRouteList \/ OpenOrderReplay \/ PnlReplay \/ PnlNotReplayed
  BY <1>10 DEF TradeRouteList, OpenOrderReplay, PnlReplay, PnlNotReplayed, Answer, Answers
<1>11. CASE Bar
  <2>1. history' \in Seq(HistoryMessage) /\ Head(history) \in HistoryMessage
    BY <1>11 DEF Bar
  <2>2. ticks' \in Seq(HistoryMessage)
    BY <1>11, <2>1 DEF Bar
  <2> QED
    BY <1>11, <2>1, <2>2 DEF Bar
<1>12. CASE BarReplay
  <2>1. history' \in Seq(HistoryMessage)
    BY <1>12 DEF BarReplay
  <2> QED
    BY <1>12, <2>1 DEF BarReplay
<1>13. CASE UNCHANGED vars
  BY <1>13 DEF vars
<1> QED
  BY <1>1, <1>2, <1>3, <1>4, <1>5, <1>6, <1>7, <1>8, <1>9, <1>10, <1>11, <1>12, <1>13
     DEF Next, Proceed, Login, Replay

(* Routes, orders and PnL are asked for and answered in turn.              *)
LEMMA LoginStep ==
    ASSUME Types, LoginInv, [Next]_vars
    PROVE  LoginInv'
<1> USE DEF Types, TypeOK, LoginInv, Owed, Passed, OwnAnswer, Before, LoggedIn, Waits, Ended, Asks,
            loginVars, historyVars
<1>1. CASE Connected \/ HasAccount \/ AbortConnect
  <2>1. known = {}
    BY <1>1 DEF Connected, HasAccount, AbortConnect, Answers
  <2>2. CASE Connected
    BY <2>1, <2>2 DEF Connected, Connecting
  <2>3. CASE HasAccount
    BY <2>1, <2>3 DEF HasAccount
  <2>4. CASE AbortConnect
    BY <2>1, <2>4 DEF AbortConnect
  <2> QED
    BY <1>1, <2>2, <2>3, <2>4
<1>2. CASE ListTradeRoutes
  BY <1>2 DEF ListTradeRoutes, Ask, Answers
<1>3. CASE SubscribeOrder
  BY <1>3 DEF SubscribeOrder, Ask, Answers
<1>4. CASE SubscribePnl
  BY <1>4 DEF SubscribePnl, Ask, Answers
<1>5. CASE BrokerHistory2
  BY <1>5 DEF BrokerHistory2, Answers
<1>6. ASSUME NEW size \in Sizes, ReplayBars(size)
      PROVE  LoginInv'
  BY <1>6 DEF ReplayBars, Answers
<1>7. CASE Answered
  BY <1>7 DEF Answered, Waiting, LoopEnds
<1>8. CASE TimeOut \/ AbortWait
  BY <1>8 DEF TimeOut, AbortWait, Waiting
<1>9. CASE Return
  BY <1>9 DEF Return, Following, Succeeds, Answers
<1>10. CASE (\E c \in Connections : Alert(c)) \/ ConnectionFails
  <2>1. UNCHANGED <<step, account, accounts, request, result, known, due, history>>
        /\ loginStatus \subseteq loginStatus'
    BY <1>10 DEF Alert, ConnectionFails
  <2>2. Owed' /\ OwnAnswer'
    BY <2>1
  <2>3. Passed'
    BY <2>1
  <2> QED
    BY <2>2, <2>3
<1>11. CASE AccountList
  BY <1>11 DEF AccountList
<1>12. CASE TradeRouteList
  BY <1>12 DEF TradeRouteList, Answer, Answers
<1>13. CASE OpenOrderReplay
  BY <1>13 DEF OpenOrderReplay, Answer, Answers
<1>14. CASE PnlReplay \/ PnlNotReplayed
  BY <1>14 DEF PnlReplay, PnlNotReplayed, Answer, Answers
<1>15. CASE Bar
  BY <1>15 DEF Bar
<1>16. CASE BarReplay
  BY <1>16 DEF BarReplay
<1>17. CASE UNCHANGED vars
  BY <1>17 DEF vars
<1> QED
  BY <1>1, <1>2, <1>3, <1>4, <1>5, <1>6, <1>7, <1>8, <1>9, <1>10, <1>11, <1>12, <1>13, <1>14,
     <1>15, <1>16, <1>17
     DEF Next, Proceed, Login, Replay

(* The bars of a call come in order, into ticks_ as long as there is room, *)
(* and its end comes last.                                                 *)
LEMMA HistoryStep ==
    ASSUME Types, LoginInv, HistoryInv, Punctual, [Next]_vars
    PROVE  HistoryInv'
<1> USE DEF loginVars, historyVars, LoggedIn
<1>a. /\ sent \in Nat /\ asked \in Nat /\ call \in Nat
      /\ history \in Seq(HistoryMessage) /\ ticks \in Seq(HistoryMessage)
      /\ Len(history) \in Nat /\ Len(ticks) \in Nat
  BY HistoryAssumption DEF Types, TypeOK
<1>b. ASSUME UNCHANGED <<request, result, historyVars>>, BarsInv
      PROVE  BarsInv'
  BY <1>b DEF BarsInv, Delivered, Fitting, BarNo, EndOfBars
<1>1. CASE Connected \/ HasAccount \/ AbortConnect
  BY <1>1 DEF Connected, HasAccount, AbortConnect, HistoryInv
<1>2. CASE ListTradeRoutes \/ SubscribeOrder \/ SubscribePnl
  BY <1>2 DEF ListTradeRoutes, SubscribeOrder, SubscribePnl, Ask, HistoryInv, Types, Waits
<1>3. CASE BrokerHistory2
  BY <1>3 DEF BrokerHistory2, HistoryInv, Cleared
<1>4. ASSUME NEW size \in Sizes, ReplayBars(size)
      PROVE  HistoryInv'
  <2>1. history = << >> /\ ticks = << >> /\ "Pnl" \notin due /\ call \in 1..MaxCalls
        /\ result = "none"
    BY <1>4 DEF ReplayBars, HistoryInv, Types, TypeOK, Waits
  <2>2. CASE step' = "idle" /\ UNCHANGED history
    BY <1>4, <2>1, <2>2 DEF ReplayBars, HistoryInv
  <2>3. ASSUME NEW n \in 0..MaxBars, sent' = n, history' = history \o HistoryOf(n), step' = "bars"
        PROVE  HistoryInv'
    <3>1. n \in Nat /\ size \in Nat
      BY HistoryAssumption
    <3>2. Len(history') = n + 1
          /\ \A i \in 1..n + 1 : history'[i] = IF i = n + 1 THEN EndOfBars ELSE BarNo(i)
      <4>1. history' = HistoryOf(n)
        BY <2>1, <2>3, <3>1, HistoryOfIsSeq DEF Types
      <4> QED
        BY <4>1, <2>1, HistoryOfIsSeq DEF Types
    <3>3. UNCHANGED <<result, due, ticks, call>> /\ request' = "AwaitingResults" /\ asked' = size
      BY <1>4 DEF ReplayBars
    <3>4. history' # << >>
      BY <3>1, <3>2
    <3>5. Delivered' = 0
      BY <3>1, <3>2, <3>4, <2>3 DEF Delivered
    <3>6. EndOfBars' = EndOfBars /\ \A i \in Nat : BarNo(i)' = BarNo(i)
      BY <3>3 DEF EndOfBars, BarNo
    <3>7. Fitting(Delivered)' = 0
      BY <3>1, <3>3, <3>5 DEF Fitting
    <3>8. BarsInv'
      BY <3>1, <3>2, <3>3, <3>4, <3>5, <3>6, <3>7, <2>1, <2>3 DEF BarsInv
    <3> QED
      BY <3>3, <3>8, <2>1, <2>3 DEF HistoryInv
  <2> QED
    BY <1>4, <2>2, <2>3 DEF ReplayBars
<1>5. CASE Answered
  <2>1. CASE step = "bars"
    BY <1>5, <2>1, <1>a DEF Answered, Waiting, LoopEnds, HistoryInv, BarsInv, Delivered, Fitting, BarNo, EndOfBars
  <2>2. CASE step # "bars"
    BY <1>5, <2>2 DEF Answered, Waiting, Waits, HistoryInv, Types, TypeOK
  <2> QED
    BY <2>1, <2>2
<1>6. CASE TimeOut \/ AbortWait
  BY <1>6 DEF TimeOut, AbortWait, Waiting, Waits, Expires, HistoryInv, Punctual
<1>7. CASE Return
  <2>1. step' \in LoggedIn => step' = "idle" /\ step \in {"pnl", "bars"}
    BY <1>7 DEF Return, Following, Types, Waits
  <2>2. step' = "idle" => "Pnl" \notin due' /\ history' = << >>
    BY <1>7, <2>1
       DEF Return, Succeeds, LoginInv, OwnAnswer, Owed, HistoryInv, BarsInv, Types, Waits
  <2> QED
    BY <1>7, <2>1, <2>2 DEF HistoryInv, Return, Following, Types, Waits
<1>8. CASE (\E c \in Connections : Alert(c)) \/ ConnectionFails \/ AccountList
  BY <1>8, <1>b DEF Alert, ConnectionFails, AccountList, HistoryInv
<1>9. CASE TradeRouteList \/ OpenOrderReplay \/ PnlReplay \/ PnlNotReplayed
  <2>1. step \notin LoggedIn
    BY <1>9 DEF TradeRouteList, OpenOrderReplay, PnlReplay, PnlNotReplayed, Answer, LoginInv, Owed,
         HistoryInv
  <2> QED
    BY <1>9, <2>1 DEF TradeRouteList, OpenOrderReplay, PnlReplay, PnlNotReplayed, Answer, HistoryInv
<1>10. CASE Bar
  <2>1. step = "bars" \/ step = "closed"
    BY <1>10 DEF Bar, LoginInv, Owed, HistoryInv
  <2>2. CASE step = "bars"
    <3> DEFINE n == Len(history)
    <3>1. BarsInv /\ n \in Nat /\ n # 0 /\ n <= sent + 1 /\ Head(history) = history[1]
      BY <1>10, <1>a, <2>2 DEF Bar, HistoryInv, BarsInv
    <3>2. history[1] = IF n = 1 THEN EndOfBars ELSE BarNo(Delivered + 1)
      <4>1. 1 \in 1..n
        BY <3>1
      <4> QED
        BY <3>1, <4>1 DEF BarsInv
    <3>3. n # 1 /\ history[1] = BarNo(Delivered + 1)
      BY <1>10, <3>1, <3>2 DEF Bar, EndOfBars
    <3>4. /\ history' \in Seq(HistoryMessage) /\ Len(history') = n - 1
          /\ \A i \in 1..n - 1 : history'[i] = history[i + 1]
      BY <1>10, <1>a, <3>1 DEF Bar
    <3>5. history # << >> /\ history' # << >>
      BY <3>1, <3>3, <3>4
    <3>6. Delivered = sent + 1 - n /\ Delivered' = Delivered + 1 /\ Delivered \in Nat
      BY <1>10, <1>a, <3>1, <3>4, <3>5 DEF Delivered, Bar
    <3>7. UNCHANGED <<step, due, request, result, asked, call, sent>>
      BY <1>10 DEF Bar
    <3>8. EndOfBars' = EndOfBars /\ \A i \in Nat : BarNo(i)' = BarNo(i)
      BY <3>7 DEF EndOfBars, BarNo
    <3>9. ASSUME NEW i \in 1..Len(history')
          PROVE  history'[i] = IF i = Len(history') THEN EndOfBars ELSE BarNo(Delivered' + i)
      <4>1. i \in 1..n - 1 /\ i + 1 \in 1..n /\ (i = n - 1 <=> i + 1 = n)
        BY <3>1, <3>4
      <4>2. history[i + 1] = IF i + 1 = n THEN EndOfBars ELSE BarNo(Delivered + (i + 1))
        BY <4>1, <3>1 DEF BarsInv
      <4>3. Delivered + (i + 1) = Delivered' + i /\ Delivered' + i \in Nat
        BY <4>1, <3>6
      <4> QED
        BY <4>1, <4>2, <4>3, <3>4
    <3>10. /\ Len(ticks') = Fitting(Delivered)'
           /\ \A i \in 1..Len(ticks') : ticks'[i] = BarNo(i)'
      <4>1. Len(ticks) = Fitting(Delivered) /\ \A i \in 1..Len(ticks) : ticks[i] = BarNo(i)
        BY <3>1 DEF BarsInv
      <4>2. CASE Len(ticks) < asked
        <5>1. Len(ticks) = Delivered
          BY <1>a, <3>6, <4>1, <4>2 DEF Fitting
        <5>2. ticks' = Append(ticks, BarNo(Len(ticks) + 1))
          BY <1>10, <3>1, <3>3, <4>2, <5>1 DEF Bar, TakesBar
        <5>3. Len(ticks') = Len(ticks) + 1
              /\ \A i \in 1..Len(ticks) + 1 : ticks'[i] = BarNo(i)
          BY <1>a, <4>1, <5>2
        <5>4. Fitting(Delivered)' = Len(ticks) + 1
          BY <1>a, <3>6, <3>7, <4>2, <5>1 DEF Fitting
        <5> QED
          BY <1>a, <3>8, <5>3, <5>4
      <4>3. CASE ~(Len(ticks) < asked)
        <5>1. ticks' = ticks
          BY <1>10, <4>3 DEF Bar, TakesBar
        <5>2. Fitting(Delivered)' = Fitting(Delivered)
          BY <1>a, <3>6, <3>7, <4>1, <4>3 DEF Fitting
        <5> QED
          BY <1>a, <3>8, <4>1, <5>1, <5>2
      <4> QED
        BY <4>2, <4>3
    <3>11. Len(history') <= sent' + 1
      BY <1>a, <3>1, <3>4, <3>7
    <3>12. request = "AwaitingResults" /\ result = "none"
      BY <3>1, <3>5 DEF BarsInv
    <3>13. BarsInv'
      <4>1. \A i \in 1..Len(history') :
               history'[i] = IF i = Len(history') THEN EndOfBars' ELSE BarNo(Delivered + i)'
        BY <3>7, <3>9 DEF EndOfBars, BarNo
      <4> QED
        BY <3>5, <3>7, <3>10, <3>11, <3>12, <4>1 DEF BarsInv
    <3> QED
      BY <2>2, <3>7, <3>13 DEF HistoryInv
  <2> QED
    BY <1>10, <2>1, <2>2 DEF Bar, HistoryInv
<1>11. CASE BarReplay
  <2>1. step = "bars"
    BY <1>11 DEF BarReplay, LoginInv, Owed, HistoryInv
  <2>2. BarsInv
    BY <2>1 DEF HistoryInv
  <2>3. history # << >> /\ Head(history) = history[1]
    BY <1>11, <1>a DEF BarReplay
  <2>4. Len(history) = 1
    <3>1. 1 \in 1..Len(history)
      BY <1>a, <2>3
    <3>2. history[1] = IF 1 = Len(history) THEN EndOfBars ELSE BarNo(Delivered + 1)
      BY <2>2, <3>1 DEF BarsInv
    <3> QED
      BY <1>11, <2>3, <3>2 DEF BarReplay, BarNo
  <2>5. history' = << >>
    BY <1>11, <1>a, <2>4 DEF BarReplay
  <2>6. Delivered = sent /\ Delivered' = sent
    BY <1>11, <1>a, <2>3, <2>4, <2>5 DEF Delivered, BarReplay
  <2>7. UNCHANGED <<step, due, result, ticks, asked, call, sent>> /\ request' = "Complete"
    BY <1>11 DEF BarReplay
  <2>8. Len(ticks') = Fitting(Delivered)' /\ \A i \in 1..Len(ticks') : ticks'[i] = BarNo(i)'
    BY <2>2, <2>6, <2>7 DEF BarsInv, Fitting, BarNo
  <2>9. BarsInv'
    <3>1. Len(history') = 0 /\ 1..0 = {}
      BY <2>5
    <3> QED
      BY <1>a, <2>2, <2>5, <2>7, <2>8, <3>1 DEF BarsInv
  <2> QED
    BY <2>1, <2>7, <2>9, <2>5 DEF HistoryInv
<1>12. CASE UNCHANGED vars
  BY <1>12, <1>b DEF vars, HistoryInv
<1> QED
  BY <1>1, <1>2, <1>3, <1>4, <1>5, <1>6, <1>7, <1>8, <1>9, <1>10, <1>11, <1>12
     DEF Next, Proceed, Login, Replay

-----------------------------------------------------------------------------
LEMMA Initially ==
    ASSUME Init
    PROVE  Inv
<1> USE HistoryAssumption DEF Init, Fresh
<1>1. Types
  <2>1. accounts \in BOOLEAN
    BY Zenon DEF Accounts
  <2>2. history \in Seq(HistoryMessage) /\ ticks \in Seq(HistoryMessage)
    OBVIOUS
  <2>3. account \in BOOLEAN /\ noData \in BOOLEAN
    BY Zenon
  <2>4. call \in 0..MaxCalls /\ sent \in 0..MaxBars /\ asked \in Sizes \cup {0}
    OBVIOUS
  <2>5. TypeOK
    BY <2>1, <2>2, <2>3, <2>4 DEF TypeOK
  <2> QED
    BY <2>5 DEF Types
<1>2. LoginInv
  BY DEF LoginInv, Owed, Passed, OwnAnswer, LoggedIn
<1>3. HistoryInv
  BY DEF HistoryInv, LoggedIn
<1> QED
  BY <1>1, <1>2, <1>3 DEF Inv

LEMMA InvStep ==
    ASSUME Inv, [Next]_vars
    PROVE  Inv'
<1>1. Types' /\ LoginInv'
  BY TypesStep, LoginStep DEF Inv
<1>2. Punctual' => Punctual
  BY DEF Punctual
<1>3. Punctual' => HistoryInv'
  BY <1>2, HistoryStep DEF Inv
<1> QED
  BY <1>1, <1>3 DEF Inv

LEMMA InvIsStrong ==
    ASSUME Inv
    PROVE  /\ TypeOK /\ LoginIsComplete
           /\ Punctual => AnswerIsOwn /\ BarsFit
<1>1. TypeOK
  BY DEF Inv, Types
<1>2. LoginIsComplete
  BY DEF Inv, LoginInv, Passed, LoginIsComplete, LoggedIn
<1>3. ASSUME Punctual, step \in Waits, request = "Complete"
      PROVE  OwnAnswerCame
  <2>1. CASE step = "bars"
    <3>1. history = << >>
      BY <1>3, <2>1 DEF Inv, HistoryInv, BarsInv
    <3> QED
      BY <2>1, <3>1 DEF OwnAnswerCame
  <2>2. CASE step \in {"routes", "orders", "pnl"}
    BY <1>3, <2>2 DEF Inv, LoginInv, OwnAnswer, OwnAnswerCame
  <2> QED
    BY <1>3, <2>1, <2>2 DEF Waits
<1>4. ASSUME Punctual, step = "bars"
      PROVE  Len(ticks) <= asked
  <2>1. asked \in Nat /\ sent \in Nat /\ history \in Seq(HistoryMessage) /\ Len(history) \in Nat
    BY HistoryAssumption DEF Inv, Types, TypeOK
  <2>2. Len(ticks) = Fitting(Delivered) /\ Len(history) <= sent + 1
    BY <1>4 DEF Inv, HistoryInv, BarsInv
  <2> QED
    BY <2>1, <2>2 DEF Fitting, Delivered
<1> QED
  BY <1>1, <1>2, <1>3, <1>4 DEF AnswerIsOwn, BarsFit

(* The bars that replayBars reverses at the end of a call are those of the *)
(* call, as many as fit.                                                   *)
LEMMA OwnBarsStep ==
    ASSUME Inv, Punctual, Next, step = "bars", step' = "idle", result = "Complete"
    PROVE  ticks' = OwnBars
<1>1. Return
  BY DEF Next, vars, Proceed, Login, Connected, HasAccount, ListTradeRoutes, SubscribeOrder,
         SubscribePnl, Ask, ReplayBars, Answered, TimeOut, BrokerHistory2, AbortConnect,
         AbortWait, Alert, ConnectionFails, AccountList, Replay, TradeRouteList,
         OpenOrderReplay, PnlReplay, PnlNotReplayed, Answer, Bar, BarReplay
<1>2. /\ sent \in Nat /\ asked \in Nat
      /\ ticks \in Seq(HistoryMessage) /\ Len(ticks) = Fitting(sent)
      /\ \A i \in 1..Len(ticks) : ticks[i] = BarNo(i)
  BY HistoryAssumption DEF Inv, Types, TypeOK, HistoryInv, BarsInv, Delivered
<1>3. ticks' = Reverse(ticks)
  BY <1>1 DEF Return
<1> DEFINE n == Len(ticks)
<1>4. /\ n \in Nat /\ Reverse(ticks) \in Seq(HistoryMessage) /\ Len(Reverse(ticks)) = n
      /\ \A i \in 1..n : Reverse(ticks)[i] = ticks[n - i + 1]
  BY <1>2, ReverseIsSeq
<1>5. \A i \in 1..n : Reverse(ticks)[i] = BarNo(n + 1 - i)
  <2> SUFFICES ASSUME NEW i \in 1..n
               PROVE  Reverse(ticks)[i] = BarNo(n + 1 - i)
    OBVIOUS
  <2>1. n - i + 1 \in 1..n /\ n - i + 1 = n + 1 - i
    BY <1>4
  <2> QED
    BY <1>2, <1>4, <2>1
<1>6. Reverse(ticks) = [i \in 1..n |-> BarNo(n + 1 - i)]
  BY <1>4, <1>5
<1>7. OwnBars = [i \in 1..n |-> BarNo(n + 1 - i)]
  BY <1>2 DEF OwnBars, Fitting, BarNo
<1> QED
  BY <1>3, <1>6, <1>7

-----------------------------------------------------------------------------
LEMMA Invariance == Spec => []Inv
<1>1. Init => Inv
  BY Initially
<1>2. Inv /\ [Next]_vars => Inv'
  BY InvStep
<1> QED
  BY <1>1, <1>2, PTL DEF Spec

(* The state of a session has its types.                                   *)
THEOREM SessionTypeCorrect == Spec => []TypeOK
<1>1. Inv => TypeOK
  BY InvIsStrong
<1> QED
  BY <1>1, Invariance, PTL

(* Whatever fails, is aborted or comes late: login leaves a client only    *)
(* with its account, its trade routes and its open orders.                 *)
THEOREM LoginsAreComplete == Spec => []LoginIsComplete
<1>1. Inv => LoginIsComplete
  BY InvIsStrong
<1> QED
  BY <1>1, Invariance, PTL

(* In a session whose answers are punctual, waitForRequest ends a request  *)
(* as completed only for that request's own answer.                        *)
THEOREM AnswersAreOwn ==
    ASSUME Punctual
    PROVE  Spec => []AnswerIsOwn
<1>1. Inv /\ Punctual => AnswerIsOwn
  BY InvIsStrong
<1> QED
  BY <1>1, Invariance, PTL

(* In such a session BrokerHistory2 never has more bars to copy than Zorro *)
(* has room for.                                                           *)
THEOREM BarsAlwaysFit ==
    ASSUME Punctual
    PROVE  Spec => []BarsFit
<1>1. Inv /\ Punctual => BarsFit
  BY InvIsStrong
<1> QED
  BY <1>1, Invariance, PTL

(* A history call that is completed copies, newest first, the first of the *)
(* bars that the engine had for it: all of them, or as many as were asked  *)
(* for, and none of another call.                                          *)
THEOREM HistoriesAreOwn ==
    ASSUME Punctual
    PROVE  Spec => HistoryIsOwn
<1>1. Inv /\ Punctual /\ [Next]_vars
        => [step = "bars" /\ step' = "idle" /\ result = "Complete" => ticks' = OwnBars]_vars
  BY OwnBarsStep
<1>2. Punctual /\ Punctual'
  BY DEF Punctual
<1> QED
  BY <1>1, <1>2, Invariance, PTL DEF Spec, HistoryIsOwn
=============================================================================
