--------------------------- MODULE Plugin_proofs ---------------------------
(***************************************************************************)
(* Theorems about Plugin: what holds of one session holds of each,         *)
(* BrokerLogin connects to what was confirmed, with clean settings, and    *)
(* the next dialog opens with it; up to which times SET_WAIT does what it  *)
(* says, and for which servers coming back to the saved one is enough.     *)
(***************************************************************************)
EXTENDS Plugin, Session_proofs

(* A dialog shows the gateways of its server.                              *)
DialogShows ==
    Dialog!isOpen =>
        /\ dialog = [server |-> dialog.server, list |-> dialog.list,
                     gateway |-> dialog.gateway, saved |-> dialog.saved]
        /\ dialog.server \in Dialog!Servers
        /\ dialog.list = GatewayList[dialog.server]
        /\ dialog.gateway \in Dialog!GatewaysOf(dialog.server) \cup {Dialog!NoName}

(* Before the engine's login there is no client that works, and what the   *)
(* dialog has returned is in the registry.                                 *)
Chosen ==
    /\ login # "none" => step = "closed"
    /\ Dialog!isOpen => login = "dialog"
    /\ login = "chosen" => chosen = registry
    /\ login \in {"chosen", "thrown"} => chosen \in Dialog!Configured \/ chosen.gateway = Dialog!NoName

LoginBooks == DialogShows /\ Chosen /\ ConnectsAsConfirmed /\ ThrowsWithoutGateway

(* The settings, field by field, are what Zorro has asked for; GTC may be  *)
(* overruled by command 2001.                                              *)
Wish == [limit : Limits \cup {Setup!NoLimit}, amount : Amounts \cup {1},
         duration : Setup!Durations, overruled : BOOLEAN,
         wait : WaitTimes \cup {Setup!DefaultWait}]

AsWished ==
    /\ global \in Setup!Setting /\ wanted \in Wish
    /\ global.limit = wanted.limit
    /\ global.amount = wanted.amount
    /\ \/ global.duration = wanted.duration
       \/ global.duration \in {"DAY", "IOC"} /\ wanted.overruled

(* An order is sent and ends within a session.                             *)
OrderBooks == order # Setup!NoOrder => step = "idle" /\ login = "none"

SettingBooks == AsWished /\ OrderBooks /\ OrderIsAsSet /\ SessionStartsClean

(* The plugin's own types; logos are left for a login that may succeed.    *)
OwnTypes ==
    /\ Dialog!DialogTypeOK
    /\ order \in [limit : Limits \cup {Setup!NoLimit}, qty : Amounts \cup {0, 1},
                  duration : Setup!Durations]
    /\ login \in {"none", "dialog", "chosen", "thrown"}
    /\ env \in Dialog!Configured \cup {Dialog!Nothing}
    /\ chosen.server \in Dialog!Servers \/ chosen = Dialog!Nothing

LogosBooks ==
    /\ logins \in 0..MaxLogins
    /\ logos \in [Logins -> {"none", "starting", "shown", "gone"}]
    /\ hDlg \in 0..MaxLogins
    /\ login \in {"dialog", "chosen"} \/ step \notin Ended \cup {"replayBars", "bars"} =>
         logins < MaxLogins

PluginInv == Inv /\ LoginBooks /\ SettingBooks /\ OwnTypes /\ LogosBooks

-----------------------------------------------------------------------------
(* A new client, or none, starts from nothing.                             *)
LEMMA ClientInv ==
    ASSUME NEW where \in {"connect", "closed"}, Client(where), noData' \in BOOLEAN
    PROVE  Inv'
<1> USE HistoryAssumption DEF Client
<1>1. Types'
  <2>1. accounts' \in BOOLEAN
    BY Zenon DEF Accounts
  <2>2. history' \in Seq(HistoryMessage) /\ ticks' \in Seq(HistoryMessage)
    OBVIOUS
  <2>3. account' \in BOOLEAN
    BY Zenon
  <2>4. call' \in 0..MaxCalls /\ sent' \in 0..MaxBars /\ asked' \in Sizes \cup {0}
    OBVIOUS
  <2>5. UNCHANGED HistoryMessage
    BY DEF HistoryMessage
  <2>6. TypeOK'
    BY <2>1, <2>2, <2>3, <2>4, <2>5 DEF TypeOK, Ended
  <2> QED
    BY <2>6 DEF Types
<1>2. LoginInv'
  BY DEF LoginInv, Owed, Passed, OwnAnswer, LoggedIn
<1>3. HistoryInv'
  BY DEF HistoryInv, LoggedIn
<1> QED
  BY <1>1, <1>2, <1>3 DEF Inv

(* What a step of the plugin is for the client.                            *)
LEMMA ClientStep ==
    ASSUME Inv, [PluginNext]_pluginVars
    PROVE  \/ [Next]_vars
           \/ \E where \in {"connect", "closed"} : Client(where) /\ noData' \in BOOLEAN
           \/ step = "closed" /\ noData' = FALSE
              /\ UNCHANGED <<step, loginVars, request, result, known, due, history, ticks, asked,
                             call, sent>>
<1> noData \in BOOLEAN
  BY DEF Inv, Types, TypeOK
<1>1. CASE UseDialog \/ CancelLogin \/ ConfirmLogin
  BY <1>1 DEF UseDialog, CancelLogin, ConfirmLogin, InDialog
<1>2. CASE Command \/ BrokerBuy2 \/ BrokerBuy2Returns
  BY <1>2 DEF Command, BrokerBuy2, BrokerBuy2Returns
<1>3. CASE Logout
  BY <1>3 DEF Logout
<1>4. CASE Connect
  BY <1>4 DEF Connect
<1>5. CASE BrokerLogin
  BY <1>5 DEF BrokerLogin, NoSession, ForgetsNoData
<1>6. CASE InSession(Proceed \/ BrokerHistory2 \/ Aborts)
  BY <1>6 DEF InSession, Next, Aborts
<1>7. CASE Callbacks
  BY <1>7 DEF Callbacks, Next
<1>8. CASE \E l \in Logins : LogosAppear(l) \/ LogosEnd(l)
  BY <1>8 DEF LogosAppear, LogosEnd
<1>9. CASE UNCHANGED pluginVars
  BY <1>9 DEF pluginVars
<1> QED
  BY <1>1, <1>2, <1>3, <1>4, <1>5, <1>6, <1>7, <1>8, <1>9 DEF PluginNext, Zorro, Goes

LEMMA SessionInvStep ==
    ASSUME Inv, [PluginNext]_pluginVars
    PROVE  Inv'
<1>1. CASE [Next]_vars
  BY <1>1, InvStep
<1>2. CASE \E where \in {"connect", "closed"} : Client(where) /\ noData' \in BOOLEAN
  BY <1>2, ClientInv
<1>3. CASE /\ step = "closed" /\ noData' = FALSE
           /\ UNCHANGED <<step, loginVars, request, result, known, due, history, ticks, asked,
                          call, sent>>
  <2>1. Types'
    <3>1. noData' \in BOOLEAN
      BY <1>3, Zenon
    <3> QED
      BY <1>3, <3>1 DEF Inv, Types, TypeOK, loginVars, HistoryMessage
  <2>2. LoginInv'
    BY <1>3 DEF Inv, LoginInv, Owed, Passed, OwnAnswer, Before, LoggedIn, loginVars
  <2>3. HistoryInv' \/ ~Punctual'
    BY <1>3 DEF Inv, HistoryInv, Punctual, LoggedIn
  <2> QED
    BY <2>1, <2>2, <2>3 DEF Inv
<1> QED
  BY <1>1, <1>2, <1>3, ClientStep

-----------------------------------------------------------------------------
LoggingIn == step \notin Ended \cup {"replayBars", "bars"}

(* Zorro's thread is not at work in a client that is closed, and is in     *)
(* login only if it was there before.                                      *)
LEMMA AtWork ==
    ASSUME Types, Proceed \/ BrokerHistory2 \/ Aborts
    PROVE  /\ step # "closed"
           /\ LoggingIn' => LoggingIn /\ UNCHANGED noData
<1> USE DEF LoggingIn, Ended, Waits, historyVars, Types
<1>1. CASE Login
  BY <1>1 DEF Login, Connected, HasAccount, ListTradeRoutes, SubscribeOrder, SubscribePnl, Ask
<1>2. ASSUME NEW size \in Sizes, ReplayBars(size)
      PROVE  step # "closed" /\ ~LoggingIn'
  BY <1>2 DEF ReplayBars
<1>3. CASE Answered \/ TimeOut \/ AbortWait
  BY <1>3 DEF Answered, TimeOut, AbortWait, Waiting
<1>4. CASE Return
  BY <1>4 DEF Return, Following
<1>5. CASE BrokerHistory2
  BY <1>5 DEF BrokerHistory2
<1>6. CASE AbortConnect
  BY <1>6 DEF AbortConnect
<1> QED
  BY <1>1, <1>2, <1>3, <1>4, <1>5, <1>6 DEF Proceed, Aborts

LEMMA CallbacksElsewhere ==
    ASSUME Callbacks
    PROVE  UNCHANGED <<step, noData>>
  BY DEF Callbacks, Alert, ConnectionFails, AccountList, Replay, TradeRouteList, OpenOrderReplay,
         PnlReplay, PnlNotReplayed, Answer, Bar, BarReplay, historyVars

(* What leaves the dialog and its answer alone leaves the books of the     *)
(* login alone, if no closed client works after it.                        *)
LEMMA LoginFrame ==
    ASSUME LoginBooks, UNCHANGED <<login, chosen, env, dialog, registry>>,
           step' = "closed" \/ (step # "closed" /\ login = "none") \/ UNCHANGED step
    PROVE  LoginBooks'
  BY DEF LoginBooks, DialogShows, Dialog!isOpen, Chosen, ConnectsAsConfirmed, ThrowsWithoutGateway

(* A choice in the dialog is one of the configuration, or has no gateway.  *)
LEMMA DialogAnswers ==
    ASSUME DialogShows, Dialog!isOpen
    PROVE  Dialog!Answer \in Dialog!Configured \/ Dialog!Answer.gateway = Dialog!NoName
<1>1. CASE dialog.gateway = Dialog!NoName
  BY <1>1 DEF Dialog!Answer
<1>2. CASE dialog.gateway # Dialog!NoName
  <2>1. dialog.server \in Dialog!Servers /\ dialog.gateway \in Dialog!GatewaysOf(dialog.server)
    BY <1>2 DEF DialogShows
  <2>2. dialog.gateway \in Dialog!Gateways
    BY <2>1 DEF Dialog!Gateways
  <2> QED
    BY <2>1, <2>2 DEF Dialog!Answer, Dialog!Configured
<1> QED
  BY <1>1, <1>2

LEMMA SelectedIsListed ==
    ASSUME NEW list, NEW i
    PROVE  Dialog!Selected(list, i) \in Dialog!Range(list) \cup {Dialog!NoName}
  BY DEF Dialog!Selected, Dialog!Range

(* The dialog opens, and stays, with the gateways of its server.           *)
LEMMA DialogStep ==
    ASSUME DialogShows, Dialog!InitDialog \/ Dialog!Use
    PROVE  DialogShows' /\ UNCHANGED registry
<1>1. CASE Dialog!InitDialog
  <2> DEFINE s == IF registry.server \in Dialog!Servers THEN registry.server ELSE ServerList[1]
  <2>1. s \in Dialog!Servers
    BY ServerAssumption DEF Dialog!Servers, Dialog!Range
  <2>2. Dialog!PopulateGateway(s, registry.gateway)
          \in Dialog!GatewaysOf(s) \cup {Dialog!NoName}
    BY SelectedIsListed DEF Dialog!PopulateGateway, Dialog!GatewaysOf
  <2>3. dialog' = [server |-> s, list |-> GatewayList[s],
                   gateway |-> Dialog!PopulateGateway(s, registry.gateway), saved |-> registry]
    BY <1>1 DEF Dialog!InitDialog
  <2> HIDE DEF s
  <2> QED
    BY <1>1, <2>1, <2>2, <2>3 DEF DialogShows, Dialog!InitDialog, Dialog!Servers, Dialog!GatewaysOf
<1>2. ASSUME NEW s \in Dialog!Servers, Dialog!SelectServer(s)
      PROVE  DialogShows' /\ UNCHANGED registry
  <2>1. PICK g \in Dialog!Range(GatewayList[s]) \cup {Dialog!NoName} :
          dialog' = [dialog EXCEPT !.server = s, !.list = GatewayList[s], !.gateway = g]
    BY <1>2, SelectedIsListed DEF Dialog!SelectServer, Dialog!Refilled
  <2> QED
    BY <1>2, <2>1
       DEF DialogShows, Dialog!SelectServer, Dialog!Servers, Dialog!GatewaysOf
<1>3. ASSUME NEW g \in Dialog!Range(dialog.list), Dialog!PickGateway(g)
      PROVE  DialogShows' /\ UNCHANGED registry
  BY <1>3 DEF DialogShows, Dialog!PickGateway, Dialog!Servers, Dialog!GatewaysOf
<1> QED
  BY <1>1, <1>2, <1>3 DEF Dialog!Use

-----------------------------------------------------------------------------
LEMMA LoginBooksStep ==
    ASSUME Inv, LoginBooks, [PluginNext]_pluginVars
    PROVE  LoginBooks'
<1> USE DEF loginDialogVars, dialogVars
<1>1. CASE UseDialog
  <2>1. DialogShows' /\ UNCHANGED registry
    BY <1>1, DialogStep DEF UseDialog, InDialog, LoginBooks
  <2> QED
    BY <1>1, <2>1
       DEF UseDialog, InDialog, LoginBooks, Chosen, ConnectsAsConfirmed, ThrowsWithoutGateway, vars
<1>2. CASE CancelLogin
  BY <1>2 DEF CancelLogin, InDialog, Dialog!Close, Dialog!isOpen, LoginBooks, DialogShows, Chosen,
       ConnectsAsConfirmed, ThrowsWithoutGateway, vars
<1>3. CASE ConfirmLogin
  <2>1. Dialog!isOpen /\ dialog' = Dialog!Closed /\ registry' = Dialog!Answer
        /\ chosen' = Dialog!Answer /\ login' = "chosen" /\ step = "closed" /\ UNCHANGED step
    BY <1>3
       DEF ConfirmLogin, InDialog, Dialog!Confirm, Dialog!Saves, LoginBooks, Chosen, vars
  <2>2. chosen' \in Dialog!Configured \/ chosen'.gateway = Dialog!NoName
    BY <2>1, DialogAnswers DEF LoginBooks
  <2> QED
    BY <2>1, <2>2
       DEF Dialog!isOpen, LoginBooks, DialogShows, Chosen, ConnectsAsConfirmed,
           ThrowsWithoutGateway
<1>4. CASE Connect
  <2>1. CASE Found
    BY <1>4, <2>1
       DEF Connect, Found, LoginBooks, DialogShows, Dialog!isOpen, Chosen, ConnectsAsConfirmed,
           ThrowsWithoutGateway
  <2>2. CASE ~Found
    BY <1>4, <2>2
       DEF Connect, Found, Client, LoginBooks, DialogShows, Dialog!isOpen, Chosen,
           ConnectsAsConfirmed, ThrowsWithoutGateway
  <2> QED
    BY <2>1, <2>2
<1>5. CASE BrokerLogin
  <2>1. CASE login' = "dialog" /\ Dialog!InitDialog
    <3>1. DialogShows' /\ UNCHANGED registry
      BY <2>1, DialogStep DEF LoginBooks
    <3> QED
      BY <1>5, <2>1, <3>1
         DEF BrokerLogin, NoSession, LoginBooks, Chosen, ConnectsAsConfirmed, ThrowsWithoutGateway
  <2>2. CASE UNCHANGED <<login, dialogVars>>
    BY <1>5, <2>2, LoginFrame DEF BrokerLogin
  <2> QED
    BY <1>5, <2>1, <2>2 DEF BrokerLogin
<1>6. CASE Command \/ BrokerBuy2 \/ BrokerBuy2Returns
  BY <1>6, LoginFrame DEF Command, BrokerBuy2, BrokerBuy2Returns, vars
<1>7. CASE Logout
  BY <1>7, LoginFrame DEF Logout, Client
<1>8. CASE InSession(Proceed \/ BrokerHistory2 \/ Aborts)
  <2>1. step # "closed"
    BY <1>8, AtWork DEF InSession, Inv
  <2>2. login = "none"
    BY <2>1 DEF LoginBooks, Chosen
  <2> QED
    BY <1>8, <2>1, <2>2, LoginFrame DEF InSession
<1>9. CASE Callbacks /\ UNCHANGED <<loginDialogVars, env, settingVars, logoVars>>
  BY <1>9, LoginFrame, CallbacksElsewhere
<1>10. CASE \E l \in Logins : LogosAppear(l) \/ LogosEnd(l)
  BY <1>10, LoginFrame DEF LogosAppear, LogosEnd, vars
<1>11. CASE UNCHANGED pluginVars
  BY <1>11, LoginFrame DEF pluginVars, vars
<1> QED
  BY <1>1, <1>2, <1>3, <1>4, <1>5, <1>6, <1>7, <1>8, <1>9, <1>10, <1>11
     DEF PluginNext, Zorro, Goes

-----------------------------------------------------------------------------
(* The settings. *)

LEMMA SettingsFrame ==
    ASSUME SettingBooks, UNCHANGED <<login, step, noData, global, order, wanted>>
    PROVE  SettingBooks'
  BY DEF SettingBooks, AsWished, Wish, OrderBooks, OrderIsAsSet, Setup!OrderIsAsSet,
         SessionStartsClean, Setup!Setting, LoggingIn

(* A command sets what Zorro asks for.                                     *)
LEMMA SetSomethingStep ==
    ASSUME AsWished, Setup!SetSomething
    PROVE  AsWished' /\ UNCHANGED order /\ order = Setup!NoOrder
<1> USE DEF AsWished, Wish, Setup!Command, Setup!Setting
<1>1. ASSUME NEW p \in Limits, Setup!SetLimit(p)
      PROVE  AsWished' /\ UNCHANGED order /\ order = Setup!NoOrder
  BY <1>1 DEF Setup!SetLimit
<1>2. ASSUME NEW a \in Amounts, Setup!SetAmount(a)
      PROVE  AsWished' /\ UNCHANGED order /\ order = Setup!NoOrder
  BY <1>2 DEF Setup!SetAmount
<1>3. ASSUME NEW ms \in WaitTimes, Setup!SetWait(ms)
      PROVE  AsWished' /\ UNCHANGED order /\ order = Setup!NoOrder
  BY <1>3 DEF Setup!SetWait
<1>4. ASSUME NEW v \in VolumeTypes, Setup!SetVolumeType(v)
      PROVE  AsWished' /\ UNCHANGED order /\ order = Setup!NoOrder
  BY <1>4 DEF Setup!SetVolumeType
<1>5. ASSUME NEW t \in OrderTypes, Setup!SetOrderType(t)
      PROVE  AsWished' /\ UNCHANGED order /\ order = Setup!NoOrder
  <2> DEFINE d == CASE t = 1 -> "FOK" [] t = 2 -> "GTC" [] OTHER -> "IOC"
  <2>1. d \in Setup!Durations
    BY DEF Setup!Durations
  <2>2. /\ order = Setup!NoOrder /\ UNCHANGED order
        /\ global' = [global EXCEPT !.duration = d]
        /\ wanted' = [wanted EXCEPT !.duration = d, !.overruled = FALSE]
    BY <1>5 DEF Setup!SetOrderType
  <2> HIDE DEF d
  <2> QED
    BY <2>1, <2>2
<1>6. ASSUME NEW on \in BOOLEAN, Setup!DayOrders(on)
      PROVE  AsWished' /\ UNCHANGED order /\ order = Setup!NoOrder
  <2>1. PICK d \in {"DAY", "IOC"} :
          /\ order = Setup!NoOrder /\ UNCHANGED order
          /\ global' = [global EXCEPT !.duration = d]
          /\ wanted' = IF wanted.duration = "GTC" THEN [wanted EXCEPT !.overruled = TRUE]
                       ELSE [wanted EXCEPT !.duration = d]
    BY <1>6 DEF Setup!DayOrders
  <2> QED
    BY <2>1 DEF Setup!Durations
<1> QED
  BY <1>1, <1>2, <1>3, <1>4, <1>5, <1>6 DEF Setup!SetSomething

(* The next order takes what was set, and the limit and the amount are     *)
(* forgotten after it.                                                     *)
LEMMA OrderStep ==
    ASSUME AsWished, Setup!SendOrder \/ Setup!NotSent \/ Setup!Return
    PROVE  /\ AsWished'
           /\ order' # Setup!NoOrder => Setup!OrderIsAsSet'
<1> USE DEF AsWished, Wish, Setup!Setting
<1>1. CASE Setup!SendOrder
  BY <1>1 DEF Setup!SendOrder, Setup!OrderIsAsSet, Setup!Durations
<1>2. CASE Setup!NotSent
  BY <1>2 DEF Setup!NotSent, Setup!Forgotten
<1>3. CASE Setup!Return
  BY <1>3 DEF Setup!Return, Setup!Forgotten
<1> QED
  BY <1>1, <1>2, <1>3

LEMMA SettingBooksStep ==
    ASSUME Inv, LoginBooks, SettingBooks, [PluginNext]_pluginVars
    PROVE  SettingBooks'
<1> USE DEF settingVars, SettingBooks, OrderBooks, OrderIsAsSet, SessionStartsClean
<1>0. login # "none" => step = "closed"
  BY DEF LoginBooks, Chosen
<1>1. CASE UseDialog \/ CancelLogin \/ ConfirmLogin
  <2>1. login = "dialog" /\ UNCHANGED <<global, order, wanted, step, noData>>
    BY <1>1 DEF UseDialog, CancelLogin, ConfirmLogin, InDialog, vars, historyVars
  <2>2. order = Setup!NoOrder
    BY <1>0, <2>1
  <2> QED
    BY <2>1, <2>2 DEF AsWished, Wish, Setup!OrderIsAsSet, Setup!Setting, Ended
<1>2. CASE Connect
  <2>1. login = "chosen" /\ UNCHANGED <<global, order, wanted, noData>> /\ login' \in {"none", "thrown"}
    BY <1>2 DEF Connect
  <2>2. order = Setup!NoOrder
    BY <1>0, <2>1
  <2> QED
    BY <2>1, <2>2 DEF AsWished, Wish, Setup!OrderIsAsSet, Setup!Setting, Ended
<1>3. CASE BrokerLogin
  <2>1. order = Setup!NoOrder /\ order' = order
    BY <1>3 DEF BrokerLogin, NoSession, Setup!SessionBegins
  <2>2. /\ global' = [Setup!Defaults EXCEPT !.volume = global.volume]
        /\ global.volume \in VolumeTypes \cup {0}
        /\ wanted' = Setup!DefaultWish /\ noData' = FALSE
    BY <1>3 DEF BrokerLogin, Setup!SessionBegins, Setup!Reset, ForgetsNoData, AsWished, Setup!Setting
  <2>3. AsWished'
    BY <2>2 DEF AsWished, Wish, Setup!Setting, Setup!Defaults, Setup!DefaultWish,
         Setup!Durations
  <2> QED
    BY <2>1, <2>2, <2>3 DEF Setup!OrderIsAsSet, Setup!Defaults
<1>4. CASE Command
  <2>1. UNCHANGED <<step, login, noData>> /\ (NoSession \/ step = "idle")
    BY <1>4 DEF Command, vars, historyVars, loginDialogVars
  <2>2. AsWished' /\ UNCHANGED order /\ order = Setup!NoOrder
    BY <1>4, SetSomethingStep DEF Command
  <2> QED
    BY <1>0, <2>1, <2>2 DEF NoSession, Ended, Setup!OrderIsAsSet
<1>5. CASE BrokerBuy2 \/ BrokerBuy2Returns
  <2>1. UNCHANGED <<step, login, noData>>
    BY <1>5 DEF BrokerBuy2, BrokerBuy2Returns, vars, historyVars, loginDialogVars
  <2>2. step = "idle"
    BY <1>5 DEF BrokerBuy2, BrokerBuy2Returns, Setup!Return
  <2>3. AsWished' /\ (order' # Setup!NoOrder => Setup!OrderIsAsSet')
    BY <1>5, OrderStep DEF BrokerBuy2, BrokerBuy2Returns
  <2> QED
    BY <1>0, <2>1, <2>2, <2>3 DEF Ended, Setup!OrderIsAsSet
<1>6. CASE Logout
  <2>1. order = Setup!NoOrder /\ UNCHANGED <<global, order, wanted, noData, login>>
        /\ step' = "closed" /\ step = "idle"
    BY <1>6 DEF Logout, Client, loginDialogVars
  <2> QED
    BY <1>0, <2>1 DEF AsWished, Wish, Setup!OrderIsAsSet, Setup!Setting, Ended
<1>7. CASE InSession(Proceed \/ BrokerHistory2 \/ Aborts)
  <2>1. order = Setup!NoOrder /\ UNCHANGED <<global, order, wanted, login>>
    BY <1>7 DEF InSession, loginDialogVars
  <2>2. step # "closed" /\ (LoggingIn' => LoggingIn /\ UNCHANGED noData)
    BY <1>7, AtWork DEF InSession, Inv
  <2> QED
    BY <1>0, <2>1, <2>2 DEF AsWished, Wish, Setup!OrderIsAsSet, Setup!Setting, LoggingIn
<1>8. CASE Callbacks /\ UNCHANGED <<loginDialogVars, env, settingVars, logoVars>>
  BY <1>8, SettingsFrame, CallbacksElsewhere DEF loginDialogVars
<1>9. CASE \E l \in Logins : LogosAppear(l) \/ LogosEnd(l)
  BY <1>9, SettingsFrame DEF LogosAppear, LogosEnd, vars, historyVars, loginDialogVars
<1>10. CASE UNCHANGED pluginVars
  BY <1>10, SettingsFrame DEF pluginVars, vars, historyVars
<1> QED
  BY <1>1, <1>2, <1>3, <1>4, <1>5, <1>6, <1>7, <1>8, <1>9, <1>10
     DEF PluginNext, Zorro, Goes

-----------------------------------------------------------------------------
(* Types. *)

(* The dialog offers what the configuration has.                           *)
LEMMA DialogTypesAfter ==
    ASSUME DialogShows', UNCHANGED registry,
           registry \in {Dialog!Nothing} \cup OldChoices
             \cup [server : Dialog!Servers, gateway : Dialog!Gateways \cup {Dialog!NoName}]
    PROVE  Dialog!DialogTypeOK'
<1> SUFFICES ASSUME Dialog!isOpen'
             PROVE  /\ dialog'.server \in Dialog!Servers
                    /\ dialog'.list \in Dialog!Range(GatewayList)
                    /\ dialog'.gateway \in Dialog!Range(dialog'.list) \cup {Dialog!NoName}
  BY DEF Dialog!DialogTypeOK
<1>1. dialog'.server \in DOMAIN GatewayList
  BY ServerAssumption DEF DialogShows, Dialog!Servers, Dialog!Range
<1> QED
  BY <1>1 DEF DialogShows, Dialog!Range, Dialog!GatewaysOf

LEMMA OwnTypesStep ==
    ASSUME Inv, LoginBooks, LoginBooks', SettingBooks, OwnTypes, [PluginNext]_pluginVars
    PROVE  OwnTypes'
<1> USE DEF OwnTypes, loginDialogVars, dialogVars, settingVars
<1>1. CASE UNCHANGED <<dialog, registry, login, env, chosen, order>>
  BY <1>1 DEF Dialog!DialogTypeOK, Dialog!isOpen
<1>2. CASE UseDialog
  <2>1. UNCHANGED <<env, order, chosen>> /\ login' = "dialog"
    BY <1>2 DEF UseDialog, InDialog
  <2>2. UNCHANGED registry /\ DialogShows'
    BY <1>2, DialogStep DEF UseDialog, InDialog, LoginBooks
  <2>3. Dialog!DialogTypeOK'
    BY <2>2, DialogTypesAfter DEF Dialog!DialogTypeOK
  <2> QED
    BY <2>1, <2>3
<1>3. CASE CancelLogin
  BY <1>3 DEF CancelLogin, InDialog, Dialog!Close, Dialog!DialogTypeOK, Dialog!isOpen
<1>4. CASE ConfirmLogin
  <2>1. /\ registry' = [server |-> dialog.server, gateway |-> dialog.gateway]
        /\ chosen' = registry' /\ dialog' = Dialog!Closed /\ login' = "chosen" /\ Dialog!isOpen
        /\ UNCHANGED <<env, order>>
    BY <1>4
       DEF ConfirmLogin, InDialog, Dialog!Confirm, Dialog!Saves, Dialog!Answer
  <2>2. dialog.server \in Dialog!Servers /\ dialog.gateway \in Dialog!Gateways \cup {Dialog!NoName}
    BY <2>1 DEF LoginBooks, DialogShows, Dialog!Gateways
  <2> QED
    BY <2>1, <2>2 DEF Dialog!DialogTypeOK, Dialog!isOpen
<1>5. CASE Connect
  BY <1>5 DEF Connect, Found, Dialog!DialogTypeOK, Dialog!isOpen
<1>6. CASE BrokerLogin
  <2>1. UNCHANGED <<env, order, chosen>>
    BY <1>6 DEF BrokerLogin, Setup!SessionBegins
  <2>2. CASE login' = "dialog" /\ Dialog!InitDialog
    <3>1. UNCHANGED registry /\ DialogShows'
      BY <2>2, DialogStep DEF LoginBooks
    <3>2. Dialog!DialogTypeOK'
      BY <3>1, DialogTypesAfter DEF Dialog!DialogTypeOK
    <3> QED
      BY <2>1, <2>2, <3>2
  <2> QED
    BY <1>1, <1>6, <2>1, <2>2 DEF BrokerLogin
<1>7. CASE BrokerBuy2 \/ BrokerBuy2Returns
  <2>1. UNCHANGED <<dialog, registry, login, env, chosen>>
    BY <1>7 DEF BrokerBuy2, BrokerBuy2Returns
  <2>2. CASE Setup!SendOrder
    BY <2>1, <2>2
       DEF Setup!SendOrder, SettingBooks, AsWished, Setup!Setting, Setup!Durations,
           Dialog!DialogTypeOK, Dialog!isOpen
  <2>3. CASE Setup!NotSent \/ Setup!Return
    BY <2>1, <2>3
       DEF Setup!NotSent, Setup!Return, Setup!NoOrder, Setup!Durations, Dialog!DialogTypeOK,
           Dialog!isOpen
  <2> QED
    BY <1>7, <2>2, <2>3 DEF BrokerBuy2, BrokerBuy2Returns
<1>8. CASE Command
  BY <1>1, <1>8, SetSomethingStep DEF Command, SettingBooks
<1>9. CASE Logout \/ InSession(Proceed \/ BrokerHistory2 \/ Aborts)
           \/ \E l \in Logins : LogosAppear(l) \/ LogosEnd(l)
  BY <1>1, <1>9 DEF Logout, InSession, LogosAppear, LogosEnd
<1> QED
  BY <1>1, <1>2, <1>3, <1>4, <1>5, <1>6, <1>7, <1>8, <1>9 DEF PluginNext, Zorro, Goes, pluginVars

(* There are logos for every login that succeeds.                          *)
LEMMA LogosBooksStep ==
    ASSUME Inv, LoginBooks, LogosBooks, [PluginNext]_pluginVars
    PROVE  LogosBooks'
<1> USE LoginAssumption
<1> USE DEF LogosBooks, loginDialogVars, dialogVars, logoVars, Logins, Ended
<1>1. CASE UNCHANGED <<logoVars, step, login>>
  BY <1>1
<1>2. CASE Zorro \/ Goes
  <2>1. CASE UseDialog \/ CancelLogin \/ ConfirmLogin
    <3>1. login = "dialog" /\ UNCHANGED <<logoVars, step>> /\ logins < MaxLogins
      BY <2>1 DEF UseDialog, CancelLogin, ConfirmLogin, InDialog, vars
    <3> QED
      BY <3>1
  <2>2. CASE Connect
    <3>1. login = "chosen" /\ UNCHANGED logoVars /\ logins < MaxLogins
      BY <2>2 DEF Connect
    <3> QED
      BY <3>1
  <2>3. CASE Logout
    BY <2>3 DEF Logout, Client, ClearsHandle
  <2>4. CASE Command \/ BrokerBuy2 \/ BrokerBuy2Returns
    BY <1>1, <2>4 DEF Command, BrokerBuy2, BrokerBuy2Returns, vars
  <2> QED
    BY <1>2, <2>1, <2>2, <2>3, <2>4 DEF Zorro, Goes
<1>3. CASE logins < MaxLogins /\ BrokerLogin
  BY <1>3 DEF BrokerLogin
<1>4. CASE InSession(Proceed \/ BrokerHistory2 \/ Aborts)
  <2>1. UNCHANGED login /\ ShowLogos /\ (LoggingIn' => LoggingIn) /\ step # "closed"
    BY <1>4, AtWork DEF InSession, Inv
  <2>2. CASE step = "pnl" /\ step' = "idle"
    <3>1. logins < MaxLogins /\ login = "none"
      BY <2>1, <2>2 DEF LoginBooks, Chosen
    <3>2. /\ logins' = logins + 1 /\ hDlg' = hDlg
          /\ logos' = [logos EXCEPT ![logins + 1] = "starting"]
      BY <2>1, <2>2 DEF ShowLogos
    <3> QED
      BY <2>1, <2>2, <3>1, <3>2
  <2>3. CASE ~(step = "pnl" /\ step' = "idle")
    BY <2>1, <2>3 DEF ShowLogos, LoggingIn
  <2> QED
    BY <2>2, <2>3
<1>5. CASE Callbacks /\ UNCHANGED <<loginDialogVars, env, settingVars, logoVars>>
  BY <1>1, <1>5, CallbacksElsewhere
<1>6. CASE \E l \in Logins : LogosAppear(l) \/ LogosEnd(l)
  BY <1>6 DEF LogosAppear, LogosEnd, vars
<1> QED
  BY <1>1, <1>2, <1>3, <1>4, <1>5, <1>6 DEF PluginNext, pluginVars, vars

-----------------------------------------------------------------------------
LEMMA PluginInitially ==
    ASSUME PluginInit
    PROVE  PluginInv
<1>1. Inv
  <2> USE HistoryAssumption DEF PluginInit, Fresh
  <2>1. accounts \in BOOLEAN
    BY Zenon DEF Accounts
  <2>2. history \in Seq(HistoryMessage) /\ ticks \in Seq(HistoryMessage)
    OBVIOUS
  <2>3. account \in BOOLEAN /\ noData \in BOOLEAN
    BY Zenon
  <2>4. call \in 0..MaxCalls /\ sent \in 0..MaxBars /\ asked \in Sizes \cup {0}
    OBVIOUS
  <2>5. TypeOK
    BY <2>1, <2>2, <2>3, <2>4 DEF TypeOK, Ended
  <2>6. LoginInv
    BY DEF LoginInv, Owed, Passed, OwnAnswer, LoggedIn
  <2>7. HistoryInv
    BY DEF HistoryInv, LoggedIn
  <2> QED
    BY <2>5, <2>6, <2>7 DEF Inv, Types
<1>2. LoginBooks
  BY DEF PluginInit, Fresh, Dialog!DialogInit, Dialog!isOpen, LoginBooks, DialogShows, Chosen,
     ConnectsAsConfirmed, ThrowsWithoutGateway
<1>3. SettingBooks
  BY DEF PluginInit, Fresh, Setup!SettingsInit, SettingBooks, AsWished, Wish, Setup!Setting,
     Setup!Defaults, Setup!DefaultWish, Setup!Durations, OrderBooks, OrderIsAsSet,
     Setup!OrderIsAsSet, SessionStartsClean, Ended
<1>4. OwnTypes /\ LogosBooks
  BY LoginAssumption
     DEF PluginInit, Fresh, Dialog!DialogInit, Dialog!DialogTypeOK, Dialog!isOpen,
         Setup!SettingsInit, Setup!NoOrder, Setup!Durations, OwnTypes, LogosBooks, Ended, Logins
<1> QED
  BY <1>1, <1>2, <1>3, <1>4 DEF PluginInv

LEMMA PluginInvStep ==
    ASSUME PluginInv, [PluginNext]_pluginVars
    PROVE  PluginInv'
  BY SessionInvStep, LoginBooksStep, SettingBooksStep, OwnTypesStep, LogosBooksStep DEF PluginInv

LEMMA PluginInvariance == PluginSpec => []PluginInv
  BY PluginInitially, PluginInvStep, PTL DEF PluginSpec

(* The state of the plugin, of its client, its dialog and its settings     *)
(* stays in its types.                                                     *)
THEOREM PluginTypeCorrect == PluginSpec => []PluginTypeOK
<1>1. PluginInv => PluginTypeOK
  BY DEF PluginInv, Inv, Types, SettingBooks, AsWished, OwnTypes, LogosBooks, PluginTypeOK,
     Setup!SettingsTypeOK
<1> QED
  BY <1>1, PluginInvariance, PTL

(* Every session of the plugin, and whatever fails in it or is aborted:    *)
(* Zorro works with an account, trade routes and open orders only.         *)
THEOREM EveryLoginIsComplete == PluginSpec => []LoginIsComplete
<1>1. PluginInv => LoginIsComplete
  BY InvIsStrong DEF PluginInv
<1> QED
  BY <1>1, PluginInvariance, PTL

(* In sessions with punctual answers, no request of any of them ends with  *)
(* the answer to another, and no call has more bars than Zorro has room    *)
(* for.                                                                    *)
THEOREM EveryAnswerIsOwn ==
    ASSUME Punctual
    PROVE  PluginSpec => [](AnswerIsOwn /\ BarsFit)
<1>1. PluginInv /\ Punctual => AnswerIsOwn /\ BarsFit
  BY InvIsStrong DEF PluginInv
<1> QED
  BY <1>1, PluginInvariance, PTL

(* And a history call that is completed returns the bars of its own        *)
(* request, whatever client made it.                                       *)
THEOREM EveryHistoryIsOwn ==
    ASSUME Punctual
    PROVE  PluginSpec => HistoryIsOwn
<1>1. PluginInv /\ Punctual /\ [PluginNext]_pluginVars
        => [step = "bars" /\ step' = "idle" /\ result = "Complete" => ticks' = OwnBars]_vars
  <2> SUFFICES ASSUME PluginInv, Punctual, [PluginNext]_pluginVars,
                      step = "bars", step' = "idle", result = "Complete"
               PROVE  ticks' = OwnBars
    OBVIOUS
  <2>1. Next
    BY ClientStep DEF PluginInv, Client, vars
  <2> QED
    BY <2>1, OwnBarsStep DEF PluginInv
<1>2. Punctual /\ Punctual'
  BY DEF Punctual
<1> QED
  BY <1>1, <1>2, PluginInvariance, PTL DEF PluginSpec, HistoryIsOwn

(* A client is connected to the server and the gateway that the user has   *)
(* confirmed last, which the configuration has: for every configuration    *)
(* and whatever an earlier installation left in the registry.              *)
THEOREM SessionsConnectAsConfirmed == PluginSpec => []ConnectsAsConfirmed
<1>1. PluginInv => ConnectsAsConfirmed
  BY DEF PluginInv, LoginBooks
<1> QED
  BY <1>1, PluginInvariance, PTL

(* setServer throws for no choice but one without a gateway.               *)
THEOREM OnlyNoGatewayThrows == PluginSpec => []ThrowsWithoutGateway
<1>1. PluginInv => ThrowsWithoutGateway
  BY DEF PluginInv, LoginBooks
<1> QED
  BY <1>1, PluginInvariance, PTL

(* A session begins with the default settings, vol_type_ alone excepted,   *)
(* and without assets that are taken to have no data.                      *)
THEOREM SessionsStartClean == PluginSpec => []SessionStartsClean
<1>1. PluginInv => SessionStartsClean
  BY DEF PluginInv, SettingBooks
<1> QED
  BY <1>1, PluginInvariance, PTL

(* An order has the limit, the amount and the duration that were set for   *)
(* it, and none that was set for another order or in another session; a    *)
(* GTC order that command 2001 overrules is one of the duration it sets.   *)
THEOREM OrdersAreAsSet == PluginSpec => []OrderIsAsSet
<1>1. PluginInv => OrderIsAsSet
  BY DEF PluginInv, SettingBooks
<1> QED
  BY <1>1, PluginInvariance, PTL

-----------------------------------------------------------------------------
(* The time that an order is given. *)

(* Up to here, what SET_WAIT keeps is not less than was asked for, although *)
(* the product wraps; the next time is too long.                           *)
SoundTimes == 0..133143

LEMMA WaitTimeSuffices ==
    \A ms \in SoundTimes : Setup!WaitTime(ms) >= ms \div Setup!Unit
<1> SUFFICES ASSUME NEW ms \in SoundTimes
             PROVE  Setup!WaitTime(ms) >= ms \div Setup!Unit
  BY Zenon
<1>1. ms \in Int /\ 0 <= ms /\ ms <= 133143
  BY DEF SoundTimes
<1>2. (ms * 15625) % 67108864 >= ms \div 64
  BY <1>1, SMTT(100)
<1>3. 1073741824 >= ms \div 64
  BY <1>1
<1> QED
  BY <1>2, <1>3 DEF Setup!WaitTime, Setup!Unit, Setup!Wrap, Setup!Signed, Setup!Forever

(* Only SET_WAIT and a login set the time.                                 *)
LEMMA WaitStep ==
    ASSUME SettingBooks, WaitSuffices, [PluginNext]_pluginVars,
           \A ms \in WaitTimes : Setup!WaitTime(ms) >= ms \div Setup!Unit
    PROVE  WaitSuffices'
<1> USE DEF WaitSuffices, Setup!WaitSuffices
<1>1. global \in Setup!Setting /\ wanted \in Wish
  BY DEF SettingBooks, AsWished
<1>2. CASE UNCHANGED <<global, wanted>>
  BY <1>2
<1>3. ASSUME UNCHANGED <<global.wait, wanted.wait>>
      PROVE  WaitSuffices'
  BY <1>3
<1>4. CASE BrokerLogin
  <2>1. global'.wait = 937500000 /\ wanted'.wait = 60000
    BY <1>4 DEF BrokerLogin, Setup!SessionBegins, Setup!Reset, Setup!Defaults,
         Setup!DefaultWish, Setup!DefaultWait
  <2> QED
    BY <2>1 DEF Setup!Unit
<1>5. CASE Command
  <2>1. ASSUME NEW ms \in WaitTimes, Setup!SetWait(ms)
        PROVE  WaitSuffices'
    <3>1. global'.wait = Setup!WaitTime(ms) /\ wanted'.wait = ms
      BY <1>1, <2>1 DEF Setup!SetWait, Setup!Command, Setup!Setting, Wish
    <3> QED
      BY <3>1
  <2>2. ASSUME NEW p \in Limits, Setup!SetLimit(p)
        PROVE  WaitSuffices'
    BY <1>1, <1>3, <2>2 DEF Setup!SetLimit, Setup!Command, Setup!Setting, Wish
  <2>3. ASSUME NEW a \in Amounts, Setup!SetAmount(a)
        PROVE  WaitSuffices'
    BY <1>1, <1>3, <2>3 DEF Setup!SetAmount, Setup!Command, Setup!Setting, Wish
  <2>4. ASSUME NEW v \in VolumeTypes, Setup!SetVolumeType(v)
        PROVE  WaitSuffices'
    BY <1>1, <1>3, <2>4 DEF Setup!SetVolumeType, Setup!Command, Setup!Setting, Wish
  <2>5. ASSUME NEW t \in OrderTypes, Setup!SetOrderType(t)
        PROVE  WaitSuffices'
    BY <1>1, <1>3, <2>5 DEF Setup!SetOrderType, Setup!Command, Setup!Setting, Wish
  <2>6. ASSUME NEW on \in BOOLEAN, Setup!DayOrders(on)
        PROVE  WaitSuffices'
    BY <1>1, <1>3, <2>6 DEF Setup!DayOrders, Setup!Command, Setup!Setting, Wish
  <2> QED
    BY <1>5, <2>1, <2>2, <2>3, <2>4, <2>5, <2>6 DEF Command, Setup!SetSomething
<1>6. CASE BrokerBuy2 \/ BrokerBuy2Returns
  <2>1. CASE Setup!SendOrder
    BY <1>2, <2>1 DEF Setup!SendOrder
  <2>2. CASE Setup!NotSent \/ Setup!Return
    BY <1>1, <1>3, <2>2
       DEF Setup!NotSent, Setup!Return, Setup!Forgotten, Setup!Setting, Wish
  <2> QED
    BY <1>6, <2>1, <2>2 DEF BrokerBuy2, BrokerBuy2Returns
<1>7. CASE \/ UseDialog \/ CancelLogin \/ ConfirmLogin \/ Logout \/ Connect
           \/ InSession(Proceed \/ BrokerHistory2 \/ Aborts)
           \/ Callbacks /\ UNCHANGED <<loginDialogVars, env, settingVars, logoVars>>
           \/ \E l \in Logins : LogosAppear(l) \/ LogosEnd(l)
           \/ UNCHANGED pluginVars
  BY <1>2, <1>7 DEF UseDialog, CancelLogin, ConfirmLogin, InDialog, Logout, Connect, InSession,
       LogosAppear, LogosEnd, pluginVars, settingVars
<1> QED
  BY <1>4, <1>5, <1>6, <1>7 DEF PluginNext, Zorro, Goes

(* Although SET_WAIT overflows, no order is given up before the time that  *)
(* was set, of any that are up to 133143 milliseconds. Of 133144, what is  *)
(* left of the product is less.                                            *)
THEOREM WaitsSuffice ==
    ASSUME WaitTimes \subseteq SoundTimes
    PROVE  PluginSpec => []WaitSuffices
<1>1. \A ms \in WaitTimes : Setup!WaitTime(ms) >= ms \div Setup!Unit
  BY WaitTimeSuffices, Zenon
<1>2. PluginInit => WaitSuffices
  <2>1. PluginInit => global = Setup!Defaults /\ wanted = Setup!DefaultWish
    BY DEF PluginInit, Setup!SettingsInit
  <2>2. Setup!Defaults.wait = 937500000 /\ Setup!DefaultWish.wait = 60000
    BY DEF Setup!Defaults, Setup!DefaultWish, Setup!DefaultWait
  <2>3. 937500000 >= 60000 \div 64
    OBVIOUS
  <2> QED
    BY <2>1, <2>2, <2>3 DEF WaitSuffices, Setup!WaitSuffices, Setup!Unit
<1>3. PluginInv /\ WaitSuffices /\ [PluginNext]_pluginVars => WaitSuffices'
  BY <1>1, WaitStep DEF PluginInv
<1> QED
  BY <1>2, <1>3, PluginInvariance, PTL DEF PluginSpec

-----------------------------------------------------------------------------
(* The saved choice. *)

(* What is in a list of the configuration is found there and selected.     *)
LEMMA FoundIsSelected ==
    ASSUME NEW s \in Dialog!Servers, NEW g \in Dialog!GatewaysOf(s)
    PROVE  /\ Dialog!Find(GatewayList[s], g) # 0
           /\ Dialog!Selected(GatewayList[s], Dialog!Find(GatewayList[s], g)) = g
<1> DEFINE list == GatewayList[s]
<1>1. list \in Seq(STRING) /\ g \in Dialog!Range(list)
  BY ServerAssumption DEF Dialog!Servers, Dialog!Range, Dialog!GatewaysOf
<1>2. 0 \notin DOMAIN list
  BY <1>1
<1>3. PICK i \in DOMAIN list : list[i] = g
  BY <1>1 DEF Dialog!Range
<1>4. Dialog!Find(list, g) \in DOMAIN list /\ list[Dialog!Find(list, g)] = g
  BY <1>1, <1>3 DEF Dialog!Find
<1> HIDE DEF list
<1>5. Dialog!Find(list, g) # 0 /\ Dialog!Selected(list, Dialog!Find(list, g)) = g
  BY <1>2, <1>4 DEF Dialog!Selected
<1> QED
  BY <1>5 DEF list

(* Until another choice is confirmed, the registry has that of the session *)
(* before.                                                                 *)
Remembers ==
    login \in {"none", "dialog"} /\ env # Dialog!Nothing =>
        env = registry /\ env \in Dialog!Configured

LEMMA RemembersStep ==
    ASSUME Inv, LoginBooks, OwnTypes, Remembers, [PluginNext]_pluginVars
    PROVE  Remembers'
<1> USE DEF Remembers, loginDialogVars, dialogVars
<1>1. CASE UNCHANGED <<login, env, registry>>
  BY <1>1
<1>2. CASE UseDialog
  <2>1. UNCHANGED <<env, registry>> /\ login = "dialog"
    BY <1>2, DialogStep DEF UseDialog, InDialog, LoginBooks
  <2> QED
    BY <2>1
<1>3. CASE CancelLogin
  BY <1>3 DEF CancelLogin, InDialog, Dialog!Close
<1>4. CASE ConfirmLogin
  BY <1>4 DEF ConfirmLogin, InDialog
<1>5. CASE Connect
  BY <1>5 DEF Connect, Found, LoginBooks, Chosen
<1>6. CASE BrokerLogin
  BY <1>6 DEF BrokerLogin, NoSession, Dialog!InitDialog
<1>7. CASE \/ Logout \/ InSession(Proceed \/ BrokerHistory2 \/ Aborts)
           \/ Command \/ BrokerBuy2 \/ BrokerBuy2Returns
           \/ Callbacks /\ UNCHANGED <<loginDialogVars, env, settingVars, logoVars>>
           \/ \E l \in Logins : LogosAppear(l) \/ LogosEnd(l)
           \/ UNCHANGED pluginVars
  BY <1>1, <1>7 DEF Logout, InSession, Command, BrokerBuy2, BrokerBuy2Returns, LogosAppear,
       LogosEnd, pluginVars
<1> QED
  BY <1>2, <1>3, <1>4, <1>5, <1>6, <1>7 DEF PluginNext, Zorro, Goes

(* A dialog that opens shows the registry's choice, if there is one that   *)
(* the configuration has.                                                  *)
LEMMA OpensAsSaved ==
    ASSUME Dialog!InitDialog, registry \in Dialog!Configured
    PROVE  [server |-> dialog'.server, gateway |-> dialog'.gateway] = registry
<1>1. /\ registry = [server |-> registry.server, gateway |-> registry.gateway]
      /\ registry.server \in Dialog!Servers
      /\ registry.gateway \in Dialog!GatewaysOf(registry.server)
  BY DEF Dialog!Configured
<1>2. dialog'.server = registry.server
      /\ dialog'.gateway = Dialog!PopulateGateway(registry.server, registry.gateway)
  BY <1>1 DEF Dialog!InitDialog
<1>3. Dialog!PopulateGateway(registry.server, registry.gateway) = registry.gateway
  BY <1>1, FoundIsSelected DEF Dialog!PopulateGateway
<1> QED
  BY <1>1, <1>2, <1>3

(* A dialog opens with the server and the gateway of the session before,   *)
(* whatever dialogs were cancelled and whatever logins failed in between.  *)
THEOREM DialogReopensAsConfirmed == PluginSpec => ReopensAsConfirmed
<1>1. PluginInit => Remembers
  BY DEF PluginInit, Remembers
<1>2. PluginInv /\ Remembers /\ [PluginNext]_pluginVars => Remembers'
  BY RemembersStep DEF PluginInv
<1>3. Remembers /\ [PluginNext]_pluginVars =>
        [login = "none" /\ login' = "dialog" /\ env # Dialog!Nothing
           => [server |-> dialog'.server, gateway |-> dialog'.gateway] = env]_pluginVars
  <2> SUFFICES ASSUME Remembers, PluginNext, login = "none", login' = "dialog",
                      env # Dialog!Nothing
               PROVE  [server |-> dialog'.server, gateway |-> dialog'.gateway] = env
    BY DEF pluginVars
  <2>1. env = registry /\ env \in Dialog!Configured
    BY DEF Remembers
  <2>2. Dialog!InitDialog
    BY DEF PluginNext, Zorro, Goes, UseDialog, CancelLogin, ConfirmLogin, InDialog, Command,
       BrokerBuy2, Logout, Connect, BrokerBuy2Returns, BrokerLogin, InSession, LogosAppear,
       LogosEnd, loginDialogVars
  <2> QED
    BY <2>1, <2>2, OpensAsSaved
<1> QED
  BY <1>1, <1>2, <1>3, PluginInvariance, PTL DEF PluginSpec, ReopensAsConfirmed

(* Where every server has the same gateways, the saved gateway does come   *)
(* back with its server: that the list is the one of the server before is  *)
(* all that is wrong.                                                      *)
THEOREM SavedGatewayReturnsToEqualLists ==
    ASSUME \A s, t \in Dialog!Servers : GatewayList[s] = GatewayList[t],
           Dialog!NoName \notin Dialog!Servers
    PROVE  PluginSpec => SavedGatewayReturns
<1>1. PluginInv /\ [PluginNext]_pluginVars =>
        [Dialog!isOpen /\ dialog'.server # dialog.server
           /\ [server |-> dialog'.server, gateway |-> dialog.saved.gateway] = dialog.saved
           /\ dialog.saved \in Dialog!Configured
         => dialog'.gateway = dialog.saved.gateway]_dialog
  <2> SUFFICES ASSUME PluginInv, PluginNext, Dialog!isOpen, dialog'.server # dialog.server,
                      [server |-> dialog'.server, gateway |-> dialog.saved.gateway]
                        = dialog.saved,
                      dialog.saved \in Dialog!Configured
               PROVE  dialog'.gateway = dialog.saved.gateway
    BY DEF pluginVars, dialogVars
  <2>1. DialogShows /\ login = "dialog"
    BY DEF PluginInv, LoginBooks, Chosen
  <2>2. /\ dialog'.server = dialog.saved.server
        /\ dialog.saved.server \in Dialog!Servers
        /\ dialog.saved.gateway \in Dialog!GatewaysOf(dialog.saved.server)
    BY DEF Dialog!Configured
  <2>3. PICK s \in Dialog!Servers : Dialog!SelectServer(s)
    <3>1. UseDialog
      <4>1. dialog' # Dialog!Closed
        BY <2>2 DEF Dialog!Closed
      <4>2. step = "closed"
        BY <2>1 DEF PluginInv, LoginBooks, Chosen
      <4>3. dialog' # dialog
        OBVIOUS
      <4> QED
        BY <2>1, <4>1, <4>2, <4>3
        DEF PluginNext, Zorro, Goes, CancelLogin, ConfirmLogin, InDialog, Dialog!Close,
            Dialog!Confirm, Command, BrokerBuy2, Logout, Connect, BrokerBuy2Returns,
            BrokerLogin, NoSession, InSession, LogosAppear, LogosEnd, loginDialogVars,
            dialogVars
    <3>2. ASSUME NEW g \in Dialog!Range(dialog.list), Dialog!PickGateway(g)
          PROVE  FALSE
      BY <2>1, <3>2 DEF Dialog!PickGateway, DialogShows
    <3> QED
      BY <3>1, <3>2 DEF UseDialog, InDialog, Dialog!Use
  <2>4. /\ dialog'.server = s
        /\ dialog'.gateway = Dialog!Selected(GatewayList[s],
             IF s = dialog.saved.server THEN Dialog!Find(dialog.list, dialog.saved.gateway)
             ELSE 1)
    BY <2>1, <2>3 DEF Dialog!SelectServer, Dialog!Refilled, DialogShows
  <2>5. dialog.list = GatewayList[s]
    BY <2>1 DEF DialogShows
  <2> QED
    BY <2>2, <2>4, <2>5, FoundIsSelected
<1> QED
  BY <1>1, PluginInvariance, PTL DEF PluginSpec, SavedGatewayReturns, Dialog!SavedGatewayReturns
=============================================================================
