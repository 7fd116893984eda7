------------------------------- MODULE Plugin -------------------------------
(***************************************************************************)
(* From one login to the next: BrokerLogin and shutdown of                 *)
(* src/src/rithmic_zorro_plugin.cpp, which make and destroy the client,    *)
(* ask for a server and show the logos. Session is what the client does    *)
(* between them, LoginDialog the choice of the server, Settings what Zorro *)
(* sets, and the thread of rithmic_logos_dialog.cpp runs beside them.      *)
(*                                                                         *)
(* More faults: "NoDialog", DialogBoxParam fails; "NoWindow", CreateDialog *)
(* fails; "QuickLogout", Zorro logs out before the logos have their        *)
(* window. A login without a configuration ends before it changes          *)
(* anything, and is no step.                                               *)
(***************************************************************************)
EXTENDS Session

CONSTANTS
    PluginFaults,
    ServerList, GatewayList, OldChoices,   \* of LoginDialog
    Limits, Amounts, OrderTypes, WaitTimes, VolumeTypes,  \* of Settings
    MaxLogins                              \* bound: sessions that get logos

PluginFaultKinds == {"NoDialog", "NoWindow", "QuickLogout"}

ASSUME PluginFaultAssumption == PluginFaults \subseteq PluginFaultKinds
ASSUME LoginAssumption == MaxLogins \in Nat

(* The configuration has a server, and lists the gateways of every server. *)
ASSUME ServerAssumption ==
    /\ 1 \in DOMAIN ServerList
    /\ \A i \in DOMAIN ServerList :
         ServerList[i] \in DOMAIN GatewayList /\ GatewayList[ServerList[i]] \in Seq(STRING)

VARIABLES
    login,             \* Zorro's thread in BrokerLogin, before the engine's login
    chosen,            \* what ShowLoginDialog has returned to it
    env,               \* the server that the client connects to
    dialog, registry,  \* of LoginDialog
    global, order, wanted,  \* of Settings
    logins,            \* how many logins have succeeded
    logos,             \* the thread that shows the logos of each of them
    hDlg               \* g_hDlg: the login whose window it names, or 0

Dialog == INSTANCE LoginDialog
Setup == INSTANCE Settings

dialogVars == <<dialog, registry>>
settingVars == <<global, order, wanted>>
logoVars == <<logins, logos, hDlg>>
loginDialogVars == <<login, chosen, dialogVars>>
pluginVars == <<vars, login, chosen, env, dialogVars, settingVars, logoVars>>

Logins == 1..MaxLogins

PluginTypeOK ==
    /\ TypeOK
    /\ Dialog!DialogTypeOK
    /\ Setup!SettingsTypeOK
    /\ login \in {"none", "dialog", "chosen", "thrown"}
    /\ env \in Dialog!Configured \cup {Dialog!Nothing}
    /\ chosen.server \in Dialog!Servers \/ chosen = Dialog!Nothing
    /\ logins \in 0..MaxLogins
    /\ logos \in [Logins -> {"none", "starting", "shown", "gone"}]
    /\ hDlg \in 0..MaxLogins

PluginInit ==
    /\ Fresh("closed")
    /\ login = "none" /\ env = Dialog!Nothing /\ chosen = Dialog!Nothing
    /\ Dialog!DialogInit /\ Setup!SettingsInit
    /\ logins = 0 /\ logos = [l \in Logins |-> "none"] /\ hDlg = 0

NoSession == login = "none" /\ step = "closed"

-----------------------------------------------------------------------------
(* BrokerLogin, up to RithmicClient::login. *)

(* Variant: the assets that had no data are remembered.                    *)
RemembersNoData == noData
ForgetsNoData == FALSE

(* A client is made, the settings are reset, and ShowLoginDialog opens.    *)
BrokerLogin ==
    /\ NoSession
    /\ Setup!SessionBegins
    /\ noData' = ForgetsNoData
    /\ \/ login' = "dialog" /\ Dialog!InitDialog
       \/ "NoDialog" \in PluginFaults /\ UNCHANGED <<login, dialogVars>>
    /\ UNCHANGED <<step, loginVars, request, result, known, due, history, ticks, asked, call,
                   sent, chosen, env, logoVars>>

InDialog(use, next, answer) ==
    /\ login = "dialog"
    /\ use
    /\ login' = next /\ chosen' = answer
    /\ UNCHANGED <<vars, env, settingVars, logoVars>>

UseDialog == InDialog(Dialog!Use, "dialog", chosen)

(* "Login cancelled."                                                      *)
CancelLogin == InDialog(Dialog!Close, "none", chosen)

ConfirmLogin == InDialog(Dialog!Confirm, "chosen", Dialog!Answer)

(* Variant: a server that is not found is no error.                        *)
FoundAnyway == TRUE
Found == chosen \in Dialog!Configured

(* setServer, and the login of the engine. What setServer throws is caught *)
(* nowhere; a failing login of the engine ends BrokerLogin.                *)
Connect ==
    /\ login = "chosen"
    /\ IF Found
       THEN /\ env' = chosen
            /\ login' = "none" /\ chosen' = Dialog!Nothing
            /\ \/ Client("connect")
               \/ EngineMayFail /\ Client("closed")
       ELSE /\ login' = "thrown"
            /\ Client("closed")
            /\ UNCHANGED <<chosen, env>>
    /\ UNCHANGED <<noData, dialogVars, settingVars, logoVars>>

-----------------------------------------------------------------------------
(* The session, the logos that end its login, and the logout. *)

(* ShowRithmicLogosDialog, once login has succeeded.                       *)
ShowLogos ==
    IF step = "pnl" /\ step' = "idle"
    THEN /\ logins' = logins + 1
         /\ logos' = [logos EXCEPT ![logins + 1] = "starting"]
         /\ UNCHANGED hDlg
    ELSE UNCHANGED logoVars

InSession(action) ==
    /\ order = Setup!NoOrder
    /\ action
    /\ ShowLogos
    /\ UNCHANGED <<loginDialogVars, env, settingVars>>

(* The commands of Zorro that only set something, and BrokerBuy2.          *)
Command ==
    /\ NoSession \/ step = "idle"
    /\ Setup!SetSomething
    /\ UNCHANGED <<vars, loginDialogVars, env, logoVars>>

BrokerBuy2 ==
    /\ step = "idle"
    /\ Setup!SendOrder \/ Setup!NotSent
    /\ UNCHANGED <<vars, loginDialogVars, env, logoVars>>

BrokerBuy2Returns ==
    /\ Setup!Return
    /\ UNCHANGED <<vars, loginDialogVars, env, logoVars>>

(* CloseRithmicLogosDialog: a thread cannot destroy the window of another  *)
(* one, but the one that shows the logos looks whether g_hDlg is a window; *)
(* and variant: only DestroyWindow.                                        *)
KeepsHandle == hDlg
ClearsHandle == 0

Logout ==
    /\ step = "idle" /\ order = Setup!NoOrder
    /\ "QuickLogout" \in PluginFaults \/ \A l \in Logins : logos[l] # "starting"
    /\ hDlg' = ClearsHandle
    /\ Client("closed")
    /\ UNCHANGED <<noData, loginDialogVars, env, settingVars, logins, logos>>

(* The thread of a login's logos makes its window, and ends when there is  *)
(* none that g_hDlg names. Its window ends with it.                        *)
LogosAppear(l) ==
    /\ logos[l] = "starting"
    /\ \/ logos' = [logos EXCEPT ![l] = "shown"] /\ hDlg' = l
       \/ "NoWindow" \in PluginFaults /\ logos' = [logos EXCEPT ![l] = "gone"] /\ hDlg' = 0
    /\ UNCHANGED <<vars, loginDialogVars, env, settingVars, logins>>

LogosEnd(l) ==
    /\ logos[l] = "shown"
    /\ hDlg # 0 => logos[hDlg] # "shown"
    /\ logos' = [logos EXCEPT ![l] = "gone"]
    /\ UNCHANGED <<vars, loginDialogVars, env, settingVars, logins, hDlg>>

-----------------------------------------------------------------------------

Zorro == UseDialog \/ CancelLogin \/ ConfirmLogin \/ Command \/ BrokerBuy2 \/ Logout

Goes == Connect \/ BrokerBuy2Returns

Aborts == AbortConnect \/ AbortWait

Callbacks ==
    \/ \E c \in Connections : Alert(c)
    \/ ConnectionFails \/ AccountList \/ Replay

PluginNext ==
    \/ Zorro
    \/ logins < MaxLogins /\ BrokerLogin
    \/ Goes
    \/ InSession(Proceed \/ BrokerHistory2 \/ Aborts)
    \/ Callbacks /\ UNCHANGED <<loginDialogVars, env, settingVars, logoVars>>
    \/ \E l \in Logins : LogosAppear(l) \/ LogosEnd(l)

PluginSpec == PluginInit /\ [][PluginNext]_pluginVars

OnlyClient == UNCHANGED <<loginDialogVars, env, settingVars, logoVars>>

(* As in Session, and the thread of the logos runs.                        *)
PluginFairness ==
    /\ WF_pluginVars(Goes) /\ WF_pluginVars(InSession(Proceed))
    /\ WF_pluginVars(Replay /\ OnlyClient) /\ WF_pluginVars(AccountList /\ OnlyClient)
    /\ \A c \in Connections : WF_pluginVars(Alert(c) /\ OnlyClient)
    /\ \A l \in Logins : WF_pluginVars(LogosAppear(l) \/ LogosEnd(l))

PluginFairSpec == PluginSpec /\ PluginFairness

-----------------------------------------------------------------------------
(* Properties. *)

(* Of the settings that Settings has none is left from an earlier session  *)
(* when one begins, and no asset that had no data. Excepted is vol_type_:  *)
(* Global::reset forgets it, and BrokerAsset answers the volume of the     *)
(* type that was set before, until Zorro sets it again.                    *)
SessionStartsClean ==
    login \in {"dialog", "chosen"} \/ step \notin Ended \cup {"replayBars", "bars"} =>
        global = [Setup!Defaults EXCEPT !.volume = global.volume] /\ ~noData

(* A session is with the gateway that was confirmed last, one that the     *)
(* configuration has for its server.                                       *)
ConnectsAsConfirmed ==
    step # "closed" => env = registry /\ env \in Dialog!Configured

(* The exception that leaves BrokerLogin: only when the dialog was         *)
(* confirmed without a gateway.                                            *)
ThrowsWithoutGateway == login = "thrown" => chosen.gateway = Dialog!NoName

(* A dialog opens with the server and the gateway of the session before,   *)
(* whatever dialogs were cancelled in between.                             *)
ReopensAsConfirmed ==
    [][login = "none" /\ login' = "dialog" /\ env # Dialog!Nothing
         => [server |-> dialog'.server, gateway |-> dialog'.gateway] = env]_pluginVars

OrderIsAsSet == Setup!OrderIsAsSet
WaitSuffices == Setup!WaitSuffices
SavedGatewayReturns == Dialog!SavedGatewayReturns

(* After a logout the logos go, unless the next login is there first.      *)
LogosGo ==
    (\E l \in Logins : logos[l] = "shown") /\ NoSession
        ~> (\A l \in Logins : logos[l] # "shown") \/ ~NoSession
=============================================================================
