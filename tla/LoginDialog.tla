---------------------------- MODULE LoginDialog ----------------------------
(***************************************************************************)
(* The dialog in which the user chooses a server and one of its gateways:  *)
(* LoginDialogProc and ShowLoginDialog of src/src/rithmic_login_dialog.cpp. *)
(*                                                                         *)
(* The choice is kept in the registry, where an earlier installation may   *)
(* have left a server or a gateway that the configuration does not have.   *)
(* The registry can be written; the configuration has a server, and every  *)
(* server has a gateway.                                                   *)
(***************************************************************************)
EXTENDS Naturals, Sequences, Functions

CONSTANTS
    ServerList,   \* the servers of the configuration, in the order of the map
    GatewayList,  \* the gateways of each of them: a sequence
    OldChoices    \* what may be in the registry: records [server, gateway]

NoName == ""      \* the empty string: nothing is selected, or nothing is saved
Nothing == [server |-> NoName, gateway |-> NoName]

Servers == Range(ServerList)
GatewaysOf(s) == Range(GatewayList[s])

(* The choices that RithmicSystemConfig::servers has an entry for.         *)
Gateways == UNION {GatewaysOf(s) : s \in Servers}
Configured == {c \in [server : Servers, gateway : Gateways] : c.gateway \in GatewaysOf(c.server)}

VARIABLES
    dialog,    \* the open dialog, or Closed
    registry   \* LastServer and LastGateway

dialogVars == <<dialog, registry>>

Closed == [server |-> NoName, list |-> << >>, gateway |-> NoName, saved |-> Nothing]

isOpen == dialog # Closed

-----------------------------------------------------------------------------
(* Combo boxes. *)

(* CB_FINDSTRINGEXACT: 0 stands for CB_ERR.                                *)
Find(list, name) ==
    IF name \in Range(list) THEN CHOOSE i \in DOMAIN list : list[i] = name ELSE 0

(* CB_SETCURSEL: an index beyond the list, or CB_ERR, selects nothing.     *)
Selected(list, i) == IF i \in DOMAIN list THEN list[i] ELSE NoName

(* CB_RESETCONTENT, and CB_ADDSTRING of every gateway of the server; and   *)
(* variant: the gateways of the server before stay.                        *)
RefilledOver(list, s) == list \o GatewayList[s]
Refilled(list, s) == GatewayList[s]

-----------------------------------------------------------------------------

(* Variant of populateGateway: always the first one.                       *)
PopulatePicksFirst(s, pick) == Selected(GatewayList[s], 1)

(* populateGateway: the saved gateway if the server has it, or the first.  *)
PopulateGateway(s, pick) ==
    LET i == Find(GatewayList[s], pick)
    IN  Selected(GatewayList[s], IF i = 0 THEN 1 ELSE i)

(* WM_INITDIALOG; the saved names are what the registry has.               *)
InitDialog ==
    LET s == IF registry.server \in Servers THEN registry.server ELSE ServerList[1]
    IN  /\ ~isOpen
        /\ dialog' = [server |-> s, list |-> GatewayList[s],
                      gateway |-> PopulateGateway(s, registry.gateway), saved |-> registry]
        /\ UNCHANGED registry

(* CBN_SELCHANGE of the server. Under the saved server the saved gateway   *)
(* is looked up in the list of the server before; its index selects from   *)
(* the new list.                                                           *)
SelectServer(s) ==
    LET i == IF s = dialog.saved.server THEN Find(dialog.list, dialog.saved.gateway) ELSE 1
        list == Refilled(dialog.list, s)
    IN  /\ isOpen
        /\ s # dialog.server
        /\ dialog' = [dialog EXCEPT !.server = s, !.list = list, !.gateway = Selected(list, i)]
        /\ UNCHANGED registry

(* The user picks a gateway that the combo box shows.                      *)
PickGateway(g) ==
    /\ isOpen
    /\ g \in Range(dialog.list)
    /\ dialog' = [dialog EXCEPT !.gateway = g]
    /\ UNCHANGED registry

(* What ShowLoginDialog returns: with IDOK the names that are selected.    *)
Answer == [server |-> dialog.server, gateway |-> dialog.gateway]

(* What IDOK saves; and variant: not the gateway.                          *)
SavesServer == [Answer EXCEPT !.gateway = registry.gateway]
Saves == Answer

(* IDOK saves the choice, although there may be no gateway in it.          *)
Confirm ==
    /\ isOpen
    /\ registry' = Saves
    /\ dialog' = Closed

(* WM_CLOSE.                                                               *)
Close ==
    /\ isOpen
    /\ dialog' = Closed
    /\ UNCHANGED registry

-----------------------------------------------------------------------------

DialogTypeOK ==
    /\ registry \in {Nothing} \cup OldChoices
                      \cup [server : Servers, gateway : Gateways \cup {NoName}]
    /\ isOpen => /\ dialog.server \in Servers
                 /\ dialog.list \in Range(GatewayList)
                 /\ dialog.gateway \in Range(dialog.list) \cup {NoName}

DialogInit == dialog = Closed /\ registry \in {Nothing} \cup OldChoices

Use == (\E s \in Servers : SelectServer(s)) \/ (\E g \in Range(dialog.list) : PickGateway(g))

-----------------------------------------------------------------------------
(* Properties. *)

(* "If the saved server matches the selected one, use savedGateway": when  *)
(* the user comes back to the server that was saved, its saved gateway is  *)
(* selected again, if the server still has it.                             *)
SavedGatewayReturns ==
    [][isOpen /\ dialog'.server # dialog.server
         /\ [server |-> dialog'.server, gateway |-> dialog.saved.gateway] = dialog.saved
         /\ dialog.saved \in Configured
       => dialog'.gateway = dialog.saved.gateway]_dialog
=============================================================================
