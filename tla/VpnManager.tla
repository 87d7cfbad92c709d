------------------------------ MODULE VpnManager ------------------------------
(***************************************************************************)
(* The two services behind the pages of the VPN, one in each behaviour:    *)
(* the one that follows and commands the app of the visor (VpnClient), and *)
(* the one that keeps the data of the user for all tabs (VpnSavedData).    *)
(* VpnClient has the part of the saved data that it reads and writes, in   *)
(* one tab.  The variables of the other service are None.                  *)
(***************************************************************************)
EXTENDS Naturals

CONSTANTS
    Servers, None,
    FaultyOps, InitialRetries, OpRetries, MaxDisturbances,   \* VpnClient
    Tabs, InitialStore, VisorPks, MaxVersion                 \* VpnSavedData

VARIABLES service, app, ui, cur, blocked, dialog, setting, count, store, tab, held

Client == INSTANCE VpnClient
Saved == INSTANCE VpnSavedData

ASSUME VpnManagerAssumption ==
    /\ None \notin Servers
    /\ FaultyOps \subseteq {"poll", "start", "stop", "change"}
    /\ {InitialRetries, OpRetries, MaxDisturbances, MaxVersion} \subseteq Nat
    /\ VisorPks \subseteq Servers \union {None}
    \* saveData wrote what is stored, or nothing is.
    /\ InitialStore \in [version : 0..MaxVersion, servers : Saved!ServerMaps,
                         selected : Servers \union {None}]
    /\ InitialStore.selected \in DOMAIN InitialStore.servers \union {None}
    /\ InitialStore.version = 0 => InitialStore.servers = <<>> /\ InitialStore.selected = None

clientVars == <<app, ui, cur, blocked, dialog, setting, count>>
savedVars == <<store, tab, held>>
vars == <<service, clientVars, savedVars>>

Init ==
    /\ service \in {"client", "saved"}
    /\ IF service = "client" THEN Client!Init
       ELSE /\ app = None /\ ui = None /\ cur = None /\ blocked = None
            /\ dialog = None /\ setting = None /\ count = None
    /\ IF service = "saved" THEN Saved!Init
       ELSE store = None /\ tab = None /\ held = None

OnlyClient == service = "client" /\ UNCHANGED <<service, savedVars>>
OnlySaved == service = "saved" /\ UNCHANGED <<service, clientVars>>

Next ==
    \/ OnlyClient /\ Client!Next
    \/ OnlySaved /\ Saved!Next

\* Timers fire and requests end; the user, faults and the outside owe nothing.
Fairness ==
    /\ WF_vars(OnlyClient /\ Client!Polling)
    /\ WF_vars(OnlyClient /\ Client!Backend)

Spec == Init /\ [][Next]_vars /\ Fairness

-----------------------------------------------------------------------------
(* Properties *)

\* The service has the state of its component.
TypeOK == IF service = "client" THEN Client!TypeOK ELSE Saved!TypeOK

\* An operation is alone, and leaves nothing behind: no answer to an earlier
\* poll arrives during it, the next update is on its way when it is over, and
\* no requested server is left for a later stop to switch to.
OperationAlone ==
    service = "client" =>
        Client!NoPollDuringOperation /\ Client!NeverSilent /\ Client!NoForgottenRequest

\* Once the disturbances are over the pages show the state of the visor.
Converges == <>[](service = "client" => Client!Converged)

\* The version counter tells a tab every change of another one, so that no
\* save is refused, and the selected server is one of the saved ones.
SavedDataHold ==
    service = "saved" =>
        Saved!VersionTellsChanges /\ Saved!NoSaveRefused /\ Saved!SelectedIsSaved

\* No tab takes away what the user attached to a server in another one; a form
\* that adds a saved server by hand overwrites its name and note.
UserDataKept == [][service = "saved" => Saved!KeepsUserData]_vars
===============================================================================
