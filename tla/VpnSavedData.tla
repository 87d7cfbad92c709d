---------------------------- MODULE VpnSavedData ----------------------------
(***************************************************************************)
(* The servers the VPN client saves in the local storage of the browser    *)
(* (services/vpn-saved-data.service.ts), shared by several tabs.  Each tab *)
(* keeps a copy of the list and the version it expects; the storage has no *)
(* lock, the version counter is what keeps the tabs apart.  The dialogs of *)
(* vpn-helpers hold a server from the moment they open to the moment the   *)
(* user answers, while other tabs go on.                                   *)
(*                                                                         *)
(* A saved server is abstracted to what the service decides on: its flag,  *)
(* whether it is in the history, and whether it has personal data (a       *)
(* custom name or a note).                                                 *)
(***************************************************************************)
EXTENDS Naturals, FiniteSets, Functions

CONSTANTS
    Tabs,          \* browser tabs of one user
    Servers,       \* public keys
    None,          \* no server, no object
    InitialStore,  \* what an earlier session saved
    VisorPks,      \* servers the app of the visor may be found with
    MaxVersion     \* bound on the number of saves

VARIABLES
    store,      \* the saved data: version, servers, selected
    tab,        \* per tab: its copy, the page it shows
    held        \* per tab: the server object a dialog, a form or a request holds

vars == <<store, tab, held>>

Flags == {"None", "Favorite", "Blocked"}
LocalServer == [flag : Flags, inHistory : BOOLEAN, personal : BOOLEAN]

\* What processFromDiscovery makes of an unknown server, and processFromManual
\* of one without a name and a note.
NewServer == [flag |-> "None", inHistory |-> FALSE, personal |-> FALSE]

NothingHeld == [why |-> "none", pk |-> None, server |-> None]

\* A list of saved servers: the map from public keys to servers.
ServerMaps == UNION {[S -> LocalServer] : S \in SUBSET Servers}
Put(map, pk, server) ==
    [p \in DOMAIN map \union {pk} |-> IF p = pk THEN server ELSE map[p]]

-----------------------------------------------------------------------------
(* The methods of the service, on the copy c of a tab. *)

\* initialize: a selection that was removed from the storage is kept.
Load(c) ==
    IF store.version = 0 THEN [c EXCEPT !.servers = <<>>]
    ELSE [c EXCEPT !.servers = store.servers, !.version = store.version,
                   !.selected = IF store.selected # None THEN store.selected ELSE @]

\* checkIfDataWasChanged
CheckIfDataWasChanged(c) == IF store.version # c.version THEN Load(c) ELSE c

\* Mutant: the selected server is no reason to keep a server.
NeededForLists(c, pk) ==
    c.servers[pk].inHistory \/ c.servers[pk].flag # "None" \/ c.servers[pk].personal

\* cleanServers
Needed(c, pk) ==
    \/ pk = c.selected
    \/ c.servers[pk].inHistory \/ c.servers[pk].flag # "None" \/ c.servers[pk].personal

CleanServers(c) ==
    [c EXCEPT !.servers = Restrict(@, {pk \in DOMAIN @ : Needed(c, pk)})]

\* saveData: a copy that is out of date goes to the error page unsaved.
SaveData(t, c) ==
    LET ok == store.version = c.version
    IN /\ ok => c.version < MaxVersion
       /\ store' = IF ok THEN [version |-> c.version + 1, servers |-> c.servers,
                               selected |-> c.selected]
                         ELSE store
       /\ tab' = [tab EXCEPT ![t] = IF ok THEN [c EXCEPT !.version = @ + 1]
                                          ELSE [c EXCEPT !.page = "error"]]

Keep(t, c) == tab' = [tab EXCEPT ![t] = c] /\ UNCHANGED store

\* Mutant: the caller's object is good enough.
SavedOrStale(c, pk, server) == server

\* The saved server pk of a copy, or the object the caller has.
SavedOr(c, pk, server) == IF pk \in DOMAIN c.servers THEN c.servers[pk] ELSE server

\* Mutant: the form names a server and attaches no data to it.
ProcessFromManualKeyOnly(c, pk, form) ==
    IF pk \in DOMAIN c.servers THEN [c EXCEPT !.servers[pk].personal = FALSE] ELSE c

\* processFromManual, of a saved server: the name and the note of the form take
\* the place of the saved ones, also when the form has none.
ProcessFromManual(c, pk, form) ==
    IF pk \in DOMAIN c.servers THEN [c EXCEPT !.servers[pk].personal = form.personal] ELSE c

\* changeFlag, of an object that may be older than the storage.
ChangeFlag(t, pk, server, flag) ==
    LET c == CheckIfDataWasChanged(tab[t])
        s == SavedOr(c, pk, server)
    IN IF s.flag = flag THEN Keep(t, c)
       ELSE SaveData(t, CleanServers([c EXCEPT !.servers = Put(@, pk, [s EXCEPT !.flag = flag])]))

-----------------------------------------------------------------------------
Closed == [version |-> 0, servers |-> <<>>, selected |-> None, page |-> "closed"]

Init ==
    /\ store = InitialStore
    /\ tab = [t \in Tabs |-> Closed]
    /\ held = [t \in Tabs |-> NothingHeld]

\* The app is opened or reloaded: the service reads the storage.
OpenTab(t) ==
    /\ tab[t].page # "vpn"
    /\ tab' = [tab EXCEPT ![t] = [Load(Closed) EXCEPT !.page = "vpn"]]
    /\ held' = [held EXCEPT ![t] = NothingHeld]
    /\ UNCHANGED store

CloseTab(t) ==
    /\ tab[t].page = "vpn"
    /\ tab' = [tab EXCEPT ![t] = Closed]
    /\ held' = [held EXCEPT ![t] = NothingHeld]
    /\ UNCHANGED store

Working(t) == tab[t].page = "vpn"
Free(t) == Working(t) /\ held[t] = NothingHeld

\* openOptions of the server list: a server that is not saved is made from
\* the data of the discovery service.
OpenOptions(t, pk) ==
    /\ Free(t)
    /\ LET c == CheckIfDataWasChanged(tab[t])
       IN /\ Keep(t, c)
          /\ held' = [held EXCEPT ![t] = [why |-> "options", pk |-> pk,
                                          server |-> SavedOr(c, pk, NewServer)]]

Release(t) == held' = [held EXCEPT ![t] = NothingHeld]
HoldsOptions(t) == Working(t) /\ held[t].why = "options"
HoldsForm(t) == Working(t) /\ held[t].why \in {"manual", "same"}

\* makeFavorite, blockServer and the options that take a flag away; the
\* option offered depends on the flag when the window opened.
ChooseFlag(t, flag) ==
    /\ HoldsOptions(t) /\ held[t].server.flag # flag
    /\ ChangeFlag(t, held[t].pk, held[t].server, flag)
    /\ Release(t)

\* removeFromHistory
RemoveFromHistory(t) ==
    /\ HoldsOptions(t) /\ held[t].server.inHistory
    /\ LET c == CheckIfDataWasChanged(tab[t])
           pk == held[t].pk
       IN IF pk \notin DOMAIN c.servers \/ ~c.servers[pk].inHistory THEN Keep(t, c)
          ELSE SaveData(t, CleanServers([c EXCEPT !.servers[pk].inHistory = FALSE]))
    /\ Release(t)

\* The window for the custom name and the note, and updateServer.
EditValue(t) ==
    /\ HoldsOptions(t)
    /\ LET c == CheckIfDataWasChanged(tab[t])
           pk == held[t].pk
           s == SavedOr(c, pk, held[t].server)
       IN \E set \in BOOLEAN \ {held[t].server.personal} :
             SaveData(t, CleanServers([c EXCEPT !.servers = Put(@, pk, [s EXCEPT !.personal = set])]))
    /\ Release(t)

Cancel(t) ==
    /\ HoldsOptions(t) \/ HoldsForm(t)
    /\ Release(t)
    /\ UNCHANGED <<store, tab>>

\* The form for adding a server by hand is filled in, with a name or a note or
\* without.  The user is asked before a connection is stopped, and before the
\* selected server is only started again; the form is held until the answer.
FillInForm(t, pk) ==
    /\ Free(t)
    /\ LET c == CheckIfDataWasChanged(tab[t])
       IN /\ Keep(t, c)
          /\ \E why \in {"manual"} \union IF pk = c.selected THEN {"same"} ELSE {}, set \in BOOLEAN :
                held' = [held EXCEPT ![t] = [why |-> why, pk |-> pk,
                                             server |-> [NewServer EXCEPT !.personal = set]]]

\* A change to a server of the lists is requested: a saved server is saved with
\* its password setting (updateRequestedServerPasswordSetting).  The object of
\* the list, which may be older, or that of processFromDiscovery is held until
\* the visor has answered.
RequestServer(t, pk) ==
    /\ Free(t)
    /\ LET c == CheckIfDataWasChanged(tab[t])
           found == SavedOr(c, pk, NewServer)
       IN /\ IF pk \in DOMAIN c.servers THEN SaveData(t, CleanServers(c)) ELSE Keep(t, c)
          /\ \E s \in {found, SavedOr(tab[t], pk, found)} :
                held' = [held EXCEPT ![t] = [why |-> "request", pk |-> pk, server |-> s]]

\* changeServerManually: a change to the server of the form is requested.
ChangeServerManually(t) ==
    /\ HoldsForm(t) /\ held[t].why = "manual"
    /\ LET c == CheckIfDataWasChanged(tab[t])
           pk == held[t].pk
           d == ProcessFromManual(c, pk, held[t].server)
       IN /\ IF pk \in DOMAIN c.servers THEN SaveData(t, CleanServers(d)) ELSE Keep(t, c)
          /\ held' = [held EXCEPT ![t] = [why |-> "request", pk |-> pk,
                                          server |-> SavedOr(d, pk, held[t].server)]]

\* processServerChange, SamePkStopped: the server of the form was the selected
\* one; its data are saved and the VPN is started.
StartSameServer(t) ==
    /\ HoldsForm(t) /\ held[t].why = "same"
    /\ LET c == CheckIfDataWasChanged(tab[t])
           pk == held[t].pk
       IN IF pk \in DOMAIN c.servers THEN SaveData(t, ProcessFromManual(c, pk, held[t].server))
          ELSE Keep(t, c)
    /\ Release(t)

\* modifyCurrentServer, in the callback of the change.
ModifyCurrentServer(t) ==
    /\ Working(t) /\ held[t].why = "request"
    /\ LET c == CheckIfDataWasChanged(tab[t])
           pk == held[t].pk
       IN IF pk = c.selected THEN Keep(t, c)
          ELSE SaveData(t, CleanServers([c EXCEPT !.servers = Put(@, pk, SavedOr(c, pk, held[t].server)),
                                                  !.selected = pk]))
    /\ Release(t)

\* The visor refused the change.
RequestFails(t) ==
    /\ Working(t) /\ held[t].why = "request"
    /\ Release(t)
    /\ UNCHANGED <<store, tab>>

\* Mutant: the selection is not saved.
CompareCurrentServerUnsaved(t, pk) ==
    /\ Working(t) /\ held[t].why # "request"
    /\ Keep(t, [CheckIfDataWasChanged(tab[t]) EXCEPT !.selected = pk])
    /\ UNCHANGED held

\* compareCurrentServer, on every answer of the visor; a server that is not
\* known is saved like one entered by hand.
CompareCurrentServer(t, pk) ==
    /\ Working(t) /\ held[t].why # "request"
    /\ LET c == CheckIfDataWasChanged(tab[t])
           moved == [c EXCEPT !.selected = pk]
       IN IF pk = c.selected THEN Keep(t, c)
          ELSE IF pk = None \/ pk \in DOMAIN c.servers THEN SaveData(t, moved)
          ELSE SaveData(t, CleanServers([moved EXCEPT !.servers = Put(@, pk, NewServer)]))
    /\ UNCHANGED held

\* Mutant: a save without the check.
UpdateFromDiscoveryUnchecked(t) == Free(t) /\ SaveData(t, tab[t]) /\ UNCHANGED held

\* updateFromDiscovery: refreshes public data of saved servers and saves.
UpdateFromDiscovery(t) ==
    /\ Free(t)
    /\ SaveData(t, CheckIfDataWasChanged(tab[t]))
    /\ UNCHANGED held

Next ==
    \E t \in Tabs :
        \/ OpenTab(t) \/ CloseTab(t)
        \/ \E pk \in Servers : OpenOptions(t, pk) \/ RequestServer(t, pk) \/ FillInForm(t, pk)
        \/ \E flag \in Flags : ChooseFlag(t, flag)
        \/ RemoveFromHistory(t) \/ EditValue(t) \/ Cancel(t)
        \/ ChangeServerManually(t) \/ StartSameServer(t)
        \/ ModifyCurrentServer(t) \/ RequestFails(t)
        \/ \E pk \in VisorPks : CompareCurrentServer(t, pk)
        \/ UpdateFromDiscovery(t)

Spec == Init /\ [][Next]_vars

-----------------------------------------------------------------------------
(* Properties *)

\* The storage, the copies and the held objects keep their types.
TypeOK ==
    /\ store \in [version : 0..MaxVersion, servers : ServerMaps, selected : Servers \union {None}]
    /\ tab \in [Tabs -> [version : 0..MaxVersion, servers : ServerMaps,
                         selected : Servers \union {None}, page : {"vpn", "error", "closed"}]]
    /\ held \in [Tabs -> [why : {"none", "options", "manual", "same", "request"}, pk : Servers \union {None},
                          server : LocalServer \union {None}]]

\* A tab whose version is the one of the storage has the list of the storage:
\* the version counter tells every change of another tab (saveData,
\* checkIfDataWasChanged).
VersionTellsChanges ==
    \A t \in Tabs :
        Working(t) /\ tab[t].version = store.version =>
            /\ tab[t].servers = store.servers
            /\ tab[t].selected = store.selected

\* "Previous calls to checkIfDataWasChanged should prevent this from
\* happening": no save is refused, no tab is sent to the error page.
NoSaveRefused == \A t \in Tabs : tab[t].page # "error"

\* The selected server is one of the saved ones, so that the pages can show
\* it (currentServer looks it up in the map).
SelectedIsSaved ==
    /\ store.selected \in DOMAIN store.servers \union {None}
    /\ \A t \in Tabs : Working(t) => tab[t].selected \in DOMAIN tab[t].servers \union {None}

FlagOf(map, pk) == IF pk \in DOMAIN map THEN map[pk].flag ELSE "None"
HasPersonal(map, pk) == pk \in DOMAIN map /\ map[pk].personal

\* The user answered the options window of the server pk in tab t.
Answered(t, pk) == held[t].why = "options" /\ held[t].pk = pk /\ held'[t] = NothingHeld

\* The user sent the form for adding a server by hand with the key pk and
\* neither a name nor a note.
AddedBare(t, pk) ==
    /\ held[t].why \in {"manual", "same"} /\ held[t].pk = pk /\ ~held[t].server.personal
    /\ held'[t] # held[t]

\* What the user attached to a server in one tab is taken away by no save of
\* another tab.  A flag goes only in answer to a window about that server.
\* Personal data go in answer to such a window or, without a question about
\* them, when the user adds the saved server again by hand and leaves the name
\* and the note of the form empty (processFromManual).
KeepsUserData ==
    \A pk \in Servers :
        /\ FlagOf(store.servers, pk) # "None" /\ FlagOf(store'.servers, pk) # FlagOf(store.servers, pk)
              => \E t \in Tabs : Answered(t, pk)
        /\ HasPersonal(store.servers, pk) /\ ~HasPersonal(store'.servers, pk)
              => \E t \in Tabs : Answered(t, pk) \/ AddedBare(t, pk)
=============================================================================
