--------------------------- MODULE ClientSettings ---------------------------
(***************************************************************************)
(* The modal window with the settings of the Skysocks and VPN clients of a *)
(* visor: SkysocksClientSettingsComponent.  One request at a time changes  *)
(* the server or the settings of the app.  A history of the servers used   *)
(* is kept in memory, most recent first, and written to local storage as a *)
(* whole after each change; meanwhile the list of the discovery service is *)
(* loaded, filtered and paged.                                             *)
(***************************************************************************)
EXTENDS Naturals, Sequences, FiniteSets, Subsequences

CONSTANTS
    Keys,                        \* public keys of servers
    Notes,                       \* personal notes; "" is no note
    Proxies,                     \* what the discovery service answers: a sequence of keys
    MatchingKeys,                \* for each filter of the user, the keys that pass it
    FirstHistories,              \* the histories saved when the window is opened
    MaxHistory,                  \* maxHistoryElements
    PageSize,                    \* maxElementsPerPage
    MaxOps,                      \* bound: operations of the user
    None

VARIABLES
    client,                      \* the window
    stored,                      \* the history in local storage
    app                          \* the settings of the app at the visor (external)

vars == <<client, stored, app>>

Entries == [key : Keys, password : BOOLEAN, note : Notes]
KeysOf(h) == {h[i].key : i \in DOMAIN h}

\* A history has each server once, and no more than the limit.
Valid(h) == Len(h) <= MaxHistory /\ Cardinality(KeysOf(h)) = Len(h)

\* What the user confirms, or what is being sent.
Operations ==
    [do : {"server"}, key : Keys, password : BOOLEAN, note : Notes]
        \cup [do : {"remove"}, key : Keys] \cup [do : {"settings"}, killswitch : BOOLEAN]

TypeOK ==
    /\ client.open \in BOOLEAN /\ client.working \in BOOLEAN /\ client.loading \in BOOLEAN
    /\ client.history \in Seq(Entries) /\ stored \in Seq(Entries)
    /\ client.asking \in Operations \cup {None} /\ client.request \in Operations \cup {None}
    /\ client.answer \in {"none", "ok"}
    /\ client.pk \in Keys \cup {""} /\ client.killswitch \in BOOLEAN
    /\ client.filter \in DOMAIN MatchingKeys /\ client.page \in Nat \ {0}
    /\ client.ops \in 0 .. MaxOps
    /\ app \in [server : Keys \cup {""}, killswitch : BOOLEAN]

\* ngOnInit(): the history of local storage; the values in the app's arguments.
Init ==
    /\ stored \in FirstHistories
    /\ app = [server |-> "", killswitch |-> FALSE]
    /\ client = [open |-> TRUE, working |-> FALSE, loading |-> TRUE, history |-> stored, asking |-> None,
                 request |-> None, answer |-> "none", pk |-> app.server, killswitch |-> app.killswitch,
                 filter |-> "", page |-> 1, ops |-> 0]

-----------------------------------------------------------------------------
(***************************************************************************)
(* The tab of the discovery service.                                       *)
(***************************************************************************)
\* filterProxies().
FilteredProxies(c) == Picked(Proxies, {i \in DOMAIN Proxies : Proxies[i] \in MatchingKeys[c.filter]})

\* updatePagination().
NumberOfPages(c) == (Len(FilteredProxies(c)) + PageSize - 1) \div PageSize

\* A defect: the page is kept when the list changes.
SamePage(c) == c

\* updatePagination() goes to the first page.
FirstPage(c) == [c EXCEPT !.page = 1]

\* showCurrentPage().
ProxiesToShow(c) ==
    LET last == c.page * PageSize
        len == Len(FilteredProxies(c))
    IN  SubSeq(FilteredProxies(c), last - PageSize + 1, IF last < len THEN last ELSE len)

\* The callback of ngOnInit().
ShowDiscovered(c) == FirstPage([c EXCEPT !.loading = FALSE])

\* getServices() of ProxyDiscoveryService repeats a failed request after a while.
Discovered ==
    /\ client.open /\ client.loading
    /\ client' = ShowDiscovered(client)
    /\ UNCHANGED <<stored, app>>

Usable == client.open /\ client.asking = None /\ client.ops < MaxOps

ChangeFilters(f) ==
    /\ Usable /\ ~client.loading
    /\ client' = FirstPage([client EXCEPT !.filter = f, !.ops = @ + 1])
    /\ UNCHANGED <<stored, app>>

\* goToNextPage(), goToPreviousPage().
ChangePage ==
    /\ client.open /\ ~client.loading /\ client.asking = None
    /\ \/ client.page < NumberOfPages(client) /\ client' = [client EXCEPT !.page = @ + 1]
       \/ client.page > 1 /\ client' = [client EXCEPT !.page = @ - 1]
    /\ UNCHANGED <<stored, app>>

-----------------------------------------------------------------------------
(***************************************************************************)
(* Changes of the app.                                                     *)
(***************************************************************************)
\* A defect: a server may be chosen while another one is being set.
CanSaveUnchecked(c) == c.open

\* The conditions of saveChanges(), continueSavingChanges() and saveSettings().
CanSave(c) == c.open /\ ~c.working

Ask(op) == client' = [client EXCEPT !.asking = op, !.ops = @ + 1]

\* saveChanges() with the form: the entry gets no note.
UseFromForm ==
    /\ Usable /\ CanSave(client)
    /\ \E k \in Keys, p \in BOOLEAN : Ask([do |-> "server", key |-> k, password |-> p, note |-> ""])
    /\ UNCHANGED <<stored, app>>

\* saveChanges() with an entry of the discovery list.
UseFromDiscovery ==
    /\ Usable /\ CanSave(client) /\ ~client.loading
    /\ \E i \in DOMAIN ProxiesToShow(client) :
           Ask([do |-> "server", key |-> ProxiesToShow(client)[i], password |-> FALSE, note |-> ""])
    /\ UNCHANGED <<stored, app>>

\* useFromHistory(): the password is asked for, and may be left empty.
UseFromHistory ==
    /\ Usable /\ CanSave(client)
    /\ \E i \in DOMAIN client.history, p \in BOOLEAN :
           /\ p => client.history[i].password
           /\ Ask([do |-> "server", key |-> client.history[i].key, password |-> p, note |-> client.history[i].note])
    /\ UNCHANGED <<stored, app>>

Save(h) == stored' = h

\* removeFromHistory() asks; changeNote() saves at once.
AskToRemove ==
    /\ Usable
    /\ \E k \in KeysOf(client.history) : Ask([do |-> "remove", key |-> k])
    /\ UNCHANGED <<stored, app>>

WithNote(h, k, n) == [i \in DOMAIN h |-> IF h[i].key = k THEN [h[i] EXCEPT !.note = n] ELSE h[i]]

ChangeNote ==
    /\ Usable
    /\ \E k \in KeysOf(client.history), n \in Notes :
           client' = [client EXCEPT !.history = WithNote(@, k, n), !.ops = @ + 1]
    /\ Save(client'.history)
    /\ UNCHANGED app

Without(h, k) == Picked(h, {i \in DOMAIN h : h[i].key # k})

Dismiss ==
    /\ client.open /\ client.asking # None
    /\ client' = [client EXCEPT !.asking = None]
    /\ UNCHANGED <<stored, app>>

AcceptRemoval ==
    /\ client.open /\ client.asking # None /\ client.asking.do = "remove"
    /\ client' = [client EXCEPT !.history = Without(@, client.asking.key), !.asking = None]
    /\ Save(client'.history)
    /\ UNCHANGED app

Send(c, op) == [c EXCEPT !.working = TRUE, !.request = op, !.answer = "none"]

\* continueSavingChanges().
AcceptServer ==
    /\ client.open /\ client.asking # None /\ client.asking.do = "server" /\ CanSave(client)
    /\ client' = [Send(client, client.asking) EXCEPT !.asking = None]
    /\ UNCHANGED <<stored, app>>

\* The button is enabled only if the value was changed: settingsChanged.
SaveSettings ==
    /\ Usable /\ CanSave(client)
    /\ client' = [Send(client, [do |-> "settings", killswitch |-> ~client.killswitch]) EXCEPT !.ops = @ + 1]
    /\ UNCHANGED <<stored, app>>

\* The visor changes the app (external).
Apply ==
    /\ client.request # None /\ client.answer = "none"
    /\ client' = [client EXCEPT !.answer = "ok"]
    /\ app' = IF client.request.do = "server" THEN [app EXCEPT !.server = client.request.key]
              ELSE [app EXCEPT !.killswitch = client.request.killswitch]
    /\ UNCHANGED stored

\* A defect: one entry too many goes.
AddedShort(h, e) ==
    LET all == <<e>> \o Without(h, e.key)
    IN  SubSeq(all, 1, IF Len(all) >= MaxHistory THEN MaxHistory - 1 ELSE Len(all))

\* A defect: the limit is forgotten.
AddedUnlimited(h, e) == <<e>> \o Without(h, e.key)

\* onServerDataChangeSuccess(): the entry is put first, and the last ones go.
Added(h, e) ==
    LET all == <<e>> \o Without(h, e.key)
    IN  SubSeq(all, 1, IF Len(all) > MaxHistory THEN MaxHistory ELSE Len(all))

Idle(c) == [c EXCEPT !.working = FALSE, !.request = None, !.answer = "none"]

OnServerDataChangeSuccess ==
    /\ client.answer = "ok" /\ client.request.do = "server"
    /\ LET r == client.request
           e == [key |-> r.key, password |-> r.password, note |-> r.note]
       IN  client' = [Idle(client) EXCEPT !.history = Added(@, e), !.pk = r.key]
    /\ Save(client'.history)
    /\ UNCHANGED app

SettingsSaved ==
    /\ client.answer = "ok" /\ client.request.do = "settings"
    /\ client' = [Idle(client) EXCEPT !.killswitch = client.request.killswitch]
    /\ UNCHANGED <<stored, app>>

\* onServerDataChangeError(), and the error of saveSettings().
Failed == Idle(client)

\* The request, or its answer, is lost.
OnError ==
    /\ client.request # None
    /\ client' = Failed
    /\ UNCHANGED <<stored, app>>

\* disableDismiss: not while a button is loading.
Close ==
    /\ client.open /\ client.asking = None /\ ~client.working
    /\ client' = [client EXCEPT !.open = FALSE]
    /\ UNCHANGED <<stored, app>>

Answered == Apply \/ OnServerDataChangeSuccess \/ SettingsSaved \/ OnError

Next ==
    \/ Discovered \/ (\E f \in DOMAIN MatchingKeys : ChangeFilters(f)) \/ ChangePage
    \/ UseFromForm \/ UseFromDiscovery \/ UseFromHistory \/ AskToRemove \/ ChangeNote
    \/ Dismiss \/ AcceptRemoval \/ AcceptServer \/ SaveSettings
    \/ Answered
    \/ Close

-----------------------------------------------------------------------------
(***************************************************************************)
(* Properties                                                              *)
(***************************************************************************)
\* The history holds each server once, never more than the limit, and local
\* storage holds what the window shows (onServerDataChangeSuccess(),
\* removeFromHistory(), changeNote()).
HistoryValid ==
    stored = client.history /\ Valid(client.history)

\* A server leaves the history only if the user accepted to remove it, or to
\* make room for another one in a history that is full.
KeepsHistory ==
    \A k \in KeysOf(stored) \ KeysOf(stored') :
        \/ client.asking # None /\ client.asking.do = "remove" /\ client.asking.key = k
        \/ Len(stored) = MaxHistory /\ Len(stored') = MaxHistory

\* A request is never replaced by another one before it was answered, although
\* two tabs of the window, a confirmation and the history can start one (the
\* flag working).
KeepsRequest == client.request # None => client'.request \in {client.request, None}

\* The page of the discovery list that is shown is never an empty one if some
\* server passes the filter (filterProxies(), goToNextPage()).
PageShown ==
    ~client.loading /\ FilteredProxies(client) # <<>> => ProxiesToShow(client) # <<>>
=============================================================================
