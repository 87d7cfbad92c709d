----------------------------- MODULE NodeDialogs -----------------------------
(***************************************************************************)
(* The lists and the modal windows of the pages of a visor, one of them in *)
(* each behaviour: the windows are modal and share no state with the lists *)
(* but the visor.  The variables of the ones that were not opened are      *)
(* None.                                                                   *)
(***************************************************************************)
EXTENDS Naturals, Sequences, FiniteSets

CONSTANTS
    Order, NewAddresses, MaxToggles,                                \* BulkRewards
    Keys, Notes, Proxies, MatchingKeys, FirstHistories, MaxHistory,
    PageSize, MaxOps,                                               \* ClientSettings
    Levels, Old, MaxShown, MaxWritten, MaxLoads,                    \* LogWindows
    Kinds, Others, MaxTyped, MaxRequests,                           \* FormDialogs
    N, ListPageSize, Lists, FirstState, MaxListOps, MaxMoves, MaxChanges, \* NodeLists
    Windows,                                                        \* the modules of which a window is opened
    None

VARIABLES window, bulk, reward, client, stored, app, logs, written, form, visor,
    list, listed, data, asked, comp, dialog, ops, timers, gone, started, moves, changes

BulkWindow == INSTANCE BulkRewards
ClientWindow == INSTANCE ClientSettings
LogWindow == INSTANCE LogWindows
FormWindow == INSTANCE FormDialogs
ListPage == INSTANCE NodeLists WITH
    visor <- listed, PageSize <- ListPageSize, MaxOps <- MaxListOps

ASSUME DialogsAssumption ==
    /\ Windows \subseteq {"bulk", "client", "logs", "form", "list"}
    /\ NewAddresses # {}
    /\ Order # <<>> /\ Order \in Seq(BulkWindow!Visors) /\ Proxies \in Seq(Keys)
    /\ \A h \in FirstHistories : h \in Seq(ClientWindow!Entries) /\ ClientWindow!Valid(h)
    /\ {MaxHistory, PageSize, MaxShown} \subseteq Nat \ {0} /\ "" \in Notes /\ "" \in DOMAIN MatchingKeys
    /\ {MaxToggles, MaxOps, Old, MaxWritten, MaxLoads, MaxTyped, MaxRequests} \subseteq Nat
    /\ 1 \in Levels /\ Levels \subseteq Nat \ {0}
    /\ Kinds \subseteq FormWindow!AllKinds /\ FormWindow!Complete \cap Others = {}
    /\ N \in Nat \ {0} /\ ListPageSize \in Nat \ {0}
    /\ Lists \subseteq {"transports", "routes", "apps", "autostart"}
    /\ FirstState \in [Lists -> SUBSET ListPage!State]
    /\ {MaxListOps, MaxMoves, MaxChanges} \subseteq Nat

bulkVars == <<bulk, reward>>
clientVars == <<client, stored, app>>
logVars == <<logs, written>>
formVars == <<form, visor>>
listVars == <<list, listed, data, asked, comp, dialog, ops, timers, gone, started, moves, changes>>
vars == <<window, bulkVars, clientVars, logVars, formVars, listVars>>

Init ==
    /\ window \in Windows
    /\ IF window = "bulk" THEN BulkWindow!Init ELSE bulk = None /\ reward = None
    /\ IF window = "client" THEN ClientWindow!Init ELSE client = None /\ stored = None /\ app = None
    /\ IF window = "logs" THEN LogWindow!Init ELSE logs = None /\ written = None
    /\ IF window = "form" THEN FormWindow!Init ELSE form = None /\ visor = None
    /\ IF window = "list" THEN ListPage!Init
       ELSE /\ list = None /\ listed = None /\ data = None /\ asked = None /\ comp = None
            /\ dialog = None /\ ops = None /\ timers = None /\ gone = None
            /\ started = None /\ moves = None /\ changes = None

\* Only the window that is open takes steps.
OnlyBulk == window = "bulk" /\ UNCHANGED <<window, clientVars, logVars, formVars, listVars>>
OnlyClient == window = "client" /\ UNCHANGED <<window, bulkVars, logVars, formVars, listVars>>
OnlyLogs == window = "logs" /\ UNCHANGED <<window, bulkVars, clientVars, formVars, listVars>>
OnlyForm == window = "form" /\ UNCHANGED <<window, bulkVars, clientVars, logVars, listVars>>
OnlyList == window = "list" /\ UNCHANGED <<window, bulkVars, clientVars, logVars, formVars>>

Next ==
    \/ OnlyBulk /\ BulkWindow!Next
    \/ OnlyClient /\ ClientWindow!Next
    \/ OnlyLogs /\ LogWindow!Next
    \/ OnlyForm /\ FormWindow!Next
    \/ OnlyList /\ ListPage!Next

\* A request of a window is answered or fails at last; the log of the visor is
\* asked for again after each failure, and not all the attempts fail.
Answered ==
    \/ OnlyBulk /\ BulkWindow!Answered
    \/ OnlyClient /\ ClientWindow!Answered
    \/ OnlyForm /\ FormWindow!Answered
    \/ OnlyList /\ \E i \in 1..MaxListOps : ListPage!Execute(i) \/ ListPage!Answered(i)

Fairness ==
    /\ WF_vars(Answered)
    /\ SF_vars(OnlyLogs /\ LogWindow!Answer) /\ SF_vars(OnlyLogs /\ LogWindow!Received)

Spec == Init /\ [][Next]_vars /\ Fairness

-----------------------------------------------------------------------------
(***************************************************************************)
(* Properties                                                              *)
(***************************************************************************)
\* The window that is open has the state of its component.
TypeOK ==
    CASE window = "bulk" -> BulkWindow!TypeOK
      [] window = "client" -> ClientWindow!TypeOK
      [] window = "logs" -> LogWindow!TypeOK
      [] window = "list" -> ListPage!TypeOK
      [] OTHER -> FormWindow!TypeOK

\* Nothing is done that the user did not accept: an operation of a list works
\* only on what its dialog asked about (deleteSelected reads the selection again
\* after the answer), and Skychat is opened to others only after a question.
OnlyConsented ==
    /\ window = "list" => ListPage!OnlyWhatWasAsked
    /\ window = "form" => FormWindow!ExposedIfAccepted

\* What a window says is what the visors answered, to the present question:
\* outcomes, logs, pages and final messages.  Of the log of a visor it says what
\* the window does, which is not what the comment of its limit promises
\* (NodeLogIsFiltered), and of a transport told to be persistent that it was put
\* in the list, from which another creation may have dropped it (ListKept).
ShownIsTrue ==
    /\ window = "bulk" => BulkWindow!OutcomeIsOwn /\ BulkWindow!FinishedWhenAnswered
    /\ window = "client" => ClientWindow!PageShown
    /\ window = "logs" => LogWindow!AppLogIsCurrent /\ LogWindow!NodeLogIsFiltered
    /\ window = "form" => FormWindow!ToldTruth

\* A list shows and selects the right elements: none that is not seen is
\* selected, no list with elements is blank, and no answer from before a
\* finished operation is to come.
ListIsTrue ==
    window = "list" =>
        ListPage!SelectionIsShown /\ ListPage!NotBlank /\ ListPage!NoOldAnswer

\* What a window writes as a whole: the stored history is the one shown, and
\* the persistent transports that were there when the window was opened stay.
\* A transport that the window itself added can be dropped by a second creation
\* (ListKept).  The windows that look at operationSubscription have one request.
DataHold ==
    /\ window = "client" => ClientWindow!HistoryValid
    /\ window = "form" => FormWindow!ListKept /\ FormWindow!OneRequest

\* A server leaves the history only by the user's choice or at the limit, and
\* no request of the client window is replaced before its answer.
ClientKeeps ==
    [][window = "client" => ClientWindow!KeepsHistory /\ ClientWindow!KeepsRequest]_vars

\* A window that is working: a button that is loading, changes
\* that are running, data that is being loaded, a confirmation that processes.
Busy ==
    CASE window = "bulk" -> bulk.started /\ ~bulk.finished
      [] window = "client" -> client.working
      [] window = "logs" -> logs.open /\ logs.loading
      [] window = "form" -> form.open /\ form.button = "Loading"
      [] window = "list" -> ListPage!DialogWorks

\* No window stays busy for ever, whatever requests fail: what can not be
\* dismissed meanwhile becomes usable again.  One dialog is excepted, and does
\* lock the user in for ever: that of a list of routes whose selection vanished
\* while it asked (LockedIn).
WindowFree == Busy ~> ~Busy \/ (window = "list" /\ ListPage!LockedIn)
==============================================================================
