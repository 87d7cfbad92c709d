------------------------------ MODULE NodeLists ------------------------------
(***************************************************************************)
(* The lists in the page of a visor: its transports, its routes or its     *)
(* apps (transport-list, route-list, node-apps-list), with the filters,    *)
(* the order and the pages they share (utils/lists, utils/filters.ts), the *)
(* elements that are selected, the confirmation dialog and the operations  *)
(* on several elements, one request each, while the visor is polled.       *)
(*                                                                         *)
(* One behaviour has one of the lists.  Elements are 1..N.  The flag of an *)
(* element says that a transport is persistent, that an app runs, or, in   *)
(* "autostart", that an app starts by itself.  A persistent transport that *)
(* is not there is listed too, with an id made of its key and type, here   *)
(* e + N.  A change of the filters or the page is a navigation, which      *)
(* makes the component again.                                              *)
(***************************************************************************)
EXTENDS Naturals, FiniteSets, FiniteSetsExt

CONSTANTS
    N,           \* number of elements
    PageSize,    \* maxFullListElements, maxShortListElements
    Lists,       \* the lists to look at
    FirstState,       \* what the visor may have at first
    None,
    MaxOps,      \* bound on the operations the user accepts
    MaxMoves,    \* bound on navigations and changes of the order
    MaxChanges   \* bound on the changes the visor makes by itself

Elems == 1..N
\* The rows that a list may have.
Rows == 1..(2 * N)
State == [exists : SUBSET Elems, flag : SUBSET Elems]

VARIABLES
    list,     \* which list this is
    visor,    \* what the visor has
    data,     \* what SingleNodeDataService last emitted
    asked,    \* the answer to the request under way
    comp,     \* the fields of the list component; the order is also saved
    dialog,   \* the confirmation dialog
    ops,      \* the operations, by number
    timers,   \* setTimeout of the apps: a refresh "soon", or "later"
    gone,     \* history: elements that finished operations deleted
    started, moves, changes

vars == <<list, visor, data, asked, comp, dialog, ops, timers, gone,
          started, moves, changes>>
bounds == <<started, moves, changes>>

IsApps == list \in {"apps", "autostart"}
Elem(k) == IF k > N THEN k - N ELSE k

-----------------------------------------------------------------------------
(* What the list shows *)

\* The setter of node: persistent transports that were not found are added.
TransportEntries(d) == d.exists \union {e + N : e \in d.flag \ d.exists}

\* The setters of routes and of apps.
RouteEntries(d) == d.exists
AppEntries(d) == d.exists

Entries(d) ==
    CASE list = "transports" -> TransportEntries(d)
      [] list = "routes" -> RouteEntries(d)
      [] IsApps -> AppEntries(d)

Flagged(d, k) == Elem(k) \in d.flag

\* filterProperties: a filter by the flag, or by nothing.
Filters == {"none", "flagged"}

\* filterList.
Filtered(c, d) == {k \in Entries(d) : c.filter = "flagged" => Flagged(d, k)}

\* getSortResponse and sortData: by the selected column, then by the default one,
\* both reversed if the order is.
Before(c, d, j, k) ==
    IF c.sortBy = "flag" /\ Flagged(d, j) # Flagged(d, k) THEN Flagged(d, j) # c.reverse
    ELSE (j < k) # c.reverse

Rank(c, d, S, k) == 1 + Cardinality({j \in S \ {k} : Before(c, d, j, k)})

NumberOfPages(S) == (Cardinality(S) + PageSize - 1) \div PageSize

\* Mutant: the page of the URL is used as it is.
CurrentPageUnchecked(c, S) == c.pageInUrl

\* recalculateElementsToShow: the page.
CurrentPage(c, S) == IF c.pageInUrl > NumberOfPages(S) THEN NumberOfPages(S) ELSE c.pageInUrl

ToShow(c, d) ==
    LET S == Filtered(c, d)
        p == CurrentPage(c, S)
    IN {k \in S : (Rank(c, d, S, k) + PageSize - 1) \div PageSize = p}

\* Mutant: the elements that are not shown any more stay selected.
SelectionsKept(c, S) ==
    [k \in S \union DOMAIN c.sel |-> k \in DOMAIN c.sel /\ c.sel[k]]

\* Mutant: an element that appears in a list that is all selected is selected.
SelectionsOfAll(c, S) ==
    [k \in S |-> IF k \in DOMAIN c.sel THEN c.sel[k]
                 ELSE DOMAIN c.sel # {} /\ \A j \in DOMAIN c.sel : c.sel[j]]

\* recalculateElementsToShow: the selections map gets the new elements and
\* loses the old ones.
Selections(c, S) == [k \in S |-> k \in DOMAIN c.sel /\ c.sel[k]]

\* setData of the filterer, then of the sorter, then recalculateElementsToShow.
Recalculate(c, d) ==
    [c EXCEPT !.shown = ToShow(c, d), !.sel = Selections(c, ToShow(c, d))]

\* openSortingOrderModal: a column, in one of two orders.
SortOptions == [by : {"id", "flag"}, reverse : BOOLEAN]

\* The constructors of the component, its filterer and its sorter, with the filters and the page of the URL and the saved order.
NewComp(filter, page, by, reverse) ==
    [filter |-> filter, pageInUrl |-> page, sortBy |-> by, reverse |-> reverse,
     shown |-> {}, sel |-> [k \in {} |-> FALSE], again |-> FALSE]

\* hasSelectedElements and the loops over the selections map.
Selected == {k \in DOMAIN comp.sel : comp.sel[k]}

-----------------------------------------------------------------------------
(* The dialog and the operations *)

NoDialog == [is |-> "closed", do |-> "none", keys |-> {}]
Asking(do, S) == [is |-> "asking", do |-> do, keys |-> S]

\* An operation: the elements that are left, and the one whose request is sent,
\* done or failed.  asked: what the user was asked about.  did: what it deleted.
\* mine: its dialog is on screen.  live: the component listens to it.
NewOp(do, S, k, S0, mine) ==
    [do |-> do, todo |-> S, now |-> k, is |-> "sent", got |-> {}, did |-> {},
     asked |-> S0, mine |-> mine, live |-> TRUE]

-----------------------------------------------------------------------------
Init ==
    /\ list \in Lists
    /\ visor \in FirstState[list]
    /\ data = visor /\ asked = None
    /\ comp = Recalculate(NewComp("none", 1, "id", FALSE), visor)
    /\ dialog = NoDialog
    /\ ops = [i \in 1..MaxOps |-> None]
    /\ timers = {} /\ gone = {}
    /\ started = 0 /\ moves = 0 /\ changes = 0

\* The poll of SingleNodeDataService: the visor makes its answer.
Ask ==
    /\ asked = None
    /\ asked' = visor
    /\ UNCHANGED <<list, visor, data, comp, dialog, ops, timers, gone, bounds>>

\* The answer reaches the list; after an operation on apps it is asked again.
Answer ==
    /\ asked # None
    /\ data' = asked
    /\ comp' = [Recalculate(comp, asked) EXCEPT !.again = FALSE]
    /\ timers' = IF comp.again THEN timers \union {"later"} ELSE timers
    /\ asked' = None
    /\ UNCHANGED <<list, visor, dialog, ops, gone, bounds>>

\* The refresh of the apps after 50 ms and after 2 s.
Timer(t) ==
    /\ t \in timers
    /\ timers' = timers \ {t}
    /\ comp' = [comp EXCEPT !.again = @ \/ t = "soon"]
    /\ asked' = None
    /\ UNCHANGED <<list, visor, data, dialog, ops, gone, bounds>>

\* Transports and routes come and go; other users start apps.
VisorChanges(e) ==
    /\ changes < MaxChanges /\ changes' = changes + 1
    /\ LET Flip(S) == IF e \in S THEN S \ {e} ELSE S \union {e}
       IN visor' = IF IsApps THEN [visor EXCEPT !.flag = Flip(@)]
                   ELSE [visor EXCEPT !.exists = Flip(@)]
    /\ gone' = gone \ {e}
    /\ UNCHANGED <<list, data, asked, comp, dialog, ops, timers, started, moves>>

\* changeSelection and changeAllSelections.
ChangeSelections(S, b) ==
    /\ dialog = NoDialog
    /\ comp' = [comp EXCEPT !.sel = [k \in DOMAIN @ |-> IF k \in S THEN b ELSE @[k]]]
    /\ UNCHANGED <<list, visor, data, asked, dialog, ops, timers, gone, bounds>>

\* ngOnDestroy: no answer of an operation is heard any more.
Cancelled ==
    [i \in 1..MaxOps |-> IF ops[i] = None THEN None
                         ELSE [ops[i] EXCEPT !.live = FALSE, !.mine = FALSE]]

\* A link with other filters or another page: the component and the dialog are
\* destroyed, and a new one gets the data (changeFilters, removeFilters).
Navigate(filter, page) ==
    /\ moves < MaxMoves /\ moves' = moves + 1
    /\ <<filter, page>> # <<comp.filter, comp.pageInUrl>>
    /\ comp' = Recalculate(NewComp(filter, page, comp.sortBy, comp.reverse), data)
    /\ dialog' = NoDialog
    /\ ops' = Cancelled
    /\ timers' = IF timers = {} THEN {} ELSE {"later"}
    /\ UNCHANGED <<list, visor, data, asked, gone, started, changes>>

\* changeSortingOrder, changeSortingParams: the data are sorted again.
ChangeSorting(o) ==
    /\ dialog = NoDialog
    /\ moves < MaxMoves /\ moves' = moves + 1
    /\ comp' = Recalculate([comp EXCEPT !.sortBy = o.by, !.reverse = o.reverse], data)
    /\ UNCHANGED <<list, visor, data, asked, dialog, ops, timers, gone, started, changes>>

-----------------------------------------------------------------------------
(* Operations *)

OpenDialog(do, S) ==
    /\ dialog = NoDialog /\ started < MaxOps
    /\ dialog' = Asking(do, S)
    /\ UNCHANGED <<list, visor, data, asked, comp, ops, timers, gone, bounds>>

\* deleteSelected of the transports and of the routes.
DeleteSelectedTransports ==
    list = "transports" /\ Selected # {} /\ OpenDialog("deleteSelected", Selected)

DeleteSelectedRoutes ==
    list = "routes" /\ Selected # {} /\ OpenDialog("deleteSelected", Selected)

\* changeIfPersistentOfSelected.
ChangeIfPersistentOfSelected(do) ==
    list = "transports" /\ Selected # {} /\ OpenDialog(do, Selected)

\* The selected apps that have not the value yet, by the data on screen.
AppsToChange(do) == {k \in Selected : Flagged(data, k) # (do = "on")}

\* changeAutostartOfSelected: the apps are chosen now.
ChangeAutostartOfSelected(do) ==
    list = "autostart" /\ Selected # {} /\ OpenDialog(do, AppsToChange(do))

\* changeStateOfSelected, to stop apps.
StopSelected ==
    list = "apps" /\ Selected # {} /\ OpenDialog("off", AppsToChange("off"))

\* What can be done with one element (showOptionsDialog): a transport that was
\* not found cannot be deleted; changeAppState and changeAppAutostart of apps.
TransportOptions(k) ==
    (IF Flagged(data, k) THEN {"forget"} ELSE {"persist"})
        \union (IF k <= N THEN {"delete"} ELSE {})
RouteOptions(k) == {"delete"}
AppStateOptions(k) == IF Flagged(data, k) THEN {"off"} ELSE {}
AutostartOptions(k) == IF Flagged(data, k) THEN {"off"} ELSE {"on"}

Options(k) ==
    CASE list = "transports" -> TransportOptions(k)
      [] list = "routes" -> RouteOptions(k)
      [] list = "apps" -> AppStateOptions(k)
      [] list = "autostart" -> AutostartOptions(k)

ChooseOption(k, do) ==
    k \in comp.shown /\ do \in Options(k) /\ OpenDialog(do, {k})

Start(op) ==
    /\ started < MaxOps /\ started' = started + 1
    /\ ops' = [ops EXCEPT ![started + 1] = op]

\* changeAppsValRecursively with no app: a refresh, after 50 ms.
NothingToChange ==
    /\ started < MaxOps /\ started' = started + 1
    /\ dialog' = NoDialog /\ timers' = timers \union {"later"}
    /\ UNCHANGED <<list, visor, data, asked, comp, ops, gone, moves, changes>>

\* changeStateOfSelected and changeAppState start apps without a question.
StartApps(S, k) ==
    /\ list = "apps" /\ dialog = NoDialog /\ k \in S
    /\ S = AppsToChange("on") \/ (S = {k} /\ k \in comp.shown /\ ~Flagged(data, k))
    /\ Start(NewOp("on", S, k, S, FALSE))
    /\ UNCHANGED <<list, visor, data, asked, comp, dialog, timers, gone, moves, changes>>

\* What an accepted operation works on: deleteSelected reads the selections
\* now, the others have chosen before.
ToDo == IF dialog.do = "deleteSelected" THEN Selected ELSE dialog.keys

\* operationAccepted and showProcessing: the request for one of the elements.
Accept(k) ==
    /\ dialog.is = "asking" /\ k \in ToDo
    /\ dialog' = [dialog EXCEPT !.is = "processing"]
    /\ Start(NewOp(dialog.do, ToDo, k, dialog.keys, TRUE))
    /\ UNCHANGED <<list, visor, data, asked, comp, timers, gone, moves, changes>>

\* The selection vanished while the dialog asked.  For transports a request
\* without an id is sent; for routes startDeleting throws, and nothing is.
AcceptVanished ==
    /\ dialog.is = "asking" /\ ToDo = {} /\ ~IsApps
    /\ dialog' = [dialog EXCEPT !.is = "processing"]
    /\ IF list = "transports" THEN Start(NewOp(dialog.do, {}, 0, dialog.keys, TRUE))
       ELSE UNCHANGED <<ops, started>>
    /\ UNCHANGED <<list, visor, data, asked, comp, timers, gone, moves, changes>>

AcceptNothing ==
    dialog.is = "asking" /\ IsApps /\ ToDo = {} /\ NothingToChange

\* The dialog is closed, unless it processes (disableDismiss).
Dismiss ==
    /\ dialog.is \in {"asking", "done"}
    /\ dialog' = NoDialog
    /\ UNCHANGED <<list, visor, data, asked, comp, ops, timers, gone, bounds>>

-----------------------------------------------------------------------------
(* The visor executes a request *)

Sent(i) == ops[i] # None /\ ops[i].is = "sent"
Elements(S) == {Elem(k) : k \in S}

Executed(i, is, v) ==
    /\ visor' = v
    /\ ops' = [ops EXCEPT ![i].is = is, ![i].got = v.flag,
                          ![i].did = @ \union (visor.exists \ v.exists)]
    /\ UNCHANGED <<list, data, asked, comp, dialog, timers, gone, bounds>>

\* Deletes an element that is there, by its id.
ExecuteDelete(i) ==
    /\ Sent(i) /\ ops[i].do \in {"delete", "deleteSelected"}
    /\ ops[i].now \in visor.exists
    /\ Executed(i, "ok", [visor EXCEPT !.exists = @ \ {ops[i].now}])

\* Starts or stops an app, or changes its autostart setting.
ExecuteChange(i) ==
    /\ Sent(i) /\ ops[i].do \in {"on", "off"}
    /\ Executed(i, "ok", [visor EXCEPT !.flag = IF ops[i].do = "on" THEN @ \union {ops[i].now}
                                                ELSE @ \ {ops[i].now}])

\* getPersistentTransports.
ExecuteGet(i) ==
    /\ Sent(i) /\ ops[i].do \in {"persist", "forget"}
    /\ Executed(i, "got", visor)

\* The list that changeIfPersistent makes of the one it got.
PersistentList(op) ==
    IF op.do = "persist" THEN op.got \union Elements(op.todo)
    ELSE op.got \ Elements(op.todo)

\* savePersistentTransportsData replaces the list.
ExecutePut(i) ==
    /\ ops[i] # None /\ ops[i].is = "put"
    /\ Executed(i, "ok", [visor EXCEPT !.flag = PersistentList(ops[i])])

\* A request fails; one for an element that is not there always does.
ExecuteFails(i) ==
    /\ ops[i] # None /\ ops[i].is \in {"sent", "put"}
    /\ Executed(i, "failed", visor)

-----------------------------------------------------------------------------
(* The answer of a request *)

Live(i) == ops[i] # None /\ ops[i].live
Last(i) == Cardinality(ops[i].todo) <= 1 \/ ops[i].do \in {"persist", "forget"}
Finish(i, how) ==
    /\ ops' = [ops EXCEPT ![i] = None]
    /\ dialog' = IF ops[i].mine THEN how ELSE dialog

\* startChangingAppState puts the answer in the app on screen.
ShowAnswer(i) ==
    data' = IF list = "apps" /\ ops[i].now \in comp.shown
            THEN [data EXCEPT !.flag = IF ops[i].do = "on" THEN @ \union {ops[i].now}
                                       ELSE @ \ {ops[i].now}]
            ELSE data

\* Mutant: an element is deleted and the request under way is kept.
RefreshLater ==
    /\ timers' = IF IsApps THEN timers \union {"soon"} ELSE timers
    /\ UNCHANGED asked

\* refreshCurrentDisplayedData, which drops the request under way; for the
\* apps after 50 ms.
RefreshCurrent ==
    /\ timers' = IF IsApps THEN timers \union {"soon"} ELSE timers
    /\ asked' = IF IsApps THEN asked ELSE None

\* deleteRecursively, changeAppsValRecursively: the next element.
NextElement(i, k) ==
    /\ Live(i) /\ ops[i].is = "ok" /\ ~Last(i)
    /\ k \in ops[i].todo \ {ops[i].now}
    /\ ops' = [ops EXCEPT ![i].todo = @ \ {ops[i].now}, ![i].now = k, ![i].is = "sent"]
    /\ ShowAnswer(i)
    /\ UNCHANGED <<list, visor, asked, comp, dialog, timers, gone, bounds>>

\* The last one: the dialog is closed and the data are asked for.
Done(i) ==
    /\ Live(i) /\ ops[i].is = "ok" /\ Last(i)
    /\ Finish(i, NoDialog) /\ RefreshCurrent /\ ShowAnswer(i)
    /\ gone' = gone \union (ops[i].did \ visor.exists)
    /\ UNCHANGED <<list, visor, comp, bounds>>

\* Mutant: the error is not shown in the dialog.
FailedSilently(i) ==
    /\ Live(i) /\ ops[i].is = "failed"
    /\ Finish(i, dialog)
    /\ UNCHANGED <<list, visor, data, asked, comp, timers, gone, bounds>>

\* An error ends the operation, the rest is not done; showDone of the dialog.
Failed(i) ==
    /\ Live(i) /\ ops[i].is = "failed"
    /\ Finish(i, [dialog EXCEPT !.is = "done"])
    /\ IF ops[i].do = "deleteSelected" \/ IsApps THEN RefreshCurrent
       ELSE UNCHANGED <<asked, timers>>
    /\ UNCHANGED <<list, visor, data, comp, gone, bounds>>

\* changeIfPersistent, with the list it asked for: a change, or nothing to do.
GotList(i) ==
    /\ Live(i) /\ ops[i].is = "got"
    /\ IF PersistentList(ops[i]) # ops[i].got
       THEN ops' = [ops EXCEPT ![i].is = "put"] /\ UNCHANGED <<dialog, asked, timers>>
       ELSE Finish(i, NoDialog) /\ RefreshCurrent
    /\ UNCHANGED <<list, visor, data, comp, gone, bounds>>

\* Nobody hears the answer after ngOnDestroy.
Unheard(i) ==
    /\ ops[i] # None /\ ~ops[i].live /\ ops[i].is \in {"ok", "failed", "got"}
    /\ ops' = [ops EXCEPT ![i] = None]
    /\ UNCHANGED <<list, visor, data, asked, comp, dialog, timers, gone, bounds>>

Execute(i) ==
    ExecuteDelete(i) \/ ExecuteChange(i) \/ ExecuteGet(i) \/ ExecutePut(i) \/ ExecuteFails(i)
Answered(i) ==
    Done(i) \/ Failed(i) \/ GotList(i) \/ Unheard(i) \/ \E k \in Rows : NextElement(i, k)

User ==
    \/ DeleteSelectedTransports \/ DeleteSelectedRoutes \/ StopSelected
    \/ AcceptVanished \/ AcceptNothing \/ Dismiss
    \/ \E k \in Rows : Accept(k) \/ StartApps({k}, k) \/ StartApps(AppsToChange("on"), k)
    \/ \E do \in {"persist", "forget"} : ChangeIfPersistentOfSelected(do)
    \/ \E do \in {"on", "off"} : ChangeAutostartOfSelected(do)
    \/ \E k \in Rows, do \in {"persist", "forget", "delete", "on", "off"} : ChooseOption(k, do)
    \/ \E k \in Rows, b \in BOOLEAN : ChangeSelections({k}, b)
    \/ \E b \in BOOLEAN : ChangeSelections(Rows, b)
    \/ \E filter \in Filters, page \in 1..N : Navigate(filter, page)
    \/ \E o \in SortOptions : ChangeSorting(o)

Next ==
    \/ User \/ Ask \/ Answer
    \/ \E t \in {"soon", "later"} : Timer(t)
    \/ \E e \in Elems : VisorChanges(e)
    \/ \E i \in 1..MaxOps : Execute(i) \/ Answered(i)

Spec == Init /\ [][Next]_vars

-----------------------------------------------------------------------------
(* Properties *)

\* The visor, the data, the component, the dialog and the operations keep
\* their types.
TypeOK ==
    /\ list \in Lists /\ visor \in State /\ data \in State /\ asked \in State \union {None}
    /\ comp.filter \in Filters /\ comp.pageInUrl \in 1..N
    /\ comp.shown \subseteq Rows /\ comp.sel \in [DOMAIN comp.sel -> BOOLEAN]
    /\ dialog.is \in {"closed", "asking", "processing", "done"} /\ dialog.keys \subseteq Rows
    /\ \A i \in 1..MaxOps : ops[i] # None =>
          /\ ops[i].is \in {"sent", "ok", "got", "put", "failed"}
          /\ ops[i].todo \subseteq Rows /\ ops[i].now \in ops[i].todo \union {0}
    /\ timers \subseteq {"soon", "later"} /\ gone \subseteq Elems

\* The selections map has exactly the elements on screen, whatever polls,
\* filters, pages and orders did to the list (recalculateElementsToShow): no
\* element that the user cannot see is selected.
SelectionIsShown == DOMAIN comp.sel = comp.shown

\* A list that has elements that pass the filters is not blank, even when it
\* shrank below the page of the URL (recalculateElementsToShow).
NotBlank == Filtered(comp, data) # {} => comp.shown # {}

\* An operation works only on elements that were selected when the dialog
\* asked, though deleteSelected reads the selections when the user accepts and
\* polls change the list in between.
OnlyWhatWasAsked ==
    \A i \in 1..MaxOps : ops[i] # None => ops[i].todo \subseteq ops[i].asked

\* Once an operation has finished, no answer that was made before its
\* deletions can be shown (refreshCurrentDisplayedData).
NoOldAnswer == asked # None => asked.exists \intersect gone = {}

\* A dialog that works, which cannot be dismissed (disableDismiss).
DialogWorks == dialog.is = "processing"

\* What the code does when the selection of a list of routes vanished while the
\* dialog asked: deleteSelected shows Processing before it reads the selections,
\* startDeleting(undefined) throws at toString() and nothing is sent
\* (route-list.component.ts:284-303, 413-415).  No answer ever ends this dialog.
LockedIn ==
    dialog.is = "processing" /\ list = "routes" /\ \A i \in 1..MaxOps : ops[i] = None
=============================================================================
