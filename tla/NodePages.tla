------------------------------ MODULE NodePages ------------------------------
(***************************************************************************)
(* One browser tab of the manager: the pages with the visor list and with  *)
(* one visor (node-list.component.ts, node.component.ts), the two services *)
(* that poll the hypervisor for them (multiple-node-data.service.ts,       *)
(* single-node-data.service.ts), the history of the browser in which the   *)
(* pages save what they last got (utils/page-base.ts), and the session     *)
(* (auth.service.ts, auth-guard.service.ts, login.component.ts).           *)
(*                                                                         *)
(* A page is the list, the settings, the login page or a visor.  Answers   *)
(* are abstracted to their source and their outcome.  No component is      *)
(* reused (app.reuse-strategy.ts): each navigation destroys the old page   *)
(* and then makes the new one.  Delays are a timer that may fire.          *)
(***************************************************************************)
EXTENDS Naturals, Sequences, SequencesExt, Functions

CONSTANTS
    Nodes,        \* visors, by public key
    Known,        \* the ones the hypervisor knows
    None,         \* no saved value, nothing shown
    MaxHistory,   \* bound on the entries of the history
    MaxFaults,    \* bound on errors, lost sessions, reloads and forced updates
    Reloads       \* whether the user reloads the app

ASSUME NodePagesAssumption ==
    /\ Known \subseteq Nodes /\ None \notin Nodes
    /\ Nodes \cap {"list", "settings", "login", "notfound", "nothing"} = {}
    /\ MaxHistory \in Nat \ {0} /\ MaxFaults \in Nat

VARIABLES
    hist,      \* the entries of the history; the last one is on screen
    view,      \* fields of the page on screen
    nodesMap,  \* SingleNodeDataService: the polled visors
    list,      \* MultipleNodeDataService
    session,   \* whether the session cookie is valid
    forceFail, \* AuthGuardService
    faults

vars == <<hist, view, nodesMap, list, session, forceFail, faults>>

\* What a data subject last emitted: data, the status 400 of a visor that is
\* not known, or nothing to show: the initial null, an update that runs, an
\* error that is retried.
Emissions == {"data", "notfound", "nothing"}

\* What an entry of the history has saved: the source of data, or no data.
Saved == Nodes \union {"list", "notfound", "nothing", None}
Pages == Nodes \union {"list", "settings", "login"}

Cur == Last(hist)
Page == Cur.page
Shown(p) == Page = p

\* The fields of a page that was just made.  lost: the subscription of the
\* page to the service is not the one ngOnDestroy will end.
NewView == [shown |-> None, notFound |-> FALSE, live |-> FALSE, lost |-> FALSE]

NewNodeData == [loop |-> "wait", last |-> "nothing", stopped |-> FALSE, leaked |-> FALSE]
NewListData == [loop |-> "off", last |-> "nothing", leaked |-> FALSE]

-----------------------------------------------------------------------------
(* The services.  A loop waits for its timer or for an answer. *)

\* A new entry of the cache.
WithEntry(map, k) ==
    [j \in DOMAIN map \union {k} |-> IF j = k THEN NewNodeData ELSE map[j]]

\* Mutant: a stop request is never taken back.
StartRequestingStopped(map, k) == IF k \in DOMAIN map THEN map ELSE WithEntry(map, k)

\* startRequestingData: makes an entry, or cancels the stop request of the old one.
StartRequesting(map, k) ==
    IF k \in DOMAIN map THEN [map EXCEPT ![k].stopped = FALSE] ELSE WithEntry(map, k)

\* Mutant: the page that is left does not ask to stop.
StopRequestingNever(map, k) == map

\* stopRequestingSpecificNode: polling goes on until the entry expires.
StopRequesting(map, k) ==
    IF k \in DOMAIN map THEN [map EXCEPT ![k].stopped = TRUE] ELSE map

Forget(map, k) == Restrict(map, DOMAIN map \ {k})

\* startRequestingData of the list: only if nobody started it.
StartList(l) == [l EXCEPT !.loop = IF @ = "off" THEN "wait" ELSE @]

\* Mutant: the loop is ended and the service thinks that it runs.
StopListSilently(l) == [l EXCEPT !.loop = "dead"]

\* stopRequestingData, by the login page.
StopList(l) == [l EXCEPT !.loop = "off"]

-----------------------------------------------------------------------------
(* Navigation, on a record of the variables that it changes. *)

State == [hist |-> hist, view |-> view, map |-> nodesMap, list |-> list]
Put(new) ==
    \E s \in {new} :
        hist' = s.hist /\ view' = s.view /\ nodesMap' = s.map /\ list' = s.list

\* ngOnDestroy: a subscription that dataSubscription no longer names survives.
Leave(s) ==
    LET p == Last(s.hist).page
    IN IF p = "list" THEN [s EXCEPT !.list.leaked = @ \/ (s.view.live /\ s.view.lost)]
       ELSE IF p \in Nodes
       THEN [s EXCEPT !.map =
               LET m == StopRequesting(@, p)
               IN IF p \in DOMAIN m
                  THEN [m EXCEPT ![p].leaked = @ \/ (s.view.live /\ s.view.lost)] ELSE m]
       ELSE s

\* What saveLocalValue keeps of a result.
SavedValue(src, is) == IF is = "data" THEN src ELSE is

\* The callback of startGettingData on page p, for one result: data reach
\* nodeSubject, or the filterer of the list, whose subscription does not
\* survive data that are no list.
Process(v, p, src, is) ==
    [v EXCEPT !.shown = IF is = "data" /\ ~(p = "list" /\ @ \in Nodes) THEN src ELSE @,
              !.notFound = @ \/ (is = "notfound" /\ p # "list")]

\* startGettingData: saved data are processed first, and the live subscription
\* is made inside that callback, before its own is stored; the subject replays
\* its last value.
StartGettingData(s, p) ==
    LET saved == Last(s.hist).saved
        old == IF saved = None THEN NewView
               ELSE Process([NewView EXCEPT !.lost = TRUE], p, saved,
                            IF saved \in {"notfound", "nothing"} THEN saved ELSE "data")
        last == IF p = "list" THEN s.list.last ELSE s.map[p].last
    IN [s EXCEPT !.view = IF old.notFound THEN old
                          ELSE Process([old EXCEPT !.live = TRUE], p, p, last),
                 !.hist[Len(s.hist)].saved = IF old.notFound THEN @ ELSE SavedValue(p, last)]

\* The constructor and ngOnInit of the page on top of the history.
Enter(s) ==
    LET p == Last(s.hist).page
    IN CASE p = "list" -> StartGettingData([s EXCEPT !.list = StartList(@)], p)
         [] p \in Nodes -> StartGettingData([s EXCEPT !.map = StartRequesting(@, p)], p)
         [] p = "login" -> [s EXCEPT !.list = StopList(@), !.view = NewView]
         [] p = "settings" -> [s EXCEPT !.view = NewView]

EntryOf(p) == [page |-> p, saved |-> None]
Push(s, p) == Enter([Leave(s) EXCEPT !.hist = Append(@, EntryOf(p))])
Replace(s, p) == Enter([Leave(s) EXCEPT !.hist = Append(Front(@), EntryOf(p))])
Pop(s) == Enter([Leave(s) EXCEPT !.hist = Front(@)])

\* A navigation to the page on screen is ignored by the router.
ToLogin(s) == IF Last(s.hist).page = "login" THEN s ELSE Replace(s, "login")

-----------------------------------------------------------------------------
Init ==
    /\ hist = <<EntryOf("login")>> /\ view = NewView
    /\ nodesMap = <<>> /\ list = NewListData
    /\ session = FALSE /\ forceFail = FALSE /\ faults = 0

Fault == faults < MaxFaults /\ faults' = faults + 1
Calm == UNCHANGED <<session, forceFail, faults>>

\* A link of the pages; checkIfCanActivate sends to the login page.
Navigate(p) ==
    /\ Page # "login" /\ p # "login" /\ (p = Page => p \in Nodes)
    /\ Len(hist) < MaxHistory
    /\ Put(IF forceFail THEN ToLogin(State) ELSE Push(State, p))
    /\ Calm

\* The back button.
Back ==
    /\ Len(hist) > 1
    /\ LET e == hist[Len(hist) - 1].page
       IN Put(IF e = "login" \/ ~forceFail THEN Pop(State)
              ELSE ToLogin([Leave(State) EXCEPT !.hist = Append(Front(Front(@)), Cur)]))
    /\ Calm

\* The app is loaded again: the services are new, the history stays.
Reload ==
    /\ Reloads /\ Fault
    /\ Put(Enter([hist |-> hist, view |-> NewView, map |-> <<>>, list |-> NewListData]))
    /\ forceFail' = FALSE
    /\ UNCHANGED session

\* The login form: login and onLoginSuccess.
Login ==
    /\ Page = "login"
    /\ session' = TRUE /\ forceFail' = FALSE
    /\ Put(Replace(State, "list"))
    /\ UNCHANGED faults

\* checkLogin of the login page, when a session is still valid; the guard has
\* its word.
CheckLogin ==
    /\ Page = "login" /\ session
    /\ Put(IF forceFail THEN State ELSE Replace(State, "list"))
    /\ Calm

\* checkLogin of the list and the settings, which only sets forceFail.
CheckLoginFails ==
    /\ Page \in {"list", "settings"} /\ ~session
    /\ forceFail' = TRUE
    /\ UNCHANGED <<hist, view, nodesMap, list, session, faults>>

Logout ==
    /\ Page \in {"list", "settings"} /\ session /\ Len(hist) < MaxHistory
    /\ session' = FALSE /\ forceFail' = TRUE
    /\ Put(Push(State, "login"))
    /\ UNCHANGED faults

\* The session ends, or the user logs in or out in another tab.
SessionChanges ==
    /\ Fault
    /\ session' = ~session
    /\ UNCHANGED <<hist, view, nodesMap, list, forceFail>>

-----------------------------------------------------------------------------
(* Emissions: the page on screen, if it listens, and the pages that are gone
   but still subscribed run the same callback. *)

ReadsKey(p) == p \in Nodes \union {"list"}

\* saveLocalValue writes in the entry on screen whoever calls it; the list and
\* the pages of visors use one key.  The data of a visor go to the subject of
\* the visor page on screen; without one the callback throws, which ends its
\* subscription.  The page of the list keeps its data to itself.
Emit(s, src, is) ==
    LET p == Last(s.hist).page
        own == p = src /\ s.view.live
        leaked == IF src = "list" THEN s.list.leaked ELSE s.map[src].leaked
        toSubject == leaked /\ src # "list" /\ is = "data"
    IN [s EXCEPT
          !.hist[Len(s.hist)].saved =
              IF (own \/ leaked) /\ ReadsKey(p) THEN SavedValue(src, is) ELSE @,
          !.view = IF own \/ (toSubject /\ p \in Nodes) THEN Process(@, p, src, is) ELSE @,
          !.map = IF toSubject /\ p \notin Nodes THEN [@ EXCEPT ![src].leaked = FALSE] ELSE @]

EmitNode(s, k, is, loop) ==
    Emit([s EXCEPT !.map[k].last = is, !.map[k].loop = loop], k, is)
EmitList(s, is, loop) ==
    Emit([s EXCEPT !.list.last = is, !.list.loop = loop], "list", is)

\* startDataSubscription and getData: the delay is over.
AskNode(k) ==
    /\ k \in DOMAIN nodesMap /\ nodesMap[k].loop = "wait"
    /\ Put(EmitNode(State, k, "nothing", "asked"))
    /\ Calm

AskList ==
    /\ list.loop = "wait"
    /\ Put(EmitList(State, "nothing", "asked"))
    /\ Calm

Asked(k) == k \in DOMAIN nodesMap /\ nodesMap[k].loop = "asked"

\* The error callback of startDataSubscription for a visor that is not known:
\* the error is emitted, the subject completes, the entry is removed.
NodeNotFound(k) ==
    /\ Asked(k) /\ session /\ k \notin Known
    /\ LET s == EmitNode(State, k, "notfound", "asked")
       IN Put([s EXCEPT !.map = Forget(@, k),
                        !.view.live = @ /\ Last(s.hist).page # k])
    /\ Calm

\* Its success callback.
NodeAnswered(k) ==
    /\ Asked(k) /\ session /\ k \in Known
    /\ Put(EmitNode(State, k, "data", "wait"))
    /\ Calm

\* Mutant: an error ends the loop.
NodeFailedOnce(k) ==
    /\ Asked(k) /\ session /\ Fault
    /\ Put(EmitNode(State, k, "nothing", "off"))
    /\ UNCHANGED <<session, forceFail>>

\* Its error callback, after connectionRetryDelay.
NodeFailed(k) ==
    /\ Asked(k) /\ session /\ Fault
    /\ Put(EmitNode(State, k, "nothing", "wait"))
    /\ UNCHANGED <<session, forceFail>>

ListAnswered ==
    /\ list.loop = "asked" /\ session
    /\ Put(EmitList(State, "data", "wait"))
    /\ Calm

ListFailed ==
    /\ list.loop = "asked" /\ session /\ Fault
    /\ Put(EmitList(State, "nothing", "wait"))
    /\ UNCHANGED <<session, forceFail>>

\* Mutant: the answer 401 is an error like any other.
DeniedIgnored(s) == s

\* errorHandler of the API service: the status 401 leads to the login page,
\* which is made after the error callbacks have run.
Denied(s) == ToLogin(s)

ListDenied ==
    /\ list.loop = "asked" /\ ~session
    /\ \E s \in {EmitList(State, "nothing", "wait")} : Put(Denied(s))
    /\ Calm

NodeDenied(k) ==
    /\ Asked(k) /\ ~session
    /\ \E s \in {EmitNode(State, k, "nothing", "wait")} : Put(Denied(s))
    /\ Calm

\* checkForExpired and finishIfExpired: the subject completes.
Expire(k) ==
    /\ k \in DOMAIN nodesMap /\ nodesMap[k].stopped
    /\ nodesMap' = Forget(nodesMap, k)
    /\ UNCHANGED <<hist, view, list>> /\ Calm

\* forceDataRefresh of the pages, by the user or after an operation: a
\* request under way is dropped.
ForceDataRefresh ==
    /\ Page \in Nodes \union {"list"} /\ Fault
    /\ nodesMap' = IF Page \in DOMAIN nodesMap THEN [nodesMap EXCEPT ![Page].loop = "wait"]
                   ELSE nodesMap
    /\ list' = IF Page = "list" THEN [list EXCEPT !.loop = "wait"] ELSE list
    /\ UNCHANGED <<hist, view, session, forceFail>>

\* The refresh rate is changed: setRefreshTime, heard by both services.
SetRefreshTime ==
    /\ Page = "settings" /\ Fault
    /\ nodesMap' = [k \in DOMAIN nodesMap |-> [nodesMap[k] EXCEPT !.loop = "wait"]]
    /\ list' = [list EXCEPT !.loop = "wait"]
    /\ UNCHANGED <<hist, view, session, forceFail>>

\* The two loops, up to the next data or error.
PollList == AskList \/ ListAnswered \/ ListDenied
PollNode(k) == AskNode(k) \/ NodeAnswered(k) \/ NodeNotFound(k) \/ NodeDenied(k)

User ==
    \/ Back \/ Reload \/ Login \/ Logout \/ ForceDataRefresh \/ SetRefreshTime
    \/ \E p \in Pages : Navigate(p)
Checks == CheckLogin \/ CheckLoginFails
Faults == ListFailed \/ SessionChanges \/ \E k \in Nodes : NodeFailed(k)

Next ==
    \/ PollList \/ User \/ Checks \/ Faults
    \/ \E k \in Nodes : PollNode(k) \/ Expire(k)

\* The timers fire and the requests end; the user owes nothing.
Fairness ==
    /\ WF_vars(PollList)
    /\ \A k \in Nodes : WF_vars(PollNode(k)) /\ WF_vars(Expire(k))

Spec == Init /\ [][Next]_vars /\ Fairness

-----------------------------------------------------------------------------
(* Properties *)

\* The history, the page, the two services and the session keep their types.
TypeOK ==
    /\ Len(hist) \in 1..MaxHistory
    /\ \A i \in 1..Len(hist) : hist[i] \in [page : Pages, saved : Saved]
    /\ view \in [shown : Nodes \union {"list", None}, notFound : BOOLEAN, live : BOOLEAN,
                 lost : BOOLEAN]
    /\ DOMAIN nodesMap \subseteq Nodes
    /\ \A k \in DOMAIN nodesMap :
          nodesMap[k] \in [loop : {"off", "wait", "asked"}, last : {"data", "nothing"},
                           stopped : BOOLEAN, leaked : BOOLEAN]
    /\ list \in [loop : {"off", "wait", "asked"}, last : {"data", "nothing"}, leaked : BOOLEAN]
    /\ session \in BOOLEAN /\ forceFail \in BOOLEAN /\ faults \in 0..MaxFaults

\* The data behind the page on screen are being polled: its entry is in the
\* cache, and no stop request of an earlier page of the same visor is left to
\* expire under it (startRequestingData, finishIfExpired).
ShownIsPolled ==
    /\ Page \in Nodes /\ ~view.notFound =>
         /\ view.live /\ Page \in DOMAIN nodesMap /\ ~nodesMap[Page].stopped
    /\ Page = "list" => view.live /\ list.loop \in {"wait", "asked"}

\* No visor is polled for ever after its page was left (stopRequestingData,
\* checkForExpired).
LeftIsForgotten ==
    \A k \in Nodes : k \in DOMAIN nodesMap /\ Page # k ~> k \notin DOMAIN nodesMap \/ Page = k

\* A page of a visor that stays on screen gets data, whatever failed before,
\* learns that the visor is not known, or gives way to the login page.
DataArrive ==
    \A k \in Nodes : Page = k ~> Page # k \/ view.shown = k \/ view.notFound

\* A session that is lost is noticed: the list and the pages of visors give
\* way to the login page (errorHandler of the API service).
LostSessionNoticed ==
    ~session /\ Page \in Nodes \union {"list"}
        ~> session \/ Page \notin Nodes \union {"list"} \/ view.notFound

\* Whatever happens in between, a page ends with what it is for.
PagesSettle == DataArrive /\ LostSessionNoticed

\* "Gets the lastest node data downloaded by the currently active instance of
\* this page": what the sub-pages get is the data of the visor on screen.
CurrentNodeIsOwn == Page \in Nodes => view.shown \in {Page, None}
=============================================================================
