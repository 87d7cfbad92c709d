------------------------------ MODULE VpnClient ------------------------------
(***************************************************************************)
(* The VPN client of the manager UI, in one browser tab: the service that  *)
(* polls and drives the vpn-client app of the local visor                  *)
(* (services/vpn-client.service.ts), the pages that use it (vpn-status,    *)
(* vpn-server-list, vpn-settings, vpn-error), the dialogs of vpn-helpers   *)
(* and the top bar that initialises the service.                           *)
(*                                                                         *)
(* JavaScript runs one callback at a time, so a callback is one action.    *)
(* What interleaves are the answers of the visor, the timers, the user and *)
(* whoever else changes the app in the visor.  The fields of the service   *)
(* and of the page are the fields of one record, ui, and each method is an *)
(* operator on that record: a callback is the composition of the methods   *)
(* it calls, in their order.                                               *)
(***************************************************************************)
EXTENDS Naturals, FiniteSets

CONSTANTS
    Servers,          \* public keys of VPN servers
    None,             \* no server
    FaultyOps,        \* requests the backend may fail: "poll", "start", "stop", "change"
    InitialRetries,   \* retries of the initial check (4 in the code)
    OpRetries,        \* retries of a start or a stop (3 in the code)
    MaxDisturbances   \* bound on user actions, faults and outside changes

VARIABLES
    app,        \* the vpn-client app of the visor: status code, pk of its server
    ui,         \* the service and the page shown, see Fresh
    cur,        \* currentServer of the saved data (kept in local storage)
    blocked,    \* servers flagged as blocked (kept in local storage)
    dialog,     \* confirmation window on the screen
    setting,    \* the settings page waits for the answer of its own request
    count       \* disturbances so far

vars == <<app, ui, cur, blocked, dialog, setting, count>>

\* VpnServiceStates: the code compares the numbers (< 20, < 200).
PerformingInitialCheck == 1
Off == 10
Starting == 20
Running == 100
Disconnecting == 200

\* The app as the visor reports it (0 stopped, 1 running, 2 failed) and as the
\* service shows it.
VisorApp == [status : {0, 1, 2}, pk : Servers \union {None}]
AppData == [running : BOOLEAN, pk : Servers \union {None}]

\* processAppData: every status but 0 and 2 is running, an absent one too.
ProcessAppData(answer) ==
    [running |-> answer.status \notin {0, 2}, pk |-> answer.pk]

\* What processAppData finds in the value true: an undefined status, no arguments.
Undefined == 9
TrueAnswer == [status |-> Undefined, pk |-> None]

NoData == [running |-> FALSE, pk |-> None]
NoEvent == [state |-> PerformingInitialCheck, busy |-> TRUE, app |-> NoData]
NoDialog == [kind |-> "none", server |-> None]
VpnPages == {"status", "servers", "settings"}

NoPoll == [at |-> "none", tries |-> 0, data |-> NoData]
NoOp == [kind |-> "none", at |-> "none", tries |-> 0, data |-> NoData]
NewView == [loading |-> TRUE, started |-> FALSE, busy |-> FALSE, stopRequested |-> FALSE]

\* The fields of a service and a status page that were just created.
Fresh == [key |-> FALSE, state |-> PerformingInitialCheck, working |-> TRUE,
          requested |-> None, updatesStopped |-> FALSE, poll |-> NoPoll, op |-> NoOp,
          event |-> NoEvent, page |-> "status", view |-> NewView]

-----------------------------------------------------------------------------
(* The status page and the methods of the service, as operators on ui. *)

\* startGettingData: what the status page does with an event.  A requested
\* stop keeps the page busy until an event says that the app is stopped.
ShowEvent(v, e) ==
    IF e.state = PerformingInitialCheck THEN v
    ELSE [loading |-> FALSE,
          started |-> e.app.running,
          busy |-> IF v.stopRequested /\ e.app.running THEN v.busy ELSE e.busy,
          stopRequested |-> v.stopRequested /\ e.app.running]

\* sendUpdate, after the app data shown became a.
SendUpdate(u, a) ==
    LET e == [state |-> u.state, busy |-> u.working, app |-> a]
    IN [u EXCEPT !.event = e,
                 !.view = IF u.page = "status" THEN ShowEvent(@, e) ELSE @]

\* Mutant: the poll goes on.
StopPollingNever(u) == u

\* stopContinuallyUpdatingData: an answer under way is dropped with it.
StopPolling(u) == [u EXCEPT !.poll = NoPoll]

\* continuallyUpdateData: refused while busy, except during the initial check.
UpdateData(u) ==
    IF u.working /\ u.state # PerformingInitialCheck THEN u
    ELSE [u EXCEPT !.poll = [NoPoll EXCEPT !.at = "waiting"]]

\* changeAppState: the event sent still carries the old state.
ChangeAppState(u, kind) ==
    IF u.working THEN u
    ELSE LET busy == SendUpdate([StopPolling(u) EXCEPT !.working = TRUE], u.event.app)
         IN [busy EXCEPT !.state = IF kind = "start" THEN Starting ELSE Disconnecting,
                         !.op = [NoOp EXCEPT !.kind = kind, !.at = "sent"]]

CanStart(u) == ~u.working /\ u.state < 20
CanStop(u) == ~u.working /\ u.state >= 20 /\ u.state < 200
Start(u) == IF CanStart(u) THEN ChangeAppState(u, "start") ELSE u
Stop(u) == IF CanStop(u) THEN ChangeAppState(u, "stop") ELSE u

\* processServerChange of the service: sends the new server to the visor.
SendServerChange(u) ==
    LET busy == SendUpdate([StopPolling(u) EXCEPT !.working = TRUE], u.event.app)
    IN [busy EXCEPT !.op = [NoOp EXCEPT !.kind = "change", !.at = "sent"]]

\* changeServerUsingHistory, ...UsingDiscovery, changeServerManually and
\* changeServer: the request is stored before the busy check.
ChangeServer(u, s) ==
    LET asked == [u EXCEPT !.requested = s]
    IN CASE asked.working  -> asked
         [] CanStop(asked) -> Stop(asked)
         [] OTHER          -> SendServerChange(asked)

\* Mutant: a service that was initialised once stays as it is.
InitializeOnce(u) == IF ~u.key THEN UpdateData([u EXCEPT !.key = TRUE]) ELSE u

\* initialize, called by the top bar of every VPN page.
Initialize(u) ==
    IF ~u.key \/ u.updatesStopped
    THEN UpdateData([u EXCEPT !.key = TRUE, !.updatesStopped = FALSE])
    ELSE u

\* Navigation to a VPN page: the guard keeps the error page once it was
\* shown; a new status page first sees the last event.
GoTo(u, p) ==
    IF u.page = "error" THEN u
    ELSE Initialize([u EXCEPT !.page = p,
                              !.view = IF p = "status" THEN ShowEvent(NewView, u.event)
                                                       ELSE NewView])

\* Navigation to vpn/unavailable: the error page stops the updates.
GoToError(u) == StopPolling([u EXCEPT !.page = "error", !.view = NewView])
GoToLogin(u) == [u EXCEPT !.page = IF @ = "error" THEN @ ELSE "login", !.view = NewView]

\* checkNewPk
CheckNewPk(u, s) ==
    CASE u.working -> "Busy"
      [] ~u.working /\ u.state # Off -> IF s = cur THEN "SamePkRunning" ELSE "MustStop"
      [] OTHER -> IF s = cur THEN "SamePkStopped" ELSE "Ok"

-----------------------------------------------------------------------------
Init ==
    /\ app \in {a \in VisorApp : a.status = 1 => a.pk # None}
    /\ ui = Initialize(Fresh)
    /\ cur = None /\ blocked = {}
    /\ dialog = NoDialog /\ setting = FALSE
    /\ count = 0

\* A user action, a fault or an outside change: at most MaxDisturbances.
Disturb == count < MaxDisturbances /\ count' = count + 1
May(kind) == kind \in FaultyOps /\ Disturb

(* The poll: a timer, the visor reading its state, and the callbacks. *)

PollAsk ==
    /\ ui.poll.at = "waiting"
    /\ ui' = [ui EXCEPT !.poll.at = "asked"]
    /\ UNCHANGED <<app, cur, blocked, dialog, setting, count>>

\* getVpnClientState: the state of the app as the visor answers it.
PollServe ==
    /\ ui.poll.at = "asked"
    /\ \/ /\ ui' = [ui EXCEPT !.poll.at = "answered", !.poll.data = ProcessAppData(app)]
          /\ UNCHANGED count
       \/ /\ May("poll")
          /\ \E bad \in {"failed", "denied"} : ui' = [ui EXCEPT !.poll.at = bad]
    /\ UNCHANGED <<app, cur, blocked, dialog, setting>>

\* Mutant: only a missing selection is filled in.
CompareCurrentServerOnce(pk) == cur' = IF cur = None THEN pk ELSE cur

\* compareCurrentServer: the server of the visor becomes the selected one, none included.
CompareCurrentServer(pk) == cur' = pk

\* The subscriber: ends the initial check, shows the answer and polls again.
PollAnswer ==
    /\ ui.poll.at = "answered"
    /\ CompareCurrentServer(ui.poll.data.pk)
    /\ LET a == ui.poll.data
           u == [ui EXCEPT !.working = IF ui.state = PerformingInitialCheck THEN FALSE ELSE @,
                           !.state = IF a.running THEN Running ELSE Off]
       IN ui' = UpdateData(SendUpdate(u, a))
    /\ UNCHANGED <<app, blocked, dialog, setting, count>>

\* Mutant: one retry too many in the initial check.
PollFailedLate ==
    /\ ui.poll.at = "failed"
    /\ ui' = IF ui.state # PerformingInitialCheck
             THEN [ui EXCEPT !.poll.at = "waiting"]
             ELSE IF ui.poll.tries <= InitialRetries
             THEN [ui EXCEPT !.poll.at = "waiting", !.poll.tries = @ + 1]
             ELSE GoToError([ui EXCEPT !.key = FALSE, !.updatesStopped = TRUE])
    /\ UNCHANGED <<app, cur, blocked, dialog, setting, count>>

\* retryWhen: for ever, or InitialRetries times in the initial check, after
\* which the error page ends the session.
PollFailed ==
    /\ ui.poll.at = "failed"
    /\ ui' = IF ui.state # PerformingInitialCheck
             THEN [ui EXCEPT !.poll.at = "waiting"]
             ELSE IF ui.poll.tries < InitialRetries
             THEN [ui EXCEPT !.poll.at = "waiting", !.poll.tries = @ + 1]
             ELSE GoToError([ui EXCEPT !.key = FALSE, !.updatesStopped = TRUE])
    /\ UNCHANGED <<app, cur, blocked, dialog, setting, count>>

\* 401: the API service goes to the login page and the updates stop.
PollDenied ==
    /\ ui.poll.at = "denied"
    /\ ui' = GoToLogin([StopPolling(ui) EXCEPT !.updatesStopped = TRUE])
    /\ setting' = FALSE
    /\ UNCHANGED <<app, cur, blocked, dialog, count>>

-----------------------------------------------------------------------------
(* An operation under way: start, stop or change of server. *)

\* The visor's handler of PUT visors/.../apps/vpn-client, as the UI uses it.
Effect ==
    CASE ui.op.kind = "start"  -> [app EXCEPT !.status = 1]
      [] ui.op.kind = "stop"   -> [app EXCEPT !.status = 0]
      [] ui.op.kind = "change" -> [app EXCEPT !.pk = ui.requested]

\* The request is served, or lost, or served and its answer lost, or denied.
OpServe ==
    /\ ui.op.at = "sent"
    /\ \/ /\ app' = Effect
          /\ ui' = [ui EXCEPT !.op.at = "answered", !.op.data = ProcessAppData(app')]
          /\ UNCHANGED <<setting, count>>
       \/ /\ May(ui.op.kind)
          /\ app' \in {app, Effect}
          /\ ui' = [ui EXCEPT !.op.at = "failed"]
          /\ UNCHANGED setting
       \/ /\ May(ui.op.kind)
          /\ ui' = GoToLogin([ui EXCEPT !.op.at = "failed"])
          /\ setting' = FALSE
          /\ UNCHANGED app
    /\ UNCHANGED <<cur, blocked, dialog>>

\* The success callback of changeAppState, given the app data that
\* processAppData makes of the answer.
AppStateChanged(u, a) ==
    LET shown == SendUpdate([u EXCEPT !.working = FALSE, !.op = NoOp,
                                      !.state = IF a.running THEN Running ELSE Off], a)
    IN IF u.op.kind = "stop" /\ u.requested # None
       THEN SendServerChange(UpdateData(shown))
       ELSE UpdateData(shown)

\* The error callback of changeAppState: neither the state nor the
\* requested server are reset.
AppStateFailed(u) ==
    UpdateData(SendUpdate([u EXCEPT !.working = FALSE, !.op = NoOp], u.event.app))

AppStateAnswer ==
    /\ ui.op.at = "answered" /\ ui.op.kind \in {"start", "stop"}
    /\ ui' = AppStateChanged(ui, ui.op.data)
    /\ UNCHANGED <<app, cur, blocked, dialog, setting, count>>

\* catchError and retryWhen of changeAppState: the state of the visor says
\* whether a failed request was carried out.  If so the answer is replaced by
\* the value true, which processAppData takes for the data of an app.
AppStateRecheck ==
    /\ ui.op.at = "failed" /\ ui.op.kind \in {"start", "stop"}
    /\ \/ /\ ProcessAppData(app).running = (ui.op.kind = "start")
          /\ ui' = AppStateChanged(ui, ProcessAppData(TrueAnswer))
          /\ UNCHANGED count
       \/ /\ \/ /\ ProcessAppData(app).running # (ui.op.kind = "start")
                /\ UNCHANGED count
             \/ May(ui.op.kind)
          /\ ui' = IF ui.op.tries < OpRetries
                   THEN [ui EXCEPT !.op.at = "sent", !.op.tries = @ + 1]
                   ELSE AppStateFailed(ui)
    /\ UNCHANGED <<app, cur, blocked, dialog, setting>>

\* processServerChange of the service: modifyCurrentServer, then the VPN starts.
ServerChangeAnswer ==
    /\ ui.op.at = "answered" /\ ui.op.kind = "change"
    /\ cur' = ui.requested
    /\ ui' = Start([ui EXCEPT !.requested = None, !.working = FALSE, !.op = NoOp])
    /\ UNCHANGED <<app, blocked, dialog, setting, count>>

\* Mutant: the error callback keeps the requested server.
ServerChangeFailedKeeps ==
    /\ ui.op.at = "failed" /\ ui.op.kind = "change"
    /\ ui' = UpdateData(SendUpdate([ui EXCEPT !.working = FALSE, !.op = NoOp], ui.event.app))
    /\ UNCHANGED <<app, cur, blocked, dialog, setting, count>>

ServerChangeFailed ==
    /\ ui.op.at = "failed" /\ ui.op.kind = "change"
    /\ LET u == [ui EXCEPT !.requested = None, !.working = FALSE, !.op = NoOp]
       IN ui' = UpdateData(SendUpdate(u, ui.event.app))
    /\ UNCHANGED <<app, cur, blocked, dialog, setting, count>>

-----------------------------------------------------------------------------
(* The user. *)

\* The tabs of the top bar; a page left drops the answer it waits for.
Navigate ==
    /\ ui.page \in VpnPages /\ dialog = NoDialog
    /\ \E p \in VpnPages \ {ui.page} : ui' = GoTo(ui, p)
    /\ setting' = FALSE
    /\ UNCHANGED <<app, cur, blocked, dialog, count>>

\* The URL names another visor.
OtherVisor ==
    /\ ui.page \in VpnPages /\ dialog = NoDialog /\ Disturb
    /\ ui' = GoToError(ui)
    /\ setting' = FALSE
    /\ UNCHANGED <<app, cur, blocked, dialog>>

Login ==
    /\ ui.page = "login" /\ dialog = NoDialog
    /\ ui' = GoTo(ui, "status")
    /\ UNCHANGED <<app, cur, blocked, dialog, setting, count>>

\* F5: a new service; the request under way is served or dropped; the status
\* page first shows the event it had saved in the history of the browser.
Reload ==
    /\ Disturb
    /\ app' \in {app} \union (IF ui.op.at = "sent" THEN {Effect} ELSE {})
    /\ ui' = [Initialize(Fresh) EXCEPT
                !.page = IF ui.page \in VpnPages THEN ui.page ELSE "status",
                !.view = IF ui.page = "status" THEN ShowEvent(NewView, ui.event) ELSE NewView]
    /\ dialog' = NoDialog /\ setting' = FALSE
    /\ UNCHANGED <<cur, blocked>>

OnPage(p) == ui.page = p /\ dialog = NoDialog /\ Disturb

\* start of the status page
ClickStart ==
    /\ OnPage("status") /\ ~ui.view.loading /\ ~ui.view.started /\ ~ui.view.busy
    /\ ui' = IF cur = None THEN GoTo(ui, "servers")
             ELSE IF cur \in blocked THEN ui
             ELSE Start([ui EXCEPT !.view.busy = TRUE])
    /\ UNCHANGED <<app, cur, blocked, dialog, setting>>

FinishStoppingVpn(u) ==
    Stop([u EXCEPT !.view = IF u.page = "status"
                            THEN [@ EXCEPT !.stopRequested = TRUE, !.busy = TRUE] ELSE @])

\* stop of the status page; the killswitch option asks for a confirmation.
ClickStop ==
    /\ OnPage("status") /\ ~ui.view.loading /\ ui.view.started /\ ~ui.view.busy
    /\ \/ ui' = FinishStoppingVpn(ui) /\ UNCHANGED dialog
       \/ dialog' = [kind |-> "stop", server |-> None] /\ UNCHANGED ui
    /\ UNCHANGED <<app, cur, blocked, setting>>

\* processServerChange of vpn-helpers, pw: the password may have been changed.
ProcessServerChange(s, pw) ==
    LET r == CheckNewPk(ui, s)
    IN \/ /\ r = "MustStop" \/ (r = "SamePkRunning" /\ pw)
          /\ dialog' = [kind |-> "change", server |-> s] /\ UNCHANGED ui
       \/ /\ r = "SamePkStopped" /\ ~pw
          /\ dialog' = [kind |-> "start", server |-> s] /\ UNCHANGED ui
       \/ /\ r = "Ok" \/ (r = "SamePkStopped" /\ pw)
          /\ ui' = GoTo(ChangeServer(ui, s), "status") /\ UNCHANGED dialog

\* selectServer of the server list, for the server that is selected already.
SelectSameServer(s) ==
    /\ OnPage("servers") /\ ui.event # NoEvent /\ s = cur /\ s \notin blocked
    /\ ~ui.event.app.running
    /\ dialog' = [kind |-> "start", server |-> s]
    /\ UNCHANGED <<app, ui, cur, blocked, setting>>

\* Another server of the list (not if it is blocked), or one typed by hand or
\* connected to from its options, which may come with a password.
SelectServer(s) ==
    /\ OnPage("servers") /\ ui.event # NoEvent
    /\ \E pw \in BOOLEAN : ProcessServerChange(s, pw)
    /\ UNCHANGED <<app, cur, blocked, setting>>

\* blockServer: the selected server is blocked after a confirmation.
BlockServer(s) ==
    /\ ui.page \in {"servers", "status"} /\ OnPage(ui.page) /\ s \notin blocked
    /\ IF s = cur
       THEN dialog' = [kind |-> "block", server |-> s] /\ UNCHANGED blocked
       ELSE blocked' = blocked \union {s} /\ UNCHANGED dialog
    /\ UNCHANGED <<app, ui, cur, setting>>

\* What the window asks for is done without checking the state again.
AcceptDialog ==
    /\ dialog # NoDialog
    /\ ui' = CASE dialog.kind = "stop"   -> FinishStoppingVpn(ui)
               [] dialog.kind = "change" -> GoTo(ChangeServer(ui, dialog.server), "status")
               [] dialog.kind = "start"  -> GoTo(Start(ui), "status")
               [] dialog.kind = "block"  -> Stop(ui)
    /\ blocked' = IF dialog.kind = "block" THEN blocked \union {dialog.server} ELSE blocked
    /\ dialog' = NoDialog
    /\ UNCHANGED <<app, cur, setting, count>>

CancelDialog ==
    /\ dialog # NoDialog
    /\ dialog' = NoDialog
    /\ UNCHANGED <<app, ui, cur, blocked, setting, count>>

\* changeKillswitchOption of the settings page, once it is confirmed.
ChangeSetting ==
    /\ OnPage("settings") /\ ui.event # NoEvent /\ ~setting
    /\ setting' = TRUE
    /\ UNCHANGED <<app, ui, cur, blocked, dialog>>

\* Its answer: updateData, or an error message only.
SettingAnswer ==
    /\ setting
    /\ ui' \in {UpdateData(ui), ui}
    /\ setting' = FALSE
    /\ UNCHANGED <<app, cur, blocked, dialog, count>>

\* The app ends, or another manager starts, stops or reconfigures it.
OutsideChange ==
    /\ Disturb
    /\ app' \in {[app EXCEPT !.status = 2]} \union [status : {0, 1}, pk : Servers]
    /\ app' # app
    /\ UNCHANGED <<ui, cur, blocked, dialog, setting>>

-----------------------------------------------------------------------------
Backend == OpServe \/ AppStateAnswer \/ AppStateRecheck \/ ServerChangeAnswer \/ ServerChangeFailed
Polling == PollAsk \/ PollServe \/ PollAnswer \/ PollFailed \/ PollDenied

Next ==
    \/ Polling \/ Backend
    \/ Navigate \/ OtherVisor \/ Login \/ Reload
    \/ ClickStart \/ ClickStop \/ AcceptDialog \/ CancelDialog
    \/ \E s \in Servers : SelectSameServer(s) \/ SelectServer(s) \/ BlockServer(s)
    \/ ChangeSetting \/ SettingAnswer
    \/ OutsideChange

\* Timers fire and requests end; the user, faults and the outside owe nothing.
Fairness == WF_vars(Polling) /\ WF_vars(Backend)

Spec == Init /\ [][Next]_vars /\ Fairness

-----------------------------------------------------------------------------
(* Properties *)

ViewType == [loading : BOOLEAN, started : BOOLEAN, busy : BOOLEAN, stopRequested : BOOLEAN]
States == {PerformingInitialCheck, Off, Starting, Running, Disconnecting}

\* The fields of the service, of the page and of the saved data keep their types.
TypeOK ==
    /\ app \in VisorApp /\ cur \in Servers \union {None} /\ blocked \subseteq Servers
    /\ ui.key \in BOOLEAN /\ ui.working \in BOOLEAN /\ ui.updatesStopped \in BOOLEAN
    /\ ui.state \in States /\ ui.requested \in Servers \union {None}
    /\ ui.poll \in [at : {"none", "waiting", "asked", "answered", "failed", "denied"},
                    tries : 0..InitialRetries, data : AppData]
    /\ ui.op \in [kind : {"none", "start", "stop", "change"}, tries : 0..OpRetries,
                  at : {"none", "sent", "answered", "failed"}, data : AppData]
    /\ ui.event \in [state : States, busy : BOOLEAN, app : AppData]
    /\ ui.page \in VpnPages \union {"error", "login"} /\ ui.view \in ViewType
    /\ dialog \in [kind : {"none", "stop", "change", "start", "block"},
                   server : Servers \union {None}]
    /\ setting \in BOOLEAN /\ count \in 0..MaxDisturbances

\* While an operation is under way no answer to an earlier poll can arrive:
\* it would put the state from before the operation over the one the
\* operation set (stopContinuallyUpdatingData in changeAppState and in
\* processServerChange).
NoPollDuringOperation ==
    ui.op.kind # "none" => ui.working /\ ui.poll.at = "none"

\* The service never falls silent: on a VPN page, unless it is busy with an
\* operation, the next update of the state is on its way
\* (updateData at the end of every callback, initialize after a login).
NeverSilent ==
    ui.page \in VpnPages /\ ui.op.kind = "none" => ui.poll.at # "none"

\* A server that is requested is connected to in the same operation or
\* forgotten: none is left over for a later stop of the user to switch to
\* (the callbacks of changeAppState and processServerChange).
NoForgottenRequest ==
    ui.requested # None => ui.op.kind \in {"stop", "change"}

\* Once the disturbances are over the pages show the state and the server of
\* the visor, and the service is not busy, whatever was lost on the way.
Converged ==
    ui.page \in VpnPages =>
        /\ ~ui.working /\ ui.event.app = ProcessAppData(app) /\ cur = app.pk
        /\ ui.state = (IF app.status = 1 THEN Running ELSE Off)
        /\ ui.page = "status" => /\ ui.view.started = (app.status = 1)
                                /\ (ui.view.busy => ui.view.stopRequested)

\* "Stops the VPN": when the user asks the service to stop the VPN and the
\* request is not part of a change of server, the service does not start it
\* again by itself.
StopMeansStop ==
    [][ClickStop /\ ui'.op.kind = "stop" => ui'.requested = None]_vars
=============================================================================
