----------------------------- MODULE FormDialogs -----------------------------
(***************************************************************************)
(* The modal windows with a form and a button: the settings of user apps,  *)
(* of the Skysocks and VPN servers and of Skychat, the rewards address,    *)
(* the minimum of hops, the DNS of the VPN, the two uses of the password   *)
(* form, and the creation of a transport, which takes up to three requests.*)
(* They share ButtonComponent.  A click resets the button before it calls  *)
(* the handler, and the template sets disabled each time the form becomes  *)
(* valid or invalid: also while a request runs, because what is typed with *)
(* the keyboard still reaches the form.                                    *)
(***************************************************************************)
EXTENDS Naturals, Sequences, FiniteSets

CONSTANTS
    Kinds,                       \* the windows
    Others,                      \* persistent transports the visor has at first
    MaxTyped,                    \* bound: changes of the form
    MaxRequests,                 \* bound: requests of the window
    None

AllKinds == {"userApp", "server", "chat", "rewards", "hops", "dns", "password", "account", "transport"}

VARIABLES
    form,                        \* the window
    visor                        \* what the visor or the hypervisor has (external)

vars == <<form, visor>>

\* A complete value, none, and one that is wrong or has a part missing; of
\* transports there are two complete ones.
Complete == {"a", "b"}
Values == Complete \cup {"", "part"}
Fields(k) == IF k = "transport" THEN Values ELSE Values \ {"b"}

\* The windows that refuse to save while operationSubscription is set.
BySubscription == {"rewards", "hops", "dns"}

\* The validators of each form: an address or an IP may be left empty, the
\* password of a server too; the rest is required, and a transport needs the
\* list of types.
AddressValid(f) == f.value # "part"
IpValid(f) == f.value # "part"
PasswordsMatch(f) == f.value # "part"
HopsValid(f) == f.value \in Complete
PortValid(f) == f.value \in Complete
NewPasswordValid(f) == f.value \in Complete
TransportValid(f) == f.value \in Complete /\ f.types

Valid(f) ==
    CASE f.kind = "userApp" -> TRUE
      [] f.kind = "rewards" -> AddressValid(f)
      [] f.kind = "dns" -> IpValid(f)
      [] f.kind = "server" -> PasswordsMatch(f)
      [] f.kind = "hops" -> HopsValid(f)
      [] f.kind = "chat" -> PortValid(f)
      [] f.kind = "transport" -> TransportValid(f)
      [] OTHER -> NewPasswordValid(f)

TypeOK ==
    /\ form.kind \in Kinds /\ form.value \in Fields(form.kind) /\ form.open \in BOOLEAN
    /\ form.button \in {"Normal", "Loading", "Error"} /\ form.disabled \in BOOLEAN
    /\ form.subscribed \in BOOLEAN /\ form.types \in BOOLEAN /\ form.persistent \in BOOLEAN
    /\ form.localhostOnly \in BOOLEAN /\ form.accepted \in BOOLEAN
    /\ form.confirming \in {"no", "save", "expose"} /\ form.typed \in 0 .. MaxTyped
    /\ form.told \in {"none", "error", "done", "only persistent"} /\ form.about \in Values \cup {"exposed"}
    /\ \A i \in DOMAIN form.requests :
           /\ form.requests[i].step \in {"save", "get", "put", "post"}
           /\ form.requests[i].state \in {"sent", "executed", "over"}
    /\ visor.saved \subseteq Values \cup {"exposed"}
    /\ visor.persistent \subseteq Others \cup Complete /\ visor.dropped \subseteq Others \cup Complete

-----------------------------------------------------------------------------
\* The [disabled] of the template is set when its value changes.
Bound(f, g) == IF Valid(f) = Valid(g) THEN g ELSE [g EXCEPT !.disabled = ~Valid(g)]

\* ngOnInit() of each window.  told is the last message, and about (history)
\* the value of the request that it is about.
NewForm(k, v, p) ==
    LET f == [kind |-> k, value |-> v, persistent |-> p, open |-> TRUE, button |-> "Normal", disabled |-> FALSE,
              subscribed |-> FALSE, types |-> FALSE, confirming |-> "no", requests |-> <<>>,
              localhostOnly |-> TRUE, accepted |-> FALSE,
              typed |-> 0, told |-> "none", about |-> ""]
    IN  [f EXCEPT !.disabled = ~Valid(f)]

\* A defect: the box is unmarked at once, and the question changes nothing.
UnmarkAtOnce(f) == [f EXCEPT !.localhostOnly = FALSE]

\* The box of Skychat is unmarked by the user, or by ngOnInit() if the app is
\* already exposed: it is marked again until the user accepts.
Unmark(f) == [f EXCEPT !.confirming = "expose"]

\* Some windows show the present value; persistent is a choice of the user.
\* saved is what requests have written, dropped (history) the transports that a
\* put of the list left out.
Init ==
    /\ \E k \in Kinds, v \in {"a", ""}, p, exposed \in BOOLEAN :
           /\ p => k = "transport"
           /\ v = "a" => k \in {"userApp", "chat", "rewards", "hops", "dns"}
           /\ exposed => k = "chat" /\ v = "a"
           /\ form = IF exposed THEN Unmark(NewForm(k, v, p)) ELSE NewForm(k, v, p)
    /\ visor = [saved |-> {}, persistent |-> Others, dropped |-> {}]

\* loadData() of CreateTransportComponent: asked again until it succeeds.
TypesLoaded ==
    /\ form.open /\ form.kind = "transport" /\ ~form.types
    /\ form' = Bound(form, [form EXCEPT !.types = TRUE])
    /\ UNCHANGED visor

UnmarkLocalhostOnly ==
    /\ form.open /\ form.kind = "chat" /\ form.confirming = "no" /\ form.localhostOnly /\ form.typed < MaxTyped
    /\ form' = [Unmark(form) EXCEPT !.typed = @ + 1]
    /\ UNCHANGED visor

Type(v) ==
    /\ form.open /\ form.confirming = "no" /\ form.typed < MaxTyped /\ v \in Fields(form.kind) \ {form.value}
    /\ form' = Bound(form, [form EXCEPT !.value = v, !.typed = @ + 1])
    /\ UNCHANGED visor

Live(r) == r.state # "over"

\* A request: its subscription takes the place of the one before.
Request(f, step, v, list) ==
    [f EXCEPT !.subscribed = TRUE,
              !.requests = Append(@, [step |-> step, value |-> v, list |-> list, state |-> "sent"])]

ShowLoading(f) == [f EXCEPT !.button = "Loading", !.disabled = TRUE, !.confirming = "no"]

Save(f, v) == Request(ShowLoading(f), "save", v, {})

Asking(f) == [f EXCEPT !.confirming = "save"]

\* continueSavingChanges() of the user apps: settings without a name are left out.
ContinueUserApp(f) == Save(f, IF f.value = "part" THEN "a" ELSE f.value)

\* continueSavingChanges() of the servers.
ContinueServer(f) == Save(f, f.value)

\* finishSaving(): an empty address is deleted.
FinishSaving(f) == Save(f, f.value)

\* saveChanges() of the user apps: it asks if a name is missing or there is no setting.
SaveUserApp(f) == IF f.value \in Complete THEN ContinueUserApp(f) ELSE Asking(f)

\* saveChanges() of the servers always asks.
SaveServer(f) == Asking(f)

\* saveChanges() of Skychat: the address says whether other machines may use it.
SaveChat(f) == Save(f, IF f.localhostOnly THEN f.value ELSE "exposed")

\* A defect: the handler does not look whether an operation is running.
StartSavingAgain(f) == IF f.value = "" THEN Asking(f) ELSE FinishSaving(f)

\* startSaving(): to delete the address must be confirmed.
StartSaving(f) == IF f.subscribed THEN f ELSE IF f.value = "" THEN Asking(f) ELSE FinishSaving(f)

SaveHops(f) == IF f.subscribed THEN f ELSE Save(f, f.value)

SaveDns(f) == IF f.subscribed THEN f ELSE Save(f, f.value)

\* changePassword(), also for the first password of the hypervisor.
ChangePassword(f) == Save(f, f.value)

\* create(): the list of persistent transports is read first, if it is needed.
Create(f) == Request(ShowLoading(f), IF f.persistent THEN "get" ELSE "post", f.value, {})

\* The handlers of the buttons.  They look at button.disabled, which is false
\* again after reset().
Handler(f) ==
    CASE f.kind = "userApp" -> SaveUserApp(f)
      [] f.kind = "server" -> SaveServer(f)
      [] f.kind = "chat" -> SaveChat(f)
      [] f.kind = "rewards" -> StartSaving(f)
      [] f.kind = "hops" -> SaveHops(f)
      [] f.kind = "dns" -> SaveDns(f)
      [] f.kind = "transport" -> Create(f)
      [] OTHER -> ChangePassword(f)

\* reset() of ButtonComponent.
Reset(f) == [f EXCEPT !.button = "Normal", !.disabled = FALSE]

\* click() of ButtonComponent: it is enabled only if the form is valid.
Click ==
    /\ form.open /\ form.confirming = "no" /\ ~form.disabled /\ Len(form.requests) < MaxRequests
    /\ Valid(form)
    /\ \E f \in {Reset(form)} : form' = Handler(f)
    /\ UNCHANGED visor

Confirm ==
    /\ form.confirming = "save"
    /\ form' = CASE form.kind = "userApp" -> ContinueUserApp(form)
                 [] form.kind = "server" -> ContinueServer(form)
                 [] OTHER -> FinishSaving(form)
    /\ UNCHANGED visor

\* The box is unmarked without a new event.
AcceptExposing ==
    /\ form.confirming = "expose"
    /\ form' = [form EXCEPT !.confirming = "no", !.localhostOnly = FALSE, !.accepted = TRUE]
    /\ UNCHANGED visor

Cancel ==
    /\ form.confirming # "no"
    /\ form' = [form EXCEPT !.confirming = "no"]
    /\ UNCHANGED visor

\* ngOnDestroy() ends the last subscription.
Destroyed(f) ==
    [f EXCEPT !.open = FALSE, !.confirming = "no",
              !.requests = [i \in DOMAIN @ |-> IF i = Len(@) THEN [@[i] EXCEPT !.state = "over"] ELSE @[i]]]

\* disableDismiss; the window of the DNS does not use it, and the password form
\* is part of a page that may be left.
Dismiss ==
    /\ form.open /\ form.confirming = "no"
    /\ form.button # "Loading" \/ form.kind \in {"dns", "password"}
    /\ form' = Destroyed(form)
    /\ UNCHANGED visor

-----------------------------------------------------------------------------
\* The visor executes the request (external).
Execute(i) ==
    /\ form.requests[i].state = "sent"
    /\ form' = [form EXCEPT !.requests[i].state = "executed",
                            !.requests[i].list = IF form.requests[i].step = "get" THEN visor.persistent ELSE @]
    /\ visor' = CASE form.requests[i].step \in {"save", "post"} ->
                       [visor EXCEPT !.saved = @ \cup {form.requests[i].value}]
                  [] form.requests[i].step = "put" ->
                       [visor EXCEPT !.persistent = form.requests[i].list,
                                     !.dropped = @ \cup (visor.persistent \ form.requests[i].list)]
                  [] OTHER -> visor

Over(f, i) == [f EXCEPT !.requests[i].state = "over"]

\* A defect: the list is made of the new transport alone.
CreatePersistentAlone(f, r) == Request(f, "put", r.value, {r.value})

\* createPersistent() sends the list that was read and the new transport.  If
\* create() ran a second time meanwhile, the list may be older than the put of
\* the other creation.
CreatePersistent(f, r) == Request(f, "put", r.value, r.list \cup {r.value})

\* A defect: the transport is created from what the form has by now.
NextStepOfForm(f, r) ==
    IF r.step = "get" /\ r.value \notin r.list THEN CreatePersistent(f, r) ELSE Request(f, "post", f.value, {})

\* createTransport() follows, or comes at once if the transport was in the list.
NextStep(f, r) ==
    IF r.step = "get" /\ r.value \notin r.list THEN CreatePersistent(f, r) ELSE Request(f, "post", r.value, {})

Tell(f, what, v) == [f EXCEPT !.told = what, !.about = v]

\* onSuccess() closes the window.
Succeeded(i) ==
    /\ form.requests[i].state = "executed"
    /\ form' = IF form.requests[i].step \in {"get", "put"} THEN NextStep(Over(form, i), form.requests[i])
               ELSE Tell(Destroyed(Over(form, i)), "done", form.requests[i].value)
    /\ UNCHANGED visor

\* A defect: the button keeps showing that the request is running.
ShowErrorNot(f) == [f EXCEPT !.told = "error", !.subscribed = FALSE]

\* onError(): showError() of the button, and the windows that look at
\* operationSubscription clear it.
ShowError(f) == [f EXCEPT !.button = "Error", !.disabled = FALSE, !.told = "error", !.subscribed = FALSE]

\* A defect: every failed creation is taken for one after the persistent list was saved.
AfterPersistentAlways(f, i) == f.requests[i].step = "post"

\* creatingAfterPersistent.
AfterPersistent(f, i) == f.requests[i].step = "post" /\ f.persistent

\* The request, or its answer, is lost.
RequestFailed(i) ==
    /\ Live(form.requests[i])
    /\ form' = IF AfterPersistent(form, i)
               THEN Tell(Destroyed(Over(form, i)), "only persistent", form.requests[i].value)
               ELSE ShowError(Over(form, i))
    /\ UNCHANGED visor

Answered == \E i \in DOMAIN form.requests : Execute(i) \/ Succeeded(i) \/ RequestFailed(i)

Next ==
    \/ TypesLoaded
    \/ \E v \in Values : Type(v)
    \/ UnmarkLocalhostOnly \/ Click \/ Confirm \/ AcceptExposing \/ Cancel \/ Dismiss
    \/ Answered

-----------------------------------------------------------------------------
(***************************************************************************)
(* Properties                                                              *)
(***************************************************************************)
\* The windows that look at operationSubscription never have two requests
\* running, although what is typed meanwhile can enable their button again
\* (startSaving(), save()).
OneRequest ==
    form.kind \in BySubscription =>
        Cardinality({i \in DOMAIN form.requests : Live(form.requests[i])}) <= 1

ToldPersistent ==
    form.told = "only persistent" \/ (form.told = "done" /\ form.kind = "transport" /\ form.persistent)

\* What the user is told when a window closes is true of the request that was
\* answered and not of a later state of the form: after a success its value was
\* saved, and after a success with a persistent transport, or the warning that
\* only the persistent one was created, the visor has that transport in its list
\* (createTransport()), unless the put of another creation in the same window
\* dropped it (see ListKept), which nobody is told.
ToldTruth ==
    /\ form.told = "done" => form.about \in visor.saved
    /\ ToldPersistent => form.about \in visor.persistent \cup visor.dropped

\* Skychat is opened to other machines only if the user accepted it in this
\* window, also if it was open before (ngOnInit(), saveChanges()).
ExposedIfAccepted == "exposed" \in visor.saved => form.accepted

Put(i) == form.requests[i].step = "put"

\* The list of persistent transports is written as a whole (createPersistent())
\* and loses none of those it had when the window was opened.  A transport that
\* the window itself added can be lost: create() does not look at
\* operationSubscription, so a second creation, once typing has enabled the
\* button again, may put a list that was read before the first one's put
\* (create-transport.component.ts:99-163).  In no other way is one lost.
ListKept ==
    /\ Others \subseteq visor.persistent
    /\ \A v \in visor.dropped : \E i, j \in DOMAIN form.requests :
           /\ i # j /\ Put(i) /\ Put(j)
           /\ form.requests[i].value = v /\ v \notin form.requests[j].list
==============================================================================
