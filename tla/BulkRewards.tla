----------------------------- MODULE BulkRewards -----------------------------
(***************************************************************************)
(* The modal window that changes the rewards address of several visors:    *)
(* BulkRewardAddressChangerComponent.  While the user chooses visors and   *)
(* types the address, the current addresses are still arriving; then one   *)
(* request per chosen visor runs in parallel.  The callbacks know a visor  *)
(* by its index in nodesToEdit, and that list is replaced when the         *)
(* changes start.                                                          *)
(***************************************************************************)
EXTENDS Naturals, Sequences, FiniteSets, Subsequences

CONSTANTS
    Order,                       \* the visors of the window, a sequence
    NewAddresses,                \* what the user may type; "" removes the address
    MaxToggles                   \* bound: changes of the selection

VARIABLES
    bulk,                        \* the window
    reward                       \* the address each visor has (external)

vars == <<bulk, reward>>

Visors == {Order[i] : i \in DOMAIN Order}
Registered == "registered"       \* the address the visors have at first

\* What is shown of a visor: its error is the one of the check or of the change.
Shown == {"none", "address", "check error", "processing", "done", "change error"}

TypeOK ==
    /\ bulk.open \in BOOLEAN /\ bulk.started \in BOOLEAN /\ bulk.finished \in BOOLEAN
    /\ bulk.list \in Seq(Visors) /\ bulk.selected \subseteq Visors
    /\ bulk.address \in NewAddresses /\ bulk.confirming \in BOOLEAN
    /\ bulk.processed \in 0 .. Len(bulk.list)
    /\ bulk.shown \in [Visors -> Shown]
    /\ bulk.checks \subseteq DOMAIN Order
    /\ \A r \in bulk.changes : r.index \in DOMAIN bulk.list /\ r.state \in {"sent", "applied"}
    /\ reward \in [Visors -> NewAddresses \cup {Registered}]

\* The constructor selects every visor and asks each one for its address.
Init ==
    /\ \E a \in NewAddresses :
           bulk = [open |-> TRUE, started |-> FALSE, finished |-> FALSE, list |-> Order, selected |-> Visors,
                   address |-> a, confirming |-> FALSE, processed |-> 0, toggles |-> 0,
                   shown |-> [v \in Visors |-> "none"], checks |-> DOMAIN Order, changes |-> {}]
    /\ reward = [v \in Visors |-> Registered]

-----------------------------------------------------------------------------
\* A subscription of startChecking(): it writes to the visor that is at its
\* index in the list of the moment.
CheckEnds(i) ==
    /\ i \in bulk.checks \cap DOMAIN bulk.list
    /\ \E s \in {"address", "check error"} :
           bulk' = [bulk EXCEPT !.checks = @ \ {i}, !.shown[bulk.list[i]] = s]
    /\ UNCHANGED reward

Toggle(v) ==
    /\ bulk.open /\ ~bulk.started /\ ~bulk.confirming /\ bulk.toggles < MaxToggles
    /\ bulk' = [bulk EXCEPT !.selected = (@ \ {v}) \cup ({v} \ @), !.toggles = @ + 1]
    /\ UNCHANGED reward

\* A defect: the subscriptions of the check are forgotten but not ended.
ForgetOperationSubscriptions(b) == [b EXCEPT !.changes = {}]

\* closeoperationSubscriptions(): nothing of the check arrives any more.
CloseOperationSubscriptions(b) == [b EXCEPT !.checks = {}, !.changes = {}]

\* startProcessing(): the list keeps the chosen visors, and each gets a request.
StartProcessing(b) ==
    LET list == Picked(Order, {i \in DOMAIN Order : Order[i] \in b.selected})
    IN  [CloseOperationSubscriptions(b) EXCEPT
            !.started = TRUE, !.confirming = FALSE, !.list = list, !.processed = 0,
            !.shown = [v \in Visors |-> IF v \in b.selected THEN "processing" ELSE @[v]],
            !.changes = {[index |-> i, state |-> "sent"] : i \in DOMAIN list}]

\* formValid(): what is typed is an address or nothing, and a visor is chosen.
FormValid(b) == b.selected # {}

\* checkBeforeProcessing(): an empty address must be confirmed.
CheckBeforeProcessing ==
    /\ bulk.open /\ ~bulk.started /\ ~bulk.confirming /\ FormValid(bulk)
    /\ bulk' = IF bulk.address = "" THEN [bulk EXCEPT !.confirming = TRUE] ELSE StartProcessing(bulk)
    /\ UNCHANGED reward

Confirm ==
    /\ bulk.open /\ bulk.confirming
    /\ bulk' \in {StartProcessing(bulk), [bulk EXCEPT !.confirming = FALSE]}
    /\ UNCHANGED reward

\* The visor changes or removes its address (external).
Apply(r) ==
    /\ r.state = "sent"
    /\ bulk' = [bulk EXCEPT !.changes = (@ \ {r}) \cup {[r EXCEPT !.state = "applied"]}]
    /\ reward' = [reward EXCEPT ![bulk.list[r.index]] = bulk.address]

\* A defect: an answer is counted twice.
ChangeEndsTwice(b, r, s) ==
    [b EXCEPT !.changes = @ \ {r}, !.shown[b.list[r.index]] = s, !.processed = @ + 2,
              !.finished = b.processed + 1 = Len(b.list)]

\* A defect: the count is compared with the wrong length.
ChangeEndsEarly(b, r, s) ==
    [b EXCEPT !.changes = @ \ {r}, !.shown[b.list[r.index]] = s, !.processed = @ + 1,
              !.finished = b.processed + 2 >= Len(b.list)]

\* The answer is counted; the last one ends the process.
ChangeEnds(b, r, s) ==
    [b EXCEPT !.changes = @ \ {r}, !.shown[b.list[r.index]] = s, !.processed = @ + 1,
              !.finished = b.processed + 1 = Len(b.list)]

Applied(r) ==
    /\ r.state = "applied"
    /\ bulk' = ChangeEnds(bulk, r, "done")
    /\ UNCHANGED reward

\* The request, or its answer, is lost.
ChangeFailed(r) ==
    /\ bulk' = ChangeEnds(bulk, r, "change error")
    /\ UNCHANGED reward

\* disableDismiss: not while the requests are running.
Close ==
    /\ bulk.open /\ ~bulk.confirming /\ (bulk.started => bulk.finished)
    /\ bulk' = [CloseOperationSubscriptions(bulk) EXCEPT !.open = FALSE]
    /\ UNCHANGED reward

Answered ==
    \/ \E i \in DOMAIN Order : CheckEnds(i)
    \/ \E r \in bulk.changes : Apply(r) \/ Applied(r) \/ ChangeFailed(r)

Next ==
    \/ Answered
    \/ \E v \in Visors : Toggle(v)
    \/ CheckBeforeProcessing
    \/ Confirm
    \/ Close

-----------------------------------------------------------------------------
(***************************************************************************)
(* Properties                                                              *)
(***************************************************************************)
\* What the window says of a visor is that visor's own outcome: one shown as
\* done has the new address, one that was not chosen keeps its address, and
\* while the changes run nothing of the old check is shown for a chosen visor
\* (startProcessing() replaces the list the callbacks index).
OutcomeIsOwn ==
    /\ \A v \in Visors : bulk.shown[v] = "done" => reward[v] = bulk.address
    /\ \A v \in Visors \ bulk.selected : bulk.started => reward[v] = Registered
    /\ bulk.started => \A v \in bulk.selected : bulk.shown[v] \in {"processing", "done", "change error"}

\* The window may be closed only when no chosen visor is still being changed
\* (the counter currentlyProcessed against the length of nodesToEdit).
FinishedWhenAnswered ==
    bulk.finished => \A v \in bulk.selected : bulk.shown[v] # "processing"
==============================================================================
