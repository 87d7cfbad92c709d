---------------------------- MODULE ManagerStorage ----------------------------
(***************************************************************************)
(* The data the manager keeps in the local storage of the browser          *)
(* (storage.service.ts): the labels and the visors that were seen, shared  *)
(* by all the tabs, each of which has a cache.  One tab shows the visor    *)
(* list, which is made of an answer of the hypervisor and of the stored    *)
(* visors (getNodes of node.service.ts); the others edit labels.           *)
(*                                                                         *)
(* The stored arrays are functions on ids: every id has one kind of        *)
(* element, so no array has two entries with one id.  A handler runs       *)
(* alone, in all tabs, as localStorage is synchronous.                     *)
(***************************************************************************)
EXTENDS Naturals

CONSTANTS
    Ids,       \* the visors, and all that has a label
    Labels,
    Tabs,
    ListTab,   \* the tab with the visor list
    None,      \* no label, nothing asked, nothing open
    Leftovers, \* what an earlier version of the app may have left
    FirstReports, \* what the visors may be at first
    MaxOps,    \* bound on the changes the user makes and on reloads
    MaxFlips   \* bound on the changes of the visors

ASSUME ManagerStorageAssumption ==
    /\ ListTab \in Tabs /\ None \notin Labels
    /\ MaxOps \in Nat /\ MaxFlips \in Nat

Label == Labels \union {None}
Data == [labels : [Ids -> Label], nodes : [Ids -> {"unknown", "visible", "hidden"}]]

\* The hypervisor may also report a visor that is not connected.
Reports == [Ids -> {"online", "offline", "absent"}]
List == [Ids -> {"online", "offline", "absent"}]

ASSUME LeftoversAssumption ==
    /\ Leftovers \subseteq [unscoped : Data \union {None}, legacy : Data \union {None}]
    /\ FirstReports \subseteq Reports

VARIABLES
    stored,   \* the local storage, for this hypervisor
    old,      \* what an earlier version of the app left in it
    tabs,     \* the caches, and what is open, in each tab
    asked,    \* what the hypervisor answered to the request under way
    shown,    \* the visor list on screen
    status,   \* the visors, in the hypervisor
    seen,     \* history: the visors that were online since they were hidden
    ops, flips

vars == <<stored, old, tabs, asked, shown, status, seen, ops, flips>>

Empty == [labels |-> [id \in Ids |-> None], nodes |-> [id \in Ids |-> "unknown"]]
Online(rep) == {id \in Ids : rep[id] = "online"}
Offline(rep) == {id \in Ids : rep[id] = "offline"}
VisibleIn(data) == {id \in Ids : data.nodes[id] = "visible"}

\* What a tab has open: the dialog of a label and the label it was opened
\* with, the question about a visor, or the page with the labels.
Nothing == [is |-> "none"]
Edit(id, l) == [is |-> "edit", id |-> id, label |-> l]
Question(id) == [is |-> "delete", id |-> id]
LabelPage(S) == [is |-> "labels", all |-> S]
Open == {Nothing} \union {Edit(id, l) : id \in Ids, l \in Label}
        \union {Question(id) : id \in Ids} \union {LabelPage(S) : S \in SUBSET Ids}

\* What a tab has; behind are the ids that another tab changed since it loaded.
Cache == [loaded : BOOLEAN, labels : [Ids -> Label], visible : SUBSET Ids, open : Open,
          behind : SUBSET Ids]
Closed == [loaded |-> FALSE, labels |-> Empty.labels, visible |-> {}, open |-> Nothing,
           behind |-> {}]

-----------------------------------------------------------------------------
(* StorageService *)

\* migrateDataToHvStorage: data without a hypervisor become those of this one.
Migrate(data) == IF old.unscoped = None THEN data ELSE old.unscoped

\* loadLegacyNodeData: the visors of an early version, with their labels.
LoadLegacy(data) ==
    LET has(id) == old.legacy # None /\ old.legacy.nodes[id] # "unknown"
    IN [labels |-> [id \in Ids |-> IF has(id) THEN old.legacy.labels[id] ELSE data.labels[id]],
        nodes |-> [id \in Ids |-> IF has(id) THEN old.legacy.nodes[id] ELSE data.nodes[id]]]

\* What initialize finds, and the visors it caches as visible: a legacy entry
\* only adds to them.
Loaded == LoadLegacy(Migrate(stored))
LoadedVisible == VisibleIn(Migrate(stored)) \union VisibleIn(Loaded)

\* getLabelInfo, from the cache.
GetLabelInfo(t, id) == tabs[t].labels[id]

\* The ids that another tab wrote are behind in the caches.
Behind(t, S, new) ==
    [u \in Tabs |-> IF u = t THEN new ELSE [tabs[u] EXCEPT !.behind = @ \union S]]

\* Mutant: the cache, and not the stored array, is changed and saved.
SaveCached(t, S, l) ==
    [id \in Ids |-> IF id \in S THEN l ELSE tabs[t].labels[id]]

\* saveLabel: the array is read from the storage, changed and saved.
SavedLabels(t, S, l) ==
    [id \in Ids |-> IF id \in S THEN l ELSE stored.labels[id]]

\* saveLabel: the same change in the cache.
CachedLabels(t, S, l) ==
    [id \in Ids |-> IF id \in S THEN l ELSE tabs[t].labels[id]]

\* saveLabel of some ids, after which the tab has open what it is told.
SaveLabel(t, S, l, open) ==
    /\ stored' = [stored EXCEPT !.labels = SavedLabels(t, S, l)]
    /\ tabs' = Behind(t, S, [tabs[t] EXCEPT !.labels = CachedLabels(t, S, l),
                                            !.behind = @ \ S, !.open = open])

\* changeLocalNodesHiddenProperty: what becomes of the stored visors.
StoredNodes(S, value) ==
    [id \in Ids |-> IF id \in S THEN value ELSE stored.nodes[id]]

\* Mutant: a visor that was stored before does not become visible again.
VisibleOnlyNew(v, S, value) ==
    IF value = "hidden" THEN v \ S ELSE v \union {id \in S : stored.nodes[id] = "unknown"}

\* changeLocalNodesHiddenProperty: the cached set of the visible visors.
VisibleAfter(v, S, value) ==
    LET changed == {id \in S : stored.nodes[id] # value}
    IN IF value = "hidden" THEN v \ changed ELSE v \union changed

-----------------------------------------------------------------------------
Init ==
    /\ stored = Empty
    /\ old \in Leftovers
    /\ tabs = [t \in Tabs |-> Closed]
    /\ asked = None
    /\ shown = [id \in Ids |-> "absent"]
    /\ status \in FirstReports
    /\ seen = Online(status)
    /\ ops = 0 /\ flips = 0

Op == ops < MaxOps /\ ops' = ops + 1
Free(t) == tabs[t].loaded /\ tabs[t].open = Nothing
OpenIn(t, what) == tabs' = [tabs EXCEPT ![t].open = what]

\* initialize, when a tab loads the app; it saves the data without duplicates.
Initialize(t) ==
    /\ tabs[t].loaded => Op
    /\ ~tabs[t].loaded => UNCHANGED ops
    /\ stored' = Loaded
    /\ old' = [unscoped |-> None, legacy |-> None]
    /\ tabs' = [tabs EXCEPT ![t] = [loaded |-> TRUE, labels |-> Loaded.labels,
                                    visible |-> LoadedVisible, open |-> Nothing,
                                    behind |-> {}]]
    /\ asked' = IF t = ListTab THEN None ELSE asked
    /\ shown' = IF t = ListTab THEN [id \in Ids |-> "absent"] ELSE shown
    /\ UNCHANGED <<status, seen, flips>>

\* getNodes: the hypervisor makes its answer.
Ask ==
    /\ tabs[ListTab].loaded /\ asked = None
    /\ asked' = status
    /\ UNCHANGED <<stored, old, tabs, shown, status, seen, ops, flips>>

\* Mutant: a stored visor that is not reported does not get its state.
NodesWithoutState(rep, nodes) ==
    [id \in Ids |-> IF rep[id] = "absent" /\ nodes[id] # "unknown" THEN nodes[id] ELSE rep[id]]

\* Mutant: visors that the user deleted are shown when they are offline.
NodesWithHidden(rep, nodes) ==
    [id \in Ids |-> IF rep[id] # "absent" THEN rep[id]
                    ELSE IF nodes[id] # "unknown" THEN "offline" ELSE "absent"]

\* getNodes: stored visors that are not reported are offline; reported ones
\* that are offline and hidden are left out.
NodesOf(rep, nodes) ==
    [id \in Ids |-> IF rep[id] = "online" THEN "online"
                    ELSE IF nodes[id] = "hidden" THEN "absent"
                    ELSE IF nodes[id] = "visible" THEN "offline" ELSE rep[id]]

\* includeVisibleLocalNodes, by the callback of getNodes.
Answer ==
    /\ asked # None
    /\ LET S == Online(asked)
           nodes == StoredNodes(S, "visible")
       IN /\ stored' = [stored EXCEPT !.nodes = nodes]
          /\ tabs' = [tabs EXCEPT ![ListTab].visible = VisibleAfter(@, S, "visible")]
          /\ shown' = NodesOf(asked, nodes)
    /\ asked' = None
    /\ UNCHANGED <<old, status, seen, ops, flips>>

\* The visors change.
StatusChanges ==
    /\ flips < MaxFlips /\ flips' = flips + 1
    /\ \E id \in Ids, s \in {"online", "offline", "absent"} :
          /\ s # status[id]
          /\ status' = [status EXCEPT ![id] = s]
    /\ seen' = seen \union Online(status')
    /\ UNCHANGED <<stored, old, tabs, asked, shown, ops>>

-----------------------------------------------------------------------------
(* Labels *)

\* showEditLabelDialog, processClick: the dialog has the label of the cache.
EditLabel(t, id) ==
    /\ Free(t)
    /\ OpenIn(t, Edit(id, GetLabelInfo(t, id)))
    /\ UNCHANGED <<stored, old, asked, shown, status, seen, ops, flips>>

\* save of the dialog: only a label that differs from the one it had; the
\* visor list is asked for again.
Save(t, l) ==
    /\ tabs[t].open.is = "edit" /\ Op
    /\ LET o == tabs[t].open
       IN IF l # o.label THEN SaveLabel(t, {o.id}, l, Nothing)
          ELSE OpenIn(t, Nothing) /\ UNCHANGED stored
    /\ asked' = IF t = ListTab /\ l # tabs[t].open.label THEN None ELSE asked
    /\ UNCHANGED <<old, shown, status, seen, flips>>

\* processClick: the label is removed at once, after a question.
RemoveLabel(t, id) ==
    /\ Free(t) /\ GetLabelInfo(t, id) # None /\ Op
    /\ SaveLabel(t, {id}, None, Nothing)
    /\ UNCHANGED <<old, asked, shown, status, seen, flips>>

\* loadData of the page with the labels, read from the storage.
LoadLabels(t) ==
    /\ Free(t) /\ t # ListTab
    /\ OpenIn(t, LabelPage({id \in Ids : stored.labels[id] # None}))
    /\ UNCHANGED <<stored, old, asked, shown, status, seen, ops, flips>>

\* deleteSelected and delete of that page, which then loads the data again.
DeleteLabels(t, S) ==
    /\ tabs[t].open.is = "labels" /\ S # {} /\ S \subseteq tabs[t].open.all /\ Op
    /\ SaveLabel(t, S, None,
                 LabelPage({id \in Ids \ S : stored.labels[id] # None}))
    /\ UNCHANGED <<old, asked, shown, status, seen, flips>>

CloseDialog(t) ==
    /\ tabs[t].open # Nothing
    /\ OpenIn(t, Nothing)
    /\ UNCHANGED <<stored, old, asked, shown, status, seen, ops, flips>>

-----------------------------------------------------------------------------
(* The visor list *)

\* Mutant: the answer to a request made before is still used.
SetHiddenKeepsRequest(S, open) ==
    /\ stored' = [stored EXCEPT !.nodes = StoredNodes(S, "hidden")]
    /\ tabs' = [tabs EXCEPT ![ListTab].visible = VisibleAfter(@, S, "hidden"),
                            ![ListTab].open = open]
    /\ seen' = (seen \ S) \union (Online(status) \intersect S)
    /\ UNCHANGED <<asked, old, shown, status, flips>>

\* setLocalNodesAsHidden, then forceDataRefresh: a request under way is dropped.
SetHidden(S, open) ==
    /\ stored' = [stored EXCEPT !.nodes = StoredNodes(S, "hidden")]
    /\ tabs' = [tabs EXCEPT ![ListTab].visible = VisibleAfter(@, S, "hidden"),
                            ![ListTab].open = open]
    /\ seen' = (seen \ S) \union (Online(status) \intersect S)
    /\ asked' = None
    /\ UNCHANGED <<old, shown, status, flips>>

\* showOptionsDialog: only a visor that is offline can be deleted.
AskDelete(id) ==
    /\ Free(ListTab) /\ shown[id] = "offline"
    /\ OpenIn(ListTab, Question(id))
    /\ UNCHANGED <<stored, old, asked, shown, status, seen, ops, flips>>

\* deleteNode, accepted: whatever the visor is now.
DeleteNode ==
    /\ tabs[ListTab].open.is = "delete" /\ Op
    /\ SetHidden({tabs[ListTab].open.id}, Nothing)

\* removeOffline, accepted: the visors that are offline and pass the filters
\* by then.
RemoveOffline(Filter) ==
    /\ Free(ListTab) /\ Filter \intersect Offline(shown) # {} /\ Op
    /\ SetHidden(Filter \intersect Offline(shown), Nothing)

User ==
    \/ \E t \in Tabs :
          \/ Initialize(t) \/ LoadLabels(t) \/ CloseDialog(t)
          \/ \E id \in Ids : EditLabel(t, id) \/ RemoveLabel(t, id)
          \/ \E l \in Label : Save(t, l)
          \/ \E S \in SUBSET Ids : DeleteLabels(t, S)
    \/ DeleteNode
    \/ \E id \in Ids : AskDelete(id)
    \/ \E Filter \in SUBSET Ids : RemoveOffline(Filter)

Next == User \/ Ask \/ Answer \/ StatusChanges

\* The visor list is polled and its requests are answered.
Spec == Init /\ [][Next]_vars /\ WF_vars(Ask) /\ WF_vars(Answer)

-----------------------------------------------------------------------------
(* Properties *)

\* The storage, the caches, the list and the visors keep their types.
TypeOK ==
    /\ stored \in Data
    /\ old \in [unscoped : Data \union {None}, legacy : Data \union {None}]
    /\ tabs \in [Tabs -> Cache]
    /\ asked \in Reports \union {None}
    /\ shown \in List /\ status \in Reports /\ seen \in SUBSET Ids
    /\ ops \in 0..MaxOps /\ flips \in 0..MaxFlips

\* The storage, with what initialize will still take from an earlier version,
\* implements VisorStore.
Store == INSTANCE VisorStore WITH
    labels <- Loaded.labels,
    hidden <- {id \in Ids : Loaded.nodes[id] = "hidden"},
    online <- Online(status)

\* Several tabs with caches that lag behind, reloads and the migration of old
\* data (initialize, saveLabel, changeLocalNodesHiddenProperty) together look
\* like one store: no tab undoes what another one saved, no label changes but
\* the one the user changed, and no deleted visor comes back before it was
\* online again.
ImplementsStore == Store!Spec

\* A tab shows a label that is not the stored one only for an id that another
\* tab changed after this one loaded its cache (saveLabel, initialize).
CacheOnlyBehindOthers ==
    \A t \in Tabs : tabs[t].loaded =>
        \A id \in Ids \ tabs[t].behind : GetLabelInfo(t, id) = stored.labels[id]

\* The tab that polls the visors knows which ones are local, for the prefix of
\* their labels (getSavedVisibleLocalNodes, getLabelComponents).
LocalVisorsKnown ==
    tabs[ListTab].loaded => tabs[ListTab].visible = VisibleIn(stored)

\* What the caches of the tabs may have that the storage has not.
CachesAreTrue == CacheOnlyBehindOthers /\ LocalVisorsKnown

\* A visor that was deleted leaves the list, or it is online (deleteNode,
\* removeOffline, getNodes).
DeletedLeaves ==
    \A id \in Ids :
        stored.nodes[id] = "hidden"
            ~> stored.nodes[id] # "hidden" \/ status[id] = "online" \/ shown[id] = "absent"
===============================================================================
