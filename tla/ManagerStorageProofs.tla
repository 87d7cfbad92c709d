------------------------ MODULE ManagerStorageProofs ------------------------
(***************************************************************************)
(* Theorems about ManagerStorage, for every set of visors, labels and      *)
(* tabs, whatever an earlier version left: its types, and that the tabs    *)
(* together implement VisorStore.                                          *)
(***************************************************************************)
EXTENDS ManagerStorage, TLAPS

Migrated == [unscoped |-> None, legacy |-> None]

\* The tabs share one storage: a tab that is loaded has migrated the old data,
\* and only such a tab has something open or a request under way.
LoadedFirst ==
    /\ \A t \in Tabs : tabs[t].loaded => old = Migrated
    /\ \A t \in Tabs : tabs[t].open # Nothing => tabs[t].loaded
    /\ asked # None => tabs[ListTab].loaded

\* What is online, or was when the hypervisor answered, has been seen since it
\* was hidden.
SeenFirst ==
    /\ Online(status) \subseteq seen
    /\ asked # None => Online(asked) \subseteq seen

IInv == TypeOK /\ LoadedFirst /\ SeenFirst
-----------------------------------------------------------------------------
\* What initialize and the migrations read has the type of the stored data.
LEMMA LoadedType ==
    ASSUME stored \in Data, old \in [unscoped : Data \union {None}, legacy : Data \union {None}]
    PROVE  Loaded \in Data
BY DEF Loaded, LoadLegacy, Migrate, Data, Label

\* With nothing left to migrate, initialize reads the stored data.
LEMMA LoadedMigrated ==
    ASSUME stored \in Data, old = Migrated
    PROVE  Loaded = stored
BY DEF Loaded, LoadLegacy, Migrate, Migrated, Data
LEMMA InitIInv == Init => IInv
BY ManagerStorageAssumption, LeftoversAssumption
DEF Init, IInv, TypeOK, LoadedFirst, SeenFirst, Data, Empty, Label, Closed, Cache, Open, List, Reports, Online,
    Nothing

\* Hiding visors keeps the types and SeenFirst, and loads no tab.
LEMMA SetHiddenKeeps ==
    ASSUME TypeOK, SeenFirst, NEW S \in SUBSET Ids, SetHidden(S, Nothing)
    PROVE  /\ stored' \in Data /\ seen' \in SUBSET Ids
           /\ tabs' \in [Tabs -> Cache]
           /\ \A u \in Tabs : /\ tabs'[u].loaded = tabs[u].loaded
                             /\ tabs'[u].open \in {tabs[u].open, Nothing}
           /\ Online(status') \subseteq seen' /\ asked' = None
<1>. DEFINE v == VisibleAfter(tabs[ListTab].visible, S, "hidden")
<1>1. stored' \in Data
  BY DEF TypeOK, SetHidden, StoredNodes, Data
<1>2. v \in SUBSET Ids /\ Nothing \in Open /\ tabs \in [Tabs -> Cache] /\ ListTab \in Tabs
  BY ManagerStorageAssumption DEF TypeOK, VisibleAfter, Open, Cache
<1>3. tabs' = [tabs EXCEPT ![ListTab] = [tabs[ListTab] EXCEPT !.visible = v, !.open = Nothing]]
  BY <1>2 DEF SetHidden
<1>4. [tabs[ListTab] EXCEPT !.visible = v, !.open = Nothing] \in Cache
  BY <1>2 DEF Cache
<1>5. /\ tabs' \in [Tabs -> Cache]
      /\ \A u \in Tabs : /\ tabs'[u].loaded = tabs[u].loaded
                        /\ tabs'[u].open \in {tabs[u].open, Nothing}
  BY <1>2, <1>3, <1>4 DEF Cache
<1>6. seen' \in SUBSET Ids /\ Online(status') \subseteq seen' /\ asked' = None
  BY DEF TypeOK, SeenFirst, SetHidden, Online
<1>. QED
  BY <1>1, <1>5, <1>6
\* What may be open: the identifier of a dialog or a question, the ids of a page.
LEMMA OpenFields ==
    ASSUME NEW o \in Open
    PROVE  /\ o.is = "edit" => o.id \in Ids
           /\ o.is = "delete" => o.id \in Ids
           /\ o.is \in {"edit", "delete", "labels"} => o # Nothing
           /\ o.is = "labels" => o.all \in SUBSET Ids
BY DEF Open, Nothing, Edit, Question, LabelPage

\* Each action keeps the invariant.
LEMMA NextIInv == IInv /\ [Next]_vars => IInv'
<1>. SUFFICES ASSUME IInv, [Next]_vars
              PROVE  IInv'
  OBVIOUS
<1>. USE ManagerStorageAssumption
<1>. USE DEF IInv
<1>1. ASSUME NEW t \in Tabs, Initialize(t)
      PROVE  IInv'
  <2>1. Loaded \in Data /\ LoadedVisible \in SUBSET Ids
    BY LoadedType DEF TypeOK, LoadedVisible, VisibleIn
  <2>2. old' = Migrated /\ Migrated \in [unscoped : Data \union {None}, legacy : Data \union {None}]
    BY <1>1 DEF Initialize, Migrated
  <2>3. Loaded.labels \in [Ids -> Label] /\ Nothing \in Open
    BY <2>1 DEF Data, Open
  <2>4. /\ tabs' \in [Tabs -> Cache]
        /\ \A u \in Tabs : /\ u # t => tabs'[u] = tabs[u]
                          /\ tabs'[t].loaded /\ tabs'[t].open = Nothing
    BY <1>1, <2>1, <2>3 DEF Initialize, TypeOK, Cache
  <2>5. ops' \in 0..MaxOps
    BY <1>1 DEF Initialize, Op, TypeOK
  <2>6. asked' \in {asked, None} /\ shown' \in List
    BY <1>1 DEF Initialize, TypeOK, List
  <2>7. TypeOK'
    BY <1>1, <2>1, <2>2, <2>4, <2>5, <2>6 DEF Initialize, TypeOK, Cache
  <2>8. LoadedFirst'
    BY <2>2, <2>4, <2>6 DEF LoadedFirst
  <2>9. SeenFirst'
    BY <1>1, <2>6 DEF Initialize, SeenFirst, Online
  <2>. QED
    BY <2>7, <2>8, <2>9
<1>2. CASE Ask
  BY <1>2 DEF Ask, TypeOK, LoadedFirst, SeenFirst, Online
<1>3. CASE Answer
  <2>. DEFINE S == Online(asked)
              v == VisibleAfter(tabs[ListTab].visible, S, "visible")
  <2>1. stored' \in Data
    BY <1>3 DEF Answer, TypeOK, StoredNodes, Data
  <2>2. v \in SUBSET Ids /\ [tabs[ListTab] EXCEPT !.visible = v] \in Cache
    BY DEF TypeOK, VisibleAfter, Online, Cache
  <2>3. tabs' = [tabs EXCEPT ![ListTab] = [tabs[ListTab] EXCEPT !.visible = v]]
    BY <1>3 DEF Answer
  <2>4. /\ tabs' \in [Tabs -> Cache]
        /\ \A u \in Tabs : tabs'[u].loaded = tabs[u].loaded /\ tabs'[u].open = tabs[u].open
    BY <2>2, <2>3 DEF TypeOK, Cache
  <2>5. shown' \in List
    BY <1>3 DEF Answer, NodesOf, List, TypeOK, Reports
  <2>6. asked' = None /\ UNCHANGED <<old, status, seen, ops, flips>>
    BY <1>3 DEF Answer
  <2>7. TypeOK'
    BY <2>1, <2>4, <2>5, <2>6 DEF TypeOK, Cache
  <2>. QED
    BY <2>4, <2>6, <2>7 DEF LoadedFirst, SeenFirst, Online
<1>4. CASE StatusChanges
  <2>1. status' \in Reports /\ Online(status') \in SUBSET Ids /\ flips' \in 0..MaxFlips
    BY <1>4 DEF StatusChanges, TypeOK, Reports, Online
  <2>2. seen' = seen \union Online(status') /\ UNCHANGED <<stored, old, tabs, asked, shown, ops>>
    BY <1>4 DEF StatusChanges
  <2>. QED
    BY <2>1, <2>2 DEF TypeOK, LoadedFirst, SeenFirst, Online
\* A dialog of a loaded tab, or none: nothing else changes.
<1>5. ASSUME NEW t \in Tabs, NEW what \in Open, OpenIn(t, what), tabs[t].loaded,
             UNCHANGED <<stored, old, asked, shown, status, seen, flips>>, ops' \in 0..MaxOps
      PROVE  IInv'
  <2>0. /\ tabs' \in [Tabs -> Cache]
        /\ \A u \in Tabs : tabs'[u].loaded = tabs[u].loaded /\ (u # t => tabs'[u].open = tabs[u].open)
    <3>1. tabs' = [tabs EXCEPT ![t] = [tabs[t] EXCEPT !.open = what]]
      BY <1>5 DEF OpenIn
    <3>2. [tabs[t] EXCEPT !.open = what] \in Cache
      BY DEF TypeOK, Cache
    <3>. QED
      BY <3>1, <3>2 DEF TypeOK, Cache
  <2>1. TypeOK'
    BY <1>5, <2>0 DEF TypeOK
  <2>2. LoadedFirst'
    BY <1>5, <2>0 DEF LoadedFirst
  <2>. QED
    BY <1>5, <2>1, <2>2 DEF SeenFirst, Online
<1>6. ASSUME NEW t \in Tabs, NEW id \in Ids, EditLabel(t, id)
      PROVE  IInv'
  <2>1. Edit(id, GetLabelInfo(t, id)) \in Open
    BY DEF GetLabelInfo, TypeOK, Cache, Open
  <2>. QED
    BY <1>5, <1>6, <2>1 DEF EditLabel, Free, TypeOK
<1>7. ASSUME NEW t \in Tabs, LoadLabels(t)
      PROVE  IInv'
  BY <1>5, <1>7 DEF LoadLabels, Free, TypeOK, Open
<1>8. ASSUME NEW t \in Tabs, CloseDialog(t)
      PROVE  IInv'
  <2>1. Nothing \in Open /\ ops \in 0..MaxOps /\ tabs[t].loaded
    BY <1>8 DEF CloseDialog, TypeOK, LoadedFirst, Open
  <2>. QED
    BY <1>5, <1>8, <2>1 DEF CloseDialog
<1>9. ASSUME NEW id \in Ids, AskDelete(id)
      PROVE  IInv'
  <2>1. Question(id) \in Open /\ ops \in 0..MaxOps
    BY DEF TypeOK, Open
  <2>. QED
    BY <1>5, <1>9, <2>1 DEF AskDelete, Free
\* A change of labels by a loaded tab, which may drop the request of the list.
<1>10. ASSUME NEW t \in Tabs, NEW S \in SUBSET Ids, NEW l \in Label, NEW open \in Open,
              SaveLabel(t, S, l, open), tabs[t].loaded, asked' \in {asked, None},
              ops' \in 0..MaxOps, UNCHANGED <<old, shown, status, seen, flips>>
       PROVE  IInv'
  <2>. DEFINE other(u) == [tabs[u] EXCEPT !.behind = @ \union S]
              own == [tabs[t] EXCEPT !.labels = CachedLabels(t, S, l), !.behind = @ \ S,
                                     !.open = open]
  <2>1. stored' = [stored EXCEPT !.labels = SavedLabels(t, S, l)]
        /\ tabs' = [u \in Tabs |-> IF u = t THEN own ELSE other(u)]
    BY <1>10 DEF SaveLabel, Behind
  <2>2. SavedLabels(t, S, l) \in [Ids -> Label] /\ CachedLabels(t, S, l) \in [Ids -> Label]
    BY DEF TypeOK, SavedLabels, CachedLabels, Data, Cache
  <2>3. stored' \in Data
    BY <2>1, <2>2 DEF TypeOK, Data
  <2>4. own \in Cache /\ own.loaded = tabs[t].loaded
    BY <2>2 DEF TypeOK, Cache
  <2>5. ASSUME NEW u \in Tabs
        PROVE  other(u) \in Cache /\ other(u).loaded = tabs[u].loaded /\ other(u).open = tabs[u].open
    BY DEF TypeOK, Cache
  <2>. HIDE DEF other, own
  <2>6. /\ tabs' \in [Tabs -> Cache]
        /\ \A u \in Tabs : tabs'[u].loaded = tabs[u].loaded /\ (u # t => tabs'[u].open = tabs[u].open)
    BY <2>1, <2>4, <2>5
  <2>7. TypeOK'
    BY <1>10, <2>3, <2>6 DEF TypeOK
  <2>8. LoadedFirst'
    BY <1>10, <2>6 DEF LoadedFirst
  <2>. QED
    BY <1>10, <2>7, <2>8 DEF SeenFirst, Online
<1>11. ASSUME NEW t \in Tabs, NEW l \in Label, Save(t, l)
       PROVE  IInv'
  <2>. DEFINE o == tabs[t].open
  <2>0. o \in Open /\ o.is = "edit"
    BY <1>11 DEF Save, TypeOK, Cache
  <2>1. o.id \in Ids /\ tabs[t].loaded /\ Nothing \in Open
    BY <2>0, OpenFields DEF LoadedFirst, Open
  <2>2. ops' \in 0..MaxOps /\ UNCHANGED <<old, shown, status, seen, flips>>
    BY <1>11 DEF Save, Op, TypeOK
  <2>3. CASE l # o.label
    BY <1>10, <1>11, <2>1, <2>2, <2>3 DEF Save
  <2>4. CASE l = o.label
    BY <1>5, <1>11, <2>1, <2>2, <2>4 DEF Save
  <2>. QED
    BY <2>3, <2>4
<1>12. ASSUME NEW t \in Tabs, NEW id \in Ids, RemoveLabel(t, id)
       PROVE  IInv'
  <2>1. None \in Label /\ Nothing \in Open /\ ops' \in 0..MaxOps
    BY <1>12 DEF RemoveLabel, Op, TypeOK, Label, Open
  <2>. QED
    BY <1>10, <1>12, <2>1 DEF RemoveLabel, Free
<1>13. ASSUME NEW t \in Tabs, NEW S \in SUBSET Ids, DeleteLabels(t, S)
       PROVE  IInv'
  <2>0. tabs[t].open \in Open /\ tabs[t].open.is = "labels"
    BY <1>13 DEF DeleteLabels, TypeOK, Cache
  <2>1. tabs[t].loaded /\ None \in Label
    BY <2>0, OpenFields DEF LoadedFirst, Label
  <2>3. LabelPage({id \in Ids \ S : stored.labels[id] # None}) \in Open
    BY DEF Open
  <2>2. ops' \in 0..MaxOps
    BY <1>13 DEF DeleteLabels, Op, TypeOK
  <2>. QED
    BY <1>10, <1>13, <2>1, <2>2, <2>3 DEF DeleteLabels
\* Hiding drops the request under way.
<1>14. ASSUME NEW S \in SUBSET Ids, SetHidden(S, Nothing), ops' \in 0..MaxOps
       PROVE  IInv'
  <2>1. UNCHANGED <<old, shown, status, flips>>
    BY <1>14 DEF SetHidden
  <2>. QED
    BY <1>14, <2>1, SetHiddenKeeps DEF TypeOK, LoadedFirst, SeenFirst, Cache
<1>15. CASE DeleteNode
  <2>. DEFINE o == tabs[ListTab].open
  <2>1. o \in Open /\ o.is = "delete" /\ ops' \in 0..MaxOps
    BY <1>15 DEF DeleteNode, Op, TypeOK, Cache
  <2>2. {o.id} \in SUBSET Ids
    BY <2>1, OpenFields
  <2>. QED
    BY <1>14, <1>15, <2>1, <2>2 DEF DeleteNode
<1>16. ASSUME NEW Filter \in SUBSET Ids, RemoveOffline(Filter)
       PROVE  IInv'
  BY <1>14, <1>16 DEF RemoveOffline, Op, TypeOK
<1>17. CASE UNCHANGED vars
  BY <1>17 DEF vars, TypeOK, LoadedFirst, SeenFirst, Online
<1>. QED
  BY <1>1, <1>2, <1>3, <1>4, <1>6, <1>7, <1>8, <1>9, <1>11, <1>12, <1>13, <1>15, <1>16, <1>17
  DEF Next, User
\* IInv holds in every state.
LEMMA AlwaysIInv == Spec => []IInv
<1>1. IInv /\ [Next]_vars => IInv'
  BY NextIInv
<1>. QED
  BY <1>1, InitIInv, PTL DEF Spec

\* The storage, the caches of the tabs, the list and the visors keep their types
\* (StorageService, getNodes).
THEOREM TypeCorrect == Spec => []TypeOK
<1>1. IInv => TypeOK
  BY DEF IInv
<1>. QED
  BY <1>1, AlwaysIInv, PTL
-----------------------------------------------------------------------------
(* Refinement *)

\* The storage that a tab finds when it is loaded is one of VisorStore.
LEMMA InitImplements == Init => Store!Init
<1>. SUFFICES ASSUME Init
              PROVE  Store!Init
  OBVIOUS
<1>1. Loaded \in Data /\ Online(status) \in SUBSET Ids /\ seen = Online(status)
  BY InitIInv, LoadedType DEF IInv, TypeOK, Init, Online
<1>. QED
  BY <1>1 DEF Store!Init, Data, Label

\* What the tabs do when nothing is left to migrate is a step on stored.
LEMMA StoreStep ==
    ASSUME IInv, IInv', old = Migrated, old' = Migrated
    PROVE  Loaded = stored /\ Loaded' = stored'
<1>1. stored' \in Data
  BY DEF IInv, TypeOK
<1>. QED
  BY <1>1, LoadedMigrated DEF IInv, TypeOK, Loaded, LoadLegacy, Migrate, Migrated, Data

\* Every step is one of VisorStore, or changes none of its variables.
LEMMA NextImplements == IInv /\ IInv' /\ [Next]_vars => [Store!Next]_(Store!store)
<1>. SUFFICES ASSUME IInv, IInv', [Next]_vars
              PROVE  [Store!Next]_(Store!store)
  OBVIOUS
<1>. USE ManagerStorageAssumption
<1>. DEFINE hidden(d) == {id \in Ids : d.nodes[id] = "hidden"}
<1>1. ASSUME NEW t \in Tabs, Initialize(t)
      PROVE  UNCHANGED Store!store
  <2>1. Loaded \in Data /\ stored' = Loaded /\ old' = Migrated
    BY <1>1, LoadedType DEF IInv, TypeOK, Initialize, Migrated
  <2>2. Loaded' = Loaded
    BY <2>1 DEF Loaded, LoadLegacy, Migrate, Migrated, Data
  <2>. QED
    BY <1>1, <2>2 DEF Initialize, Store!store, Online
\* What leaves the storage and the visors alone is a stutter.
<1>2. ASSUME UNCHANGED <<stored, old, status, seen>>
      PROVE  UNCHANGED Store!store
  BY <1>2 DEF Store!store, Loaded, LoadLegacy, Migrate, Online
<1>3. CASE Answer
  <2>1. PICK S \in SUBSET Ids : S = Online(asked)
    BY DEF Online
  <2>2. old = Migrated /\ old' = Migrated /\ S \subseteq seen
    BY <1>3, <2>1 DEF Answer, IInv, LoadedFirst, SeenFirst
  <2>3. /\ Loaded = stored /\ Loaded' = stored' /\ stored \in Data
        /\ stored' = [stored EXCEPT !.nodes = StoredNodes(S, "visible")]
        /\ UNCHANGED <<status, seen>>
    BY <1>3, <2>1, <2>2, StoreStep DEF Answer, IInv, TypeOK
  <2>4. stored'.labels = stored.labels /\ hidden(stored') = hidden(stored) \ S
    BY <2>3 DEF StoredNodes, Data
  <2>5. Store!Show(S)
    BY <2>2, <2>3, <2>4 DEF Store!Show, Online
  <2>. QED
    BY <2>5 DEF Store!Next
<1>4. CASE StatusChanges
  <2>1. UNCHANGED <<stored, old>> /\ seen' = seen \union Online(status')
    BY <1>4 DEF StatusChanges
  <2>2. Loaded' = Loaded /\ Online(status)' = Online(status') /\ Online(status)' \in SUBSET Ids
    BY <2>1 DEF Loaded, LoadLegacy, Migrate, Online
  <2>3. Store!Visors
    BY <2>1, <2>2 DEF Store!Visors
  <2>. QED
    BY <2>3 DEF Store!Next
\* The labels of some ids change.
<1>5. ASSUME NEW t \in Tabs, NEW S \in SUBSET Ids, NEW l \in Label, NEW open,
             SaveLabel(t, S, l, open), tabs[t].loaded, UNCHANGED <<old, status, seen>>
      PROVE  /\ Loaded.labels \in [Ids -> Label]
             /\ (Loaded.labels)' = [id \in Ids |-> IF id \in S THEN l ELSE Loaded.labels[id]]
             /\ hidden(Loaded)' = hidden(Loaded)
             /\ UNCHANGED <<Online(status), seen>>
  <2>1. old = Migrated /\ old' = Migrated
    BY <1>5 DEF IInv, LoadedFirst
  <2>2. /\ Loaded = stored /\ Loaded' = stored' /\ stored \in Data
        /\ stored' = [stored EXCEPT !.labels = SavedLabels(t, S, l)]
    BY <1>5, <2>1, StoreStep DEF SaveLabel, IInv, TypeOK
  <2>. QED
    BY <1>5, <2>2 DEF SavedLabels, Data, Online
<1>6. ASSUME NEW t \in Tabs, NEW l \in Label, Save(t, l)
      PROVE  [Store!Next]_(Store!store)
  <2>. DEFINE o == tabs[t].open
  <2>1. o \in Open /\ o.is = "edit" /\ UNCHANGED <<old, status, seen>>
    BY <1>6 DEF Save, IInv, TypeOK, Cache
  <2>2. o.id \in Ids /\ tabs[t].loaded
    BY <2>1, OpenFields DEF IInv, LoadedFirst
  <2>3. CASE l # o.label
    <3>1. SaveLabel(t, {o.id}, l, Nothing)
      BY <1>6, <2>3 DEF Save
    <3>2. Store!SetLabel(o.id, l)
      <4>1. /\ Loaded.labels \in [Ids -> Label]
            /\ (Loaded.labels)' = [id \in Ids |-> IF id \in {o.id} THEN l ELSE Loaded.labels[id]]
            /\ hidden(Loaded)' = hidden(Loaded) /\ UNCHANGED <<Online(status), seen>>
        BY <1>5, <2>1, <2>2, <3>1
      <4>2. (Loaded.labels)' = [Loaded.labels EXCEPT ![o.id] = l]
        BY <2>2, <4>1
      <4>. QED
        BY <4>1, <4>2 DEF Store!SetLabel
    <3>. QED
      BY <2>2, <3>2 DEF Store!Next, Label
  <2>4. CASE l = o.label
    BY <1>2, <1>6, <2>1, <2>4 DEF Save
  <2>. QED
    BY <2>3, <2>4
<1>7. ASSUME NEW t \in Tabs, NEW id \in Ids, RemoveLabel(t, id)
      PROVE  [Store!Next]_(Store!store)
  <2>1. /\ SaveLabel(t, {id}, None, Nothing) /\ tabs[t].loaded
        /\ UNCHANGED <<old, status, seen>> /\ None \in Label
    BY <1>7 DEF RemoveLabel, Free, Label
  <2>2. Store!SetLabel(id, None)
    <3>1. /\ Loaded.labels \in [Ids -> Label]
          /\ (Loaded.labels)' = [i \in Ids |-> IF i \in {id} THEN None ELSE Loaded.labels[i]]
          /\ hidden(Loaded)' = hidden(Loaded) /\ UNCHANGED <<Online(status), seen>>
      BY <1>5, <2>1
    <3>2. (Loaded.labels)' = [Loaded.labels EXCEPT ![id] = None]
      BY <3>1
    <3>. QED
      BY <3>1, <3>2 DEF Store!SetLabel
  <2>. QED
    BY <2>1, <2>2 DEF Store!Next, Label
<1>8. ASSUME NEW t \in Tabs, NEW S \in SUBSET Ids, DeleteLabels(t, S)
      PROVE  [Store!Next]_(Store!store)
  <2>. DEFINE page == LabelPage({id \in Ids \ S : stored.labels[id] # None})
  <2>1. /\ SaveLabel(t, S, None, page) /\ UNCHANGED <<old, status, seen>> /\ None \in Label
        /\ tabs[t].open \in Open /\ tabs[t].open.is = "labels"
    BY <1>8 DEF DeleteLabels, Label, IInv, TypeOK, Cache
  <2>2. tabs[t].loaded
    BY <2>1, OpenFields DEF IInv, LoadedFirst
  <2>3. Store!RemoveLabels(S)
    BY <1>5, <2>1, <2>2 DEF Store!RemoveLabels
  <2>. QED
    BY <2>3 DEF Store!Next
\* Visors are taken off the list.
<1>9. ASSUME NEW S \in SUBSET Ids, SetHidden(S, Nothing), tabs[ListTab].loaded
      PROVE  [Store!Next]_(Store!store)
  <2>1. old = Migrated /\ old' = Migrated
    BY <1>9 DEF SetHidden, IInv, LoadedFirst
  <2>2. /\ Loaded = stored /\ Loaded' = stored' /\ stored \in Data
        /\ stored' = [stored EXCEPT !.nodes = StoredNodes(S, "hidden")]
    BY <1>9, <2>1, StoreStep DEF SetHidden, IInv, TypeOK
  <2>3. stored'.labels = stored.labels /\ hidden(stored') = hidden(stored) \union S
    BY <2>2 DEF StoredNodes, Data
  <2>4. status' = status /\ seen' = (seen \ S) \union (Online(status) \intersect S)
    BY <1>9 DEF SetHidden
  <2>5. Store!Hide(S)
    BY <2>2, <2>3, <2>4 DEF Store!Hide, Online
  <2>. QED
    BY <2>5 DEF Store!Next
<1>10. CASE DeleteNode
  <2>. DEFINE o == tabs[ListTab].open
  <2>1. o \in Open /\ o.is = "delete" /\ SetHidden({o.id}, Nothing)
    BY <1>10 DEF DeleteNode, IInv, TypeOK, Cache
  <2>2. {o.id} \in SUBSET Ids /\ tabs[ListTab].loaded
    BY <2>1, OpenFields DEF IInv, LoadedFirst
  <2>. QED
    BY <1>9, <2>1, <2>2
<1>11. ASSUME NEW Filter \in SUBSET Ids, RemoveOffline(Filter)
       PROVE  [Store!Next]_(Store!store)
  BY <1>9, <1>11 DEF RemoveOffline, Free
<1>12. Ask \/ UNCHANGED vars => UNCHANGED <<stored, old, status, seen>>
  BY DEF Ask, vars
<1>13. ASSUME NEW t \in Tabs
       PROVE  LoadLabels(t) \/ CloseDialog(t) => UNCHANGED <<stored, old, status, seen>>
  BY DEF LoadLabels, CloseDialog
<1>14. ASSUME NEW id \in Ids
       PROVE  AskDelete(id) \/ (\E t \in Tabs : EditLabel(t, id)) => UNCHANGED <<stored, old, status, seen>>
  BY DEF AskDelete, EditLabel
<1>. HIDE DEF hidden
<1>. QED
  BY <1>1, <1>2, <1>3, <1>4, <1>6, <1>7, <1>8, <1>10, <1>11, <1>12, <1>13, <1>14 DEF Next, User

\* Several tabs with caches that lag behind, reloads, migrations and requests
\* under way implement one store: a label changes only by the user, and a visor
\* that was deleted comes back only after it was online again (initialize,
\* saveLabel, changeLocalNodesHiddenProperty, getNodes).
THEOREM TabsImplementStore == Spec => ImplementsStore
<1>1. IInv /\ IInv' /\ [Next]_vars => [Store!Next]_(Store!store)
  BY NextImplements
<1>. QED
  BY <1>1, InitImplements, AlwaysIInv, PTL DEF Spec, ImplementsStore, Store!Spec-----------------------------------------------------------------------------
(* The caches *)

\* No entry of the oldest format hides a visor that the storage has as visible:
\* loadLegacyNodeData does not take such a visor from the cached set.
LegacyHidesNone ==
    \A o \in Leftovers :
        o.legacy # None /\ o.unscoped # None =>
            \A id \in Ids : o.legacy.nodes[id] = "hidden" => o.unscoped.nodes[id] # "visible"

\* What the caches have, and will have when a tab is loaded.
CInv == CachesAreTrue /\ LoadedVisible = VisibleIn(Loaded)

LEMMA InitCInv == LegacyHidesNone /\ Init => CInv
<1>. SUFFICES ASSUME LegacyHidesNone, Init
              PROVE  CInv
  OBVIOUS
<1>1. CachesAreTrue
  BY ManagerStorageAssumption DEF Init, CachesAreTrue, CacheOnlyBehindOthers, LocalVisorsKnown, Closed
<1>2. PICK o \in Leftovers : old = o
  BY DEF Init
<1>3. ASSUME NEW id \in Ids, Migrate(stored).nodes[id] = "visible"
      PROVE  Loaded.nodes[id] = "visible"
  <2>1. o \in [unscoped : Data \union {None}, legacy : Data \union {None}]
    BY LeftoversAssumption
  <2>2. stored.nodes[id] = "unknown"
    BY DEF Init, Empty
  <2>3. o.unscoped # None /\ Migrate(stored) = o.unscoped
    BY <1>2, <1>3, <2>2 DEF Migrate
  <2>4. CASE o.legacy # None /\ o.legacy.nodes[id] # "unknown"
    <3>1. Loaded.nodes[id] = o.legacy.nodes[id] /\ o.legacy \in Data
      BY <1>2, <2>1, <2>4 DEF Loaded, LoadLegacy
    <3>2. o.legacy.nodes[id] # "hidden"
      BY <1>3, <2>3, <2>4 DEF LegacyHidesNone
    <3>. QED
      BY <2>4, <3>1, <3>2 DEF Data
  <2>5. CASE ~(o.legacy # None /\ o.legacy.nodes[id] # "unknown")
    BY <1>2, <1>3, <2>5 DEF Loaded, LoadLegacy
  <2>. QED
    BY <2>4, <2>5
<1>. QED
  BY <1>1, <1>3 DEF CInv, LoadedVisible, VisibleIn

\* With nothing left to migrate, a tab will cache what the storage has.
LEMMA MigratedVisible ==
    ASSUME stored \in Data, old = Migrated
    PROVE  LoadedVisible = VisibleIn(Loaded)
BY LoadedMigrated DEF LoadedVisible, Migrate, Migrated

LEMMA NextCInv == IInv /\ IInv' /\ CInv /\ [Next]_vars => CInv'
<1>. SUFFICES ASSUME IInv, IInv', CInv, [Next]_vars
              PROVE  CInv'
  OBVIOUS
<1>. USE ManagerStorageAssumption
<1>. USE DEF CInv, CachesAreTrue
\* In a step of a loaded tab nothing is left to migrate.
<1>0. old' = Migrated => (LoadedVisible = VisibleIn(Loaded))'
  BY DEF IInv, TypeOK, LoadedVisible, VisibleIn, Loaded, LoadLegacy, Migrate, Migrated, Data
<1>1. ASSUME NEW t \in Tabs, Initialize(t)
      PROVE  CInv'
  <2>1. /\ stored' = Loaded /\ old' = Migrated
        /\ tabs' = [tabs EXCEPT ![t] = [loaded |-> TRUE, labels |-> Loaded.labels,
                                        visible |-> LoadedVisible, open |-> Nothing,
                                        behind |-> {}]]
    BY <1>1 DEF Initialize, Migrated
  <2>2. \A u \in Tabs : tabs[u].loaded => Loaded = stored
    BY LoadedMigrated DEF IInv, TypeOK, LoadedFirst
  <2>3. CacheOnlyBehindOthers'
    BY <2>1, <2>2 DEF CacheOnlyBehindOthers, GetLabelInfo, IInv, TypeOK
  <2>4. LocalVisorsKnown'
    BY <2>1, <2>2 DEF LocalVisorsKnown, VisibleIn, IInv, TypeOK
  <2>. QED
    BY <1>0, <2>1, <2>3, <2>4
\* Labels change in the storage and in the cache of one tab.
<1>2. ASSUME NEW t \in Tabs, NEW S \in SUBSET Ids, NEW l \in Label, NEW open,
             SaveLabel(t, S, l, open), tabs[t].loaded, old' = old
      PROVE  CInv'
  <2>1. /\ stored' = [stored EXCEPT !.labels = SavedLabels(t, S, l)]
        /\ stored' \in Data /\ stored \in Data /\ old' = Migrated
    BY <1>2 DEF SaveLabel, IInv, TypeOK, LoadedFirst
  <2>2. /\ tabs'[t].loaded = tabs[t].loaded /\ tabs'[t].visible = tabs[t].visible
        /\ tabs'[t].labels = CachedLabels(t, S, l) /\ tabs'[t].behind = tabs[t].behind \ S
    BY <1>2 DEF SaveLabel, Behind, IInv, TypeOK, Cache
  <2>3. ASSUME NEW u \in Tabs, u # t
        PROVE  /\ tabs'[u].loaded = tabs[u].loaded /\ tabs'[u].visible = tabs[u].visible
               /\ tabs'[u].labels = tabs[u].labels /\ tabs'[u].behind = tabs[u].behind \union S
    BY <1>2, <2>3 DEF SaveLabel, Behind, IInv, TypeOK, Cache
  <2>4. ASSUME NEW u \in Tabs, tabs'[u].loaded, NEW id \in Ids \ tabs'[u].behind
        PROVE  tabs'[u].labels[id] = stored'.labels[id]
    <3>1. tabs[u].loaded /\ (id \notin tabs[u].behind => tabs[u].labels[id] = stored.labels[id])
      BY <2>2, <2>3, <2>4 DEF CacheOnlyBehindOthers, GetLabelInfo
    <3>2. stored'.labels[id] = IF id \in S THEN l ELSE stored.labels[id]
      BY <2>1 DEF SavedLabels, Data
    <3>3. CASE u = t
      BY <2>2, <2>4, <3>1, <3>2, <3>3 DEF CachedLabels
    <3>4. CASE u # t
      BY <2>3, <2>4, <3>1, <3>2, <3>4
    <3>. QED
      BY <3>3, <3>4
  <2>5. tabs'[ListTab].loaded = tabs[ListTab].loaded /\ tabs'[ListTab].visible = tabs[ListTab].visible
    BY <2>2, <2>3
  <2>6. VisibleIn(stored') = VisibleIn(stored)
    BY <2>1 DEF VisibleIn, Data
  <2>. QED
    BY <1>0, <2>1, <2>4, <2>5, <2>6 DEF CacheOnlyBehindOthers, LocalVisorsKnown, GetLabelInfo
\* A dialog opens or closes, or nothing changes in the tabs.
<1>3. ASSUME UNCHANGED <<stored, old>>,
             \A u \in Tabs : /\ tabs'[u].loaded = tabs[u].loaded /\ tabs'[u].visible = tabs[u].visible
                            /\ tabs'[u].labels = tabs[u].labels /\ tabs'[u].behind = tabs[u].behind
      PROVE  CInv'
  <2>1. (LoadedVisible = VisibleIn(Loaded))'
    BY <1>3 DEF LoadedVisible, Loaded, LoadLegacy, Migrate, VisibleIn
  <2>2. CacheOnlyBehindOthers'
    BY <1>3 DEF CacheOnlyBehindOthers, GetLabelInfo
  <2>3. LocalVisorsKnown'
    BY <1>3 DEF LocalVisorsKnown, VisibleIn
  <2>. QED
    BY <2>1, <2>2, <2>3
<1>4. ASSUME NEW t \in Tabs, NEW what, OpenIn(t, what), UNCHANGED <<stored, old>>
      PROVE  CInv'
  <2>1. \A u \in Tabs : /\ tabs'[u].loaded = tabs[u].loaded /\ tabs'[u].visible = tabs[u].visible
                         /\ tabs'[u].labels = tabs[u].labels /\ tabs'[u].behind = tabs[u].behind
    BY <1>4 DEF OpenIn, IInv, TypeOK, Cache
  <2>. QED
    BY <1>3, <1>4, <2>1
\* The visors of some ids become visible or hidden, in the storage and in the
\* cache of the tab with the list.
<1>5. ASSUME NEW S \in SUBSET Ids, NEW value \in {"visible", "hidden"}, tabs[ListTab].loaded, old' = old,
             stored' = [stored EXCEPT !.nodes = StoredNodes(S, value)],
             tabs'[ListTab].visible = VisibleAfter(tabs[ListTab].visible, S, value),
             \A u \in Tabs : /\ tabs'[u].loaded = tabs[u].loaded
                            /\ tabs'[u].labels = tabs[u].labels /\ tabs'[u].behind = tabs[u].behind
      PROVE  CInv'
  <2>1. stored \in Data /\ old' = Migrated /\ stored'.labels = stored.labels
    BY <1>5 DEF IInv, TypeOK, LoadedFirst, Data
  <2>2. CacheOnlyBehindOthers'
    BY <1>5, <2>1 DEF CacheOnlyBehindOthers, GetLabelInfo
  <2>3. VisibleIn(stored') = VisibleAfter(VisibleIn(stored), S, value)
    BY <1>5, <2>1 DEF VisibleIn, VisibleAfter, StoredNodes, Data
  <2>4. LocalVisorsKnown'
    BY <1>5, <2>3 DEF LocalVisorsKnown
  <2>. QED
    BY <1>0, <2>1, <2>2, <2>4
<1>6. ASSUME NEW S \in SUBSET Ids, SetHidden(S, Nothing), tabs[ListTab].loaded
      PROVE  CInv'
  <2>1. /\ old' = old /\ stored' = [stored EXCEPT !.nodes = StoredNodes(S, "hidden")]
        /\ tabs' = [tabs EXCEPT ![ListTab] = [tabs[ListTab] EXCEPT
               !.visible = VisibleAfter(tabs[ListTab].visible, S, "hidden"), !.open = Nothing]]
    BY <1>6 DEF SetHidden
  <2>2. tabs'[ListTab].visible = VisibleAfter(tabs[ListTab].visible, S, "hidden")
    BY <2>1 DEF IInv, TypeOK, Cache
  <2>3. \A u \in Tabs : /\ tabs'[u].loaded = tabs[u].loaded
                         /\ tabs'[u].labels = tabs[u].labels /\ tabs'[u].behind = tabs[u].behind
    BY <2>1 DEF IInv, TypeOK, Cache
  <2>. QED
    BY <1>5, <1>6, <2>1, <2>2, <2>3
<1>7. CASE Answer
  <2>1. PICK S \in SUBSET Ids : S = Online(asked)
    BY DEF Online
  <2>2. /\ old' = old /\ stored' = [stored EXCEPT !.nodes = StoredNodes(S, "visible")]
        /\ tabs' = [tabs EXCEPT ![ListTab] = [tabs[ListTab] EXCEPT
               !.visible = VisibleAfter(tabs[ListTab].visible, S, "visible")]]
        /\ tabs[ListTab].loaded
    BY <1>7, <2>1 DEF Answer, IInv, LoadedFirst
  <2>3. tabs'[ListTab].visible = VisibleAfter(tabs[ListTab].visible, S, "visible")
    BY <2>2 DEF IInv, TypeOK, Cache
  <2>4. \A u \in Tabs : /\ tabs'[u].loaded = tabs[u].loaded
                         /\ tabs'[u].labels = tabs[u].labels /\ tabs'[u].behind = tabs[u].behind
    BY <2>2 DEF IInv, TypeOK, Cache
  <2>. QED
    BY <1>5, <2>2, <2>3, <2>4
<1>8. ASSUME NEW t \in Tabs, NEW l \in Label, Save(t, l)
      PROVE  CInv'
  <2>1. PICK o \in Open : o = tabs[t].open
    BY DEF IInv, TypeOK, Cache
  <2>2. o.is = "edit" /\ old' = old
    BY <1>8, <2>1 DEF Save
  <2>3. {o.id} \in SUBSET Ids /\ tabs[t].loaded
    BY <2>1, <2>2, OpenFields DEF IInv, LoadedFirst
  <2>4. CASE l # o.label
    BY <1>2, <1>8, <2>1, <2>2, <2>3, <2>4 DEF Save
  <2>5. CASE l = o.label
    BY <1>4, <1>8, <2>1, <2>2, <2>5 DEF Save
  <2>. QED
    BY <2>4, <2>5
<1>9. ASSUME NEW t \in Tabs, NEW id \in Ids, RemoveLabel(t, id)
      PROVE  CInv'
  BY <1>2, <1>9 DEF RemoveLabel, Free, Label
<1>10. ASSUME NEW t \in Tabs, NEW S \in SUBSET Ids, DeleteLabels(t, S)
       PROVE  CInv'
  <2>1. PICK o \in Open : o = tabs[t].open
    BY DEF IInv, TypeOK, Cache
  <2>2. tabs[t].loaded
    BY <1>10, <2>1, OpenFields DEF DeleteLabels, IInv, LoadedFirst
  <2>3. PICK page : page = LabelPage({id \in Ids \ S : stored.labels[id] # None})
    OBVIOUS
  <2>4. SaveLabel(t, S, None, page) /\ old' = old /\ None \in Label
    BY <1>10, <2>3 DEF DeleteLabels, Label
  <2>. QED
    BY <1>2, <2>2, <2>4
<1>11. CASE DeleteNode
  <2>1. PICK o \in Open : o = tabs[ListTab].open
    BY DEF IInv, TypeOK, Cache
  <2>2. o.is = "delete" /\ SetHidden({o.id}, Nothing)
    BY <1>11, <2>1 DEF DeleteNode
  <2>3. {o.id} \in SUBSET Ids /\ tabs[ListTab].loaded
    BY <2>1, <2>2, OpenFields DEF IInv, LoadedFirst
  <2>. QED
    BY <1>6, <2>2, <2>3
<1>12. ASSUME NEW Filter \in SUBSET Ids, RemoveOffline(Filter)
       PROVE  CInv'
  <2>1. PICK S \in SUBSET Ids : S = Filter \intersect Offline(shown)
    OBVIOUS
  <2>. QED
    BY <1>6, <1>12, <2>1 DEF RemoveOffline, Free
<1>13. ASSUME NEW t \in Tabs, NEW id \in Ids, EditLabel(t, id)
       PROVE  CInv'
  <2>1. PICK what : what = Edit(id, GetLabelInfo(t, id))
    OBVIOUS
  <2>. QED
    BY <1>4, <1>13, <2>1 DEF EditLabel
<1>14. ASSUME NEW t \in Tabs, LoadLabels(t)
       PROVE  CInv'
  <2>1. PICK what : what = LabelPage({id \in Ids : stored.labels[id] # None})
    OBVIOUS
  <2>. QED
    BY <1>4, <1>14, <2>1 DEF LoadLabels
<1>15. ASSUME NEW t \in Tabs, CloseDialog(t)
       PROVE  CInv'
  BY <1>4, <1>15 DEF CloseDialog
<1>16. ASSUME NEW id \in Ids, AskDelete(id)
       PROVE  CInv'
  BY <1>4, <1>16 DEF AskDelete
<1>17. CASE Ask \/ StatusChanges \/ UNCHANGED vars
  BY <1>3, <1>17 DEF Ask, StatusChanges, vars
<1>. QED
  BY <1>1, <1>7, <1>8, <1>9, <1>10, <1>11, <1>12, <1>13, <1>14, <1>15, <1>16, <1>17 DEF Next, User

\* A tab shows a label that is not the stored one only for an id that another
\* tab changed, and the tab with the list knows the local visors, unless an
\* entry of the oldest format hides one that was visible (StorageService).
THEOREM CachesCorrect == LegacyHidesNone => (Spec => []CachesAreTrue)
<1>. SUFFICES ASSUME LegacyHidesNone
              PROVE  Spec => []CachesAreTrue
  OBVIOUS
<1>1. Init => CInv
  BY InitCInv
<1>2. IInv /\ IInv' /\ CInv /\ [Next]_vars => CInv'
  BY NextCInv
<1>3. CInv => CachesAreTrue
  BY DEF CInv
<1>. QED
  BY <1>1, <1>2, <1>3, AlwaysIInv, PTL DEF Spec
=============================================================================
