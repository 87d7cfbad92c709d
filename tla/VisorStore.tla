------------------------------ MODULE VisorStore ------------------------------
(***************************************************************************)
(* What the manager promises about the data it keeps in the browser: one   *)
(* label per id, which only the user changes, and the visors the user took *)
(* off the list, "until seeing them online again".  There are no tabs, no  *)
(* caches and no formats here; ManagerStorage implements this.             *)
(***************************************************************************)
CONSTANTS Ids, Labels, None

VARIABLES
    labels,   \* the label of each id, or None
    hidden,   \* the visors that were taken off the list
    online,   \* the visors that are online
    seen      \* the ones that were online since they were hidden

store == <<labels, hidden, online, seen>>

Init ==
    /\ labels \in [Ids -> Labels \union {None}]
    /\ hidden \in SUBSET Ids /\ online \in SUBSET Ids /\ seen = online

\* The user gives an id a label, or none.
SetLabel(id, l) ==
    /\ labels' = [labels EXCEPT ![id] = l]
    /\ UNCHANGED <<hidden, online, seen>>

\* The user removes the labels of several ids.
RemoveLabels(S) ==
    /\ labels' = [id \in Ids |-> IF id \in S THEN None ELSE labels[id]]
    /\ UNCHANGED <<hidden, online, seen>>

\* The user takes visors off the list.
Hide(S) ==
    /\ hidden' = hidden \union S
    /\ seen' = (seen \ S) \union (online \intersect S)
    /\ UNCHANGED <<labels, online>>

\* Visors come back: each hidden one was online after it was hidden.
Show(S) ==
    /\ S \intersect hidden \subseteq seen
    /\ hidden' = hidden \ S
    /\ UNCHANGED <<labels, online, seen>>

\* Visors connect and disconnect.
Visors ==
    /\ online' \in SUBSET Ids
    /\ seen' = seen \union online'
    /\ UNCHANGED <<labels, hidden>>

Next ==
    \/ \E id \in Ids, l \in Labels \union {None} : SetLabel(id, l)
    \/ \E S \in SUBSET Ids : RemoveLabels(S) \/ Hide(S) \/ Show(S)
    \/ Visors

Spec == Init /\ [][Next]_store
===============================================================================
