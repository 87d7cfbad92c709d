---------------------------- MODULE MCNodeDialogs ----------------------------
(* Three visors, three servers with a history of two, logs of three entries  *)
(* of which the windows show two, lists of three elements on pages of two.   *)
EXTENDS NodeDialogs, Subsequences

MCOrder == <<"n1", "n2", "n3">>
MCProxies == <<"k1", "k2", "k3">>
MCMatchingKeys == [f \in {"", "k2"} |-> IF f = "" THEN Keys ELSE {f}]
MCFirstHistories ==
    {<<>>, <<[key |-> "k1", password |-> TRUE, note |-> "n"], [key |-> "k2", password |-> FALSE, note |-> ""]>>}

\* Picked is SelectSeq.
ASSUME PickedIsSelectSeq ==
    \A n \in 0..4 : \A s \in [1..n -> Levels], T \in SUBSET Levels :
        Picked(s, {i \in DOMAIN s : s[i] \in T}) = SelectSeq(s, LAMBDA e : e \in T)

\* A persistent transport that was not found, and one element less than there
\* may be.
MCFirst ==
    [l \in Lists |->
        CASE l = "transports" -> {[exists |-> {1, 2}, flag |-> {3}]}
          [] l = "routes" -> {[exists |-> {1, 2}, flag |-> {}]}
          [] OTHER -> {[exists |-> 1..N, flag |-> {1}]}]
==============================================================================
