---------------------------- MODULE RoutingTable ----------------------------
(***************************************************************************)
(* The in-memory routing table of a visor (pkg/routing/table.go).          *)
(*                                                                         *)
(* Route IDs are handed out by ReserveKeys, rules are stored by SaveRule,  *)
(* read by Rule, refreshed by UpdateActivity and Rule, and removed by      *)
(* DelRules and CollectGarbage.  Every method takes the table's lock, so   *)
(* one method body is one action, with two exceptions that the code makes: *)
(*                                                                         *)
(*   - SaveRule reads the clock before it takes the lock (lines 102-105),  *)
(*     so it is two actions and the time it stores may already be old;     *)
(*   - DelRules locks and unlocks once per key, so it is one action per    *)
(*     key and other calls run between two keys.                           *)
(*                                                                         *)
(* The clock is represented by ages: activity[k] is the time since the     *)
(* last activity of rule k.  Ages stop growing at MaxIdle, which is larger *)
(* than every keep-alive, so that a rule stays timed out from there on.    *)
(***************************************************************************)
EXTENDS Integers, FiniteSets, Functions

CONSTANTS
    Callers,      \* goroutines that use the table
    MaxUint32,    \* math.MaxUint32, the largest value of a RouteID
    MaxReserve,   \* largest n of a ReserveKeys call (a uint8 in the RPC)
    MaxSaves,     \* bound on the SaveRule calls in flight
    KeepAlives,   \* keep-alive times of rules
    MaxIdle       \* ages are not distinguished from here on

ASSUME ConstantsAssumption ==
    /\ MaxUint32 \in Nat \ {0}
    /\ MaxReserve \in Nat /\ MaxSaves \in Nat /\ MaxIdle \in Nat
    /\ KeepAlives \subseteq Nat
    /\ \A keepAlive \in KeepAlives : keepAlive < MaxIdle

RouteID == 0 .. MaxUint32
Ages == 0 .. MaxIdle

\* The three rule types of rule.go.
RuleReverse == 0
RuleForward == 1
RuleIntermediary == 2

RuleTypes == {RuleReverse, RuleForward, RuleIntermediary}

\* The fields of a rule the table looks at; the descriptor, the next route ID
\* and the next transport ID are carried along unread.
Rules == [type : RuleTypes, key : RouteID, keepAlive : KeepAlives]

VARIABLES
    nextID,    \* mt.nextID
    rules,     \* mt.rules, a map from route IDs to rules
    activity,  \* mt.activity, as the age of each entry
    granted,   \* the IDs each caller got from ReserveKeys
    saving,    \* SaveRule calls that have read the clock: rule and age of that reading
    deleting   \* the keys each caller's DelRules call has still to remove

vars == <<nextID, rules, activity, granted, saving, deleting>>

-----------------------------------------------------------------------------
\* A map with the entry for k set to v.
Put(f, k, v) == [x \in DOMAIN f \cup {k} |-> IF x = k THEN v ELSE f[x]]

\* Mutant of ruleIsTimedOut: times out one unit too early.
ruleIsTimedOutEarly(k) ==
    \/ k \notin DOMAIN activity
    \/ activity[k] >= rules[k].keepAlive

\* mt.ruleIsTimedOut: strictly more idle than the keep-alive allows.
ruleIsTimedOut(k) ==
    \/ k \notin DOMAIN activity
    \/ activity[k] > rules[k].keepAlive

RulesTimedOut == {k \in DOMAIN rules : ruleIsTimedOut(k)}

\* Mutant of delRule: forgets the activity entry.
delRuleOnly(keys) ==
    /\ rules' = Restrict(rules, DOMAIN rules \ keys)
    /\ UNCHANGED activity

\* mt.delRule, for a set of keys.
delRule(keys) ==
    /\ rules' = Restrict(rules, DOMAIN rules \ keys)
    /\ activity' = Restrict(activity, DOMAIN activity \ keys)

NextAge(age) == IF age = MaxIdle THEN MaxIdle ELSE age + 1

Init ==
    /\ nextID = 0
    /\ rules = [k \in {} |-> 0]
    /\ activity = [k \in {} |-> 0]
    /\ granted = [c \in Callers |-> {}]
    /\ saving = {}
    /\ deleting = [c \in Callers |-> {}]

\* Mutants of ReserveKeys: the range starts at nextID; the limit is inclusive.
ReserveKeysFromNext(c, n) ==
    /\ ~(nextID + n >= MaxUint32)
    /\ nextID' = (nextID + n) % (MaxUint32 + 1)
    /\ granted' = [granted EXCEPT ![c] = @ \cup (nextID .. nextID')]
    /\ UNCHANGED <<rules, activity, saving, deleting>>

ReserveKeysToMax(c, n) ==
    /\ ~(nextID + n > MaxUint32)
    /\ nextID' = (nextID + n) % (MaxUint32 + 1)
    /\ granted' = [granted EXCEPT ![c] = @ \cup ((nextID + 1) .. nextID')]
    /\ UNCHANGED <<rules, activity, saving, deleting>>

\* ReserveKeys(n) of caller c: n fresh IDs above nextID.  The sum is computed
\* in 64 bits for the check and in 32 bits for the assignment.
ReserveKeys(c, n) ==
    /\ ~(nextID + n >= MaxUint32)
    /\ nextID' = (nextID + n) % (MaxUint32 + 1)
    /\ granted' = [granted EXCEPT ![c] = @ \cup ((nextID + 1) .. nextID')]
    /\ UNCHANGED <<rules, activity, saving, deleting>>

\* SaveRule reads the clock before it locks the table.  Setup nodes only build
\* rules for IDs that the table reserved.
SaveRuleStart(rule) ==
    /\ Cardinality(saving) < MaxSaves
    /\ \E c \in Callers : rule.key \in granted[c]
    /\ saving' = saving \cup {[rule |-> rule, age |-> 0]}
    /\ UNCHANGED <<nextID, rules, activity, granted, deleting>>

\* Mutant of SaveRule: the stored time lies in the future.
SaveRuleAhead(call) ==
    /\ rules' = Put(rules, call.rule.key, call.rule)
    /\ activity' = Put(activity, call.rule.key, call.age - 1)
    /\ saving' = saving \ {call}
    /\ UNCHANGED <<nextID, granted, deleting>>

\* SaveRule stores the rule with the time it read.
SaveRule(call) ==
    /\ rules' = Put(rules, call.rule.key, call.rule)
    /\ activity' = Put(activity, call.rule.key, call.age)
    /\ saving' = saving \ {call}
    /\ UNCHANGED <<nextID, granted, deleting>>

\* Rule(k) when it returns a rule: only a consume rule is refreshed here.
Rule(k) ==
    /\ k \in DOMAIN rules
    /\ ~ruleIsTimedOut(k)
    /\ activity' = IF rules[k].type = RuleReverse THEN Put(activity, k, 0) ELSE activity
    /\ UNCHANGED <<nextID, rules, granted, saving, deleting>>

\* Mutant of UpdateActivity: no check for a timeout.
UpdateActivityAlways(k) ==
    /\ k \in DOMAIN rules
    /\ activity' = Put(activity, k, 0)
    /\ UNCHANGED <<nextID, rules, granted, saving, deleting>>

\* UpdateActivity(k) when it succeeds.
UpdateActivity(k) ==
    /\ k \in DOMAIN rules
    /\ ~ruleIsTimedOut(k)
    /\ activity' = Put(activity, k, 0)
    /\ UNCHANGED <<nextID, rules, granted, saving, deleting>>

\* DelRules(keys) of caller c starts; the loop order is that of any slice of keys.
DelRulesStart(c, keys) ==
    /\ deleting[c] = {}
    /\ keys \subseteq UNION {granted[d] : d \in Callers}
    /\ deleting' = [deleting EXCEPT ![c] = keys]
    /\ UNCHANGED <<nextID, rules, activity, granted, saving>>

\* One iteration of the loop in DelRules.
DelRule(c, k) ==
    /\ k \in deleting[c]
    /\ delRule({k})
    /\ deleting' = [deleting EXCEPT ![c] = @ \ {k}]
    /\ UNCHANGED <<nextID, granted, saving>>

\* Mutant of CollectGarbage: forward rules are never collected.
CollectGarbageNotForward ==
    /\ delRule({k \in RulesTimedOut : rules[k].type # RuleForward})
    /\ UNCHANGED <<nextID, granted, saving, deleting>>

\* CollectGarbage removes every rule that timed out, under one lock.
CollectGarbage ==
    /\ delRule(RulesTimedOut)
    /\ UNCHANGED <<nextID, granted, saving, deleting>>

\* Time passes for the stored rules and for the SaveRule calls in flight.
Tick ==
    /\ activity' = [k \in DOMAIN activity |-> NextAge(activity[k])]
    /\ saving' = {[rule |-> call.rule, age |-> NextAge(call.age)] : call \in saving}
    /\ UNCHANGED <<nextID, rules, granted, deleting>>

Next ==
    \/ \E c \in Callers, n \in 0 .. MaxReserve : ReserveKeys(c, n)
    \/ \E rule \in Rules : SaveRuleStart(rule)
    \/ \E call \in saving : SaveRule(call)
    \/ \E k \in RouteID : Rule(k) \/ UpdateActivity(k)
    \/ \E c \in Callers, keys \in SUBSET RouteID : DelRulesStart(c, keys)
    \/ \E c \in Callers, k \in RouteID : DelRule(c, k)
    \/ CollectGarbage
    \/ Tick

Spec == Init /\ [][Next]_vars

\* The router's rulesGCLoop calls CollectGarbage on a ticker, and time passes.
LiveSpec == Spec /\ WF_vars(CollectGarbage) /\ WF_vars(Tick)

-----------------------------------------------------------------------------
\* Every variable keeps its type: route IDs fit in 32 bits, the maps hold rules
\* and ages, and only known callers have calls in progress.
TypeOK ==
    /\ nextID \in RouteID
    /\ DOMAIN rules \subseteq RouteID
    /\ rules \in [DOMAIN rules -> Rules]
    /\ activity \in [DOMAIN activity -> Ages]
    /\ granted \in [Callers -> SUBSET RouteID]
    /\ saving \subseteq [rule : Rules, age : Ages]
    /\ deleting \in [Callers -> SUBSET RouteID]

\* Two callers of ReserveKeys never get the same route ID, although the counter
\* is shared and of 32 bits: rules of different routes never share a key.
UniqueIDs ==
    \A c, d \in Callers : c # d => granted[c] \cap granted[d] = {}

\* No granted ID is the largest RouteID: the loop of ReserveKeys runs while
\* id <= last with id of 32 bits, and would never end if last were MaxUint32.
ReserveLoopEnds == \A c \in Callers : MaxUint32 \notin granted[c]

\* rules and activity always have the same keys, through any interleaving of
\* saves, per-key deletions and collections: a stored rule is timed out only
\* because it was idle, never because its activity entry is missing.
ActivityTracked == DOMAIN activity = DOMAIN rules

\* The table is consistent, in every interleaving of its callers (ReserveKeys,
\* SaveRule, DelRules, CollectGarbage).
Consistent == UniqueIDs /\ ReserveLoopEnds /\ ActivityTracked

\* A rule that timed out is never refreshed by traffic (Rule, UpdateActivity):
\* until it is collected only a new SaveRule for the key can make it valid.
NeverRevivedStep ==
    \A k \in RulesTimedOut :
        \/ k \notin DOMAIN rules'
        \/ ruleIsTimedOut(k)'
        \/ \E call \in saving : call.rule.key = k /\ SaveRule(call)

NeverRevived == [][NeverRevivedStep]_vars

\* A rule disappears only when it was more idle than its keep-alive time or when
\* a DelRules call names it: collection never removes a rule still in use.
CollectedOnlyIfIdleStep ==
    \A k \in DOMAIN rules \ DOMAIN rules' :
        \/ activity[k] > rules[k].keepAlive
        \/ \E c \in Callers : k \in deleting[c]

CollectedOnlyIfIdle == [][CollectedOnlyIfIdleStep]_vars

\* A step that stores or refreshes rule k.
Touches(k) ==
    /\ k \in DOMAIN activity'
    /\ \/ k \notin DOMAIN activity
       \/ activity'[k] < activity[k]
       \/ activity'[k] = 0

\* A rule that from some moment on is neither saved nor refreshed does not stay
\* in the table, whatever its type: an abandoned route leaks no entries.
AbandonedRuleCollected ==
    \A k \in RouteID :
        <>[][~Touches(k)]_vars => <>[](k \notin DOMAIN rules)
=============================================================================
