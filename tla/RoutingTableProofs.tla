------------------------- MODULE RoutingTableProofs -------------------------
(***************************************************************************)
(* Proofs about the routing table, for any number of callers, any route ID *)
(* width, any set of keep-alive times and any number of rules.             *)
(***************************************************************************)
EXTENDS RoutingTable, TLAPS

\* The counter is below the largest route ID and every granted ID at most the
\* counter: what makes the next range disjoint from all earlier ones.
GrantedBelowNext ==
    /\ nextID < MaxUint32
    /\ \A c \in Callers : granted[c] \subseteq 1 .. nextID

\* The inductive invariant.
IInv == TypeOK /\ ActivityTracked /\ UniqueIDs /\ GrantedBelowNext

\* Ages never leave their range and never go back as time passes.
LEMMA NextAgeType == \A age \in Ages : NextAge(age) \in Ages /\ NextAge(age) >= age
  BY ConstantsAssumption DEF NextAge, Ages

\* Initially nothing is stored or granted.
LEMMA InitIInv == Init => IInv
  <1> SUFFICES ASSUME Init PROVE IInv
    OBVIOUS
  <1>1. TypeOK
    BY ConstantsAssumption DEF Init, TypeOK, RouteID
  <1>2. ActivityTracked /\ UniqueIDs
    BY DEF Init, ActivityTracked, UniqueIDs
  <1>3. GrantedBelowNext
    BY ConstantsAssumption DEF Init, GrantedBelowNext
  <1> QED
    BY <1>1, <1>2, <1>3 DEF IInv

\* Removing keys from both maps keeps types and equal domains.
LEMMA DelRuleKeeps ==
    ASSUME TypeOK, ActivityTracked, NEW keys, delRule(keys)
    PROVE  /\ DOMAIN rules' = DOMAIN rules \ keys
           /\ DOMAIN activity' = DOMAIN rules \ keys
           /\ rules' \in [DOMAIN rules' -> Rules]
           /\ activity' \in [DOMAIN activity' -> Ages]
           /\ \A k \in DOMAIN rules' : rules'[k] = rules[k] /\ activity'[k] = activity[k]
  <1>1. rules \in [DOMAIN rules -> Rules] /\ activity \in [DOMAIN activity -> Ages]
    BY DEF TypeOK
  <1>2. DOMAIN activity = DOMAIN rules
    BY DEF ActivityTracked
  <1>3. rules' = [x \in DOMAIN rules \ keys |-> rules[x]]
    BY DEF delRule, Restrict
  <1>4. activity' = [x \in DOMAIN rules \ keys |-> activity[x]]
    BY <1>2 DEF delRule, Restrict
  <1>5. DOMAIN rules' = DOMAIN rules \ keys /\ DOMAIN activity' = DOMAIN rules \ keys
    BY <1>3, <1>4
  <1>6. rules' \in [DOMAIN rules' -> Rules] /\ activity' \in [DOMAIN activity' -> Ages]
    BY <1>1, <1>2, <1>3, <1>4
  <1>7. \A k \in DOMAIN rules' : rules'[k] = rules[k] /\ activity'[k] = activity[k]
    BY <1>3, <1>4
  <1> QED
    BY <1>5, <1>6, <1>7

\* Every step preserves the invariant: one step per action.
LEMMA NextIInv == IInv /\ [Next]_vars => IInv'
  <1> SUFFICES ASSUME IInv, [Next]_vars PROVE IInv'
    OBVIOUS
  <1> USE DEF IInv
  <1>1. ASSUME NEW c \in Callers, NEW n \in 0 .. MaxReserve, ReserveKeys(c, n)
        PROVE  IInv'
    <2>1. nextID \in Nat /\ n \in Nat /\ MaxUint32 \in Nat
      BY ConstantsAssumption DEF TypeOK, RouteID
    <2>2. nextID + n < MaxUint32
      BY <1>1, <2>1 DEF ReserveKeys
    <2>3. nextID' = nextID + n
      BY <1>1, <2>1, <2>2 DEF ReserveKeys
    <2>4. granted' = [granted EXCEPT ![c] = @ \cup ((nextID + 1) .. (nextID + n))]
      BY <1>1, <2>3 DEF ReserveKeys
    <2>5. UNCHANGED <<rules, activity, saving, deleting>>
      BY <1>1 DEF ReserveKeys
    <2>6. TypeOK'
      <3>1. nextID' \in RouteID
        BY <2>1, <2>2, <2>3 DEF RouteID
      <3>2. (nextID + 1) .. (nextID + n) \subseteq RouteID
        BY <2>1, <2>2 DEF RouteID
      <3>3. granted' \in [Callers -> SUBSET RouteID]
        BY <2>4, <3>2 DEF TypeOK
      <3> QED
        BY <3>1, <3>3, <2>5 DEF TypeOK
    <2>7. GrantedBelowNext'
      <3>1. \A d \in Callers : granted'[d] \subseteq granted[d] \cup ((nextID + 1) .. (nextID + n))
        BY <2>4 DEF TypeOK
      <3>2. (1 .. nextID) \cup ((nextID + 1) .. (nextID + n)) \subseteq 1 .. (nextID + n)
        BY <2>1
      <3>3. \A d \in Callers : granted'[d] \subseteq 1 .. (nextID + n)
        BY <3>1, <3>2 DEF GrantedBelowNext
      <3> QED
        BY <2>2, <2>3, <3>3 DEF GrantedBelowNext
    <2>8. UniqueIDs'
      <3>1. ((nextID + 1) .. (nextID + n)) \cap (1 .. nextID) = {}
        BY <2>1
      <3>2. \A d \in Callers : ((nextID + 1) .. (nextID + n)) \cap granted[d] = {}
        BY <3>1 DEF GrantedBelowNext
      <3>3. \A d \in Callers :
                granted'[d] = IF d = c THEN granted[d] \cup ((nextID + 1) .. (nextID + n))
                                       ELSE granted[d]
        BY <2>4 DEF TypeOK
      <3> QED
        BY <3>2, <3>3 DEF UniqueIDs
    <2>9. ActivityTracked'
      BY <2>5 DEF ActivityTracked
    <2> QED
      BY <2>6, <2>7, <2>8, <2>9
  <1>2. ASSUME NEW rule \in Rules, SaveRuleStart(rule)
        PROVE  IInv'
    <2>1. saving' \subseteq [rule : Rules, age : Ages]
      <3>1. 0 \in Ages
        BY ConstantsAssumption DEF Ages
      <3>2. [rule |-> rule, age |-> 0] \in [rule : Rules, age : Ages]
        BY <3>1
      <3> QED
        BY <1>2, <3>2 DEF SaveRuleStart, TypeOK
    <2>2. UNCHANGED <<nextID, rules, activity, granted, deleting>>
      BY <1>2 DEF SaveRuleStart
    <2> QED
      BY <2>1, <2>2 DEF TypeOK, ActivityTracked, UniqueIDs, GrantedBelowNext
  <1>3. ASSUME NEW call \in saving, SaveRule(call)
        PROVE  IInv'
    <2>1. call.rule \in Rules /\ call.age \in Ages /\ call.rule.key \in RouteID
      BY DEF TypeOK, Rules
    <2>2. /\ DOMAIN rules' = DOMAIN rules \cup {call.rule.key}
          /\ rules' \in [DOMAIN rules' -> Rules]
      BY <1>3, <2>1 DEF SaveRule, TypeOK, Put
    <2>3. /\ DOMAIN activity' = DOMAIN activity \cup {call.rule.key}
          /\ activity' \in [DOMAIN activity' -> Ages]
      BY <1>3, <2>1 DEF SaveRule, TypeOK, Put
    <2>4. saving' \subseteq saving /\ UNCHANGED <<nextID, granted, deleting>>
      BY <1>3 DEF SaveRule
    <2> QED
      BY <2>1, <2>2, <2>3, <2>4 DEF TypeOK, ActivityTracked, UniqueIDs, GrantedBelowNext
  <1>4. ASSUME NEW k \in RouteID, Rule(k) \/ UpdateActivity(k)
        PROVE  IInv'
    <2>1. k \in DOMAIN rules /\ k \in DOMAIN activity
      BY <1>4 DEF Rule, UpdateActivity, ActivityTracked, TypeOK
    <2>2. 0 \in Ages
      BY ConstantsAssumption DEF Ages
    <2>3. activity' = activity \/ activity' = Put(activity, k, 0)
      BY <1>4 DEF Rule, UpdateActivity
    <2>4. /\ DOMAIN activity' = DOMAIN activity
          /\ activity' \in [DOMAIN activity' -> Ages]
      BY <2>1, <2>2, <2>3 DEF TypeOK, Put
    <2>5. UNCHANGED <<nextID, rules, granted, saving, deleting>>
      BY <1>4 DEF Rule, UpdateActivity
    <2> QED
      BY <2>4, <2>5 DEF TypeOK, ActivityTracked, UniqueIDs, GrantedBelowNext
  <1>5. ASSUME NEW c \in Callers, NEW keys \in SUBSET RouteID, DelRulesStart(c, keys)
        PROVE  IInv'
    BY <1>5 DEF DelRulesStart, TypeOK, ActivityTracked, UniqueIDs, GrantedBelowNext
  <1>6. ASSUME NEW c \in Callers, NEW k \in RouteID, DelRule(c, k)
        PROVE  IInv'
    <2>1. /\ DOMAIN rules' = DOMAIN rules \ {k} /\ DOMAIN activity' = DOMAIN rules \ {k}
          /\ rules' \in [DOMAIN rules' -> Rules] /\ activity' \in [DOMAIN activity' -> Ages]
      BY <1>6, DelRuleKeeps DEF DelRule
    <2>2. deleting' \in [Callers -> SUBSET RouteID] /\ UNCHANGED <<nextID, granted, saving>>
      BY <1>6 DEF DelRule, TypeOK
    <2> QED
      BY <2>1, <2>2 DEF TypeOK, ActivityTracked, UniqueIDs, GrantedBelowNext
  <1>7. CASE CollectGarbage
    <2>1. /\ DOMAIN rules' = DOMAIN rules \ RulesTimedOut
          /\ DOMAIN activity' = DOMAIN rules \ RulesTimedOut
          /\ rules' \in [DOMAIN rules' -> Rules] /\ activity' \in [DOMAIN activity' -> Ages]
      BY <1>7, DelRuleKeeps DEF CollectGarbage
    <2>2. UNCHANGED <<nextID, granted, saving, deleting>>
      BY <1>7 DEF CollectGarbage
    <2> QED
      BY <2>1, <2>2 DEF TypeOK, ActivityTracked, UniqueIDs, GrantedBelowNext
  <1>8. CASE Tick
    <2>1. DOMAIN activity' = DOMAIN activity /\ activity' \in [DOMAIN activity' -> Ages]
      BY <1>8, NextAgeType DEF Tick, TypeOK
    <2>2. saving' \subseteq [rule : Rules, age : Ages]
      <3>1. \A call \in saving : call.rule \in Rules /\ NextAge(call.age) \in Ages
        BY NextAgeType DEF TypeOK
      <3> QED
        BY <1>8, <3>1 DEF Tick
    <2>3. UNCHANGED <<nextID, rules, granted, deleting>>
      BY <1>8 DEF Tick
    <2> QED
      BY <2>1, <2>2, <2>3 DEF TypeOK, ActivityTracked, UniqueIDs, GrantedBelowNext
  <1>9. CASE UNCHANGED vars
    BY <1>9 DEF vars, TypeOK, ActivityTracked, UniqueIDs, GrantedBelowNext
  <1> QED
    BY <1>1, <1>2, <1>3, <1>4, <1>5, <1>6, <1>7, <1>8, <1>9 DEF Next

\* The inductive invariant holds in every reachable state.
THEOREM Invariance == Spec => []IInv
  BY InitIInv, NextIInv, PTL DEF Spec

\* The state of the routing table keeps its types.
THEOREM TypeCorrect == Spec => []TypeOK
  <1>1. IInv => TypeOK
    BY DEF IInv
  <1> QED
    BY Invariance, <1>1, PTL

\* ReserveKeys never hands out a route ID twice, up to the exhaustion of the counter.
THEOREM IDsAreUnique == Spec => []UniqueIDs
  <1>1. IInv => UniqueIDs
    BY DEF IInv
  <1> QED
    BY Invariance, <1>1, PTL

\* The loop of ReserveKeys over first..last ends: last is below the largest ID.
THEOREM ReservationLoopEnds == Spec => []ReserveLoopEnds
  <1>1. IInv => ReserveLoopEnds
    <2> SUFFICES ASSUME IInv, NEW c \in Callers PROVE MaxUint32 \notin granted[c]
      BY DEF ReserveLoopEnds
    <2>1. nextID \in Nat /\ nextID < MaxUint32 /\ MaxUint32 \in Nat
      BY ConstantsAssumption DEF IInv, TypeOK, RouteID, GrantedBelowNext
    <2>2. granted[c] \subseteq 1 .. nextID
      BY DEF IInv, GrantedBelowNext
    <2> QED
      BY <2>1, <2>2
  <1> QED
    BY Invariance, <1>1, PTL

\* rules and activity have the same keys at all times.
THEOREM ActivityIsTracked == Spec => []ActivityTracked
  <1>1. IInv => ActivityTracked
    BY DEF IInv
  <1> QED
    BY Invariance, <1>1, PTL

\* The three facts the users of the table rely on together: unique IDs below the
\* largest one, and an activity for every rule and no other.
THEOREM TableIsConsistent == Spec => []Consistent
  <1>1. UniqueIDs /\ ReserveLoopEnds /\ ActivityTracked => Consistent
    BY DEF Consistent
  <1> QED
    BY IDsAreUnique, ReservationLoopEnds, ActivityIsTracked, <1>1, PTL

\* A step other than the saving of k leaves a timed-out rule k timed out or
\* removes it.
LEMMA StepNeverRevives == IInv /\ [Next]_vars => [NeverRevivedStep]_vars
  <1> SUFFICES ASSUME IInv, Next, NEW k \in RulesTimedOut
               PROVE  \/ k \notin DOMAIN rules'
                      \/ ruleIsTimedOut(k)'
                      \/ \E call \in saving : call.rule.key = k /\ SaveRule(call)
    BY DEF NeverRevivedStep
  <1>1. k \in DOMAIN rules /\ k \in DOMAIN activity /\ activity[k] > rules[k].keepAlive
    BY DEF IInv, ActivityTracked, RulesTimedOut, ruleIsTimedOut
  <1>2. activity[k] \in Ages /\ rules[k].keepAlive \in Nat
    BY <1>1, ConstantsAssumption DEF IInv, TypeOK, Rules
  <1>3. CASE \E c \in Callers, n \in 0 .. MaxReserve : ReserveKeys(c, n)
    BY <1>1, <1>3 DEF ReserveKeys, ruleIsTimedOut
  <1>4. CASE \E rule \in Rules : SaveRuleStart(rule)
    BY <1>1, <1>4 DEF SaveRuleStart, ruleIsTimedOut
  <1>5. ASSUME NEW call \in saving, SaveRule(call)
        PROVE  ruleIsTimedOut(k)' \/ call.rule.key = k
    BY <1>1, <1>5 DEF SaveRule, Put, ruleIsTimedOut
  <1>6. ASSUME NEW i \in RouteID, Rule(i) \/ UpdateActivity(i)
        PROVE  ruleIsTimedOut(k)'
    <2>1. i # k
      BY <1>1, <1>6 DEF Rule, UpdateActivity, ruleIsTimedOut
    <2>2. activity' = activity \/ activity' = Put(activity, i, 0)
      BY <1>6 DEF Rule, UpdateActivity
    <2>3. activity'[k] = activity[k] /\ rules' = rules
      BY <1>1, <1>6, <2>1, <2>2 DEF Put, Rule, UpdateActivity
    <2> QED
      BY <1>1, <2>3 DEF ruleIsTimedOut
  <1>7. CASE \E c \in Callers, keys \in SUBSET RouteID : DelRulesStart(c, keys)
    BY <1>1, <1>7 DEF DelRulesStart, ruleIsTimedOut
  <1>8. ASSUME NEW c \in Callers, NEW i \in RouteID, DelRule(c, i)
        PROVE  k \notin DOMAIN rules' \/ ruleIsTimedOut(k)'
    BY <1>1, <1>8, DelRuleKeeps DEF DelRule, IInv, ruleIsTimedOut
  <1>9. CASE CollectGarbage
    BY <1>9, DelRuleKeeps DEF CollectGarbage, IInv
  <1>10. CASE Tick
    <2>1. activity'[k] = NextAge(activity[k]) /\ rules' = rules
      BY <1>1, <1>10 DEF Tick
    <2>2. NextAge(activity[k]) >= activity[k] /\ NextAge(activity[k]) \in Nat /\ activity[k] \in Nat
      BY <1>2, NextAgeType, ConstantsAssumption DEF Ages
    <2> QED
      BY <1>1, <1>2, <2>1, <2>2 DEF ruleIsTimedOut
  <1> QED
    BY <1>3, <1>4, <1>5, <1>6, <1>7, <1>8, <1>9, <1>10 DEF Next

\* Traffic never brings a timed-out rule back.
THEOREM TimedOutStaysOut == Spec => NeverRevived
  BY Invariance, StepNeverRevives, PTL DEF Spec, NeverRevived

\* A step that takes a rule out of the table is a collection of an idle rule or
\* an iteration of DelRules.
LEMMA StepCollectsIdle == IInv /\ [Next]_vars => [CollectedOnlyIfIdleStep]_vars
  <1> SUFFICES ASSUME IInv, Next, NEW k \in DOMAIN rules \ DOMAIN rules'
               PROVE  \/ activity[k] > rules[k].keepAlive
                      \/ \E c \in Callers : k \in deleting[c]
    BY DEF CollectedOnlyIfIdleStep
  <1>1. CASE CollectGarbage
    <2>1. k \in RulesTimedOut
      BY <1>1, DelRuleKeeps DEF CollectGarbage, IInv
    <2> QED
      BY <2>1 DEF RulesTimedOut, ruleIsTimedOut, IInv, ActivityTracked
  <1>2. ASSUME NEW c \in Callers, NEW i \in RouteID, DelRule(c, i)
        PROVE  k \in deleting[c]
    <2>1. delRule({i}) /\ i \in deleting[c]
      BY <1>2 DEF DelRule
    <2>2. DOMAIN rules' = DOMAIN rules \ {i}
      BY <2>1, DelRuleKeeps DEF IInv
    <2> QED
      BY <2>1, <2>2
  <1>3. ASSUME NEW call \in saving, SaveRule(call)
        PROVE  FALSE
    BY <1>3 DEF SaveRule, Put
  <1>4. rules' # rules
    OBVIOUS
  <1>5. \A c \in Callers, n \in 0 .. MaxReserve : ~ReserveKeys(c, n)
    BY <1>4 DEF ReserveKeys
  <1>6. \A rule \in Rules : ~SaveRuleStart(rule)
    BY <1>4 DEF SaveRuleStart
  <1>7. \A i \in RouteID : ~Rule(i) /\ ~UpdateActivity(i)
    BY <1>4 DEF Rule, UpdateActivity
  <1>8. \A c \in Callers, keys \in SUBSET RouteID : ~DelRulesStart(c, keys)
    BY <1>4 DEF DelRulesStart
  <1>9. ~Tick
    BY <1>4 DEF Tick
  <1> QED
    BY <1>1, <1>2, <1>3, <1>5, <1>6, <1>7, <1>8, <1>9 DEF Next

\* The collector removes no rule that was used within its keep-alive time.
THEOREM OnlyIdleCollected == Spec => CollectedOnlyIfIdle
  BY Invariance, StepCollectsIdle, PTL DEF Spec, CollectedOnlyIfIdle
=============================================================================
