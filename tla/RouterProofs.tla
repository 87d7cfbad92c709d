---------------------------- MODULE RouterProofs ----------------------------
(***************************************************************************)
(* Proofs about the router, for any edges, descriptors and plans and any   *)
(* size of the accept channel: edge rules are handed over once, and an     *)
(* open wrapped group is the one registered for its descriptor.            *)
(***************************************************************************)
EXTENDS Router, TLAPS

\* saveRouteGroupRules is past its first critical section and before its last.
InProgress == {"hello", "await", "replace", "wrap", "install"}

\* An edge in the accept channel has not been accepted before.
Waiting == \A i \in DOMAIN accept : save[accept[i]] = "none"

\* Only edges of the plan are introduced, dialed and get packets.
InPlan ==
  /\ \A e \in Incoming : intro[e] # "idle" => e \in plan.edges
  /\ \A e \in Edges : save[e] # "none" => e \in plan.edges
  /\ \A e \in rules : save[e] # "none"
  /\ pkt.at # "idle" => pkt.edge \in plan.edges /\ pkt.edge \in Edges /\ pkt.kind \in plan.kinds
  /\ pkt.at = "deliver" => pkt.group \in Edges

\* The entry of rgsRaw belongs to the call of saveRouteGroupRules in progress,
\* so that there is one for each descriptor.
RawHeld == \A e \in Edges : save[e] \in InProgress => rgsRaw[DescOf[e]] = e

\* A registered group was returned, and stays so.
Registered == \A d \in Descs : rgsNs[d] # None => save[rgsNs[d]] = "returned"

\* A call in progress knows the open group it replaces, and has closed it when it
\* begins to wrap its own (or rulesGC is about to close it).
Replaced ==
  CloseIsOwn =>
    \A e, f \in Edges :
      e # f /\ DescOf[e] = DescOf[f] /\ save[e] = "returned" /\ e \in open =>
        /\ save[f] \in {"hello", "await", "replace"} => old[f] = e \/ gcGroup = e
        /\ save[f] \in {"wrap", "install"} => gcGroup = e

\* A Close packet is handled by a group that was returned; when its entry is
\* removed, it is closed.
CloseDelivered ==
  /\ pkt.at \in {"deliver", "remove"} /\ pkt.kind = "close" =>
       /\ pkt.group \in Edges /\ save[pkt.group] = "returned"
       /\ DescOf[pkt.group] = DescOf[pkt.edge]
  /\ pkt.at = "remove" => pkt.kind = "close" /\ pkt.group \notin open
  /\ pkt.at = "lookupRaw" => pkt.kind # "close"

Packets == [at : {"idle", "lookup", "lookupRaw", "deliver", "remove", "drop"}, kind : Kinds,
            edge : Edges \cup {None}, group : Edges \cup {None}]
Groups == RawHeld /\ Registered /\ Replaced /\ CloseDelivered /\ OpenGroupRegistered
IInv == TypeOK /\ HandOver /\ Waiting /\ InPlan /\ Groups
-----------------------------------------------------------------------------
\* The invariant holds before anything was introduced, dialed or received.
LEMMA InitIInv == Init => IInv
<1>. SUFFICES ASSUME Init
              PROVE  IInv
  OBVIOUS
<1>. USE RouterAssumption DEF Init
<1>1. TypeOK
  <2>1. pkt \in Packets
    BY DEF NoPacket, Packets, Kinds
  <2>2. accept \in Seq(Incoming) /\ plan \in Plans /\ mx \in Incoming \cup {None}
    OBVIOUS
  <2>3. \A e \in Edges : old[e] = None
    OBVIOUS
  <2>. QED
    BY <2>1, <2>2, <2>3 DEF TypeOK, Packets, Edges
<1>2. HandOver /\ Waiting /\ InPlan
  BY DEF HandOver, Waiting, InPlan, NoPacket, Edges
<1>3. Groups
  BY DEF Groups, RawHeld, Registered, Replaced, CloseDelivered, OpenGroupRegistered, InProgress,
         NoPacket, Edges
<1>. QED
  BY <1>1, <1>2, <1>3 DEF IInv

\* Goto moves one call of saveRouteGroupRules.
LEMMA GotoTypes ==
  ASSUME TypeOK, NEW e \in Edges, Goto(e, "failed") \/ Goto(e, "returned") \/ Goto(e, "hello") \/
         Goto(e, "await") \/ Goto(e, "replace") \/ Goto(e, "wrap") \/ Goto(e, "install")
  PROVE  /\ save' \in [Edges -> {"none", "enter", "hello", "await", "replace", "wrap",
                                 "install", "returned", "failed"}]
         /\ cur' \in Incoming \cup {None} /\ serving' \in BOOLEAN
BY DEF TypeOK, Goto

\* Every step of the router keeps the types; the lookups of the packet goroutine
\* need that the packet has an edge.
LEMMA TypeKept == TypeOK /\ InPlan /\ [Next /\ UNCHANGED plan]_<<vars, plan>> => TypeOK'
<1>. SUFFICES ASSUME TypeOK, InPlan, Next, UNCHANGED plan
              PROVE  TypeOK'
  BY DEF vars, TypeOK
<1>. USE RouterAssumption DEF acceptVars, saveVars, gcVars
<1>1. ASSUME NEW e \in Incoming, Introduce(e)
      PROVE  TypeOK'
  <2>1. CASE IntroduceRules(e)
    BY <2>1 DEF IntroduceRules, TypeOK
  <2>2. CASE IntroduceLock(e)
    BY <2>2 DEF IntroduceLock, TypeOK
  <2>3. CASE IntroduceSend(e)
    <3>1. accept' = accept \/ accept' = Append(accept, e)
      BY <2>3 DEF IntroduceSend
    <3>2. accept' \in Seq(Incoming)
      <4>1. accept \in Seq(Incoming)
        BY DEF TypeOK
      <4>2. Append(accept, e) \in Seq(Incoming)
        BY <4>1
      <4>. QED
        BY <3>1, <4>1, <4>2
    <3>. QED
      BY <2>3, <3>2 DEF IntroduceSend, TypeOK
  <2>4. CASE IntroduceDone(e)
    BY <2>4 DEF IntroduceDone, TypeOK
  <2>. QED
    BY <1>1, <2>1, <2>2, <2>3, <2>4 DEF Introduce
<1>2. CASE AcceptRoutes
  <2>1. Head(accept) \in Incoming /\ Tail(accept) \in Seq(Incoming)
    BY <1>2 DEF AcceptRoutes, TypeOK
  <2>. QED
    BY <1>2, <2>1 DEF AcceptRoutes, TypeOK, Edges
<1>3. CASE AcceptClosed
  BY <1>3 DEF AcceptClosed, TypeOK
<1>4. ASSUME NEW e \in Dialed, DialRoutes(e)
      PROVE  TypeOK'
  BY <1>4 DEF DialRoutes, TypeOK, Edges
<1>5. ASSUME NEW e \in Edges, SaveStep(e) \/ SaveFails(e)
      PROVE  TypeOK'
  <2>0. DescOf[e] \in Descs /\ e # None
    OBVIOUS
  <2>1. CASE SaveEnter(e)
    <3>1. CASE rgsRaw[DescOf[e]] # None
      BY <2>1, <3>1, GotoTypes DEF SaveEnter, TypeOK
    <3>2. CASE rgsRaw[DescOf[e]] = None
      <4>1. /\ old' = [old EXCEPT ![e] = rgsNs[DescOf[e]]]
            /\ rgsRaw' = [rgsRaw EXCEPT ![DescOf[e]] = e]
            /\ open' = open \cup {e}
            /\ Goto(e, "hello") \/ Goto(e, "await")
        BY <2>1, <3>2 DEF SaveEnter
      <4>2. /\ old' \in [Edges -> Edges \cup {None}] /\ rgsRaw' \in [Descs -> Edges \cup {None}]
            /\ \A d \in Descs : rgsRaw'[d] = None \/ DescOf[rgsRaw'[d]] = d
            /\ \A x \in Edges : old'[x] = None \/ DescOf[old'[x]] = DescOf[x]
        BY <2>0, <4>1 DEF TypeOK
      <4>. QED
        BY <2>1, <4>1, <4>2, GotoTypes DEF SaveEnter, TypeOK
    <3>. QED
      BY <3>1, <3>2
  <2>2. CASE SendHandshake(e)
    BY <2>2, GotoTypes DEF SendHandshake, TypeOK
  <2>3. CASE AwaitHandshake(e)
    BY <2>3, GotoTypes DEF AwaitHandshake, TypeOK
  <2>4. CASE ReplaceOld(e)
    BY <2>4, GotoTypes DEF ReplaceOld, TypeOK
  <2>5. CASE Wrap(e)
    BY <2>5, GotoTypes DEF Wrap, TypeOK
  <2>6. CASE Install(e)
    BY <2>0, <2>6, GotoTypes DEF Install, TypeOK
  <2>7. CASE SaveFails(e)
    BY <2>7, GotoTypes DEF SaveFails, TypeOK
  <2>. QED
    BY <1>5, <2>1, <2>2, <2>3, <2>4, <2>5, <2>6, <2>7 DEF SaveStep
<1>6. ASSUME NEW e \in Edges, AppCloses(e)
      PROVE  TypeOK'
  BY <1>6 DEF AppCloses, TypeOK
<1>7. ASSUME NEW e \in Edges, NEW k \in Kinds, PacketArrives(e, k)
      PROVE  TypeOK'
  BY <1>7 DEF PacketArrives, TypeOK
<1>8. CASE LookupNs
  <2>1. DescOf[pkt.edge] \in Descs
    BY <1>8 DEF LookupNs, InPlan
  <2>2. rgsNs[DescOf[pkt.edge]] \in Edges \cup {None}
    BY <2>1 DEF TypeOK
  <2>3. UNCHANGED <<acceptVars, saveVars, rgsRaw, rgsNs, open, processed, rules, gcVars, panicked>>
    BY <1>8 DEF LookupNs
  <2>4. \/ pkt' = [pkt EXCEPT !.at = "deliver", !.group = rgsNs[DescOf[pkt.edge]]]
        \/ pkt' = [pkt EXCEPT !.at = "lookupRaw"] \/ pkt' = [pkt EXCEPT !.at = "drop"]
    BY <1>8 DEF LookupNs
  <2>5. pkt \in Packets
    BY DEF TypeOK, Packets
  <2>6. pkt' \in Packets
    BY <2>2, <2>4, <2>5 DEF Packets
  <2>. QED
    BY <2>3, <2>6 DEF TypeOK, Packets
<1>9. CASE LookupRaw
  <2>1. DescOf[pkt.edge] \in Descs
    BY <1>9 DEF LookupRaw, InPlan
  <2>2. rgsRaw[DescOf[pkt.edge]] \in Edges \cup {None}
    BY <2>1 DEF TypeOK
  <2>3. UNCHANGED <<acceptVars, saveVars, rgsRaw, rgsNs, open, processed, rules, gcVars, panicked>>
    BY <1>9 DEF LookupRaw
  <2>4. \/ pkt' = [pkt EXCEPT !.at = "deliver", !.group = rgsRaw[DescOf[pkt.edge]]]
        \/ pkt' = [pkt EXCEPT !.at = "drop"]
    BY <1>9 DEF LookupRaw
  <2>5. pkt \in Packets
    BY DEF TypeOK, Packets
  <2>6. pkt' \in Packets
    BY <2>2, <2>4, <2>5 DEF Packets
  <2>. QED
    BY <2>3, <2>6 DEF TypeOK, Packets
<1>10. CASE Deliver
  BY <1>10 DEF Deliver, TypeOK, InPlan, NoPacket, Kinds
<1>11. CASE RemoveNoiseRouteGroup
  BY <1>11 DEF RemoveNoiseRouteGroup, TypeOK
<1>12. CASE HandlerReturns
  BY <1>12 DEF HandlerReturns, TypeOK, NoPacket, Kinds
<1>13. CASE CollectGarbage
  BY <1>13 DEF CollectGarbage, TypeOK
<1>14. CASE PopNoiseRouteGroup
  BY <1>14 DEF PopNoiseRouteGroup, TypeOK
<1>15. CASE GCCloses
  BY <1>15 DEF GCCloses, TypeOK
<1>16. CASE Close \/ CloseAccept
  <2>1. CASE Close
    BY <2>1 DEF Close, TypeOK
  <2>2. CASE CloseAccept
    BY <2>2 DEF CloseAccept, TypeOK
  <2>. QED
    BY <1>16, <2>1, <2>2
<1>. QED
  BY <1>1, <1>2, <1>3, <1>4, <1>5, <1>6, <1>7, <1>8, <1>9, <1>10, <1>11, <1>12, <1>13, <1>14,
     <1>15, <1>16
  DEF Next, Accepting, PacketStep
-----------------------------------------------------------------------------
(* The hand-over of edge rules *)

\* A step that touches neither the mutex nor the channel nor the introductions,
\* and starts or resets no call for an introduced edge.
LEMMA HandOverFrame ==
  ASSUME HandOver, Waiting, TypeOK, UNCHANGED <<mx, accept, intro>>,
         \A e \in Incoming : (save'[e] = "none") <=> (save[e] = "none")
  PROVE  HandOver' /\ Waiting'
<1>1. \A i \in DOMAIN accept : accept[i] \in Incoming
  BY DEF TypeOK
<1>. QED
  BY <1>1 DEF HandOver, Waiting

\* An edge of IntroduceRules is in the channel or was taken from it by AcceptRoutes,
\* never both.
LEMMA HandOverKept ==
  TypeOK /\ HandOver /\ Waiting /\ [Next /\ UNCHANGED plan]_<<vars, plan>> => HandOver' /\ Waiting'
<1>. SUFFICES ASSUME TypeOK, HandOver, Waiting, Next
              PROVE  HandOver' /\ Waiting'
  BY DEF vars, HandOver, Waiting
<1>. USE RouterAssumption DEF acceptVars, saveVars, gcVars
<1>0. accept \in Seq(Incoming) /\ Incoming \subseteq Edges /\ None \notin Incoming
  BY DEF TypeOK, Edges
<1>1. ASSUME NEW e \in Incoming, IntroduceRules(e)
      PROVE  HandOver' /\ Waiting'
  BY <1>1 DEF IntroduceRules, HandOver, Waiting, TypeOK
<1>2. ASSUME NEW e \in Incoming, IntroduceLock(e)
      PROVE  HandOver' /\ Waiting'
  <2>1. /\ intro[e] = "checked" /\ mx = None /\ mx' = e /\ intro' = [intro EXCEPT ![e] = "locked"]
        /\ UNCHANGED <<accept, save>>
    BY <1>2 DEF IntroduceLock
  <2>2. \A x \in Incoming : intro'[x] = IF x = e THEN "locked" ELSE intro[x]
    BY <2>1 DEF TypeOK
  <2>3. \A x \in Incoming : (mx' = x) <=> (intro'[x] = "locked")
    BY <1>0, <2>1, <2>2 DEF HandOver
  <2>4. \A x \in Incoming : (intro'[x] = "queued") <=> (intro[x] = "queued")
    BY <2>1, <2>2
  <2>. QED
    BY <2>1, <2>3, <2>4 DEF HandOver, Waiting
<1>3. ASSUME NEW e \in Incoming, IntroduceDone(e)
      PROVE  HandOver' /\ Waiting'
  <2>1. /\ intro[e] = "locked" /\ mx' = None /\ intro' = [intro EXCEPT ![e] = "refused"]
        /\ UNCHANGED <<accept, save>>
    BY <1>3 DEF IntroduceDone
  <2>2. \A x \in Incoming : intro'[x] = IF x = e THEN "refused" ELSE intro[x]
    BY <2>1 DEF TypeOK
  <2>3. \A x \in Incoming : (mx' = x) <=> (intro'[x] = "locked")
    BY <1>0, <2>1, <2>2 DEF HandOver
  <2>4. \A x \in Incoming : (intro'[x] = "queued") <=> (intro[x] = "queued")
    BY <2>1, <2>2
  <2>. QED
    BY <2>1, <2>3, <2>4 DEF HandOver, Waiting
<1>4. ASSUME NEW e \in Incoming, IntroduceSend(e)
      PROVE  HandOver' /\ Waiting'
  <2>1. intro[e] = "locked" /\ save[e] = "none" /\ \A i \in DOMAIN accept : accept[i] # e
    BY <1>4 DEF IntroduceSend, HandOver
  <2>2. CASE accept' = Append(accept, e) /\ Len(accept) < AcceptSize
             /\ intro' = [intro EXCEPT ![e] = "queued"] /\ mx' = None /\ UNCHANGED save
    <3>1. /\ Len(accept') = Len(accept) + 1 /\ DOMAIN accept' = 1 .. Len(accept) + 1
          /\ DOMAIN accept = 1 .. Len(accept) /\ Len(accept) \in Nat
          /\ accept'[Len(accept) + 1] = e
          /\ \A i \in 1 .. Len(accept) : accept'[i] = accept[i]
      BY <1>0, <2>2
    <3>2. Len(accept') <= AcceptSize
      BY <2>2, <3>1
    <3>3. \A x \in Incoming : (mx' = x) <=> (intro'[x] = "locked")
      BY <1>0, <2>1, <2>2 DEF HandOver, TypeOK
    <3>4. ASSUME NEW x \in Incoming
          PROVE  (\E i \in DOMAIN accept' : accept'[i] = x)
                    <=> (x = e \/ \E i \in DOMAIN accept : accept[i] = x)
      <4>1. ASSUME NEW i \in DOMAIN accept', accept'[i] = x
            PROVE  x = e \/ \E j \in DOMAIN accept : accept[j] = x
        <5>1. i = Len(accept) + 1 \/ i \in 1 .. Len(accept)
          BY <3>1
        <5>. QED
          BY <3>1, <4>1, <5>1
      <4>2. ASSUME NEW i \in DOMAIN accept, accept[i] = x
            PROVE  \E j \in DOMAIN accept' : accept'[j] = x
        <5>1. i \in DOMAIN accept' /\ accept'[i] = x
          BY <3>1, <4>2
        <5>. QED
          BY <5>1
      <4>3. Len(accept) + 1 \in DOMAIN accept'
        BY <3>1
      <4>. QED
        BY <3>1, <4>1, <4>2, <4>3
    <3>5. \A x \in Incoming :
            (intro'[x] = "queued") <=> (save'[x] # "none" \/ \E i \in DOMAIN accept' : accept'[i] = x)
      BY <2>1, <2>2, <3>4 DEF HandOver, TypeOK
    <3>6. \A i, j \in DOMAIN accept' : accept'[i] = accept'[j] => i = j
      <4>. SUFFICES ASSUME NEW i \in DOMAIN accept', NEW j \in DOMAIN accept', accept'[i] = accept'[j]
                    PROVE  i = j
        OBVIOUS
      <4>1. (i = Len(accept) + 1 \/ i \in 1 .. Len(accept)) /\ (j = Len(accept) + 1 \/ j \in 1 .. Len(accept))
        BY <3>1
      <4>2. CASE i \in 1 .. Len(accept) /\ j \in 1 .. Len(accept)
        BY <3>1, <4>2 DEF HandOver
      <4>3. CASE i = Len(accept) + 1 /\ j \in 1 .. Len(accept)
        BY <2>1, <3>1, <4>3
      <4>4. CASE j = Len(accept) + 1 /\ i \in 1 .. Len(accept)
        BY <2>1, <3>1, <4>4
      <4>. QED
        BY <4>1, <4>2, <4>3, <4>4
    <3>7. \A i \in DOMAIN accept' : save'[accept'[i]] = "none"
      <4>. SUFFICES ASSUME NEW i \in DOMAIN accept'
                    PROVE  save[accept'[i]] = "none"
        BY <2>2
      <4>1. i = Len(accept) + 1 \/ i \in 1 .. Len(accept)
        BY <3>1
      <4>. QED
        BY <2>1, <3>1, <4>1 DEF Waiting
    <3>. QED
      BY <3>2, <3>3, <3>5, <3>6, <3>7 DEF HandOver, Waiting
  <2>3. CASE UNCHANGED <<mx, accept, intro, save>>
    BY <2>3, HandOverFrame
  <2>. QED
    BY <1>4, <2>2, <2>3 DEF IntroduceSend
<1>5. CASE AcceptRoutes
  <2>. DEFINE h == Head(accept)
  <2>1. /\ accept # <<>> /\ accept' = Tail(accept) /\ UNCHANGED <<mx, intro>>
        /\ save' = [save EXCEPT ![h] = "enter"]
    BY <1>5 DEF AcceptRoutes
  <2>2. /\ Len(accept) \in Nat /\ DOMAIN accept = 1 .. Len(accept) /\ 1 \in DOMAIN accept
        /\ h = accept[1] /\ h \in Incoming
        /\ Len(accept') = Len(accept) - 1 /\ DOMAIN accept' = 1 .. Len(accept) - 1
        /\ \A i \in 1 .. Len(accept) - 1 : accept'[i] = accept[i + 1]
    BY <1>0, <2>1
  <2>. HIDE DEF h
  <2>3. \A i \in DOMAIN accept' : i + 1 \in DOMAIN accept /\ accept'[i] = accept[i + 1]
    BY <2>2
  <2>4. \A i \in DOMAIN accept' : accept'[i] # h
    <3>. SUFFICES ASSUME NEW i \in DOMAIN accept', accept'[i] = h
                  PROVE  FALSE
      OBVIOUS
    <3>1. i + 1 = 1
      BY <2>2, <2>3 DEF HandOver
    <3>. QED
      BY <2>2, <3>1
  <2>5. Len(accept') <= AcceptSize /\ \A x \in Incoming : (mx' = x) <=> (intro'[x] = "locked")
    BY <2>1, <2>2 DEF HandOver
  <2>6. ASSUME NEW x \in Incoming, x # h
        PROVE  (\E i \in DOMAIN accept' : accept'[i] = x) <=> (\E i \in DOMAIN accept : accept[i] = x)
    <3>1. ASSUME NEW i \in DOMAIN accept, accept[i] = x
          PROVE  i - 1 \in DOMAIN accept' /\ accept'[i - 1] = x
      <4>1. i # 1
        BY <2>2, <2>6, <3>1
      <4>2. i - 1 \in 1 .. Len(accept) - 1 /\ (i - 1) + 1 = i
        BY <2>2, <4>1
      <4>. QED
        BY <2>2, <3>1, <4>2
    <3>. QED
      BY <2>3, <3>1
  <2>7. ASSUME NEW x \in Incoming
        PROVE  (intro'[x] = "queued") <=> (save'[x] # "none" \/ \E i \in DOMAIN accept' : accept'[i] = x)
    <3>1. CASE x = h
      <4>0. \E i \in DOMAIN accept : accept[i] = x
        BY <2>2, <3>1
      <4>1. intro[x] = "queued" /\ save'[x] = "enter"
        <5>1. intro[x] = "queued"
          BY <4>0 DEF HandOver
        <5>2. save'[x] = "enter"
          BY <1>0, <2>1, <3>1 DEF TypeOK
        <5>. QED
          BY <5>1, <5>2
      <4>. QED
        BY <2>1, <4>1
    <3>2. CASE x # h
      <4>1. save'[x] = save[x]
        BY <1>0, <2>1, <3>2 DEF TypeOK
      <4>. QED
        BY <2>1, <2>6, <3>2, <4>1 DEF HandOver
    <3>. QED
      BY <3>1, <3>2
  <2>8. \A i, j \in DOMAIN accept' : accept'[i] = accept'[j] => i = j
    <3>. SUFFICES ASSUME NEW i \in DOMAIN accept', NEW j \in DOMAIN accept', accept'[i] = accept'[j]
                  PROVE  i = j
      OBVIOUS
    <3>1. i + 1 = j + 1
      BY <2>3 DEF HandOver
    <3>. QED
      BY <2>2, <3>1
  <2>9. \A i \in DOMAIN accept' : save'[accept'[i]] = "none"
    <3>1. ASSUME NEW i \in DOMAIN accept'
          PROVE  save'[accept'[i]] = "none"
      <4>1. accept'[i] \in Edges /\ save[accept'[i]] = "none"
        BY <1>0, <2>3 DEF Waiting
      <4>. QED
        BY <2>1, <2>4, <4>1 DEF TypeOK
    <3>. QED
      BY <3>1
  <2>. QED
    BY <2>5, <2>7, <2>8, <2>9 DEF HandOver, Waiting
<1>6. ASSUME NEW e \in Dialed, DialRoutes(e)
      PROVE  HandOver' /\ Waiting'
  <2>1. UNCHANGED <<mx, accept, intro>> /\ save' = [save EXCEPT ![e] = "enter"]
    BY <1>6 DEF DialRoutes
  <2>2. \A x \in Incoming : save'[x] = save[x]
    BY <1>0, <2>1 DEF TypeOK
  <2>. QED
    BY <2>1, <2>2, HandOverFrame
<1>7. ASSUME NEW e \in Edges, SaveStep(e) \/ SaveFails(e)
      PROVE  HandOver' /\ Waiting'
  <2>1. /\ UNCHANGED <<mx, accept, intro>> /\ save[e] # "none"
        /\ \E s \in InProgress \cup {"returned", "failed"} : save' = [save EXCEPT ![e] = s]
    BY <1>7
    DEF SaveStep, SaveFails, SaveEnter, SendHandshake, AwaitHandshake, ReplaceOld, Wrap, Install, Goto,
        InProgress
  <2>2. \A x \in Incoming : (save'[x] = "none") <=> (save[x] = "none")
    BY <1>0, <2>1 DEF TypeOK, InProgress
  <2>. QED
    BY <2>1, <2>2, HandOverFrame
<1>8. ASSUME UNCHANGED <<mx, accept, intro, save>>
      PROVE  HandOver' /\ Waiting'
  BY <1>8, HandOverFrame
<1>9. AcceptClosed \/ Close \/ CloseAccept \/ CollectGarbage \/ PopNoiseRouteGroup \/ GCCloses
        => UNCHANGED <<mx, accept, intro, save>>
  BY DEF AcceptClosed, Close, CloseAccept, CollectGarbage, PopNoiseRouteGroup, GCCloses
<1>10. PacketStep => UNCHANGED <<mx, accept, intro, save>>
  BY DEF PacketStep, LookupNs, LookupRaw, Deliver, RemoveNoiseRouteGroup, HandlerReturns
<1>11. ASSUME NEW e \in Edges
       PROVE  AppCloses(e) \/ (\E k \in Kinds : PacketArrives(e, k)) => UNCHANGED <<mx, accept, intro, save>>
  BY DEF AppCloses, PacketArrives
<1>. QED
  BY <1>1, <1>2, <1>3, <1>4, <1>5, <1>6, <1>7, <1>8, <1>9, <1>10, <1>11 DEF Next, Introduce, Accepting
-----------------------------------------------------------------------------
(* Only edges of the plan *)

\* What the router works on was introduced, dialed or received according to the plan.
LEMMA InPlanKept ==
  TypeOK /\ HandOver /\ InPlan /\ [Next /\ UNCHANGED plan]_<<vars, plan>> => InPlan'
<1>. SUFFICES ASSUME TypeOK, HandOver, InPlan, Next, UNCHANGED plan
              PROVE  InPlan'
  BY DEF vars, InPlan
<1>. USE RouterAssumption DEF acceptVars, saveVars, gcVars
<1>0. accept \in Seq(Incoming) /\ Incoming \subseteq Edges /\ rules \subseteq Edges
  BY DEF TypeOK, Edges
<1>1. ASSUME NEW e \in Incoming, Introduce(e)
      PROVE  InPlan'
  <2>1. UNCHANGED <<save, rules, pkt>> /\ e \in plan.edges
    BY <1>1 DEF Introduce, IntroduceRules, IntroduceLock, IntroduceSend, IntroduceDone, InPlan
  <2>2. \A x \in Incoming : x # e => intro'[x] = intro[x]
    BY <1>1 DEF Introduce, IntroduceRules, IntroduceLock, IntroduceSend, IntroduceDone, TypeOK
  <2>. QED
    BY <2>1, <2>2 DEF InPlan
<1>2. CASE AcceptRoutes
  <2>. DEFINE h == Head(accept)
  <2>1. /\ h \in Incoming /\ h \in Edges /\ UNCHANGED <<intro, pkt>>
        /\ save' = [save EXCEPT ![h] = "enter"] /\ rules' = rules \cup {h}
    BY <1>0, <1>2 DEF AcceptRoutes
  <2>2. 1 \in DOMAIN accept /\ accept[1] = h
    BY <1>0, <1>2 DEF AcceptRoutes
  <2>. HIDE DEF h
  <2>3. intro[h] = "queued"
    BY <2>1, <2>2 DEF HandOver
  <2>4. h \in plan.edges
    BY <2>1, <2>3 DEF InPlan
  <2>5. \A x \in Edges : save'[x] = IF x = h THEN "enter" ELSE save[x]
    BY <2>1 DEF TypeOK
  <2>. QED
    BY <1>0, <2>1, <2>4, <2>5 DEF InPlan
<1>3. ASSUME NEW e \in Dialed, DialRoutes(e)
      PROVE  InPlan'
  <2>1. /\ e \in Edges /\ e \in plan.edges /\ UNCHANGED <<intro, pkt>> /\ rules' = rules \cup {e}
        /\ save' = [save EXCEPT ![e] = "enter"]
    BY <1>3 DEF DialRoutes, Edges
  <2>2. \A x \in Edges : save'[x] = IF x = e THEN "enter" ELSE save[x]
    BY <2>1 DEF TypeOK
  <2>. QED
    BY <1>0, <2>1, <2>2 DEF InPlan
<1>4. ASSUME NEW e \in Edges, SaveStep(e) \/ SaveFails(e)
      PROVE  InPlan'
  <2>1. /\ UNCHANGED <<intro, rules, pkt>> /\ save[e] # "none"
        /\ \E s \in InProgress \cup {"returned", "failed"} : save' = [save EXCEPT ![e] = s]
    BY <1>4
    DEF SaveStep, SaveFails, SaveEnter, SendHandshake, AwaitHandshake, ReplaceOld, Wrap, Install, Goto,
        InProgress
  <2>2. \A x \in Edges : (save'[x] # "none") <=> (save[x] # "none")
    BY <2>1 DEF TypeOK, InProgress
  <2>. QED
    BY <1>0, <2>1, <2>2 DEF InPlan
<1>5. ASSUME NEW e \in Edges, NEW k \in Kinds, PacketArrives(e, k)
      PROVE  InPlan'
  <2>1. /\ UNCHANGED <<intro, save, rules>> /\ e \in rules /\ k \in plan.kinds
        /\ pkt' = [at |-> "lookup", kind |-> k, edge |-> e, group |-> None]
    BY <1>5 DEF PacketArrives
  <2>. QED
    BY <2>1 DEF InPlan
<1>6. CASE PacketStep
  <2>1. UNCHANGED <<intro, save>> /\ rules' \subseteq rules /\ pkt.at # "idle"
    BY <1>6 DEF PacketStep, LookupNs, LookupRaw, Deliver, RemoveNoiseRouteGroup, HandlerReturns
  <2>2. pkt \in Packets
    BY DEF TypeOK, Packets
  <2>3. CASE LookupNs
    <3>1. rgsNs[DescOf[pkt.edge]] \in Edges \cup {None}
      BY <2>1 DEF InPlan, TypeOK
    <3>2. /\ pkt'.edge = pkt.edge /\ pkt'.kind = pkt.kind
          /\ pkt'.at = "deliver" => pkt'.group \in Edges
      BY <2>2, <2>3, <3>1 DEF LookupNs, Packets
    <3>. QED
      BY <2>1, <3>2 DEF InPlan
  <2>4. CASE LookupRaw
    <3>1. rgsRaw[DescOf[pkt.edge]] \in Edges \cup {None}
      BY <2>1 DEF InPlan, TypeOK
    <3>2. /\ pkt'.edge = pkt.edge /\ pkt'.kind = pkt.kind
          /\ pkt'.at = "deliver" => pkt'.group \in Edges
      BY <2>2, <2>4, <3>1 DEF LookupRaw, Packets
    <3>. QED
      BY <2>1, <3>2 DEF InPlan
  <2>5. CASE Deliver \/ RemoveNoiseRouteGroup \/ HandlerReturns
    <3>1. \/ pkt' = NoPacket
          \/ pkt'.edge = pkt.edge /\ pkt'.kind = pkt.kind /\ pkt'.at # "deliver"
      BY <2>2, <2>5 DEF Deliver, RemoveNoiseRouteGroup, HandlerReturns, Packets
    <3>. QED
      BY <2>1, <3>1 DEF InPlan, NoPacket
  <2>. QED
    BY <1>6, <2>3, <2>4, <2>5 DEF PacketStep
<1>7. ASSUME UNCHANGED <<intro, save, pkt>>, rules' \subseteq rules
      PROVE  InPlan'
  BY <1>7 DEF InPlan
<1>8. AcceptClosed \/ Close \/ CloseAccept \/ CollectGarbage \/ PopNoiseRouteGroup \/ GCCloses
        => UNCHANGED <<intro, save, pkt>> /\ rules' \subseteq rules
  BY DEF AcceptClosed, Close, CloseAccept, CollectGarbage, PopNoiseRouteGroup, GCCloses
<1>9. ASSUME NEW e \in Edges, AppCloses(e)
      PROVE  UNCHANGED <<intro, save, pkt>> /\ rules' \subseteq rules
  BY <1>9 DEF AppCloses
<1>. QED
  BY <1>1, <1>2, <1>3, <1>4, <1>5, <1>6, <1>7, <1>8, <1>9 DEF Next, Accepting
-----------------------------------------------------------------------------
(* Open groups are registered *)

\* Steps that leave the maps alone, and at most close groups, end calls or move
\* them within one of the spans that Replaced tells apart.
LEMMA GroupsFrame ==
  ASSUME TypeOK, Groups, UNCHANGED <<plan, rgsRaw, rgsNs, old, gcGroup>>, open' \subseteq open,
         CloseDelivered',
         \A x \in Edges :
           /\ (save'[x] = "returned") <=> (save[x] = "returned")
           /\ save'[x] \in {"hello", "await", "replace"} => save[x] \in {"hello", "await", "replace"}
           /\ save'[x] \in {"wrap", "install"} => save[x] \in {"wrap", "install"}
  PROVE  Groups'
<1>1. RawHeld'
  BY DEF Groups, RawHeld, InProgress
<1>2. Registered'
  BY DEF Groups, Registered, TypeOK
<1>3. Replaced'
  BY DEF Groups, Replaced, CloseIsOwn
<1>4. OpenGroupRegistered'
  BY DEF Groups, OpenGroupRegistered, CloseIsOwn
<1>. QED
  BY <1>1, <1>2, <1>3, <1>4 DEF Groups

\* A packet keeps its group while it is not moved on.
LEMMA CloseFrame ==
  ASSUME CloseDelivered, UNCHANGED pkt, open' \subseteq open,
         \A x \in Edges : save[x] = "returned" => save'[x] = "returned"
  PROVE  CloseDelivered'
BY DEF CloseDelivered

\* saveRouteGroupRules, the packet goroutine, rulesGC and the applications keep the
\* relation between the calls in progress, the two maps and the open groups.
LEMMA GroupsKept ==
  TypeOK /\ HandOver /\ Waiting /\ InPlan /\ Groups /\ [Next /\ UNCHANGED plan]_<<vars, plan>>
    => Groups'
<1>. SUFFICES ASSUME TypeOK, HandOver, Waiting, InPlan, Groups, Next, UNCHANGED plan
              PROVE  Groups'
  BY DEF vars, Groups, RawHeld, Registered, Replaced, CloseDelivered, OpenGroupRegistered, CloseIsOwn
<1>. USE RouterAssumption DEF acceptVars, saveVars, gcVars
<1>0. /\ accept \in Seq(Incoming) /\ Incoming \subseteq Edges /\ Dialed \subseteq Edges
      /\ save \in [Edges -> {"none", "enter", "hello", "await", "replace", "wrap", "install",
                             "returned", "failed"}]
      /\ CloseDelivered
  BY DEF TypeOK, Edges, Groups
<1>1. ASSUME UNCHANGED <<save, rgsRaw, rgsNs, old, gcGroup, pkt>>, open' \subseteq open
      PROVE  Groups'
  <2>1. CloseDelivered'
    BY <1>0, <1>1, CloseFrame
  <2>. QED
    BY <1>1, <2>1, GroupsFrame
<1>2. ASSUME NEW e \in Edges, save[e] = "none", save' = [save EXCEPT ![e] = "enter"],
             UNCHANGED <<rgsRaw, rgsNs, old, gcGroup, pkt, open>>
      PROVE  Groups'
  <2>1. \A x \in Edges : save'[x] = IF x = e THEN "enter" ELSE save[x]
    BY <1>0, <1>2
  <2>2. CloseDelivered'
    BY <1>0, <1>2, <2>1, CloseFrame
  <2>. QED
    BY <1>2, <2>1, <2>2, GroupsFrame
<1>3. CASE AcceptRoutes
  <2>. DEFINE h == Head(accept)
  <2>1. /\ h \in Edges /\ 1 \in DOMAIN accept /\ accept[1] = h
        /\ save' = [save EXCEPT ![h] = "enter"]
        /\ UNCHANGED <<rgsRaw, rgsNs, old, gcGroup, pkt, open>>
    BY <1>0, <1>3 DEF AcceptRoutes
  <2>. HIDE DEF h
  <2>2. save[h] = "none"
    BY <2>1 DEF Waiting
  <2>. QED
    BY <1>2, <2>1, <2>2
<1>4. ASSUME NEW e \in Dialed, DialRoutes(e)
      PROVE  Groups'
  BY <1>0, <1>2, <1>4 DEF DialRoutes
<1>5. ASSUME NEW e \in Edges, NEW s \in {"hello", "await", "replace", "wrap", "install", "failed"},
             Goto(e, s), UNCHANGED <<rgsRaw, rgsNs, old, gcGroup, pkt>>, open' \subseteq open,
             save[e] # "returned",
             s \in {"hello", "await", "replace"} => save[e] \in {"hello", "await", "replace"},
             s \in {"wrap", "install"} => save[e] \in {"wrap", "install"}
      PROVE  Groups'
  <2>1. \A x \in Edges : save'[x] = IF x = e THEN s ELSE save[x]
    BY <1>0, <1>5 DEF Goto
  <2>2. CloseDelivered'
    <3>1. \A x \in Edges : save[x] = "returned" => save'[x] = "returned"
      BY <1>5, <2>1
    <3>. QED
      BY <1>0, <1>5, <3>1, CloseFrame
  <2>. QED
    BY <1>5, <2>1, <2>2, GroupsFrame
<1>6. ASSUME NEW e \in Edges, SaveEnter(e)
      PROVE  Groups'
  <2>1. CASE rgsRaw[DescOf[e]] # None
    BY <1>5, <1>6, <2>1 DEF SaveEnter
  <2>2. CASE rgsRaw[DescOf[e]] = None
    <3>1. PICK s \in {"hello", "await"} : Goto(e, s)
      BY <1>6, <2>2 DEF SaveEnter
    <3>2. \A x \in Edges : save'[x] = IF x = e THEN s ELSE save[x]
      BY <1>0, <3>1 DEF Goto
    <3>3. /\ \A x \in Edges : old'[x] = IF x = e THEN rgsNs[DescOf[e]] ELSE old[x]
          /\ \A d \in Descs : rgsRaw'[d] = IF d = DescOf[e] THEN e ELSE rgsRaw[d]
          /\ open' = open \cup {e} /\ save[e] = "enter"
          /\ UNCHANGED <<rgsNs, pkt, gcGroup>>
      BY <1>6, <2>2 DEF SaveEnter, TypeOK
    <3>4. RawHeld'
      BY <2>2, <3>1, <3>2, <3>3 DEF Groups, RawHeld, InProgress
    <3>5. Registered'
      BY <3>2, <3>3 DEF Groups, Registered, TypeOK
    <3>6. Replaced'
      BY <3>1, <3>2, <3>3 DEF Groups, Replaced, OpenGroupRegistered, CloseIsOwn
    <3>7. CloseDelivered'
      BY <1>0, <3>2, <3>3 DEF CloseDelivered
    <3>8. OpenGroupRegistered'
      BY <3>1, <3>2, <3>3 DEF Groups, OpenGroupRegistered, CloseIsOwn
    <3>. QED
      BY <3>4, <3>5, <3>6, <3>7, <3>8 DEF Groups
  <2>. QED
    BY <2>1, <2>2
<1>7. ASSUME NEW e \in Edges, SendHandshake(e) \/ AwaitHandshake(e) \/ Wrap(e) \/ SaveFails(e)
      PROVE  Groups'
  <2>1. PICK s \in {"hello", "await", "replace", "install", "failed"} :
          /\ Goto(e, s) /\ UNCHANGED <<rgsRaw, rgsNs, old, gcGroup, pkt>> /\ open' \subseteq open
          /\ save[e] # "returned"
          /\ s \in {"hello", "await", "replace"} => save[e] \in {"hello", "await", "replace"}
          /\ s \in {"wrap", "install"} => save[e] \in {"wrap", "install"}
    BY <1>7 DEF SendHandshake, AwaitHandshake, Wrap, SaveFails
  <2>. QED
    BY <1>5, <2>1
<1>8. ASSUME NEW e \in Edges, ReplaceOld(e)
      PROVE  Groups'
  <2>1. /\ save[e] = "replace" /\ open' = open \ {old[e]}
        /\ UNCHANGED <<rgsRaw, rgsNs, old, gcGroup, pkt>>
        /\ \A x \in Edges : save'[x] = IF x = e THEN "wrap" ELSE save[x]
    BY <1>0, <1>8 DEF ReplaceOld, Goto
  <2>2. RawHeld'
    BY <2>1 DEF Groups, RawHeld, InProgress
  <2>3. Registered'
    BY <2>1 DEF Groups, Registered, TypeOK
  <2>4. Replaced'
    BY <2>1 DEF Groups, Replaced, CloseIsOwn
  <2>5. CloseDelivered'
    BY <1>0, <2>1 DEF CloseDelivered
  <2>6. OpenGroupRegistered'
    BY <2>1 DEF Groups, OpenGroupRegistered, CloseIsOwn
  <2>. QED
    BY <2>2, <2>3, <2>4, <2>5, <2>6 DEF Groups
<1>9. ASSUME NEW e \in Edges, Install(e)
      PROVE  Groups'
  <2>1. /\ save[e] = "install" /\ UNCHANGED <<old, open, gcGroup, pkt>>
        /\ \A x \in Edges : save'[x] = IF x = e THEN "returned" ELSE save[x]
        /\ \A d \in Descs : rgsNs'[d] = IF d = DescOf[e] THEN e ELSE rgsNs[d]
        /\ \A d \in Descs : rgsRaw'[d] = IF d = DescOf[e] THEN None ELSE rgsRaw[d]
    BY <1>0, <1>9 DEF Install, Goto, TypeOK
  <2>2. \A f \in Edges : f # e /\ DescOf[f] = DescOf[e] => save[f] \notin InProgress
    BY <2>1 DEF Groups, RawHeld, InProgress
  <2>3. RawHeld'
    BY <2>1, <2>2 DEF Groups, RawHeld, InProgress
  <2>4. Registered'
    BY <2>1 DEF Groups, Registered, TypeOK
  <2>5. Replaced'
    BY <2>1, <2>2 DEF Groups, Replaced, InProgress, CloseIsOwn
  <2>6. CloseDelivered'
    BY <1>0, <2>1 DEF CloseDelivered
  <2>7. OpenGroupRegistered'
    BY <2>1 DEF Groups, Replaced, OpenGroupRegistered, CloseIsOwn
  <2>. QED
    BY <2>3, <2>4, <2>5, <2>6, <2>7 DEF Groups
<1>10. ASSUME UNCHANGED <<save, rgsRaw, rgsNs, old, gcGroup>>, open' \subseteq open, CloseDelivered'
       PROVE  Groups'
  BY <1>10, GroupsFrame
<1>11. pkt \in Packets
  BY DEF TypeOK, Packets
<1>12. CASE LookupNs
  <2>1. pkt.at = "lookup" /\ DescOf[pkt.edge] \in Descs
    BY <1>12 DEF LookupNs, InPlan
  <2>2. PICK g \in Edges \cup {None} : g = rgsNs[DescOf[pkt.edge]]
    BY <2>1 DEF TypeOK
  <2>3. g # None => save[g] = "returned" /\ DescOf[g] = DescOf[pkt.edge]
    BY <2>1, <2>2 DEF Groups, Registered, TypeOK
  <2>4. /\ UNCHANGED <<save, rgsRaw, rgsNs, old, gcGroup, open>>
        /\ pkt'.kind = pkt.kind /\ pkt'.edge = pkt.edge
        /\ \/ pkt'.at = "deliver" /\ g # None /\ pkt'.group = g
           \/ pkt'.at = "lookupRaw" /\ pkt.kind # "close"
           \/ pkt'.at = "drop"
    BY <1>11, <1>12, <2>2 DEF LookupNs, Packets
  <2>5. CloseDelivered'
    BY <2>2, <2>3, <2>4 DEF CloseDelivered
  <2>. QED
    BY <1>10, <2>4, <2>5
<1>13. CASE LookupRaw
  <2>1. /\ UNCHANGED <<save, rgsRaw, rgsNs, old, gcGroup, open>>
        /\ pkt'.kind # "close" /\ pkt'.at \in {"deliver", "drop"}
    BY <1>0, <1>11, <1>13 DEF LookupRaw, Packets, CloseDelivered
  <2>2. CloseDelivered'
    BY <2>1 DEF CloseDelivered
  <2>. QED
    BY <1>10, <2>1, <2>2
<1>14. CASE Deliver
  <2>1. UNCHANGED <<save, rgsRaw, rgsNs, old, gcGroup>> /\ open' \subseteq open
    BY <1>14 DEF Deliver
  <2>2. CloseDelivered'
    BY <1>0, <1>11, <1>14 DEF Deliver, CloseDelivered, NoPacket, Packets
  <2>. QED
    BY <1>10, <2>1, <2>2
<1>15. CASE RemoveNoiseRouteGroup
  <2>1. /\ UNCHANGED <<save, rgsRaw, old, gcGroup, open>> /\ pkt.at = "remove"
        /\ \A d \in Descs : rgsNs'[d] = IF d = DescOf[pkt.edge] THEN None ELSE rgsNs[d]
        /\ pkt'.at = "drop"
    BY <1>11, <1>15 DEF RemoveNoiseRouteGroup, TypeOK, Packets
  <2>2. RawHeld' /\ Replaced' /\ CloseDelivered'
    BY <2>1 DEF Groups, RawHeld, Replaced, CloseDelivered, CloseIsOwn
  <2>3. Registered'
    BY <2>1 DEF Groups, Registered
  <2>4. OpenGroupRegistered'
    <3>. SUFFICES ASSUME CloseIsOwn, NEW x \in Edges, save[x] = "returned", x \in open
                  PROVE  rgsNs'[DescOf[x]] = x \/ gcGroup = x
      BY <2>1 DEF OpenGroupRegistered, CloseIsOwn
    <3>1. /\ pkt.kind = "close" /\ pkt.group \notin open /\ pkt.group \in Edges
          /\ save[pkt.group] = "returned" /\ DescOf[pkt.group] = DescOf[pkt.edge]
      BY <1>0, <2>1 DEF CloseDelivered
    <3>2. "close" \in plan.kinds /\ pkt.group \in plan.edges /\ x \in plan.edges
      BY <2>1, <3>1 DEF InPlan
    <3>3. DescOf[x] # DescOf[pkt.edge]
      BY <3>1, <3>2 DEF CloseIsOwn
    <3>. QED
      BY <2>1, <3>3 DEF Groups, OpenGroupRegistered
  <2>. QED
    BY <2>2, <2>3, <2>4 DEF Groups
<1>16. CASE HandlerReturns
  <2>1. UNCHANGED <<save, rgsRaw, rgsNs, old, gcGroup, open>> /\ pkt'.at = "idle"
    BY <1>16 DEF HandlerReturns, NoPacket
  <2>2. CloseDelivered'
    BY <2>1 DEF CloseDelivered
  <2>. QED
    BY <1>10, <2>1, <2>2
<1>17. ASSUME NEW e \in Edges, NEW k \in Kinds, PacketArrives(e, k)
       PROVE  Groups'
  <2>1. UNCHANGED <<save, rgsRaw, rgsNs, old, gcGroup, open>> /\ pkt'.at = "lookup"
    BY <1>17 DEF PacketArrives
  <2>2. CloseDelivered'
    BY <2>1 DEF CloseDelivered
  <2>. QED
    BY <1>10, <2>1, <2>2
<1>18. CASE PopNoiseRouteGroup
  <2>1. PICK e \in Edges :
          /\ gcGroup = None /\ gcGroup' = rgsNs[DescOf[e]]
          /\ rgsNs' = [rgsNs EXCEPT ![DescOf[e]] = None]
          /\ UNCHANGED <<save, rgsRaw, old, open, pkt>>
    BY <1>18 DEF PopNoiseRouteGroup, TypeOK
  <2>2. \A d \in Descs : rgsNs'[d] = IF d = DescOf[e] THEN None ELSE rgsNs[d]
    BY <2>1 DEF TypeOK
  <2>3. RawHeld' /\ CloseDelivered'
    BY <2>1 DEF Groups, RawHeld, CloseDelivered
  <2>4. Registered'
    BY <2>1, <2>2 DEF Groups, Registered
  <2>5. \A x \in Edges : CloseIsOwn /\ save[x] = "returned" /\ x \in open => rgsNs[DescOf[x]] = x
    BY <2>1 DEF Groups, OpenGroupRegistered
  <2>6. OpenGroupRegistered'
    BY <2>1, <2>2, <2>5 DEF OpenGroupRegistered, CloseIsOwn
  <2>7. Replaced'
    BY <2>1 DEF Groups, Replaced, CloseIsOwn
  <2>. QED
    BY <2>3, <2>4, <2>6, <2>7 DEF Groups
<1>19. CASE GCCloses
  <2>1. /\ UNCHANGED <<save, rgsRaw, rgsNs, old, pkt>> /\ open' = open \ {gcGroup} /\ gcGroup' = None
    BY <1>19 DEF GCCloses
  <2>. QED
    BY <2>1 DEF Groups, RawHeld, Registered, Replaced, CloseDelivered, OpenGroupRegistered, CloseIsOwn
<1>20. AcceptClosed \/ Close \/ CloseAccept \/ CollectGarbage
         => UNCHANGED <<save, rgsRaw, rgsNs, old, gcGroup, pkt>> /\ open' \subseteq open
  BY DEF AcceptClosed, Close, CloseAccept, CollectGarbage
<1>21. ASSUME NEW e \in Edges, AppCloses(e)
       PROVE  Groups'
  BY <1>1, <1>21 DEF AppCloses
<1>22. ASSUME NEW e \in Incoming, Introduce(e)
       PROVE  Groups'
  <2>1. UNCHANGED <<save, rgsRaw, rgsNs, old, gcGroup, pkt, open>>
    BY <1>22 DEF Introduce, IntroduceRules, IntroduceLock, IntroduceSend, IntroduceDone
  <2>. QED
    BY <1>1, <2>1
<1>. QED
  BY <1>1, <1>3, <1>4, <1>6, <1>7, <1>8, <1>9, <1>12, <1>13, <1>14, <1>15, <1>16, <1>17, <1>18,
     <1>19, <1>20, <1>21, <1>22
  DEF Next, Accepting, SaveStep, PacketStep
-----------------------------------------------------------------------------
(* The theorems *)

\* Every step keeps the inductive invariant.
LEMMA IInvKept == IInv /\ [Next /\ UNCHANGED plan]_<<vars, plan>> => IInv'
BY TypeKept, HandOverKept, InPlanKept, GroupsKept DEF IInv

\* The variables of the router keep their types, and the maps hold a group only
\* under its own descriptor (rgsRaw and rgsNs in saveRouteGroupRules).
THEOREM TypeCorrect == Spec => []TypeOK
<1>1. IInv => TypeOK
  BY DEF IInv
<1>. QED
  BY InitIInv, IInvKept, <1>1, PTL DEF Spec

\* IntroduceRules and AcceptRoutes hand every edge over exactly once, and the
\* mutex is held across steps only by a call in its blocking select.
THEOREM EdgesHandedOver == Spec => []HandOver
<1>1. IInv => HandOver
  BY DEF IInv
<1>. QED
  BY InitIInv, IInvKept, <1>1, PTL DEF Spec

\* A wrapped group that nobody has closed is the one packets of its descriptor
\* are given to (rgsNs), unless a Close packet was for another group of the
\* descriptor; a group that is replaced has been closed first.
THEOREM OpenIsRegistered == Spec => []OpenGroupRegistered
<1>1. IInv => OpenGroupRegistered
  BY DEF IInv, Groups
<1>. QED
  BY InitIInv, IInvKept, <1>1, PTL DEF Spec
=============================================================================
