-------------------------- MODULE RouteGroupProofs --------------------------
(***************************************************************************)
(* Proofs about RouteGroup, for all plans, bounds and sizes of buffers:    *)
(* the variables keep their types, a group is torn down in order, and what *)
(* Read returns is complete.                                               *)
(*                                                                         *)
(* Two threads may be in close() at once, one of them without the mutex,   *)
(* so the argument is not about who holds what but about what has been     *)
(* announced: closeInitiated and closed are never taken back, and a thread *)
(* that closes closed has announced it.  As long as an end has not, only   *)
(* its router tears it down, after the Close packet and so after all the   *)
(* packets before that.                                                    *)
(***************************************************************************)
EXTENDS RouteGroup, TLAPS

-----------------------------------------------------------------------------
(***************************************************************************)
(* The invariant.                                                          *)
(***************************************************************************)

\* The labels of the body of once.Do, of close(), and of the handling of a Close packet.
OnceBody == {"onceRemoteClosed", "onceReadCh"}
InClose == {"close", "broadcast", "wait", "delRules", "once"} \cup OnceBody
Closing == InClose \cup {"handleClose", "handled"}
Labels ==
    Closing \cup {"idle", "isClosed", "isRemoteClosed", "closeClosed", "initiate", "lock",
                  "returned", "push", "pong", "check", "buf", "select", "bufRead", "error",
                  "EOF", "write", "loop", "ended"}

\* The packets that travel between the ends.
Packets == [type : {"Close", "Error", "Ping", "Pong"}] \cup [type : {"Data"}, bytes : Seq(Nat)]

\* Everybody who may run close().
Callers == Closers \cup {"router"}

RouteGroups ==
    [mu : {"free"} \cup Closers, closeInitiated : BOOLEAN, closed : BOOLEAN,
     remoteClosed : BOOLEAN, readCh : Seq(Seq(Nat)), readChClosed : BOOLEAN,
     readBuf : Seq(Nat), closeDone : Int, once : {"no", "running", "done"},
     closeError : BOOLEAN]

Types ==
    /\ plan \in Plans
    /\ rg \in [Ends -> RouteGroups]
    /\ rt \in [Ends -> SUBSET {"fwd", "rvs"}]
    /\ net \in [Ends -> Seq(Packets)]
    /\ tpUp \in BOOLEAN
    /\ pc \in [Ends -> [Threads -> Labels]]
    /\ initiator \in [Ends -> [Callers -> BOOLEAN]]
    /\ rdata \in [Ends -> Seq(Nat)]
    /\ panicked \in [Ends -> {Runs, NegativeCounter, CloseOfClosed, SendOnClosed}]
    /\ pings \in [Ends -> Nat]
    /\ sent \in [Ends -> Nat]
    /\ got \in [Ends -> Seq(Nat)]
    /\ farewell \in [Ends -> [sent : Nat, error : BOOLEAN, said : BOOLEAN]]

\* A writer sends whole packets, and at its second step has one left.
Whole(e) ==
    \E n \in 0 .. MaxPackets :
        sent[e] = n * PacketBytes /\ (pc[e]["writer"] = "write" => n < MaxPackets)

\* readCh keeps its capacity.
Buffered(e) == Len(rg[e].readCh) <= ReadChBufSize

\* close() goes step by step, and readCh is its last.
Steps(e) ==
    /\ \A t \in Callers :
          /\ pc[e][t] \in {"once"} \cup OnceBody => "fwd" \notin rt[e]
          /\ pc[e][t] = "onceReadCh" => rg[e].remoteClosed
          /\ pc[e][t] \in OnceBody => rg[e].once # "no"
          /\ initiator[e][t] => rg[e].closeInitiated
    /\ rg[e].readChClosed => rg[e].remoteClosed /\ "fwd" \notin rt[e]
    /\ rg[e].remoteClosed => rg[e].once # "no"
    /\ rg[e].closed => rg[e].once # "no"

\* A caller of Close that got past the checks has announced it, and closes closed.
Announced(e) ==
    \A t \in Closers :
        /\ pc[e][t] = "closeClosed" => rg[e].remoteClosed
        /\ pc[e][t] \in InClose \cup {"lock"} => rg[e].closeInitiated
        /\ pc[e][t] \in {"broadcast", "wait", "delRules", "once"} => initiator[e][t]
        /\ pc[e][t] \in OnceBody => rg[e].closed

\* This end did not close its own channel after announcing a close.
Gapless(e) == ~(rg[e].closed /\ rg[e].closeInitiated)

\* Without that, only the router tears down, and it takes no packet afterwards.
TornByRouter(e) ==
    (rg[e].remoteClosed \/ rg[e].closed) /\ Gapless(e) =>
        \/ pc[e]["router"] \in {"onceReadCh", "handled"}
        \/ "rvs" \notin rt[e] /\ pc[e]["router"] # "push"

\* With one caller of Close.
OneCaller(e) ==
    /\ pc[e]["app"] # "idle" => e \in plan.appClosers
    /\ pc[e]["gc"] # "idle" => e \in plan.gcClosers
    /\ rg[e].closeInitiated =>
          \E t \in Closers : pc[e][t] \in InClose \cup {"lock", "returned"}
    /\ rg[e].closed => rg[e].closeInitiated \/ \E t \in Closers : pc[e][t] = "returned"
    /\ panicked[e] # CloseOfClosed

Reading(e) ==
    /\ pc[e]["reader"] # "bufRead" => rdata[e] = <<>>
    /\ pc[e]["reader"] \in {"select", "bufRead", "EOF"} => rg[e].readBuf = <<>>
    /\ pc[e]["reader"] = "EOF" => rg[e].readCh = <<>> /\ rg[e].readChClosed

\* The packet the router is handling is the head.
Handled(e) ==
    /\ pc[e]["router"] # "idle" => net[e] # <<>>
    /\ pc[e]["router"] = "push" => Packet(e).type = "Data"
    /\ pc[e]["router"] = "pong" => Packet(e).type = "Ping"
    /\ pc[e]["router"] \in Closing => Packet(e).type = "Close"

CloseTaken(e) == rg[e].remoteClosed \/ pc[e]["router"] \in Closing

\* The path has an Error packet, and no Close packet before it.
ErrorFirst(q) ==
    \E i \in DOMAIN q : q[i].type = "Error" /\ \A j \in 1 .. i - 1 : q[j].type # "Close"

\* An end takes a Close packet after the remote said farewell, and knows of its error.
Farewells(e) ==
    /\ \A i \in DOMAIN net[e] : net[e][i].type = "Close" => farewell[Peer(e)].said
    /\ farewell[e].said \/ ~farewell[e].error
    /\ tpUp /\ ~rg[e].closeInitiated =>
          /\ CloseTaken(e) =>
                farewell[Peer(e)].said /\ (farewell[Peer(e)].error => rg[e].closeError)
          /\ farewell[e].said => farewell[Peer(e)].said
          /\ "rvs" \in rt[e] /\ farewell[Peer(e)].error =>
                rg[e].closeError \/ ErrorFirst(net[e])

\* Chunk c holds bytes after a, up to b, in order; if full, all of them.
Holds(c, a, b, full) ==
    /\ a <= b
    /\ \A i \in DOMAIN c : a < c[i] /\ c[i] <= b
    /\ \A i, j \in DOMAIN c : i < j => c[i] < c[j]
    /\ full => Len(c) = b - a /\ \A i \in DOMAIN c : c[i] = a + i

\* A queue of chunks that holds them.
QueueHolds(q, a, b, full) ==
    \E off \in [1 .. Len(q) + 1 -> Nat] :
        /\ off[1] = a /\ off[Len(q) + 1] = b
        /\ \A k \in 1 .. Len(q) : Holds(q[k], off[k], off[k + 1], full)

Payload(p) == IF p.type = "Data" THEN p.bytes ELSE <<>>

\* The packets of a path hold them, and its Close packets come after the first f.
PathHolds(q, a, b, f) ==
    \E off \in [1 .. Len(q) + 1 -> Nat] :
        /\ off[1] = a /\ off[Len(q) + 1] = b
        /\ \A k \in 1 .. Len(q) :
              /\ Holds(Payload(q[k]), off[k], off[k + 1], TRUE)
              /\ q[k].type = "Close" => f <= off[k]
        /\ \A j, k \in DOMAIN off : j <= k => off[j] <= off[k]

\* Bytes that the router may still push are next to the last that it did.
Pushes(e) == "rvs" \in rt[e] \/ pc[e]["router"] = "push"

\* Bytes up to x were pushed: some are returned, some left over, some in readCh.
Stored(e, x) ==
    \E y, z \in Nat :
        /\ Holds(got[e], 0, y, Gapless(e))
        /\ Holds(rg[e].readBuf \o rdata[e], y, z, Gapless(e))
        /\ QueueHolds(rg[e].readCh, z, x, Gapless(e))

\* Those from y to z are under way, and f were sent before the remote's farewell.
UnderWay(e, x, y, z, f) ==
    /\ x <= y
    /\ PathHolds(net[e], y, z, f)
    /\ z <= sent[Peer(e)] /\ (tpUp => z = sent[Peer(e)])
    /\ Gapless(e) /\ Pushes(e) => x = y
    /\ tpUp /\ ~rg[e].closeInitiated /\ CloseTaken(e) => f <= x
    /\ f <= sent[Peer(e)]

Bytes(e) == \E x, y, z \in Nat : Stored(e, x) /\ UnderWay(e, x, y, z, farewell[Peer(e)].sent)

IInv ==
    /\ Types
    /\ \A e \in Ends : Whole(e) /\ Buffered(e)
    /\ \A e \in Ends : Steps(e)
    /\ \A e \in Ends : Announced(e)
    /\ \A e \in Ends : TornByRouter(e)
    /\ \A e \in Ends : Reading(e)
    /\ \A e \in Ends : Handled(e)
    /\ \A e \in Ends : Farewells(e)
    /\ \A e \in Ends : Bytes(e)

-----------------------------------------------------------------------------
(* Ends, threads and packets.                                               *)

LEMMA Peers ==
  ASSUME NEW e \in Ends
  PROVE  Peer(e) \in Ends /\ Peer(e) # e /\ Peer(Peer(e)) = e
BY ConstantsAssumption DEF Ends, Peer

\* Goto moves one thread.
LEMMA Moved ==
  ASSUME Types, NEW e \in Ends, NEW t \in Threads, NEW l \in Labels, Goto(e, t, l)
  PROVE  /\ pc' \in [Ends -> [Threads -> Labels]]
         /\ pc'[e][t] = l
         /\ \A f \in Ends, u \in Threads : f # e \/ u # t => pc'[f][u] = pc[f][u]
BY DEF Types, Goto

\* Packets are added at the end of the peer's path, if the transport works.
LEMMA Delivered ==
  ASSUME Types, NEW e \in Ends, NEW s \in Seq(Packets)
  PROVE  /\ Sent(e, s) \in [Ends -> Seq(Packets)]
         /\ Sent(e, s)[e] = net[e]
         /\ Sent(e, s)[Peer(e)] = IF tpUp THEN net[Peer(e)] \o s ELSE net[Peer(e)]
BY Peers DEF Types, Sent

LEMMA PacketTypes ==
  /\ \A x \in {"Close", "Error", "Ping", "Pong"} : [type |-> x] \in Packets
  /\ \A s \in Seq(Nat) : [type |-> "Data", bytes |-> s] \in Packets
  /\ \A p \in Packets : p.type \in {"Close", "Error", "Ping", "Pong", "Data"}
  /\ \A p \in Packets : p.type = "Data" => p.bytes \in Seq(Nat)
  /\ \A p \in Packets : Payload(p) \in Seq(Nat)
<1>1. \A x \in {"Close", "Error", "Ping", "Pong"} : [type |-> x] \in Packets
  BY DEF Packets
<1>2. \A s \in Seq(Nat) : [type |-> "Data", bytes |-> s] \in Packets
  BY DEF Packets
<1>3. \A p \in Packets : p.type \in {"Close", "Error", "Ping", "Pong", "Data"}
  BY DEF Packets
<1>4. \A p \in Packets : p.type = "Data" => p.bytes \in Seq(Nat)
  BY DEF Packets
<1>5. \A p \in Packets : Payload(p) \in Seq(Nat)
  BY <1>4 DEF Payload
<1>. QED
  BY <1>1, <1>2, <1>3, <1>4, <1>5

LEMMA Farewell ==
  ASSUME NEW e \in Ends
  PROVE  ClosePackets(e) \in Seq(Packets)
BY PacketTypes DEF ClosePackets

-----------------------------------------------------------------------------
(* Type correctness.                                                        *)

\* The labels of the actions.
USE DEF At

LEMMA FirstAndRest ==
  ASSUME NEW S, NEW s \in Seq(S), NEW n \in Nat
  PROVE  FirstN(s, n) \in Seq(S) /\ AfterN(s, n) \in Seq(S)
BY DEF FirstN, AfterN

\* What the actions write into a RouteGroup has its type.
LEMMA FieldTypes ==
  ASSUME NEW g \in RouteGroups
  PROVE  /\ \A b \in BOOLEAN :
               /\ [g EXCEPT !.closeInitiated = b] \in RouteGroups
               /\ [g EXCEPT !.closed = b] \in RouteGroups
               /\ [g EXCEPT !.remoteClosed = b] \in RouteGroups
               /\ [g EXCEPT !.closeError = b] \in RouteGroups
               /\ [g EXCEPT !.once = "running", !.closed = b] \in RouteGroups
         /\ \A m \in {"free"} \cup Closers : [g EXCEPT !.mu = m] \in RouteGroups
         /\ \A n \in Int : [g EXCEPT !.closeDone = n] \in RouteGroups
         /\ \A q \in Seq(Seq(Nat)) : [g EXCEPT !.readCh = q] \in RouteGroups
         /\ \A c \in Seq(Nat) : [g EXCEPT !.readBuf = c] \in RouteGroups
         /\ [g EXCEPT !.readChClosed = TRUE, !.once = "done"] \in RouteGroups
         /\ g.closeInitiated \in BOOLEAN /\ g.closed \in BOOLEAN
         /\ g.remoteClosed \in BOOLEAN /\ g.closeError \in BOOLEAN /\ g.readChClosed \in BOOLEAN
         /\ g.readCh \in Seq(Seq(Nat)) /\ g.readBuf \in Seq(Nat) /\ g.closeDone \in Int
BY DEF RouteGroups

LEMMA EndTypes ==
  ASSUME Types, NEW e \in Ends
  PROVE  /\ rg[e] \in RouteGroups
         /\ \A g \in RouteGroups : [rg EXCEPT ![e] = g] \in [Ends -> RouteGroups]
BY DEF Types

\* ReturnFromClose keeps types, whichever thread returns.
LEMMA ReturnTypes ==
  ASSUME Types, NEW e \in Ends, NEW t \in Callers, NEW g \in RouteGroups, ReturnFromClose(e, t, g)
  PROVE  /\ rg' \in [Ends -> RouteGroups]
         /\ pc' \in [Ends -> [Threads -> Labels]]
<1>1. t \in Threads
  BY DEF Callers, Threads
<1>2. pc' \in [Ends -> [Threads -> Labels]]
  BY <1>1, Moved DEF ReturnFromClose, Labels, Closing
<1>3. [g EXCEPT !.mu = "free"] \in RouteGroups
  BY DEF RouteGroups
<1>4. rg' \in [Ends -> RouteGroups]
  BY <1>3 DEF ReturnFromClose, Types
<1>. QED
  BY <1>2, <1>4

LEMMA CloseStepTypes ==
  ASSUME Types, NEW e \in Ends, NEW t \in Callers, CloseStep(e, t), UNCHANGED plan
  PROVE  Types'
<1>. USE DEF io, Labels, Closing, InClose, OnceBody
<1>1. t \in Threads /\ rg[e] \in RouteGroups
  BY DEF Callers, Threads, Types
<1>2. CASE CloseEnter(e, t)
  <2>1. CASE rg[e].closed
    BY <1>1, <1>2, <2>1, ReturnTypes DEF CloseEnter, Types
  <2>2. CASE ~rg[e].closed
    <3>1. pc' \in [Ends -> [Threads -> Labels]]
      BY <1>1, <1>2, <2>2, Moved DEF CloseEnter
    <3>2. rg' \in [Ends -> RouteGroups]
      <4>1. rg' = [rg EXCEPT ![e].closeDone = IF rg[e].closeInitiated THEN @ + 1 ELSE @]
        BY <1>2, <2>2 DEF CloseEnter
      <4>2. (IF rg[e].closeInitiated THEN rg[e].closeDone + 1 ELSE rg[e].closeDone) \in Int
        <5>1. rg[e].closeDone \in Int
          BY <1>1, FieldTypes
        <5>. QED
          BY <5>1
      <4>. QED
        BY <1>1, <4>1, <4>2, FieldTypes, EndTypes
    <3>3. initiator' \in [Ends -> [Callers -> BOOLEAN]]
      <4>1. rg[e].closeInitiated \in BOOLEAN
        BY <1>1, FieldTypes
      <4>2. initiator' = [initiator EXCEPT ![e][t] = rg[e].closeInitiated]
        BY <1>2, <2>2 DEF CloseEnter
      <4>. QED
        BY <4>1, <4>2 DEF Types
    <3>. QED
      BY <1>2, <2>2, <3>1, <3>2, <3>3 DEF CloseEnter, Types
  <2>. QED
    BY <2>1, <2>2
<1>3. CASE BroadcastClosePackets(e, t)
  <2>1. pc' \in [Ends -> [Threads -> Labels]]
    BY <1>1, <1>3, Moved DEF BroadcastClosePackets
  <2>2. net' \in [Ends -> Seq(Packets)]
    BY <1>3, Farewell, Delivered DEF BroadcastClosePackets
  <2>3. farewell' \in [Ends -> [sent : Nat, error : BOOLEAN, said : BOOLEAN]]
    BY <1>1, <1>3 DEF BroadcastClosePackets, Types, RouteGroups
  <2>. QED
    BY <1>3, <2>1, <2>2, <2>3 DEF BroadcastClosePackets, Types
<1>4. CASE CloseDoneWaited(e, t)
  BY <1>1, <1>4, Moved DEF CloseDoneWaited, Types
<1>5. CASE CloseTimeout(e, t)
  BY <1>1, <1>5, Moved DEF CloseTimeout, Types
<1>6. CASE CloseDelRules(e, t)
  <2>1. rt' \in [Ends -> SUBSET {"fwd", "rvs"}]
    BY <1>6 DEF CloseDelRules, Types
  <2>. QED
    BY <1>1, <1>6, <2>1, Moved DEF CloseDelRules, Types
<1>7. CASE CloseOnce(e, t)
  <2>1. CASE rg[e].once = "no" /\ Goto(e, t, "onceRemoteClosed")
                /\ rg' = [rg EXCEPT ![e].once = "running", ![e].closed = @ \/ initiator[e][t]]
                /\ panicked' = [panicked EXCEPT ![e] =
                      IF initiator[e][t] /\ rg[e].closed THEN CloseOfClosed ELSE @]
    <3>1. pc' \in [Ends -> [Threads -> Labels]]
      BY <1>1, <2>1, Moved
    <3>2. rg' \in [Ends -> RouteGroups]
      BY <1>1, <2>1 DEF Types, RouteGroups
    <3>3. panicked' \in [Ends -> {Runs, NegativeCounter, CloseOfClosed, SendOnClosed}]
      BY <2>1 DEF Types
    <3>. QED
      BY <1>7, <3>1, <3>2, <3>3 DEF CloseOnce, Types
  <2>2. CASE ReturnFromClose(e, t, rg[e]) /\ UNCHANGED panicked
    BY <1>1, <1>7, <2>2, ReturnTypes DEF CloseOnce, Types
  <2>. QED
    BY <1>7, <2>1, <2>2 DEF CloseOnce
<1>8. CASE OnceRemoteClosed(e, t)
  <2>1. rg' \in [Ends -> RouteGroups]
    BY <1>1, <1>8, EndTypes, FieldTypes DEF OnceRemoteClosed
  <2>. QED
    BY <1>1, <1>8, <2>1, Moved DEF OnceRemoteClosed, Types
<1>9. CASE OnceReadCh(e, t)
  <2>1. [rg[e] EXCEPT !.readChClosed = TRUE, !.once = "done"] \in RouteGroups
    BY <1>1 DEF RouteGroups
  <2>. QED
    BY <1>9, <2>1, ReturnTypes DEF OnceReadCh, Types
<1>. QED
  BY <1>2, <1>3, <1>4, <1>5, <1>6, <1>7, <1>8, <1>9 DEF CloseStep

LEMMA CloserTypes ==
  ASSUME Types, NEW e \in Ends, NEW t \in Closers, CallClose(e, t) \/ Close(e, t), UNCHANGED plan
  PROVE  Types'
<1>. USE DEF io, Labels, Closing, InClose, OnceBody
<1>1. t \in Threads /\ t \in Callers /\ rg[e] \in RouteGroups
  BY DEF Callers, Threads, Types
<1>2. CASE CallClose(e, t)
  <2>1. rg' \in [Ends -> RouteGroups]
    <3>1. CASE rg' = [rg EXCEPT ![e].closeError = @ \/ e \in plan.errorSetters]
      BY <1>1, <3>1, EndTypes, FieldTypes
    <3>2. CASE UNCHANGED rg
      BY <3>2 DEF Types
    <3>. QED
      BY <1>2, <3>1, <3>2 DEF CallClose
  <2>2. rt' \in [Ends -> SUBSET {"fwd", "rvs"}]
    <3>1. CASE rt' = [rt EXCEPT ![e] = @ \ {"rvs"}]
      BY <3>1 DEF Types
    <3>2. CASE UNCHANGED rt
      BY <3>2 DEF Types
    <3>. QED
      BY <1>2, <3>1, <3>2 DEF CallClose
  <2>3. pc' \in [Ends -> [Threads -> Labels]]
    BY <1>1, <1>2, Moved DEF CallClose
  <2>. QED
    BY <1>2, <2>1, <2>2, <2>3 DEF CallClose, Types
<1>3. CASE CloseIsClosed(e, t)
  <2>1. pc' \in [Ends -> [Threads -> Labels]]
    BY <1>1, <1>3, Moved DEF CloseIsClosed
  <2>. QED
    BY <1>3, <2>1 DEF CloseIsClosed, Types
<1>4. CASE CloseIsRemoteClosed(e, t)
  <2>1. pc' \in [Ends -> [Threads -> Labels]]
    BY <1>1, <1>4, Moved DEF CloseIsRemoteClosed
  <2>. QED
    BY <1>4, <2>1 DEF CloseIsRemoteClosed, Types
<1>5. CASE CloseClosed(e, t)
  <2>1. pc' \in [Ends -> [Threads -> Labels]]
    BY <1>1, <1>5, Moved DEF CloseClosed
  <2>2. rg' \in [Ends -> RouteGroups]
    BY <1>1, <1>5, EndTypes, FieldTypes DEF CloseClosed
  <2>3. panicked' \in [Ends -> {Runs, NegativeCounter, CloseOfClosed, SendOnClosed}]
    BY <1>5 DEF CloseClosed, Types
  <2>. QED
    BY <1>5, <2>1, <2>2, <2>3 DEF CloseClosed, Types
<1>6. CASE CloseInitiate(e, t)
  <2>1. rg' \in [Ends -> RouteGroups]
    BY <1>1, <1>6, EndTypes, FieldTypes DEF CloseInitiate
  <2>. QED
    BY <1>1, <1>6, <2>1, Moved DEF CloseInitiate, Types
<1>7. CASE CloseLock(e, t)
  <2>1. rg' \in [Ends -> RouteGroups]
    BY <1>1, <1>7, EndTypes, FieldTypes DEF CloseLock
  <2>. QED
    BY <1>1, <1>7, <2>1, Moved DEF CloseLock, Types
<1>8. CASE CloseStep(e, t)
  BY <1>1, <1>8, CloseStepTypes
<1>. QED
  BY <1>2, <1>3, <1>4, <1>5, <1>6, <1>7, <1>8 DEF Close

LEMMA RouterTypes ==
  ASSUME Types, NEW e \in Ends, Handled(e), Router(e), UNCHANGED plan
  PROVE  Types'
<1>. USE DEF io, Labels, Closing, InClose, OnceBody
<1>1. "router" \in Threads /\ "router" \in Callers /\ rg[e] \in RouteGroups
  BY EndTypes DEF Callers, Threads
<1>2. net[e] # <<>> => /\ Packet(e) \in Packets
                       /\ Tail(net[e]) \in Seq(Packets)
  BY DEF Packet, Types
<1>3. net[e] # <<>> /\ Pop(e) => net' \in [Ends -> Seq(Packets)]
  BY <1>2 DEF Pop, Types
<1>4. CASE HandleUnknownRule(e)
  BY <1>3, <1>4 DEF HandleUnknownRule, Types
<1>5. CASE HandleClosePacket(e)
  <2>1. pc' \in [Ends -> [Threads -> Labels]]
    BY <1>1, <1>5, Moved DEF HandleClosePacket
  <2>. QED
    BY <1>5, <2>1 DEF HandleClosePacket, Types
<1>6. CASE RGHandleClosePacket(e)
  <2>1. pc' \in [Ends -> [Threads -> Labels]]
    BY <1>1, <1>6, Moved DEF RGHandleClosePacket
  <2>2. rg' \in [Ends -> RouteGroups]
    <3>1. CASE rg' = [rg EXCEPT ![e].closeDone = @ - 1]
      <4>1. rg[e].closeDone \in Int
        BY <1>1, FieldTypes
      <4>2. rg[e].closeDone - 1 \in Int
        BY <4>1
      <4>. QED
        BY <1>1, <3>1, <4>2, EndTypes, FieldTypes
    <3>2. CASE UNCHANGED rg
      BY <3>2 DEF Types
    <3>. QED
      BY <1>6, <3>1, <3>2 DEF RGHandleClosePacket
  <2>3. panicked' \in [Ends -> {Runs, NegativeCounter, CloseOfClosed, SendOnClosed}]
    BY <1>6 DEF RGHandleClosePacket, Types
  <2>. QED
    BY <1>6, <2>1, <2>2, <2>3 DEF RGHandleClosePacket, Types
<1>7. CASE ClosePacketHandled(e)
  <2>1. pc' \in [Ends -> [Threads -> Labels]]
    BY <1>1, <1>7, Moved DEF ClosePacketHandled
  <2>2. rt' \in [Ends -> SUBSET {"fwd", "rvs"}]
    BY <1>7 DEF ClosePacketHandled, Types
  <2>3. net' \in [Ends -> Seq(Packets)]
    BY <1>3, <1>7 DEF ClosePacketHandled, Handled
  <2>. QED
    BY <1>7, <2>1, <2>2, <2>3 DEF ClosePacketHandled, Types
<1>8. CASE HandleDataPacket(e)
  <2>1. pc' \in [Ends -> [Threads -> Labels]]
    BY <1>1, <1>8, Moved DEF HandleDataPacket, Types
  <2>2. net' \in [Ends -> Seq(Packets)]
    BY <1>3, <1>8 DEF HandleDataPacket, Received, Types
  <2>. QED
    BY <1>8, <2>1, <2>2 DEF HandleDataPacket, Types
<1>9. CASE PushData(e)
  <2>1. pc' \in [Ends -> [Threads -> Labels]]
    BY <1>1, <1>9, Moved DEF PushData
  <2>2. net' \in [Ends -> Seq(Packets)]
    BY <1>3, <1>9 DEF PushData, Handled
  <2>3. rg' \in [Ends -> RouteGroups]
    <3>1. CASE rg' = [rg EXCEPT ![e].readCh = Append(@, Packet(e).bytes)]
      <4>1. Packet(e).bytes \in Seq(Nat) /\ rg[e].readCh \in Seq(Seq(Nat))
        BY <1>1, <1>2, <1>9, PacketTypes, FieldTypes DEF PushData, Handled
      <4>2. Append(rg[e].readCh, Packet(e).bytes) \in Seq(Seq(Nat))
        BY <4>1
      <4>. QED
        BY <1>1, <3>1, <4>2, EndTypes, FieldTypes
    <3>2. CASE UNCHANGED rg
      BY <3>2 DEF Types
    <3>. QED
      BY <1>9, <3>1, <3>2 DEF PushData
  <2>4. panicked' \in [Ends -> {Runs, NegativeCounter, CloseOfClosed, SendOnClosed}]
    BY <1>9 DEF PushData, Types
  <2>. QED
    BY <1>9, <2>1, <2>2, <2>3, <2>4 DEF PushData, Types
<1>10. CASE HandleErrorPacket(e)
  <2>1. net' \in [Ends -> Seq(Packets)]
    BY <1>3, <1>10 DEF HandleErrorPacket, Received
  <2>2. rg' \in [Ends -> RouteGroups]
    <3>1. rg' = [rg EXCEPT ![e].closeError = @ \/ ~rg[e].remoteClosed]
      BY <1>10 DEF HandleErrorPacket
    <3>2. (rg[e].closeError \/ ~rg[e].remoteClosed) \in BOOLEAN
      OBVIOUS
    <3>. QED
      BY <1>1, <3>1, <3>2, EndTypes, FieldTypes
  <2>. QED
    BY <1>10, <2>1, <2>2 DEF HandleErrorPacket, Types
<1>11. CASE HandlePingPacket(e)
  <2>1. pc' \in [Ends -> [Threads -> Labels]]
    BY <1>1, <1>11, Moved DEF HandlePingPacket
  <2>. QED
    BY <1>11, <2>1 DEF HandlePingPacket, Types
<1>12. CASE SendPong(e)
  <2>1. pc' \in [Ends -> [Threads -> Labels]]
    BY <1>1, <1>12, Moved DEF SendPong
  <2>2. <<[type |-> "Pong"]>> \in Seq(Packets)
    BY PacketTypes
  <2>3. Sent(e, <<[type |-> "Pong"]>>) \in [Ends -> Seq(Packets)]
    BY <2>2, Delivered
  <2>4. Sent(e, <<[type |-> "Pong"]>>)[e] = net[e] /\ Tail(net[e]) \in Seq(Packets)
    BY <1>2, <1>12, <2>2, Delivered DEF SendPong, Handled
  <2>5. net' \in [Ends -> Seq(Packets)]
    BY <1>12, <2>3, <2>4 DEF SendPong
  <2>. QED
    BY <1>12, <2>1, <2>5 DEF SendPong, Types
<1>13. CASE HandlePongPacket(e)
  BY <1>3, <1>13 DEF HandlePongPacket, Received, Types
<1>14. CASE CloseStep(e, "router")
  BY <1>1, <1>14, CloseStepTypes
<1>. QED
  BY <1>4, <1>5, <1>6, <1>7, <1>8, <1>9, <1>10, <1>11, <1>12, <1>13, <1>14 DEF Router

LEMMA IoTypes ==
  ASSUME Types, NEW e \in Ends, UNCHANGED plan,
         Read(e) \/ WriteIsClosed(e) \/ Write(e) \/ SendPing(e) \/ ServiceLoopEnds(e)
  PROVE  Types'
<1>. USE DEF io, Labels
<1>1. /\ {"reader", "writer", "pinger"} \subseteq Threads /\ rg[e] \in RouteGroups
      /\ rg[e].readBuf \in Seq(Nat) /\ rg[e].readCh \in Seq(Seq(Nat))
      /\ rdata[e] \in Seq(Nat) /\ got[e] \in Seq(Nat) /\ sent[e] \in Nat
  BY EndTypes, FieldTypes DEF Threads, Types
<1>2. ReadBytes \in Nat /\ PacketBytes \in Nat
  BY ConstantsAssumption
<1>3. CASE ReadIsClosed(e)
  <2>1. pc' \in [Ends -> [Threads -> Labels]]
    BY <1>1, <1>3, Moved DEF ReadIsClosed
  <2>. QED
    BY <1>3, <2>1 DEF ReadIsClosed, Types
<1>4. CASE ReadBuf(e)
  <2>1. pc' \in [Ends -> [Threads -> Labels]]
    BY <1>1, <1>4, Moved DEF ReadBuf
  <2>2. CASE rg[e].readBuf # <<>>
    <3>1. FirstN(rg[e].readBuf, ReadBytes) \in Seq(Nat) /\ AfterN(rg[e].readBuf, ReadBytes) \in Seq(Nat)
      BY <1>1, <1>2, FirstAndRest
    <3>2. got[e] \o FirstN(rg[e].readBuf, ReadBytes) \in Seq(Nat)
      BY <1>1, <3>1
    <3>3. got' = [got EXCEPT ![e] = @ \o FirstN(rg[e].readBuf, ReadBytes)]
      BY <1>4, <2>2 DEF ReadBuf
    <3>4. got' \in [Ends -> Seq(Nat)]
      BY <3>2, <3>3 DEF Types
    <3>5. rg' = [rg EXCEPT ![e].readBuf = AfterN(@, ReadBytes)]
      BY <1>4, <2>2 DEF ReadBuf
    <3>6. rg' \in [Ends -> RouteGroups]
      BY <1>1, <3>1, <3>5, EndTypes, FieldTypes
    <3>. QED
      BY <1>4, <2>1, <3>4, <3>6 DEF ReadBuf, Types
  <2>3. CASE UNCHANGED <<rg, got>>
    BY <1>4, <2>1, <2>3 DEF ReadBuf, Types
  <2>. QED
    BY <1>4, <2>2, <2>3 DEF ReadBuf
<1>5. CASE ReadSelect(e)
  <2>1. pc' \in [Ends -> [Threads -> Labels]]
    BY <1>1, <1>5, Moved DEF ReadSelect
  <2>2. CASE /\ rg[e].readCh # <<>>
             /\ rdata' = [rdata EXCEPT ![e] = Head(rg[e].readCh)]
             /\ rg' = [rg EXCEPT ![e].readCh = Tail(@)]
    <3>1. Head(rg[e].readCh) \in Seq(Nat) /\ Tail(rg[e].readCh) \in Seq(Seq(Nat))
      BY <1>1, <2>2
    <3>2. rg' \in [Ends -> RouteGroups]
      BY <1>1, <2>2, <3>1, EndTypes, FieldTypes
    <3>3. rdata' \in [Ends -> Seq(Nat)]
      BY <2>2, <3>1 DEF Types
    <3>. QED
      BY <1>5, <2>1, <3>2, <3>3 DEF ReadSelect, Types
  <2>3. CASE UNCHANGED <<rg, rdata>>
    BY <1>5, <2>1, <2>3 DEF ReadSelect, Types
  <2>. QED
    BY <1>5, <2>2, <2>3 DEF ReadSelect
<1>6. CASE BufRead(e)
  <2>1. pc' \in [Ends -> [Threads -> Labels]]
    BY <1>1, <1>6, Moved DEF BufRead
  <2>2. FirstN(rdata[e], ReadBytes) \in Seq(Nat) /\ AfterN(rdata[e], ReadBytes) \in Seq(Nat)
    BY <1>1, <1>2, FirstAndRest
  <2>3. /\ got[e] \o FirstN(rdata[e], ReadBytes) \in Seq(Nat)
        /\ rg[e].readBuf \o AfterN(rdata[e], ReadBytes) \in Seq(Nat)
    BY <1>1, <2>2
  <2>4. /\ got' = [got EXCEPT ![e] = @ \o FirstN(rdata[e], ReadBytes)]
        /\ rg' = [rg EXCEPT ![e].readBuf = @ \o AfterN(rdata[e], ReadBytes)]
        /\ rdata' = [rdata EXCEPT ![e] = <<>>]
    BY <1>6 DEF BufRead
  <2>5. rg' \in [Ends -> RouteGroups]
    BY <1>1, <2>3, <2>4, EndTypes, FieldTypes
  <2>6. got' \in [Ends -> Seq(Nat)] /\ rdata' \in [Ends -> Seq(Nat)]
    BY <2>3, <2>4 DEF Types
  <2>. QED
    BY <1>6, <2>1, <2>5, <2>6 DEF BufRead, Types
<1>7. CASE WriteIsClosed(e)
  <2>1. pc' \in [Ends -> [Threads -> Labels]]
    BY <1>1, <1>7, Moved DEF WriteIsClosed
  <2>. QED
    BY <1>7, <2>1 DEF WriteIsClosed, Types
<1>8. CASE Write(e)
  <2>1. pc' \in [Ends -> [Threads -> Labels]]
    BY <1>1, <1>8, Moved DEF Write
  <2>2. [i \in 1 .. PacketBytes |-> sent[e] + i] \in Seq(Nat)
    BY <1>1, <1>2
  <2>3. <<[type |-> "Data", bytes |-> [i \in 1 .. PacketBytes |-> sent[e] + i]]>> \in Seq(Packets)
    <3>. DEFINE c == [i \in 1 .. PacketBytes |-> sent[e] + i]
    <3>1. c \in Seq(Nat)
      BY <2>2
    <3>. HIDE DEF c
    <3>2. [type |-> "Data", bytes |-> c] \in Packets
      BY <3>1, PacketTypes
    <3>. QED
      BY <3>2 DEF c
  <2>4. net' \in [Ends -> Seq(Packets)]
    BY <1>8, <2>3, Delivered DEF Write
  <2>5. sent' \in [Ends -> Nat]
    BY <1>1, <1>2, <1>8 DEF Write, Types
  <2>. QED
    BY <1>8, <2>1, <2>4, <2>5 DEF Write, Types
<1>9. CASE SendPing(e)
  <2>1. <<[type |-> "Ping"]>> \in Seq(Packets)
    BY PacketTypes
  <2>2. net' \in [Ends -> Seq(Packets)]
    BY <1>9, <2>1, Delivered DEF SendPing
  <2>3. pings' \in [Ends -> Nat]
    BY <1>9 DEF SendPing, Types
  <2>. QED
    BY <1>9, <2>2, <2>3 DEF SendPing, Types
<1>10. CASE ServiceLoopEnds(e)
  <2>1. pc' \in [Ends -> [Threads -> Labels]]
    BY <1>1, <1>10, Moved DEF ServiceLoopEnds
  <2>. QED
    BY <1>10, <2>1 DEF ServiceLoopEnds, Types
<1>. QED
  BY <1>3, <1>4, <1>5, <1>6, <1>7, <1>8, <1>9, <1>10 DEF Read

\* A failure of the transport leaves a first part of each path, and the packet
\* that the router handles.
LEMMA Truncated ==
  ASSUME Types, TransportFails, NEW e \in Ends
  PROVE  \E n \in 0 .. Len(net[e]) :
            /\ net'[e] = SubSeq(net[e], 1, n)
            /\ pc[e]["router"] # "idle" => n >= 1
<1>1. PICK n \in [Ends -> 0 .. Len(net[A]) + Len(net[B])] :
         /\ \A f \in Ends : n[f] <= Len(net[f]) /\ (pc[f]["router"] # "idle" => n[f] >= 1)
         /\ net' = [f \in Ends |-> SubSeq(net[f], 1, n[f])]
  BY DEF TransportFails
<1>2. A \in Ends /\ B \in Ends
  BY DEF Ends
<1>3. net[e] \in Seq(Packets) /\ n[e] \in Nat /\ n[e] <= Len(net[e])
  <2>1. net[A] \in Seq(Packets) /\ net[B] \in Seq(Packets) /\ net[e] \in Seq(Packets)
    BY <1>2 DEF Types
  <2>2. \A s, r \in Seq(Packets) : Len(s) + Len(r) \in Nat
    OBVIOUS
  <2>3. PICK m \in Nat : m = Len(net[A]) + Len(net[B])
    BY <2>1, <2>2
  <2>4. n \in [Ends -> 0 .. m]
    BY <1>1, <2>3
  <2>5. n[e] \in Nat
    BY <2>4
  <2>. QED
    BY <1>1, <2>1, <2>5
<1>4. n[e] \in 0 .. Len(net[e])
  BY <1>3
<1>. QED
  BY <1>1, <1>4

LEMMA TransportTypes ==
  ASSUME Types, TransportFails, UNCHANGED plan
  PROVE  Types'
<1>1. PICK n \in [Ends -> 0 .. Len(net[A]) + Len(net[B])] :
         /\ \A f \in Ends : n[f] <= Len(net[f]) /\ (pc[f]["router"] # "idle" => n[f] >= 1)
         /\ net' = [f \in Ends |-> SubSeq(net[f], 1, n[f])]
  BY DEF TransportFails
<1>2. \A f \in Ends : SubSeq(net[f], 1, n[f]) \in Seq(Packets)
  <2>. SUFFICES ASSUME NEW f \in Ends PROVE SubSeq(net[f], 1, n[f]) \in Seq(Packets)
    OBVIOUS
  <2>1. PICK m \in 0 .. Len(net[f]) : net'[f] = SubSeq(net[f], 1, m)
    BY Truncated
  <2>2. net'[f] = SubSeq(net[f], 1, n[f])
    BY <1>1
  <2>3. net[f] \in Seq(Packets) /\ Len(net[f]) \in Nat
    BY DEF Types
  <2>4. SubSeq(net[f], 1, m) \in Seq(Packets)
    BY <2>3
  <2>. QED
    BY <2>1, <2>2, <2>4
<1>3. net' \in [Ends -> Seq(Packets)]
  BY <1>1, <1>2
<1>4. tpUp' \in BOOLEAN
  BY DEF TransportFails
<1>. QED
  BY <1>3, <1>4 DEF TransportFails, Types, io

LEMMA TypesKept ==
  ASSUME Types, \A e \in Ends : Handled(e), [Next /\ UNCHANGED plan]_<<vars, plan>>
  PROVE  Types'
<1>1. CASE Next /\ UNCHANGED plan
  BY <1>1, CloserTypes, RouterTypes, IoTypes, TransportTypes DEF Next
<1>2. CASE UNCHANGED <<vars, plan>>
  BY <1>2 DEF Types, vars, io
<1>. QED
  BY <1>1, <1>2

-----------------------------------------------------------------------------
(* What a step of one end does to the other, and what is never taken back.  *)

\* A step of one of the threads of e.
EndStep(e) ==
    \/ \E t \in Closers : CallClose(e, t) \/ Close(e, t)
    \/ Router(e)
    \/ Read(e)
    \/ WriteIsClosed(e) \/ Write(e)
    \/ SendPing(e) \/ ServiceLoopEnds(e)

\* What an end keeps for itself.
Own(e) == <<rg[e], rt[e], pc[e], initiator[e], rdata[e], panicked[e], sent[e], got[e], farewell[e]>>

LEMMA Elsewhere ==
  ASSUME Types, NEW e \in Ends, EndStep(e), NEW f \in Ends, f # e
  PROVE  UNCHANGED Own(f)
<1>. USE DEF io
<1>1. /\ rg \in [Ends -> RouteGroups] /\ DOMAIN rt = Ends /\ DOMAIN pc = Ends /\ DOMAIN initiator = Ends
      /\ DOMAIN rdata = Ends /\ DOMAIN panicked = Ends /\ DOMAIN sent = Ends /\ DOMAIN got = Ends
      /\ DOMAIN farewell = Ends
  BY DEF Types
<1>2. ASSUME NEW t \in Callers, NEW g, ReturnFromClose(e, t, g)
      PROVE  rg'[f] = rg[f] /\ pc'[f] = pc[f]
  BY <1>1, <1>2 DEF ReturnFromClose, Goto
<1>3. ASSUME NEW t \in Callers, CloseStep(e, t)
      PROVE  UNCHANGED Own(f)
  <2>1. CASE CloseEnter(e, t)
    BY <1>1, <1>2, <2>1 DEF CloseEnter, Goto, Own
  <2>2. CASE BroadcastClosePackets(e, t)
    BY <1>1, <2>2 DEF BroadcastClosePackets, Goto, Own
  <2>3. CASE CloseDoneWaited(e, t) \/ CloseTimeout(e, t)
    BY <1>1, <2>3 DEF CloseDoneWaited, CloseTimeout, Goto, Own
  <2>4. CASE CloseDelRules(e, t)
    BY <1>1, <2>4 DEF CloseDelRules, Goto, Own
  <2>5. CASE CloseOnce(e, t)
    BY <1>1, <1>2, <2>5 DEF CloseOnce, Goto, Own
  <2>6. CASE OnceRemoteClosed(e, t)
    BY <1>1, <2>6 DEF OnceRemoteClosed, Goto, Own
  <2>7. CASE OnceReadCh(e, t)
    BY <1>1, <1>2, <2>7 DEF OnceReadCh, Own
  <2>. QED
    BY <1>3, <2>1, <2>2, <2>3, <2>4, <2>5, <2>6, <2>7 DEF CloseStep
<1>4. ASSUME NEW t \in Closers, CallClose(e, t) \/ Close(e, t)
      PROVE  UNCHANGED Own(f)
  <2>1. CASE CallClose(e, t)
    BY <1>1, <2>1 DEF CallClose, Goto, Own
  <2>2. CASE CloseIsClosed(e, t) \/ CloseIsRemoteClosed(e, t)
    BY <1>1, <2>2 DEF CloseIsClosed, CloseIsRemoteClosed, Goto, Own
  <2>3. CASE CloseClosed(e, t)
    BY <1>1, <2>3 DEF CloseClosed, Goto, Own
  <2>4. CASE CloseInitiate(e, t) \/ CloseLock(e, t)
    BY <1>1, <2>4 DEF CloseInitiate, CloseLock, Goto, Own
  <2>5. CASE CloseStep(e, t)
    BY <1>3, <2>5 DEF Callers
  <2>. QED
    BY <1>4, <2>1, <2>2, <2>3, <2>4, <2>5 DEF Close
<1>5. CASE Router(e)
  <2>1. CASE HandleUnknownRule(e) \/ HandlePongPacket(e)
    BY <2>1 DEF HandleUnknownRule, HandlePongPacket, Own
  <2>2. CASE HandleClosePacket(e) \/ HandlePingPacket(e)
    BY <1>1, <2>2 DEF HandleClosePacket, HandlePingPacket, Goto, Own
  <2>3. CASE RGHandleClosePacket(e)
    BY <1>1, <2>3 DEF RGHandleClosePacket, Goto, Own
  <2>4. CASE ClosePacketHandled(e)
    BY <1>1, <2>4 DEF ClosePacketHandled, Goto, Own
  <2>5. CASE HandleDataPacket(e)
    BY <1>1, <2>5 DEF HandleDataPacket, Goto, Own
  <2>6. CASE PushData(e)
    BY <1>1, <2>6 DEF PushData, Goto, Own
  <2>7. CASE HandleErrorPacket(e)
    BY <1>1, <2>7 DEF HandleErrorPacket, Own
  <2>8. CASE SendPong(e)
    BY <1>1, <2>8 DEF SendPong, Goto, Own
  <2>9. CASE CloseStep(e, "router")
    BY <1>3, <2>9 DEF Callers
  <2>. QED
    BY <1>5, <2>1, <2>2, <2>3, <2>4, <2>5, <2>6, <2>7, <2>8, <2>9 DEF Router
<1>6. CASE Read(e)
  <2>1. CASE ReadIsClosed(e)
    BY <1>1, <2>1 DEF ReadIsClosed, Goto, Own
  <2>2. CASE ReadBuf(e)
    BY <1>1, <2>2 DEF ReadBuf, Goto, Own
  <2>3. CASE ReadSelect(e)
    BY <1>1, <2>3 DEF ReadSelect, Goto, Own
  <2>4. CASE BufRead(e)
    BY <1>1, <2>4 DEF BufRead, Goto, Own
  <2>. QED
    BY <1>6, <2>1, <2>2, <2>3, <2>4 DEF Read
<1>7. CASE WriteIsClosed(e) \/ Write(e) \/ SendPing(e) \/ ServiceLoopEnds(e)
  BY <1>1, <1>7 DEF WriteIsClosed, Write, SendPing, ServiceLoopEnds, Goto, Own
<1>. QED
  BY <1>4, <1>5, <1>6, <1>7 DEF EndStep

-----------------------------------------------------------------------------
(* The steps of close() and of Close, of each end for itself.               *)

Closed(e) == Steps(e) /\ Announced(e)

\* Nobody in close() moves, and the route group keeps its marks.
Alone(e) ==
    /\ \A t \in Callers :
          \/ pc'[e][t] = pc[e][t]
          \/ pc'[e][t] \notin InClose \cup {"lock", "closeClosed"}
          \/ t = "router" /\ pc'[e][t] = "close"
    /\ rt'[e] \subseteq rt[e] /\ initiator'[e] = initiator[e]
    /\ rg'[e].closeInitiated = rg[e].closeInitiated /\ rg'[e].closed = rg[e].closed
    /\ rg'[e].remoteClosed = rg[e].remoteClosed /\ rg'[e].readChClosed = rg[e].readChClosed
    /\ rg'[e].once = rg[e].once

LEMMA ClosedAlone ==
  ASSUME NEW e \in Ends, Closed(e), Alone(e)
  PROVE  Closed(e)'
<1>1. Steps(e)'
  BY DEF Alone, Closed, Steps, Callers, Closers, InClose, OnceBody
<1>2. Announced(e)'
  BY DEF Alone, Closed, Announced, Callers, Closers, InClose, OnceBody
<1>. QED
  BY <1>1, <1>2 DEF Closed

LEMMA CloseStepClosed ==
  ASSUME Types, NEW e \in Ends, NEW t \in Callers, CloseStep(e, t), Closed(e)
  PROVE  Closed(e)'
<1>. USE DEF io
<1>1. /\ rg \in [Ends -> RouteGroups] /\ rg[e] \in RouteGroups
      /\ DOMAIN rt = Ends /\ DOMAIN panicked = Ends
      /\ t \in Threads /\ Callers \subseteq Threads
      /\ pc \in [Ends -> [Threads -> Labels]] /\ initiator \in [Ends -> [Callers -> BOOLEAN]]
  BY DEF Types, Callers, Threads
<1>2. CASE CloseEnter(e, t)
  <2>1. CASE rg[e].closed
    <3>1. ReturnFromClose(e, t, rg[e]) /\ rt' = rt /\ initiator' = initiator
      BY <1>2, <2>1 DEF CloseEnter
    <3>2. Alone(e)
      BY <1>1, <3>1 DEF Alone, ReturnFromClose, Goto, RouteGroups, InClose, OnceBody
    <3>. QED
      BY <3>2, ClosedAlone
  <2>2. CASE ~rg[e].closed
    <3>1. /\ rg'[e].closeInitiated = rg[e].closeInitiated /\ rg'[e].closed = rg[e].closed
          /\ rg'[e].remoteClosed = rg[e].remoteClosed /\ rg'[e].readChClosed = rg[e].readChClosed
          /\ rg'[e].once = rg[e].once
      BY <1>1, <1>2, <2>2 DEF CloseEnter, RouteGroups
    <3>2. /\ \A u \in Callers : pc'[e][u] = IF u = t THEN "broadcast" ELSE pc[e][u]
          /\ \A u \in Callers : initiator'[e][u] = IF u = t THEN rg[e].closeInitiated ELSE initiator[e][u]
      BY <1>1, <1>2, <2>2 DEF CloseEnter, Goto
    <3>3. rt' = rt /\ pc[e][t] = "close"
      BY <1>2 DEF CloseEnter
    <3>4. Steps(e)'
      BY <3>1, <3>2, <3>3 DEF Closed, Steps, OnceBody
    <3>5. Announced(e)'
      BY <3>1, <3>2, <3>3 DEF Closed, Announced, Callers, InClose, OnceBody
    <3>. QED
      BY <3>4, <3>5 DEF Closed
  <2>. QED
    BY <2>1, <2>2
<1>3. CASE BroadcastClosePackets(e, t)
  BY <1>1, <1>3 DEF BroadcastClosePackets, Goto, Closed, Steps, Announced, Callers, Closers, InClose, OnceBody
<1>4. CASE CloseDoneWaited(e, t) \/ CloseTimeout(e, t)
  BY <1>1, <1>4 DEF CloseDoneWaited, CloseTimeout, Goto, Closed, Steps, Announced, Callers, Closers, InClose, OnceBody
<1>5. CASE CloseDelRules(e, t)
  BY <1>1, <1>5 DEF CloseDelRules, Goto, Closed, Steps, Announced, Callers, Closers, InClose, OnceBody
<1>6. CASE CloseOnce(e, t)
  <2>1. CASE rg[e].once = "no" /\ Goto(e, t, "onceRemoteClosed")
                /\ rg' = [rg EXCEPT ![e].once = "running", ![e].closed = @ \/ initiator[e][t]]
    <3>1. /\ rg'[e].closeInitiated = rg[e].closeInitiated
          /\ rg'[e].closed = (rg[e].closed \/ initiator[e][t])
          /\ rg'[e].remoteClosed = rg[e].remoteClosed /\ rg'[e].readChClosed = rg[e].readChClosed
          /\ rg'[e].once = "running"
      BY <1>1, <2>1 DEF RouteGroups
    <3>2. \A u \in Callers : pc'[e][u] = IF u = t THEN "onceRemoteClosed" ELSE pc[e][u]
      BY <1>1, <2>1 DEF Goto
    <3>3. rt' = rt /\ initiator' = initiator /\ pc[e][t] = "once"
      BY <1>6 DEF CloseOnce
    <3>4. Steps(e)'
      BY <3>1, <3>2, <3>3 DEF Closed, Steps, OnceBody
    <3>5. Announced(e)'
      BY <3>1, <3>2, <3>3 DEF Closed, Announced, Callers, InClose, OnceBody
    <3>. QED
      BY <3>4, <3>5 DEF Closed
  <2>2. CASE ReturnFromClose(e, t, rg[e])
    <3>1. rt' = rt /\ initiator' = initiator
      BY <1>6 DEF CloseOnce
    <3>2. Alone(e)
      BY <1>1, <2>2, <3>1 DEF Alone, ReturnFromClose, Goto, RouteGroups, InClose, OnceBody
    <3>. QED
      BY <3>2, ClosedAlone
  <2>. QED
    BY <1>6, <2>1, <2>2 DEF CloseOnce
<1>7. CASE OnceRemoteClosed(e, t)
  BY <1>1, <1>7 DEF OnceRemoteClosed, Goto, Closed, Steps, Announced, Callers, Closers, InClose, OnceBody, RouteGroups
<1>8. CASE OnceReadCh(e, t)
  BY <1>1, <1>8 DEF OnceReadCh, ReturnFromClose, Goto, Closed, Steps, Announced, Callers, Closers, InClose, OnceBody, RouteGroups
<1>. QED
  BY <1>2, <1>3, <1>4, <1>5, <1>6, <1>7, <1>8 DEF CloseStep

LEMMA CloserClosed ==
  ASSUME Types, NEW e \in Ends, NEW t \in Closers, CallClose(e, t) \/ Close(e, t), Closed(e)
  PROVE  Closed(e)'
<1>. USE DEF io
<1>1. /\ rg \in [Ends -> RouteGroups] /\ rg[e] \in RouteGroups
      /\ DOMAIN rt = Ends /\ DOMAIN panicked = Ends
      /\ t \in Threads /\ t \in Callers /\ Callers \subseteq Threads
      /\ pc \in [Ends -> [Threads -> Labels]] /\ initiator \in [Ends -> [Callers -> BOOLEAN]]
  BY DEF Types, Callers, Threads
<1>2. CASE CallClose(e, t)
  <2>1. /\ rg'[e].closeInitiated = rg[e].closeInitiated /\ rg'[e].closed = rg[e].closed
        /\ rg'[e].remoteClosed = rg[e].remoteClosed /\ rg'[e].readChClosed = rg[e].readChClosed
        /\ rg'[e].once = rg[e].once /\ rt'[e] \subseteq rt[e] /\ initiator'[e] = initiator[e]
    BY <1>1, <1>2 DEF CallClose, RouteGroups
  <2>2. \A u \in Callers : pc'[e][u] = IF u = t THEN "isClosed" ELSE pc[e][u]
    BY <1>1, <1>2 DEF CallClose, Goto
  <2>3. Alone(e)
    BY <2>1, <2>2 DEF Alone, InClose, OnceBody
  <2>. QED
    BY <2>3, ClosedAlone
<1>3. CASE CloseIsClosed(e, t)
  <2>1. \A u \in Callers : pc'[e][u] = IF u # t THEN pc[e][u]
                                       ELSE IF rg[e].closed THEN "returned" ELSE "isRemoteClosed"
    BY <1>1, <1>3 DEF CloseIsClosed, Goto
  <2>2. rg' = rg /\ rt' = rt /\ initiator' = initiator
    BY <1>3 DEF CloseIsClosed
  <2>3. Alone(e)
    BY <2>1, <2>2 DEF Alone, InClose, OnceBody
  <2>. QED
    BY <2>3, ClosedAlone
<1>4. CASE CloseIsRemoteClosed(e, t)
  <2>1. \A u \in Callers : pc'[e][u] = IF u # t THEN pc[e][u]
                                       ELSE IF rg[e].remoteClosed THEN "closeClosed" ELSE "initiate"
    BY <1>1, <1>4 DEF CloseIsRemoteClosed, Goto
  <2>2. rg' = rg /\ rt' = rt /\ initiator' = initiator
    BY <1>4 DEF CloseIsRemoteClosed
  <2>. QED
    BY <2>1, <2>2 DEF Closed, Steps, Announced, Callers, InClose, OnceBody
<1>5. CASE CloseClosed(e, t)
  <2>1. /\ rg'[e].closeInitiated = rg[e].closeInitiated /\ rg'[e].closed
        /\ rg'[e].remoteClosed = rg[e].remoteClosed /\ rg'[e].readChClosed = rg[e].readChClosed
        /\ rg'[e].once = rg[e].once
    BY <1>1, <1>5 DEF CloseClosed, RouteGroups
  <2>2. \A u \in Callers : pc'[e][u] = IF u = t THEN "returned" ELSE pc[e][u]
    BY <1>1, <1>5 DEF CloseClosed, Goto
  <2>3. rt' = rt /\ initiator' = initiator /\ pc[e][t] = "closeClosed"
    BY <1>5 DEF CloseClosed
  <2>. QED
    BY <2>1, <2>2, <2>3 DEF Closed, Steps, Announced, Callers, InClose, OnceBody
<1>6. CASE CloseInitiate(e, t)
  <2>1. /\ rg'[e].closeInitiated /\ rg'[e].closed = rg[e].closed
        /\ rg'[e].remoteClosed = rg[e].remoteClosed /\ rg'[e].readChClosed = rg[e].readChClosed
        /\ rg'[e].once = rg[e].once
    BY <1>1, <1>6 DEF CloseInitiate, RouteGroups
  <2>2. \A u \in Callers : pc'[e][u] = IF u = t THEN "lock" ELSE pc[e][u]
    BY <1>1, <1>6 DEF CloseInitiate, Goto
  <2>3. rt' = rt /\ initiator' = initiator
    BY <1>6 DEF CloseInitiate
  <2>. QED
    BY <2>1, <2>2, <2>3 DEF Closed, Steps, Announced, Callers, InClose, OnceBody
<1>7. CASE CloseLock(e, t)
  <2>1. /\ rg'[e].closeInitiated = rg[e].closeInitiated /\ rg'[e].closed = rg[e].closed
        /\ rg'[e].remoteClosed = rg[e].remoteClosed /\ rg'[e].readChClosed = rg[e].readChClosed
        /\ rg'[e].once = rg[e].once
    BY <1>1, <1>7 DEF CloseLock, RouteGroups
  <2>2. \A u \in Callers : pc'[e][u] = IF u = t THEN "close" ELSE pc[e][u]
    BY <1>1, <1>7 DEF CloseLock, Goto
  <2>3. rt' = rt /\ initiator' = initiator /\ pc[e][t] = "lock"
    BY <1>7 DEF CloseLock
  <2>. QED
    BY <2>1, <2>2, <2>3 DEF Closed, Steps, Announced, Callers, InClose, OnceBody
<1>8. CASE CloseStep(e, t)
  BY <1>1, <1>8, CloseStepClosed
<1>. QED
  BY <1>2, <1>3, <1>4, <1>5, <1>6, <1>7, <1>8 DEF Close

\* The router's handlers up to close().
Handle(e) ==
    \/ HandleUnknownRule(e) \/ HandleClosePacket(e) \/ RGHandleClosePacket(e)
    \/ ClosePacketHandled(e) \/ HandleDataPacket(e) \/ PushData(e)
    \/ HandleErrorPacket(e) \/ HandlePingPacket(e) \/ SendPong(e) \/ HandlePongPacket(e)

\* Reading, writing and the ping loop.
UseOf(e) == Read(e) \/ WriteIsClosed(e) \/ Write(e) \/ SendPing(e) \/ ServiceLoopEnds(e)

\* They leave the marks of a close alone, and the threads that call Close.
MarksStay(e) ==
    /\ rg'[e].closeInitiated = rg[e].closeInitiated /\ rg'[e].closed = rg[e].closed
    /\ rg'[e].remoteClosed = rg[e].remoteClosed /\ rg'[e].readChClosed = rg[e].readChClosed
    /\ rg'[e].once = rg[e].once
    /\ initiator'[e] = initiator[e]
    /\ \A t \in Closers : pc'[e][t] = pc[e][t]
    /\ panicked'[e] = CloseOfClosed => panicked[e] = CloseOfClosed
    /\ farewell' = farewell

LEMMA HandleMarks ==
  ASSUME Types, NEW e \in Ends, Handle(e)
  PROVE  /\ MarksStay(e)
         /\ rt'[e] \subseteq rt[e]
         /\ \/ pc'[e]["router"] = pc[e]["router"]
            \/ pc'[e]["router"] \in {"close", "handleClose", "handled", "idle", "push", "pong"}
         /\ \A t \in {"reader", "writer", "pinger"} : pc'[e][t] = pc[e][t]
         /\ rdata' = rdata /\ got' = got /\ sent' = sent /\ rg'[e].readBuf = rg[e].readBuf
<1>. USE DEF io, MarksStay, InClose, OnceBody
<1>1. /\ rg \in [Ends -> RouteGroups] /\ rg[e] \in RouteGroups
      /\ DOMAIN rt = Ends /\ DOMAIN panicked = Ends
      /\ Closers \cup {"router", "reader", "writer", "pinger"} \subseteq Threads /\ "router" \notin Closers
      /\ pc \in [Ends -> [Threads -> Labels]]
  BY DEF Types, Threads, Closers
<1>2. CASE HandleUnknownRule(e) \/ HandlePongPacket(e)
  BY <1>1, <1>2 DEF HandleUnknownRule, HandlePongPacket
<1>3. CASE HandleClosePacket(e)
  BY <1>1, <1>3 DEF HandleClosePacket, Goto
<1>4. CASE RGHandleClosePacket(e)
  <2>1. rg'[e] = rg[e] \/ rg'[e] = [rg[e] EXCEPT !.closeDone = @ - 1]
    BY <1>1, <1>4 DEF RGHandleClosePacket
  <2>2. /\ rg'[e].closeInitiated = rg[e].closeInitiated /\ rg'[e].closed = rg[e].closed
        /\ rg'[e].remoteClosed = rg[e].remoteClosed /\ rg'[e].readChClosed = rg[e].readChClosed
        /\ rg'[e].once = rg[e].once /\ rg'[e].readBuf = rg[e].readBuf
    BY <1>1, <2>1 DEF RouteGroups
  <2>3. /\ \A t \in Threads : t # "router" => pc'[e][t] = pc[e][t]
        /\ pc'[e]["router"] \in {"handled", "close"}
        /\ panicked'[e] = CloseOfClosed => panicked[e] = CloseOfClosed
    <3>1. \A t \in Threads : t # "router" => pc'[e][t] = pc[e][t]
      BY <1>1, <1>4 DEF RGHandleClosePacket, Goto
    <3>2. pc'[e]["router"] \in {"handled", "close"}
      BY <1>1, <1>4 DEF RGHandleClosePacket, Goto
    <3>3. NegativeCounter # CloseOfClosed
      BY DEF NegativeCounter, CloseOfClosed
    <3>4. panicked'[e] = CloseOfClosed => panicked[e] = CloseOfClosed
      BY <1>1, <1>4, <3>3 DEF RGHandleClosePacket
    <3>. QED
      BY <3>1, <3>2, <3>4
  <2>. QED
    BY <1>1, <1>4, <2>2, <2>3 DEF RGHandleClosePacket
<1>5. CASE ClosePacketHandled(e)
  BY <1>1, <1>5 DEF ClosePacketHandled, Goto
<1>6. CASE HandleDataPacket(e)
  BY <1>1, <1>6 DEF HandleDataPacket, Goto
<1>7. CASE PushData(e)
  <2>1. rg'[e] = rg[e] \/ rg'[e] = [rg[e] EXCEPT !.readCh = Append(@, Packet(e).bytes)]
    BY <1>1, <1>7 DEF PushData
  <2>2. /\ rg'[e].closeInitiated = rg[e].closeInitiated /\ rg'[e].closed = rg[e].closed
        /\ rg'[e].remoteClosed = rg[e].remoteClosed /\ rg'[e].readChClosed = rg[e].readChClosed
        /\ rg'[e].once = rg[e].once /\ rg'[e].readBuf = rg[e].readBuf
    BY <1>1, <2>1 DEF RouteGroups
  <2>3. /\ \A t \in Threads : t # "router" => pc'[e][t] = pc[e][t]
        /\ pc'[e]["router"] = "idle"
    BY <1>1, <1>7 DEF PushData, Goto
  <2>4. panicked'[e] = CloseOfClosed => panicked[e] = CloseOfClosed
    <3>1. SendOnClosed # CloseOfClosed
      BY DEF SendOnClosed, CloseOfClosed
    <3>. QED
      BY <1>1, <1>7, <3>1 DEF PushData
  <2>. QED
    BY <1>1, <1>7, <2>2, <2>3, <2>4 DEF PushData
<1>8. CASE HandleErrorPacket(e)
  BY <1>1, <1>8 DEF HandleErrorPacket, RouteGroups
<1>9. CASE HandlePingPacket(e)
  BY <1>1, <1>9 DEF HandlePingPacket, Goto
<1>10. CASE SendPong(e)
  BY <1>1, <1>10 DEF SendPong, Goto
<1>. QED
  BY <1>2, <1>3, <1>4, <1>5, <1>6, <1>7, <1>8, <1>9, <1>10 DEF Handle

LEMMA UseMarks ==
  ASSUME Types, NEW e \in Ends, UseOf(e)
  PROVE  /\ MarksStay(e)
         /\ rt' = rt /\ pc'[e]["router"] = pc[e]["router"] /\ panicked' = panicked
         /\ rg'[e].closeError = rg[e].closeError
<1>. USE DEF io, MarksStay
<1>1. /\ rg \in [Ends -> RouteGroups] /\ rg[e] \in RouteGroups
      /\ Closers \cup {"router", "reader", "writer", "pinger"} \subseteq Threads
      /\ {"reader", "writer", "pinger"} \cap Closers = {}
      /\ pc \in [Ends -> [Threads -> Labels]]
  BY DEF Types, Threads, Closers
<1>2. CASE ReadIsClosed(e)
  BY <1>1, <1>2 DEF ReadIsClosed, Goto
<1>3. CASE ReadBuf(e)
  <2>1. rg'[e] = rg[e] \/ rg'[e] = [rg[e] EXCEPT !.readBuf = AfterN(@, ReadBytes)]
    <3>1. CASE UNCHANGED rg
      BY <3>1
    <3>2. CASE rg' = [rg EXCEPT ![e].readBuf = AfterN(@, ReadBytes)]
      BY <1>1, <3>2
    <3>. QED
      BY <1>3, <3>1, <3>2 DEF ReadBuf
  <2>2. /\ rg'[e].closeInitiated = rg[e].closeInitiated /\ rg'[e].closed = rg[e].closed
        /\ rg'[e].remoteClosed = rg[e].remoteClosed /\ rg'[e].readChClosed = rg[e].readChClosed
        /\ rg'[e].once = rg[e].once /\ rg'[e].closeError = rg[e].closeError
    BY <1>1, <2>1 DEF RouteGroups
  <2>3. \A t \in Threads : t # "reader" => pc'[e][t] = pc[e][t]
    <3>1. Goto(e, "reader", "check") \/ Goto(e, "reader", "select")
      BY <1>3 DEF ReadBuf
    <3>. QED
      BY <1>1, <3>1 DEF Goto
  <2>. QED
    BY <1>1, <1>3, <2>2, <2>3 DEF ReadBuf
<1>4. CASE ReadSelect(e)
  <2>1. rg'[e] = rg[e] \/ rg'[e] = [rg[e] EXCEPT !.readCh = Tail(@)]
    BY <1>1, <1>4 DEF ReadSelect
  <2>2. /\ rg'[e].closeInitiated = rg[e].closeInitiated /\ rg'[e].closed = rg[e].closed
        /\ rg'[e].remoteClosed = rg[e].remoteClosed /\ rg'[e].readChClosed = rg[e].readChClosed
        /\ rg'[e].once = rg[e].once /\ rg'[e].closeError = rg[e].closeError
    BY <1>1, <2>1 DEF RouteGroups
  <2>3. \A t \in Threads : t # "reader" => pc'[e][t] = pc[e][t]
    BY <1>1, <1>4 DEF ReadSelect, Goto
  <2>. QED
    BY <1>1, <1>4, <2>2, <2>3 DEF ReadSelect
<1>5. CASE BufRead(e)
  <2>1. rg'[e] = [rg[e] EXCEPT !.readBuf = @ \o AfterN(rdata[e], ReadBytes)]
    BY <1>1, <1>5 DEF BufRead
  <2>2. /\ rg'[e].closeInitiated = rg[e].closeInitiated /\ rg'[e].closed = rg[e].closed
        /\ rg'[e].remoteClosed = rg[e].remoteClosed /\ rg'[e].readChClosed = rg[e].readChClosed
        /\ rg'[e].once = rg[e].once /\ rg'[e].closeError = rg[e].closeError
    BY <1>1, <2>1 DEF RouteGroups
  <2>3. \A t \in Threads : t # "reader" => pc'[e][t] = pc[e][t]
    BY <1>1, <1>5 DEF BufRead, Goto
  <2>. QED
    BY <1>1, <1>5, <2>2, <2>3 DEF BufRead
<1>6. CASE WriteIsClosed(e) \/ Write(e) \/ SendPing(e) \/ ServiceLoopEnds(e)
  BY <1>1, <1>6 DEF WriteIsClosed, Write, SendPing, ServiceLoopEnds, Goto
<1>. QED
  BY <1>2, <1>3, <1>4, <1>5, <1>6 DEF UseOf, Read

\* Every step of an end, by what it has to do with closing.
LEMMA EndSteps ==
  ASSUME NEW e \in Ends, EndStep(e)
  PROVE  \/ \E t \in Closers : CallClose(e, t) \/ Close(e, t)
         \/ Handle(e) \/ CloseStep(e, "router") \/ UseOf(e)
BY DEF EndStep, Router, Handle, UseOf

LEMMA ClosedKept ==
  ASSUME Types, [Next /\ UNCHANGED plan]_<<vars, plan>>, NEW e \in Ends, Closed(e)
  PROVE  Closed(e)'
<1>1. ASSUME EndStep(e) PROVE Closed(e)'
  <2>1. CASE \E t \in Closers : CallClose(e, t) \/ Close(e, t)
    BY <2>1, CloserClosed
  <2>2. CASE Handle(e)
    <3>1. Alone(e)
      BY <2>2, HandleMarks DEF Alone, MarksStay, Callers, InClose, OnceBody
    <3>. QED
      BY <3>1, ClosedAlone
  <2>3. CASE CloseStep(e, "router")
    BY <2>3, CloseStepClosed DEF Callers
  <2>4. CASE UseOf(e)
    <3>1. Alone(e)
      BY <2>4, UseMarks DEF Alone, MarksStay, Callers
    <3>. QED
      BY <3>1, ClosedAlone
  <2>. QED
    BY <1>1, <2>1, <2>2, <2>3, <2>4, EndSteps
<1>2. ASSUME NEW f \in Ends, f # e, EndStep(f) PROVE Closed(e)'
  BY <1>2, Elsewhere DEF Own, Closed, Steps, Announced
<1>3. CASE TransportFails
  BY <1>3 DEF TransportFails, Closed, Steps, Announced
<1>4. CASE UNCHANGED <<vars, plan>>
  BY <1>4 DEF vars, io, Closed, Steps, Announced
<1>. QED
  BY <1>1, <1>2, <1>3, <1>4 DEF Next, EndStep

-----------------------------------------------------------------------------
(* What closing leaves alone, and what reaches the peer.                    *)

\* What nothing takes back.
Grows(e) ==
    /\ rg[e].closeInitiated => rg'[e].closeInitiated
    /\ rg[e].closed => rg'[e].closed
    /\ rg[e].remoteClosed => rg'[e].remoteClosed
    /\ rg[e].readChClosed => rg'[e].readChClosed
    /\ rg[e].closeError => rg'[e].closeError
    /\ rt'[e] \subseteq rt[e]

\* A step of a thread of e that closes.
ClosingStep(e, t) ==
    \/ CloseStep(e, t)
    \/ t \in Closers /\ (CallClose(e, t) \/ Close(e, t))

LEMMA ClosingLeaves ==
  ASSUME Types, NEW e \in Ends, NEW t \in Callers, ClosingStep(e, t)
  PROVE  /\ Grows(e)
         /\ rg'[e].readBuf = rg[e].readBuf /\ rg'[e].readCh = rg[e].readCh
         /\ \A u \in Threads : u # t => pc'[e][u] = pc[e][u]
         /\ rdata' = rdata /\ sent' = sent /\ got' = got
         /\ (net' = net /\ farewell' = farewell) \/ BroadcastClosePackets(e, t)
         /\ tpUp' = tpUp
<1>. USE DEF io, Grows
<1>1. /\ rg \in [Ends -> RouteGroups] /\ rg[e] \in RouteGroups
      /\ DOMAIN rt = Ends /\ t \in Threads /\ pc \in [Ends -> [Threads -> Labels]]
  BY DEF Types, Callers, Threads
<1>2. ASSUME NEW l, Goto(e, t, l) PROVE \A u \in Threads : u # t => pc'[e][u] = pc[e][u]
  BY <1>1, <1>2 DEF Goto
<1>3. CASE CloseEnter(e, t)
  <2>1. CASE rg[e].closed
    <3>1. ReturnFromClose(e, t, rg[e])
      BY <1>3, <2>1 DEF CloseEnter
    <3>. QED
      BY <1>1, <1>3, <3>1 DEF CloseEnter, ReturnFromClose, RouteGroups, Goto
  <2>2. CASE ~rg[e].closed
    <3>1. rg' = [rg EXCEPT ![e].closeDone = IF rg[e].closeInitiated THEN @ + 1 ELSE @]
      BY <1>3, <2>2 DEF CloseEnter
    <3>2. Goto(e, t, "broadcast")
      BY <1>3, <2>2 DEF CloseEnter
    <3>. QED
      BY <1>1, <1>3, <3>1, <3>2 DEF CloseEnter, RouteGroups, Goto
  <2>. QED
    BY <2>1, <2>2
<1>4. CASE BroadcastClosePackets(e, t)
  BY <1>1, <1>4 DEF BroadcastClosePackets, Goto
<1>5. CASE CloseDoneWaited(e, t) \/ CloseTimeout(e, t)
  BY <1>1, <1>5 DEF CloseDoneWaited, CloseTimeout, Goto
<1>6. CASE CloseDelRules(e, t)
  BY <1>1, <1>6 DEF CloseDelRules, Goto
<1>7. CASE CloseOnce(e, t)
  <2>1. CASE Goto(e, t, "onceRemoteClosed")
                /\ rg' = [rg EXCEPT ![e].once = "running", ![e].closed = @ \/ initiator[e][t]]
    BY <1>1, <1>7, <2>1 DEF CloseOnce, RouteGroups, Goto
  <2>2. CASE ReturnFromClose(e, t, rg[e])
    BY <1>1, <1>7, <2>2 DEF CloseOnce, ReturnFromClose, RouteGroups, Goto
  <2>. QED
    BY <1>7, <2>1, <2>2 DEF CloseOnce
<1>8. CASE OnceRemoteClosed(e, t)
  BY <1>1, <1>8 DEF OnceRemoteClosed, Goto, RouteGroups
<1>9. CASE OnceReadCh(e, t)
  BY <1>1, <1>9 DEF OnceReadCh, ReturnFromClose, Goto, RouteGroups
<1>10. CASE CallClose(e, t)
  <2>1. /\ rg'[e].closeInitiated = rg[e].closeInitiated /\ rg'[e].closed = rg[e].closed
        /\ rg'[e].remoteClosed = rg[e].remoteClosed /\ rg'[e].readChClosed = rg[e].readChClosed
        /\ rg[e].closeError => rg'[e].closeError
        /\ rg'[e].readBuf = rg[e].readBuf /\ rg'[e].readCh = rg[e].readCh
    BY <1>1, <1>10 DEF CallClose, RouteGroups
  <2>2. rt'[e] \subseteq rt[e] /\ Goto(e, t, "isClosed")
    BY <1>1, <1>10 DEF CallClose
  <2>. QED
    BY <1>1, <1>2, <1>10, <2>1, <2>2 DEF CallClose
<1>11. CASE CloseIsClosed(e, t) \/ CloseIsRemoteClosed(e, t)
  BY <1>1, <1>11 DEF CloseIsClosed, CloseIsRemoteClosed, Goto
<1>12. CASE CloseClosed(e, t)
  BY <1>1, <1>12 DEF CloseClosed, Goto, RouteGroups
<1>13. CASE CloseInitiate(e, t) \/ CloseLock(e, t)
  <2>1. CASE CloseInitiate(e, t)
    BY <1>1, <2>1 DEF CloseInitiate, Goto, RouteGroups
  <2>2. CASE CloseLock(e, t)
    BY <1>1, <2>2 DEF CloseLock, Goto, RouteGroups
  <2>. QED
    BY <1>13, <2>1, <2>2
<1>. QED
  BY <1>3, <1>4, <1>5, <1>6, <1>7, <1>8, <1>9, <1>10, <1>11, <1>12, <1>13 DEF ClosingStep, CloseStep, Close

\* A ping or a pong.
Probes == {[type |-> "Ping"], [type |-> "Pong"]}

\* What a step of e puts on the path to its peer, and on its own.
LEMMA Outgoing ==
  ASSUME Types, NEW e \in Ends, EndStep(e)
  PROVE  /\ \/ net'[Peer(e)] = net[Peer(e)] /\ UNCHANGED <<farewell, sent>>
            \/ /\ \E p \in Probes : tpUp /\ net'[Peer(e)] = net[Peer(e)] \o <<p>>
               /\ UNCHANGED <<farewell, sent>>
            \/ \E t \in Callers : BroadcastClosePackets(e, t)
            \/ Write(e)
         /\ net'[e] = net[e] \/ Handle(e)
         /\ tpUp' = tpUp
<1>. USE DEF io
<1>1. Peer(e) \in Ends /\ Peer(e) # e /\ DOMAIN net = Ends
  BY Peers DEF Types
<1>2. ASSUME NEW t \in Callers, ClosingStep(e, t)
      PROVE  /\ \/ net'[Peer(e)] = net[Peer(e)] /\ UNCHANGED <<farewell, sent>>
                \/ BroadcastClosePackets(e, t)
             /\ net'[e] = net[e] /\ tpUp' = tpUp
  <2>1. CASE net' = net /\ farewell' = farewell
    BY <1>2, <2>1, ClosingLeaves
  <2>2. CASE BroadcastClosePackets(e, t)
    BY <2>2, Farewell, Delivered DEF BroadcastClosePackets
  <2>. QED
    BY <1>2, <2>1, <2>2, ClosingLeaves
<1>3. CASE \E t \in Closers : CallClose(e, t) \/ Close(e, t)
  BY <1>2, <1>3 DEF ClosingStep, Callers
<1>4. CASE CloseStep(e, "router")
  <2>1. ClosingStep(e, "router") /\ "router" \in Callers
    BY <1>4 DEF ClosingStep, Callers
  <2>2. /\ \/ net'[Peer(e)] = net[Peer(e)] /\ UNCHANGED <<farewell, sent>>
           \/ BroadcastClosePackets(e, "router")
        /\ net'[e] = net[e] /\ tpUp' = tpUp
    BY <1>2, <2>1
  <2>. QED
    BY <2>1, <2>2
<1>5. CASE Handle(e)
  <2>1. CASE SendPong(e)
    <3>1. <<[type |-> "Pong"]>> \in Seq(Packets)
      BY PacketTypes
    <3>2. net'[Peer(e)] = Sent(e, <<[type |-> "Pong"]>>)[Peer(e)]
      BY <1>1, <2>1, <3>1, Delivered DEF SendPong
    <3>3. net'[Peer(e)] = IF tpUp THEN net[Peer(e)] \o <<[type |-> "Pong"]>> ELSE net[Peer(e)]
      BY <3>1, <3>2, Delivered
    <3>4. UNCHANGED <<farewell, sent, tpUp>>
      BY <2>1 DEF SendPong
    <3>. QED
      BY <1>5, <3>3, <3>4 DEF Probes
  <2>2. CASE ~SendPong(e)
    BY <1>1, <1>5, <2>2 DEF Handle, Pop, HandleUnknownRule, HandleClosePacket, RGHandleClosePacket,
         ClosePacketHandled, HandleDataPacket, PushData, HandleErrorPacket, HandlePingPacket, HandlePongPacket
  <2>. QED
    BY <2>1, <2>2
<1>6. CASE UseOf(e)
  <2>1. CASE Read(e) \/ WriteIsClosed(e) \/ ServiceLoopEnds(e)
    BY <2>1 DEF Read, ReadIsClosed, ReadBuf, ReadSelect, BufRead, WriteIsClosed, ServiceLoopEnds
  <2>2. CASE Write(e)
    <3>. DEFINE p == [type |-> "Data", bytes |-> [i \in 1 .. PacketBytes |-> sent[e] + i]]
    <3>1. net' = Sent(e, <<p>>) /\ tpUp' = tpUp
      BY <2>2 DEF Write
    <3>. HIDE DEF p
    <3>2. net'[e] = net[e]
      BY <1>1, <3>1 DEF Sent
    <3>. QED
      BY <2>2, <3>1, <3>2
  <2>3. CASE SendPing(e)
    <3>1. <<[type |-> "Ping"]>> \in Seq(Packets)
      BY PacketTypes
    <3>2. net'[Peer(e)] = (IF tpUp THEN net[Peer(e)] \o <<[type |-> "Ping"]>> ELSE net[Peer(e)])
             /\ net'[e] = net[e]
      BY <2>3, <3>1, Delivered DEF SendPing
    <3>3. UNCHANGED <<farewell, sent, tpUp>>
      BY <2>3 DEF SendPing
    <3>. QED
      BY <3>2, <3>3 DEF Probes
  <2>. QED
    BY <1>6, <2>1, <2>2, <2>3 DEF UseOf
<1>. QED
  BY <1>3, <1>4, <1>5, <1>6, EndSteps

\* Who changes readCh.
LEMMA HandleReadCh ==
  ASSUME Types, NEW e \in Ends, Handle(e)
  PROVE  \/ rg'[e].readCh = rg[e].readCh
         \/ /\ PushData(e) /\ ~rg[e].readChClosed /\ Len(rg[e].readCh) < ReadChBufSize
            /\ rg'[e].readCh = Append(rg[e].readCh, Packet(e).bytes)
<1>1. rg \in [Ends -> RouteGroups] /\ rg[e] \in RouteGroups
  BY DEF Types
<1>2. CASE PushData(e)
  <2>1. CASE UNCHANGED rg
    BY <2>1
  <2>2. CASE /\ ~rg[e].readChClosed /\ Len(rg[e].readCh) < ReadChBufSize
             /\ rg' = [rg EXCEPT ![e].readCh = Append(@, Packet(e).bytes)]
    <3>1. rg'[e].readCh = Append(rg[e].readCh, Packet(e).bytes)
      BY <1>1, <2>2 DEF RouteGroups
    <3>. QED
      BY <1>2, <2>2, <3>1
  <2>. QED
    BY <1>2, <2>1, <2>2 DEF PushData
<1>3. CASE RGHandleClosePacket(e)
  <2>1. CASE UNCHANGED rg
    BY <2>1
  <2>2. CASE rg' = [rg EXCEPT ![e].closeDone = @ - 1]
    BY <1>1, <2>2 DEF RouteGroups
  <2>. QED
    BY <1>3, <2>1, <2>2 DEF RGHandleClosePacket
<1>4. CASE HandleErrorPacket(e)
  <2>1. rg' = [rg EXCEPT ![e].closeError = @ \/ ~rg[e].remoteClosed]
    BY <1>4 DEF HandleErrorPacket
  <2>. QED
    BY <1>1, <2>1 DEF RouteGroups
<1>5. CASE ~PushData(e) /\ ~RGHandleClosePacket(e) /\ ~HandleErrorPacket(e)
  BY <1>5 DEF Handle, HandleUnknownRule, HandleClosePacket, ClosePacketHandled, HandleDataPacket,
     HandlePingPacket, SendPong, HandlePongPacket
<1>. QED
  BY <1>2, <1>3, <1>4, <1>5

\* Only the reader takes from readCh.
LEMMA UseReadCh ==
  ASSUME Types, NEW e \in Ends, UseOf(e)
  PROVE  \/ rg'[e].readCh = rg[e].readCh
         \/ ReadSelect(e) /\ rg[e].readCh # <<>> /\ rg'[e].readCh = Tail(rg[e].readCh)
<1>1. rg \in [Ends -> RouteGroups] /\ rg[e] \in RouteGroups
  BY DEF Types
<1>2. CASE ReadSelect(e)
  <2>1. CASE UNCHANGED rg
    BY <2>1
  <2>2. CASE rg[e].readCh # <<>> /\ rg' = [rg EXCEPT ![e].readCh = Tail(@)]
    BY <1>1, <1>2, <2>2 DEF RouteGroups
  <2>. QED
    BY <1>2, <2>1, <2>2 DEF ReadSelect
<1>3. CASE ReadBuf(e)
  <2>1. CASE UNCHANGED rg
    BY <2>1
  <2>2. CASE rg' = [rg EXCEPT ![e].readBuf = AfterN(@, ReadBytes)]
    BY <1>1, <2>2 DEF RouteGroups
  <2>. QED
    BY <1>3, <2>1, <2>2 DEF ReadBuf
<1>4. CASE BufRead(e)
  <2>1. rg' = [rg EXCEPT ![e].readBuf = @ \o AfterN(rdata[e], ReadBytes)]
    BY <1>4 DEF BufRead
  <2>. QED
    BY <1>1, <2>1 DEF RouteGroups
<1>5. CASE ReadIsClosed(e) \/ WriteIsClosed(e) \/ Write(e) \/ SendPing(e) \/ ServiceLoopEnds(e)
  BY <1>5 DEF ReadIsClosed, WriteIsClosed, Write, SendPing, ServiceLoopEnds
<1>. QED
  BY <1>2, <1>3, <1>4, <1>5 DEF UseOf, Read

\* One multiple of PacketBytes below another is a packet below.
LEMMA Multiples ==
  ASSUME NEW p \in Nat \ {0}, NEW m \in Nat, NEW n \in Nat
  PROVE  /\ n * p < m * p => n < m
         /\ n <= m => n * p <= m * p
         /\ n * p + p = (n + 1) * p
<1>1. n * p < m * p => n < m
  <2>. SUFFICES ASSUME n >= m PROVE n * p >= m * p
    BY SMT
  <2>1. PICK d \in Nat : n = m + d
    BY SMT
  <2>2. n * p = m * p + d * p
    BY <2>1, SMT
  <2>3. d * p \in Nat
    BY SMT
  <2>. QED
    BY <2>2, <2>3, SMT
<1>2. n <= m => n * p <= m * p
  <2>. SUFFICES ASSUME n <= m PROVE n * p <= m * p
    BY SMT
  <2>1. PICK d \in Nat : m = n + d
    BY SMT
  <2>2. m * p = n * p + d * p
    BY <2>1, SMT
  <2>3. d * p \in Nat
    BY SMT
  <2>. QED
    BY <2>2, <2>3, SMT
<1>3. n * p + p = (n + 1) * p
  BY SMT
<1>. QED
  BY <1>1, <1>2, <1>3

LEMMA WholeKept ==
  ASSUME Types, NEW e \in Ends, EndStep(e), Whole(e)
  PROVE  Whole(e)'
<1>. USE DEF io
<1>1. /\ pc \in [Ends -> [Threads -> Labels]] /\ "writer" \in Threads /\ sent \in [Ends -> Nat]
      /\ Callers \subseteq Threads /\ "writer" \notin Callers
      /\ {"reader", "writer", "pinger"} \subseteq Threads
  BY DEF Types, Threads, Callers, Closers
<1>2. PacketBytes \in Nat \ {0} /\ MaxPackets \in Nat
  BY ConstantsAssumption
<1>3. CASE sent' = sent /\ pc'[e]["writer"] = pc[e]["writer"]
  BY <1>3 DEF Whole
<1>4. CASE WriteIsClosed(e)
  <2>1. PICK n \in 0 .. MaxPackets : sent[e] = n * PacketBytes
    BY DEF Whole
  <2>2. n < MaxPackets
    BY <1>2, <1>4, <2>1, Multiples DEF WriteIsClosed
  <2>3. sent' = sent
    BY <1>4 DEF WriteIsClosed
  <2>. QED
    BY <2>1, <2>2, <2>3 DEF Whole
<1>5. CASE Write(e)
  <2>1. PICK n \in 0 .. MaxPackets : sent[e] = n * PacketBytes /\ n < MaxPackets
    BY <1>5 DEF Whole, Write
  <2>2. pc'[e]["writer"] # "write"
    <3>1. Goto(e, "writer", "idle") \/ Goto(e, "writer", "error")
      BY <1>5 DEF Write
    <3>. QED
      BY <1>1, <3>1 DEF Goto
  <2>3. sent'[e] = IF tpUp THEN sent[e] + PacketBytes ELSE sent[e]
    BY <1>1, <1>5 DEF Write
  <2>4. n + 1 \in 0 .. MaxPackets /\ n * PacketBytes + PacketBytes = (n + 1) * PacketBytes
    BY <1>2, <2>1, Multiples
  <2>5. CASE tpUp
    <3>1. sent'[e] = (n + 1) * PacketBytes
      BY <2>1, <2>3, <2>4, <2>5
    <3>. QED
      BY <2>2, <2>4, <3>1 DEF Whole
  <2>6. CASE ~tpUp
    BY <2>1, <2>2, <2>3, <2>6 DEF Whole
  <2>. QED
    BY <2>5, <2>6
<1>6. ASSUME NEW t \in Callers, ClosingStep(e, t)
      PROVE  Whole(e)'
  BY <1>1, <1>3, <1>6, ClosingLeaves
<1>7. CASE Handle(e)
  BY <1>3, <1>7, HandleMarks
<1>8. CASE Read(e) \/ SendPing(e) \/ ServiceLoopEnds(e)
  <2>1. sent' = sent
    BY <1>8 DEF Read, ReadIsClosed, ReadBuf, ReadSelect, BufRead, SendPing, ServiceLoopEnds
  <2>2. pc'[e]["writer"] = pc[e]["writer"]
    <3>1. pc' = pc \/ \E t \in {"reader", "pinger"} : \E l : Goto(e, t, l)
      BY <1>8 DEF Read, ReadIsClosed, ReadBuf, ReadSelect, BufRead, SendPing, ServiceLoopEnds
    <3>2. ASSUME NEW t \in {"reader", "pinger"}, NEW l, Goto(e, t, l)
          PROVE  pc'[e]["writer"] = pc[e]["writer"]
      BY <1>1, <3>2 DEF Goto
    <3>. QED
      BY <3>1, <3>2
  <2>. QED
    BY <1>3, <2>1, <2>2
<1>9. \A t \in Closers : t \in Callers
  BY DEF Callers
<1>10. "router" \in Callers
  BY DEF Callers
<1>. QED
  BY <1>4, <1>5, <1>6, <1>7, <1>8, <1>9, <1>10, EndSteps DEF ClosingStep, UseOf

\* The steps of an end, as the lemmas above have them.
LEMMA EndKinds ==
  ASSUME NEW e \in Ends, EndStep(e)
  PROVE  (\E t \in Callers : ClosingStep(e, t)) \/ Handle(e) \/ UseOf(e)
BY EndSteps DEF ClosingStep, Callers

LEMMA BufferedKept ==
  ASSUME Types, NEW e \in Ends, EndStep(e), Buffered(e)
  PROVE  Buffered(e)'
<1>1. \A s \in Seq(Seq(Nat)) : /\ \A c : Len(Append(s, c)) = Len(s) + 1
                              /\ s # <<>> => Len(Tail(s)) = Len(s) - 1
                              /\ Len(s) \in Nat
  OBVIOUS
<1>2. rg[e].readCh \in Seq(Seq(Nat)) /\ ReadChBufSize \in Nat
  BY ConstantsAssumption, EndTypes, FieldTypes
<1>3. CASE \E t \in Callers : ClosingStep(e, t)
  BY <1>3, ClosingLeaves DEF Buffered
<1>4. CASE Handle(e)
  <2>1. CASE rg'[e].readCh = rg[e].readCh
    BY <2>1 DEF Buffered
  <2>2. CASE Len(rg[e].readCh) < ReadChBufSize /\ rg'[e].readCh = Append(rg[e].readCh, Packet(e).bytes)
    <3>1. Len(rg'[e].readCh) = Len(rg[e].readCh) + 1
      BY <1>1, <1>2, <2>2
    <3>. QED
      BY <1>1, <1>2, <2>2, <3>1 DEF Buffered
  <2>. QED
    BY <1>4, <2>1, <2>2, HandleReadCh
<1>5. CASE UseOf(e)
  <2>1. CASE rg'[e].readCh = rg[e].readCh
    BY <2>1 DEF Buffered
  <2>2. CASE rg[e].readCh # <<>> /\ rg'[e].readCh = Tail(rg[e].readCh)
    <3>1. Len(rg'[e].readCh) = Len(rg[e].readCh) - 1
      BY <1>1, <1>2, <2>2
    <3>. QED
      BY <1>1, <1>2, <2>2, <3>1 DEF Buffered
  <2>. QED
    BY <1>5, <2>1, <2>2, UseReadCh
<1>. QED
  BY <1>3, <1>4, <1>5, EndKinds

LEMMA ReadingKept ==
  ASSUME Types, NEW e \in Ends, EndStep(e), Reading(e)
  PROVE  Reading(e)'
<1>. USE DEF io
<1>1. /\ pc \in [Ends -> [Threads -> Labels]] /\ rg \in [Ends -> RouteGroups] /\ rg[e] \in RouteGroups
      /\ rdata \in [Ends -> Seq(Nat)]
      /\ {"reader", "writer", "pinger"} \subseteq Threads /\ "reader" \notin Callers
  BY DEF Types, Threads, Callers, Closers
<1>2. CASE \E t \in Callers : ClosingStep(e, t)
  BY <1>1, <1>2, ClosingLeaves DEF Reading, Grows
<1>3. CASE Handle(e)
  <2>1. rg[e].readChClosed => rg'[e].readCh = rg[e].readCh
    BY <1>3, HandleReadCh
  <2>. QED
    BY <1>3, <2>1, HandleMarks DEF Reading, MarksStay
<1>4. CASE ReadIsClosed(e)
  <2>1. pc'[e]["reader"] \in {"error", "buf"}
    BY <1>1, <1>4 DEF ReadIsClosed, Goto
  <2>2. rg' = rg /\ rdata' = rdata /\ pc[e]["reader"] = "check"
    BY <1>4 DEF ReadIsClosed
  <2>. QED
    BY <2>1, <2>2 DEF Reading
<1>5. CASE ReadBuf(e)
  <2>1. CASE rg[e].readBuf # <<>>
    <3>1. Goto(e, "reader", "check") /\ rdata' = rdata /\ pc[e]["reader"] = "buf"
      BY <1>5, <2>1 DEF ReadBuf
    <3>. QED
      BY <1>1, <3>1 DEF Reading, Goto
  <2>2. CASE rg[e].readBuf = <<>>
    <3>1. Goto(e, "reader", "select") /\ rg' = rg /\ rdata' = rdata /\ pc[e]["reader"] = "buf"
      BY <1>5, <2>2 DEF ReadBuf
    <3>. QED
      BY <1>1, <2>2, <3>1 DEF Reading, Goto
  <2>. QED
    BY <2>1, <2>2
<1>6. CASE ReadSelect(e)
  <2>1. rg[e].readBuf = <<>> /\ rdata[e] = <<>>
    BY <1>6 DEF ReadSelect, Reading
  <2>2. CASE Goto(e, "reader", "error") /\ UNCHANGED <<rg, rdata>>
    BY <1>1, <2>1, <2>2 DEF Reading, Goto
  <2>3. CASE Goto(e, "reader", "bufRead") /\ rg' = [rg EXCEPT ![e].readCh = Tail(@)]
    <3>1. rg'[e].readBuf = rg[e].readBuf
      BY <1>1, <2>3 DEF RouteGroups
    <3>. QED
      BY <1>1, <2>1, <2>3, <3>1 DEF Reading, Goto
  <2>4. CASE /\ rg[e].readCh = <<>> /\ rg[e].readChClosed
             /\ Goto(e, "reader", "EOF") /\ UNCHANGED <<rg, rdata>>
    BY <1>1, <2>1, <2>4 DEF Reading, Goto
  <2>. QED
    BY <1>6, <2>2, <2>3, <2>4 DEF ReadSelect
<1>7. CASE BufRead(e)
  <2>1. Goto(e, "reader", "check") /\ rdata' = [rdata EXCEPT ![e] = <<>>]
    BY <1>7 DEF BufRead
  <2>. QED
    BY <1>1, <2>1 DEF Reading, Goto
<1>8. CASE WriteIsClosed(e) \/ Write(e) \/ SendPing(e) \/ ServiceLoopEnds(e)
  <2>1. rg' = rg /\ rdata' = rdata
    BY <1>8 DEF WriteIsClosed, Write, SendPing, ServiceLoopEnds
  <2>2. pc'[e]["reader"] = pc[e]["reader"]
    <3>1. pc' = pc \/ \E t \in {"writer", "pinger"} : \E l : Goto(e, t, l)
      BY <1>8 DEF WriteIsClosed, Write, SendPing, ServiceLoopEnds
    <3>2. ASSUME NEW t \in {"writer", "pinger"}, NEW l, Goto(e, t, l)
          PROVE  pc'[e]["reader"] = pc[e]["reader"]
      BY <1>1, <3>2 DEF Goto
    <3>. QED
      BY <3>1, <3>2
  <2>. QED
    BY <2>1, <2>2 DEF Reading
<1>. QED
  BY <1>2, <1>3, <1>4, <1>5, <1>6, <1>7, <1>8, EndKinds DEF UseOf, Read

\* Data that is written.
DataPacket(b) == [type |-> "Data", bytes |-> [i \in 1 .. PacketBytes |-> b + i]]

LEMMA Written ==
  ASSUME Types, NEW e \in Ends, Write(e)
  PROVE  /\ DataPacket(sent[e]) \in Packets
         /\ net' = Sent(e, <<DataPacket(sent[e])>>)
<1>1. sent[e] \in Nat /\ PacketBytes \in Nat
  BY ConstantsAssumption DEF Types
<1>2. [i \in 1 .. PacketBytes |-> sent[e] + i] \in Seq(Nat)
  BY <1>1
<1>3. DataPacket(sent[e]) \in Packets
  BY <1>2, PacketTypes DEF DataPacket
<1>. QED
  BY <1>3 DEF Write, DataPacket

\* Packets come after those already on the way.
LEMMA Incoming ==
  ASSUME Types, NEW e \in Ends, EndStep(Peer(e))
  PROVE  \E s \in Seq(Packets) : net'[e] = net[e] \o s
<1>1. Peer(e) \in Ends /\ Peer(Peer(e)) = e /\ net[e] \in Seq(Packets)
  BY Peers DEF Types
<1>2. net[e] \o <<>> = net[e] /\ <<>> \in Seq(Packets)
  BY <1>1
<1>3. ASSUME NEW s \in Seq(Packets), net' = Sent(Peer(e), s)
      PROVE  \E r \in Seq(Packets) : net'[e] = net[e] \o r
  <2>1. net'[e] = IF tpUp THEN net[e] \o s ELSE net[e]
    BY <1>1, <1>3, Delivered
  <2>. QED
    BY <1>2, <2>1
<1>4. CASE net'[e] = net[e]
  BY <1>2, <1>4
<1>5. CASE \E p \in Probes : net'[e] = net[e] \o <<p>>
  <2>1. PICK p \in Probes : net'[e] = net[e] \o <<p>>
    BY <1>5
  <2>2. <<p>> \in Seq(Packets)
    BY PacketTypes DEF Probes
  <2>. QED
    BY <2>1, <2>2
<1>6. CASE \E t \in Callers : BroadcastClosePackets(Peer(e), t)
  <2>1. net' = Sent(Peer(e), ClosePackets(Peer(e)))
    BY <1>6 DEF BroadcastClosePackets
  <2>. QED
    BY <1>1, <1>3, <2>1, Farewell
<1>7. CASE Write(Peer(e))
  <2>1. net' = Sent(Peer(e), <<DataPacket(sent[Peer(e)])>>) /\ DataPacket(sent[Peer(e)]) \in Packets
    BY <1>1, <1>7, Written
  <2>2. <<DataPacket(sent[Peer(e)])>> \in Seq(Packets)
    BY <2>1
  <2>. QED
    BY <1>3, <2>1, <2>2
<1>. QED
  BY <1>1, <1>4, <1>5, <1>6, <1>7, Outgoing

\* The router inside close().
LEMMA RouterCloses ==
  ASSUME Types, NEW e \in Ends, ClosingStep(e, "router")
  PROVE  pc[e]["router"] \in InClose /\ pc'[e]["router"] \in InClose \cup {"handled"}
<1>. USE DEF InClose, OnceBody
<1>1. /\ pc \in [Ends -> [Threads -> Labels]] /\ "router" \in Threads /\ "router" \notin Closers
  BY DEF Types, Threads, Closers
<1>2. CloseStep(e, "router")
  BY <1>1 DEF ClosingStep
<1>3. \A l : Goto(e, "router", l) => pc'[e]["router"] = l
  BY <1>1 DEF Goto
<1>4. \A g : ReturnFromClose(e, "router", g) => pc'[e]["router"] = "handled"
  BY <1>1, <1>3 DEF ReturnFromClose
<1>5. CASE CloseEnter(e, "router")
  <2>1. pc'[e]["router"] = "handled" \/ pc'[e]["router"] = "broadcast"
    BY <1>3, <1>4, <1>5 DEF CloseEnter
  <2>. QED
    BY <1>5, <2>1 DEF CloseEnter
<1>6. CASE BroadcastClosePackets(e, "router")
  <2>1. Goto(e, "router", "wait") \/ Goto(e, "router", "delRules")
    BY <1>6 DEF BroadcastClosePackets
  <2>. QED
    BY <1>3, <1>6, <2>1 DEF BroadcastClosePackets
<1>7. CASE CloseDoneWaited(e, "router") \/ CloseTimeout(e, "router")
  BY <1>3, <1>7 DEF CloseDoneWaited, CloseTimeout
<1>8. CASE CloseDelRules(e, "router")
  BY <1>3, <1>8 DEF CloseDelRules
<1>9. CASE CloseOnce(e, "router")
  <2>1. pc'[e]["router"] = "handled" \/ pc'[e]["router"] = "onceRemoteClosed"
    BY <1>3, <1>4, <1>9 DEF CloseOnce
  <2>. QED
    BY <1>9, <2>1 DEF CloseOnce
<1>10. CASE OnceRemoteClosed(e, "router")
  BY <1>3, <1>10 DEF OnceRemoteClosed
<1>11. CASE OnceReadCh(e, "router")
  BY <1>4, <1>11 DEF OnceReadCh
<1>. QED
  BY <1>2, <1>5, <1>6, <1>7, <1>8, <1>9, <1>10, <1>11 DEF CloseStep

\* What the handlers do with the packet.
LEMMA HandlePacket ==
  ASSUME Types, NEW e \in Ends, Handle(e), Handled(e)
  PROVE  /\ Handled(e)'
         /\ \/ net'[e] = net[e]
            \/ net[e] # <<>> /\ net'[e] = Tail(net[e])
<1>. USE DEF io, Handled, Closing, InClose, OnceBody
<1>1. /\ pc \in [Ends -> [Threads -> Labels]] /\ "router" \in Threads /\ DOMAIN net = Ends
  BY DEF Types, Threads
<1>2. \A l : Goto(e, "router", l) => pc'[e]["router"] = l
  BY <1>1 DEF Goto
<1>3. Pop(e) => net'[e] = Tail(net[e])
  BY <1>1 DEF Pop
<1>4. CASE HandleUnknownRule(e) \/ HandleErrorPacket(e) \/ HandlePongPacket(e)
  BY <1>3, <1>4 DEF HandleUnknownRule, HandleErrorPacket, HandlePongPacket, Received
<1>5. CASE HandleClosePacket(e)
  <2>1. Goto(e, "router", "handled") \/ Goto(e, "router", "handleClose")
    BY <1>5 DEF HandleClosePacket
  <2>2. net' = net /\ net[e] # <<>> /\ Packet(e).type = "Close"
    BY <1>5 DEF HandleClosePacket, Received
  <2>3. Packet(e)' = Packet(e)
    BY <2>2 DEF Packet
  <2>. QED
    BY <1>2, <2>1, <2>2, <2>3
<1>6. CASE RGHandleClosePacket(e)
  <2>1. Goto(e, "router", "handled") \/ Goto(e, "router", "close")
    BY <1>6 DEF RGHandleClosePacket
  <2>2. net' = net /\ pc[e]["router"] = "handleClose"
    BY <1>6 DEF RGHandleClosePacket
  <2>3. Packet(e)' = Packet(e)
    BY <2>2 DEF Packet
  <2>. QED
    BY <1>2, <2>1, <2>2, <2>3
<1>7. CASE ClosePacketHandled(e)
  BY <1>2, <1>3, <1>7 DEF ClosePacketHandled
<1>8. CASE HandleDataPacket(e)
  <2>1. CASE Pop(e) /\ UNCHANGED pc
    BY <1>3, <1>8, <2>1 DEF HandleDataPacket, Received
  <2>2. CASE Goto(e, "router", "push") /\ UNCHANGED net
    <3>1. Packet(e)' = Packet(e) /\ Packet(e).type = "Data" /\ net[e] # <<>>
      BY <1>8, <2>2 DEF HandleDataPacket, Received, Packet
    <3>. QED
      BY <1>2, <2>2, <3>1
  <2>. QED
    BY <1>8, <2>1, <2>2 DEF HandleDataPacket
<1>9. CASE PushData(e)
  BY <1>2, <1>3, <1>9 DEF PushData
<1>10. CASE HandlePingPacket(e)
  <2>1. /\ Packet(e)' = Packet(e) /\ Packet(e).type = "Ping" /\ net[e] # <<>>
        /\ net' = net /\ Goto(e, "router", "pong")
    BY <1>10 DEF HandlePingPacket, Received, Packet
  <2>. QED
    BY <1>2, <2>1
<1>11. CASE SendPong(e)
  <2>1. pc'[e]["router"] = "idle" /\ pc[e]["router"] = "pong"
    BY <1>2, <1>11 DEF SendPong
  <2>2. <<[type |-> "Pong"]>> \in Seq(Packets)
    BY PacketTypes
  <2>3. net'[e] = Tail(net[e])
    BY <1>11, <2>2, Delivered DEF SendPong
  <2>. QED
    BY <2>1, <2>3
<1>. QED
  BY <1>4, <1>5, <1>6, <1>7, <1>8, <1>9, <1>10, <1>11 DEF Handle

LEMMA HandledKept ==
  ASSUME Types, NEW e \in Ends, Handled(e), [Next /\ UNCHANGED plan]_<<vars, plan>>
  PROVE  Handled(e)'
<1>1. CASE Handle(e)
  BY <1>1, HandlePacket
<1>2. ASSUME EndStep(e), ~Handle(e) PROVE Handled(e)'
  <2>1. net'[e] = net[e]
    BY <1>2, Outgoing
  <2>2. \/ pc'[e]["router"] = pc[e]["router"]
        \/ pc[e]["router"] \in Closing /\ pc'[e]["router"] \in Closing
    <3>1. ASSUME NEW t \in Callers, ClosingStep(e, t), t # "router"
          PROVE  pc'[e]["router"] = pc[e]["router"]
      BY <3>1, ClosingLeaves DEF Threads
    <3>2. ClosingStep(e, "router") => pc[e]["router"] \in Closing /\ pc'[e]["router"] \in Closing
      BY RouterCloses DEF Closing
    <3>3. UseOf(e) => pc'[e]["router"] = pc[e]["router"]
      BY UseMarks
    <3>. QED
      BY <1>2, <3>1, <3>2, <3>3, EndKinds
  <2>3. "push" \notin Closing /\ "pong" \notin Closing /\ "idle" \notin Closing
    BY DEF Closing, InClose, OnceBody
  <2>. QED
    BY <2>1, <2>2, <2>3 DEF Handled, Packet
<1>3. ASSUME NEW f \in Ends, f # e, EndStep(f) PROVE Handled(e)'
  <2>1. pc'[e] = pc[e]
    BY <1>3, Elsewhere DEF Own
  <2>2. f = Peer(e)
    BY <1>3 DEF Ends, Peer
  <2>3. PICK s \in Seq(Packets) : net'[e] = net[e] \o s
    BY <1>3, <2>2, Incoming
  <2>4. net[e] \in Seq(Packets)
    BY DEF Types
  <2>5. \A q, r \in Seq(Packets) : q # <<>> => q \o r # <<>> /\ Head(q \o r) = Head(q)
    OBVIOUS
  <2>6. net[e] # <<>> => net'[e] # <<>> /\ Head(net'[e]) = Head(net[e])
    BY <2>3, <2>4, <2>5
  <2>7. net[e] # <<>> => Packet(e)' = Packet(e)
    BY <2>6 DEF Packet
  <2>8. "idle" \notin Closing
    BY DEF Closing, InClose, OnceBody
  <2>. QED
    BY <2>1, <2>6, <2>7, <2>8 DEF Handled
<1>4. CASE TransportFails
  <2>1. pc' = pc
    BY <1>4 DEF TransportFails
  <2>2. PICK n \in 0 .. Len(net[e]) : net'[e] = SubSeq(net[e], 1, n) /\ (pc[e]["router"] # "idle" => n >= 1)
    BY <1>4, Truncated
  <2>3. \A q \in Seq(Packets) : \A k \in 1 .. Len(q) : SubSeq(q, 1, k) # <<>> /\ Head(SubSeq(q, 1, k)) = Head(q)
    OBVIOUS
  <2>4. net[e] \in Seq(Packets)
    BY DEF Types
  <2>5. "idle" \notin Closing
    BY DEF Closing, InClose, OnceBody
  <2>6. CASE pc[e]["router"] # "idle"
    <3>1. n \in 1 .. Len(net[e])
      BY <2>2, <2>6
    <3>. QED
      BY <2>1, <2>2, <2>3, <2>4, <3>1 DEF Handled, Packet
  <2>7. CASE pc[e]["router"] = "idle"
    BY <2>1, <2>5, <2>7 DEF Handled
  <2>. QED
    BY <2>6, <2>7
<1>5. CASE UNCHANGED <<vars, plan>>
  BY <1>5 DEF vars, io, Handled, Packet
<1>. QED
  BY <1>1, <1>2, <1>3, <1>4, <1>5 DEF Next, EndStep

\* How closing marks the route group, and where its thread goes.
LEMMA ClosingMarks ==
  ASSUME Types, NEW e \in Ends, NEW t \in Callers, ClosingStep(e, t)
  PROVE  /\ rg'[e].remoteClosed =>
               \/ rg[e].remoteClosed
               \/ pc[e][t] = "onceRemoteClosed" /\ pc'[e][t] = "onceReadCh"
         /\ rg'[e].closeInitiated =>
               rg[e].closeInitiated \/ pc'[e][t] = "lock"
         /\ rg'[e].closed =>
               \/ rg[e].closed
               \/ initiator[e][t]
               \/ t \in Closers /\ pc[e][t] = "closeClosed" /\ pc'[e][t] = "returned"
         /\ panicked'[e] = CloseOfClosed =>
               \/ panicked[e] = CloseOfClosed
               \/ rg[e].closed /\ rg[e].once = "no"
               \/ rg[e].closed /\ pc[e][t] = "closeClosed" /\ t \in Closers
         /\ pc[e][t] = "onceReadCh" /\ t = "router" => pc'[e][t] = "handled"
         /\ pc[e][t] \in InClose \cup {"lock"} /\ t \in Closers =>
               pc'[e][t] \in InClose \cup {"lock", "returned"}
         /\ pc[e][t] # "returned"
         /\ pc[e][t] = "idle" => \/ t = "app" /\ e \in plan.appClosers
                                 \/ t = "gc" /\ e \in plan.gcClosers
<1>. USE DEF io, InClose, OnceBody
<1>1. /\ rg \in [Ends -> RouteGroups] /\ rg[e] \in RouteGroups /\ "router" \notin Closers
      /\ DOMAIN panicked = Ends /\ t \in Threads /\ pc \in [Ends -> [Threads -> Labels]]
  BY DEF Types, Callers, Threads, Closers
<1>2. \A l : Goto(e, t, l) => pc'[e][t] = l
  BY <1>1 DEF Goto
<1>3. \A g : ReturnFromClose(e, t, g) => pc'[e][t] = IF t \in Closers THEN "returned" ELSE "handled"
  BY <1>1, <1>2 DEF ReturnFromClose
<1>4. ASSUME ReturnFromClose(e, t, rg[e])
      PROVE  /\ rg'[e].remoteClosed = rg[e].remoteClosed /\ rg'[e].closed = rg[e].closed
             /\ rg'[e].closeInitiated = rg[e].closeInitiated
  BY <1>1, <1>4 DEF ReturnFromClose, RouteGroups
<1>5. CASE CloseEnter(e, t)
  <2>1. CASE rg[e].closed
    <3>1. ReturnFromClose(e, t, rg[e]) /\ panicked' = panicked /\ pc[e][t] = "close"
      BY <1>5, <2>1 DEF CloseEnter
    <3>. QED
      BY <1>1, <1>3, <1>4, <3>1
  <2>2. CASE ~rg[e].closed
    <3>1. rg' = [rg EXCEPT ![e].closeDone = IF rg[e].closeInitiated THEN @ + 1 ELSE @]
      BY <1>5, <2>2 DEF CloseEnter
    <3>2. /\ rg'[e].remoteClosed = rg[e].remoteClosed /\ rg'[e].closed = rg[e].closed
          /\ rg'[e].closeInitiated = rg[e].closeInitiated
      BY <1>1, <3>1 DEF RouteGroups
    <3>3. Goto(e, t, "broadcast") /\ panicked' = panicked /\ pc[e][t] = "close"
      BY <1>5, <2>2 DEF CloseEnter
    <3>. QED
      BY <1>1, <1>2, <3>2, <3>3
  <2>. QED
    BY <2>1, <2>2
<1>6. CASE BroadcastClosePackets(e, t)
  <2>1. Goto(e, t, "wait") \/ Goto(e, t, "delRules")
    BY <1>6 DEF BroadcastClosePackets
  <2>2. rg' = rg /\ panicked' = panicked /\ pc[e][t] = "broadcast"
    BY <1>6 DEF BroadcastClosePackets
  <2>. QED
    BY <1>2, <2>1, <2>2
<1>7. CASE CloseDoneWaited(e, t) \/ CloseTimeout(e, t)
  BY <1>2, <1>7 DEF CloseDoneWaited, CloseTimeout
<1>8. CASE CloseDelRules(e, t)
  BY <1>2, <1>8 DEF CloseDelRules
<1>9. CASE CloseOnce(e, t)
  <2>1. CASE /\ rg[e].once = "no" /\ Goto(e, t, "onceRemoteClosed")
             /\ rg' = [rg EXCEPT ![e].once = "running", ![e].closed = @ \/ initiator[e][t]]
             /\ panicked' = [panicked EXCEPT ![e] =
                  IF initiator[e][t] /\ rg[e].closed THEN CloseOfClosed ELSE @]
    <3>1. /\ rg'[e].remoteClosed = rg[e].remoteClosed /\ rg'[e].closed = (rg[e].closed \/ initiator[e][t])
          /\ rg'[e].closeInitiated = rg[e].closeInitiated
      BY <1>1, <2>1 DEF RouteGroups
    <3>2. panicked'[e] = CloseOfClosed => panicked[e] = CloseOfClosed \/ rg[e].closed
      BY <1>1, <2>1
    <3>3. pc[e][t] = "once" /\ pc'[e][t] = "onceRemoteClosed"
      BY <1>2, <1>9, <2>1 DEF CloseOnce
    <3>. QED
      BY <2>1, <3>1, <3>2, <3>3
  <2>2. CASE ReturnFromClose(e, t, rg[e]) /\ UNCHANGED panicked
    <3>1. pc[e][t] = "once"
      BY <1>9 DEF CloseOnce
    <3>. QED
      BY <1>1, <1>3, <1>4, <2>2, <3>1
  <2>. QED
    BY <1>9, <2>1, <2>2 DEF CloseOnce
<1>10. CASE OnceRemoteClosed(e, t)
  <2>1. /\ rg'[e].closed = rg[e].closed /\ rg'[e].closeInitiated = rg[e].closeInitiated
    BY <1>1, <1>10 DEF OnceRemoteClosed, RouteGroups
  <2>2. pc[e][t] = "onceRemoteClosed" /\ pc'[e][t] = "onceReadCh" /\ panicked' = panicked
    BY <1>2, <1>10 DEF OnceRemoteClosed
  <2>. QED
    BY <2>1, <2>2
<1>11. CASE OnceReadCh(e, t)
  <2>1. ReturnFromClose(e, t, [rg[e] EXCEPT !.readChClosed = TRUE, !.once = "done"])
    BY <1>11 DEF OnceReadCh
  <2>2. /\ rg'[e].remoteClosed = rg[e].remoteClosed /\ rg'[e].closed = rg[e].closed
        /\ rg'[e].closeInitiated = rg[e].closeInitiated
    BY <1>1, <2>1 DEF ReturnFromClose, RouteGroups
  <2>3. pc[e][t] = "onceReadCh" /\ panicked' = panicked
    BY <1>11 DEF OnceReadCh
  <2>. QED
    BY <1>1, <1>3, <2>1, <2>2, <2>3
<1>12. CASE CallClose(e, t)
  <2>1. /\ rg'[e].remoteClosed = rg[e].remoteClosed /\ rg'[e].closed = rg[e].closed
        /\ rg'[e].closeInitiated = rg[e].closeInitiated
    BY <1>1, <1>12 DEF CallClose, RouteGroups
  <2>2. /\ pc[e][t] = "idle" /\ panicked' = panicked
        /\ \/ t = "app" /\ e \in plan.appClosers
           \/ t = "gc" /\ e \in plan.gcClosers
    BY <1>12 DEF CallClose
  <2>. QED
    BY <2>1, <2>2
<1>13. CASE CloseIsClosed(e, t) \/ CloseIsRemoteClosed(e, t)
  BY <1>13 DEF CloseIsClosed, CloseIsRemoteClosed
<1>14. CASE CloseClosed(e, t) /\ t \in Closers
  <2>1. /\ rg'[e].remoteClosed = rg[e].remoteClosed /\ rg'[e].closeInitiated = rg[e].closeInitiated
    BY <1>1, <1>14 DEF CloseClosed, RouteGroups
  <2>2. /\ pc[e][t] = "closeClosed" /\ pc'[e][t] = "returned"
        /\ panicked'[e] = CloseOfClosed => panicked[e] = CloseOfClosed \/ rg[e].closed
    BY <1>1, <1>2, <1>14 DEF CloseClosed
  <2>. QED
    BY <1>14, <2>1, <2>2
<1>15. CASE CloseInitiate(e, t)
  <2>1. /\ rg'[e].remoteClosed = rg[e].remoteClosed /\ rg'[e].closed = rg[e].closed
    BY <1>1, <1>15 DEF CloseInitiate, RouteGroups
  <2>2. pc[e][t] = "initiate" /\ pc'[e][t] = "lock" /\ panicked' = panicked
    BY <1>2, <1>15 DEF CloseInitiate
  <2>. QED
    BY <2>1, <2>2
<1>16. CASE CloseLock(e, t)
  <2>1. /\ rg'[e].remoteClosed = rg[e].remoteClosed /\ rg'[e].closed = rg[e].closed
        /\ rg'[e].closeInitiated = rg[e].closeInitiated
    BY <1>1, <1>16 DEF CloseLock, RouteGroups
  <2>2. pc[e][t] = "lock" /\ pc'[e][t] = "close" /\ panicked' = panicked
    BY <1>2, <1>16 DEF CloseLock
  <2>. QED
    BY <2>1, <2>2
<1>. QED
  BY <1>5, <1>6, <1>7, <1>8, <1>9, <1>10, <1>11, <1>12, <1>13, <1>14, <1>15, <1>16
     DEF ClosingStep, CloseStep, Close

\* The end of the handling of a Close packet.
LEMMA HandleEnds ==
  ASSUME Types, NEW e \in Ends, Handle(e)
  PROVE  /\ pc[e]["router"] \notin InClose
         /\ pc[e]["router"] = "handled" => "rvs" \notin rt'[e] /\ pc'[e]["router"] = "idle"
         /\ "rvs" \notin rt[e] /\ pc[e]["router"] # "push" => pc'[e]["router"] # "push"
<1>. USE DEF io, InClose, OnceBody
<1>1. /\ pc \in [Ends -> [Threads -> Labels]] /\ "router" \in Threads /\ DOMAIN rt = Ends
  BY DEF Types, Threads
<1>2. \A l : Goto(e, "router", l) => pc'[e]["router"] = l
  BY <1>1 DEF Goto
<1>3. CASE HandleUnknownRule(e) \/ HandleErrorPacket(e) \/ HandlePongPacket(e)
  BY <1>3 DEF HandleUnknownRule, HandleErrorPacket, HandlePongPacket
<1>4. CASE HandleClosePacket(e)
  <2>1. Goto(e, "router", "handled") \/ Goto(e, "router", "handleClose")
    BY <1>4 DEF HandleClosePacket
  <2>. QED
    BY <1>2, <1>4, <2>1 DEF HandleClosePacket
<1>5. CASE RGHandleClosePacket(e)
  <2>1. Goto(e, "router", "handled") \/ Goto(e, "router", "close")
    BY <1>5 DEF RGHandleClosePacket
  <2>. QED
    BY <1>2, <1>5, <2>1 DEF RGHandleClosePacket
<1>6. CASE ClosePacketHandled(e)
  BY <1>1, <1>2, <1>6 DEF ClosePacketHandled
<1>7. CASE HandleDataPacket(e)
  BY <1>7 DEF HandleDataPacket
<1>8. CASE PushData(e)
  BY <1>2, <1>8 DEF PushData
<1>9. CASE HandlePingPacket(e) \/ SendPong(e)
  BY <1>2, <1>9 DEF HandlePingPacket, SendPong
<1>. QED
  BY <1>3, <1>4, <1>5, <1>6, <1>7, <1>8, <1>9 DEF Handle

LEMMA TornByRouterKept ==
  ASSUME Types, NEW e \in Ends, EndStep(e), Closed(e), TornByRouter(e)
  PROVE  TornByRouter(e)'
<1>. USE DEF InClose, OnceBody
<1>1. Closers \subseteq Threads /\ "router" \in Threads /\ "router" \notin Closers
  BY DEF Threads, Closers
<1>2. ASSUME NEW t \in Callers, ClosingStep(e, t), Gapless(e)', rg'[e].remoteClosed \/ rg'[e].closed
      PROVE  TornByRouter(e)'
  <2>1. Grows(e) /\ Gapless(e)
    BY <1>2, ClosingLeaves DEF Grows, Gapless
  <2>2. \/ rg[e].remoteClosed \/ rg[e].closed
        \/ t = "router" /\ pc'[e]["router"] = "onceReadCh"
    <3>1. \/ rg[e].remoteClosed \/ rg[e].closed
          \/ pc[e][t] = "onceRemoteClosed" /\ pc'[e][t] = "onceReadCh"
          \/ initiator[e][t] /\ rg'[e].closed
          \/ t \in Closers /\ pc[e][t] = "closeClosed"
      BY <1>2, ClosingMarks
    <3>2. pc[e][t] = "onceRemoteClosed" => rg[e].closed \/ t = "router"
      BY DEF Closed, Announced, Callers
    <3>3. initiator[e][t] => rg'[e].closeInitiated
      BY <2>1 DEF Closed, Steps, Grows
    <3>4. t \in Closers /\ pc[e][t] = "closeClosed" => rg[e].remoteClosed
      BY DEF Closed, Announced
    <3>. QED
      BY <1>2, <3>1, <3>2, <3>3, <3>4 DEF Gapless
  <2>3. CASE t = "router" /\ pc'[e]["router"] = "onceReadCh"
    BY <2>3 DEF TornByRouter
  <2>4. CASE (rg[e].remoteClosed \/ rg[e].closed) /\ t = "router"
    <3>1. pc[e]["router"] \in InClose /\ pc'[e]["router"] \in InClose \cup {"handled"}
      BY <1>2, <2>4, RouterCloses
    <3>2. pc[e]["router"] = "onceReadCh" => pc'[e]["router"] = "handled"
      BY <1>2, <2>4, ClosingMarks
    <3>. QED
      BY <2>1, <2>4, <3>1, <3>2 DEF TornByRouter, Grows
  <2>5. CASE (rg[e].remoteClosed \/ rg[e].closed) /\ t # "router"
    <3>1. pc'[e]["router"] = pc[e]["router"]
      BY <1>1, <1>2, <2>5, ClosingLeaves
    <3>. QED
      BY <2>1, <2>5, <3>1 DEF TornByRouter, Grows
  <2>. QED
    BY <2>2, <2>3, <2>4, <2>5
<1>3. CASE Handle(e)
  <2>1. /\ Gapless(e)' = Gapless(e) /\ rt'[e] \subseteq rt[e]
        /\ rg'[e].remoteClosed = rg[e].remoteClosed /\ rg'[e].closed = rg[e].closed
    BY <1>3, HandleMarks DEF MarksStay, Gapless
  <2>. QED
    BY <1>3, <2>1, HandleEnds DEF TornByRouter
<1>4. CASE UseOf(e)
  BY <1>4, UseMarks DEF TornByRouter, Gapless, MarksStay
<1>. QED
  BY <1>2, <1>3, <1>4, EndKinds DEF TornByRouter

LEMMA OneCallerKept ==
  ASSUME Types, NEW e \in Ends, EndStep(e), plan' = plan, Closed(e), OneCaller(e),
         e \notin plan.appClosers \cap plan.gcClosers
  PROVE  OneCaller(e)'
<1>. USE DEF InClose, OnceBody
<1>1. Closers \subseteq Threads /\ Closers = {"app", "gc"} /\ Closers \subseteq Callers
  BY DEF Threads, Closers, Callers
<1>2. ASSUME NEW t \in Callers, ClosingStep(e, t) PROVE OneCaller(e)'
  <2>1. Grows(e) /\ \A u \in Closers : u # t => pc'[e][u] = pc[e][u]
    BY <1>1, <1>2, ClosingLeaves
  <2>2. /\ pc'[e]["app"] # "idle" => e \in plan.appClosers
        /\ pc'[e]["gc"] # "idle" => e \in plan.gcClosers
    <3>1. t \in Closers => \/ pc[e][t] # "idle"
                           \/ t = "app" /\ e \in plan.appClosers
                           \/ t = "gc" /\ e \in plan.gcClosers
      BY <1>2, ClosingMarks
    <3>. QED
      BY <1>1, <1>2, <2>1, ClosingMarks DEF OneCaller
  <2>3. \A u \in Closers : pc[e][u] \in InClose \cup {"lock", "returned"} =>
              pc'[e][u] \in InClose \cup {"lock", "returned"}
    BY <1>2, <2>1, ClosingMarks
  <2>4. rg'[e].closeInitiated => \E u \in Closers : pc'[e][u] \in InClose \cup {"lock", "returned"}
    <3>1. CASE rg[e].closeInitiated
      BY <2>3, <3>1 DEF OneCaller
    <3>2. CASE ~rg[e].closeInitiated /\ t \in Closers
      BY <1>2, <3>2, ClosingMarks
    <3>3. CASE ~rg[e].closeInitiated /\ t = "router"
      <4>1. rg'[e].closeInitiated => pc'[e]["router"] = "lock"
        BY <1>2, <3>3, ClosingMarks
      <4>. QED
        BY <1>2, <3>3, <4>1, RouterCloses
    <3>. QED
      BY <3>1, <3>2, <3>3 DEF Callers
  <2>5. rg'[e].closed => rg'[e].closeInitiated \/ \E u \in Closers : pc'[e][u] = "returned"
    <3>1. CASE rg[e].closed
      <4>1. \A u \in Closers : pc[e][u] = "returned" => pc'[e][u] = "returned"
        BY <1>2, <2>1, ClosingMarks
      <4>. QED
        BY <2>1, <3>1, <4>1 DEF OneCaller, Grows
    <3>2. CASE ~rg[e].closed
      <4>1. initiator[e][t] => rg[e].closeInitiated
        BY DEF Closed, Steps
      <4>. QED
        BY <1>2, <2>1, <3>2, <4>1, ClosingMarks DEF Grows
    <3>. QED
      BY <3>1, <3>2
  <2>6. panicked'[e] # CloseOfClosed
    <3>1. ~(rg[e].closed /\ rg[e].once = "no")
      BY DEF Closed, Steps
    <3>2. ~(rg[e].closed /\ pc[e][t] = "closeClosed" /\ t \in Closers)
      <4>. SUFFICES ASSUME rg[e].closed, pc[e][t] = "closeClosed", t \in Closers PROVE FALSE
        OBVIOUS
      <4>1. \A u \in Closers : u # t => pc[e][u] = "idle"
        BY <1>1 DEF OneCaller
      <4>2. \E u \in Closers : pc[e][u] \in InClose \cup {"lock", "returned"}
        BY DEF OneCaller
      <4>. QED
        BY <4>1, <4>2
    <3>. QED
      BY <1>2, <3>1, <3>2, ClosingMarks DEF OneCaller
  <2>. QED
    BY <2>2, <2>4, <2>5, <2>6 DEF OneCaller
<1>3. CASE Handle(e)
  BY <1>1, <1>3, HandleMarks DEF OneCaller, MarksStay
<1>4. CASE UseOf(e)
  BY <1>1, <1>4, UseMarks DEF OneCaller, MarksStay
<1>. QED
  BY <1>2, <1>3, <1>4, EndKinds

-----------------------------------------------------------------------------
(* The last words of an end.                                                *)

\* A path grows at its end, loses its head, or is cut.
LEMMA ErrorInPath ==
  /\ \A q, s \in Seq(Packets) : ErrorFirst(q) => ErrorFirst(q \o s)
  /\ \A q \in Seq(Packets) : ErrorFirst(q) /\ q # <<>> /\ Head(q).type # "Error" =>
        ErrorFirst(Tail(q)) /\ Head(q).type # "Close"
  /\ \A q \in Seq(Packets), r, c \in Packets :
        (\A i \in DOMAIN q : q[i].type # "Close") /\ r.type = "Error" => ErrorFirst(q \o (<<r>> \o <<c>>))
<1>1. ASSUME NEW q \in Seq(Packets), NEW s \in Seq(Packets), ErrorFirst(q) PROVE ErrorFirst(q \o s)
  <2>1. PICK i \in DOMAIN q : q[i].type = "Error" /\ \A j \in 1 .. i - 1 : q[j].type # "Close"
    BY <1>1 DEF ErrorFirst
  <2>2. i \in DOMAIN (q \o s) /\ \A j \in 1 .. i : (q \o s)[j] = q[j]
    OBVIOUS
  <2>3. i \in 1 .. i /\ \A j \in 1 .. i - 1 : j \in 1 .. i
    BY <2>1
  <2>. QED
    BY <2>1, <2>2, <2>3 DEF ErrorFirst
<1>2. ASSUME NEW q \in Seq(Packets), ErrorFirst(q), q # <<>>, Head(q).type # "Error"
      PROVE  ErrorFirst(Tail(q)) /\ Head(q).type # "Close"
  <2>1. PICK i \in DOMAIN q : q[i].type = "Error" /\ \A j \in 1 .. i - 1 : q[j].type # "Close"
    BY <1>2 DEF ErrorFirst
  <2>2. Head(q) = q[1]
    BY <1>2
  <2>3. i # 1
    BY <1>2, <2>1, <2>2
  <2>4. 1 \in 1 .. i - 1
    BY <2>3
  <2>5. i - 1 \in DOMAIN Tail(q) /\ \A j \in 1 .. i - 1 : Tail(q)[j] = q[j + 1]
    BY <1>2, <2>3
  <2>6. i - 1 \in 1 .. i - 1 /\ (i - 1) + 1 = i
        /\ \A j \in 1 .. (i - 1) - 1 : j \in 1 .. i - 1 /\ j + 1 \in 1 .. i - 1
    BY <2>3
  <2>7. Tail(q)[i - 1].type = "Error"
    BY <2>1, <2>5, <2>6
  <2>8. \A j \in 1 .. (i - 1) - 1 : Tail(q)[j].type # "Close"
    BY <2>1, <2>5, <2>6
  <2>. QED
    BY <2>1, <2>2, <2>4, <2>5, <2>7, <2>8 DEF ErrorFirst
<1>3. ASSUME NEW q \in Seq(Packets), NEW r \in Packets, NEW c \in Packets,
             \A i \in DOMAIN q : q[i].type # "Close", r.type = "Error"
      PROVE  ErrorFirst(q \o (<<r>> \o <<c>>))
  <2>1. Len(q) + 1 \in DOMAIN (q \o (<<r>> \o <<c>>)) /\ (q \o (<<r>> \o <<c>>))[Len(q) + 1] = r
        /\ \A j \in 1 .. Len(q) : (q \o (<<r>> \o <<c>>))[j] = q[j]
    OBVIOUS
  <2>2. \A j \in 1 .. (Len(q) + 1) - 1 : j \in DOMAIN q /\ j \in 1 .. Len(q)
    OBVIOUS
  <2>3. \A j \in 1 .. (Len(q) + 1) - 1 : (q \o (<<r>> \o <<c>>))[j].type # "Close"
    BY <1>3, <2>1, <2>2
  <2>. QED
    BY <1>3, <2>1, <2>3 DEF ErrorFirst
<1>. QED
  BY <1>1, <1>2, <1>3

\* A step of the other end that says nothing new.
LEMMA FarewellsSame ==
  ASSUME Types, NEW e \in Ends, Farewells(e), UNCHANGED Own(e), farewell' = farewell, tpUp' = tpUp,
         NEW s \in Seq(Packets), net'[e] = net[e] \o s, \A i \in DOMAIN s : s[i].type # "Close"
  PROVE  Farewells(e)'
<1>1. net[e] \in Seq(Packets)
  BY DEF Types
<1>2. \A i \in DOMAIN net'[e] : net'[e][i].type = "Close" => farewell[Peer(e)].said
  <2>1. \A i \in DOMAIN (net[e] \o s) :
          \/ i \in DOMAIN net[e] /\ (net[e] \o s)[i] = net[e][i]
          \/ i - Len(net[e]) \in DOMAIN s /\ (net[e] \o s)[i] = s[i - Len(net[e])]
    BY <1>1
  <2>. QED
    BY <2>1 DEF Farewells
<1>3. ErrorFirst(net[e]) => ErrorFirst(net'[e])
  BY <1>1, ErrorInPath
<1>4. CloseTaken(e)' = CloseTaken(e)
  BY DEF CloseTaken, Own
<1>. QED
  BY <1>2, <1>3, <1>4 DEF Farewells, Own

\* What an end sends when it says farewell.
LEMMA Broadcasts ==
  ASSUME Types, NEW e \in Ends, NEW t \in Callers, BroadcastClosePackets(e, t)
  PROVE  /\ pc[e][t] = "broadcast" /\ tpUp' = tpUp
         /\ net'[e] = net[e]
         /\ net'[Peer(e)] = IF tpUp THEN net[Peer(e)] \o ClosePackets(e) ELSE net[Peer(e)]
         /\ ClosePackets(e) = IF rg[e].closeError /\ rg[e].closeInitiated
                                THEN <<[type |-> "Error"]>> \o <<[type |-> "Close"]>>
                                ELSE <<>> \o <<[type |-> "Close"]>>
         /\ farewell'[e] = IF farewell[e].said THEN farewell[e]
                           ELSE [sent |-> sent[e], error |-> rg[e].closeError, said |-> TRUE]
         /\ farewell'[Peer(e)] = farewell[Peer(e)]
         /\ rg' = rg /\ rt' = rt /\ sent' = sent /\ got' = got /\ rdata' = rdata
<1>1. Peer(e) \in Ends /\ Peer(e) # e
  BY Peers
<1>2. net' = Sent(e, ClosePackets(e))
  BY DEF BroadcastClosePackets
<1>3. net'[e] = net[e] /\ net'[Peer(e)] = IF tpUp THEN net[Peer(e)] \o ClosePackets(e) ELSE net[Peer(e)]
  BY <1>2, Delivered, Farewell
<1>4. farewell'[e] = (IF farewell[e].said THEN farewell[e]
                      ELSE [sent |-> sent[e], error |-> rg[e].closeError, said |-> TRUE])
      /\ farewell'[Peer(e)] = farewell[Peer(e)]
  BY <1>1 DEF BroadcastClosePackets, Types
<1>5. ClosePackets(e) = IF rg[e].closeError /\ rg[e].closeInitiated
                          THEN <<[type |-> "Error"]>> \o <<[type |-> "Close"]>>
                          ELSE <<>> \o <<[type |-> "Close"]>>
  BY DEF ClosePackets
<1>. QED
  BY <1>3, <1>4, <1>5 DEF BroadcastClosePackets, io

\* What the router does with Error and Close packets.
LEMMA HandleErrors ==
  ASSUME Types, NEW e \in Ends, Handle(e), Handled(e)
  PROVE  /\ rg[e].closeError => rg'[e].closeError
         /\ pc'[e]["router"] \in Closing =>
               \/ pc[e]["router"] \in Closing
               \/ net[e] # <<>> /\ Packet(e).type = "Close" /\ "rvs" \in rt[e]
         /\ \/ net'[e] = net[e]
            \/ /\ net[e] # <<>> /\ net'[e] = Tail(net[e])
               /\ Packet(e).type = "Error" =>
                     "rvs" \notin rt[e] \/ rg[e].remoteClosed \/ rg'[e].closeError
         /\ tpUp' = tpUp
<1>. USE DEF io, Closing, InClose, OnceBody
<1>. DEFINE Goal1 == rg[e].closeError => rg'[e].closeError
            Goal2 == pc'[e]["router"] \in Closing =>
               \/ pc[e]["router"] \in Closing
               \/ net[e] # <<>> /\ Packet(e).type = "Close" /\ "rvs" \in rt[e]
            Goal3 == Packet(e).type = "Error" /\ net'[e] # net[e] =>
                     "rvs" \notin rt[e] \/ rg[e].remoteClosed \/ rg'[e].closeError
<1>0. "router" \in Threads
  BY DEF Threads
<1>1. CASE HandleUnknownRule(e)
  BY <1>1, HandlePacket DEF HandleUnknownRule
<1>2. CASE HandleClosePacket(e)
  BY <1>2 DEF HandleClosePacket, Received
<1>3. CASE RGHandleClosePacket(e)
  <2>1. rg'[e].closeError = rg[e].closeError
    BY <1>3 DEF RGHandleClosePacket, Types, RouteGroups
  <2>. QED
    BY <1>3, <2>1 DEF RGHandleClosePacket
<1>4. CASE ClosePacketHandled(e)
  BY <1>4, HandlePacket DEF ClosePacketHandled, Handled
<1>5. CASE HandleDataPacket(e)
  <2>1. Packet(e).type # "Error"
    BY <1>5 DEF HandleDataPacket, Received
  <2>2. rg' = rg /\ (pc' = pc \/ Goto(e, "router", "push")) /\ tpUp' = tpUp
    BY <1>5 DEF HandleDataPacket
  <2>3. pc'[e]["router"] \in Closing => pc[e]["router"] \in Closing
    BY <1>0, <2>2, Moved DEF Labels
  <2>. QED
    BY <2>1, <2>2, <2>3, HandlePacket
<1>6. CASE PushData(e)
  <2>1. Packet(e).type # "Error"
    BY <1>6 DEF PushData, Handled
  <2>2. rg'[e].closeError = rg[e].closeError
    BY <1>6 DEF PushData, Types, RouteGroups
  <2>3. pc'[e]["router"] = "idle" /\ tpUp' = tpUp
    BY <1>0, <1>6, Moved DEF PushData, Labels
  <2>. QED
    BY <2>1, <2>2, <2>3, HandlePacket
<1>7. CASE HandleErrorPacket(e)
  <2>1. rg'[e].closeError = (rg[e].closeError \/ ~rg[e].remoteClosed)
    BY <1>7 DEF HandleErrorPacket, Types, RouteGroups
  <2>2. pc' = pc /\ tpUp' = tpUp
    BY <1>7 DEF HandleErrorPacket
  <2>. QED
    BY <2>1, <2>2, HandlePacket
<1>8. CASE HandlePingPacket(e)
  BY <1>0, <1>8, Moved DEF HandlePingPacket, Labels
<1>9. CASE SendPong(e)
  <2>1. Packet(e).type # "Error"
    BY <1>9 DEF SendPong, Handled
  <2>2. pc'[e]["router"] = "idle" /\ tpUp' = tpUp /\ rg' = rg
    BY <1>0, <1>9, Moved DEF SendPong, Labels
  <2>. QED
    BY <2>1, <2>2, HandlePacket
<1>10. CASE HandlePongPacket(e)
  <2>1. Packet(e).type # "Error"
    BY <1>10 DEF HandlePongPacket, Received
  <2>. QED
    BY <1>10, <2>1, HandlePacket DEF HandlePongPacket
<1>. QED
  BY <1>1, <1>2, <1>3, <1>4, <1>5, <1>6, <1>7, <1>8, <1>9, <1>10 DEF Handle

\* An end that says farewell first, by its router, says it after the other end did.
LEMMA FirstFarewell ==
  ASSUME Types, NEW e \in Ends, NEW t \in Callers, BroadcastClosePackets(e, t),
         Closed(e), Farewells(e), tpUp
  PROVE  rg[e].closeInitiated \/ farewell[Peer(e)].said
<1>1. CASE t \in Closers
  <2>1. pc[e][t] = "broadcast"
    BY Broadcasts
  <2>. QED
    BY <1>1, <2>1 DEF Closed, Announced, InClose
<1>2. CASE t = "router"
  <2>1. pc[e]["router"] = "broadcast"
    BY <1>2, Broadcasts
  <2>2. CloseTaken(e)
    BY <2>1 DEF CloseTaken, Closing, InClose
  <2>. QED
    BY <2>2 DEF Farewells
<1>. QED
  BY <1>1, <1>2 DEF Callers

\* A thread that closes takes no Close packet.
LEMMA TakenBefore ==
  ASSUME Types, NEW e \in Ends, NEW t \in Callers, ClosingStep(e, t), Closed(e)
  PROVE  CloseTaken(e)' => rg[e].closeInitiated \/ CloseTaken(e)
<1>1. pc'[e]["router"] \in Closing => pc[e]["router"] \in Closing
  <2>1. CASE t = "router"
    BY <2>1, RouterCloses DEF Closing
  <2>2. CASE t # "router"
    BY <2>2, ClosingLeaves DEF Threads
  <2>. QED
    BY <2>1, <2>2
<1>2. rg'[e].remoteClosed => rg[e].remoteClosed \/ pc[e][t] = "onceRemoteClosed"
  BY ClosingMarks
<1>3. pc[e][t] = "onceRemoteClosed" /\ t \in Closers => rg[e].closeInitiated
  BY DEF Closed, Announced, InClose, OnceBody
<1>4. pc[e][t] = "onceRemoteClosed" /\ t = "router" => pc[e]["router"] \in Closing
  BY DEF Closing, InClose, OnceBody
<1>. QED
  BY <1>1, <1>2, <1>3, <1>4 DEF CloseTaken, Callers

LEMMA FarewellsOwn ==
  ASSUME Types, NEW e \in Ends, EndStep(e), Closed(e), Handled(e), Farewells(e)
  PROVE  Farewells(e)'
<1>1. net[e] \in Seq(Packets) /\ Peer(e) \in Ends /\ "router" \in Threads
  BY Peers DEF Types, Threads
<1>2. ASSUME NEW t \in Callers, ClosingStep(e, t) PROVE Farewells(e)'
  <2>1. /\ Grows(e) /\ tpUp' = tpUp
        /\ \A u \in Threads : u # t => pc'[e][u] = pc[e][u]
        /\ (net' = net /\ farewell' = farewell) \/ BroadcastClosePackets(e, t)
    BY <1>2, ClosingLeaves
  <2>2. net'[e] = net[e] /\ farewell'[Peer(e)] = farewell[Peer(e)]
    BY <2>1, Broadcasts
  <2>3. /\ farewell[e].said => farewell'[e] = farewell[e]
        /\ farewell'[e] # farewell[e] => farewell'[e].said
    <3>1. CASE farewell' = farewell
      BY <3>1
    <3>2. CASE BroadcastClosePackets(e, t)
      <4>1. farewell'[e] = IF farewell[e].said THEN farewell[e]
                           ELSE [sent |-> sent[e], error |-> rg[e].closeError, said |-> TRUE]
        BY <3>2, Broadcasts
      <4>2. [sent |-> sent[e], error |-> rg[e].closeError, said |-> TRUE].said
        OBVIOUS
      <4>. QED
        BY <4>1, <4>2
    <3>. QED
      BY <2>1, <3>1, <3>2
  <2>4. CloseTaken(e)' => rg[e].closeInitiated \/ CloseTaken(e)
    BY <1>2, TakenBefore
  <2>5. farewell'[e].said /\ tpUp =>
           \/ farewell[e].said \/ rg[e].closeInitiated \/ farewell[Peer(e)].said
    BY <2>1, FirstFarewell
  <2>6. farewell'[e].said \/ ~farewell'[e].error
    BY <2>3 DEF Farewells
  <2>7. \A i \in DOMAIN net'[e] : net'[e][i].type = "Close" => farewell'[Peer(e)].said
    BY <2>2 DEF Farewells
  <2>8. CASE ~tpUp \/ rg'[e].closeInitiated
    BY <2>1, <2>6, <2>7, <2>8 DEF Farewells
  <2>9. CASE tpUp /\ ~rg'[e].closeInitiated
    <3>1. tpUp /\ ~rg[e].closeInitiated /\ (rg[e].closeError => rg'[e].closeError)
          /\ ("rvs" \in rt'[e] => "rvs" \in rt[e])
      BY <2>1, <2>9 DEF Grows
    <3>2. CloseTaken(e)' =>
             farewell[Peer(e)].said /\ (farewell[Peer(e)].error => rg'[e].closeError)
      BY <2>4, <3>1 DEF Farewells
    <3>3. farewell'[e].said => farewell[Peer(e)].said
      BY <2>5, <3>1 DEF Farewells
    <3>4. "rvs" \in rt'[e] /\ farewell[Peer(e)].error => rg'[e].closeError \/ ErrorFirst(net[e])
      BY <3>1 DEF Farewells
    <3>. QED
      BY <2>2, <2>6, <2>7, <3>2, <3>3, <3>4 DEF Farewells
  <2>. QED
    BY <2>8, <2>9
<1>3. ASSUME Handle(e) PROVE Farewells(e)'
  <2>1. /\ farewell' = farewell /\ rg'[e].closeInitiated = rg[e].closeInitiated
        /\ rg'[e].remoteClosed = rg[e].remoteClosed /\ rt'[e] \subseteq rt[e]
    BY <1>3, HandleMarks DEF MarksStay
  <2>2. /\ rg[e].closeError => rg'[e].closeError
        /\ tpUp' = tpUp
        /\ pc'[e]["router"] \in Closing =>
              \/ pc[e]["router"] \in Closing
              \/ net[e] # <<>> /\ Packet(e).type = "Close" /\ "rvs" \in rt[e]
        /\ \/ net'[e] = net[e]
           \/ /\ net[e] # <<>> /\ net'[e] = Tail(net[e])
              /\ Packet(e).type = "Error" =>
                    "rvs" \notin rt[e] \/ rg[e].remoteClosed \/ rg'[e].closeError
    BY <1>3, HandleErrors
  <2>3. \A i \in DOMAIN net'[e] : net'[e][i].type = "Close" => farewell[Peer(e)].said
    <3>1. net[e] # <<>> => \A i \in DOMAIN Tail(net[e]) :
             i + 1 \in DOMAIN net[e] /\ Tail(net[e])[i] = net[e][i + 1]
      BY <1>1
    <3>. QED
      BY <2>2, <3>1 DEF Farewells
  <2>4. ASSUME tpUp, ~rg[e].closeInitiated, CloseTaken(e)'
        PROVE  farewell[Peer(e)].said /\ (farewell[Peer(e)].error => rg'[e].closeError)
    <3>1. CASE CloseTaken(e)
      BY <2>2, <2>4, <3>1 DEF Farewells
    <3>2. CASE ~CloseTaken(e)
      <4>1. net[e] # <<>> /\ Packet(e).type = "Close" /\ "rvs" \in rt[e]
        BY <2>1, <2>2, <2>4, <3>2 DEF CloseTaken
      <4>2. 1 \in DOMAIN net[e] /\ Packet(e) = net[e][1]
        BY <1>1, <4>1 DEF Packet
      <4>3. farewell[Peer(e)].said
        BY <4>1, <4>2 DEF Farewells
      <4>4. ~ErrorFirst(net[e])
        <5>1. Head(net[e]).type = "Close" /\ "Close" # "Error"
          BY <4>1 DEF Packet
        <5>. QED
          BY <1>1, <4>1, <5>1, ErrorInPath
      <4>. QED
        BY <2>2, <2>4, <4>1, <4>3, <4>4 DEF Farewells
    <3>. QED
      BY <3>1, <3>2
  <2>5. ASSUME tpUp, ~rg[e].closeInitiated, "rvs" \in rt'[e], farewell[Peer(e)].error
        PROVE  rg'[e].closeError \/ ErrorFirst(net'[e])
    <3>1. rg[e].closeError \/ ErrorFirst(net[e])
      BY <2>1, <2>5 DEF Farewells
    <3>2. CASE rg[e].closeError
      BY <2>2, <3>2
    <3>3. CASE ErrorFirst(net[e]) /\ net'[e] = net[e]
      BY <3>3
    <3>4. CASE ErrorFirst(net[e]) /\ net[e] # <<>> /\ net'[e] = Tail(net[e]) /\ Packet(e).type # "Error"
      BY <1>1, <3>4, ErrorInPath DEF Packet
    <3>5. CASE Packet(e).type = "Error" /\ net'[e] = Tail(net[e]) /\ net'[e] # net[e]
      <4>1. rg[e].remoteClosed \/ rg'[e].closeError
        BY <2>1, <2>2, <2>5, <3>5
      <4>2. rg[e].remoteClosed => rg[e].closeError
        BY <2>5 DEF Farewells, CloseTaken
      <4>. QED
        BY <2>2, <4>1, <4>2
    <3>. QED
      BY <2>2, <3>1, <3>2, <3>3, <3>4, <3>5
  <2>. QED
    BY <2>1, <2>2, <2>3, <2>4, <2>5 DEF Farewells
<1>4. ASSUME UseOf(e), ~Handle(e) PROVE Farewells(e)'
  <2>1. /\ farewell' = farewell /\ rg'[e].closeInitiated = rg[e].closeInitiated
        /\ rg'[e].remoteClosed = rg[e].remoteClosed /\ rt' = rt
        /\ rg'[e].closeError = rg[e].closeError /\ pc'[e]["router"] = pc[e]["router"]
    BY <1>4, UseMarks DEF MarksStay
  <2>2. net'[e] = net[e] /\ tpUp' = tpUp
    BY <1>4, Outgoing
  <2>3. CloseTaken(e)' = CloseTaken(e)
    BY <2>1 DEF CloseTaken
  <2>. QED
    BY <2>1, <2>2, <2>3 DEF Farewells
<1>. QED
  BY <1>2, <1>3, <1>4, EndKinds

LEMMA FarewellsPeer ==
  ASSUME Types, NEW e \in Ends, EndStep(Peer(e)), Closed(Peer(e)), Farewells(e), Farewells(Peer(e))
  PROVE  Farewells(e)'
<1>. DEFINE p == Peer(e)
<1>1. p \in Ends /\ p # e /\ Peer(p) = e
  BY Peers
<1>2. UNCHANGED Own(e)
  BY <1>1, Elsewhere
<1>3. net[e] \in Seq(Packets)
  BY DEF Types
<1>4. tpUp' = tpUp
  BY <1>1, Outgoing
<1>5. CASE net'[e] = net[e] /\ farewell' = farewell
  <2>1. <<>> \in Seq(Packets) /\ net'[e] = net[e] \o <<>> /\ \A i \in DOMAIN <<>> : <<>>[i].type # "Close"
    BY <1>3, <1>5
  <2>. QED
    BY <1>2, <1>4, <1>5, <2>1, FarewellsSame
<1>6. ASSUME NEW r \in Probes, net'[e] = net[e] \o <<r>>, farewell' = farewell
      PROVE  Farewells(e)'
  <2>1. r \in Packets /\ r.type # "Close"
    BY PacketTypes DEF Probes
  <2>2. <<r>> \in Seq(Packets) /\ \A i \in DOMAIN <<r>> : <<r>>[i] = r
    BY <2>1
  <2>. QED
    BY <1>2, <1>4, <1>6, <2>1, <2>2, FarewellsSame
<1>7. CASE Write(p)
  <2>1. DataPacket(sent[p]) \in Packets /\ net' = Sent(p, <<DataPacket(sent[p])>>)
    BY <1>1, <1>7, Written
  <2>2. DataPacket(sent[p]).type # "Close"
    BY DEF DataPacket
  <2>3. <<DataPacket(sent[p])>> \in Seq(Packets)
        /\ \A i \in DOMAIN <<DataPacket(sent[p])>> : <<DataPacket(sent[p])>>[i] = DataPacket(sent[p])
    BY <2>1
  <2>4. net'[e] = net[e] \o <<DataPacket(sent[p])>> \/ net'[e] = net[e]
    BY <1>1, <2>1, <2>3, Delivered
  <2>5. farewell' = farewell
    BY <1>7 DEF Write
  <2>. QED
    BY <1>2, <1>4, <1>5, <2>2, <2>3, <2>4, <2>5, FarewellsSame
<1>8. ASSUME NEW t \in Callers, BroadcastClosePackets(p, t) PROVE Farewells(e)'
  <2>. HIDE DEF p
  <2>1. /\ net'[e] = IF tpUp THEN net[e] \o ClosePackets(p) ELSE net[e]
        /\ ClosePackets(p) = IF rg[p].closeError /\ rg[p].closeInitiated
                                THEN <<[type |-> "Error"]>> \o <<[type |-> "Close"]>>
                                ELSE <<>> \o <<[type |-> "Close"]>>
        /\ farewell'[p] = IF farewell[p].said THEN farewell[p]
                          ELSE [sent |-> sent[p], error |-> rg[p].closeError, said |-> TRUE]
        /\ farewell'[e] = farewell[e]
    BY <1>1, <1>8, Broadcasts
  <2>2. farewell'[p].said
    <3>1. [sent |-> sent[p], error |-> rg[p].closeError, said |-> TRUE].said
      OBVIOUS
    <3>. QED
      BY <2>1, <3>1
  <2>3. CloseTaken(e)' = CloseTaken(e)
    BY <1>2 DEF CloseTaken, Own
  <2>4. farewell[e].said \/ ~farewell[e].error
    BY DEF Farewells
  <2>5. ASSUME tpUp, ~rg[e].closeInitiated, CloseTaken(e)
        PROVE  farewell'[p].error => rg[e].closeError
    <3>1. farewell[p].said /\ (farewell[p].error => rg[e].closeError)
      BY <2>5 DEF Farewells, p
    <3>. QED
      BY <2>1, <3>1
  <2>6. ASSUME tpUp, ~rg[e].closeInitiated, "rvs" \in rt[e], farewell'[p].error
        PROVE  rg[e].closeError \/ ErrorFirst(net'[e])
    <3>1. ClosePackets(p) \in Seq(Packets) /\ net'[e] = net[e] \o ClosePackets(p)
      BY <1>1, <2>1, <2>6, Farewell
    <3>2. CASE farewell[p].said
      <4>1. rg[e].closeError \/ ErrorFirst(net[e])
        BY <2>1, <2>6, <3>2 DEF Farewells, p
      <4>. QED
        BY <1>3, <3>1, <4>1, ErrorInPath
    <3>3. CASE ~farewell[p].said
      <4>1. \A i \in DOMAIN net[e] : net[e][i].type # "Close"
        BY <3>3 DEF Farewells, p
      <4>2. ~farewell[e].said
        BY <2>6, <3>3 DEF Farewells, p
      <4>3. rg[p].closeInitiated
        BY <1>1, <1>8, <2>6, <4>2, FirstFarewell DEF p
      <4>4. rg[p].closeError
        <5>1. [sent |-> sent[p], error |-> rg[p].closeError, said |-> TRUE].error = rg[p].closeError
          OBVIOUS
        <5>. QED
          BY <2>1, <2>6, <3>3, <5>1
      <4>5. net'[e] = net[e] \o (<<[type |-> "Error"]>> \o <<[type |-> "Close"]>>)
        BY <2>1, <3>1, <4>3, <4>4
      <4>6. [type |-> "Error"] \in Packets /\ [type |-> "Close"] \in Packets
            /\ [type |-> "Error"].type = "Error"
        BY PacketTypes
      <4>. QED
        BY <1>3, <4>1, <4>5, <4>6, ErrorInPath
    <3>. QED
      BY <3>2, <3>3
  <2>. QED
    BY <1>2, <1>4, <2>1, <2>2, <2>3, <2>4, <2>5, <2>6 DEF Farewells, Own, p
<1>. QED
  BY <1>1, <1>5, <1>6, <1>7, <1>8, Outgoing

LEMMA FarewellsKept ==
  ASSUME Types, [Next /\ UNCHANGED plan]_<<vars, plan>>, NEW e \in Ends,
         Closed(e), Closed(Peer(e)), Handled(e), Farewells(e), Farewells(Peer(e))
  PROVE  Farewells(e)'
<1>1. CASE EndStep(e)
  BY <1>1, FarewellsOwn
<1>2. CASE EndStep(Peer(e))
  BY <1>2, FarewellsPeer
<1>3. CASE TransportFails
  <2>1. PICK n \in 0 .. Len(net[e]) : net'[e] = SubSeq(net[e], 1, n)
    BY <1>3, Truncated
  <2>2. net[e] \in Seq(Packets)
    BY DEF Types
  <2>3. \A i \in DOMAIN net'[e] : i \in DOMAIN net[e] /\ net'[e][i] = net[e][i]
    BY <2>1, <2>2
  <2>4. tpUp' = FALSE /\ farewell' = farewell
    BY <1>3 DEF TransportFails
  <2>. QED
    BY <2>3, <2>4 DEF Farewells
<1>4. CASE UNCHANGED <<vars, plan>>
  BY <1>4 DEF vars, io, Farewells, CloseTaken
<1>5. \A f \in Ends : f = e \/ f = Peer(e)
  BY DEF Ends, Peer
<1>. QED
  BY <1>1, <1>2, <1>3, <1>4, <1>5 DEF Next, EndStep

-----------------------------------------------------------------------------
(* Chunks of bytes, queues of chunks and paths.                             *)

LEMMA HoldsNothing ==
  ASSUME NEW a \in Nat, NEW b \in Nat, NEW full \in BOOLEAN
  PROVE  Holds(<<>>, a, b, full) <=> a <= b /\ (full => a = b)
BY DEF Holds

LEMMA HoldsLoose ==
  ASSUME NEW c \in Seq(Nat), NEW a \in Nat, NEW b \in Nat, NEW full, NEW less,
         Holds(c, a, b, full), less => full
  PROVE  Holds(c, a, b, less)
BY DEF Holds

LEMMA HoldsLower ==
  ASSUME NEW c \in Seq(Nat), NEW a \in Nat, NEW b \in Nat, NEW x \in Nat, NEW full,
         Holds(c, a, b, full), x <= a
  PROVE  Holds(c, x, b, FALSE)
BY DEF Holds

LEMMA HoldsJoin ==
  ASSUME NEW c \in Seq(Nat), NEW d \in Seq(Nat), NEW a \in Nat, NEW m \in Nat, NEW b \in Nat,
         NEW full, Holds(c, a, m, full), Holds(d, m, b, full)
  PROVE  Holds(c \o d, a, b, full)
<1>1. \A i \in DOMAIN (c \o d) :
        \/ i \in DOMAIN c /\ (c \o d)[i] = c[i]
        \/ i - Len(c) \in DOMAIN d /\ (c \o d)[i] = d[i - Len(c)] /\ i > Len(c)
  OBVIOUS
<1>2. Len(c \o d) = Len(c) + Len(d) /\ Len(c) \in Nat /\ Len(d) \in Nat
  OBVIOUS
<1>3. \A i \in DOMAIN (c \o d) : (c \o d)[i] \in Nat /\ a < (c \o d)[i] /\ (c \o d)[i] <= b
  BY <1>1 DEF Holds
<1>4. ASSUME NEW i \in DOMAIN (c \o d), NEW j \in DOMAIN (c \o d), i < j
      PROVE  (c \o d)[i] < (c \o d)[j]
  <2>1. CASE i \in DOMAIN c /\ (c \o d)[i] = c[i] /\ j \in DOMAIN c /\ (c \o d)[j] = c[j]
    BY <1>4, <2>1 DEF Holds
  <2>2. CASE /\ i \in DOMAIN c /\ (c \o d)[i] = c[i]
             /\ j - Len(c) \in DOMAIN d /\ (c \o d)[j] = d[j - Len(c)]
    <3>1. c[i] \in Nat /\ d[j - Len(c)] \in Nat /\ c[i] <= m /\ m < d[j - Len(c)]
      BY <2>2 DEF Holds
    <3>. QED
      BY <2>2, <3>1
  <2>3. CASE /\ i - Len(c) \in DOMAIN d /\ (c \o d)[i] = d[i - Len(c)]
             /\ j - Len(c) \in DOMAIN d /\ (c \o d)[j] = d[j - Len(c)]
    <3>1. i - Len(c) < j - Len(c)
      BY <1>2, <1>4
    <3>. QED
      BY <2>3, <3>1 DEF Holds
  <2>4. ~(i > Len(c) /\ j \in DOMAIN c)
    BY <1>2, <1>4
  <2>. QED
    BY <1>1, <2>1, <2>2, <2>3, <2>4
<1>5. ASSUME full PROVE Len(c \o d) = b - a /\ \A i \in DOMAIN (c \o d) : (c \o d)[i] = a + i
  <2>1. Len(c) = m - a /\ Len(d) = b - m
    BY <1>5 DEF Holds
  <2>2. \A i \in DOMAIN c : c[i] = a + i
    BY <1>5 DEF Holds
  <2>3. \A i \in DOMAIN d : d[i] = m + i
    BY <1>5 DEF Holds
  <2>4. ASSUME NEW i \in DOMAIN (c \o d) PROVE (c \o d)[i] = a + i
    <3>1. i \in Nat
      OBVIOUS
    <3>2. CASE i - Len(c) \in DOMAIN d /\ (c \o d)[i] = d[i - Len(c)]
      <4>1. (c \o d)[i] = m + (i - Len(c))
        BY <2>3, <3>2
      <4>. QED
        BY <1>2, <2>1, <3>1, <4>1
    <3>. QED
      BY <1>1, <2>2, <3>2
  <2>. QED
    BY <1>2, <2>1, <2>4
<1>6. a <= b
  BY DEF Holds
<1>. QED
  BY <1>3, <1>4, <1>5, <1>6 DEF Holds

\* A chunk read in part.
LEMMA HoldsSplit ==
  ASSUME NEW c \in Seq(Nat), NEW a \in Nat, NEW b \in Nat, NEW full, NEW n \in Nat,
         Holds(c, a, b, full)
  PROVE  \E m \in Nat : Holds(FirstN(c, n), a, m, full) /\ Holds(AfterN(c, n), m, b, full)
<1>. DEFINE k == IF n < Len(c) THEN n ELSE Len(c)
<1>1. k \in Nat /\ k <= Len(c) /\ Len(c) \in Nat
  OBVIOUS
<1>2. /\ FirstN(c, n) \in Seq(Nat) /\ Len(FirstN(c, n)) = k
      /\ \A i \in 1 .. k : FirstN(c, n)[i] = c[i]
  BY <1>1 DEF FirstN
<1>3. /\ AfterN(c, n) \in Seq(Nat) /\ Len(AfterN(c, n)) = Len(c) - k
      /\ \A i \in 1 .. Len(c) - k : AfterN(c, n)[i] = c[k + i]
  <2>1. CASE n < Len(c)
    BY <2>1 DEF AfterN
  <2>2. CASE ~(n < Len(c))
    BY <2>2 DEF AfterN
  <2>. QED
    BY <2>1, <2>2
<1>. DEFINE m == IF k = 0 THEN a ELSE c[k]
            f == FirstN(c, n)
            g == AfterN(c, n)
<1>4. DOMAIN f = 1 .. k /\ DOMAIN g = 1 .. Len(c) - k /\ DOMAIN c = 1 .. Len(c)
  BY <1>2, <1>3
<1>5. \A i \in 1 .. Len(c) : c[i] \in Nat /\ a < c[i] /\ c[i] <= b
  BY DEF Holds
<1>6. \A i, j \in 1 .. Len(c) : i < j => c[i] < c[j]
  BY DEF Holds
<1>7. full => Len(c) = b - a /\ \A i \in 1 .. Len(c) : c[i] = a + i
  BY DEF Holds
<1>8. a <= b
  BY DEF Holds
<1>. HIDE DEF f, g, k
<1>9. m \in Nat /\ a <= m /\ m <= b /\ (full => m = a + k)
  BY <1>1, <1>5, <1>7, <1>8
<1>10. Holds(f, a, m, full)
  <2>1. \A i \in 1 .. k : f[i] = c[i] /\ i \in 1 .. Len(c) /\ (i = k \/ i < k)
    BY <1>1, <1>2 DEF f
  <2>2. k # 0 => k \in 1 .. Len(c)
    BY <1>1
  <2>3. ASSUME NEW i \in 1 .. k PROVE f[i] \in Nat /\ a < f[i] /\ f[i] <= m
    <3>1. k # 0 /\ m = c[k] /\ k \in 1 .. Len(c)
      BY <1>1, <2>2
    <3>2. c[i] = c[k] \/ c[i] < c[k]
      BY <1>6, <2>1, <3>1
    <3>. QED
      BY <1>5, <2>1, <3>1, <3>2
  <2>4. \A i, j \in 1 .. k : i < j => f[i] < f[j]
    BY <1>6, <2>1
  <2>5. full => Len(f) = m - a /\ \A i \in 1 .. k : f[i] = a + i
    <3>1. Len(f) = k
      BY <1>2 DEF f
    <3>2. full => m - a = k
      BY <1>1, <1>9
    <3>3. full => \A i \in 1 .. k : f[i] = a + i
      BY <1>7, <2>1
    <3>. QED
      BY <3>1, <3>2, <3>3
  <2>. HIDE DEF m
  <2>. QED
    BY <1>4, <1>9, <2>3, <2>4, <2>5 DEF Holds
<1>11. Holds(g, m, b, full)
  <2>1. \A i \in 1 .. Len(c) - k : g[i] = c[k + i] /\ k + i \in 1 .. Len(c) /\ k < k + i
    BY <1>1, <1>3 DEF g
  <2>2. \A i \in 1 .. Len(c) - k : g[i] \in Nat /\ m < g[i] /\ g[i] <= b
    BY <1>1, <1>5, <1>6, <2>1
  <2>3. \A i, j \in 1 .. Len(c) - k : i < j => g[i] < g[j]
    BY <1>1, <1>6, <2>1
  <2>4. full => Len(g) = b - m /\ \A i \in 1 .. Len(c) - k : g[i] = m + i
    <3>1. Len(g) = Len(c) - k
      BY <1>3 DEF g
    <3>2. full => m = a + k /\ Len(c) = b - a
      BY <1>7, <1>9
    <3>3. ASSUME full, NEW i \in 1 .. Len(c) - k PROVE g[i] = m + i
      <4>1. g[i] = a + (k + i)
        BY <1>7, <2>1, <3>3
      <4>2. i \in Int
        BY <1>1
      <4>. HIDE DEF m
      <4>. QED
        BY <1>1, <3>2, <3>3, <4>1, <4>2
    <3>4. full => Len(g) = b - m
      BY <1>1, <3>1, <3>2
    <3>. QED
      BY <3>3, <3>4
  <2>. HIDE DEF m
  <2>. QED
    BY <1>4, <1>9, <2>2, <2>3, <2>4 DEF Holds
<1>. QED
  BY <1>9, <1>10, <1>11 DEF f, g

LEMMA HoldsWritten ==
  ASSUME NEW a \in Nat
  PROVE  Holds(Payload(DataPacket(a)), a, a + PacketBytes, TRUE)
<1>1. PacketBytes \in Nat
  BY ConstantsAssumption
<1>2. Payload(DataPacket(a)) = [i \in 1 .. PacketBytes |-> a + i]
  BY DEF Payload, DataPacket
<1>3. [i \in 1 .. PacketBytes |-> a + i] \in Seq(Nat) /\ Len([i \in 1 .. PacketBytes |-> a + i]) = PacketBytes
  BY <1>1
<1>. QED
  BY <1>1, <1>2, <1>3 DEF Holds

\* The first chunk of a queue, and the others.
LEMMA QueueTake ==
  ASSUME NEW q \in Seq(Seq(Nat)), NEW a \in Nat, NEW b \in Nat, NEW full,
         QueueHolds(q, a, b, full), q # <<>>
  PROVE  \E m \in Nat : Holds(Head(q), a, m, full) /\ QueueHolds(Tail(q), m, b, full)
<1>1. PICK off \in [1 .. Len(q) + 1 -> Nat] :
        /\ off[1] = a /\ off[Len(q) + 1] = b
        /\ \A k \in 1 .. Len(q) : Holds(q[k], off[k], off[k + 1], full)
  BY DEF QueueHolds
<1>2. PICK n \in Nat : Len(q) = n + 1
  <2>1. Len(q) \in Nat /\ Len(q) # 0
    OBVIOUS
  <2>2. Len(q) - 1 \in Nat /\ Len(q) = (Len(q) - 1) + 1
    BY <2>1
  <2>. QED
    BY <2>2
<1>3. Len(Tail(q)) = n /\ Head(q) = q[1] /\ \A k \in 1 .. n : Tail(q)[k] = q[k + 1]
  BY <1>2
<1>. DEFINE o == [k \in 1 .. n + 1 |-> off[k + 1]]
<1>4. /\ o \in [1 .. n + 1 -> Nat] /\ o[1] = off[2] /\ o[n + 1] = off[(n + 1) + 1]
      /\ \A k \in 1 .. n : o[k] = off[k + 1] /\ o[k + 1] = off[(k + 1) + 1] /\ k + 1 \in 1 .. n + 1
  BY <1>2
<1>5. \A k \in 1 .. n : Holds(Tail(q)[k], o[k], o[k + 1], full)
  BY <1>1, <1>2, <1>3, <1>4
<1>6. off[2] \in Nat /\ 1 \in 1 .. n + 1 /\ 1 + 1 = 2
  BY <1>1, <1>2
<1>7. Holds(Head(q), a, off[2], full)
  BY <1>1, <1>2, <1>3, <1>6
<1>8. QueueHolds(Tail(q), off[2], b, full)
  <2>. HIDE DEF o
  <2>. QED
    BY <1>1, <1>2, <1>3, <1>4, <1>5 DEF QueueHolds
<1>. QED
  BY <1>6, <1>7, <1>8

LEMMA Appended ==
  ASSUME NEW S, NEW q \in Seq(S), NEW c \in S, NEW n \in Nat, Len(q) = n
  PROVE  /\ Append(q, c) \in Seq(S) /\ Len(Append(q, c)) = n + 1 /\ Append(q, c)[n + 1] = c
         /\ \A k \in 1 .. n : Append(q, c)[k] = q[k]
OBVIOUS

\* One more chunk at the end of a queue.
LEMMA QueueAdd ==
  ASSUME NEW q \in Seq(Seq(Nat)), NEW a \in Nat, NEW b \in Nat, NEW d \in Nat, NEW full,
         NEW c \in Seq(Nat), QueueHolds(q, a, b, full), Holds(c, b, d, full)
  PROVE  QueueHolds(Append(q, c), a, d, full)
<1>1. PICK off \in [1 .. Len(q) + 1 -> Nat] :
        /\ off[1] = a /\ off[Len(q) + 1] = b
        /\ \A k \in 1 .. Len(q) : Holds(q[k], off[k], off[k + 1], full)
  BY DEF QueueHolds
<1>2. PICK n \in Nat : Len(q) = n
  OBVIOUS
<1>3. /\ Len(Append(q, c)) = n + 1 /\ Append(q, c)[n + 1] = c
      /\ \A k \in 1 .. n : Append(q, c)[k] = q[k]
  BY <1>2, Appended
<1>. DEFINE o == [k \in 1 .. (n + 1) + 1 |-> IF k = (n + 1) + 1 THEN d ELSE off[k]]
<1>4. /\ o \in [1 .. (n + 1) + 1 -> Nat] /\ o[1] = off[1] /\ o[(n + 1) + 1] = d /\ o[n + 1] = off[n + 1]
      /\ \A k \in 1 .. n : o[k] = off[k] /\ o[k + 1] = off[k + 1]
  BY <1>2
<1>5. \A k \in 1 .. n : Holds(Append(q, c)[k], o[k], o[k + 1], full)
  BY <1>1, <1>2, <1>3, <1>4
<1>6. Holds(Append(q, c)[n + 1], o[n + 1], o[(n + 1) + 1], full)
  BY <1>1, <1>2, <1>3, <1>4
<1>7. \A k \in 1 .. n + 1 : k \in 1 .. n \/ k = n + 1
  OBVIOUS
<1>. HIDE DEF o
<1>. QED
  BY <1>1, <1>3, <1>4, <1>5, <1>6, <1>7 DEF QueueHolds

LEMMA QueueLoose ==
  ASSUME NEW q \in Seq(Seq(Nat)), NEW a \in Nat, NEW b \in Nat, NEW full, NEW less,
         QueueHolds(q, a, b, full), less => full
  PROVE  QueueHolds(q, a, b, less)
<1>1. PICK off \in [1 .. Len(q) + 1 -> Nat] :
        /\ off[1] = a /\ off[Len(q) + 1] = b
        /\ \A k \in 1 .. Len(q) : Holds(q[k], off[k], off[k + 1], full)
  BY DEF QueueHolds
<1>2. ASSUME NEW k \in 1 .. Len(q) PROVE Holds(q[k], off[k], off[k + 1], less)
  <2>1. k \in 1 .. Len(q) + 1 /\ k + 1 \in 1 .. Len(q) + 1 /\ q[k] \in Seq(Nat)
    OBVIOUS
  <2>2. off[k] \in Nat /\ off[k + 1] \in Nat
    BY <1>1, <2>1
  <2>. QED
    BY <1>1, <1>2, <2>1, <2>2, HoldsLoose
<1>. QED
  BY <1>1, <1>2 DEF QueueHolds

LEMMA QueueEmpty ==
  ASSUME NEW a \in Nat, NEW full, NEW b \in Nat, QueueHolds(<<>>, a, b, full)
  PROVE  a = b
BY DEF QueueHolds

\* The head of a path, and the rest.
LEMMA PathTake ==
  ASSUME NEW q \in Seq(Packets), NEW a \in Nat, NEW b \in Nat, NEW f,
         PathHolds(q, a, b, f), q # <<>>
  PROVE  \E m \in Nat :
            /\ Holds(Payload(Head(q)), a, m, TRUE) /\ PathHolds(Tail(q), m, b, f)
            /\ Head(q).type = "Close" => f <= a
<1>1. PICK off \in [1 .. Len(q) + 1 -> Nat] :
        /\ off[1] = a /\ off[Len(q) + 1] = b
        /\ \A k \in 1 .. Len(q) : /\ Holds(Payload(q[k]), off[k], off[k + 1], TRUE)
                                  /\ q[k].type = "Close" => f <= off[k]
        /\ \A j, k \in DOMAIN off : j <= k => off[j] <= off[k]
  BY DEF PathHolds
<1>2. PICK n \in Nat : Len(q) = n + 1
  <2>1. Len(q) \in Nat /\ Len(q) # 0
    OBVIOUS
  <2>2. Len(q) - 1 \in Nat /\ Len(q) = (Len(q) - 1) + 1
    BY <2>1
  <2>. QED
    BY <2>2
<1>3. Len(Tail(q)) = n /\ Head(q) = q[1] /\ \A k \in 1 .. n : Tail(q)[k] = q[k + 1]
  BY <1>2
<1>. DEFINE o == [k \in 1 .. n + 1 |-> off[k + 1]]
<1>4. /\ o \in [1 .. n + 1 -> Nat] /\ o[1] = off[2] /\ o[n + 1] = off[(n + 1) + 1]
      /\ \A k \in 1 .. n : o[k] = off[k + 1] /\ o[k + 1] = off[(k + 1) + 1] /\ k + 1 \in 1 .. n + 1
      /\ DOMAIN o = 1 .. n + 1
  BY <1>2
<1>5. \A k \in 1 .. n : /\ Holds(Payload(Tail(q)[k]), o[k], o[k + 1], TRUE)
                        /\ Tail(q)[k].type = "Close" => f <= o[k]
  BY <1>1, <1>2, <1>3, <1>4
<1>6. \A j, k \in DOMAIN o : j <= k => o[j] <= o[k]
  <2>1. ASSUME NEW j \in 1 .. n + 1, NEW k \in 1 .. n + 1, j <= k PROVE o[j] <= o[k]
    <3>1. j + 1 \in DOMAIN off /\ k + 1 \in DOMAIN off /\ j + 1 <= k + 1
      BY <1>1, <1>2, <2>1
    <3>2. o[j] = off[j + 1] /\ o[k] = off[k + 1]
      OBVIOUS
    <3>. QED
      BY <1>1, <3>1, <3>2
  <2>. QED
    BY <1>4, <2>1
<1>7. off[2] \in Nat /\ 1 \in 1 .. n + 1 /\ 1 + 1 = 2
  BY <1>1, <1>2
<1>8. Holds(Payload(Head(q)), a, off[2], TRUE) /\ (Head(q).type = "Close" => f <= a)
  BY <1>1, <1>2, <1>3, <1>7
<1>9. PathHolds(Tail(q), off[2], b, f)
  <2>. HIDE DEF o
  <2>. QED
    BY <1>1, <1>2, <1>3, <1>4, <1>5, <1>6 DEF PathHolds
<1>. QED
  BY <1>7, <1>8, <1>9

\* One more packet.
LEMMA PathAdd ==
  ASSUME NEW q \in Seq(Packets), NEW a \in Nat, NEW b \in Nat, NEW d \in Nat, NEW f \in Nat,
         NEW p \in Packets, PathHolds(q, a, b, f), Holds(Payload(p), b, d, TRUE),
         p.type = "Close" => f <= b
  PROVE  PathHolds(q \o <<p>>, a, d, f)
<1>1. PICK off \in [1 .. Len(q) + 1 -> Nat] :
        /\ off[1] = a /\ off[Len(q) + 1] = b
        /\ \A k \in 1 .. Len(q) : /\ Holds(Payload(q[k]), off[k], off[k + 1], TRUE)
                                  /\ q[k].type = "Close" => f <= off[k]
        /\ \A j, k \in DOMAIN off : j <= k => off[j] <= off[k]
  BY DEF PathHolds
<1>2. PICK n \in Nat : Len(q) = n
  OBVIOUS
<1>. DEFINE r == q \o <<p>>
<1>3. Len(r) = n + 1 /\ r[n + 1] = p /\ \A k \in 1 .. n : r[k] = q[k]
  BY <1>2
<1>. DEFINE o == [k \in 1 .. (n + 1) + 1 |-> IF k = (n + 1) + 1 THEN d ELSE off[k]]
<1>4. /\ o \in [1 .. (n + 1) + 1 -> Nat] /\ o[1] = off[1] /\ o[(n + 1) + 1] = d /\ o[n + 1] = off[n + 1]
      /\ \A k \in 1 .. n : o[k] = off[k] /\ o[k + 1] = off[k + 1]
      /\ DOMAIN o = 1 .. (n + 1) + 1
  BY <1>2
<1>. HIDE DEF r
<1>5. \A k \in 1 .. n : /\ Holds(Payload(r[k]), o[k], o[k + 1], TRUE)
                        /\ r[k].type = "Close" => f <= o[k]
  BY <1>1, <1>2, <1>3, <1>4
<1>6. Holds(Payload(r[n + 1]), o[n + 1], o[(n + 1) + 1], TRUE) /\ (r[n + 1].type = "Close" => f <= o[n + 1])
  BY <1>1, <1>2, <1>3, <1>4
<1>7. b <= d
  BY DEF Holds
<1>8. \A j, k \in DOMAIN o : j <= k => o[j] <= o[k]
  <2>1. ASSUME NEW j \in 1 .. (n + 1) + 1, NEW k \in 1 .. (n + 1) + 1, j <= k PROVE o[j] <= o[k]
    <3>1. CASE k = (n + 1) + 1 /\ j # (n + 1) + 1
      <4>1. j \in DOMAIN off /\ n + 1 \in DOMAIN off /\ j <= n + 1 /\ off[j] \in Nat
        BY <1>1, <1>2, <3>1
      <4>2. off[j] <= b
        BY <1>1, <1>2, <4>1
      <4>3. o[j] = off[j] /\ o[k] = d
        BY <3>1
      <4>. QED
        BY <1>7, <4>1, <4>2, <4>3
    <3>2. CASE k # (n + 1) + 1
      <4>1. j \in DOMAIN off /\ k \in DOMAIN off /\ j # (n + 1) + 1
        BY <1>1, <1>2, <2>1, <3>2
      <4>2. o[j] = off[j] /\ o[k] = off[k]
        BY <3>2, <4>1
      <4>. QED
        BY <1>1, <2>1, <4>1, <4>2
    <3>3. CASE k = (n + 1) + 1 /\ j = (n + 1) + 1
      BY <3>3
    <3>. QED
      BY <3>1, <3>2, <3>3
  <2>. QED
    BY <1>4, <2>1
<1>9. \A k \in 1 .. n + 1 : /\ Holds(Payload(r[k]), o[k], o[k + 1], TRUE)
                            /\ r[k].type = "Close" => f <= o[k]
  <2>1. \A k \in 1 .. n + 1 : k \in 1 .. n \/ k = n + 1
    OBVIOUS
  <2>. HIDE DEF o
  <2>. QED
    BY <1>5, <1>6, <2>1
<1>10. PathHolds(r, a, d, f)
  <2>1. o[1] = a
    BY <1>1, <1>4
  <2>. HIDE DEF o
  <2>. QED
    BY <1>3, <1>4, <1>8, <1>9, <2>1 DEF PathHolds
<1>. QED
  BY <1>10 DEF r

\* A path cut off.
LEMMA PathCut ==
  ASSUME NEW q \in Seq(Packets), NEW a \in Nat, NEW b \in Nat, NEW f,
         NEW n \in 0 .. Len(q), PathHolds(q, a, b, f)
  PROVE  \E m \in Nat : m <= b /\ PathHolds(SubSeq(q, 1, n), a, m, f)
<1>1. PICK off \in [1 .. Len(q) + 1 -> Nat] :
        /\ off[1] = a /\ off[Len(q) + 1] = b
        /\ \A k \in 1 .. Len(q) : /\ Holds(Payload(q[k]), off[k], off[k + 1], TRUE)
                                  /\ q[k].type = "Close" => f <= off[k]
        /\ \A j, k \in DOMAIN off : j <= k => off[j] <= off[k]
  BY DEF PathHolds
<1>2. PICK l \in Nat : Len(q) = l
  OBVIOUS
<1>3. n \in Nat /\ n <= l
  BY <1>2
<1>. DEFINE r == SubSeq(q, 1, n)
<1>4. Len(r) = n /\ \A k \in 1 .. n : r[k] = q[k]
  BY <1>2, <1>3
<1>. DEFINE o == [k \in 1 .. n + 1 |-> off[k]]
<1>5. /\ o \in [1 .. n + 1 -> Nat] /\ o[1] = off[1] /\ o[n + 1] = off[n + 1]
      /\ \A k \in 1 .. n : o[k] = off[k] /\ o[k + 1] = off[k + 1] /\ k \in 1 .. l
      /\ DOMAIN o = 1 .. n + 1
  BY <1>2, <1>3
<1>. HIDE DEF r
<1>6. \A k \in 1 .. n : /\ Holds(Payload(r[k]), o[k], o[k + 1], TRUE)
                        /\ r[k].type = "Close" => f <= o[k]
  BY <1>1, <1>2, <1>4, <1>5
<1>7. \A j, k \in DOMAIN o : j <= k => o[j] <= o[k]
  <2>1. \A j \in 1 .. n + 1 : j \in DOMAIN off /\ o[j] = off[j]
    BY <1>1, <1>2, <1>3
  <2>. QED
    BY <1>1, <1>5, <2>1
<1>8. off[n + 1] \in Nat /\ off[n + 1] <= b
  <2>1. n + 1 \in DOMAIN off /\ l + 1 \in DOMAIN off /\ n + 1 <= l + 1
    BY <1>2, <1>3
  <2>. QED
    BY <1>1, <1>2, <2>1
<1>9. PathHolds(r, a, off[n + 1], f)
  <2>. HIDE DEF o
  <2>. QED
    BY <1>1, <1>4, <1>5, <1>6, <1>7 DEF PathHolds
<1>. QED
  BY <1>8, <1>9 DEF r

\* A path without a Close packet says nothing about the farewell.
LEMMA PathOpen ==
  ASSUME NEW q \in Seq(Packets), NEW a, NEW b, NEW f, NEW g,
         PathHolds(q, a, b, f), \A i \in DOMAIN q : q[i].type # "Close"
  PROVE  PathHolds(q, a, b, g)
<1>1. DOMAIN q = 1 .. Len(q)
  OBVIOUS
<1>. QED
  BY <1>1 DEF PathHolds

-----------------------------------------------------------------------------
(* No byte is lost or out of order.                                         *)

\* An end that reads nothing keeps what it has stored, or loses track of gaps.
LEMMA StoredLoose ==
  ASSUME Types, NEW e \in Ends, NEW x \in Nat, Stored(e, x), Gapless(e)' => Gapless(e),
         got'[e] = got[e], rdata'[e] = rdata[e],
         rg'[e].readBuf = rg[e].readBuf, rg'[e].readCh = rg[e].readCh
  PROVE  Stored(e, x)'
<1>1. /\ got[e] \in Seq(Nat) /\ rg[e].readBuf \o rdata[e] \in Seq(Nat)
      /\ rg[e].readCh \in Seq(Seq(Nat))
  <2>1. got[e] \in Seq(Nat) /\ rdata[e] \in Seq(Nat)
    BY DEF Types
  <2>2. rg[e].readBuf \in Seq(Nat) /\ rg[e].readCh \in Seq(Seq(Nat))
    BY FieldTypes, EndTypes
  <2>. QED
    BY <2>1, <2>2
<1>2. PICK y, z \in Nat : /\ Holds(got[e], 0, y, Gapless(e))
                          /\ Holds(rg[e].readBuf \o rdata[e], y, z, Gapless(e))
                          /\ QueueHolds(rg[e].readCh, z, x, Gapless(e))
  BY DEF Stored
<1>3. /\ Holds(got'[e], 0, y, Gapless(e)')
      /\ Holds(rg'[e].readBuf \o rdata'[e], y, z, Gapless(e)')
      /\ QueueHolds(rg'[e].readCh, z, x, Gapless(e)')
  BY <1>1, <1>2, HoldsLoose, QueueLoose
<1>. QED
  BY <1>3 DEF Stored

\* Reading moves bytes from readCh and readBuf to what Read returned.
LEMMA StoredUse ==
  ASSUME Types, NEW e \in Ends, NEW x \in Nat, UseOf(e), Reading(e), Stored(e, x)
  PROVE  Stored(e, x)'
<1>. USE DEF io
<1>1. /\ got \in [Ends -> Seq(Nat)] /\ got[e] \in Seq(Nat) /\ rdata \in [Ends -> Seq(Nat)]
      /\ rdata[e] \in Seq(Nat) /\ rg \in [Ends -> RouteGroups] /\ rg[e] \in RouteGroups
      /\ rg[e].readBuf \in Seq(Nat) /\ rg[e].readCh \in Seq(Seq(Nat)) /\ ReadBytes \in Nat
  BY ConstantsAssumption, FieldTypes, EndTypes DEF Types
<1>2. Gapless(e)' = Gapless(e)
  BY UseMarks DEF MarksStay, Gapless
<1>3. PICK y, z \in Nat : /\ Holds(got[e], 0, y, Gapless(e))
                          /\ Holds(rg[e].readBuf \o rdata[e], y, z, Gapless(e))
                          /\ QueueHolds(rg[e].readCh, z, x, Gapless(e))
  BY DEF Stored
<1>4. \A s \in Seq(Nat) : s \o <<>> = s /\ <<>> \o s = s
  OBVIOUS
<1>5. CASE /\ got'[e] = got[e] /\ rdata'[e] = rdata[e]
           /\ rg'[e].readBuf = rg[e].readBuf /\ rg'[e].readCh = rg[e].readCh
  BY <1>2, <1>5, StoredLoose
<1>6. CASE ReadBuf(e) /\ rg[e].readBuf # <<>>
  <2>1. rdata[e] = <<>> /\ rg[e].readBuf \o rdata[e] = rg[e].readBuf
    BY <1>1, <1>4, <1>6 DEF ReadBuf, Reading
  <2>2. PICK m \in Nat : /\ Holds(FirstN(rg[e].readBuf, ReadBytes), y, m, Gapless(e))
                         /\ Holds(AfterN(rg[e].readBuf, ReadBytes), m, z, Gapless(e))
    BY <1>1, <1>3, <2>1, HoldsSplit
  <2>3. /\ FirstN(rg[e].readBuf, ReadBytes) \in Seq(Nat)
        /\ AfterN(rg[e].readBuf, ReadBytes) \in Seq(Nat)
    BY <1>1, FirstAndRest
  <2>4. /\ got'[e] = got[e] \o FirstN(rg[e].readBuf, ReadBytes)
        /\ rg'[e].readBuf = AfterN(rg[e].readBuf, ReadBytes) /\ rg'[e].readCh = rg[e].readCh
        /\ rdata'[e] = rdata[e]
    BY <1>1, <1>6 DEF ReadBuf, RouteGroups
  <2>5. Holds(got'[e], 0, m, Gapless(e))
    BY <1>1, <1>3, <2>2, <2>3, <2>4, HoldsJoin
  <2>6. rg'[e].readBuf \o rdata'[e] = AfterN(rg[e].readBuf, ReadBytes)
    BY <1>4, <2>1, <2>3, <2>4
  <2>. QED
    BY <1>2, <1>3, <2>2, <2>4, <2>5, <2>6 DEF Stored
<1>7. CASE /\ ReadSelect(e) /\ rg[e].readCh # <<>>
           /\ rdata' = [rdata EXCEPT ![e] = Head(rg[e].readCh)]
           /\ rg' = [rg EXCEPT ![e].readCh = Tail(@)]
  <2>1. rdata[e] = <<>> /\ rg[e].readBuf = <<>>
    BY <1>7 DEF ReadSelect, Reading
  <2>2. rg[e].readBuf \o rdata[e] = <<>>
    BY <1>4, <2>1
  <2>3. Holds(got[e], 0, z, Gapless(e))
    <3>1. <<>> \in Seq(Nat) /\ got[e] \o <<>> = got[e]
      BY <1>1, <1>4
    <3>. QED
      BY <1>1, <1>3, <2>2, <3>1, HoldsJoin
  <2>4. PICK m \in Nat : /\ Holds(Head(rg[e].readCh), z, m, Gapless(e))
                         /\ QueueHolds(Tail(rg[e].readCh), m, x, Gapless(e))
    BY <1>1, <1>3, <1>7, QueueTake
  <2>5. /\ rdata'[e] = Head(rg[e].readCh) /\ rg'[e].readCh = Tail(rg[e].readCh)
        /\ rg'[e].readBuf = rg[e].readBuf /\ got'[e] = got[e]
    BY <1>1, <1>7 DEF ReadSelect, RouteGroups
  <2>6. Head(rg[e].readCh) \in Seq(Nat)
    BY <1>1, <1>7
  <2>7. rg'[e].readBuf \o rdata'[e] = Head(rg[e].readCh)
    BY <1>4, <2>1, <2>5, <2>6
  <2>. QED
    BY <1>2, <2>3, <2>4, <2>5, <2>7 DEF Stored
<1>8. CASE BufRead(e)
  <2>1. rg[e].readBuf = <<>> /\ rg[e].readBuf \o rdata[e] = rdata[e]
    BY <1>1, <1>4, <1>8 DEF BufRead, Reading
  <2>2. PICK m \in Nat : /\ Holds(FirstN(rdata[e], ReadBytes), y, m, Gapless(e))
                         /\ Holds(AfterN(rdata[e], ReadBytes), m, z, Gapless(e))
    BY <1>1, <1>3, <2>1, HoldsSplit
  <2>3. FirstN(rdata[e], ReadBytes) \in Seq(Nat) /\ AfterN(rdata[e], ReadBytes) \in Seq(Nat)
    BY <1>1, FirstAndRest
  <2>4. /\ got'[e] = got[e] \o FirstN(rdata[e], ReadBytes)
        /\ rg'[e].readBuf = rg[e].readBuf \o AfterN(rdata[e], ReadBytes)
        /\ rg'[e].readCh = rg[e].readCh /\ rdata'[e] = <<>>
    BY <1>1, <1>8 DEF BufRead, RouteGroups
  <2>5. Holds(got'[e], 0, m, Gapless(e))
    BY <1>1, <1>3, <2>2, <2>3, <2>4, HoldsJoin
  <2>6. rg'[e].readBuf \o rdata'[e] = AfterN(rdata[e], ReadBytes)
    BY <1>4, <2>1, <2>3, <2>4
  <2>. QED
    BY <1>2, <1>3, <2>2, <2>4, <2>5, <2>6 DEF Stored
<1>9. CASE ReadIsClosed(e) \/ WriteIsClosed(e) \/ Write(e) \/ SendPing(e) \/ ServiceLoopEnds(e)
  BY <1>5, <1>9 DEF ReadIsClosed, WriteIsClosed, Write, SendPing, ServiceLoopEnds
<1>10. CASE ReadBuf(e) /\ rg[e].readBuf = <<>>
  BY <1>5, <1>10 DEF ReadBuf
<1>11. CASE ReadSelect(e) /\ rg' = rg /\ rdata' = rdata
  BY <1>5, <1>11 DEF ReadSelect
<1>. QED
  BY <1>6, <1>7, <1>8, <1>9, <1>10, <1>11 DEF UseOf, Read, ReadSelect

\* What the router does with a packet: it keeps it, throws it away, or pushes it.
LEMMA HandleData ==
  ASSUME Types, NEW e \in Ends, Handle(e), Handled(e), Closed(e), TornByRouter(e)
  PROVE  \/ /\ net'[e] = net[e] /\ rg'[e].readCh = rg[e].readCh
            /\ Pushes(e)' => Pushes(e)
         \/ /\ net[e] # <<>> /\ net'[e] = Tail(net[e]) /\ rg'[e].readCh = rg[e].readCh
            /\ \/ Packet(e).type # "Data" /\ (Pushes(e)' => Pushes(e))
               \/ ~(Gapless(e) /\ Pushes(e)')
         \/ /\ net[e] # <<>> /\ net'[e] = Tail(net[e])
            /\ Packet(e).type = "Data" /\ Pushes(e)
            /\ rg'[e].readCh = Append(rg[e].readCh, Packet(e).bytes)
<1>. USE DEF io
<1>1. /\ pc \in [Ends -> [Threads -> Labels]] /\ "router" \in Threads /\ DOMAIN rt = Ends
      /\ rg \in [Ends -> RouteGroups] /\ rg[e] \in RouteGroups /\ DOMAIN net = Ends
  BY DEF Types, Threads
<1>2. \A l : Goto(e, "router", l) => pc'[e]["router"] = l
  BY <1>1 DEF Goto
<1>3. Pop(e) => net'[e] = Tail(net[e])
  BY <1>1 DEF Pop
<1>4. pc[e]["router"] # "idle" => net[e] # <<>>
  BY DEF Handled
<1>5. (rg[e].remoteClosed \/ rg[e].closed) /\ Gapless(e) =>
          pc[e]["router"] # "push" /\ ~(pc[e]["router"] = "idle" /\ "rvs" \in rt[e])
  BY DEF TornByRouter
<1>6. CASE HandleUnknownRule(e)
  <2>1. ~Pushes(e)'
    BY <1>6 DEF HandleUnknownRule, Pushes
  <2>. QED
    BY <1>3, <1>6, <2>1 DEF HandleUnknownRule
<1>7. CASE HandleClosePacket(e)
  <2>1. Pushes(e)
    BY <1>7 DEF HandleClosePacket, Pushes
  <2>. QED
    BY <1>7, <2>1 DEF HandleClosePacket
<1>8. CASE RGHandleClosePacket(e)
  <2>1. Goto(e, "router", "handled") \/ Goto(e, "router", "close")
    BY <1>8 DEF RGHandleClosePacket
  <2>2. Pushes(e)' => Pushes(e)
    BY <1>2, <1>8, <2>1 DEF RGHandleClosePacket, Pushes
  <2>3. rg'[e].readCh = rg[e].readCh
    BY <1>1, <1>8 DEF RGHandleClosePacket, RouteGroups
  <2>. QED
    BY <1>8, <2>2, <2>3 DEF RGHandleClosePacket
<1>9. CASE ClosePacketHandled(e)
  <2>1. ~Pushes(e)'
    BY <1>1, <1>2, <1>9 DEF ClosePacketHandled, Pushes
  <2>. QED
    BY <1>3, <1>4, <1>9, <2>1 DEF ClosePacketHandled
<1>10. CASE HandleDataPacket(e)
  <2>1. Pushes(e) /\ net[e] # <<>>
    BY <1>10 DEF HandleDataPacket, Received, Pushes
  <2>2. CASE rg[e].remoteClosed
    <3>1. Pop(e) /\ ~Gapless(e)
      BY <1>5, <1>10, <2>2 DEF HandleDataPacket
    <3>. QED
      BY <1>3, <1>10, <2>1, <3>1 DEF HandleDataPacket
  <2>3. CASE ~rg[e].remoteClosed
    BY <1>10, <2>1, <2>3 DEF HandleDataPacket
  <2>. QED
    BY <2>2, <2>3
<1>11. CASE PushData(e)
  <2>1. /\ net[e] # <<>> /\ net'[e] = Tail(net[e]) /\ Packet(e).type = "Data" /\ Pushes(e)
        /\ pc[e]["router"] = "push"
    BY <1>3, <1>4, <1>11 DEF PushData, Handled, Pushes
  <2>2. CASE (rg[e].closed \/ rg[e].readChClosed) /\ rg' = rg
    <3>1. ~Gapless(e)
      BY <1>5, <2>1, <2>2 DEF Closed, Steps
    <3>. QED
      BY <2>1, <2>2, <3>1
  <2>3. CASE rg' = [rg EXCEPT ![e].readCh = Append(@, Packet(e).bytes)]
    <3>1. rg'[e].readCh = Append(rg[e].readCh, Packet(e).bytes)
      BY <1>1, <2>3 DEF RouteGroups
    <3>. QED
      BY <2>1, <3>1
  <2>. QED
    BY <1>11, <2>2, <2>3 DEF PushData
<1>12. CASE HandleErrorPacket(e)
  <2>1. /\ Pushes(e) /\ net[e] # <<>> /\ net'[e] = Tail(net[e]) /\ Packet(e).type # "Data"
    BY <1>3, <1>12 DEF HandleErrorPacket, Received, Pushes
  <2>2. rg'[e].readCh = rg[e].readCh
    BY <1>1, <1>12 DEF HandleErrorPacket, RouteGroups
  <2>. QED
    BY <2>1, <2>2
<1>13. CASE HandlePingPacket(e)
  <2>1. Pushes(e)
    BY <1>13 DEF HandlePingPacket, Pushes
  <2>. QED
    BY <1>13, <2>1 DEF HandlePingPacket
<1>14. CASE SendPong(e)
  <2>1. net[e] # <<>> /\ net'[e] = Tail(net[e]) /\ Packet(e).type # "Data"
    <3>1. net[e] # <<>> /\ Packet(e).type # "Data"
      BY <1>14 DEF SendPong, Handled
    <3>2. Sent(e, <<[type |-> "Pong"]>>)[e] = net[e] /\ e \in DOMAIN Sent(e, <<[type |-> "Pong"]>>)
      <4>1. <<[type |-> "Pong"]>> \in Seq(Packets)
        BY PacketTypes
      <4>2. Sent(e, <<[type |-> "Pong"]>>) \in [Ends -> Seq(Packets)]
        BY <4>1, Delivered
      <4>. QED
        BY <4>1, <4>2, Delivered
    <3>. QED
      BY <1>14, <3>1, <3>2 DEF SendPong
  <2>2. Pushes(e)' => Pushes(e)
    BY <1>2, <1>14 DEF SendPong, Pushes
  <2>. QED
    BY <1>14, <2>1, <2>2 DEF SendPong
<1>15. CASE HandlePongPacket(e)
  <2>1. /\ Pushes(e) /\ net[e] # <<>> /\ net'[e] = Tail(net[e]) /\ Packet(e).type # "Data"
    BY <1>3, <1>15 DEF HandlePongPacket, Received, Pushes
  <2>. QED
    BY <1>15, <2>1 DEF HandlePongPacket
<1>. QED
  BY <1>6, <1>7, <1>8, <1>9, <1>10, <1>11, <1>12, <1>13, <1>14, <1>15 DEF Handle

LEMMA BytesClosing ==
  ASSUME Types, NEW e \in Ends, NEW t \in Callers, ClosingStep(e, t), Closed(e), Bytes(e)
  PROVE  Bytes(e)'
<1>1. /\ Grows(e) /\ rg'[e].readBuf = rg[e].readBuf /\ rg'[e].readCh = rg[e].readCh
      /\ rdata' = rdata /\ sent' = sent /\ got' = got /\ tpUp' = tpUp
      /\ (net' = net /\ farewell' = farewell) \/ BroadcastClosePackets(e, t)
  BY ClosingLeaves
<1>2. net'[e] = net[e] /\ farewell'[Peer(e)] = farewell[Peer(e)]
  BY <1>1, Broadcasts
<1>3. Gapless(e)' => Gapless(e)
  BY <1>1 DEF Grows, Gapless
<1>4. Pushes(e)' => Pushes(e)
  <2>1. pc'[e]["router"] = "push" => pc[e]["router"] = "push"
    <3>1. CASE t = "router"
      BY <3>1, RouterCloses DEF InClose, OnceBody
    <3>2. CASE t # "router"
      BY <3>2, ClosingLeaves DEF Threads
    <3>. QED
      BY <3>1, <3>2
  <2>. QED
    BY <1>1, <2>1 DEF Pushes, Grows
<1>5. ~rg'[e].closeInitiated /\ CloseTaken(e)' => ~rg[e].closeInitiated /\ CloseTaken(e)
  BY <1>1, TakenBefore DEF Grows
<1>6. PICK x, y, z \in Nat : Stored(e, x) /\ UnderWay(e, x, y, z, farewell[Peer(e)].sent)
  BY DEF Bytes
<1>7. Stored(e, x)'
  BY <1>1, <1>3, <1>6, StoredLoose
<1>8. UnderWay(e, x, y, z, farewell[Peer(e)].sent)'
  BY <1>1, <1>2, <1>3, <1>4, <1>5, <1>6 DEF UnderWay
<1>. QED
  BY <1>7, <1>8 DEF Bytes

LEMMA BytesUse ==
  ASSUME Types, NEW e \in Ends, UseOf(e), ~Handle(e), Reading(e), Bytes(e)
  PROVE  Bytes(e)'
<1>1. /\ Gapless(e)' = Gapless(e) /\ Pushes(e)' = Pushes(e) /\ CloseTaken(e)' = CloseTaken(e)
      /\ rg'[e].closeInitiated = rg[e].closeInitiated /\ farewell' = farewell
  BY UseMarks DEF MarksStay, Gapless, Pushes, CloseTaken
<1>2. net'[e] = net[e] /\ tpUp' = tpUp
  BY Outgoing DEF EndStep, UseOf
<1>3. sent'[Peer(e)] = sent[Peer(e)]
  BY Elsewhere, Peers DEF Own, EndStep, UseOf
<1>4. PICK x, y, z \in Nat : Stored(e, x) /\ UnderWay(e, x, y, z, farewell[Peer(e)].sent)
  BY DEF Bytes
<1>5. Stored(e, x)'
  BY <1>4, StoredUse
<1>6. UnderWay(e, x, y, z, farewell[Peer(e)].sent)'
  BY <1>1, <1>2, <1>3, <1>4 DEF UnderWay
<1>. QED
  BY <1>5, <1>6 DEF Bytes

LEMMA BytesHandle ==
  ASSUME Types, NEW e \in Ends, Handle(e), Handled(e), Closed(e), TornByRouter(e), Bytes(e)
  PROVE  Bytes(e)'
<1>1. /\ Gapless(e)' = Gapless(e) /\ rg'[e].closeInitiated = rg[e].closeInitiated
      /\ rg'[e].remoteClosed = rg[e].remoteClosed /\ farewell' = farewell
      /\ sent' = sent /\ got' = got /\ rdata' = rdata /\ rg'[e].readBuf = rg[e].readBuf
  BY HandleMarks DEF MarksStay, Gapless
<1>2. /\ tpUp' = tpUp
      /\ pc'[e]["router"] \in Closing =>
            \/ pc[e]["router"] \in Closing
            \/ net[e] # <<>> /\ Packet(e).type = "Close" /\ "rvs" \in rt[e]
  BY HandleErrors
<1>3. /\ net[e] \in Seq(Packets) /\ Peer(e) \in Ends /\ sent[Peer(e)] \in Nat
      /\ rg[e].readCh \in Seq(Seq(Nat)) /\ farewell[Peer(e)].sent \in Nat
  <2>1. net[e] \in Seq(Packets) /\ Peer(e) \in Ends /\ sent[Peer(e)] \in Nat
        /\ farewell[Peer(e)].sent \in Nat
    BY Peers DEF Types
  <2>. QED
    BY <2>1, FieldTypes, EndTypes
<1>. DEFINE f == farewell[Peer(e)].sent
<1>4. PICK x, y, z \in Nat : Stored(e, x) /\ UnderWay(e, x, y, z, f)
  BY DEF Bytes
<1>. HIDE DEF f
<1>5. /\ x <= y /\ PathHolds(net[e], y, z, f) /\ z <= sent[Peer(e)] /\ (tpUp => z = sent[Peer(e)])
      /\ Gapless(e) /\ Pushes(e) => x = y
      /\ tpUp /\ ~rg[e].closeInitiated /\ CloseTaken(e) => f <= x
      /\ f <= sent[Peer(e)]
  BY <1>4 DEF UnderWay
<1>6. tpUp' /\ ~rg'[e].closeInitiated /\ CloseTaken(e)' => f <= x
  <2>1. CASE CloseTaken(e)
    BY <1>1, <1>2, <1>5, <2>1
  <2>2. CASE ~CloseTaken(e)
    <3>. SUFFICES ASSUME tpUp, ~rg[e].closeInitiated, CloseTaken(e)' PROVE f <= x
      BY <1>1, <1>2
    <3>1. net[e] # <<>> /\ Head(net[e]).type = "Close" /\ "rvs" \in rt[e]
      BY <1>1, <1>2, <2>2 DEF CloseTaken, Packet
    <3>2. f <= y
      BY <1>3, <1>5, <3>1, PathTake
    <3>3. x = y
      BY <1>5, <3>1 DEF Gapless, Pushes
    <3>. QED
      BY <3>2, <3>3
  <2>. QED
    BY <2>1, <2>2
<1>7. CASE /\ net'[e] = net[e] /\ rg'[e].readCh = rg[e].readCh
           /\ Pushes(e)' => Pushes(e)
  <2>1. Stored(e, x)'
    BY <1>1, <1>4, <1>7, StoredLoose
  <2>2. UnderWay(e, x, y, z, f)'
    BY <1>1, <1>2, <1>5, <1>6, <1>7 DEF UnderWay, f
  <2>. QED
    BY <1>1, <2>1, <2>2 DEF Bytes, f
<1>8. CASE /\ net[e] # <<>> /\ net'[e] = Tail(net[e]) /\ rg'[e].readCh = rg[e].readCh
           /\ \/ Packet(e).type # "Data" /\ (Pushes(e)' => Pushes(e))
              \/ ~(Gapless(e) /\ Pushes(e)')
  <2>1. PICK m \in Nat : /\ Holds(Payload(Head(net[e])), y, m, TRUE)
                         /\ PathHolds(Tail(net[e]), m, z, f)
    BY <1>3, <1>5, <1>8, PathTake
  <2>2. y <= m
    BY <2>1 DEF Holds
  <2>3. Packet(e).type # "Data" => y = m
    <3>1. Packet(e).type # "Data" => Holds(<<>>, y, m, TRUE)
      BY <2>1 DEF Packet, Payload
    <3>. QED
      BY <3>1, HoldsNothing
  <2>4. Stored(e, x)'
    BY <1>1, <1>4, <1>8, StoredLoose
  <2>5. x <= m /\ (Gapless(e)' /\ Pushes(e)' => x = m)
    BY <1>1, <1>5, <1>8, <2>2, <2>3
  <2>6. UnderWay(e, x, m, z, f)'
    BY <1>1, <1>2, <1>5, <1>6, <1>8, <2>1, <2>5 DEF UnderWay, f
  <2>. QED
    BY <1>1, <2>4, <2>6 DEF Bytes, f
<1>9. CASE /\ net[e] # <<>> /\ net'[e] = Tail(net[e])
           /\ Packet(e).type = "Data" /\ Pushes(e)
           /\ rg'[e].readCh = Append(rg[e].readCh, Packet(e).bytes)
  <2>1. PICK m \in Nat : /\ Holds(Payload(Head(net[e])), y, m, TRUE)
                         /\ PathHolds(Tail(net[e]), m, z, f)
    BY <1>3, <1>5, <1>9, PathTake
  <2>2. y <= m
    BY <2>1 DEF Holds
  <2>3. Head(net[e]) \in Packets /\ Packet(e).bytes = Payload(Head(net[e]))
        /\ Packet(e).bytes \in Seq(Nat)
    <3>1. Head(net[e]) \in Packets
      BY <1>3, <1>9
    <3>. QED
      BY <1>9, <3>1, PacketTypes DEF Packet, Payload
  <2>4. Holds(Packet(e).bytes, x, m, Gapless(e))
    <3>1. CASE Gapless(e)
      <4>1. x = y
        BY <1>5, <1>9, <3>1
      <4>. QED
        BY <2>1, <2>3, <3>1, <4>1, HoldsLoose
    <3>2. CASE ~Gapless(e)
      <4>1. Holds(Packet(e).bytes, x, m, FALSE)
        BY <1>5, <2>1, <2>3, HoldsLower
      <4>. QED
        BY <2>3, <3>2, <4>1, HoldsLoose
    <3>. QED
      BY <3>1, <3>2
  <2>5. PICK v, w \in Nat : /\ Holds(got[e], 0, v, Gapless(e))
                            /\ Holds(rg[e].readBuf \o rdata[e], v, w, Gapless(e))
                            /\ QueueHolds(rg[e].readCh, w, x, Gapless(e))
    BY <1>4 DEF Stored
  <2>6. QueueHolds(rg'[e].readCh, w, m, Gapless(e))
    BY <1>3, <1>9, <2>3, <2>4, <2>5, QueueAdd
  <2>7. Stored(e, m)'
    BY <1>1, <2>5, <2>6 DEF Stored
  <2>8. x <= m
    BY <1>5, <2>2
  <2>9. tpUp' /\ ~rg'[e].closeInitiated /\ CloseTaken(e)' => f <= m
    <3>1. f \in Nat
      BY <1>3 DEF f
    <3>. QED
      BY <1>6, <2>8, <3>1
  <2>10. UnderWay(e, m, m, z, f)'
    BY <1>1, <1>2, <1>5, <1>9, <2>1, <2>9 DEF UnderWay, f
  <2>. QED
    BY <1>1, <2>7, <2>10 DEF Bytes, f
<1>. QED
  BY <1>7, <1>8, <1>9, HandleData

LEMMA BytesPeer ==
  ASSUME Types, NEW e \in Ends, EndStep(Peer(e)), Farewells(e), Bytes(e)
  PROVE  Bytes(e)'
<1>. DEFINE p == Peer(e)
            f == farewell[p].sent
<1>1. p \in Ends /\ p # e /\ Peer(p) = e
  BY Peers
<1>2. UNCHANGED Own(e)
  BY <1>1, Elsewhere
<1>3. /\ net[e] \in Seq(Packets) /\ sent[p] \in Nat /\ f \in Nat
  BY <1>1 DEF Types
<1>4. tpUp' = tpUp
  BY <1>1, Outgoing
<1>5. PICK x, y, z \in Nat : Stored(e, x) /\ UnderWay(e, x, y, z, f)
  BY DEF Bytes
<1>6. Stored(e, x)'
  BY <1>2, <1>5 DEF Stored, Own, Gapless
<1>7. /\ Gapless(e)' = Gapless(e) /\ Pushes(e)' = Pushes(e) /\ CloseTaken(e)' = CloseTaken(e)
      /\ rg'[e].closeInitiated = rg[e].closeInitiated
  BY <1>2 DEF Own, Gapless, Pushes, CloseTaken
<1>8. /\ x <= y /\ PathHolds(net[e], y, z, f) /\ z <= sent[p] /\ (tpUp => z = sent[p])
      /\ Gapless(e) /\ Pushes(e) => x = y
      /\ tpUp /\ ~rg[e].closeInitiated /\ CloseTaken(e) => f <= x
      /\ f <= sent[p]
  BY <1>5 DEF UnderWay
\* It is enough to find the bytes on the new path.
<1>9. ASSUME NEW w \in Nat, NEW g \in Nat, farewell'[p].sent = g,
             PathHolds(net'[e], y, w, g), w <= sent'[p], tpUp => w = sent'[p], g <= sent'[p],
             tpUp /\ ~rg[e].closeInitiated /\ CloseTaken(e) => g <= x
      PROVE  Bytes(e)'
  <2>1. UnderWay(e, x, y, w, g)'
    BY <1>4, <1>7, <1>8, <1>9 DEF UnderWay
  <2>. QED
    BY <1>6, <1>9, <2>1 DEF Bytes
<1>. HIDE DEF p, f
<1>10. Holds(<<>>, z, z, TRUE)
  <2>1. z <= z
    OBVIOUS
  <2>. QED
    BY <2>1, HoldsNothing
<1>11. CASE net'[e] = net[e] /\ farewell' = farewell /\ sent' = sent
  BY <1>3, <1>8, <1>9, <1>11 DEF f
<1>12. ASSUME NEW r \in Probes, net'[e] = net[e] \o <<r>>, farewell' = farewell, sent' = sent
       PROVE  Bytes(e)'
  <2>1. r \in Packets /\ r.type # "Close" /\ Payload(r) = <<>>
    BY PacketTypes DEF Probes, Payload
  <2>2. Holds(Payload(r), z, z, TRUE)
    BY <1>10, <2>1
  <2>3. PathHolds(net'[e], y, z, f)
    BY <1>3, <1>8, <1>12, <2>1, <2>2, PathAdd
  <2>. QED
    BY <1>3, <1>8, <1>9, <1>12, <2>3 DEF f
<1>13. CASE Write(p)
  <2>1. DataPacket(sent[p]) \in Packets /\ net' = Sent(p, <<DataPacket(sent[p])>>) /\ farewell' = farewell
    BY <1>1, <1>13, Written DEF Write
  <2>2. DataPacket(sent[p]).type # "Close"
    BY DEF DataPacket
  <2>3. PacketBytes \in Nat
    BY ConstantsAssumption
  <2>4. <<DataPacket(sent[p])>> \in Seq(Packets)
    BY <2>1
  <2>5. net'[e] = IF tpUp THEN net[e] \o <<DataPacket(sent[p])>> ELSE net[e]
    BY <1>1, <2>1, <2>4, Delivered
  <2>6. sent'[p] = IF tpUp THEN sent[p] + PacketBytes ELSE sent[p]
    BY <1>1, <1>13 DEF Write, Types
  <2>7. CASE tpUp
    <3>1. Holds(Payload(DataPacket(sent[p])), z, z + PacketBytes, TRUE) /\ z + PacketBytes \in Nat
      <4>1. Holds(Payload(DataPacket(sent[p])), sent[p], sent[p] + PacketBytes, TRUE)
        BY <1>3, HoldsWritten
      <4>2. z = sent[p]
        BY <1>8, <2>7
      <4>3. z + PacketBytes \in Nat
        BY <2>3
      <4>. QED
        BY <4>1, <4>2, <4>3, Zenon
    <3>2. PathHolds(net'[e], y, z + PacketBytes, f)
      BY <1>3, <1>8, <2>1, <2>2, <2>5, <2>7, <3>1, PathAdd
    <3>3. z + PacketBytes = sent'[p] /\ f <= sent'[p]
      BY <1>3, <1>8, <2>3, <2>6, <2>7
    <3>. QED
      BY <1>3, <1>8, <1>9, <2>1, <3>1, <3>2, <3>3 DEF f
  <2>8. CASE ~tpUp
    BY <1>3, <1>8, <1>9, <2>1, <2>5, <2>6, <2>8 DEF f
  <2>. QED
    BY <2>7, <2>8
<1>14. ASSUME NEW t \in Callers, BroadcastClosePackets(p, t) PROVE Bytes(e)'
  <2>1. /\ net'[e] = IF tpUp THEN net[e] \o ClosePackets(p) ELSE net[e]
        /\ ClosePackets(p) = IF rg[p].closeError /\ rg[p].closeInitiated
                                THEN <<[type |-> "Error"]>> \o <<[type |-> "Close"]>>
                                ELSE <<>> \o <<[type |-> "Close"]>>
        /\ farewell'[p] = IF farewell[p].said THEN farewell[p]
                          ELSE [sent |-> sent[p], error |-> rg[p].closeError, said |-> TRUE]
        /\ sent' = sent
    BY <1>1, <1>14, Broadcasts
  <2>. DEFINE g == farewell'[p].sent
  <2>2. g = IF farewell[p].said THEN f ELSE sent[p]
    BY <2>1 DEF f
  <2>3. g \in Nat /\ g <= sent[p]
    BY <1>3, <1>8, <2>2
  <2>4. PathHolds(net[e], y, z, g)
    <3>1. CASE farewell[p].said
      BY <1>8, <2>2, <3>1
    <3>2. CASE ~farewell[p].said
      <4>1. \A i \in DOMAIN net[e] : net[e][i].type # "Close"
        BY <3>2 DEF Farewells, p
      <4>. QED
        BY <1>3, <1>8, <4>1, PathOpen
    <3>. QED
      BY <3>1, <3>2
  <2>5. tpUp /\ ~rg[e].closeInitiated /\ CloseTaken(e) => g <= x
    <3>1. tpUp /\ ~rg[e].closeInitiated /\ CloseTaken(e) => farewell[p].said
      BY DEF Farewells, p
    <3>. QED
      BY <1>8, <2>2, <3>1
  <2>. HIDE DEF g
  <2>6. PathHolds(net'[e], y, z, g)
    <3>1. CASE ~tpUp
      BY <2>1, <2>4, <3>1
    <3>2. CASE tpUp
      <4>. DEFINE c == [type |-> "Close"]
                  r == [type |-> "Error"]
      <4>1. c \in Packets /\ r \in Packets /\ Payload(c) = <<>> /\ Payload(r) = <<>>
            /\ r.type # "Close"
        BY PacketTypes DEF Payload
      <4>. HIDE DEF c, r
      <4>2. Holds(Payload(c), z, z, TRUE) /\ Holds(Payload(r), z, z, TRUE)
        BY <1>10, <4>1
      <4>3. g <= z
        BY <1>8, <2>3, <3>2
      <4>4. PathHolds(net[e] \o <<c>>, y, z, g)
        BY <1>3, <2>3, <2>4, <4>1, <4>2, <4>3, PathAdd
      <4>5. PathHolds((net[e] \o <<r>>) \o <<c>>, y, z, g)
        <5>1. net[e] \o <<r>> \in Seq(Packets)
          BY <1>3, <4>1
        <5>2. PathHolds(net[e] \o <<r>>, y, z, g)
          BY <1>3, <2>3, <2>4, <4>1, <4>2, PathAdd
        <5>. QED
          BY <2>3, <4>1, <4>2, <4>3, <5>1, <5>2, PathAdd
      <4>6. /\ (net[e] \o <<r>>) \o <<c>> = net[e] \o (<<r>> \o <<c>>)
            /\ net[e] \o (<<>> \o <<c>>) = net[e] \o <<c>>
        <5>1. <<r>> \in Seq(Packets) /\ <<c>> \in Seq(Packets)
          BY <4>1
        <5>2. \A q, s, u \in Seq(Packets) : (q \o s) \o u = q \o (s \o u) /\ <<>> \o u = u
          OBVIOUS
        <5>. QED
          BY <1>3, <5>1, <5>2
      <4>. QED
        BY <2>1, <3>2, <4>4, <4>5, <4>6 DEF c, r
    <3>. QED
      BY <3>1, <3>2
  <2>. QED
    BY <1>8, <1>9, <2>1, <2>3, <2>5, <2>6 DEF g
<1>. QED
  BY <1>1, <1>11, <1>12, <1>13, <1>14, Outgoing DEF p

LEMMA BytesKept ==
  ASSUME Types, [Next /\ UNCHANGED plan]_<<vars, plan>>, NEW e \in Ends,
         Closed(e), TornByRouter(e), Reading(e), Handled(e), Farewells(e), Bytes(e)
  PROVE  Bytes(e)'
<1>1. CASE EndStep(e)
  BY <1>1, EndKinds, BytesClosing, BytesHandle, BytesUse
<1>2. CASE EndStep(Peer(e))
  BY <1>2, BytesPeer
<1>3. CASE TransportFails
  <2>1. PICK n \in 0 .. Len(net[e]) : net'[e] = SubSeq(net[e], 1, n)
    BY <1>3, Truncated
  <2>2. net[e] \in Seq(Packets) /\ sent[Peer(e)] \in Nat
    BY Peers DEF Types
  <2>3. tpUp' = FALSE /\ farewell' = farewell /\ rg' = rg /\ rt' = rt /\ pc' = pc
        /\ sent' = sent /\ got' = got /\ rdata' = rdata
    BY <1>3 DEF TransportFails, io
  <2>. DEFINE f == farewell[Peer(e)].sent
  <2>4. PICK x, y, z \in Nat : Stored(e, x) /\ UnderWay(e, x, y, z, f)
    BY DEF Bytes
  <2>5. x <= y /\ PathHolds(net[e], y, z, f) /\ z <= sent[Peer(e)]
        /\ (Gapless(e) /\ Pushes(e) => x = y) /\ f <= sent[Peer(e)]
    BY <2>4 DEF UnderWay
  <2>6. PICK m \in Nat : m <= z /\ PathHolds(SubSeq(net[e], 1, n), y, m, f)
    BY <2>2, <2>5, PathCut
  <2>7. Stored(e, x)'
    BY <2>3, <2>4 DEF Stored, Gapless
  <2>8. m <= sent[Peer(e)]
    BY <2>2, <2>5, <2>6
  <2>9. UnderWay(e, x, y, m, f)'
    BY <2>1, <2>3, <2>5, <2>6, <2>8 DEF UnderWay, Gapless, Pushes
  <2>. QED
    BY <2>3, <2>7, <2>9 DEF Bytes
<1>4. CASE UNCHANGED <<vars, plan>>
  BY <1>4 DEF vars, io, Bytes, Stored, UnderWay, Gapless, Pushes, CloseTaken
<1>5. \A f \in Ends : f = e \/ f = Peer(e)
  BY DEF Ends, Peer
<1>. QED
  BY <1>1, <1>2, <1>3, <1>4, <1>5 DEF Next, EndStep

-----------------------------------------------------------------------------
(* The invariant holds.                                                     *)

\* What an end knows of itself.
Local(e) == Whole(e) /\ Buffered(e) /\ TornByRouter(e) /\ Reading(e)

\* Whoever moves, an end moves itself or keeps what is its own.
LEMMA OwnSteps ==
  ASSUME Types, [Next /\ UNCHANGED plan]_<<vars, plan>>, NEW e \in Ends
  PROVE  plan' = plan /\ (EndStep(e) \/ UNCHANGED Own(e))
<1>1. ASSUME NEW f \in Ends, EndStep(f) PROVE EndStep(e) \/ UNCHANGED Own(e)
  BY <1>1, Elsewhere
<1>2. CASE TransportFails
  BY <1>2 DEF TransportFails, Own, io
<1>3. CASE UNCHANGED <<vars, plan>>
  BY <1>3 DEF vars, io, Own
<1>4. Next => TransportFails \/ \E f \in Ends : EndStep(f)
  BY DEF Next, EndStep
<1>. QED
  BY <1>1, <1>2, <1>3, <1>4

LEMMA LocalKept ==
  ASSUME Types, [Next /\ UNCHANGED plan]_<<vars, plan>>, NEW e \in Ends, Closed(e), Local(e)
  PROVE  Local(e)'
<1>1. CASE EndStep(e)
  BY <1>1, WholeKept, BufferedKept, TornByRouterKept, ReadingKept DEF Local
<1>2. CASE UNCHANGED Own(e)
  BY <1>2 DEF Own, Local, Whole, Buffered, TornByRouter, Reading, Gapless
<1>. QED
  BY <1>1, <1>2, OwnSteps

LEMMA IInvKept == IInv /\ [Next /\ UNCHANGED plan]_<<vars, plan>> => IInv'
<1>. SUFFICES ASSUME IInv, [Next /\ UNCHANGED plan]_<<vars, plan>> PROVE IInv'
  OBVIOUS
<1>1. /\ Types
      /\ \A e \in Ends : Closed(e) /\ Local(e) /\ Handled(e) /\ Farewells(e) /\ Bytes(e)
  BY DEF IInv, Closed, Local
<1>2. Types'
  BY <1>1, TypesKept
<1>3. ASSUME NEW e \in Ends
      PROVE  Closed(e)' /\ Local(e)' /\ Handled(e)' /\ Farewells(e)' /\ Bytes(e)'
  <2>1. Closed(e)' /\ Local(e)' /\ Handled(e)'
    BY <1>1, ClosedKept, LocalKept, HandledKept
  <2>2. Peer(e) \in Ends
    BY Peers
  <2>3. Farewells(e)'
    BY <1>1, <2>2, FarewellsKept
  <2>4. TornByRouter(e) /\ Reading(e)
    BY <1>1 DEF Local
  <2>5. Bytes(e)'
    BY <1>1, <2>4, BytesKept
  <2>. QED
    BY <2>1, <2>3, <2>5
<1>. QED
  BY <1>2, <1>3 DEF IInv, Closed, Local

LEMMA NothingHeld ==
  Holds(<<>>, 0, 0, TRUE) /\ QueueHolds(<<>>, 0, 0, TRUE) /\ PathHolds(<<>>, 0, 0, 0)
<1>. DEFINE off == [k \in 1 .. 1 |-> 0]
<1>1. Len(<<>>) + 1 = 1 /\ 1 .. Len(<<>>) = {}
  OBVIOUS
<1>2. off \in [1 .. 1 -> Nat] /\ off[1] = 0 /\ \A j, k \in DOMAIN off : off[j] <= off[k]
  OBVIOUS
<1>. HIDE DEF off
<1>3. off \in [1 .. Len(<<>>) + 1 -> Nat] /\ off[Len(<<>>) + 1] = 0
  BY <1>1, <1>2
<1>4. QueueHolds(<<>>, 0, 0, TRUE)
  BY <1>1, <1>2, <1>3 DEF QueueHolds
<1>5. PathHolds(<<>>, 0, 0, 0)
  BY <1>1, <1>2, <1>3 DEF PathHolds
<1>6. Holds(<<>>, 0, 0, TRUE)
  <2>1. Len(<<>>) = 0 - 0 /\ DOMAIN <<>> = {} /\ 0 <= 0
    OBVIOUS
  <2>. QED
    BY <2>1 DEF Holds
<1>. QED
  BY <1>4, <1>5, <1>6

LEMMA InitIInv == Init => IInv
<1>. SUFFICES ASSUME Init PROVE IInv
  OBVIOUS
<1>1. /\ plan \in Plans
      /\ rg = [e \in Ends |-> NewRouteGroup]
      /\ rt = [e \in Ends |-> {"fwd", "rvs"}]
      /\ net = [e \in Ends |-> <<>>]
      /\ tpUp = TRUE
      /\ pc = [e \in Ends |-> [t \in Threads |->
                  CASE t = "reader" /\ e \in plan.readers -> "check"
                    [] t = "pinger" /\ e \in plan.pingers -> "loop"
                    [] OTHER -> "idle"]]
      /\ initiator = [e \in Ends |-> [t \in Closers \cup {"router"} |-> FALSE]]
      /\ rdata = [e \in Ends |-> <<>>]
      /\ panicked = [e \in Ends |-> Runs]
      /\ pings = [e \in Ends |-> 0]
      /\ sent = [e \in Ends |-> 0]
      /\ got = [e \in Ends |-> <<>>]
      /\ farewell = [e \in Ends |-> NoFarewell]
  BY DEF Init
<1>2. /\ \A e \in Ends, t \in Threads : pc[e][t] \in {"check", "loop", "idle"}
      /\ \A e \in Ends, t \in Callers \cup {"writer"} : pc[e][t] = "idle"
      /\ pc \in [Ends -> [Threads -> Labels]]
  <2>1. Callers \cup {"writer"} \subseteq Threads
        /\ \A t \in Callers \cup {"writer"} : t # "reader" /\ t # "pinger"
    BY DEF Callers, Threads, Closers
  <2>2. ASSUME NEW e \in Ends, NEW t \in Threads
        PROVE  /\ pc[e][t] \in {"check", "loop", "idle"}
               /\ t # "reader" /\ t # "pinger" => pc[e][t] = "idle"
    BY <1>1
  <2>3. {"check", "loop", "idle"} \subseteq Labels
    BY DEF Labels
  <2>. QED
    BY <1>1, <2>1, <2>2, <2>3
<1>3. NewRouteGroup \in RouteGroups
  BY DEF NewRouteGroup, RouteGroups
<1>4. Types
  <2>1. [t \in Callers |-> FALSE] \in [Callers -> BOOLEAN]
    OBVIOUS
  <2>2. NoFarewell \in [sent : Nat, error : BOOLEAN, said : BOOLEAN]
    BY DEF NoFarewell
  <2>. QED
    BY <1>1, <1>2, <1>3, <2>1, <2>2 DEF Types, Callers
<1>5. ASSUME NEW e \in Ends
      PROVE  /\ rg[e] = NewRouteGroup /\ rt[e] = {"fwd", "rvs"} /\ net[e] = <<>>
             /\ rdata[e] = <<>> /\ got[e] = <<>> /\ sent[e] = 0
             /\ panicked[e] = Runs /\ farewell[e] = NoFarewell
             /\ \A t \in Callers : pc[e][t] = "idle" /\ ~initiator[e][t]
             /\ pc[e]["reader"] \in {"check", "loop", "idle"} /\ pc[e]["router"] = "idle"
             /\ pc[e]["writer"] = "idle"
  BY <1>1, <1>2 DEF Callers, Threads
<1>6. /\ ~NewRouteGroup.closeInitiated /\ ~NewRouteGroup.closed /\ ~NewRouteGroup.remoteClosed
      /\ ~NewRouteGroup.readChClosed /\ ~NewRouteGroup.closeError
      /\ NewRouteGroup.readCh = <<>> /\ NewRouteGroup.readBuf = <<>>
      /\ ~NoFarewell.said /\ ~NoFarewell.error /\ NoFarewell.sent = 0
  BY DEF NewRouteGroup, NoFarewell
<1>7. ASSUME NEW e \in Ends PROVE Whole(e) /\ Buffered(e)
  <2>1. 0 \in 0 .. MaxPackets /\ 0 = 0 * PacketBytes /\ Len(<<>>) <= ReadChBufSize
    BY ConstantsAssumption
  <2>. QED
    BY <1>5, <1>6, <2>1 DEF Whole, Buffered
<1>8. ASSUME NEW e \in Ends PROVE Steps(e) /\ Announced(e)
  <2>1. "idle" \notin {"once"} \cup OnceBody /\ "idle" \notin InClose \cup {"lock"}
        /\ "idle" \notin {"broadcast", "wait", "delRules", "once"} /\ Closers \subseteq Callers
    BY DEF OnceBody, InClose, Callers
  <2>. QED
    BY <1>5, <1>6, <2>1 DEF Steps, Announced
<1>9. ASSUME NEW e \in Ends PROVE TornByRouter(e) /\ Reading(e) /\ Handled(e)
  <2>1. "idle" \notin Closing
    BY DEF Closing, InClose, OnceBody
  <2>. QED
    BY <1>5, <1>6, <2>1 DEF TornByRouter, Reading, Handled
<1>10. ASSUME NEW e \in Ends PROVE Farewells(e)
  <2>1. "idle" \notin Closing /\ DOMAIN <<>> = {} /\ Peer(e) \in Ends
    BY Peers DEF Closing, InClose, OnceBody
  <2>2. ~CloseTaken(e)
    BY <1>5, <1>6, <2>1 DEF CloseTaken
  <2>. QED
    BY <1>5, <1>6, <2>1, <2>2 DEF Farewells
<1>11. ASSUME NEW e \in Ends PROVE Bytes(e)
  <2>1. Gapless(e) /\ ~CloseTaken(e) /\ Peer(e) \in Ends
    <3>1. "idle" \notin Closing
      BY DEF Closing, InClose, OnceBody
    <3>. QED
      BY <1>5, <1>6, <3>1, Peers DEF Gapless, CloseTaken
  <2>2. Holds(<<>>, 0, 0, TRUE) /\ <<>> \o <<>> = <<>>
    <3>1. \A s \in Seq(Nat) : s \o <<>> = s
      OBVIOUS
    <3>2. <<>> \in Seq(Nat)
      OBVIOUS
    <3>. QED
      BY <3>1, <3>2, NothingHeld
  <2>3. Stored(e, 0)
    <3>1. got[e] = <<>> /\ rg[e].readBuf = <<>> /\ rdata[e] = <<>> /\ rg[e].readCh = <<>>
      BY <1>5, <1>6
    <3>2. Holds(got[e], 0, 0, Gapless(e))
      BY <2>1, <2>2, <3>1
    <3>3. Holds(rg[e].readBuf \o rdata[e], 0, 0, Gapless(e))
      BY <2>1, <2>2, <3>1
    <3>4. QueueHolds(rg[e].readCh, 0, 0, Gapless(e))
      BY <2>1, <3>1, NothingHeld
    <3>. QED
      BY <3>2, <3>3, <3>4 DEF Stored
  <2>4. UnderWay(e, 0, 0, 0, 0)
    BY <1>5, <2>1, NothingHeld DEF UnderWay
  <2>5. farewell[Peer(e)].sent = 0
    BY <1>5, <1>6, <2>1
  <2>. QED
    BY <2>3, <2>4, <2>5 DEF Bytes
<1>. QED
  BY <1>4, <1>7, <1>8, <1>9, <1>10, <1>11 DEF IInv

-----------------------------------------------------------------------------
(* The theorems.                                                            *)

\* The fields of both RouteGroup values keep their types, a writer its bound and
\* readCh its capacity, which PushData's select respects.
THEOREM TypeCorrect == Spec => []TypeOK
<1>1. IInv => TypeOK
  <2>. SUFFICES ASSUME IInv PROVE TypeOK
    OBVIOUS
  <2>1. ASSUME NEW e \in Ends
        PROVE  /\ rg[e].mu \in {"free"} \cup Closers
               /\ rg[e].closeInitiated \in BOOLEAN /\ rg[e].closed \in BOOLEAN
               /\ rg[e].remoteClosed \in BOOLEAN /\ rg[e].readChClosed \in BOOLEAN
               /\ rg[e].closeError \in BOOLEAN
               /\ rg[e].once \in {"no", "running", "done"}
    <3>1. rg[e] \in RouteGroups
      BY DEF IInv, Types
    <3>. QED
      BY <3>1 DEF RouteGroups
  <2>2. ASSUME NEW e \in Ends PROVE sent[e] <= MaxPackets * PacketBytes
    <3>1. PICK n \in 0 .. MaxPackets : sent[e] = n * PacketBytes
      BY DEF IInv, Whole
    <3>2. n \in Nat /\ n <= MaxPackets /\ MaxPackets \in Nat /\ PacketBytes \in Nat \ {0}
      BY ConstantsAssumption
    <3>. QED
      BY <3>1, <3>2, Multiples
  <2>. QED
    BY <2>1, <2>2 DEF TypeOK, IInv, Types, Buffered
<1>. QED
  BY InitIInv, IInvKept, <1>1, PTL DEF Spec

\* A reader that finds readCh closed finds the group torn down (close, once.Do):
\* remoteClosed was closed and the forward rule deleted before.
THEOREM TornDownFirst == Spec => []TornDownBeforeEOF
<1>1. IInv => TornDownBeforeEOF
  BY DEF IInv, Steps, TornDownBeforeEOF
<1>. QED
  BY InitIInv, IInvKept, <1>1, PTL DEF Spec

\* If no plan has two callers of Close at an end, the threads that close a group
\* tear it down once: the application's Close and the router's close() race, and
\* neither closes the closed channel a second time (CloseClosed, CloseOnce).
THEOREM TornDown ==
  ASSUME \A p \in Plans : p.appClosers \cap p.gcClosers = {}
  PROVE  Spec => []TornDownInOrder
<1>. DEFINE One == \A e \in Ends : OneCaller(e)
<1>1. Init => One
  <2>. SUFFICES ASSUME Init, NEW e \in Ends PROVE OneCaller(e)
    OBVIOUS
  <2>1. rg[e] = NewRouteGroup /\ panicked[e] = Runs
    BY DEF Init
  <2>2. ~NewRouteGroup.closeInitiated /\ ~NewRouteGroup.closed
    BY DEF NewRouteGroup
  <2>3. pc[e]["app"] = "idle" /\ pc[e]["gc"] = "idle"
    BY DEF Init, Threads, Closers
  <2>4. Runs # CloseOfClosed
    BY DEF Runs, CloseOfClosed
  <2>. QED
    BY <2>1, <2>2, <2>3, <2>4 DEF OneCaller
<1>2. IInv /\ One /\ [Next /\ UNCHANGED plan]_<<vars, plan>> => One'
  <2>. SUFFICES ASSUME IInv, One, [Next /\ UNCHANGED plan]_<<vars, plan>>, NEW e \in Ends
                PROVE  OneCaller(e)'
    OBVIOUS
  <2>1. Types /\ Closed(e) /\ OneCaller(e)
    BY DEF IInv, Closed
  <2>2. e \notin plan.appClosers \cap plan.gcClosers
    BY <2>1 DEF Types
  <2>3. plan' = plan /\ (EndStep(e) \/ UNCHANGED Own(e))
    BY <2>1, OwnSteps
  <2>4. CASE EndStep(e)
    BY <2>1, <2>2, <2>3, <2>4, OneCallerKept
  <2>5. CASE UNCHANGED Own(e)
    BY <2>1, <2>3, <2>5 DEF OneCaller, Own
  <2>. QED
    BY <2>3, <2>4, <2>5
<1>3. IInv /\ One => TornDownInOrder
  BY DEF IInv, Steps, OneCaller, TornDownInOrder, TornDownBeforeEOF, ClosedOnce
<1>. HIDE DEF One
<1>. QED
  BY InitIInv, IInvKept, <1>1, <1>2, <1>3, PTL DEF Spec

\* A reader at the end of a path the remote closed.
LEMMA AtEOF ==
  ASSUME IInv, NEW e \in Ends, pc[e]["reader"] = "EOF", ~rg[e].closeInitiated, tpUp
  PROVE  /\ farewell[Peer(e)].said
         /\ farewell[Peer(e)].error => rg[e].closeError
         /\ Len(got[e]) >= farewell[Peer(e)].sent
<1>1. /\ Types /\ Steps(e) /\ Reading(e) /\ Farewells(e) /\ Bytes(e)
  BY DEF IInv
<1>2. /\ rg[e].readCh = <<>> /\ rg[e].readBuf = <<>> /\ rdata[e] = <<>> /\ CloseTaken(e)
  BY <1>1 DEF Reading, Steps, CloseTaken
<1>3. farewell[Peer(e)].said /\ (farewell[Peer(e)].error => rg[e].closeError)
  BY <1>1, <1>2 DEF Farewells
<1>4. PICK x, y, z \in Nat : Stored(e, x) /\ UnderWay(e, x, y, z, farewell[Peer(e)].sent)
  BY <1>1 DEF Bytes
<1>5. farewell[Peer(e)].sent <= x
  BY <1>2, <1>4 DEF UnderWay
<1>6. PICK v, w \in Nat : /\ Holds(got[e], 0, v, TRUE)
                          /\ Holds(rg[e].readBuf \o rdata[e], v, w, TRUE)
                          /\ QueueHolds(rg[e].readCh, w, x, TRUE)
  <2>1. Gapless(e) = TRUE
    BY DEF Gapless
  <2>. QED
    BY <1>4, <2>1 DEF Stored
<1>7. w = x
  BY <1>2, <1>6, QueueEmpty
<1>8. v = w
  <2>1. <<>> \in Seq(Nat) /\ \A s \in Seq(Nat) : s \o <<>> = s
    OBVIOUS
  <2>2. Holds(<<>>, v, w, TRUE)
    BY <1>2, <1>6, <2>1
  <2>. QED
    BY <2>2, HoldsNothing
<1>9. Len(got[e]) = v
  BY <1>6 DEF Holds
<1>10. farewell[Peer(e)].sent \in Nat
  BY <1>1, Peers DEF Types
<1>. QED
  BY <1>3, <1>5, <1>7, <1>8, <1>9, <1>10

\* The Error packet goes before the Close packet and is handled before it, so that
\* this end knows of the remote's error when its Read returns io.EOF
\* (broadcastClosePackets, handleErrorPacket).
THEOREM ErrorKnown == Spec => []ErrorKnownAtEOF
<1>1. IInv => ErrorKnownAtEOF
  BY AtEOF DEF ErrorKnownAtEOF
<1>. QED
  BY InitIInv, IInvKept, <1>1, PTL DEF Spec

\* Read returns what the remote wrote, in order, without a gap until this end is
\* closed, and all of it before io.EOF (read, BufRead, Write, handleDataPacket).
THEOREM ReadComplete == Spec => []ReadIsComplete
<1>1. IInv => ReadIsComplete
  <2>. SUFFICES ASSUME IInv PROVE ReadIsComplete
    OBVIOUS
  <2>1. NothingLostAtEOF
    BY AtEOF DEF NothingLostAtEOF
  <2>2. ASSUME NEW e \in Ends, NEW i \in DOMAIN got[e]
        PROVE  /\ i > 1 => got[e][i - 1] < got[e][i]
               /\ ~rg[e].closed => got[e][i] = i
    <3>1. got[e] \in Seq(Nat) /\ Bytes(e)
      BY DEF IInv, Types
    <3>2. PICK y \in Nat : Holds(got[e], 0, y, Gapless(e))
      BY <3>1 DEF Bytes, Stored
    <3>3. i > 1 => i - 1 \in DOMAIN got[e] /\ i - 1 < i
      BY <3>1
    <3>4. i > 1 => got[e][i - 1] < got[e][i]
      BY <3>2, <3>3 DEF Holds
    <3>5. ~rg[e].closed => got[e][i] = 0 + i
      BY <3>2 DEF Holds, Gapless
    <3>6. 0 + i = i
      BY <3>1
    <3>. QED
      BY <3>4, <3>5, <3>6
  <2>3. ReadInOrder
    BY <2>2 DEF ReadInOrder
  <2>. QED
    BY <2>1, <2>3 DEF ReadIsComplete
<1>. QED
  BY InitIInv, IInvKept, <1>1, PTL DEF Spec
=============================================================================
