----------------------------- MODULE RouteGroup -----------------------------
(***************************************************************************)
(* The two ends of one route group (pkg/router/route_group.go) and the     *)
(* packets between them, with the part of the router's packet handlers     *)
(* that a packet for a consume rule runs through (pkg/router/router.go).   *)
(*                                                                         *)
(* Each end is a visor with five threads that share the RouteGroup:        *)
(*                                                                         *)
(*   app     calls Close once (SkywireConn guards it with a sync.Once);    *)
(*   gc      calls Close because the consume rule was removed              *)
(*           (removeRouteGroupOfRule, from rulesGC or DelRules);           *)
(*   router  the single goroutine of serveTransportManager, which handles  *)
(*           the incoming packets one at a time;                           *)
(*   reader  calls Read until it returns an error;                         *)
(*   writer  calls Write.                                                  *)
(*                                                                         *)
(* A step of a thread is the code between two accesses to shared state.    *)
(* The route between the ends is a FIFO path as long as the transport is   *)
(* up.  A panic in any thread ends the visor's process, so it stops every  *)
(* thread of its end.  A route group has exactly one forward rule, one     *)
(* consume rule and one transport: appendRules is called once per group.   *)
(***************************************************************************)
EXTENDS Integers, Sequences

CONSTANTS
    A, B,              \* the two ends
    Plans,             \* which threads take part, and whether the transport may fail
    MaxPackets,        \* bound on the data packets a writer sends
    PacketBytes,       \* payload bytes of a data packet
    ReadBytes,         \* len(p) of the reader's Read calls
    ReadChBufSize,     \* capacity of readCh
    MaxPings           \* bound on the pings an end sends

ASSUME ConstantsAssumption ==
    /\ A # B
    /\ Plans \subseteq
          [writers : SUBSET {A, B}, readers : SUBSET {A, B}, pingers : SUBSET {A, B},
           appClosers : SUBSET {A, B}, errorSetters : SUBSET {A, B}, gcClosers : SUBSET {A, B},
           mayFail : BOOLEAN]
    /\ MaxPackets \in Nat /\ MaxPings \in Nat
    /\ PacketBytes \in Nat \ {0} /\ ReadBytes \in Nat \ {0} /\ ReadChBufSize \in Nat \ {0}

Ends == {A, B}
Peer(e) == IF e = A THEN B ELSE A

Closers == {"app", "gc"}
Threads == Closers \cup {"router", "reader", "writer", "pinger"}

(***************************************************************************)
(* A plan bounds a behaviour: writers, readers and pingers are the ends    *)
(* whose application writes or reads and whose ping loop is represented;   *)
(* appClosers the ends whose application may call Close, errorSetters      *)
(* those of them whose networker calls SetError before, and gcClosers the  *)
(* ends where the consume rule may be removed; mayFail says whether the    *)
(* transport may go down.                                                  *)
(***************************************************************************)
VARIABLES
    plan,      \* the plan of this behaviour; no step changes it
    rg,        \* the RouteGroup of each end
    rt,        \* per end, which of its two rules are in the routing table
    net,       \* packets under way to each end; the router handles the head
    tpUp,      \* the transport between the ends works
    pc,        \* control of each thread
    initiator, \* the local closeInitiator of a thread inside close()
    rdata,     \* the payload a reader has received and not yet stored
    panicked,  \* why a thread of this end panicked, if one did
    pings,     \* number of pings sent by each end
    sent,      \* number of bytes each end wrote to the transport
    got,       \* bytes each end's Read calls returned
    farewell   \* what an end's first Close packet followed: bytes sent, error set

io == <<rdata, pings, sent, got>>
vars == <<rg, rt, net, tpUp, pc, initiator, panicked, io, farewell>>

-----------------------------------------------------------------------------
\* The fields of RouteGroup that take part in closing, reading and writing.
\* remoteClosed and closed are channels that are only ever closed.
NewRouteGroup ==
    [mu |-> "free", closeInitiated |-> FALSE, closed |-> FALSE,
     remoteClosed |-> FALSE, readCh |-> <<>>, readChClosed |-> FALSE,
     readBuf |-> <<>>, closeDone |-> 0, once |-> "no", closeError |-> FALSE]

\* The runtime errors that end a visor.
Runs == "runs"
NegativeCounter == "negative WaitGroup counter"
CloseOfClosed == "close of closed channel"
SendOnClosed == "send on closed channel"

NoFarewell == [sent |-> 0, error |-> FALSE, said |-> FALSE]

Init ==
    /\ plan \in Plans
    /\ rg = [e \in Ends |-> NewRouteGroup]
    /\ rt = [e \in Ends |-> {"fwd", "rvs"}]
    /\ net = [e \in Ends |-> <<>>]
    /\ tpUp = TRUE
    /\ pc = [e \in Ends |-> [t \in Threads |->
                CASE t = "reader" /\ e \in plan.readers -> "check"
                  [] t = "pinger" /\ e \in plan.pingers -> "loop"
                  [] OTHER -> "idle"]]
    /\ initiator = [e \in Ends |-> [t \in Closers \cup {"router"} |-> FALSE]]
    /\ rdata = [e \in Ends |-> <<>>]
    /\ panicked = [e \in Ends |-> Runs]
    /\ pings = [e \in Ends |-> 0]
    /\ sent = [e \in Ends |-> 0]
    /\ got = [e \in Ends |-> <<>>]
    /\ farewell = [e \in Ends |-> NoFarewell]

\* Thread t of end e is at label l and its process runs.
At(e, t, l) == panicked[e] = Runs /\ pc[e][t] = l
Goto(e, t, l) == pc' = [pc EXCEPT ![e][t] = l]

\* writePacket: the packets go out in order if the transport works.
Sent(e, packets) ==
    IF tpUp THEN [net EXCEPT ![Peer(e)] = @ \o packets] ELSE net

-----------------------------------------------------------------------------
(* Close() and close(), run by a closer or, for a Close packet, by the router. *)

\* Application code calls Close, the networker calls it after a SetError, or the
\* consume rule is removed and the route group of the rule is closed.
CallClose(e, t) ==
    /\ At(e, t, "idle")
    /\ \/ /\ t = "app" /\ e \in plan.appClosers
          /\ rg' = [rg EXCEPT ![e].closeError = @ \/ e \in plan.errorSetters]
          /\ UNCHANGED rt
       \/ /\ t = "gc" /\ e \in plan.gcClosers /\ "rvs" \in rt[e]
          /\ rt' = [rt EXCEPT ![e] = @ \ {"rvs"}]
          /\ UNCHANGED rg
    /\ Goto(e, t, "isClosed")
    /\ UNCHANGED <<net, tpUp, initiator, panicked, io, farewell>>

\* Close: the two early returns.
CloseIsClosed(e, t) ==
    /\ At(e, t, "isClosed")
    /\ Goto(e, t, IF rg[e].closed THEN "returned" ELSE "isRemoteClosed")
    /\ UNCHANGED <<rg, rt, net, tpUp, initiator, panicked, io, farewell>>

CloseIsRemoteClosed(e, t) ==
    /\ At(e, t, "isRemoteClosed")
    /\ Goto(e, t, IF rg[e].remoteClosed THEN "closeClosed" ELSE "initiate")
    /\ UNCHANGED <<rg, rt, net, tpUp, initiator, panicked, io, farewell>>

\* Close after the remote closed: close(rg.closed), which panics the second time.
CloseClosed(e, t) ==
    /\ At(e, t, "closeClosed")
    /\ panicked' = [panicked EXCEPT ![e] = IF rg[e].closed THEN CloseOfClosed ELSE @]
    /\ rg' = [rg EXCEPT ![e].closed = TRUE]
    /\ Goto(e, t, "returned")
    /\ UNCHANGED <<rt, net, tpUp, initiator, io, farewell>>

\* Close: announce that this end initiated the close, before taking the mutex.
CloseInitiate(e, t) ==
    /\ At(e, t, "initiate")
    /\ rg' = [rg EXCEPT ![e].closeInitiated = TRUE]
    /\ Goto(e, t, "lock")
    /\ UNCHANGED <<rt, net, tpUp, initiator, panicked, io, farewell>>

CloseLock(e, t) ==
    /\ At(e, t, "lock")
    /\ rg[e].mu = "free"
    /\ rg' = [rg EXCEPT ![e].mu = t]
    /\ Goto(e, t, "close")
    /\ UNCHANGED <<rt, net, tpUp, initiator, panicked, io, farewell>>

\* Where thread t of end e goes when close() returns, with rg[e] = g: Close
\* unlocks the mutex; the router goes on with the end of its handler.
ReturnFromClose(e, t, g) ==
    /\ rg' = [rg EXCEPT ![e] = IF t \in Closers THEN [g EXCEPT !.mu = "free"] ELSE g]
    /\ Goto(e, t, IF t \in Closers THEN "returned" ELSE "handled")

\* close: the check, the reading of closeInitiated and closeDone.Add.
CloseEnter(e, t) ==
    /\ At(e, t, "close")
    /\ IF rg[e].closed
         THEN ReturnFromClose(e, t, rg[e]) /\ UNCHANGED initiator
         ELSE /\ initiator' = [initiator EXCEPT ![e][t] = rg[e].closeInitiated]
              /\ rg' = [rg EXCEPT ![e].closeDone = IF rg[e].closeInitiated THEN @ + 1 ELSE @]
              /\ Goto(e, t, "broadcast")
    /\ UNCHANGED <<rt, net, tpUp, panicked, io, farewell>>

\* Mutants of ClosePackets: the error after the close, and no packet for the
\* request.
ClosePacketsErrorLast(e) ==
    <<[type |-> "Close"]>>
        \o (IF rg[e].closeError /\ rg[e].closeInitiated THEN <<[type |-> "Error"]>> ELSE <<>>)

ClosePacketsOnlyResponse(e) == IF rg[e].closeInitiated THEN <<>> ELSE <<[type |-> "Close"]>>

\* broadcastClosePackets: sendError, when this end initiated, then the Close packet.
ClosePackets(e) ==
    (IF rg[e].closeError /\ rg[e].closeInitiated THEN <<[type |-> "Error"]>> ELSE <<>>)
        \o <<[type |-> "Close"]>>

BroadcastClosePackets(e, t) ==
    /\ At(e, t, "broadcast")
    /\ net' = Sent(e, ClosePackets(e))
    /\ farewell' = [farewell EXCEPT ![e] =
          IF @.said THEN @ ELSE [sent |-> sent[e], error |-> rg[e].closeError, said |-> TRUE]]
    /\ Goto(e, t, IF initiator[e][t] THEN "wait" ELSE "delRules")
    /\ UNCHANGED <<rg, rt, tpUp, initiator, panicked, io>>

\* waitForCloseRouteGroup: all responses came, or closeRoutineTimeout passed.
CloseDoneWaited(e, t) ==
    /\ At(e, t, "wait")
    /\ rg[e].closeDone = 0
    /\ Goto(e, t, "delRules")
    /\ UNCHANGED <<rg, rt, net, tpUp, initiator, panicked, io, farewell>>

\* Mutant of CloseTimeout: wait for the responses only.
CloseNoTimeout(e, t) == FALSE /\ UNCHANGED vars

CloseTimeout(e, t) ==
    /\ At(e, t, "wait")
    /\ Goto(e, t, "delRules")
    /\ UNCHANGED <<rg, rt, net, tpUp, initiator, panicked, io, farewell>>

\* Mutants of CloseDelRules: only the thread that answers, or only the one that
\* initiates, removes the rule.
CloseDelRulesResponder(e, t) ==
    /\ At(e, t, "delRules")
    /\ rt' = [rt EXCEPT ![e] = IF initiator[e][t] THEN @ ELSE @ \ {"fwd"}]
    /\ Goto(e, t, "once")
    /\ UNCHANGED <<rg, net, tpUp, initiator, panicked, io, farewell>>

CloseDelRulesInitiator(e, t) ==
    /\ At(e, t, "delRules")
    /\ rt' = [rt EXCEPT ![e] = IF initiator[e][t] THEN @ \ {"fwd"} ELSE @]
    /\ Goto(e, t, "once")
    /\ UNCHANGED <<rg, net, tpUp, initiator, panicked, io, farewell>>

\* close: the forward rules leave the routing table.
CloseDelRules(e, t) ==
    /\ At(e, t, "delRules")
    /\ rt' = [rt EXCEPT ![e] = @ \ {"fwd"}]
    /\ Goto(e, t, "once")
    /\ UNCHANGED <<rg, net, tpUp, initiator, panicked, io, farewell>>

\* Mutant of CloseOnce: closed is closed by every thread that tears down.
CloseOnceAlways(e, t) ==
    /\ At(e, t, "once")
    /\ \/ /\ rg[e].once = "no"
          /\ panicked' = [panicked EXCEPT ![e] = IF rg[e].closed THEN CloseOfClosed ELSE @]
          /\ rg' = [rg EXCEPT ![e].once = "running", ![e].closed = TRUE]
          /\ Goto(e, t, "onceRemoteClosed")
       \/ /\ rg[e].once = "done"
          /\ ReturnFromClose(e, t, rg[e])
          /\ UNCHANGED panicked
    /\ UNCHANGED <<rt, net, tpUp, initiator, io, farewell>>

\* close: once.Do, whose body runs once while later callers wait for its end.
\* Its three statements are three steps; closed is closed by an initiator only.
CloseOnce(e, t) ==
    /\ At(e, t, "once")
    /\ \/ /\ rg[e].once = "no"
          /\ panicked' = [panicked EXCEPT ![e] =
                IF initiator[e][t] /\ rg[e].closed THEN CloseOfClosed ELSE @]
          /\ rg' = [rg EXCEPT ![e].once = "running", ![e].closed = @ \/ initiator[e][t]]
          /\ Goto(e, t, "onceRemoteClosed")
       \/ /\ rg[e].once = "done"
          /\ ReturnFromClose(e, t, rg[e])
          /\ UNCHANGED panicked
    /\ UNCHANGED <<rt, net, tpUp, initiator, io, farewell>>

OnceRemoteClosed(e, t) ==
    /\ At(e, t, "onceRemoteClosed")
    /\ rg' = [rg EXCEPT ![e].remoteClosed = TRUE]
    /\ Goto(e, t, "onceReadCh")
    /\ UNCHANGED <<rt, net, tpUp, initiator, panicked, io, farewell>>

OnceReadCh(e, t) ==
    /\ At(e, t, "onceReadCh")
    /\ ReturnFromClose(e, t, [rg[e] EXCEPT !.readChClosed = TRUE, !.once = "done"])
    /\ UNCHANGED <<rt, net, tpUp, initiator, panicked, io, farewell>>

CloseStep(e, t) ==
    \/ CloseEnter(e, t) \/ BroadcastClosePackets(e, t) \/ CloseDoneWaited(e, t)
    \/ CloseTimeout(e, t) \/ CloseDelRules(e, t) \/ CloseOnce(e, t)
    \/ OnceRemoteClosed(e, t) \/ OnceReadCh(e, t)

Close(e, t) ==
    \/ CloseIsClosed(e, t) \/ CloseIsRemoteClosed(e, t) \/ CloseClosed(e, t)
    \/ CloseInitiate(e, t) \/ CloseLock(e, t) \/ CloseStep(e, t)

-----------------------------------------------------------------------------
(* The router's handlers and RouteGroup.handlePacket.                       *)

Packet(e) == Head(net[e])
Received(e, type) == net[e] # <<>> /\ Packet(e).type = type

\* The router is done with the packet at the head.
Pop(e) == net' = [net EXCEPT ![e] = Tail(@)]

\* GetRule fails: the consume rule is gone and the packet is dropped.
HandleUnknownRule(e) ==
    /\ At(e, "router", "idle")
    /\ net[e] # <<>>
    /\ "rvs" \notin rt[e]
    /\ Pop(e)
    /\ UNCHANGED <<rg, rt, tpUp, pc, initiator, panicked, io, farewell>>

\* router.handleClosePacket up to the call of handlePacket.
HandleClosePacket(e) ==
    /\ At(e, "router", "idle")
    /\ Received(e, "Close") /\ "rvs" \in rt[e]
    /\ Goto(e, "router", IF rg[e].closed THEN "handled" ELSE "handleClose")
    /\ UNCHANGED <<rg, rt, net, tpUp, initiator, panicked, io, farewell>>

\* RouteGroup.handleClosePacket: a response if this end initiated the close,
\* else the remote's request, answered by close() without the mutex.
\* A WaitGroup that would become negative panics.
RGHandleClosePacket(e) ==
    /\ At(e, "router", "handleClose")
    /\ IF rg[e].closeInitiated
         THEN /\ rg' = [rg EXCEPT ![e].closeDone = @ - 1]
              /\ panicked' = [panicked EXCEPT ![e] = IF rg[e].closeDone = 0 THEN NegativeCounter ELSE @]
              /\ Goto(e, "router", "handled")
         ELSE Goto(e, "router", "close") /\ UNCHANGED <<rg, panicked>>
    /\ UNCHANGED <<rt, net, tpUp, initiator, io, farewell>>

\* Mutant of ClosePacketHandled: the consume rule is left to the collector.
ClosePacketHandledKeepsRule(e) ==
    /\ At(e, "router", "handled")
    /\ Pop(e)
    /\ Goto(e, "router", "idle")
    /\ UNCHANGED <<rg, rt, tpUp, initiator, panicked, io, farewell>>

\* router.handleClosePacket returns: its deferred calls remove the noise route
\* group and delete the consume rule.
ClosePacketHandled(e) ==
    /\ At(e, "router", "handled")
    /\ rt' = [rt EXCEPT ![e] = @ \ {"rvs"}]
    /\ Pop(e)
    /\ Goto(e, "router", "idle")
    /\ UNCHANGED <<rg, tpUp, initiator, panicked, io, farewell>>

\* RouteGroup.handleDataPacket: the check ...
HandleDataPacket(e) ==
    /\ At(e, "router", "idle")
    /\ Received(e, "Data") /\ "rvs" \in rt[e]
    /\ IF rg[e].remoteClosed
         THEN Pop(e) /\ UNCHANGED pc
         ELSE Goto(e, "router", "push") /\ UNCHANGED net
    /\ UNCHANGED <<rg, rt, tpUp, initiator, panicked, io, farewell>>

\* Mutants of PushData: a full readCh takes more, or drops the packet.
PushDataUnbounded(e) ==
    /\ At(e, "router", "push")
    /\ rg' = [rg EXCEPT ![e].readCh = Append(@, Packet(e).bytes)]
    /\ Pop(e)
    /\ Goto(e, "router", "idle")
    /\ UNCHANGED <<rt, tpUp, initiator, panicked, io, farewell>>

PushDataOrDrop(e) ==
    /\ At(e, "router", "push")
    /\ rg' = [rg EXCEPT ![e].readCh =
          IF Len(@) < ReadChBufSize /\ ~rg[e].readChClosed THEN Append(@, Packet(e).bytes) ELSE @]
    /\ Pop(e)
    /\ Goto(e, "router", "idle")
    /\ UNCHANGED <<rt, tpUp, initiator, panicked, io, farewell>>

\* ... and the select, which takes any ready case: a send on a closed channel is
\* ready and panics, a send on a full one waits.
PushData(e) ==
    /\ At(e, "router", "push")
    /\ \/ rg[e].closed /\ UNCHANGED <<rg, panicked>>
       \/ /\ rg[e].readChClosed
          /\ panicked' = [panicked EXCEPT ![e] = SendOnClosed]
          /\ UNCHANGED rg
       \/ /\ ~rg[e].readChClosed
          /\ Len(rg[e].readCh) < ReadChBufSize
          /\ rg' = [rg EXCEPT ![e].readCh = Append(@, Packet(e).bytes)]
          /\ UNCHANGED panicked
    /\ Pop(e)
    /\ Goto(e, "router", "idle")
    /\ UNCHANGED <<rt, tpUp, initiator, io, farewell>>

HandleErrorPacket(e) ==
    /\ At(e, "router", "idle")
    /\ Received(e, "Error") /\ "rvs" \in rt[e]
    /\ rg' = [rg EXCEPT ![e].closeError = @ \/ ~rg[e].remoteClosed]
    /\ Pop(e)
    /\ UNCHANGED <<rt, tpUp, pc, initiator, panicked, io, farewell>>

\* handlePingPacket answers with sendPong, which needs the mutex.
HandlePingPacket(e) ==
    /\ At(e, "router", "idle")
    /\ Received(e, "Ping") /\ "rvs" \in rt[e]
    /\ Goto(e, "router", "pong")
    /\ UNCHANGED <<rg, rt, net, tpUp, initiator, panicked, io, farewell>>

SendPong(e) ==
    /\ At(e, "router", "pong")
    /\ rg[e].mu = "free"
    /\ net' = [Sent(e, <<[type |-> "Pong"]>>) EXCEPT ![e] = Tail(@)]
    /\ Goto(e, "router", "idle")
    /\ UNCHANGED <<rg, rt, tpUp, initiator, panicked, io, farewell>>

HandlePongPacket(e) ==
    /\ At(e, "router", "idle")
    /\ Received(e, "Pong") /\ "rvs" \in rt[e]
    /\ Pop(e)
    /\ UNCHANGED <<rg, rt, tpUp, pc, initiator, panicked, io, farewell>>

Router(e) ==
    \/ HandleUnknownRule(e) \/ HandleClosePacket(e) \/ RGHandleClosePacket(e)
    \/ ClosePacketHandled(e) \/ HandleDataPacket(e) \/ PushData(e)
    \/ HandleErrorPacket(e) \/ HandlePingPacket(e) \/ SendPong(e) \/ HandlePongPacket(e)
    \/ CloseStep(e, "router")

-----------------------------------------------------------------------------
(* Read, Write and the ping loop.                                           *)

ReadIsClosed(e) ==
    /\ At(e, "reader", "check")
    /\ Goto(e, "reader", IF rg[e].closed THEN "error" ELSE "buf")
    /\ UNCHANGED <<rg, rt, net, tpUp, initiator, panicked, io, farewell>>

\* The first n elements of a sequence and the others.
FirstN(s, n) == SubSeq(s, 1, IF n < Len(s) THEN n ELSE Len(s))
AfterN(s, n) == SubSeq(s, n + 1, Len(s))

\* read: data left over from an earlier packet goes first.
ReadBuf(e) ==
    /\ At(e, "reader", "buf")
    /\ rg[e].mu = "free"
    /\ IF rg[e].readBuf # <<>>
         THEN /\ got' = [got EXCEPT ![e] = @ \o FirstN(rg[e].readBuf, ReadBytes)]
              /\ rg' = [rg EXCEPT ![e].readBuf = AfterN(@, ReadBytes)]
              /\ Goto(e, "reader", "check")
         ELSE Goto(e, "reader", "select") /\ UNCHANGED <<rg, got>>
    /\ UNCHANGED <<rt, net, tpUp, initiator, rdata, panicked, pings, sent, farewell>>

\* read: the select; the read deadline is not set.
ReadSelect(e) ==
    /\ At(e, "reader", "select")
    /\ \/ /\ rg[e].closed
          /\ Goto(e, "reader", "error") /\ UNCHANGED <<rg, rdata>>
       \/ /\ rg[e].readCh # <<>>
          /\ rdata' = [rdata EXCEPT ![e] = Head(rg[e].readCh)]
          /\ rg' = [rg EXCEPT ![e].readCh = Tail(@)]
          /\ Goto(e, "reader", "bufRead")
       \/ /\ rg[e].readCh = <<>> /\ rg[e].readChClosed
          /\ Goto(e, "reader", "EOF") /\ UNCHANGED <<rg, rdata>>
    /\ UNCHANGED <<rt, net, tpUp, initiator, panicked, pings, sent, got, farewell>>

\* Mutant of BufRead: what does not fit is forgotten.
BufReadForget(e) ==
    /\ At(e, "reader", "bufRead")
    /\ rg[e].mu = "free"
    /\ got' = [got EXCEPT ![e] = @ \o FirstN(rdata[e], ReadBytes)]
    /\ rdata' = [rdata EXCEPT ![e] = <<>>]
    /\ Goto(e, "reader", "check")
    /\ UNCHANGED <<rg, rt, net, tpUp, initiator, panicked, pings, sent, farewell>>

\* ioutil.BufRead: what does not fit into p is kept for the next Read.
BufRead(e) ==
    /\ At(e, "reader", "bufRead")
    /\ rg[e].mu = "free"
    /\ got' = [got EXCEPT ![e] = @ \o FirstN(rdata[e], ReadBytes)]
    /\ rg' = [rg EXCEPT ![e].readBuf = @ \o AfterN(rdata[e], ReadBytes)]
    /\ rdata' = [rdata EXCEPT ![e] = <<>>]
    /\ Goto(e, "reader", "check")
    /\ UNCHANGED <<rt, net, tpUp, initiator, panicked, pings, sent, farewell>>

Read(e) == ReadIsClosed(e) \/ ReadBuf(e) \/ ReadSelect(e) \/ BufRead(e)

\* Write: the check, then the packet; the mutex is free when rule and tp are read.
WriteIsClosed(e) ==
    /\ At(e, "writer", "idle")
    /\ e \in plan.writers
    /\ sent[e] < MaxPackets * PacketBytes
    /\ Goto(e, "writer", IF rg[e].closed THEN "error" ELSE "write")
    /\ UNCHANGED <<rg, rt, net, tpUp, initiator, panicked, io, farewell>>

Write(e) ==
    /\ At(e, "writer", "write")
    /\ rg[e].mu = "free"
    /\ net' = Sent(e, <<[type |-> "Data", bytes |-> [i \in 1 .. PacketBytes |-> sent[e] + i]]>>)
    /\ sent' = [sent EXCEPT ![e] = IF tpUp THEN @ + PacketBytes ELSE @]
    /\ Goto(e, "writer", IF tpUp THEN "idle" ELSE "error")
    /\ UNCHANGED <<rg, rt, tpUp, initiator, rdata, panicked, pings, got, farewell>>

\* servicePacketLoop for pings: a tick, or the end of the loop.
SendPing(e) ==
    /\ At(e, "pinger", "loop")
    /\ pings[e] < MaxPings
    /\ rg[e].mu = "free"
    /\ pings' = [pings EXCEPT ![e] = @ + 1]
    /\ net' = Sent(e, <<[type |-> "Ping"]>>)
    /\ UNCHANGED <<rg, rt, tpUp, pc, initiator, rdata, panicked, sent, got, farewell>>

ServiceLoopEnds(e) ==
    /\ At(e, "pinger", "loop")
    /\ rg[e].remoteClosed
    /\ Goto(e, "pinger", "ended")
    /\ UNCHANGED <<rg, rt, net, tpUp, initiator, panicked, io, farewell>>

\* The transport breaks: what is under way is lost from some packet on.  The
\* packet a router is handling has already been read.
TransportFails ==
    /\ plan.mayFail /\ tpUp
    /\ tpUp' = FALSE
    /\ \E n \in [Ends -> 0 .. Len(net[A]) + Len(net[B])] :
          /\ \A e \in Ends : n[e] <= Len(net[e]) /\ (pc[e]["router"] # "idle" => n[e] >= 1)
          /\ net' = [e \in Ends |-> SubSeq(net[e], 1, n[e])]
    /\ UNCHANGED <<rg, rt, pc, initiator, panicked, io, farewell>>

Next ==
    \/ \E e \in Ends :
          \/ \E t \in Closers : CallClose(e, t) \/ Close(e, t)
          \/ Router(e)
          \/ Read(e)
          \/ WriteIsClosed(e) \/ Write(e)
          \/ SendPing(e) \/ ServiceLoopEnds(e)
    \/ TransportFails

Spec == Init /\ [][Next /\ UNCHANGED plan]_<<vars, plan>>

\* The goroutines that may not stop: Close calls, the router, readers, ping loops.
Progress ==
    \E e \in Ends :
        (\E t \in Closers : Close(e, t)) \/ Router(e) \/ Read(e) \/ ServiceLoopEnds(e)

\* Goroutines run until they wait, the close timeout fires, and the application
\* reads until Read fails.  Nothing makes anybody write, ping or close.  No thread
\* can go on for ever (packets, pings and calls are bounded), so that some
\* goroutine runs as long as one can is enough for all of them.
LiveSpec == Spec /\ WF_vars(Progress)

-----------------------------------------------------------------------------
\* Every field of the two RouteGroup values keeps its type, readCh its capacity,
\* and a writer sends no more than its bound.
TypeOK ==
    /\ plan \in Plans
    /\ \A e \in Ends :
          /\ rg[e].mu \in {"free"} \cup Closers
          /\ rg[e].closeInitiated \in BOOLEAN /\ rg[e].closed \in BOOLEAN
          /\ rg[e].remoteClosed \in BOOLEAN /\ rg[e].readChClosed \in BOOLEAN
          /\ rg[e].closeError \in BOOLEAN
          /\ rg[e].once \in {"no", "running", "done"}
          /\ Len(rg[e].readCh) <= ReadChBufSize
          /\ rt[e] \subseteq {"fwd", "rvs"}
          /\ sent[e] <= MaxPackets * PacketBytes
    /\ tpUp \in BOOLEAN
    /\ panicked \in [Ends -> {Runs, NegativeCounter, CloseOfClosed, SendOnClosed}]

\* A reader that finds readCh closed finds the group torn down: the forward rule
\* has left the routing table and remoteClosed was closed before, so that the
\* service loops stop and later data packets are dropped.  The router closes
\* without the mutex that Close holds, so two threads may be in close().
TornDownBeforeEOF ==
    \A e \in Ends : rg[e].readChClosed => rg[e].remoteClosed /\ "fwd" \notin rt[e]

\* The bytes that Read returns are the bytes the remote wrote, in order and, until
\* this end's closed channel is closed, without a gap: across packets larger than
\* the reader's buffer, the overflow buffer, a full readCh, pings and the remote's
\* close.  Once closed, a Read already under way may return a later packet after
\* the select in handleDataPacket dropped one.
ReadInOrder ==
    \A e \in Ends : \A i \in DOMAIN got[e] :
        /\ i > 1 => got[e][i - 1] < got[e][i]
        /\ ~rg[e].closed => got[e][i] = i

\* When the remote closes and this end does not, Read returns io.EOF only after
\* it returned every byte the remote wrote before its Close packet.
NothingLostAtEOF ==
    \A e \in Ends :
        pc[e]["reader"] = "EOF" /\ ~rg[e].closeInitiated /\ tpUp =>
            /\ farewell[Peer(e)].said
            /\ Len(got[e]) >= farewell[Peer(e)].sent

\* When the remote set an error and closed, this end knows of the error when its
\* Read returns io.EOF: the Error packet goes before the Close packet.
ErrorKnownAtEOF ==
    \A e \in Ends :
        pc[e]["reader"] = "EOF" /\ ~rg[e].closeInitiated /\ tpUp /\ farewell[Peer(e)].error =>
            rg[e].closeError

\* The closed channel is closed once, although the application's Close and the
\* router's close() race, as long as only the application calls Close.
ClosedOnce == \A e \in Ends : panicked[e] # CloseOfClosed

\* The threads that close a group tear it down once, before readers see its end
\* (close, Close).
TornDownInOrder == TornDownBeforeEOF /\ ClosedOnce

\* Read returns what the remote wrote, in order and up to its close (read, Write,
\* handleDataPacket).
ReadIsComplete == ReadInOrder /\ NothingLostAtEOF

\* Every call of Close returns, even if the response is lost, the router is
\* blocked behind the mutex or another thread closes at the same time.
CloseReturns ==
    \A e \in Ends, t \in Closers :
        pc[e][t] # "idle" ~> pc[e][t] = "returned" \/ panicked[e] # Runs

\* The goroutine that handles the packets of all route groups of a visor never
\* waits forever in this one, as long as the application reads until an error:
\* not on a full readCh, not on the mutex, and not on its own close response.
\* A panic, which ends the visor with its goroutines, is excepted.
RouterNeverStuck ==
    \A e \in Ends :
        pc[e]["router"] # "idle" ~> pc[e]["router"] = "idle" \/ panicked[e] # Runs

\* What close() promises in its comment, "Delete all rules (ForwardRules and
\* ConsumeRules) from routing table" (route_group.go:593), it does for the forward
\* rule only (622-627).  The consume rule goes when the router has handled the
\* response or a Close packet of the remote, or when the rules collector takes it:
\* over a transport that broke it is left behind, a rule of a closed group.
RulesGone(e) ==
    /\ "fwd" \notin rt[e]
    /\ "rvs" \in rt[e] => ~tpUp \/ panicked[Peer(e)] # Runs

\* A group whose closed channel is closed is finally torn down: no reader waits,
\* the ping loop ends and its rules are gone, a consume rule left as above
\* excepted.  A visor whose process panicked, also by the very close (closeDone
\* below zero, line 711), is excepted and tears down nothing.
ClosedIsTornDown ==
    \A e \in Ends :
        rg[e].closed ~> \/ panicked[e] # Runs
                        \/ /\ rg[e].readChClosed
                           /\ pc[e]["pinger"] # "loop"
                           /\ RulesGone(e)

\* Closing ends unless the visor panics: each call returns, and the group is torn
\* down, but for the consume rule that close() leaves when no response comes.
CloseEnds == CloseReturns /\ ClosedIsTornDown

\* If one end is closed, the other end learns of it while the transport works.
PeerLearnsOfClose ==
    \A e \in Ends :
        rg[e].closed ~> \/ rg[Peer(e)].remoteClosed \/ panicked[Peer(e)] # Runs
                        \/ ~tpUp
=============================================================================
