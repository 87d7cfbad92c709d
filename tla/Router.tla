------------------------------- MODULE Router -------------------------------
(***************************************************************************)
(* The route groups of one visor's router (pkg/router/router.go): edge     *)
(* rules come in from setup nodes (IntroduceRules) and wait in the accept  *)
(* channel for the networker's serveRouteGroup loop, or come back from a   *)
(* dial; saveRouteGroupRules turns them into a group, first raw and then   *)
(* noise-wrapped; the packet goroutine, the rules garbage collector, the   *)
(* applications and Close work on the same maps.                           *)
(*                                                                         *)
(* An edge is one EdgeRules value.  It stands for its consume rule and for *)
(* the route group made from it.  Every critical section of the mutex mx   *)
(* is one step, but for IntroduceRules, which blocks while it holds mx.    *)
(***************************************************************************)
EXTENDS Naturals, Sequences, FiniteSets

CONSTANTS
  Incoming,    \* edges a setup node introduces
  Dialed,      \* edges returned to DialRoutes
  Descs,       \* route descriptors
  DescOf,      \* DescOf[e]: the descriptor of edge e
  AcceptSize,  \* capacity of the accept channel (1024 in the code)
  Plans,       \* what the surroundings of the router may do
  None         \* no edge

Edges == Incoming \cup Dialed

\* The packets: "data" (and handshake), "close", "ping" (and pong and error,
\* which end no handshake wait).
Kinds == {"data", "close", "ping"}

ASSUME RouterAssumption ==
  /\ AcceptSize \in Nat \ {0}
  /\ Incoming \cap Dialed = {}
  /\ None \notin Edges
  /\ DescOf \in [Edges -> Descs]
  /\ Plans \subseteq [edges : SUBSET Edges, failing : SUBSET Edges, kinds : SUBSET Kinds,
                      collecting : BOOLEAN, closing : BOOLEAN]

(***************************************************************************)
(* A plan bounds a behaviour: the edges that are introduced or dialed, the *)
(* edges whose handshake or noise wrapping may fail, the kinds of packets  *)
(* that arrive, whether consume rules time out and whether the router is   *)
(* closed.                                                                 *)
(***************************************************************************)
VARIABLES
  plan,         \* the plan of this behaviour; no step changes it
  mx,           \* the IntroduceRules call that holds the mutex, or None
  done,         \* the channel done is closed
  accept,       \* the accept channel
  acceptClosed, \* the accept channel is closed
  intro,        \* intro[e]: where IntroduceRules(e) is
  cur,          \* the edge AcceptRoutes works on, or None
  serving,      \* serveRouteGroup has not returned
  save,         \* save[e]: where saveRouteGroupRules(e) is
  old,          \* old[e]: the group saveRouteGroupRules(e) found in rgsNs
  rgsRaw,       \* rgsRaw[d]: the group being initialised
  rgsNs,        \* rgsNs[d]: the noise-wrapped group
  open,         \* groups created and not closed
  processed,    \* groups whose handshakeProcessed channel is closed
  rules,        \* consume rules in the routing table
  pkt,          \* the packet in the hands of the packet goroutine
  gcTodo,       \* rules collected whose groups rulesGC has still to remove
  gcGroup,      \* the group rulesGC has popped and not yet closed, or None
  panicked      \* a send on a closed channel ended the process

acceptVars == <<mx, done, accept, acceptClosed, intro>>
saveVars == <<cur, serving, save, old>>
gcVars == <<gcTodo, gcGroup>>
vars == <<mx, done, accept, acceptClosed, intro, cur, serving, save, old, rgsRaw,
          rgsNs, open, processed, rules, pkt, gcTodo, gcGroup, panicked>>

NoPacket == [at |-> "idle", kind |-> "data", edge |-> None, group |-> None]

Init ==
  /\ plan \in Plans
  /\ mx = None
  /\ done = FALSE
  /\ accept = <<>>
  /\ acceptClosed = FALSE
  /\ intro = [e \in Incoming |-> "idle"]
  /\ cur = None
  /\ serving = TRUE
  /\ save = [e \in Edges |-> "none"]
  /\ old = [e \in Edges |-> None]
  /\ rgsRaw = [d \in Descs |-> None]
  /\ rgsNs = [d \in Descs |-> None]
  /\ open = {}
  /\ processed = {}
  /\ rules = {}
  /\ pkt = NoPacket
  /\ gcTodo = {}
  /\ gcGroup = None
  /\ panicked = FALSE

-----------------------------------------------------------------------------
(* IntroduceRules                                                          *)

\* The first look at done, before the mutex is taken.
IntroduceRules(e) ==
  /\ intro[e] = "idle" /\ e \in plan.edges
  /\ intro' = [intro EXCEPT ![e] = IF done THEN "refused" ELSE "checked"]
  /\ UNCHANGED <<mx, done, accept, acceptClosed, saveVars, rgsRaw, rgsNs, open,
                 processed, rules, pkt, gcVars, panicked>>

IntroduceLock(e) ==
  /\ intro[e] = "checked" /\ mx = None
  /\ mx' = e
  /\ intro' = [intro EXCEPT ![e] = "locked"]
  /\ UNCHANGED <<done, accept, acceptClosed, saveVars, rgsRaw, rgsNs, open,
                 processed, rules, pkt, gcVars, panicked>>

\* The send of the second select; on a closed channel it panics.
IntroduceSendKeepsLock(e) ==
  /\ intro[e] = "locked" /\ ~acceptClosed /\ Len(accept) < AcceptSize
  /\ accept' = Append(accept, e)
  /\ intro' = [intro EXCEPT ![e] = "queued"]
  /\ UNCHANGED <<mx, done, acceptClosed, saveVars, rgsRaw, rgsNs, open, processed,
                 rules, pkt, gcVars, panicked>>
IntroduceSend(e) ==
  /\ intro[e] = "locked"
  /\ \/ /\ ~acceptClosed /\ Len(accept) < AcceptSize
        /\ accept' = Append(accept, e)
        /\ intro' = [intro EXCEPT ![e] = "queued"]
        /\ mx' = None
        /\ UNCHANGED panicked
     \/ /\ acceptClosed
        /\ panicked' = TRUE
        /\ UNCHANGED <<accept, intro, mx>>
  /\ UNCHANGED <<done, acceptClosed, saveVars, rgsRaw, rgsNs, open, processed,
                 rules, pkt, gcVars>>

\* The other case of the second select.
IntroduceDoneNever(e) == FALSE /\ UNCHANGED vars
IntroduceDone(e) ==
  /\ intro[e] = "locked" /\ done
  /\ intro' = [intro EXCEPT ![e] = "refused"]
  /\ mx' = None
  /\ UNCHANGED <<done, accept, acceptClosed, saveVars, rgsRaw, rgsNs, open,
                 processed, rules, pkt, gcVars, panicked>>

-----------------------------------------------------------------------------
(* AcceptRoutes and DialRoutes                                             *)

\* serveRouteGroup calls AcceptRoutes again once the last call has returned:
\* the next edge is taken from the channel and its rules are saved.
AcceptRoutes ==
  /\ serving /\ cur = None /\ accept # <<>>
  /\ cur' = Head(accept)
  /\ accept' = Tail(accept)
  /\ rules' = rules \cup {Head(accept)}
  /\ save' = [save EXCEPT ![Head(accept)] = "enter"]
  /\ UNCHANGED <<mx, done, acceptClosed, intro, serving, old, rgsRaw, rgsNs, open,
                 processed, pkt, gcVars, panicked>>

\* The channel is closed and drained: AcceptRoutes returns an error, and
\* serveRouteGroup returns.
AcceptClosed ==
  /\ serving /\ cur = None /\ accept = <<>> /\ acceptClosed
  /\ serving' = FALSE
  /\ UNCHANGED <<acceptVars, cur, save, old, rgsRaw, rgsNs, open, processed, rules,
                 pkt, gcVars, panicked>>

\* DialRoutes has the setup node's answer.  It holds routeSetupHookMu until it
\* returns, so dials are serialised.
Busy(e) == save[e] \notin {"none", "returned", "failed"}
DialRoutes(e) ==
  /\ save[e] = "none" /\ e \in plan.edges
  /\ \A x \in Dialed : ~Busy(x)
  /\ rules' = rules \cup {e}
  /\ save' = [save EXCEPT ![e] = "enter"]
  /\ UNCHANGED <<acceptVars, cur, serving, old, rgsRaw, rgsNs, open, processed,
                 pkt, gcVars, panicked>>

-----------------------------------------------------------------------------
(* saveRouteGroupRules                                                     *)

\* saveRouteGroupRules(e) continues at s, or returns: an error also ends
\* AcceptRoutes, and with it serveRouteGroup, which nothing starts again.
Goto(e, s) ==
  /\ save' = [save EXCEPT ![e] = s]
  /\ cur' = IF cur = e /\ s \in {"returned", "failed"} THEN None ELSE cur
  /\ serving' = (serving /\ ~(cur = e /\ s = "failed"))

\* First critical section: refuse a descriptor that is in rgsRaw, remember the
\* wrapped group of the descriptor, create the new group and put it in rgsRaw.
SaveEnter(e) ==
  /\ save[e] = "enter" /\ mx = None
  /\ IF rgsRaw[DescOf[e]] # None
     THEN Goto(e, "failed") /\ UNCHANGED <<old, rgsRaw, open>>
     ELSE /\ old' = [old EXCEPT ![e] = rgsNs[DescOf[e]]]
          /\ rgsRaw' = [rgsRaw EXCEPT ![DescOf[e]] = e]
          /\ open' = open \cup {e}
          /\ Goto(e, IF e \in Dialed THEN "hello" ELSE "await")
  /\ UNCHANGED <<acceptVars, rgsNs, processed, rules, pkt, gcVars, panicked>>

\* An error: the new group is closed; its entry in rgsRaw is left.
SaveFails(e) ==
  /\ e \in plan.failing /\ save[e] \in {"hello", "wrap"}
  /\ open' = open \ {e}
  /\ Goto(e, "failed")
  /\ UNCHANGED <<acceptVars, old, rgsRaw, rgsNs, processed, rules, pkt, gcVars,
                 panicked>>

\* sendHandshake: the initiator before it waits, the responder after it.
SendHandshake(e) ==
  /\ save[e] = "hello"
  /\ Goto(e, IF e \in Dialed THEN "await" ELSE "replace")
  /\ UNCHANGED <<acceptVars, old, rgsRaw, rgsNs, open, processed, rules, pkt,
                 gcVars, panicked>>

\* The wait for the remote's handshake, which a packet or the timeout ends.
AwaitHandshakeNoTimeout(e) ==
  /\ save[e] = "await" /\ e \in processed
  /\ Goto(e, IF e \in Dialed THEN "replace" ELSE "hello")
  /\ UNCHANGED <<acceptVars, old, rgsRaw, rgsNs, open, processed, rules, pkt, gcVars,
                 panicked>>
AwaitHandshake(e) ==
  /\ save[e] = "await"
  /\ processed' = processed \cup {e}
  /\ Goto(e, IF e \in Dialed THEN "replace" ELSE "hello")
  /\ UNCHANGED <<acceptVars, old, rgsRaw, rgsNs, open, rules, pkt, gcVars, panicked>>

\* The wrapped group found on entry is closed.
ReplaceNoClose(e) ==
  /\ save[e] = "replace"
  /\ Goto(e, "wrap")
  /\ UNCHANGED <<acceptVars, old, rgsRaw, rgsNs, open, processed, rules, pkt, gcVars,
                 panicked>>
ReplaceOld(e) ==
  /\ save[e] = "replace"
  /\ open' = open \ {old[e]}
  /\ Goto(e, "wrap")
  /\ UNCHANGED <<acceptVars, old, rgsRaw, rgsNs, processed, rules, pkt, gcVars,
                 panicked>>

\* The noise handshake succeeded, or the group stays unencrypted.
Wrap(e) ==
  /\ save[e] = "wrap"
  /\ Goto(e, "install")
  /\ UNCHANGED <<acceptVars, old, rgsRaw, rgsNs, open, processed, rules, pkt,
                 gcVars, panicked>>

\* Last critical section.
InstallElsewhere(e) ==
  /\ save[e] = "install" /\ mx = None
  /\ rgsNs' = [d \in Descs |-> IF d = DescOf[e] THEN rgsNs[d] ELSE e]
  /\ rgsRaw' = [rgsRaw EXCEPT ![DescOf[e]] = None]
  /\ Goto(e, "returned")
  /\ UNCHANGED <<acceptVars, old, open, processed, rules, pkt, gcVars, panicked>>
Install(e) ==
  /\ save[e] = "install" /\ mx = None
  /\ rgsNs' = [rgsNs EXCEPT ![DescOf[e]] = e]
  /\ rgsRaw' = [rgsRaw EXCEPT ![DescOf[e]] = None]
  /\ Goto(e, "returned")
  /\ UNCHANGED <<acceptVars, old, open, processed, rules, pkt, gcVars, panicked>>

SaveStep(e) ==
  \/ SaveEnter(e) \/ SendHandshake(e) \/ AwaitHandshake(e) \/ ReplaceOld(e)
  \/ Wrap(e) \/ Install(e)

\* An application closes the group it was given.
AppCloses(e) ==
  /\ save[e] = "returned" /\ e \in open
  /\ open' = open \ {e}
  /\ UNCHANGED <<acceptVars, saveVars, rgsRaw, rgsNs, processed, rules, pkt,
                 gcVars, panicked>>

-----------------------------------------------------------------------------
(* The packet goroutine                                                    *)

\* A packet arrives for a consume rule of the table (GetRule).
PacketArrives(e, k) ==
  /\ pkt.at = "idle" /\ e \in rules /\ k \in plan.kinds
  /\ pkt' = [at |-> "lookup", kind |-> k, edge |-> e, group |-> None]
  /\ UNCHANGED <<acceptVars, saveVars, rgsRaw, rgsNs, open, processed, rules,
                 gcVars, panicked>>

\* The lookup in rgsNs.  All handlers but handleClosePacket go on to rgsRaw.
LookupNs ==
  /\ pkt.at = "lookup" /\ mx = None
  /\ LET g == rgsNs[DescOf[pkt.edge]]
     IN  pkt' = CASE g # None -> [pkt EXCEPT !.at = "deliver", !.group = g]
                  [] g = None /\ pkt.kind # "close" -> [pkt EXCEPT !.at = "lookupRaw"]
                  [] g = None /\ pkt.kind = "close" -> [pkt EXCEPT !.at = "drop"]
  /\ UNCHANGED <<acceptVars, saveVars, rgsRaw, rgsNs, open, processed, rules,
                 gcVars, panicked>>

\* The lookup in rgsRaw, in a critical section of its own.
LookupRaw ==
  /\ pkt.at = "lookupRaw" /\ mx = None
  /\ LET g == rgsRaw[DescOf[pkt.edge]]
     IN  pkt' = IF g # None THEN [pkt EXCEPT !.at = "deliver", !.group = g]
                            ELSE [pkt EXCEPT !.at = "drop"]
  /\ UNCHANGED <<acceptVars, saveVars, rgsRaw, rgsNs, open, processed, rules,
                 gcVars, panicked>>

\* The group handles the packet: the first one ends its wait for a handshake,
\* a Close packet closes it.
Deliver ==
  /\ pkt.at = "deliver"
  /\ processed' = IF pkt.kind = "data" THEN processed \cup {pkt.group} ELSE processed
  /\ open' = IF pkt.kind = "close" THEN open \ {pkt.group} ELSE open
  /\ pkt' = IF pkt.kind = "close" THEN [pkt EXCEPT !.at = "remove"] ELSE NoPacket
  /\ UNCHANGED <<acceptVars, saveVars, rgsRaw, rgsNs, rules, gcVars, panicked>>

\* handleClosePacket's deferred removeNoiseRouteGroup, by descriptor.
RemoveNoiseRouteGroup ==
  /\ pkt.at = "remove" /\ mx = None
  /\ rgsNs' = [rgsNs EXCEPT ![DescOf[pkt.edge]] = None]
  /\ pkt' = [pkt EXCEPT !.at = "drop"]
  /\ UNCHANGED <<acceptVars, saveVars, rgsRaw, open, processed, rules, gcVars,
                 panicked>>

\* The handler returns; for a Close packet its deferred DelRules runs last.
HandlerReturns ==
  /\ pkt.at = "drop"
  /\ rules' = IF pkt.kind = "close" THEN rules \ {pkt.edge} ELSE rules
  /\ pkt' = NoPacket
  /\ UNCHANGED <<acceptVars, saveVars, rgsRaw, rgsNs, open, processed, gcVars,
                 panicked>>

PacketStep == LookupNs \/ LookupRaw \/ Deliver \/ RemoveNoiseRouteGroup \/ HandlerReturns

-----------------------------------------------------------------------------
(* rulesGC and Close                                                       *)

CollectGarbage ==
  /\ plan.collecting /\ ~done /\ gcTodo = {} /\ gcGroup = None
  /\ \E S \in SUBSET rules \ {{}} :
       /\ gcTodo' = S
       /\ rules' = rules \ S
  /\ UNCHANGED <<acceptVars, saveVars, rgsRaw, rgsNs, open, processed, pkt, gcGroup,
                 panicked>>

\* removeRouteGroupOfRule: popNoiseRouteGroup, and then the group's Close.
PopNoiseRouteGroup ==
  /\ gcTodo # {} /\ gcGroup = None /\ mx = None
  /\ \E e \in gcTodo :
       /\ gcTodo' = gcTodo \ {e}
       /\ gcGroup' = rgsNs[DescOf[e]]
       /\ rgsNs' = [rgsNs EXCEPT ![DescOf[e]] = None]
  /\ UNCHANGED <<acceptVars, saveVars, rgsRaw, open, processed, rules, pkt, panicked>>

GCCloses ==
  /\ gcGroup # None
  /\ open' = open \ {gcGroup}
  /\ gcGroup' = None
  /\ UNCHANGED <<acceptVars, saveVars, rgsRaw, rgsNs, processed, rules, pkt, gcTodo,
                 panicked>>

Close ==
  /\ plan.closing /\ ~done
  /\ done' = TRUE
  /\ UNCHANGED <<mx, accept, acceptClosed, intro, saveVars, rgsRaw, rgsNs, open,
                 processed, rules, pkt, gcVars, panicked>>

CloseAccept ==
  /\ done /\ ~acceptClosed /\ mx = None
  /\ acceptClosed' = TRUE
  /\ UNCHANGED <<mx, done, accept, intro, saveVars, rgsRaw, rgsNs, open, processed,
                 rules, pkt, gcVars, panicked>>

-----------------------------------------------------------------------------
Introduce(e) ==
  IntroduceRules(e) \/ IntroduceLock(e) \/ IntroduceSend(e) \/ IntroduceDone(e)
Accepting == AcceptRoutes \/ AcceptClosed

Next ==
  /\ ~panicked
  /\ \/ \E e \in Incoming : Introduce(e)
     \/ Accepting
     \/ \E e \in Dialed : DialRoutes(e)
     \/ \E e \in Edges : SaveStep(e) \/ SaveFails(e) \/ AppCloses(e)
     \/ \E e \in Edges, k \in Kinds : PacketArrives(e, k)
     \/ PacketStep
     \/ CollectGarbage \/ PopNoiseRouteGroup \/ GCCloses
     \/ Close \/ CloseAccept

Spec == Init /\ [][Next /\ UNCHANGED plan]_<<vars, plan>>

\* Every goroutine that can run does; the waits are bounded by timeouts
\* (handshakeAwaitTimeout, and noise's own).  No packet, application call,
\* dial, setup request or Close has to come, but an IntroduceRules that has
\* passed its first check goes on.  A mutex that is free infinitely often is
\* granted in the end (Go's mutexes hand over to a starving waiter): SF.
LiveSpec ==
  /\ Spec
  /\ SF_vars(~panicked /\ \E e \in Incoming : intro[e] # "idle" /\ Introduce(e))
  /\ SF_vars(~panicked /\ \E e \in Edges : SaveStep(e))
  /\ WF_vars(~panicked /\ Accepting)
  /\ SF_vars(~panicked /\ PacketStep)
  /\ SF_vars(~panicked /\ PopNoiseRouteGroup) /\ WF_vars(~panicked /\ GCCloses)
  /\ SF_vars(~panicked /\ CloseAccept)

-----------------------------------------------------------------------------
(* Properties                                                              *)

\* Each variable keeps its type, and the two maps only ever hold groups of the
\* descriptor they are filed under.
TypeOK ==
  /\ plan \in Plans
  /\ mx \in Incoming \cup {None}
  /\ done \in BOOLEAN /\ acceptClosed \in BOOLEAN /\ panicked \in BOOLEAN
  /\ accept \in Seq(Incoming)
  /\ intro \in [Incoming -> {"idle", "checked", "locked", "queued", "refused"}]
  /\ cur \in Incoming \cup {None} /\ serving \in BOOLEAN
  /\ save \in [Edges -> {"none", "enter", "hello", "await", "replace", "wrap",
                         "install", "returned", "failed"}]
  /\ rgsRaw \in [Descs -> Edges \cup {None}] /\ rgsNs \in [Descs -> Edges \cup {None}]
  /\ \A d \in Descs : rgsRaw[d] = None \/ DescOf[rgsRaw[d]] = d
  /\ \A d \in Descs : rgsNs[d] = None \/ DescOf[rgsNs[d]] = d
  /\ old \in [Edges -> Edges \cup {None}]
  /\ \A e \in Edges : old[e] = None \/ DescOf[old[e]] = DescOf[e]
  /\ open \subseteq Edges /\ processed \subseteq Edges /\ rules \subseteq Edges
  /\ pkt \in [at : {"idle", "lookup", "lookupRaw", "deliver", "remove", "drop"}, kind : Kinds,
               edge : Edges \cup {None}, group : Edges \cup {None}]
  /\ gcTodo \subseteq Edges /\ gcGroup \in Edges \cup {None}

\* The mutex is held across steps only by an IntroduceRules call that is in its
\* blocking select, and at most AcceptSize rules wait: the hand-over of edge
\* rules neither leaks the mutex nor loses or repeats an edge.
HandOver ==
  /\ \A e \in Incoming : (mx = e) <=> (intro[e] = "locked")
  /\ Len(accept) <= AcceptSize
  /\ \A e \in Incoming :
       (intro[e] = "queued") <=> (save[e] # "none" \/ \E i \in DOMAIN accept : accept[i] = e)
  /\ \A i, j \in DOMAIN accept : accept[i] = accept[j] => i = j

\* A Close packet is for the group that its descriptor leads to: no two edges of
\* the plan share a descriptor.  (handleClosePacket removes by descriptor: the
\* Close packet of a group that was replaced unregisters the group in use.)
CloseIsOwn ==
  "close" \in plan.kinds => \A e, f \in plan.edges : DescOf[e] = DescOf[f] => e = f

\* A wrapped group that the application holds and nobody has closed gets the
\* packets of its descriptor: it is in rgsNs, "noise-wrapped route groups to
\* push incoming reads from transports" (or rulesGC is about to close it).
OpenGroupRegistered ==
  CloseIsOwn =>
    \A e \in Edges : save[e] = "returned" /\ e \in open =>
      rgsNs[DescOf[e]] = e \/ gcGroup = e

\* The accept channel never fills: one edge is being accepted, and the channel
\* has room for all the others.
Room == Cardinality(plan.edges \cap Incoming) <= AcceptSize + 1

\* AcceptRoutes "should block until we receive an AddRules packet", then save
\* the rules and return the group: once it has rules it returns.
AcceptAlwaysReturns ==
  \A e \in Incoming : (save[e] = "enter") ~> (~Busy(e) \/ panicked)

\* AcceptRoutes returns as long as the accept channel does not fill, although
\* the remote may never answer the handshake and rules may time out meanwhile.
AcceptReturns ==
  \A e \in Incoming : (Room /\ save[e] = "enter") ~> (~Busy(e) \/ panicked)

\* DialRoutes returns once the setup node has answered.
DialReturns ==
  \A e \in Dialed : (save[e] = "enter") ~> (~Busy(e) \/ panicked)

\* "Close safely stops Router": after Close the accept channel gets closed and
\* serveRouteGroup returns, even if setup nodes introduce rules meanwhile.
CloseStopsAccepting ==
  done ~> (acceptClosed /\ ~serving) \/ panicked

\* The calls of the router return: accepting, dialing, and the accept loop after
\* Close.
CallsReturn == AcceptReturns /\ DialReturns /\ CloseStopsAccepting
=============================================================================
