----------------------------- MODULE RouteSetup -----------------------------
(***************************************************************************)
(* The setup of a bidirectional route: a visor asks a setup node for a     *)
(* route group, the setup node dials every router on the two paths,        *)
(* reserves route IDs from each, generates the rules, installs the         *)
(* intermediary rules, hands the responder its edge rules and returns the  *)
(* initiator's (pkg/router: setupnode.go, id_reserver.go, map.go,          *)
(* setup_rpc_gateway.go, rpc_gateway.go, routerclient.go, and the dialing  *)
(* and accepting half of router.go).                                       *)
(*                                                                         *)
(* Several setups run concurrently and share routers.  A call the setup    *)
(* node has given up may still be handled by the router it was sent to.    *)
(* Rule expiry is the subject of RoutingTable and is left out here: route  *)
(* IDs are handed out in order, and a rule stays where it was saved.       *)
(***************************************************************************)
EXTENDS Naturals, Sequences, FiniteSets, Functions, SequencesExt

CONSTANTS
  Nodes,      \* public keys of the visors
  Reqs,       \* setup requests; a request also stands for its ephemeral port
  Src, Dst,   \* Src[q], Dst[q]: the edges of request q (equal for a ping)
  PingKey,    \* PingKey[q]: the visor a ping is meant for, or NoPing
  Paths,      \* the paths a route finder may answer with, as node sequences
  Faulty,     \* routers to which a dial or a call may fail
  Deadlines,  \* requests whose 30 s deadline may pass
  NoPing,     \* the request is DialRoutes, not PingRoute
  AppPort,    \* the remote port of every request
  MaxHops     \* the most hops a route finder is asked for (Config.MaxHops)

\* Requests use ephemeral ports, which are none of those that applications
\* listen on.
ASSUME PathsAssumption ==
  /\ Paths \subseteq Seq(Nodes)
  /\ MaxHops \in Nat /\ \A f \in Paths : Len(f) <= MaxHops + 1
  /\ AppPort \notin Reqs
  /\ Faulty \subseteq Nodes
  /\ Deadlines \subseteq Reqs
  /\ \A q \in Reqs : Src[q] \in Nodes /\ Dst[q] \in Nodes

VARIABLES
  tbl,      \* tbl[n]: the routing table of visor n, a function from route IDs
  nextID,   \* nextID[n]: the last route ID reserved at n
  accept,   \* accept[n]: edge rules introduced to n and not yet accepted
  groups,   \* groups[n]: edge rules of the route groups n has registered
  net,      \* calls sent to routers and not yet handled
  replies,  \* answers of routers not yet received
  pc,       \* pc[q]: the stage of request q
  fwd, rev, \* the two paths of q
  ctxDone,  \* the deadline of q has passed
  pending,  \* routers q still waits for: a dial result or a call's answer
  unsent,   \* routers whose goroutine has not made its call yet
  clients,  \* the router clients in q's Map
  err,      \* an error was recorded in the current stage
  ids,      \* ids[q][n]: route IDs reserved at n and not yet popped
  crashed   \* the setup node dereferenced a nil client

routerVars == <<tbl, nextID, accept, groups>>
vars == <<tbl, nextID, accept, groups, net, replies, pc, fwd, rev, ctxDone,
          pending, unsent, clients, err, ids, crashed>>

-----------------------------------------------------------------------------
(* Routes and rules                                                        *)

\* One hop per pair of neighbours; a transport is known by its two edges.
Hops(p) ==
  [i \in 1..(Len(p) - 1) |-> [from |-> p[i], to |-> p[i + 1], tp |-> {p[i], p[i + 1]}]]

Desc(q) ==
  [src |-> Src[q], srcPort |-> q, dst |-> Dst[q], dstPort |-> AppPort]

Invert(d) ==
  [src |-> d.dst, srcPort |-> d.dstPort, dst |-> d.src, dstPort |-> d.srcPort]

\* ForwardAndReverse: <<forward route, reverse route>>.
Routes(q) ==
  <<[desc |-> Desc(q), path |-> fwd[q]], [desc |-> Invert(Desc(q)), path |-> rev[q]]>>

\* BidirectionalRoute.Check on paths f and r.
Check(q, f, r) ==
  /\ Len(f) > 1
  /\ Len(r) > 1
  /\ f[1] = Src[q] /\ r[Len(r)] = Src[q]
  /\ r[1] = Dst[q] /\ f[Len(f)] = Dst[q]

\* rec[pk]: the number of rules expected at each visor of the two paths.
Rec(q) ==
  [n \in Range(fwd[q]) \cup Range(rev[q]) |->
     Cardinality({i \in DOMAIN fwd[q] : fwd[q][i] = n})
     + Cardinality({i \in DOMAIN rev[q] : rev[q][i] = n})]

\* The visors in the order in which GenerateRules pops their IDs, and the
\* i-th ID it pops when PopID takes IDs first in, first out.
PopOrder(q) == fwd[q] \o rev[q]
PoppedPerRoute(q, i) ==
  LET n == PopOrder(q)[i]
      k == IF i > Len(fwd[q]) THEN Len(fwd[q]) ELSE 0
  IN  ids[q][n][Cardinality({j \in (k + 1)..i : PopOrder(q)[j] = n})]
Popped(q, i) ==
  LET n == PopOrder(q)[i]
  IN  ids[q][n][Cardinality({j \in 1..i : PopOrder(q)[j] = n})]

CanPop(q) ==
  \A n \in DOMAIN Rec(q) : Len(ids[q][n]) >= Rec(q)[n]

NoDesc == [src |-> NoPing]

\* Route k (1 forward, 2 reverse) of q pops Len(path) IDs from offset on:
\* one key per visor of its path, each rule naming the next one.
Offset(q, k) == IF k = 1 THEN 0 ELSE Len(fwd[q])
RuleAt(q, k, i) ==
  LET route == Routes(q)[k]
      key == Popped(q, Offset(q, k) + i)
  IN  IF i = Len(route.path)
      THEN [type |-> "Consume", key |-> key, desc |-> route.desc]
      ELSE [type |-> IF i = 1 THEN "Forward" ELSE "Intermediary",
            key |-> key,
            nextID |-> Popped(q, Offset(q, k) + i + 1),
            nextTp |-> Hops(route.path)[i].tp,
            desc |-> IF i = 1 THEN route.desc ELSE NoDesc]

\* GenerateRules: the intermediary rules of visor n, and the edge rules.
InterRules(q, n) ==
  {RuleAt(q, x[1], x[2]) : x \in {y \in {1, 2} \X (2..Len(PopOrder(q))) :
      /\ y[2] < Len(Routes(q)[y[1]].path)
      /\ Routes(q)[y[1]].path[y[2]] = n}}
InterNodes(q) == {n \in Nodes : InterRules(q, n) # {}}
InitEdge(q) ==
  [desc |-> Invert(Desc(q)), fwd |-> RuleAt(q, 1, 1), rev |-> RuleAt(q, 2, Len(rev[q]))]
RespEdge(q) ==
  [desc |-> Desc(q), fwd |-> RuleAt(q, 2, 1), rev |-> RuleAt(q, 1, Len(fwd[q]))]

-----------------------------------------------------------------------------
Init ==
  /\ tbl = [n \in Nodes |-> <<>>]
  /\ nextID = [n \in Nodes |-> 0]
  /\ accept = [n \in Nodes |-> <<>>]
  /\ groups = [n \in Nodes |-> {}]
  /\ net = {}
  /\ replies = {}
  /\ pc = [q \in Reqs |-> "idle"]
  /\ fwd = [q \in Reqs |-> <<>>]
  /\ rev = [q \in Reqs |-> <<>>]
  /\ ctxDone = [q \in Reqs |-> FALSE]
  /\ pending = [q \in Reqs |-> {}]
  /\ unsent = [q \in Reqs |-> {}]
  /\ clients = [q \in Reqs |-> {}]
  /\ err = [q \in Reqs |-> FALSE]
  /\ ids = [q \in Reqs |-> [n \in Nodes |-> <<>>]]
  /\ crashed = FALSE

\* The setup node starts stage s of q, in which it waits for routers ns.
Enter(q, s, ns) ==
  /\ pc' = [pc EXCEPT ![q] = s]
  /\ pending' = [pending EXCEPT ![q] = ns]
  /\ unsent' = [unsent EXCEPT ![q] = IF s = "dial" THEN {} ELSE ns]
  /\ err' = [err EXCEPT ![q] = FALSE]

\* CreateRouteGroup returns an error: the reserver's clients are closed.
Fail(q) ==
  /\ Enter(q, "failed", {})
  /\ clients' = [clients EXCEPT ![q] = {}]

\* The answers of the route finder: fetchBestRoutes takes any, fetchPingRoute
\* tests whether a hop leads to the pinged visor and whether one leaves it.
FetchBestRoutes(q) == Paths
FetchPingRoute(q) ==
  {f \in Paths :
     LET hopTo   == \E i \in DOMAIN Hops(f) : Hops(f)[i].to = PingKey[q]
         hopFrom == \E i \in DOMAIN Hops(f) : Hops(f)[i].from = PingKey[q]
     IN  ~(~hopTo /\ hopFrom)}

\* DialRoutes / PingRoute up to the setup node's check of the request.
DialRouteGroup(q) ==
  /\ pc[q] = "idle" /\ ~crashed
  /\ \E f \in IF PingKey[q] = NoPing THEN FetchBestRoutes(q) ELSE FetchPingRoute(q), r \in Paths :
       /\ fwd' = [fwd EXCEPT ![q] = f]
       /\ rev' = [rev EXCEPT ![q] = r]
       /\ IF Check(q, f, r)
          THEN Enter(q, "dial", Range(f) \cup Range(r)) /\ UNCHANGED clients
          ELSE Fail(q)
  /\ UNCHANGED <<routerVars, net, replies, ctxDone, ids, crashed>>

\* The 30 s deadline of DialRouteGroup passes.
Deadline(q) ==
  /\ q \in Deadlines /\ ~ctxDone[q] /\ ~crashed
  /\ pc[q] \in {"dial", "reserve", "broadcast", "edge"}
  /\ ctxDone' = [ctxDone EXCEPT ![q] = TRUE]
  /\ UNCHANGED <<routerVars, net, replies, pc, fwd, rev, pending, unsent, clients,
                 err, ids, crashed>>

-----------------------------------------------------------------------------
(* NewIDReserver and MakeMap                                               *)

\* One iteration of the loop over results.  Once the context is done, by the
\* deadline or by the cancel of an earlier failure, a result is skipped.
DialResult(q, n) ==
  /\ pc[q] = "dial" /\ n \in pending[q] /\ ~crashed
  /\ pending' = [pending EXCEPT ![q] = @ \ {n}]
  /\ \E ok \in BOOLEAN :
       /\ ok \/ n \in Faulty \/ ctxDone[q] \/ err[q]
       /\ IF ctxDone[q] \/ err[q]
          THEN UNCHANGED <<clients, err>>
          ELSE /\ clients' = [clients EXCEPT ![q] = IF ok THEN @ \cup {n} ELSE @]
               /\ err' = [err EXCEPT ![q] = ~ok]
  /\ UNCHANGED <<routerVars, net, replies, pc, fwd, rev, ctxDone, unsent, ids, crashed>>

\* MakeMap returns; with an error the clients it holds are closed.
MakeMapReturns(q) ==
  /\ pc[q] = "dial" /\ pending[q] = {} /\ ~crashed
  /\ IF err[q] THEN Fail(q) ELSE Enter(q, "reserve", DOMAIN Rec(q)) /\ UNCHANGED clients
  /\ UNCHANGED <<routerVars, net, replies, fwd, rev, ctxDone, ids, crashed>>

-----------------------------------------------------------------------------
(* Calls to routers                                                        *)

Request(q, n) ==
  [q |-> q, to |-> n, stage |-> pc[q],
   args |-> CASE pc[q] = "reserve"   -> Rec(q)[n]
              [] pc[q] = "broadcast" -> InterRules(q, n)
              [] pc[q] = "edge"      -> RespEdge(q)]

\* A goroutine makes its call.  A router missing from the map has a nil
\* client, and calling it ends the process.
Call(q, n) ==
  /\ ~crashed /\ n \in unsent[q]
  /\ IF n \in clients[q]
     THEN /\ unsent' = [unsent EXCEPT ![q] = @ \ {n}]
          /\ net' = net \cup {Request(q, n)}
          /\ UNCHANGED crashed
     ELSE crashed' = TRUE /\ UNCHANGED <<unsent, net>>
  /\ UNCHANGED <<routerVars, replies, pc, fwd, rev, ctxDone, pending, clients, err, ids>>

\* SaveRule for each rule of rs.
Save(t, rs) ==
  [k \in DOMAIN t \cup {r.key : r \in rs} |->
     IF \E r \in rs : r.key = k THEN CHOOSE r \in rs : r.key = k ELSE t[k]]

Answer(m, a) ==
  /\ net' = net \ {m}
  /\ replies' = replies \cup {[q |-> m.q, from |-> m.to, stage |-> m.stage, ans |-> a]}
  /\ UNCHANGED <<pc, fwd, rev, ctxDone, pending, unsent, clients, err, ids, crashed>>

\* The router's side: ReserveKeys hands out the next m.args IDs.
HandleReserveSame(m) ==
  /\ m.stage = "reserve"
  /\ nextID' = [nextID EXCEPT ![m.to] = @ + m.args]
  /\ Answer(m, [i \in 1..m.args |-> i])
  /\ UNCHANGED <<tbl, accept, groups>>
HandleReserveOffByOne(m) ==
  /\ m.stage = "reserve"
  /\ nextID' = [nextID EXCEPT ![m.to] = @ + m.args]
  /\ Answer(m, [i \in 1..m.args |-> nextID[m.to] + i + 1])
  /\ UNCHANGED <<tbl, accept, groups>>
HandleReserve(m) ==
  /\ m.stage = "reserve"
  /\ nextID' = [nextID EXCEPT ![m.to] = @ + m.args]
  /\ Answer(m, [i \in 1..m.args |-> nextID[m.to] + i])
  /\ UNCHANGED <<tbl, accept, groups>>

HandleIntermediary(m) ==
  /\ m.stage = "broadcast"
  /\ tbl' = [tbl EXCEPT ![m.to] = Save(@, m.args)]
  /\ Answer(m, <<>>)
  /\ UNCHANGED <<nextID, accept, groups>>

\* IntroduceRules: the edge rules wait in the accept channel.
HandleEdge(m) ==
  /\ m.stage = "edge"
  /\ accept' = [accept EXCEPT ![m.to] = Append(@, m.args)]
  /\ Answer(m, <<>>)
  /\ UNCHANGED <<tbl, nextID, groups>>

\* A call returns the router's answer.
CallOK(q, n) ==
  /\ ~crashed /\ n \in pending[q] \ unsent[q]
  /\ \E r \in replies :
       /\ r.q = q /\ r.from = n /\ r.stage = pc[q]
       /\ replies' = replies \ {r}
       /\ ids' = IF pc[q] = "reserve" THEN [ids EXCEPT ![q][n] = r.ans] ELSE ids
  /\ pending' = [pending EXCEPT ![q] = @ \ {n}]
  /\ UNCHANGED <<routerVars, net, pc, fwd, rev, ctxDone, unsent, clients, err, crashed>>

\* A call returns an error: the connection failed, or the context is done
\* (the deadline, or the cancel of another goroutine's failure).
CallErrNoCtx(q, n) ==
  /\ ~crashed /\ pc[q] # "dial" /\ n \in pending[q] \ unsent[q]
  /\ n \in Faulty
  /\ pending' = [pending EXCEPT ![q] = @ \ {n}]
  /\ err' = [err EXCEPT ![q] = TRUE]
  /\ UNCHANGED <<routerVars, net, replies, pc, fwd, rev, ctxDone, unsent, clients,
                 ids, crashed>>
CallErr(q, n) ==
  /\ ~crashed /\ pc[q] # "dial" /\ n \in pending[q] \ unsent[q]
  /\ n \in Faulty \/ ctxDone[q] \/ err[q]
  /\ pending' = [pending EXCEPT ![q] = @ \ {n}]
  /\ err' = [err EXCEPT ![q] = TRUE]
  /\ UNCHANGED <<routerVars, net, replies, pc, fwd, rev, ctxDone, unsent, clients,
                 ids, crashed>>

\* firstError has every result: CreateRouteGroup goes on, or fails.
StageEndsEarly(q) ==
  /\ ~crashed /\ pc[q] \in {"reserve", "broadcast", "edge"}
  /\ pending[q] = {} \/ (pc[q] = "broadcast" /\ unsent[q] = {})
  /\ CASE err[q] -> Fail(q)
       [] ~err[q] /\ pc[q] = "reserve" -> Enter(q, "broadcast", InterNodes(q)) /\ UNCHANGED clients
       [] ~err[q] /\ pc[q] = "broadcast" -> Enter(q, "edge", {Dst[q]}) /\ UNCHANGED clients
       [] ~err[q] /\ pc[q] = "edge" -> Enter(q, "done", {}) /\ clients' = [clients EXCEPT ![q] = {}]
  /\ UNCHANGED <<routerVars, net, replies, fwd, rev, ctxDone, ids, crashed>>
StageEnds(q) ==
  /\ ~crashed /\ pending[q] = {}
  /\ \/ /\ pc[q] \in {"reserve", "broadcast", "edge"} /\ err[q]
        /\ Fail(q)
     \/ /\ pc[q] = "reserve" /\ ~err[q]
        /\ IF CanPop(q) THEN Enter(q, "broadcast", InterNodes(q)) /\ UNCHANGED clients
                        ELSE Fail(q)
     \/ /\ pc[q] = "broadcast" /\ ~err[q]
        /\ Enter(q, "edge", {Dst[q]})
        /\ UNCHANGED clients
     \/ /\ pc[q] = "edge" /\ ~err[q]
        /\ Enter(q, "done", {})
        /\ clients' = [clients EXCEPT ![q] = {}]
  /\ UNCHANGED <<routerVars, net, replies, fwd, rev, ctxDone, ids, crashed>>

-----------------------------------------------------------------------------
(* The edges                                                               *)

RegisterForwardOnly(n, e) ==
  /\ tbl' = [tbl EXCEPT ![n] = Save(@, {e.fwd})]
  /\ groups' = [groups EXCEPT ![n] = @ \cup {e}]
Register(n, e) ==
  /\ tbl' = [tbl EXCEPT ![n] = Save(@, {e.fwd, e.rev})]
  /\ groups' = [groups EXCEPT ![n] = @ \cup {e}]

\* The answer of the setup node reaches the initiator, which saves the two
\* rules and registers its route group.
DialReturns(q) ==
  /\ pc[q] = "done"
  /\ pc' = [pc EXCEPT ![q] = "established"]
  /\ Register(Src[q], InitEdge(q))
  /\ UNCHANGED <<nextID, accept, net, replies, fwd, rev, ctxDone, pending, unsent,
                 clients, err, ids, crashed>>
DialRoutes(q) == PingKey[q] = NoPing /\ DialReturns(q)
PingRoute(q) == PingKey[q] # NoPing /\ DialReturns(q)

\* AcceptRoutes at the responder.
AcceptRoutes(n) ==
  /\ accept[n] # <<>>
  /\ accept' = [accept EXCEPT ![n] = Tail(@)]
  /\ Register(n, Head(accept[n]))
  /\ UNCHANGED <<nextID, net, replies, pc, fwd, rev, ctxDone, pending, unsent,
                 clients, err, ids, crashed>>

Next ==
  \/ \E q \in Reqs :
       \/ DialRouteGroup(q) \/ Deadline(q) \/ MakeMapReturns(q)
       \/ StageEnds(q) \/ DialRoutes(q) \/ PingRoute(q)
       \/ \E n \in Nodes : DialResult(q, n) \/ Call(q, n) \/ CallOK(q, n) \/ CallErr(q, n)
  \/ \E m \in net : HandleReserve(m) \/ HandleIntermediary(m) \/ HandleEdge(m)
  \/ \E n \in Nodes : AcceptRoutes(n)

Spec == Init /\ [][Next]_vars

\* The setup node's goroutines run, dials return (at the latest on the done
\* context), the deadline fires, and a call whose context is done returns.
\* Nothing is assumed of the routers.
SetupStep(q) ==
  \/ MakeMapReturns(q) \/ StageEnds(q)
  \/ \E n \in Nodes : DialResult(q, n) \/ Call(q, n)
CancelledCall(q) ==
  /\ ctxDone[q] \/ err[q]
  /\ \E n \in Nodes : CallErr(q, n)
LiveSpec ==
  /\ Spec
  /\ \A q \in Reqs : WF_vars(SetupStep(q)) /\ WF_vars(Deadline(q)) /\ WF_vars(CancelledCall(q))

-----------------------------------------------------------------------------
(* Properties                                                              *)

Stages == {"idle", "dial", "reserve", "broadcast", "edge", "done", "established", "failed"}

\* Every variable keeps its shape; a call is outstanding only for a router the
\* setup node waits for, and a table files each rule under its own key.
TypeOK ==
  /\ pc \in [Reqs -> Stages]
  /\ fwd \in [Reqs -> Paths \cup {<<>>}]
  /\ rev \in [Reqs -> Paths \cup {<<>>}]
  /\ ctxDone \in [Reqs -> BOOLEAN]
  /\ err \in [Reqs -> BOOLEAN]
  /\ clients \in [Reqs -> SUBSET Nodes]
  /\ pending \in [Reqs -> SUBSET Nodes]
  /\ \A q \in Reqs : unsent[q] \subseteq pending[q]
  /\ \A n \in Nodes : \A k \in DOMAIN tbl[n] : k \in 1..nextID[n] /\ tbl[n][k].key = k
  /\ crashed \in BOOLEAN

\* The edge of transport tp that is not n, or n when both are.
RemoteEdge(tp, n) == IF tp = {n} THEN n ELSE CHOOSE m \in tp : m # n

\* How a packet travels: from a rule of n to the visor at the other edge of
\* the rule's transport, under the rule's next route ID.
Hop(at) ==
  LET r == tbl[at.node][at.id]
  IN  IF at.id \in DOMAIN tbl[at.node] /\ r.type # "Consume"
      THEN [node |-> RemoteEdge(r.nextTp, at.node), id |-> r.nextID]
      ELSE at
Walk(n, id) ==
  LET w[i \in 0..MaxHops] ==
        IF i = 0 THEN [node |-> n, id |-> id] ELSE Hop(w[i - 1])
  IN  w[MaxHops]

\* The setup node installs all intermediary rules before either edge learns of
\* the route (CreateRouteGroup): a packet that a registered group sends is
\* never stranded at an intermediary, it reaches the visor of the other edge.
RouteIsComplete ==
  \A n \in Nodes : \A g \in groups[n] :
    Walk(n, g.fwd.key).node = g.desc.src

\* Setups that share routers do not cross: a packet of a registered group meets
\* no rule at the other edge but a consume rule, and that rule names the
\* descriptor under which the peer has registered (or will register) its group.
NoCrossWiring ==
  \A n \in Nodes : \A g \in groups[n] :
    LET at == Walk(n, g.fwd.key)
    IN  at.id \in DOMAIN tbl[at.node] =>
          /\ tbl[at.node][at.id].type = "Consume"
          /\ tbl[at.node][at.id].desc = Invert(g.desc)

\* Two registered ends of one route can talk in both directions: each end's
\* packets are consumed at the other one, by the consume rule of its group.
EndsMeet ==
  \A n \in Nodes : \A g \in groups[n] : \A h \in groups[g.desc.src] :
    h.desc = Invert(g.desc) =>
      /\ Walk(n, g.fwd.key) = [node |-> g.desc.src, id |-> h.rev.key]
      /\ h.rev.key \in DOMAIN tbl[g.desc.src] /\ tbl[g.desc.src][h.rev.key] = h.rev

\* The routes of the registered groups are complete, do not cross and meet
\* (CreateRouteGroup, GenerateRules, forwardPacket).
RoutesAreSound == RouteIsComplete /\ NoCrossWiring /\ EndsMeet

\* A rule is never replaced: IDs are reserved before they are used, so no
\* setup, however late its calls are handled, overwrites a rule of another.
RulesKept ==
  [][\A n \in Nodes : \A k \in DOMAIN tbl[n] : k \in DOMAIN tbl'[n] /\ tbl'[n][k] = tbl[n][k]]_vars

\* Every setup ends unless the setup node crashes: CreateRouteGroup returns,
\* whatever the routers do, because every dial and every call returns when the
\* deadline has passed.  The crash is excepted, not excluded: when the deadline
\* passes while dials are under way, MakeMap drops their results and returns the
\* partial map without an error (map.go:39), where map_test.go:90 expects one if
\* "some dials fail", and the first call through a missing client panics
\* (routerclient.go:77), which ends every other setup of the node too.
SetupEnds ==
  \A q \in Reqs : pc[q] = "dial" ~> (pc[q] \in {"done", "established", "failed"} \/ crashed)
=============================================================================
