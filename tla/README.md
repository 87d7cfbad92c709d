# Skywire: a verification project

Skywire visors carry traffic of applications over routes: sequences of
transports between visors, set up by a setup node and described by rules in each
visor's routing table. A hypervisor commands visors, and the manager, a browser
application, is its user interface. This project models two parts of the
repository in TLA+:

* **the routing core** (Go, `pkg/routing`, `pkg/router`, `pkg/setup`): the routing
  table, route groups, the router and the setup node;
* **the manager** (TypeScript, `static/skywire-manager-src/src/app`): the VPN client,
  the pages and their polling, the lists, windows and forms of a visor, and the
  data in the browser's storage.

TLC checks the models on small instances, and TLAPS proves for all instances the
safety of the routing table, of route groups, of the router, of the routes that setup
nodes make, of the manager's storage, of the polling of its pages, of both services
behind its VPN pages, and of the lists and windows of a visor.
`PROJECT.json` lists the components, runs, mutants, the lines of source behind every
definition, findings, hazards and theorems.
Source paths below are relative to `src/`; UI paths to the manager's `app/`.

## The system

### Routing core

| component | state | operations | interacts with |
|---|---|---|---|
| routing table (`pkg/routing/table.go`) | `nextID`, `rules`, `activity` | `ReserveKeys`, `SaveRule`, `Rule`, `UpdateActivity`, `DelRules`, `CollectGarbage` | called by the router, route groups and the setup RPC |
| route group (`pkg/router/route_group.go`) | mutex, `readCh`, `closed`, `remoteClosed`, `closeInitiated`, `closeDone`, buffers, rules, transports | `Read`, `Write`, `Close`, handlers of data, close, ping, pong, error and handshake packets, service loops | its peer by packets; the router's goroutine calls the handlers |
| router (`pkg/router/router.go`) | `mx`, `accept`, `done`, `rgsRaw`, `rgsNs` | `DialRoutes`, `PingRoute`, `AcceptRoutes`, `IntroduceRules`, packet handlers, `rulesGC`, `Close` | setup node, transports, route groups, networker |
| setup node (`setupnode.go`, `id_reserver.go`, `map.go`) | per request: clients, reserved IDs, rules | `CreateRouteGroup`: dial, reserve, generate, broadcast | routers by RPC |
| setup RPC (`rpc_gateway.go`, `routerclient.go`, `setup_rpc_gateway.go`, `setupclient.go`) | calls in flight | `ReserveIDs`, `AddIntermediaryRules`, `AddEdgeRules`, `DialRouteGroup` | connects visors and setup nodes |
| skywire networker (`pkg/app/appnet`) | ports, listeners, `isServing` | `Dial`, `Ping`, `Listen`, `serveRouteGroup`, `serve` | router, applications |
| managed transport, transport manager, settlement handshake (`pkg/transport`) | `transportMx`, `tps`, `readCh`, `done`, `wg`, signed entries | serve, write, close; save, accept, delete, reconnect | router, network clients, discovery |
| application server, launcher, identifiers, events (`pkg/app`) | processes, connections, IDs, subscribers | start, stop, register, broadcast | networker, visor |
| visor, clients of outside services, VPN, proxy, commands | configuration, HTTP and RPC sessions | delegation and I/O | all of the above |

### Manager

| component | state | operations | interacts with |
|---|---|---|---|
| VPN client service and pages (`services/vpn-client.service.ts`, `components/vpn`) | last state, working flag, requested server, subscriptions, retry counts | poll, `start`, `stop`, `changeServerUsingHistory` and the like, page and dialog callbacks | the vpn-client app of the visor over HTTP, saved data |
| saved data of the VPN (`services/vpn-saved-data.service.ts`) | version, server map, selected server, in each tab and in local storage | flags, history, personal data, `checkIfDataWasChanged`, `saveData` | other tabs through local storage |
| pages and polling (`multiple-node-data`, `single-node-data`, `node-list`, `node`, `page-base`, `auth`) | timers, subjects, expiry of left visors, values saved in the browser's history, session | navigate, back, poll, answer, expire, log in | hypervisor over HTTP |
| lists of a visor (`transport-list`, `route-list`, `node-apps-list`) | filtered, ordered and paged elements, selections, confirmation dialog | filter, order, select, delete, start, stop, bulk operations | `NodeComponent`'s polled visor |
| windows and forms (`bulk-reward-address-changer`, `skysocks-client-settings`, `log`, `node-logs`, the settings forms, `button`, `confirmation`) | their requests, results and buttons | open, check, confirm, request, answer, close | hypervisor over HTTP, the page beneath |
| local storage (`storage.service.ts`, `node.service.ts` `getNodes`) | labels and visors, caches of each tab | `saveLabel`, `setLocalNodesAsHidden`, `updateLocalNodesData`, migrations | other tabs, the visor list |
| server list, settings, details, start-up | one value at a time | display and delegation | all of the above |

What is hard in this code:

* **Route group.** Up to five threads share a group, some without its mutex; the
  close handshake is symmetric and has a timeout; one goroutine per visor
  handles the packets of every group. Correct means: bytes arrive in order and
  complete, every `Close` returns, the peer learns of a close, a group is torn
  down once, and the packet goroutine never waits for ever.
* **Routing table.** A 32-bit counter, a clock read outside the lock and
  deletions that lock key by key. Correct means: IDs are unique, rules and
  activity agree, only idle rules are collected and all of those are.
* **Setup.** Concurrent requests over shared routers, failures of any dial or
  call, calls handled after their caller gave up. Correct means: edges only
  learn of complete routes, routes do not cross, every setup ends.
* **Router.** One mutex around a bounded channel and two maps, with groups that
  move between the maps while packets look them up. Correct means: edge rules
  are neither lost nor repeated, an open group is the registered one, dialing,
  accepting and closing end.
* **VPN client.** One service polls an app that others may change while its own
  requests fail after or before they took effect. Correct means: an operation
  meets no older answer, the polling never stops, and what the pages show
  becomes what the visor does.
* **Saved data and local storage.** Tabs share arrays that each writes as a
  whole, with copies of them, and with objects held over a dialog or a request.
  Correct means: a tab misses no change, loses nothing another one saved, and
  together they are one store.
* **Pages.** A page restores what it saved in the history, subscribes anew, and
  leaves a stop request behind that expires later. Correct means: the page on
  screen is polled, the others finally are not, a lost session is noticed.
* **Lists and windows.** Data is replaced under selections, dialogs and requests;
  requests of several visors end in any order, some after they took effect.
  Correct means: nothing is done that was not accepted, what is shown is what
  was answered, lists written as a whole keep their entries, no window is busy
  for ever. The code falls short of this in three places, named below.
* **Transports.** Locks held across waits, entries replaced while their old
  goroutines still run. Not modelled.

## Modules

### Routing core

`RoutingTable` — one action per method of `memTable`; `SaveRule` is two actions,
because the clock is read before the lock, and `DelRules` is one per key. The
clock is represented by ages: `activity[k]` is the time since the last activity
of rule `k`, and `Tick` lets time pass for stored rules and for `SaveRule` calls
in flight. `granted` records the IDs each caller got, and is what the uniqueness
property speaks of. `RoutingTableProofs` holds the theorems.

`RouteGroup` — both ends of a group. `rg[e]` is the `RouteGroup` value, `rt[e]`
the two rules of the end, `net[e]` the packets on their way to it, `pc[e]` the
control of its threads: the application and the collector in `Close`, the
router's packet goroutine, a reader, a writer and the ping loop. A step is the
code between two accesses to shared state, so the windows between a check, a
mutex and a channel operation are there. A panic (negative `WaitGroup`, close of
a closed channel, send on a closed channel) stops the visor. `plan` is chosen
once, from `Plans`: which threads a behaviour has, and whether the transport may
break. `RouteGroupProofs` holds the theorems.

`RouteSetup` — several requests to setup nodes. `pc[q]` is the stage of
`CreateRouteGroup`, `pending[q]` the routers its current loop still waits for,
`net` and `replies` the calls and answers under way. A call given up stays in
`net` and may be handled at any later time, or never. Route IDs are popped in the
order of `GenerateRules`. A path is the sequence of its visors; a transport is
identified by its two edges. `Walk` follows the rules of the tables as
`forwardPacket` does, for at most `MaxHops` hops, which the route finder never
exceeds (`Config.MaxHops`). `PathsAssumption` says that requests are named by
their ephemeral ports, none of which is a listening port. `RouteSetupProofs` holds
the theorems.

`Router` — one visor. An edge (`EdgeRules` value) stands for its consume rule and
for the group made from it; `save[e]` is where `saveRouteGroupRules` is with it.
Every critical section of `mx` is one step, except in `IntroduceRules`, which
blocks on the accept channel while it holds `mx`; the variable `mx` records that.
As in `RouteGroup`, `plan` is rigid: the edges, the packets, and whether rules
time out and `Close` is called. `RouterProofs` holds the theorems.

The four overlap at named interfaces: `RouteSetup` takes from `RoutingTable` that
IDs are fresh (there `UniqueIDs`, proved); `Router` treats a group as open or
closed, which `RouteGroup` refines into the close protocol.

### Manager

JavaScript runs one callback at a time, so an action is a callback with all that
it calls; what interleaves are answers, timers, the user, other tabs and the
visor. A request that fails may have taken effect or not. The fields of a
component are the fields of one record, and its methods are operators on it.

`VpnClient` — one tab: the service, the page shown, the guard, the dialogs of
`vpn-helpers` and the visor's app (`app`), which others may change. `VpnSavedData`
— the storage, the copy of each tab, and the server objects that dialogs and
requests hold. `VpnManager` composes both: `service` says which of the two a
behaviour is about, since they meet only in calls that `VpnClient` models with
the part of the saved data it reads. A server is requested from a list
(`processFromDiscovery`, which leaves its name and note alone) or with the form that
adds one by hand (`processFromManual`, which writes both). Name and note are one bit,
whether there is any. `VpnManagerProofs` holds the theorems about both.

`NodePages` — one tab with its browser history (`hist`), the page on screen
(`view`), the two polling services and the session. Navigation destroys a page
before it makes the next, whose constructor restores the saved value.
`NodePagesProofs` holds the theorems.

`VisorStore` is the abstract specification of the data in the local storage: one
label per id, changed only by the user, and a set of hidden visors that come back
only after they were online. `ManagerStorage` implements it with tabs, caches,
migrations of two older formats and the request of `getNodes`; its refinement
mapping reads the labels through the migrations still to be made (`Loaded`), the
hidden visors from the stored array, and `online` from the visors.
`ManagerStorageProofs` proves the refinement.

`NodeLists` (transports, routes, apps and the autostart switches), `BulkRewards`,
`ClientSettings`, `LogWindows` and `FormDialogs` model one kind of list or window
each. `NodeDialogs` composes them: windows are modal, so a behaviour is about one of
them (`window`), and fairness and the properties are stated once for all. The inner modules carry their own properties as operators.
Where a property compares with what was before, the state has a history variable:
`logs.before` is what the window of a log had when it was last answered, `form.about`
the value of the request that the last message is about, and `visor.dropped` the
persistent transports that a put left out.
What `filter()` of an array returns is `Picked` of `Subsequences`: the elements at the
positions that pass. It is `SelectSeq` said without recursion, which the provers can
not look into; `MCNodeDialogs` checks that the two agree (`PickedIsSelectSeq`).
`NodeDialogsProofs` holds the theorems, in a section for each window.

`MC...` modules instantiate these for TLC. Definitions named for a slip
(`...Early`, `...NoCtx`, `...Never` and so on) are not part of the specifications:
each is a plausible slip in the code that the property paired with it in
`PROJECT.json` must detect.

## Runs

| run | shows | bounds |
|---|---|---|
| `table` | IDs unique up to exhaustion, rules and activity in step (`Consistent`), no revival, only idle rules collected, abandoned ones finally collected | 2 callers, IDs 1 and 2 of a counter that ends at 3, 1 save in flight |
| `rg_data` | all bytes arrive in order before the end of file; tear-down before it and without a second close of a channel | 2 packets of 2 bytes, a 1-byte reader, `readCh` of 1, both ends close at any time |
| `rg_live` | every `Close` returns and tears down all but the consume rule, the peer learns of it and of the error, the packet goroutines are never stuck, as long as no visor panics | one end closed by its application, the other by the collector, a transport that may break; or 2 packets for a `readCh` of 1, a ping the other way, a close with an error |
| `setup` | complete routes that do not cross, no overwritten rule, every setup ends unless the setup node crashes | a dial A-B-C and a ping A-B-A at once, failures at A and B, deadlines, a malformed path, routers that may never answer |
| `router` | the hand-over of edge rules; an open group is the registered one; `AcceptRoutes`, `DialRoutes` and `Close` return | 4 plans over 3 incoming edges and 1 dial, two of one descriptor, a channel of 1, failing handshakes, packets, collection, `Close` |
| `vpn` | no older answer during an operation, polling never silent, pages converge to the visor; no tab misses, loses or refuses what another saved, but for the form that adds a saved server by hand | 2 servers, 1 retry of each kind, 6 disturbances (user, faults, outside); 2 tabs and 4 versions |
| `pages` | the page on screen is polled and gets data, left ones are forgotten, a lost session leads to the login | 2 visors, one unknown, 2 entries of history, 3 faults or reloads |
| `storage` | caches hold what the storage holds, but for other tabs' changes; the tabs implement `VisorStore`; a deleted visor leaves the list | 2 visors, 1 label, 2 tabs, data of 2 older formats, 2 changes by the user and 2 by the visors |
| `dialogs` | selections, pages, consent, outcomes, history, logs, final messages, and that no window stays busy but one dialog of a list of routes | 3 visors, elements or servers; pages of 2, histories of 2, logs of 3 lines of which 2 are shown, 2 complete transports and a persistent one, up to 3 requests |

Why the bounds are enough for the questions asked: a full channel, an exhausted
counter, a packet larger than a read buffer, a descriptor used twice, a page that
loses its last element, a history beyond its limit, a retry that is the last one
and a tab that is two versions behind all occur in these instances; the races
found need two or three actors and one message each. The safety
properties of the runs do not depend on bounds at all: they are proved, some of
them under a hypothesis that is said below.

Where the properties of a run belong together they are conjoined under one name:
`Consistent` (`UniqueIDs`, `ReserveLoopEnds`, `ActivityTracked`), `TornDownInOrder`
(`TornDownBeforeEOF`, `ClosedOnce`), `ReadIsComplete` (`ReadInOrder`,
`NothingLostAtEOF`), `CloseEnds`, `RoutesAreSound` (`RouteIsComplete`,
`NoCrossWiring`, `EndsMeet`), `CallsReturn`, `OperationAlone`, `SavedDataHold`,
`PagesSettle`, `CachesAreTrue` and those of `NodeDialogs`, whose parts are named in
the modules of the windows. The mutants in `PROJECT.json` break the parts one by
one.

Three runs expect a violation. Each checks one statement of a comment that the
code does not keep; `findings` in `PROJECT.json` quotes it.

| run | statement not kept |
|---|---|
| `router_full` | `AcceptRoutes` returns the group of the rules it received (deadlock with a full channel) |
| `vpn_stop` | `stop()` stops the VPN (a forgotten requested server is switched to, and started) |
| `pages_own` | a page's sub-pages get the data of the visor on screen (a leaked subscription) |

The other runs ask what holds apart from that: `AcceptReturns`, a part of
`CallsReturn`, is about plans whose edges fit in the channel (`Room`); no stop fails in
`vpn`; and `CurrentNodeIsOwn` is not asked of `pages`.

### Exceptions made by name

Eight properties hold only with an exception, which their formula names and their
comment explains. Each exception is a place where the code does not do what one
would expect, or what a comment or a test says; the run passes because the property
states what the code does, not because the case is left out. All of them occur in
the instances.

| property | exception | source |
|---|---|---|
| `CloseEnds` (`RulesGone`) | `close()` deletes the forward rule only, though its comment promises both; the consume rule goes with the response, a Close packet of the remote or its timeout, and stays if the transport broke or the peer panicked | `pkg/router/route_group.go:593`, 622-627 |
| `CloseEnds`, `RouterNeverStuck`, `PeerLearnsOfClose` | a visor that panics tears down nothing and answers nobody; closing itself makes it panic when `closeDone` falls below zero | 708-711 |
| `SetupEnds` | the setup node crashes: when the deadline passes during the dials, `MakeMap` returns a partial map without an error, where a test expects one, and a call through the client that is missing panics | `pkg/setup` `map.go:39`, `map_test.go:90`, `routerclient.go:77` |
| `UserDataKept` (`AddedBare`) | adding by hand a server that is saved overwrites its name and note with those of the form, empty ones too, without a question about them | `services/vpn-saved-data.service.ts:359-372` |
| `ShownIsTrue` (`NodeLogIsFiltered`) | the limit of the entries that the window of a visor's log can show counts those of one answer; each refresh of the user adds up to as many and repeats the ones both answers have | `node-logs.component.ts:118`, 234-317 |
| `DataHold` (`ListKept`), `ShownIsTrue` (`ToldTruth`) | a second creation of a transport, sent when typing has enabled the button again, may put a list from before the first one's put and drop its persistent transport; the user who was told of it is not told that it is gone | `create-transport.component.ts:99-163` |
| `WindowFree` (`LockedIn`) | the dialog of a list of routes whose selection vanished while it asked stays in Processing for ever, and can not be dismissed | `route-list.component.ts:284-303`, 413-415 |

### Behaviour no property forbids

The models also contain behaviour that the code has and that is worth knowing; a
change of the code there calls for a property. Those marked * are outside the
models.

* `RouteGroup`: a Close packet handled without a pending request makes `closeDone`
  negative (route_group.go:711, against the comment at 708), and a data packet
  past the first check is sent on the closed `readCh` (685, against 675): both
  panic. Two callers of `Close` at one end can both get past the check of `closed`;
  `ClosedOnce` is therefore checked, and proved, with one caller per end. The
  keep-alive loop sends on its own tick, whatever the rules' keep-alive (502)*.
* `RouteSetup`: a dial that succeeds after the deadline leaks its client*. The check
  in `fetchPingRoute` lets a path through that avoids the pinged visor (router.go:1134).
* `Router`: `IntroduceRules` may send on the closed `accept` channel after `Close`
  (1212); a failed handshake leaves its descriptor in `rgsRaw` (521); a packet may
  be dropped while its group moves from `rgsRaw` to `rgsNs` (648); the consume rule
  of a group that was dialed again stays, and its timeout closes the new group
  (1313); a Close packet for a replaced group removes the entry of its successor,
  so `OpenGroupRegistered` is about plans where it can not (`CloseIsOwn`); one failed
  group ends `serveRouteGroup` (skywire_networker.go:147); `putConn` may send on a
  closed channel (242)*.
* Transports*: `WritePacket` closes, with the lock held, what locks it again
  (managed_transport.go:363); the manager's `Close` waits with its lock held for
  goroutines that take it (manager.go:540).
* `VpnClient`: a stop that is recovered after its retries ends as a success without
  one (vpn-client.service.ts:507), so the page shows what the last poll said until
  the next; `stopRequested` keeps the page busy (vpn-status.component.ts:205-215);
  whether `blockServer` must stop the VPN is computed when its dialog opens
  (vpn-helpers.ts:488). A stop during a change of server that failed but took effect
  is recovered with the value true, which `processAppData` takes for a running app
  (vpn-client.service.ts:507-539): after the change `start()` is refused (448) and the
  polling ends until a reload. `OperationAlone` is about stops that do not fail
  (`"stop"` is not in `FaultyOps`).
* `VpnSavedData`: when the app of the visor has no server, the tab that notices takes
  the selection away; `initialize` sets a selection only if there is one
  (vpn-saved-data.service.ts:160), so the copies of other tabs keep theirs, against
  the comment at 589, and their next save brings it back, also when the server is
  not in the list any more. `SavedDataHold` is about a visor that has a server
  (`None` is not in `VisorPks`). `updateHistory` is never called.
* `NodePages`: `forceFail`, set by a failed check of the session, is only reset by a
  login; a restored `notFound` is not asked again.
* `ManagerStorage`: each save is a read-modify-write of a whole array, and the caches
  of other tabs stay behind until they load. A visor that an entry of the oldest
  format hides stays among the visible ones of the cache until the app is loaded
  again (storage.service.ts:199-203); the instance has no such entry.
* `NodeLists`: bulk operations end at the first failure; an empty selection may be
  accepted when the elements left while the dialog was open (not in routes).
* `ClientSettings`: a server of the history that is chosen from the discovered ones, or
  typed, loses its note. `LogWindows`: closing the choice of a level without a choice leaves no level, and `filter` fails
  from then on (node-logs.component.ts:196-199). `FormDialogs`: a button becomes
  usable again when the form's validity flips while it loads
  (button.component.ts:35-52).

## Fairness

* `RoutingTable`: the collector's ticker fires again and again, and time passes.
* `RouteGroup`: as long as a thread that may not stop can run, one of them does. A
  group has no thread that can go on for ever alone (packets are bounded and the
  loops wait), so this is enough for each of them; `Close`'s two-second timer fires;
  the application reads until an error; nothing is assumed of the remote's
  application or of the network beyond the transport working while it is up.
* `RouteSetup`: the setup node's goroutines run, a dial returns at the latest when
  its context is done, the 30-second deadline fires and a call whose context is
  done returns. Routers may never answer.
* `Router`: goroutines run, waits for handshakes end by their timeout, and a
  mutex that is free again and again is granted in the end (strong fairness over
  the edges that want it; Go's mutexes hand over to a starving waiter). Packets,
  dials, introductions and `Close` need not happen.
* `VpnManager`: timers fire, requests are answered or fail. `NodePages`: the loops and
  the expiry timers run. `ManagerStorage`: the list is polled and answered.
  `NodeDialogs`: a request is answered or fails; for the log of a visor, which is
  asked for again after each failure, not all attempts fail (strong fairness of the
  answer). The user, other tabs and the visors owe nothing, and disturbances are
  bounded.

Deadlock is not reported where a system may come to rest (everything closed, all
requests done, no window open).

## Proofs

`RoutingTableProofs` proves, for every set of callers, every counter limit
`MaxUint32`, every bound on reservations and saves and every set of keep-alive
times below `MaxIdle` (the assumption `ConstantsAssumption`):

* `TypeCorrect` and `TableIsConsistent`: the invariants of the run `table`;
  `IDsAreUnique`, `ReservationLoopEnds` and `ActivityIsTracked` are the parts;
* `TimedOutStaysOut`, `OnlyIdleCollected`: its action properties.

The inductive invariant is
`IInv == TypeOK /\ ActivityTracked /\ UniqueIDs /\ GrantedBelowNext`.
`UniqueIDs` is not inductive alone: that a new reservation `nextID+1 .. nextID+n`
is disjoint from all earlier ones needs `GrantedBelowNext`, which says that every
ID granted lies in `1 .. nextID` and that `nextID` stays below the limit. The
latter also gives `ReserveLoopEnds`. `ActivityTracked` is needed by the two
action properties: a stored rule has an age, so being timed out means being idle.
`NextIInv` has one case per action; `DelRuleKeeps` is the lemma shared by
`DelRules` and `CollectGarbage`.

`RouteGroupProofs` proves, for all plans, numbers and sizes of packets, read buffers
and capacities of `readCh` (`ConstantsAssumption`), the safety of the runs `rg_data` and
`rg_live`: `TypeCorrect`, `TornDownFirst` (`TornDownBeforeEOF`), `ReadComplete`
(`ReadIsComplete`) and `ErrorKnown` (`ErrorKnownAtEOF`), and `TornDown` (`TornDownInOrder`)
for plans in which no end has two callers of `Close`. Here no lock helps: the router
runs `close()` without the mutex that `Close` holds. The inductive invariant is the
conjunction, for both ends, of

* `Steps` and `Announced`: how far a thread in `close()` got tells what it left behind,
  and a caller of `Close` has set `closeInitiated` before anything else of it is
  seen. `closeInitiated`, `closed` and `remoteClosed` are never taken back.
* `TornByRouter`: as long as an end has not both announced a close and closed `closed`
  (`Gapless`), only its router tears it down, and once it did it pushes no packet.
  So what is dropped or refused by the select of `handleDataPacket` was behind the
  Close packet.
* `Farewells`, about both ends at once: a Close packet is under way or taken only
  after the other end said farewell. An end that did not initiate says its
  farewell after the remote's; this is why the first farewell is an initiator's,
  which sends the Error packet, and sends it first.
* `Bytes`: the bytes `1 .. sent` of the remote lie in order in what `Read` returned, in
  `readBuf` and the packet just received, in `readCh` and in the packets under way.
  `Holds` says which bytes a chunk holds, and queues and paths have an offset for
  each chunk, so that no step needs an induction over their length. While an end is
  `Gapless` and still pushes, nothing is missing between `readCh` and the path; a
  Close packet comes after the bytes that were sent before the farewell.
* `Handled`, `Reading`, `Whole` and `Buffered`: the packet that the router works on is the
  head, leftover bytes are read first, and the bounds of a writer and of `readCh`.

`OneCaller` is added for `ClosedOnce`: the router does not close `closed` unless a close
is announced, and then the one caller of `Close` is past `closeClosed`.

`RouterProofs` proves, for all edges, descriptors, plans and sizes of the accept
channel (`RouterAssumption`), `TypeCorrect`, `EdgesHandedOver` (`HandOver`) and
`OpenIsRegistered` (`OpenGroupRegistered`), the three invariants of the run `router`.
The inductive invariant is `IInv == TypeOK /\ HandOver /\ Waiting /\ InPlan /\ Groups`:

* `HandOver` needs `Waiting`: an edge in the channel is not in a call of
  `saveRouteGroupRules` yet, so `AcceptRoutes` starts each call once.
* `OpenGroupRegistered` is the last part of `Groups`. When a group is installed,
  the group it replaces must be closed or in the hands of `rulesGC`; that is
  `Replaced`, which starts from what the first critical section read in `rgsNs`
  and stays true because no other call installs a group in between: the entry
  of `rgsRaw` is held by the call (`RawHeld`). `Registered` (groups in `rgsNs` were
  returned) and `CloseDelivered` are for the deferred `removeNoiseRouteGroup`: the
  group that got the Close packet is closed, and is the only one of its
  descriptor by `CloseIsOwn`.
* `InPlan` relates what the router works on to the plan, which `CloseIsOwn` is about.

`RouteSetupProofs` proves, for all visors, requests, paths up to any length `MaxHops`
and sets of failures and deadlines (`PathsAssumption`), `TypeCorrect`, `RulesAreKept`
(`RulesKept`) and `RoutesSound` (`RoutesAreSound`), the safety of the run `setup`. The
inductive invariant is `IInv == Types /\ Reserved /\ Calls /\ Progress /\ Tables`:

* A rule is determined by its visor and its ID: an ID is granted once (`Reserved`),
  and `GenerateRules` pops each of them once (`PoppedOnce`, from the positions of the
  hops of a path, `Positions`). Hence two rules with one ID are the same rule of
  the same request (`RuleOfKey`).
* What a request generated is frozen (`Frozen`, `Kept`), so a call that a router handles
  late, even after its caller gave up, saves what is there already or what nobody
  else will save (`Saved`); that is `RulesKept`.
* `Calls` and `Progress` say what is true when an answer arrives: each router whose
  answer the broadcast counted has the rules of the request (`InstalledKept`), so
  that edges get their rules only when the whole route is there.
* `WalkAlong` gives the walk of a packet as an explicit function of the hop, and
  `WalkIs` its uniqueness, by a least hop at which two walks would differ (`Least`);
  from there follow `RouteIsComplete`, `EndsMeet` and `NoCrossWiring`.

`ManagerStorageProofs` proves, for all visors, labels, tabs and left-over data
(`ManagerStorageAssumption`, `LeftoversAssumption`):

* `TypeCorrect`, and `TabsImplementStore`: initial states map to initial states of
  `VisorStore`, and each action to one of its steps or to a stutter. The inductive
  invariant is `TypeOK /\ LoadedFirst /\ SeenFirst`. `LoadedFirst`: once a tab is loaded
  nothing is left to migrate, so that a later write of a whole array cannot undo
  a migration. `SeenFirst`: a visor that is reported online has been seen online
  since it was hidden, which is what allows `updateLocalNodesData` to show it again.
* `CachesCorrect`: `LegacyHidesNone => (Spec => []CachesAreTrue)`. The hypothesis is about
  the left-over data, and true in the instance: no entry of the oldest format hides
  a visor that the unscoped array has as visible. Without it the cache of the tab
  that migrates is wrong, as said above.

`NodePagesProofs` proves, for all visors, histories, lost sessions and failed polls
(`NodePagesAssumption`: no visor is called like a page), `TypeCorrect` and `ShownPolled`
(`ShownIsPolled`). A navigation is a function of the state, and so is an emission, so
lemmas say what `Leave`, `Enter`, `Push`, `Replace`, `Pop` and `Emit` return from any state
of the right types; the actions are compositions of them. `Enter` makes a page that is
polled whatever was left behind, and an emission keeps it so, also when it goes to a
subscription that leaked (`PolledKept`). With its types, `ShownIsPolled` is inductive as it
stands.

`VpnManagerProofs` proves, for all servers, tabs, data of an earlier session, retries and
numbers of saves (`VpnManagerAssumption`), `TypeCorrect` and:

* `SavedDataIsConsistent` (`SavedDataHold`, if `None` is not in `VisorPks`) and
  `UserDataIsKept` (`UserDataKept`). `Effects` reduces the twelve actions to four effects:
  none, the tab is closed, it reads the storage, or it reads it and saves a list that
  differs in one server. The inductive invariant is `StoreInv`, that is
  `TypeOK /\ HeldKnown /\ Copies /\ NoSaveRefused`: no copy has a version beyond that of the
  storage, and one with the same version has its list (`Copies`), so that what is
  saved always starts from the latest list; then `Put`, `cleanServers` and the objects
  that were held (`HeldKnown`) can only change the server in question; the form that adds
  one by hand is the exception of `UserDataKept` (`AddedBare`). `Selection` is the
  part about the selected server: with a server in the visor, none that was selected
  is ever taken away.
* `PollsStopForOperations` (the first part of `OperationAlone`), whatever fails, from `Base`:
  an operation makes the service busy, has stopped the poll, and is never under way
  during the initial check, in which alone a poll may start in a busy service.
* `OperationIsAlone`: `"stop" \notin FaultyOps => (Spec => []OperationAlone)`. The invariant
  adds `Alone`: a service that is busy without an operation is in its initial check;
  the state is `Disconnecting` only during a stop, and `Off` during a change of server,
  so that the start that follows it is not refused; a stop that was answered found the
  app stopped; and without an operation the poll is on, but on the error page and
  after a lost session. It needs `AskedWhileFree`: the window that asks for a change of
  server is only open while the service is free, since what it asks for is done
  without another check. The hypothesis is true in the run `vpn`; without it the
  property is false, as said above.

`NodeDialogsProofs` proves, for all visors, elements, servers, histories, levels, page
sizes and bounds (`DialogsAssumption`), the safety of the run `dialogs`: `WindowTypes`
(`TypeOK`), `NothingUnaccepted` (`OnlyConsented`), `ShownIsTrueAlways` (`ShownIsTrue`),
`ListsAreTrue` (`ListIsTrue`), `DataAlwaysHold` (`DataHold`) and `ClientAlwaysKeeps`
(`ClientKeeps`). The assumption says of the data that windows start from only what the
code leaves there: a stored history has each server once and no more than the limit,
and the discovered servers are a sequence of servers. `DialogsInv` is the invariant of
the window that is open:

* `BulkInv`: once the changes run there is one change under way for each index of the
  list whose answer was not counted (`Counted`), and a chosen visor shown as
  processing has such a change (`Outcome`). So the window that counted all answers
  has no visor left that is processing; counting is by cardinality.
* `ClientInv`: a request makes the window busy (`Works`), which is why no button can
  replace it; what is stored is what is shown; and the page is one of those that the
  filter leaves (`InPages`). `AddedFacts` is about `onServerDataChangeSuccess()`: what
  it makes of a history is a history, and no server leaves one that was not full.
* `LogInv`: a request that was not cancelled has the present filter (`Asks`), the
  window of an app is cleared while it asks (`Shows`), and that of a visor has at most
  the limit for each load (`Grows`).
* `FormInv`: each request is honest about what it was made from (`Honest`), so a list of
  persistent transports that is written was read with all the others in it, and what
  a creation saw in the list was there once (`Had`); a transport that left the list was
  put by one request and left out by another (`Lossless`); a form with one
  subscription is `Quiet` when it may ask anew (`Single`).
* `ListInv`: what finished operations deleted is neither in the present data nor in an
  answer that is to come (`DeletedInv`); while a dialog asks, the selection only shrinks
  (`AskedInv`), so what is done is within what was asked; and a list with elements that
  pass its filter shows some (`CompOK`).

Two facts about sequences carry the rest: the ranks of some positions are a bijection
to `1..n` (`RanksFacts`), so that `Picked` has the elements that pass and no others
(`PickedFacts`); and the first row of a page up to the last one exists (`PageStarts`),
so that no page is blank. Both avoid an induction over data by counting.

All proofs are of safety. Liveness under fairness is model-checked only, and so are
the three statements that do not hold.

## Not modelled

* Routing: byte layouts of rules and packets, logging, metrics, latency and
  bandwidth counters; read and write deadlines; route setup hooks; noise encryption
  (a wrapping that succeeds or fails); expiry of rules during a setup.
* The other parts of `pkg` and `cmd`: sockets, files, processes and HTTP, or
  delegation. Managed transports and their manager, the networker's ports and the
  application server would be worth modelling.
* Manager: texts, formats, looks, focus and translations; traffic charts, the
  current IP and the order of histories; the validation of single form fields (one
  bit); the download of discovered servers; pages that write one value; the
  terminals of `UpdateAllComponent`. `UpdateComponent` is dead code: its header says that
  it is not used anymore, and nothing opens it. The server list of the VPN orders and filters
  as the lists of a visor do, and its commands are in `VpnClient`.

`PROJECT.json` names every component left out, with the reason.

## Plan

1. Transports. `ManagedTransport`: `Serve`, `WritePacket`, `Accept`, `Dial` and `Close`
   around `transportMx`, `done` and `wg`. `TransportManager`: the table of transports
   under accept, save, delete, cleanup, reconnect and `Close`.
2. Abstract specifications: a reliable byte stream that `RouteGroup` implements
   while the transport works; a pool of fresh IDs that `RoutingTable` implements,
   used in `RouteSetup` in place of its counter.
