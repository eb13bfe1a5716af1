# xdp-nat-forward: TLA+ models, checks and proofs

xdp-nat-forward is a NAT port forwarder. An XDP program forwards packets in the
kernel, a daemon on the same node keeps its rules and cleans up its sessions, and
a manager gives orders to many nodes. This directory holds TLA+ models of the
parts where concurrency, failure and arithmetic decide whether that works, the
TLC configurations that check them, and TLAPS proofs for every value of the
constants.

`tlc -workers 2 -config <run>.cfg <MC module>` repeats a run, `tlapm <X>Proofs.tla`
a proof; `PROJECT.json` lists runs, mutants, theorems, findings and hazards, and
maps every definition to the lines it was translated from.

## 1. Inventory

| component | code | state | operations |
|---|---|---|---|
| XDP data plane | `forward-ebpf/src/main.rs`, `forward-common/src/lib.rs` | `FORWARD_MAP`, `SESSION_MAP`, `REVERSE_SESSION_MAP`; per run: packet, flow, port, clock reading | forward a client's packet (look up, allocate a port, insert twice), pass a reply back |
| header rewriting | same file, `update_csum_*` | the packet | replace addresses and ports, update checksums incrementally |
| session cleanup task | `forward/src/main.rs:116-173` | clock and timeout readings, condemned sessions | every 10 s: scan, remove sessions, remove reverse elements |
| rules and rules file | `rule.rs`, `cmd.rs`, `http.rs`, `manager_client.rs` | `FORWARD_MAP`, the JSON file | add, delete, list, save, restore, set timeout |
| manager client of a node | `forward/src/manager_client.rs` | connection | connect, report the rules, obey a command and report, answer a query, reconnect |
| rules manager | `forward-manager/src/handlers.rs`, `types.rs` | registry `nodes`, `pending_queries` | register, take reports and answers, unregister; send commands to many nodes; query sessions with a timeout |
| manager frontend | `forward-manager/frontend/src/App.tsx` | the polled node list, target group, checked boxes, selected node, session panel, requests in flight | poll, run effects, choose group, boxes and node, add, remove, Sync, Group Del, query sessions |
| CLI, HTTP signature check, static files, build scripts, frontend entry and development server | `cmd.rs`, `http.rs`, `build.rs`, `main.tsx`, `vite.config.ts` | none that outlives a request | see section 8 |

How they interact. The program on every CPU and the daemon share the three maps;
each map operation is atomic, no sequence of them is. The daemon's tasks share
the `Ebpf` object under a tokio mutex, held for one map operation of a command
and for a whole scan of the cleanup; the rules file is under no lock. Node and
manager exchange messages over a WebSocket. The manager's HTTP handlers and its
connection handlers share the registry under a mutex that is held *while a send
waits for the network*, and the pending queries under another held for one access.
The page polls the registry over HTTP and sends commands to it; in the browser one
handler runs at a time, but each waits for its requests while others run, and React
runs the effects of a new list after it has rendered it.

What is hard here, and what makes each part correct:

* data plane: two CPUs and the cleanup task interleave between map operations.
  A target tells the flows of a node apart by the NAT port alone, so two flows must
  never share one, a flow must keep its port, and a reply must reach the client
  that is lent the port. Session and reverse element are written and removed
  separately; neither may lose the other for good. Idle sessions must go, active
  ones must not.
* header rewriting: one's complement arithmetic with two zeros and the special
  UDP zero; a rewrite must neither damage a good packet nor hide a damaged one.
* rules file: commands race, processes die in the middle of a save, targets do not
  resolve, disks are full. What a client was told should survive.
* manager: nodes vanish and return, old handlers outlive their connection, answers
  are late, ids may coincide, and everybody may wait for everybody.
* page: lists overtake each other, what the operator chose is reset by effects, and
  a click acts on a list that is already old. A command must go to the nodes the
  operator saw checked, a verdict on the rules must be right, and the page must
  catch up.

`PROJECT.json` lists 40 hazards at their lines, with the properties that catch them
or the reason why none does yet.

## 2. Plan

Order: what carries traffic first, then what survives a restart, then the manager and its page.

| step | module | state |
|---|---|---|
| 1 | `NatTable` (abstract), `NatDataPlane`, `NatLease`, `NatPairing`; proofs | done |
| 2 | `Checksum`; proofs | done |
| 3 | `RuleBook` (abstract), `RuleStore`, `RuleHistory`; proofs | done |
| 4 | `Manager`; proofs | done |
| 5 | `Dashboard`, `DashboardHistory`; proofs of the first | done |
| 6 | `Audit`; proofs | done |
| 7 | `query_bpf_sessions` as a scan of `SESSION_MAP` while packets change it; commands for several nodes under the registry mutex with TLC | left |
| 8 | properties of a full `REVERSE_SESSION_MAP` and of NAT ports that are also rule ports | left |

`NatDataPlane` instantiates `NatTable` and `RuleStore` instantiates `RuleBook` under
refinement mappings. `NatLease` and `NatPairing` extend `NatDataPlane` with
its inductive invariants; `RuleHistory` extends `RuleStore` with history variables, `DashboardHistory` extends `Dashboard`. The
modules of different components are not composed. They meet in `FORWARD_MAP` and in
the registry, whose changes each of them takes as free (`AddRule`, `DeleteRule` in
`NatDataPlane`; `ObeyRule`, `LocalEdit`, `NodeRestart` in `Manager`; `Join`, `Leave` in
`Dashboard`; `Handle`, `Report`, `Edit` in `Audit`), so each is checked against every
behaviour of the others. `Audit` simplifies most here, see section 5.

## 3. Modules and code

### NatTable
The promise: `bind[f]` is the port lent to flow `f`. A step opens a lease on a port
that no flow to the same target and protocol holds, closes one, or loses the table.

### NatDataPlane
`fwd`, `sess`, `rev` are the eBPF maps; `cpu[c]` is the run of the program on CPU
`c`: its program counter and local variables. One run is

    Receive -> SessionLookup -+-> RefreshReverse -> TransmitForward
                              +-> Probe* -> InsertSession -> InsertReverse -> TransmitForward
    Receive -> ReverseLookup -> RefreshOwnReverse -> RefreshSession -> TransmitReply

with one action per map operation, so any other CPU and the cleanup task may act
in between. `Receive` is the look-up in `FORWARD_MAP`; a miss leaves to the reverse
path. `Probe` is one iteration of `allocate_nat_port`: candidate ports come
from a u32 hash that wraps (`HashMod`), five are tried (`Probes`), and after
that the packet is dropped. `InsertSession` and `InsertReverse` ignore failure, as
the code ignores the result of `insert`: with a full map the step changes
nothing and the run goes on. The TCP and UDP branches are the same algorithm and
share the actions; the packet's protocol selects the map keys and the timeout.

`cleaner` is the cleanup task: `Wake` reads the clock, `ReadTimeouts` the timeouts,
`BeginScan` takes the mutex, `Scan(f)` judges one session with the saturating difference
(`Elapsed`), `EndScan`, `RemoveSession(f)` and `RemoveReverse(f)` are the two
removal loops in any order of keys. `AddRule` and `DeleteRule` wait for
the mutex, `SetTimeout` does not and multiplies in 64 bits (`U64`), `Restart` empties
everything the process held. `Tick` is time: it may pass between any two
steps, but a run that read the clock is at most `MaxRun` ticks old.

### NatLease, NatPairing
`LeaseInv` is the inductive invariant behind the ports' safety. It describes the maps
only through `Lent` (flow to port) and `Owner` (reverse element to client). `NatPairing`
adds what it leaves out, the times: `PairInv` is behind `Paired`, `AgeInv` behind
`SessionAgeLeads`. `LeasesEndIdle` (in `NatDataPlane`) and `RepliesFollowLeases` (in
`NatPairing`) are action properties: what no step may do to a lease, and with a reply.

### Checksum
The state is a packet between two nodes; each step is the rewriting by one node,
with `csum_fold`, `update_csum_16` and `update_csum_32` as in the code. The words
that rewriting does not touch are one sum (`Remainder`). `arrived` remembers what
the first checksums said.

### RuleBook
The promise of a node with a rules file: a book of rules and what clients were told of
it. The book changes only at keys for which a command is under way or was never answered.

### RuleStore, RuleHistory
`fwd` is `FORWARD_MAP`, `file` the length of the file's text and the rules it
parses to, `task[t]` a command handler between two awaits or system calls:

    BeginAdd -> Resolve -+
    BeginDelete ---------+-> Apply -> List -> Create -> Write -> Reply

`Create` truncates, `Write` is the last piece of a text that is written piece by
piece at the handler's own offset: when saves overlap, the file may hold one
text, one behind the other, or a blend of both (`Overwritten`, `Blends`).
`Abandon` is a handler dropped at an await because its HTTP client left.
`Start`, `RestoreRule`, which may miss a rule, and `Serve` are the start-up; `Exit` is
Ctrl-C, which takes effect at awaits only, or a kill, at any step (`MayCrash`). `acked` remembers what
clients were last told, `past` every configuration the map has been in, and
`overlapped` whether the file's last truncation met another save. `LiveInv` is the
inductive invariant behind `FileWasLive`.

### Manager
Per node: its rules and its client (`retry`, `report`, `read`); per connection:
two bounded channels and the manager's handler (`register`, `loop`, `cleanup`,
`done`). A handler outlives its connection until it notices, which may be when the node
is back already, or never: neither side has a ping, a keep-alive or a read timeout. `met`
remembers the connections whose handler ran beside another of the same node. `nodes` and
`pending` are the manager's two maps. `held` is the registry mutex together with what its
holder still has to send and to whom: `BeginCommand` and `BeginQuery` take it,
`SendCommand` and `SendQuery` wait for room in the channel while holding it, and
`Register`, `HandleReport` and `Cleanup` need it free. `SendReport` or `ReportFails` follows
each connection and each command; `dirty` remembers the nodes whose rules may differ from
those they reported last. `NodeRestart` brings back any rules a file may hold. A query goes
`send -> wait -> answered`, or fails, expires (`TimeOut`, then `GiveUp`), loses its
sender to a query of the same id (`Bereft`) or is dropped with its client (`Abandon`).
Queries are numbered in the order they arrive, which loses nothing: only their ids and
nodes differ, and those are free.
`MayEdit` lets rules change through the node's own interfaces. `load`, chosen at the start
from `Loads`, says which rules and queries a behaviour is about: it bounds the runs.

### Dashboard, DashboardHistory
The page as a whole, without rules. `Poll` is a `fetchNodes` and the manager's answer,
which stays in `fetches` until it is taken (`Land`) or lost (`Miss`), in any order.
`Land` renders the list and leaves `effectsDue`; `RunEffects` is then the three `useEffect`s,
which use the values of the render they belong to: if they replace the target
group, the boxes are those of the old one, and the effects of the next render, another
`RunEffects`, set them right. `SelectNode`, `SelectGroup` and `ToggleBox` are the
operator's clicks, `handleAddRule` and `handleDeleteRule` the commands, with the group
and node ids the page sends (`posts`); `Reached` is the manager's choice of nodes for
them and `Respond` the answer, which fetches the list. `handleQuerySessions` and
`EndQuery` are the session panel. Each node keeps the group it was started with.

`DashboardHistory` adds which boxes the operator has cleared since the target group was set.

### Audit
The rules of one group's nodes, from `port` to `target`, in five places: at the nodes
(`rules`), at the manager (`registry`), in lists on their way (`fetches`), on the page
(`nodes`) and in commands (`posts`). `diffAuditList` is the matrix computed from the page's
list, a row per rule that some node has; `Sync` and `GroupDel` are the buttons of a row,
`AddRule` the form, `Remove` a node's table. `Handle` is a command at the manager and the
nodes, some of which may fail; those in `due` then report (`Report`), which shows all their
rules. `Edit` is a change at a node by others: the manager is not told, and holds the old
rules until that node's next report. `goal` remembers what the nodes should agree on after
a command that was given alone. `load` says which targets, and how many lists and commands
at once, a behaviour is about.

Each definition named `Slip...` is a plausible mistake in the code it stands next
to; putting it in that definition's place must break the property `PROJECT.json` pairs it
with. They are used for nothing else.

## 4. Runs

| run | instance | checks |
|---|---|---|
| `nat_affine` | 2 CPUs, 2 clients, 1 target, 2 NAT ports, timeout 2, clock to 3; competing clients on one CPU, replies on the other | `TypeOK`, `LeaseInv`, `ReverseOwned`, `NatPortOnWireIsOwned`, `ScannedIdle`, `Paired`, `PairInv`, `LeasesEndIdle`, `RepliesFollowLeases`, and that the sessions implement `NatTable` (`TableSpec`) |
| `nat_live` | 1 CPU, 2 clients, fair, timeouts change | `SessionAgeLeads`, `AgeInv`, `ExpiredPurged`, `OrphansPurged` |
| `nat_port_race` | as `nat_affine`, each client on its own CPU | violates `NatPortOnWireIsOwned` |
| `checksum` | words at and next to the ends of the range, chains of any length | `TypeOK`, `ErrorKept`, `PresenceKept` |
| `store_serial` | 1 task, 3 keys, 2 targets, room for 2 rules, stops and restarts | `TypeOK`, `CapacityKept`, `Durable`, `Restored`, `DurableInv`, and that the file implements `RuleBook` (`BookSpec`) |
| `store_chaos` | 2 tasks, 2 keys, 2 targets, kills, unresolved targets, failing disk | `FileWasLive`, `LiveInv` |
| `store_race` | 2 tasks, no failures | violates `Durable` |
| `manager` | 1 node, 2 connections, channels of 1, fair; 1 rule with commands and local edits and 1 query, or no rules and 2 queries that share an id | `TypeOK`, `RegistryExact`, `ViewCurrent`, `PendingIsWanted`, `PendingCleared`, `ViewsCatchUp` |
| `manager_stall` | the same with 1 connection and no local edits | violates `QueriesEnd` |
| `page_targets` | 2 nodes in one group or two, 2 lists and 1 command in flight | `TypeOK`, `FormStands`, `CheckedAreReached`, `PanelFollows` |
| `page_audit` | 2 nodes, 1 port, edits at the nodes, fair; 2 targets with 1 list and 1 command in flight, or 1 target with 2 of each | `TypeOK`, `OneVerdict`, `GroupAgrees`, `ListCatchesUp` |
| `page_boxes` | as `page_targets` | violates `UncheckedStay` |

What the passing runs show:

* If the network card gives all flows that may compete for a NAT port, and all
  packets of one client endpoint, to one CPU (`SteeringSeparates`), ports are never
  shared, no session is without a way back and the maps are each other's inverse when
  nothing is under way, in spite of the cleanup, restarts and changing rules. A flow
  keeps its port until the cleanup takes back the very lease it read as idle
  (`LeasesEndIdle`), and a reply is never redirected to an earlier holder of its port
  (`RepliesFollowLeases`).
  `Paired` needs a timeout of at least twice `MaxRun`: a CPU may store a clock reading
  up to one run old over a newer one, and a session that old may be condemned while its
  run still inserts. Real runs take microseconds and timeouts are seconds.
* A flow on which only its target talks is not cut off; expired sessions and
  orphaned reverse elements do not stay while the maps have room.
* Incremental updates keep the error of the whole packet, also over several nodes.
* Serial commands are durable through stops: the rule of a key stands, in the file, through
  saves for other keys, dropped handlers and restores. No file grows past what a restore can
  add (with races and all failures too, by the theorem `RestoresHaveRoom`). Under all
  failures a file that parses, and that no two saves wrote at once, is some
  configuration the node was in.
* An entry of the registry never outlives the handler that made it. It is lost before that
  only if another handler of the node ran beside it, that is, if the node was back before
  the manager had noticed that it was lost. Unless that happened, the registry shows a
  node's rules once the messages between them are handled, and a node that stays as it
  is comes to be shown so unless some handler keeps the registry's mutex for good. A node
  that is lost is listed until its handler notices, which nothing guarantees.
* The pending map holds no query that has ended, except those whose client left, and no
  query waits without being in it, even when ids coincide.
* A command for checked nodes reaches all of them that are connected: the manager skips
  nodes of another group silently, but boxes and group of the form change together, or
  the boxes follow before anything else is rendered. The session panel shows the last
  answer only.
* Where the audit says Synced, Group Del deletes the rule it stands beside, if the list is
  still right. A group command given alone, or a Sync from a list that agrees with the nodes,
  makes the nodes agree, also one that had another rule on that port. The page ends up with
  what the manager holds; that is a node's rules only as of its last report, so an edit at
  the node shows after the manager's next command to it or its next connection, or never.

What the violation runs show (the findings of `PROJECT.json`):

* `nat_port_race`: the check of a port and the insertion are separate operations.
  On a card that spreads flows by hash nothing keeps two CPUs from lending one port
  twice; the replies of one flow then go to the client of the other.
* `store_race`: lists are taken under the mutex and saved outside it, so the older
  one may be written last; the file then lacks a rule whose client got its answer.
* `manager_stall`: a query is sent under the registry mutex, before its timeout
  starts; the node is blocked sending a report, which the manager's handler takes
  only under that mutex.
* `page_boxes`: `App.tsx:139` means the boxes to be initialized when the group changes,
  but a list makes a new `nodesInTargetGroup` every three seconds, and the effect
  checks all of them again. An operator who takes longer addresses nodes he had cleared.

Other behaviours of the models that a reader of the code should know, which no run
singles out: when `SESSION_MAP` is full the failed insertion is ignored and the reverse
element is inserted anyway, and the cleanup, which follows sessions, never finds it
(`forward-ebpf/src/main.rs:227`); a session refreshed after the scan condemned it is removed all the same
(`main.rs:150`), and `LeasesEndIdle` says only that it is the one that was read as idle; a session found through another rule's port keeps the first
`local_port` (`forward-ebpf/src/main.rs:197`); a timeout of more than 2^64 ns wraps
(`rule.rs:113`); a kill between truncation and write loses every rule
(`rule.rs:134`), a rule missed by a restore is dropped by the next save
(`rule.rs:169`), a failed save is answered like a good one (`cmd.rs:45`); rules
edited on the node show in the manager, and on its page, only after the node's next report
(`manager_client.rs:153`), which also fails to come when the rules cannot be listed; two queries with one id may get each other's answer
(`handlers.rs:243`), though never one asked under a third id (`AnswersReachTheirId`); a
connection that is lost silently, at either end, is noticed only when something else ends it
(`handlers.rs:48`, `manager_client.rs:167`), and until then the manager lists the node and sends
it commands that go nowhere; when the node is back before its old handler has noticed,
that handler's clean-up removes the new entry, by the node's name, and the connected node gets
no commands until it reconnects (`handlers.rs:118`), which is what `met` in `RegistryExact`
and `ViewCurrent` exempts; Remove in the table of a node outside the target
group reaches nobody and succeeds (`App.tsx:201`); the session panel's title names the
selected node while the results are of the node that was asked (`App.tsx:838`); Sync
from a list that is no longer current may leave the nodes apart, and two Syncs of
conflicting rows given together swap their rules (`App.tsx:789`); a Group Del clicked on such a
list deletes whatever the nodes have on that port by then (`App.tsx:770`).

## 5. Bounds, and why they are enough

* Two flows of one target, whose candidate ports overlap, and a hash at the end of u32
  so that the second probe wraps: both flows start at one port (`nat_affine`,
  `nat_port_race`) or at different ones (`nat_live`). A conflict needs two flows
  and one port, and `NatTable` speaks of pairs. A second target or protocol only adds
  disjoint keys. The proofs of the safety properties remove this bound.
* `MaxClock` 3 with a timeout of 2 lets a session open, expire, be condemned, be
  removed and open again. `MaxRun` 1 lets a run store a stale reading.
* `MaxRules`, `MaxSessions`, `MaxReverse` are the maps' sizes, small enough to be
  reached where a run is about that (`store_serial`).
* Checksums: folding differs at words next to 0 and 65535, which the three addresses,
  three ports, two remainders and three checksums combine; the proofs cover every word.
* Two tasks in `store_chaos` and `store_race`: an overlap needs two. `store_chaos` identifies states that
  differ only in what its property does not depend on (`VIEW Seen`) and in the names of
  keys, targets and tasks (`Symmetry`; no definition tells them apart).
* `MaxConn` 2 is one reconnection, `MaxQueue` 1 one message in a direction: enough for
  an answer to wait behind a report and a command behind a query. In reality the TCP buffers
  hold more; a full channel is reached later, and is the same. Two queries that draw one
  id meet in every way; queries with different ids share nothing but the mutex, and that
  their answers do not cross is the theorem `AnswersReachTheirId`. `Loads` keeps two queries
  apart from rules: rules and queries share the mutex and the channels, and one query is
  enough to occupy them. One node: nodes share only the registry mutex. The proofs remove
  these bounds.
* Two nodes are enough for a box that should and one that should not be checked, for two
  groups, and for a rule that is missing somewhere. `MaxFetch` 2 lets one list overtake
  another; one command is enough in `page_targets`, where they do not interact, two in
  `page_audit`, where they do. There `Loads` keeps two targets, which conflicting rows
  need, apart from two lists and two commands, which overtaking and conflicting commands
  (an add and a delete) need. One port suffices, since every command and every row
  concerns one port. The proofs remove these bounds.
* `Audit` takes one target group whose nodes stay connected (`Dashboard` has the rest), so
  the report of a new connection does not occur, and has a node list its rules when its
  report arrives: an edit in between is one just after it. That reports reach the registry
  in the right order is `ViewCurrent` of `Manager`.
* In `Dashboard` a click waits for the effects of a list that was rendered just before;
  a submit does not, which is the case that matters: its values are those of the render.

Deadlock is checked in every run.

## 6. Fairness

* `NatDataPlane`: weak fairness of each CPU's run (the kernel runs a started XDP
  program to its end) and of the cleanup task (a timer and a mutex that no one holds for
  good). None of packets, rules or time.
* `Manager`: weak fairness of what the node's client does with a message or a report
  (`ClientGoesOn`), of the holder of the registry (it goes on once there is room) and of a
  query's timeout; strong fairness of what a connection handler does with a message, its
  registration and its clean-up (`HandlerGoesOn`), because tokio's mutex serves in the order
  of asking, so a handler that asks again and again for a mutex that is free again and
  again gets it. None of noticing a loss, on either side, of connecting again, of failing
  to list the rules, of disconnections, requests or clients that leave. `ViewsCatchUp` states
  as its premise that the registry is free again and again, which `manager_stall` shows the
  code does not guarantee.
* `Audit`: weak fairness of `Poll`, an interval timer that nothing stops, and strong
  fairness of `Land`: any fetch may fail, but not all of them for ever. `ListCatchesUp`
  is about a registry that stops changing. None of the operator, of commands, reports or edits.

## 7. Proofs

| module | theorem | for |
|---|---|---|
| `NatDataPlaneProofs` | `TypeCorrect`, `OnlyIdleIsCondemned` | `Spec` |
| `NatLeaseProofs` | `LeasesKept`, `SessionsKeepTheirReverse`, `RepliesReachTheSender`, `PortsNeverShared`, `SessionsImplementTable`, `LeasesEndOnlyIdle` | `SteeringSeparates`, `Spec /\ []RevRoom` |
| `NatPairingProofs` | `MapsHaveRoom` | `SteeringSeparates`, `PortsFit`, `Spec` |
| `NatPairingProofs` | `PairsKept`, `MapsStayPaired`, `RepliesReachTheLessee` | `SteeringSeparates`, `LongTimeouts`, `Spec /\ []RevRoom /\ []SessRoom` |
| `NatPairingProofs` | `FittingNodesAreSound` | `SteeringSeparates`, `LongTimeouts`, `PortsFit`, `Spec` |
| `NatPairingProofs` | `AgesKept`, `SessionsLeadInAge` | `OneQueue`, `Spec /\ []RevRoom` |
| `ChecksumProofs` | `WordsStayWords`, `ErrorsSurviveRewriting`, `PresenceSurvivesRewriting` | `Spec` |
| `RuleStoreProofs` | `RuleTypes`, `RestoresHaveRoom` | `Spec`, with races and all failures |
| `RuleStoreProofs` | `DurableInvariant`, `AnsweredRulesAreDurable`, `AnsweredRulesAreRestored`, `NodesKeepTheBook` | one task, no kills, misses or disk failures (`SerialNode`) |
| `RuleStoreProofs` | `LiveInvariant`, `FilesAreLiveConfigurations` | `HSpec`, with races and all failures |
| `ManagerProofs` | `ManagerTypes`, `PendingQueriesAreWanted`, `AnswersReachTheirId`, `RegistryIsExact`, `ViewsAreCurrent` | `Spec` |
| `DashboardProofs` | `PageTypes`, `FormsStand`, `CheckedNodesAreReached`, `PanelsFollow` | `Spec` |
| `AuditProofs` | `AuditTypes`, `VerdictsAreOne`, `GroupsAgree` | `Spec` |

Each holds for any finite or infinite sets and any sizes the `ASSUME`s of the modules allow.

* Leases. `ReverseOwned` alone is not inductive: between the probe and the
  insertions a CPU relies on the port staying free, and between the two removals the
  cleanup relies on the port being in nobody's session. `LeaseInv` says both
  (`PortStaysFree`, `Condemned`), that each run serves a packet steered to its CPU
  (`ServesItsPacket`), and that a lent port is owned or about to be (`LentIsOwned`).
  Steering enters in one place: two CPUs that carry flows competing for a port would
  have received packets that compete, hence are one CPU. Room in the reverse map is a
  hypothesis on the behaviour, `[]RevRoom`, since a full map does break it. The refinement
  of `NatTable` is proved from `LeaseInv` step by step: a map operation opens or closes
  one lease, resets all, or changes none.
* Ends of leases. `LeasesEndOnlyIdle` asks which step may end a lease. Insertions cannot: a run
  that inserts a session found none, and steering lets no other CPU open one for that flow
  meanwhile. So it is a removal, and `Condemned` says that whatever was removed before, the
  flow's session is still the one the scan found; `ScannedIdle` says that one was idle.
* Room. `MapsHaveRoom` turns that hypothesis into one on sizes, for any number of clients:
  flows with sessions are told apart by the reverse element they are lent (`OneOwner`), and a
  run that inserts a session holds one more, so there are fewer sessions than keys of the reverse
  map. With 64000 ports and 1048576 elements in either map (`PortsFit`), that is a
  node with at most 16 pairs of target and protocol. `FittingNodesAreSound` draws the sum.
* Pairs. `Paired` speaks of moments when nothing is under way; `PairInv` says what is owed in
  between. An element whose owner is not lent the port is one the cleanup
  will take back (`OwnedIsLent`), and a run between its two insertions has its session in the map
  and uncondemned (`HalfOpen`). The second is about time: the session is at most one run
  older than the clock reading of its run, because a slow reply on another CPU may have set it
  back, and that run is at most one run old, so no timeout of two runs (`LongTimeouts`) has
  passed. TLC finds `Paired` violated with a timeout of one run, and with a session map of one
  element (without `SessRoom`). An operator who sets a timeout of 0 leaves the hypothesis.
  `PairInv` also decides where replies go: the reverse element a reply meets belongs to
  a client that is lent the port or loses it to the cleanup at this moment
  (`RepliesReachTheLessee`).
* Ages. With one queue (`OneQueue`) one run is under way at most and knows the latest time,
  so every refresh moves an element forward. A run that carries a client's packet refreshes the
  session first; a reply refreshes its reverse element first, and then `AgeLeads` is owed by the
  step still to come. TLC finds `SessionAgeLeads` violated with two queues, where a
  CPU may store an older reading last, and with a reverse map of one element.
* Checksums. A rewrite is a chain of `update_csum_16`, and folding four times
  keeps a sum modulo 65535 and brings it into 16 bits. So each update keeps the
  header's error, for every word; the argument needs only linear arithmetic over
  quotient and remainder, given explicitly.
* Capacity. The map and what a restore has still to add together fit in
  `FORWARD_MAP`, each list a handler carries was once the map's contents, and a text of
  equal length has equally many rules, so also the file of two mixed saves fits.
* Durability. `DurableInv` says what file, restore, map and the one save under way
  owe each other, in each phase of start-up and of a command. From it each step changes the
  book at the keys of unanswered commands (`Create`, which is as good as the save it begins),
  raises a doubt (`Apply`), tells (`Reply`), or leaves book and clients alone.
* Live files. What a save takes down is a configuration of the map, and of saves that did
  not meet at most one is under way, in an empty file (`LiveInv`). So whatever piece of its
  text a crash or a full disk leaves either does not parse or is all of what it took down
  (`LoneSaveWrites`).
* Pending queries. `PendingIsWanted` needs to know what a query being sent has done already
  (`Sending`): it holds the registry, so there is one, and its entry in the pending map is its
  own unless an answer has taken it, in which case it has that answer. The rest is that each
  way out of a query removes the entry or leaves it to an answer.
* Answers. A query never gives up the id it drew (`AskedStays`), so it is enough that each
  question and each answer carries the id of its query (`AskInv`), in either direction of any
  connection and in the hands of the registry's holder. Messages come from nowhere else
  (`MessagesPass`); with the pending map right, an answer finds only queries of its id. `AnswersMatch` has no
  run of its own, since `manager`, with one id, would say nothing of it; TLC finds no
  violation with three queries, two ids, no rules and channels of two.
* Registry and views. Handlers follow the connections of their client (`HandlersFollow`),
  and one that is not in `met` is the only one of its node that has not ended (`Apart`):
  whoever finds another running meets it when it connects, and takes it into `met`. So
  the entry is always of a handler that runs, since whichever handler of the node cleans up
  removes it, and a handler that was alone removes its own. A view is right because the
  latest report on a connection carries the node's rules, or has been delivered
  (`ViewInv`): a command is followed by a report, or by a failure to list that leaves the
  node dirty, before the client reads on.
* Page. The boxes checked are of the target group at every moment (`BoxesInGroup`), so every
  command for checked nodes carries nodes of the group it carries (`CommandsInGroup`). The
  delicate step is the render whose effects replace the target group: they find it
  unlisted, so the boxes of that render are none.
* Audit. The goal stands as long as its command is alone: then the nodes it leaves out comply
  already (`GoalInv`). For a Sync that is so because the row was computed from a list that
  agreed with the nodes; reports do not matter to it.

Only model-checked: liveness, which is beyond the prover: `ExpiredPurged`, `OrphansPurged`,
`PendingCleared`, `ViewsCatchUp` and `ListCatchesUp`. TLC checks each inductive invariant
defined beside a model (`LeaseInv`, `PairInv`, `AgeInv`, `DurableInv`, `LiveInv`) in the run of
the property it is for; `MCNatDataPlane` assumes, and TLC evaluates, that its instances meet
`SteeringSeparates`, `PortsFit` and, where it matters, `LongTimeouts`.

## 8. Not modelled, and simplifications

* Ethernet addresses, ARP and routing (`utils.rs` is an await that may fail), parsing of
  malformed packets, IP fragments: they decide where a frame goes, not which flow
  it is of.
* The HTTP signature check, CLI, static files, build scripts, the page's entry point
  (`main.tsx`, which in development mounts the page twice and polls once more) and
  the development proxy (`vite.config.ts`): without state, or pure I/O.
* Of the page: what is typed, checks of empty fields, the messages about errors and
  successes, the tabs, which only hide controls, and all styling. A successful add clears
  inputs that may have been typed anew (`App.tsx:186`); nothing else depends on them.
* Groups in `Manager`: a command goes to any selection of listed nodes; `Dashboard` has
  them. Responses to commands are
  only logged by the manager and are left out.
* A map element is used atomically with its lookup: the code touches its fields
  directly after `get` or `get_ptr_mut`. Reuse of a deleted element's memory is below this grain.
* Rules files are mixed at the grain of whole rules; a blend within a rule parses to
  something else or not at all, and only occurs where `overlapped` is set.
* A daemon that restarts (`NodeRestart`) comes back with any rules, also deleted ones, which
  a race of saves may leave in its file; which they are is the subject of `RuleStore`.
