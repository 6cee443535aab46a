# tgwsproxy: specifications

`tgwsproxy` (src/, Rust, one `current_thread` Tokio runtime) is an MTProto proxy
for routers: it accepts Telegram clients, and relays them to Telegram's data
centres directly, through WebSockets, or as HTTP/2 requests to an `/api` endpoint
behind Cloudflare. This directory holds TLA+ specifications of its concurrent
parts, the TLC instances that check them, and proofs for TLAPS.

The HTTP/2 transport, `src/src/cf_h2.rs`, is the largest and most concurrent part;
around it are the listener and its bridges, the choice of a route and the pools of
prepared sockets, the control plane, and the self-update.

## 1. Inventory

| Part | State | Operations | What is hard | Module |
|---|---|---|---|---|
| Lane connection, `cf_h2.rs` `Lane` 327-1066 | connection generation, sender, driver task, retired drivers, active streams per generation, generations to invalidate when idle, connect lock | connect, ready, start_request, stream end, timeout, connection loss, GOAWAY, start_close, settle_close | sender clones used after an await; a timeout retires a connection others use; closing during a dial | LaneConnection, ConnectionLife |
| Lane pool, `CfH2Pool` 1888-2170 | cached lane per host, all lanes, slots, setup lock, closed | open, set up, cache, evict, track, prune, close | cancelled openers, eviction of a lane in use, closing with work under way | H2Pool |
| Channel, `ChannelInner` 1184-1804 | pending requests, replay history, counters, terminal value | remember, launch, deliver, finish_request, replay_candidate, recover, retire_and_abort, fail | several tasks stand for one packet; history moves under them; fail against launch | H2Replay |
| Bridge, `bridge_h2` 2204-2520; responses, `Lane::post` 728-898, charges 449-474, 1090-1142 | reply queue and its bytes, `delivering`, `waiting_upload`; reply bytes of channel, lane, process | read_packet, upload, read a response, charge, extend, receive, download, idle timeout | the two halves race with failure; a terminal reply must get out; partial failure of an extension | H2Bridge |
| Budgets 161-325, `reserve`, `try_replay` 1309-1380 | requests and bytes in use at three levels, waiters | acquire, try_acquire, permit drop | waiting while holding; a release between check and await | RequestCapacity |
| Prepared sockets, `upstream.rs` 560-930 | buckets, refill flags, back-offs, one Notify | checkout, request_refill, maintain, dial | a flag that outlives its notification; a checkout dropped half-way | WarmPool |
| Routes, `upstream.rs` 250-560 | blacklist, failed addresses, HTTP/2 and TCP retries, dials under way | connect: direct, Worker, HTTP/2, Cloudflare, TCP | two clients on one table; a client dropped anywhere | Routes |
| Proxy listener, `proxy.rs` 30-420 | slots, gauge, tasks, replay cache | accept, serve, shutdown | nothing may survive a shutdown; a ClientHello is served once | ProxyClients |
| Bridges, `proxy.rs` 420-760, `websocket.rs` | writer's mutex, frame under way, one activity clock | both directions, ping, close, idle and write timeouts | frames of two writers, a silent half, a stalled client | RelayBridge |
| FakeTLS, `fake_tls.rs` | record buffers | handshake, read and write records | byte level, one task; freshness of the handshake is in ProxyClients | - |
| Control plane, `main.rs` 228-364, `web.rs` 42-85, 187-375 | file, saved and effective configuration, listener, change queue, mutation lock | POST, SIGHUP, apply with rollback | handler timeout against lock, failing steps, crash | ControlPlane |
| Updater, `update.rs`, `scripts/update-worker.sh`, `scripts/install.sh` | files of the state directory, payloads, two locks, binary and init script | check, prepare, hand over, install, roll back, recover | three processes that share files; kills and power cuts between any two steps | Updater |
| Configuration, `config.rs` | one document | from_value, validate, save, link | pure, but for save (in ControlPlane) | - |
| Framing, `framing.rs`; crypto, `crypto.rs`; statistics, `stats.rs` | none; cipher streams; relaxed counters | | bytes only; no promise of consistency | - |

How they interact: the listener gives a client to the upstream component, which
opens a channel through the lane pool; the pool sets up or reuses a lane of the
origin; a bridge owns the channel and feeds it packets; each packet becomes a
request task on the lane's connection; answers come back through the channel's
queue. A failing lane fails its channels, a closing pool closes its lanes, a
listener that stops closes its pool. The panel's handlers send changes to the main
loop, which stops and starts listeners.

What makes the parts correct, in one line each:

- lane: one connection at a time; no stream is cut by another's timeout; nothing
  runs or is published after close;
- pool: one open lane per origin, none lost to close(), none closed in use;
- channel: history and pending requests agree; at most one replay of a packet;
- bridge: reply bytes exact at every level; a transport error reaches the client;
- budgets: counts are permits; no lost wake-up; no deadlock between the levels;
- prepared sockets: a bucket that lacks one is refilled, whoever is dropped;
- routes and listener: one TCP dial per target; a shutdown leaves nothing behind;
- WebSocket bridge: whole frames; idle only when both directions are silent; pings
  and uploads never wait for each other for good;
- control plane: what was confirmed stays; a refused change changes nothing;
- updater: what is called complete is installed; the two files match; a payload has
  an owner; a shown update ends.

## 2. Modules

An action is the code between two awaits, since the runtime has one thread: a
mutex held without an await in between is part of the action. RequestCapacity is
finer (its steps are the mutex sections and the signals between them), because the
comments of `Budget::acquire` argue about threads. A module's name for a variable
is the code's, where there is one; the comment at the variable names the field.
A definition after a comment "Faulty:" is not part of the specification: it is a
variant of the definition below it, with a plausible bug, used to see that the
properties notice.
Init, Next and Spec carry a prefix (H2, Bridge, Pool) in the modules that share a
module of proofs with another system.

**LaneConnection** (`Lane`). Requests move from `idle` through `lock`, `dial`,
`ready` to `active`, or to `wait` for a retirement; `held` is the generation of the
sender clone a request has. Connections are generations 1..MaxGen: `driver[g]` is
what its task does, `slot` the one in `ConnectionState`, `retired` those in
`retired_drivers`, `awaited` those taken by start_close. `counts` and `poison` are
the two maps of `active_requests`. The h2 crate is assumed to answer ready() with
an error once a GOAWAY came in or the task is gone, and to fail the streams of a
connection that is gone.

**ConnectionLife** is what the requests of a lane rely on, without locks, clones,
counts or marks: connections live one after the other; one that has stopped taking
streams takes none again; a stream that timed out takes its connection out of use,
and aborts it if it was the last; otherwise a connection with streams is aborted only
after a GOAWAY or for the close; a closed lane connects no more. LaneConnection
implements it under the mapping in its property ImplementsConnectionLife
(`stream[r]` is the generation of an active request, `accepting` the generation the
published sender belongs to, unless it is marked).

**H2Pool** (`CfH2Pool`). Openers walk through `open()`: cache, setup lock, slot or
eviction, preflight, caching; each may be cancelled wherever it awaits. `closer`
is `close()`. A lane is alive while referenced, and its slot is held that long, so
slots are not a variable. Cooldowns make open() return without effect: stuttering.

**H2Replay** (`ChannelInner`). `pending` maps request numbers to their stage, kind
and history entry; `history` is the deque, a function from the sequence numbers of
the packets that are remembered to their entries. `aged` is the sequence up to which
packets are beyond REPLAY_MAX_AGE; the other periods may have elapsed or not
whenever they are read.

**H2Bridge** (`bridge_h2`, `Lane::post`). The upload half is at a header, reserving,
reading a body, or parked on a closed channel; the download half receives, or writes
a packet or the terminal. Request tasks wait, or read an answer into a reader; a
reply is charged to the lane and to the process when its length is known or as it
grows, to the channel when it is queued, and given back when the client has it, or
by whoever drops it. `others` are the charges of other bridges on the same lane and
process, which come and go at any time. The bridge ends by a branch of its select!, or
is dropped with its task when the listener stops.

**RequestCapacity** (`Budget`, `RequestCapacity`, `BudgetPermit`). Budgets are an
arbitrary set, a packet has a path of three; `holds` are its permits, `notified`
the waiters whose `Notified` is ready, `owes` the signal a permit's drop has still
to send.

**WarmPool** (`Upstream::checkout`, `request_refill`, `maintain`). A bucket is its
number of idle sockets and three marks: `wanted` is refill_requested, `backoff` its
retry time, `lost` (history) that a cancelled client has taken a candidate with it.
The task passes over the buckets (`rest`), dials for one, or sleeps until `permit`,
the one permit of `pool_wakeup`, or its five seconds.

**Routes** (`Upstream::connect` and the functions it calls). `pc` is the stage at
which a client's task is suspended; DirectStage, WorkerStage, CfStage and TcpStage are
the guards a walk evaluates between two awaits, up to its next stage. The tables of
`State` are sets whose entries come with the code's writes and go when their time is
over; `connecting` is tcp_connecting, whose entry is a guard object, dropped with its
client. A TCP target is a data centre in production or test, since fallback_ip has an
address for each.

**ProxyClients** (`Proxy::start`, the accept loop, `serve`, `shutdown`) EXTENDS
Routes and composes it with the listener: every client's step is one of the loop's
tasks, and a stop drops tasks in the middle of any stage. It adds the FakeTLS check of
a ClientHello against clock and replay cache.

**RelayBridge** (`bridge_ws`, `bridge_tcp`; `WsReader`, `WsWriter`). `up` and `down`
are where the two directions are suspended, `lock` holds the writer's mutex,
`remaining` is WsWriter.remaining. `silent` counts ticks of the shared clock, `quietUp`
and `quietDown` (history) what two clocks of their own would show. What counts as
received is data: neither the code's clock nor the history is touched by control frames
or by part of a packet's header. A write to the WebSocket has up to three parts with the
idle period each, header, payload and flush; one to a TCP socket or the client has one.

**ControlPlane** (`serve`, `apply`, `handle`). A configuration maps fields to their
last writer. `step` is where `apply()` is; its steps end where something is awaited
or fails. `running` is the listener's configuration, `spare` the replacement bound
on another port. `unknown` of a queued change (history) are the fields a reload or a
late POST has changed since its snapshot, `broken` what an undoing failed to put back.

**Updater** (`update.rs`, `update-worker.sh`, `install.sh`). `panel` is Updater.state
of the running service, `task` its prepare(), `dir` the files of the state directory.
Each update has a worker and an installer process with a position each; the EXIT
traps are their Fails and Undo steps. A step is a file operation that another process
or a kill can separate from the next, and it may fail: a rename of the installer rolls
back, one of the roll-back itself ends the trap where it is, with the lock left and the
service down (UndoBreaks), and a lock may stay when what precedes its removal fails
(Exits). procd may respawn a killed panel under an installer that has not stopped the
service yet. On OpenWrt the state directory is in memory. `torn` and `lost` (history)
record what no code repairs: files of two versions after a kill between two renames or a
failing roll-back, and a payload directory whose name a crash has lost.

External code (modelled from its use): the h2 crate's ready(), GOAWAY and
connection loss, the operator's edit of the file, the system's kills, power cuts and
boots. Everything else in "map" of PROJECT.json points at lines of src/.

## 3. Runs

| Run | Distinct states | Shows |
|---|---|---|
| lane | 83,991 | a waiter is owed a wake-up and proceeds, drivers are owned, and the lane implements ConnectionLife |
| lane_goaway | violation | after a GOAWAY the next request drops the connection under open streams |
| pool | 149,340 | cached lanes are open, one lane per host, running lanes are tracked, channels keep their lane; queued openers get their turn, close() ends and leaves no lane behind |
| replay | 508,100 | history and requests agree, the history is of one key; no double replay; newest packet kept; answers awaited |
| bridge | 23,200 | reply bytes and replies exact at the three levels, flags, order of endings; a failed bridge ends |
| capacity | 24,077 | permits are counted, bytes too, no lost wake-up, no mutual wait; an upload waits only while other packets take what is freed |
| warm_pool | 3,575 | a bucket that lacks a socket has told the sleeping task so; it is dialled for or filled |
| clients | 598,846 | one TCP dial per target while its mark stands; a ClientHello is served once; shutdown() ends, with no task, permit, dial or gauge left |
| relay_bridge | 9,268 | whole frames, idle means silent, pings are answered |
| control | 142,836 | confirmed changes stay; listener, panel and file agree between changes; a POST undoes only what it could not know; every POST that asks for the lock is answered |
| control_timeout | violation | a handler's timeout lets a queued change be overwritten |
| updater | 375,749 | the two files match, but for a kill between renames or a failing roll-back; complete is installed; payloads have an owner; a shown update ends |

Bounds, and why they are enough:

- *Lane*: three requests (one times out, one keeps the connection, one waits) and
  two generations (a connection replaced while clones of it are held, and its
  successor). The proofs remove both bounds for what is not liveness.
- *Pool*: two openers and three hosts on two lanes: a set-up of the third host has to
  evict. The code has MAX_LIVE_LANES = MAX_CACHED_LANES, so the eviction inside
  `cache_lane` cannot happen and is not modelled.
- *Replay*: a history of two packets and three packets of one key, one of another,
  one that is never replayed; up to four requests, the last of which can be a
  replay. A packet sent twice is one more original of its entry.
- *Bridge*: two tasks with chunks of one and two units; the lane has room for two
  packets, the process for one more, and other bridges take some of it, so that each
  level refuses alone.
- *Capacity*: two packets of one channel and one of another; each level is the
  scarce one for a pair of them (the channel runs out of requests, the lane and the
  process of bytes), and the two sizes make overtaking possible.
- *Warm pool*: a direct bucket of two sockets, a Worker bucket of one, one that never
  exists; two clients, so that one takes while the other tests.
- *Clients*: three clients on two slots and one data centre, under four configurations
  that between them enable each route; two ClientHellos, a cache for one, and a clock
  that runs until the first could be forgotten.
- *Relay bridge*: packets and frames of two chunks, so that something happens between
  the chunks of one; three ticks of silence, so that one side can be silent while the
  other is not.
- *Control plane*: three POSTs with a field each (one of them the port), two of whose
  handlers may time out, the operator's field, an overridden field; one crash; two
  failing steps per change, so that the undoing fails too.
- *Updater*: two updates, so that the second meets what the first left; three versions;
  two kills or power cuts, on both systems. Failing steps are not counted.

Symmetry is used where no liveness is checked, over identities no action names.
CHECK_DEADLOCK FALSE stands where the system really may stop: a settled lane, a
closed pool, channel, bridge or listener, all POSTs or updates done. Budgets and the
warm pool never stop.

### Fairness

- *Lane*: every await of a request ends (ready() answers, a dial is bounded by
  connect_timeout, the connect lock is first come first served, REQUEST_TIMEOUT
  bounds a stream), and an aborted task is dropped. Nothing is assumed of a
  timeout of a waiting request, of the origin, or of who closes the lane.
- *Pool*: setup_lock is granted in order (strong fairness), a preflight ends within
  SETUP_TIMEOUT, an aborted task is dropped. None of cancellation or of bridges.
- *Bridge*: the download half runs when something is there, and a write ends or runs
  into the idle timeout. None of clients, request tasks or failures.
- *Capacity*: woken tasks run, drops complete, a packet with its permits is answered
  or times out. None of the timeout of a waiter, and none that a waiter gets its turn.
- *Warm pool*: the task's sleep and its dials end. None that a dial ever succeeds, or
  of clients.
- *Clients*: the accept loop's select! sees a stop although clients keep arriving
  (strong fairness: its branches are polled in random order), aborted tasks are
  dropped, and close() of the lane pool ends, as the run pool shows. None of clients
  or routes.
- *Relay bridge*: timers fire, and a direction that has the mutex or finds it free
  runs. Neither side is assumed to send, to read or to close.
- *Control plane*: the main loop goes on, the lock is fair to its queue, and answers
  are sent. None of the 15 s timeout, of clients, or of the branch select! takes.
- *Updater*: the panel is polled while it shows an update, prepare() goes on (its calls
  have deadlines), the scripts run, time passes. None of boots, kills or the operator.

## 4. What the runs found

1. **lane_goaway** (`cf_h2.rs` 618-625). "Reconnect once if an idle connection died
   before a request acquired a stream", says the comment; after a GOAWAY ready()
   fails while the streams admitted before go on, and the next request aborts the
   connection under them. Their requests fail and are retried or fail the channel.
2. **control_timeout** (`web.rs` 72, 203-209). The mutation lock is meant to keep a
   POST from overwriting what another has just saved. The timeout of 15 s around the
   whole handler, which includes receiving the request, releases the lock while its
   change is queued or being applied. The next POST takes a stale snapshot and its
   change reverts the first. The run control shows what remains true then: a change
   that was *confirmed* is never lost, and what a POST undoes came from a handler that
   had timed out, or from a reload.

Noted, without a document that says otherwise: when a change fails to start and the
old listener fails to start too, the main loop goes on without a listener
(`main.rs` 353-357), and a file that could not be restored takes effect at the next
start; a reload between a POST's snapshot and its change is undone by that change; a
large upload can be overtaken by small ones until its timeout; a power cut between the
installer's two renames leaves files of two versions, and a crash between making a
payload directory and writing down its name leaves the directory.

Noted, with a document that promises more: `src/INSTALL.md` 36-37 and 145-146 say that
after a failed start the previous binary and init script are restored and the service
started again. The roll-back (`scripts/install.sh` 105-126) runs its two `mv -f` under
`set -e` in the EXIT trap: when the first fails, the new files stay, when the second
does, the old binary is left with the new init script. In both cases the service stays
down and the installer's lock stays, so that the next update is refused until the lock
is removed by hand. FilesMatch exempts the files of two versions that are left then, as
it exempts those of a kill between two renames, by `torn`; without that exemption the run
updater reaches them with nobody killed.

## 5. Proofs

What is proved holds for every value of the constants under the assumptions named in
the modules: finite sets; a budget belongs to one level, and each packet fits an empty
one (MAX_PADDED_PACKET is below every byte limit); as many places in the cache as
slots; each POST has a field; chunks, lengths
and limits of replies are positive; the replay cache keeps a ClientHello for longer than
twice the tolerance. Every invariant and every action property that a passing run
checks is a theorem, and so is the refinement; what is left to TLC is liveness.

| Module | About | Theorems |
|---|---|---|
| LaneConnection_proofs | LaneConnection | StreamCounting, WakeupOwed, SingleConnection, TaskOwnership, SettledForGood, RetirementIsFinal, TimeoutsAreLocal, and LaneRefines: every behaviour is one of ConnectionLife |
| H2Pool_proofs | H2Pool | CacheIsUsable, LanesAreUnique, NothingRunsUntracked, ChannelsKeepTheirLane, CloseIsComplete |
| H2Replay_proofs | H2Replay | EntriesMatchRequestsAlways, OneReplayPerPacketAlways, NewestIsKeptAlways, RetiredOutlivesAnsweredAlways, AnswerIsAwaitedAlways |
| Budgets_proofs | RequestCapacity | PermitCounting, ByteCounting, NoLostWakeup, NoCircularWait |
| | H2Bridge | ReplyBytesAreExact, RecoveryIsInformedAlways, TransportErrorReachesClientAlways |
| Sums | sums over finite sets and sequences | lemmas only |
| Proxy_proofs | ProxyClients with Routes | TcpSlotIsHeldAlways, HelloServedOnceAlways, ShutdownCompleteness |
| | RelayBridge | WholeFrames, SilenceOnly |
| | WarmPool | PoolsAreBounded, RefillsAreOwed |
| ControlPlane_proofs | ControlPlane | ServiceFollowsFile, NothingAcknowledgedIsLost, SnapshotsAreFresh |
| Updater_proofs | Updater | UpdatesAreWhole, PayloadsAreOwnedAlways, CompleteIsInstalledAlways |

Each system has one inductive invariant (`IInv`; `H2Inv`, `BridgeInv`, `PoolIInv` where
a module speaks of several systems) and a theorem that it holds, Invariance or a name
that ends so.

*Lane.* The properties are not inductive alone. `IInv` is `ConnInv` (about the
connection and its tasks) and `TaskInv` (about the requests). What had to be added:
the only request in connect()'s set-up is the lock's holder (DialerHoldsLock), and
nobody dials beside a published connection (DialsWithoutSender), which is why two
connections cannot exist; a clone is of a published generation (HeldIsPublished),
which makes a new generation start without streams; and a running task is the one
in the slot (DriverIsCurrent), which is why an abort of older ones cuts nobody.
Counting uses two lemmas, JoinCounts and LeaveCounts, about sets that gain or lose
one element. The action properties NeverReopens and TimeoutSparesOthers follow from
`IInv` and one lemma about what each step does to acceptance.

*Refinement.* Under the invariant of the lane, an accepting generation is the newest
(AcceptingIsNewest), since a published sender is of the newest connection and retiring
it unpublishes or marks it. With that, each action of LaneConnection is a step of
ConnectionLife or a stutter; that a timed out stream that was the last one aborts its
connection rests on the counts being the streams.

*Pool.* What makes the properties inductive: who sets up or evicts holds setup_lock
(LockInv), so a set-up's host stays without a cached lane (SetUpInv), and an open lane
that is referenced is tracked, and cached or being set up (OpenInv). Then a closed lane
has left the cache before it was shut. An eviction takes only a lane nobody refers to,
and a lane that is being set up is its opener's alone (PrivateInv), so no channel loses
its lane by either. Once close() has the lock, no set-up is in progress, and none begins
on a closed pool (Emptied): what it took was everything, which is the safety half of
CloseEnds.

*Replay.* The handlers go through intermediate histories: a request is forgotten, a
packet added, the deque trimmed. The parts of `IInv` are therefore predicates of any
history h and any requests p, and each piece of a handler has a lemma about them.
EntryLinks says that an entry names its replay and its originals, ReplayLinks that a
packet has one replay even after the history has dropped it, which is what
EntriesMatchRequests alone cannot carry over a step. In the model the deque is a
function from sequence numbers to entries: its order is the order of the numbers, and
trimming takes away the smallest that nothing protects. As a sequence, its properties
would be behind an induction over data.

*Sums.* A sum over a set is defined by recursion, and the prover has no induction
over data. But `SumFunctionOnSet(f, S)` is the number of the cells of a bar chart with
f[x] cells at x (SumIsCells, by a least counterexample in the size of S, which
well-founded induction gives without an operator parameter), and the laws of sums are
then those of cardinalities: a set gains or loses one, one value changes, a sequence
gains one at its end or loses its head.

*Budgets.* `IInv` adds to the counts and bytes that permits are taken level by level
and that only a leaving packet owes a signal (PermitsAreBelow), so a permit is never
taken twice and the subtraction of a drop never saturates (PermitReturned); and
SleeperIsTold is strengthened from sleeping to the moment the check has failed
(FullIsTold): taking a permit makes no room (RoomShrinks), returning one is owed a
signal, and the signal reaches everyone registered. NoCircularWait takes, among those
that sleep, one at the highest level. Its budget is not empty, or it would fit
(FullHasHolder, where counts and bytes are needed); whoever holds a permit of it is
above that level or past all of them, and is therefore not asleep.

*Bridge.* `H2Inv` adds to the two state properties which values of the halves go
together (H2Flow): a terminal value stands for a closed channel, a write for a reply
that is held, and an ended bridge has dropped queue and reply. The books are moved by
BooksMove: if readers, queue and the write change by n bytes and k replies, and lane
and process are told n and k, they stay exact; each action has only to say its n and k.

*Warm pool.* RefillIsOwed is inductive with the types and with DialFits: the task dials
only for a bucket with room, and only takers change it meanwhile.

*Clients.* All stages of a walk are one thing to the invariant: a step moves one client
from a stage to another, or none (Moves), and takes or returns what the two stages
require. SlotInv says that the targets in tcp_connecting are those of the clients that
dial, one each; BooksInv, that permits and gauge are the tasks; HelloInv, that what was
served is remembered, or is out of tolerance from then on.

*Relay bridge.* WriterInv ties the mutex to the places where a direction owns it and to
what is left of the open frame; ClockInv says that the shared clock shows no more
silence than either direction has had.

*Control plane.* Service says where file, listener and replacement are at each step of
apply(); Turns, that a POST has one change in all, which is the last one queued as long
as its handler waits with the lock; Snapshots, that a queued change differs from the
panel's configuration in its own field and in what it could not know. A confirmed
change was therefore the last one, nothing older is behind it, and every later
snapshot has it (Acknowledged).

*Updater.* At each place inside the installer's lock Progress says what it has done to
the files and what it would put back; others cannot be inside (ilock), and outside the
files match, unless an installer was killed between its renames or a rename of its
roll-back failed since the last success (`torn`). A worker's version does not change while its installer runs, because it
starts once (SpawnInv). TurnInv is the argument that two updates never overlap: until
the worker has its lock, the stage `installing`, less than ten seconds old, keeps
everybody else from starting one, and then the lock does. On it rest PayloadInv (whose
payload it is, and that its name is kept from before the download on), InstallInv (what
an installer's success means for the files) and OutcomeInv (who may say `complete`).
The proof rests on an assumption about time that StageAges states: the ten seconds do
not pass between launch_worker's writing of the stage and the worker's lock. If they
did, recover_stale could take the payload from under a worker that is about to start;
four updates in a row are needed for that, more than the run has. The code does not
yield between writing the stage and spawning the worker, which then has only to start a
shell.

Only model-checked, since the prover has no ENABLED: WaiterProceeds, QueueMoves, the
liveness half of CloseEnds, FailedBridgeEnds, UndisturbedUploadIsServed, PostIsAnswered,
MissingIsRefilled, that shutdown() ends at all, PingIsAnswered and UpdateEnds. The two
runs that end in a violation state what is false.

## 6. Not modelled, and plan

Not modelled at all: encryption and obfuscation, FakeTLS records and WebSocket masks
(byte streams inside one task), framing and configuration parsing (pure, with unit
tests), statistics, HTML and formatting, init and build scripts, a first installation
and the uninstaller (interactive, alone on the machine). The walk over the bases of a
route and refresh_domains are data. Time is a number only where FakeTLS compares it,
and in the ticks of RelayBridge; elsewhere a period has elapsed or not.

What could follow, in this order:

1. H2Pool over ConnectionLife instead of its `work`, and ProxyClients over an abstract
   pool instead of one closing step.
2. Framing as operators against a reference: header and packet lengths, padding.
3. A composition of H2Replay with RequestCapacity for make_room.
4. FakeTlsStream: record buffers under partial reads and writes.
5. An abstract update (none, running, complete or failed, with the version on disk)
   that Updater implements, and an abstract budget for RequestCapacity.
