# ADLB/X (XLB): a TLA+ model of the load balancer

XLB is an MPI load balancer with a distributed data store. Worker ranks put
tasks on server ranks and get tasks from them; servers keep the queues and the
data, release tasks when their inputs are closed, steal work from each other
and decide together when everything is done. A job can checkpoint results to a
file that a later job reloads. This directory models these parts, checks them
with TLC on small instances, and proves with TLAPS, for any number of servers,
that the protocol between servers does not deadlock, that its list of deferred
messages is a FIFO, and what the idle check guarantees.

Paths below are relative to `src/code/src/`.

## 1. The system

### Components, their state and where they are modelled

| Component | Code | State | Modules |
|---|---|---|---|
| Server-server sync | `sync.c`, `sync.h` | posted receives, `xlb_pending_syncs`, `xlb_server_sync_in_progress` | `Sync` |
| Ring of deferred syncs | `sync.c`, `sync.h` | array, head, count, size, notification count | `PendingRing`, `PendingQueue` |
| Server loop | `server.c` | `xlb_server_ready_work`, `xlb_server_shutting_down` | `Sync`, `Termination` |
| Idle check, shutdown | `server.c`, `handlers.c` | attempt numbers, idle timer | `Sync` (messages), `Termination` (decision) |
| Work stealing | `steal.c`, `steal.h` | probes under way, failed steals | `Sync`, `Termination`, `StealStream`, `Matching` |
| Work queue | `workqueue.c` | targeted, host-targeted, untargeted heaps, parallel tasks | `WorkQueue` |
| Request queue | `requestqueue.c` | requests by rank and type, blocked workers | `RequestQueue` |
| RPC handlers | `handlers.c` | none of their own | `Matching` (work), `DataService` (data), `Engine` (dput), `Sync` |
| Task engine | `engine.c` | waiting tasks, subscriptions, caches of closed data | `Engine`, `TaskSpec` |
| Notifications | `notifications.c` | notifications, references to set, refcount changes | `Notify`, `DataService` |
| Data store | `data.c`, `data_structs.c`, `multiset.c`, `data_cleanup.c` | data, subscribers, references, locks | `DataStore`, `Datum` |
| Reference counts | `refcount.c` | read and write counts, referands | `Refcount` |
| Client API | `adlb.c` | calls in progress | `Matching`, `DataService` |
| Checkpoints | `adlb-xpt.c`, `xpt_file.c`, `xpt_index.c` | file, buffers, index | `XptFile`, `Checkpoint` |
| Layout, hosts | `layout.c`, `location.c` | fixed maps | constants of the modules |
| Support | `messaging.c`, `adlb_types.c`, `backoffs.c`, debugging, profiling | | section 6 |

### How they interact

Every server is a single thread. Its loop takes sync messages of other servers
first, then one request, then drains what was deferred and enqueues what was
released. A handler may need another server: it *syncs* with it. A sync sends a
small header and loops in `xlb_sync2()` until the send completed or, for a
`REQUEST` and a `STEAL`, until the target answered. While it loops, the server
takes the sync messages of others: those of **lower** ranks are accepted at
once (what could start another sync is put on the pending list), those of
higher ranks are deferred as a whole. A `REQUEST` is followed by one blocking
RPC, which the target awaits in `xlb_serve_server()`; a `STEAL` by a stream of
work units. The master, the lowest server rank, asks all others in turn if they
are idle and then tells them to shut down; a shutdown cancels a sync.

A worker's put is matched with the requests that wait on its server, or queued;
a get is matched with the queue, or its request is queued. A task put with
inputs is held by the engine of its server, which subscribes to the inputs at
the servers that hold them and releases the task when it has heard of all
closes. Closing, inserting or collecting a datum makes *notification work*:
subscribers to tell, references to set, counts to change. A server does the
part it can do locally, which may make more of it, and hands the rest to the
client whose call it was.

### What is hard here

Cycles of servers that wait for each other; a request deferred and forgotten or
served twice; refcount changes overtaken by other operations; a drain that is
not triggered; steals that race with the idle check; heap entries that outlive
their units; the two ways to a queued request; notes of blocked workers that
cross answers; a datum freed while a reference to it is being made; a subscriber
told twice, early or never; a close that overtakes a subscription; a crash
between two page writes; the arithmetic of ring, blocks and priorities.
`PROJECT.json` lists these hazards at their lines, with the properties that
cover them.

## 2. Modules

| Module | Models |
|---|---|
| `Sync` | The sync protocol, the server loop around it, steals as far as servers wait for each other, the messages of idle check and shutdown |
| `PendingQueue`, `PendingRing` | What the list of deferred syncs promises, and the ring buffer that implements it, cell by cell |
| `QueueParams`, `WorkQueue`, `RequestQueue` | The queues of a server as values, with one operator per function |
| `Matching` | The handlers of put, get, amget, iget, steal and blocked-worker notes on these queues, composed with workers |
| `Termination` | Several servers that steal from each other while the master runs its rounds of idle checks |
| `StealStream` | The batches in which stolen units are sent, and the throttling of probes |
| `Refcount`, `Datum`, `DataStore` | Counts and referands; values and subscripts; the tables of a data server |
| `Notify` | Notification work, and what a server does of it locally |
| `DataService` | Clients, data servers and the notification work between them |
| `TaskSpec`, `Engine` | What a task put with inputs is promised, and the engines, data and messages that implement it |
| `XptFile`, `Checkpoint` | The layout, writer and reader of the checkpoint file; ranks that write, flush, crash and reload it |
| `MC*` | The instances for TLC |
| `SyncProofs`, `SyncTheorems`, `SyncOrderProofs` | Proofs about `Sync`: types, the server loop, lemmas on channels and lists; the inductive invariant of the call stacks and the theorems on requests and waiting; the order of what servers send |
| `PendingRingProofs` | Proofs about `PendingRing` |
| `TerminationProofs` | Proofs about `Termination`: types, attempt numbers; the rounds |
| `StealStreamProofs` | Proofs about `StealStream` |
| `EngineProofs`, `EngineTheorems` | Proofs about `Engine`: what its operators keep of one engine; the actions, the invariant and the refinement |

### Sync

A server's call stack is its state: `phase` is the frame of the server loop,
`replying` the caller of an RPC handler that runs a sync, `syncing` the call of
`xlb_sync2()`, `serving` the source of `xlb_serve_server()`, `sending` the
thief of `xlb_handle_steal()`, `calling` the server whose response an RPC
awaits. `pending` is the list of deferred syncs, `net` and `rpcs` are the
messages under way.

| Action | Code |
|---|---|
| `SyncAccepted`, `SyncSent` | the two ways out of the loop of `xlb_sync2()` |
| `Interrupt` | `msg_from_other_server()`: `Serve`, `Defer`, `CancelSync` or a deferred sync |
| `NextSyncMsg` | `xlb_handle_next_sync_msg()`, then `AcceptSync` |
| `ServeRpc`, `PollRpc` | an RPC of another server, awaited in `xlb_serve_server()` or found by the poll of `serve_several()` |
| `NestedSync`, `PreacquireSync`, `Reply` | the refcounts that `handle_store()` must acquire before it answers |
| `StealSent` | the victim's sends when the thief gave up |
| `ClientRequest`, `HandlerSync`, `HandlerDone` | a worker's request; its handler starts any number of syncs |
| `DrainOne`, `DrainDone` | `xlb_handle_pending_syncs()`, then `xlb_handle_ready_work()` |
| `CheckSteal` | `check_steal()`, `xlb_try_steal()`, `xlb_random_steal_probe()` |
| `StartIdleCheck`, `IdleAnswered`, `AllIdle` | `check_idle()`, `servers_idle()` |
| `ShutdownNext`, `Exit` | `shutdown_all_servers()`, the end of `ADLB_Server()` |

Messages between two ranks with one tag keep their order; nothing else does.
`MPI_Cancel` of a header may or may not take it back. `ADLB_CHECK` stops only
at `ADLB_ERROR`, so the caller of a sync that returned `ADLB_SHUTDOWN` goes on
with its RPC; the model does too. A failed assertion sets `aborted` and ends
the run. Timers (steal, idle) may expire at any time: what the code does must
not depend on how long something takes.

Data is abstracted to what the handlers may do next. A handler of a client
request may start any sync of `ClientModes`; the handler of a refcount any but
`SUBSCRIBE`; whether a subscribed datum is closed, whether a notification
releases a task, whether a steal is worthwhile and whether a server is idle
long enough are choices. `Termination`, `Engine` and `DataService` say which
choices the data makes.

One assumption on MPI: a send without acceptance completes by itself
(`SyncSent` needs nothing of the target), since headers are small and receives
are posted in advance.

### PendingRing

`array`, `head`, `count`, `size` and `notifs` are the five variables of
`sync.c`. A cell never written is `Unset`. `Enqueue` includes doubling,
`Dequeue` includes halving. `Contents` reads the list off the ring; it is the
refinement mapping to `PendingQueue`. `InitSize` is `PENDING_SYNC_INIT_SIZE`,
1024 in the code; the module assumes at least 7, which is what the code needs:
with fewer cells an empty list could be halved while the head is just past the
new end. `StartSize` is the first size, `InitSize` unless
`ADLB_DEBUG_SYNC_BUFFER_SIZE` sets another; the module covers 1 to twice
`InitSize`.

### Matching

`wq` is the work queue: `wu_array` with its slots used again, and the heaps as
bags of entries `[key, idx]`, so that an entry can outlive its unit as in the
code. A pop takes any entry with the least key and drops it when it does not
fit the slot any more. `rq` is the request queue: `targets` by rank and
`type_requests` by type, `nblocked`. Priorities are integers of a small width:
`IntMin` stands for `INT_MIN`, and `Negated` overflows at it. The state of a
worker is the call it is in, and `requests` and `answers` are the messages.

| Action | Code |
|---|---|
| `HandlePut`, `PutWorkUnit`, `PutTargetedLocal` | `handle_put()`, `xlb_put_work_unit()`, `xlb_put_targeted_local()` , each with the matching it tries first |
| `HandleRequest` | `handle_get()`, `handle_amget()`, `handle_iget()`, `handle_block_worker()` |
| `HandleSteal`, `Steal` | `xlb_workq_steal()` for a thief; stolen units and `xlb_recheck_queues()` |
| `Shutdown` | `server_shutdown()` |
| `CallGet`, `CallIget`, `CallAmget`, `AgetTest`, `AgetWait`, `GetReturns`, `AmgetReturns` | the calls of `adlb.c` |

The units that are put, released or stolen, and the calls that are made, are
given by a *plan*; a run checks a set of plans.

### Termination

A unit is counted, by type and server, or by the worker it is targeted at;
`Put`, `PutTargeted` and `Get` are calls with their handling. `probe` and
`steal` are what a thief has under way, `attempt` is
`xlb_idle_check_attempt`, `expired` the idle timer, `round` the master in
`servers_idle()`: the next server to ask and the types requested and present so
far.

| Action | Code |
|---|---|
| `RandomStealProbe`, `HandleStealProbe`, `HandleStealProbeResp` | `xlb_random_steal_probe()`, `xlb_handle_steal_probe()`, `xlb_handle_steal_probe_resp()` with `xlb_sync_steal()` |
| `HandleSteal` | `xlb_accept_sync()` of a `STEAL`, `xlb_handle_steal()` and the thief's recheck |
| `StartRound`, `CheckIdle`, `TimerExpires` | `check_idle()`, `servers_idle()`, `xlb_server_check_idle_local()`, the timers |
| `ShutdownWorker` | `handle_shutdown_worker()` |

`SentTypes` are the types whose counts the STEAL message carries (section 5);
`CrossPuts` says whether workers target work at workers of other servers.

### StealStream

A thief and a victim with two FIFO channels, one for the headers
(`ADLB_TAG_RESPONSE_STEAL_COUNT`) and one for lists and units
(`ADLB_TAG_RESPONSE_STEAL`). The victim fills batches (`StealCallback`,
`StealFinish`), the thief receives a header, a list and unit after unit
(`RecvHeader`, `RecvList`, `RecvUnit`). The count of failed steals is that of
`xlb_steal_allowed()`.

### Refcount, Datum, DataStore, Notify, DataService

A value is what the code tells apart: a scalar, a reference with the counts it
owns, a container, a multiset or a struct. `Datum` stores into and reads from
it along a subscript, `Refcount` says which counts a store, a read or a
collection must acquire from or give to the referands, `DataStore` keeps the
data of a server with subscribers (`lis`, `ixl`), references that wait for a
member (`crefs`) and locks. `Notify` is the notification work: `SetRefsLocal`,
`ApplyRefcs` and `LocalRanks` are repeated in rounds (`LocalRounds`) until
nothing local is left, as in `xlb_process_local_notif()`.

In `DataService` a call is one step of the server (`CreateCall`, `StoreCall`,
`RetrieveCall`, `RefcCall`, `CRefCall`, `SubscribeCall`, `EngineSubscribe`,
`AtomicCall`, `ReadCall`, `LockCall`, `UnlockCall`), after which the client
does the work it was handed, one RPC a step (`ApplyRefcWork`, `SetRefWork`,
`CloseWork`), while others run. Refcount changes between servers are applied by
`ApplySync`. A `REFCOUNT` sync is not answered: its sender goes on when the send
has completed, so a change is under way for any time, and calls of clients may be
served before one that was sent earlier. The history variable `raced` records
that a count fell to zero while an increment from another server was under way
(`Overtakes`); nothing in the code prevents it (section 5), and `Conserved`, and
the part of `TypeOK` that excludes errors, are stated for behaviours in which it
does not happen. `held` is not state of the servers: it says which counts a
program owns, and programs use only data they own counts of. What such a program
may rely on is what the properties state.

### Engine

For the engine a key, a datum or a subscript, is open, closed or gone. `eng` is
`engine.c`: transforms with their blocker and closed inputs, tasks blocked by
each key, subscriptions, the LRU caches of closed keys and the work made ready.
`dput` is the call of `xlb_engine_put()` that a server is in: it looks at one
input after the other, and while it sends a `SUBSCRIBE` its server goes on
serving other servers, which may close a datum of its own in the middle.

| Action | Code |
|---|---|
| `Dput`, `PutDone` | start and end of `handle_dput()`, `xlb_engine_put()` |
| `InputSubscribed`, `InputHere`, `InputReady` | a turn of `init_inputs()`: the input is subscribed to already, is open on this server, or is known to be closed |
| `InputThere`, `SubscribeSent` | a turn that sends a `SUBSCRIBE` to another server, up to and after `xlb_sync2()` |
| `CloseByClient`, `CloseByServer` | a key closes: `xlb_process_local_notif()` and the client's part of the work, or `xlb_close_notify()` in a server |
| `Collect` | a closed datum is collected |
| `SubscribeSync`, `NotifySync`, `NotifyRpc` | handlers of the messages between servers and of a client's notification |
| `ReadyWork` | `xlb_handle_ready_work()` |

`subs`, `lis`, `ntfs` and `rpcs` count, per server and key, what is under way or
listed; a `NOTIFY` is deferred while its target is inside a sync, so messages
overtake each other and only their numbers are kept. `fail` records the first
failing assertion, missing datum or use of a freed transform. `TaskSpec` is the
abstract specification; the refinement mapping forgets everything but which keys
have closed and which tasks were put and released.

### XptFile, Checkpoint

A cell of the file stands for a field that one call writes, or for a piece of a
value. `XptFile` has the writer (`blk`, `pos`, `buf`) with `file_pos_add`,
block starts and the end mark, and the reader with `xpt_read_resync` and the
CRC, which is taken to tell every two records apart. In `Checkpoint` a rank
initialises, writes, flushes, indexes, looks up and finalises in steps between
which another rank or a crash can come. `cache` is the file as processes see
it, `disk` what is safe: in a `Crash` every page that differs is found old or
new, and so is the length. What a cell that is no length decodes to is a choice
(`Garbles`): no length at all, some length, or a length that is encoded in more
bytes than it needs.

The code is built with assertions by default and without them by
`--enable-fast` (`configure.ac:130`). `asserts` is chosen at the start, so every
run covers both builds: with assertions a writer that fails one is dead, and a
reader that fails one ends the reload (`aborted`); without them both go on as the
code does.

## 3. Runs

| Run | Shows | Instance |
|---|---|---|
| `pending_ring` | the ring counts its notifications and refines `PendingQueue` | ring of 3 cells that grows to 12, 8 entries |
| `sync_modes` | `SyncInv`, `NoCircularWait`, `RefcountsInOrder`, `ProbeExpected` | 2 servers, every mode, both RPCs, preacquired refcounts, both stealing, idle check, shutdown |
| `sync_live` | every sync ends, a shutdown reaches every server but a stranded one | 2 servers, requests, refcounts and puts of both, both stealing, idle check, shutdown |
| `matching` | no unit lost, orphaned, misdelivered or withheld; queues and counters consistent; priorities | 3 workers on 2 hosts, 3 slots, five plans |
| `match_live` | every unit put is run | 2 workers, a parallel, a soft and a released unit |
| `termination` | no shutdown while work can be done, and a shutdown when there is none; the invariant of the rounds; stealing brings work to requests | 2 servers, 3 workers, 2 units, 4 rounds, cross-server targets |
| `term_race` | *violation*: section 5 | 3 servers with a worker each, 1 unit, 1 round |
| `stream` | batches arrive complete, are counted right, and a steal ends | 5 units, 2 of them parallel, batches of 2 |
| `data` | counts are conserved and no operation fails where no increment is overtaken; subscribers are told once, not early, and in the end; one client creates a subscript | 2 servers, 2 clients, five programs of 5 to 8 calls |
| `data_early_free` | *violation*: section 5 | one program of 6 calls |
| `engine` | refinement of `TaskSpec`; one answer to each subscription; tasks wait for something; tasks are released | 3 servers, 2 tasks with 4 and 3 inputs, 3 keys, caches of one entry |
| `checkpoint` | flushed entries are recovered, lookups are right, the end of each rank is found after a clean close | both builds, 2 ranks, 5 jobs of up to 3 entries a rank, 2 loaders, pages of 3 cells, blocks of 18 |

Bounds, and why they are enough to be interesting:

* `sync_*`: `MaxClient` requests per server and `MaxSent` syncs of handlers in
  all. Two requests per server are needed for one handler with syncs and one
  `ADLB_Get` that leaves the worker blocked; two syncs let each server be inside
  one. With two servers every tie-break is met, but no cycle other than a
  pair: the theorems cover any number of servers, and remove the bounds, for
  all the safety properties of the run. In `sync_live` the server that is told
  to shut down can be in a `REQUEST`, a `STEAL` or a one-way sync, or have syncs
  on its list, when the message comes.
* `pending_ring`: starting at 3 cells the buffer doubles twice, wrapped around
  at any position, and shrinks from 12 to 6 by each of the three ways of packing.
* `matching`: three workers on two hosts are the least with a worker on the
  same host and one on another. Three slots make slots be used again, and the
  units of a plan share priorities where a stale entry could be mistaken for a
  new one. `IntMin` is -4 and the penalty of soft targets 2, so that reduced
  priorities come near the end of the range. Slots are interchangeable, hence
  the symmetry; it is not used in `match_live`.
* `termination`: two units can be on two servers at once, and four rounds let a
  check fail after a steal before and after it. Three servers are the fewest
  with the race of `term_race`; `TwoServersSafe` shows it.
* `stream`: 5 units in batches of 2 give full batches, a last one that is
  partly filled, and a last one that is empty.
* `data`: each program has the calls that meet in one mechanism: *references*
  (a member read, retrieved and filled into a reference of the same server),
  *remote* (into one of another server, by the client), *nested* (structs in
  structs, containers stored as a whole, multisets, write references released
  on close), *listen* (clients and engines subscribed to data and to members)
  and *reserved* (atomic insertion, locks, creation).
* `engine`: an input that is named twice, one that is a subscript, data on the
  server of the task and on others, and a cache that must evict.
* `checkpoint`: an end mark has 3 cells. The jobs leave room for exactly one mark
  (3), too little for one (2 and 1), none (0: the last record fills the block),
  and cross the end of the block, so every case of `xlb_xpt_write_close()` and of
  the reader is met, and records straddle buffers and pages. The promises are
  about the first block of each rank, section 5 says why.

`sync_modes` uses preacquired refcounts, so its behaviours include a failing
assertion (`NoNestedSync`, section 5) and end there. Deadlock is checked in
`pending_ring` and `stream`. In the others the system may stop: servers leave
their loops, programs run out of calls, jobs end. What deadlock freedom means
is stated by properties (`NoCircularWait`, `SyncEnds`, `AllDelivered`,
`IdleShutsDown`, `Told`, `Releases`).

### Fairness

* `Sync`: a server runs on where nothing holds it (weak fairness of handlers,
  drains, served RPCs, completed syncs and the master's shutdown). Strong
  fairness is used where the loop comes back to a test again and again: posted
  receives match in order, so that each sync message is taken in the end,
  `serve_several()` polls, the timer of the steal expires, and on servers other
  than the master, which others can interrupt again and again, `xlb_sync2()`
  tests its own requests in every turn and the server loop its flag. Nothing is
  assumed of the idle check, nor of workers; in `sync_live` a worker of each
  server may wait for work (`Requesters`), without one at the master `SyncEnds`
  does not hold (section 5).
  `SyncEnds` says that each server is outside a sync again and again. `AllGoDown`
  says that once a shutdown has started, all servers leave their loops, but for
  one that is `Stranded`: it called a server that had already left.
* `Matching`: the server handles what it is sent and workers read their
  answers. Workers keep asking for work, as an ADLB worker's loop does; without
  it nothing need be delivered.
* `Termination`: the loop runs on and time passes (weak fairness of rounds,
  checks, timers, accepted steals). Probe targets and the units sent are drawn
  at random, so none is left out for ever: strong fairness of `RandomStealProbe`,
  of its answers, and of a steal that brings something (`StealUnits`).
* `StealStream`: receives are fair. The victim's sends are fair only when all it
  sent was received (`Sent`): MPI need not buffer them. So `StealTerminates`
  holds for an MPI library without any buffering.
* `DataService`, `Engine`: clients finish calls they are in, servers apply and
  serve what has arrived. It is written out (`Unfinished`, `Pending`), as weak
  fairness with the condition under which the action is enabled. Clients need
  not make another call.

## 4. Theorems

All are proved for every value of the constants allowed by the named
assumptions of the modules.

`Sync`: any number of servers from 2 on, any bounds, any set of modes.

* `TypeCorrect`, by one lemma per action.
* `SyncInvariant`: `SyncInv` always holds. The properties are not inductive by
  themselves: that an RPC meets a server that spins for it depends on what the
  acceptance of a sync promises. `SyncInv` adds what two call stacks know of
  each other. An accepted caller has its target's attention
  (`AcceptedIsServed`) and whoever is served was accepted or has sent its RPC
  (`ServedIsAccepted`); a blocking RPC is awaited or handled (`CallIsHandled`)
  and a handler that syncs still has its caller waiting (`ReplyIsAwaited`);
  inside its own sync a server serves only lower ranks (`LowerRanksServed`) and
  defers whole syncs only of higher ones (`HigherRanksDeferred`). Most of it is
  stated up to the first shutdown, which breaks these bonds on purpose.
* `RequestsHeldOnce` and `RpcsAnnounced` follow from it.
* `LoopRuns`: a server at the top of its loop is in no call and has drained its
  notifications, as `check_steal()` and `check_idle()` assert. This needs
  only the types and the steps of the server itself, so it holds during the
  shutdown too; it is also a conjunct of `SyncInv` (`LoopIsRunning`).
* `NoDeadlock`: until a shutdown starts, no set of servers waits in a cycle. To
  every server a depth is assigned, from its rank and from whether it is in a
  sync, a service or a call; every wait goes to a server of smaller depth, and a
  non-empty set of naturals has a least element. This is the argument behind
  the comment in `msg_from_other_server()`.
* `OrderInvariant` (it uses `LoopRuns`), and from it `RefcountsOrdered` (`RefcountsInOrder`) and
  `ProbesExpected` (`ProbeExpected`), the shutdown included. That no refcount is
  left on the list when an RPC of its sender is served is a fact about order: an
  RPC outside a sync loop follows a request that was accepted, and a refcount
  sent before it was applied when it was taken off the channel. So the
  invariant follows each pair of servers. Behind a REQUEST or STEAL that is not
  accepted, in the channel or on the list, comes nothing but a shutdown message
  (`Calm`): its sender waits in `xlb_sync2()`. A probe, its response and the
  entry for it in `probes` are counted together (`Expected`): at most one of a
  probe and a response is somewhere, and then the entry exists or the sync that
  sends the probe has not returned.

`PendingRing`: any initial size from 7 on, any load.

* `RingShape`, `NotifCountExact`, `RingIsQueue`: the ring keeps its shape,
  counts its notifications and implements the FIFO of `PendingQueue`. The
  inductive invariant is `TypeOK`, `QuarterFull` and `NotifsCounted` together:
  without `QuarterFull` a halved ring could leave its head outside.

`Termination`: any servers, any finite set of workers, any types, any bounds.

* `AttemptsTheorem`: `TypeOK` and `AttemptsBehind`. The number of a round is
  made by the master and travels with checks and STEALs; none is ever ahead of
  the master's, as `xlb_server_check_idle_local()` asserts. It needs no more
  than that copies of a number are old values of it.
* `RoundTheorem`: `RoundInv` and `SafeUnlessRaced`. The argument is the one
  behind the comment at `server.c:57`. While a round runs, each server already
  passed stays as it was counted (its workers are idle, it requests and holds no
  type that the round does not know of, a STEAL of its own carries the number of
  this round: `StaysCounted`), or the round is bound to fail (`RoundFails`): a
  server still to be asked has already got this round's number from a STEAL and
  will answer that it is not idle, or the counts so far show a type both
  requested and present. `RoundCounted` says so for all servers passed. A worker leaves its wait
  only through its own server, which must be in its loop, or through a steal;
  the lemmas go through these cases. At the end of the round
  all servers stay as counted, and the comparison of types requested with types
  present is the quiescence that `SafeShutdown` asks for. `TargetsTaken` (a
  blocked worker has no targeted unit of its type waiting) is needed for units
  that no count mentions.
  Two things are excluded. `raced` is the history of a thief that passed a
  check with its STEAL in flight while servers were still to be asked: that is
  the counterexample of `term_race`. And `NoneCrosses` is assumed: work is
  targeted at workers of the same server, or there is at most one server besides
  the master. With three servers a cross-server targeted put reaches a server
  that was counted already without leaving a trace in the numbers; the TODO at
  `server.c:633` mentions it.
* `TwoServersSafe`: with at most two servers both exclusions hold by
  themselves, so `SafeShutdown` holds, cross-server targets included.

`StealStream`: any finite set of units, any batch size from 1 on.

* `StreamInvariant`, and from it `TransferComplete` (`StealComplete`),
  `TotalsComplete` (`TotalsExact`) and `PayloadsInOrder`. Nothing in a message
  says to which header, list or unit it belongs; the receiver relies on the
  order alone. `StreamInv` reads the channels as the thief will: the units of
  the steal are, in the order in which the victim handed them on, those queued,
  the rest of the batch being received, the batches in flight, each header with
  its list and one payload per unit, the batch being filled and the units still
  to come (`Streaming`); the last header in flight is the one that says so
  exactly when the victim has left the steal (`LastHeader`).

`Engine`: any servers, keys, tasks, homes and inputs, repetitions included. Two
hypotheses, each the negation of a disagreement of section 5: `CacheSize > 0`,
and `~FreeEarly`, which says that a datum is not collected while a task that has
it as an input was not released. `xlb_engine_put()` relies on the second; a
program that keeps a read count for the task meets it.

* `EngineInvariant`: `EngineInv` always holds. The properties of the run are not
  inductive: that `was_subscribed` holds when a close is heard depends on where
  the subscription was, and that a freed transform is not touched depends on
  the order of the list of blocked tasks. So `EngineInv` has three parts. Of each
  engine (`EngineOK`): what is marked closed is closed, all inputs before the
  blocker are marked, a task is listed under each input looked at and not
  marked, a list is non-empty exactly when the key is subscribed to, and
  repetitions of a task in a list are next to each other, at its end while the
  task is being put (`BlockedOK`, the assumption written down in
  `xlb_engine_close_update()`). Of the calls (`CallOK`): an input ahead of the
  one being looked at can only have been marked by a close on this very server,
  so a call never finds its transform complete before it is on the list. Of
  the system: a subscription is in one place (`OneAnswer`), closed data have no
  listeners and open data no notifications (`PlacesOK`), a task is with one
  engine until it is released (`TasksOK`).
* `EngineTypes` (`TypeOK`: no server stops), `OneAnswerAlways` (`OneAnswer`),
  `WaitsAlways` (`WaitsForSomething`) follow.
* `EnginesPromise` (`Promised`): the engines implement `TaskSpec`. A close maps
  to a close, `Dput` to a put, `PutDone` and `ReadyWork` to the release of a set
  of tasks, everything else to a stutter.

Only model-checked: all liveness properties and refinement under fairness (out
of the prover's reach); everything about `Matching`, `DataService` and
`Checkpoint`. The handlers of `Matching` match several units in a loop, which is
modelled by folds and a recursive function, and the data store and the checkpoint
file walk through nested values and files with recursive operators. What a loop
or a recursion does for any number of turns needs induction over data, which the
installed provers do not have.

## 5. Disagreements found

Two are reproduced by runs.

| Run | What the repository says | What the code does |
|---|---|---|
| `term_race` | `server.c:57`: the attempt numbers solve the corner case "Shutdown even though B is not idle" | A STEAL carries the number its thief knew when it was sent. If the thief passes a new round's check while it is in flight, the victim sends its work, passes too, and the servers shut down while a worker runs |
| `data_early_free` | `notifications.h:84`: "must acquire before doing anything to avoid race condition on freeing" | a value that gives a part of the counts asked for (`refcount.c:216`) leaves the rest to the client without that mark; the datum can be collected before the rest arrives |

The others can be reproduced from the modules as they are, with the property,
the constants or the plan named; no run repeats them.

| Where | What the repository says | What the code does | How to see it |
|---|---|---|---|
| `sync.c:321` | asserts that no sync is in progress | a store served inside a sync can preacquire a remote refcount, which syncs | `Sync!NoNestedSync` with `Preacquire` |
| `sync.c:672` | `sync.h:61`: the higher rank always wins | the lower rank wins | `Sync!HigherRankWins` |
| `server.c:481` | "Should not get here if we have ready work" | `xlb_try_steal()` drains notifications and leaves the work they release | `Sync!NoReadyWorkAtSteal` |
| `sync.c:826` | `sync.c:815`: increments are applied before any operation that could decrement | a deferred refcount is overtaken by a store of the same server | `Sync!RefcountBeforeRpc` |
| `sync.c:415` | `sync.c:815`: "need to apply increment before processing any operation that could decrement refcount" | a `REFCOUNT` is not answered, and `serve_several()` handles a client's decrement that arrives before it: the datum is collected, and the increment fails | `DataService!IncrementsFirst`, program *references* |
| `server.c:696` | `sync.h:70`: pending syncs "will need to be serviced" | a request deferred during the idle check can stay on the list for ever | `Sync!SyncEnds`, `Requesters` empty |
| `sync.c:438` | leave the sync "to avoid getting blocked on another server that has already shut down" | the caller goes on with its RPC and blocks on that server | `Sync!Stranded`, reached under `SyncLive.cfg`: `AllGoDown` without this exception |
| `workqueue.c:417` | `adlb-defs.h:70`: strictness of an untargeted task is ignored | an untargeted unit that is not HARD is looked for under the wrong key and never found | `Matching!NoUnitOrphaned`, a plan with `AnySoft` |
| `workqueue.c:464` | `adlb-defs.h:75`: "Strict: task must run with given accuracy" | a stale host entry accepts a unit that is hard-targeted at another rank of the host | `Matching!HardTargetsKept`, a soft NODE and a hard RANK unit of one priority |
| `workqueue.c:470` | `layout.h:89` asserts that the worker is the server's own | the host of target -1 is looked up for a stale host entry | by reading the code, for a slot taken by an untargeted unit |
| `handlers.c:513` | `handlers.c:614`: "Try to send to alternate target" | a released soft-targeted unit is queued while another worker waits | `Matching!NoWorkWithheld`, a soft unit in `ready` |
| `workqueue.c:355` | `workqueue.c:477`: soft-targeted work has reduced priority | at the lowest priorities the negated key overflows and comes first | `Matching!PriorityKept`, a soft unit of priority `IntMin` |
| `handlers.c:934` | `steal.c:153`: "Try to match stolen tasks" | one parallel task a type is matched after a steal, others wait | `Matching!NoParallelWithheld`, two parallel units in `foreign`, 4 workers |
| `handlers.c:1837` | `requestqueue.c:60`: number of workers blocked on requests | the note that a worker blocks can cross its answer: it counts as blocked with work on its way | `Matching!WorkersIdleExact` without `BlockingCalls`, plan `Async` |
| `requestqueue.c:211` | `requestqueue.h:45`: blocking until the request is filled | merged requests lose the mark with the first answer | the same |
| `sync.c:604` | `steal.c:279`: steal only types of which the other server has more | `sizeof` of a product: the counts of two types are sent | `Termination!StealsFromRicher`, `SentTypes` smaller than `Types`, 3 puts |
| `steal.c:255` | "Update failed steals" | a steal whose units fill its batches ends with an empty header and counts as failed | `StealStream`, `failed` after 2 units |
| `steal.h:103` | `backoffs.c:64`: a break after trying #servers times | compared for equality, and two responses can pass the number | `StealStream`, `failed` beyond `NServers` |
| `notifications.c:207` | `notifications.h:50`: amount to decrement | a remote reference is stored with a decrement of one | `DataService!Conserved`, a remote `CRefOp` with 2 |
| `notifications.c:249` | "Skip refilling payload if possible" | the payload of another notification is sent | `DataService!PayloadRight` |
| `notifications.c:1056` | `data.c:619`: the work type to notify with | the type is not packed for a client that forwards | `DataService!TypeRight` |
| `data.c:1943` | `notifications.h:60`: notify that a subscript was set | a whole container stored also notifies for members only reserved | `DataService!NotifiedOnce`, a `StoreOp` of a container in *reserved* |
| `data.c:1181` | `data.c:1176`: compound fields are initialised | the datum is initialised in place of the field | `DataService!TypeOK`, a store two subscripts deep into a container field |
| `engine.c:584` | `engine.c:580`: a datum that was freed is "good to go" | returns an error | `Engine!TypeOK`, `FreeEarly = TRUE` |
| `engine.c:1327` | `engine.c:1235` lets 0 pass as a cache size | takes the victim of an empty list | `Engine!TypeOK`, `CacheSize = 0` |

The sync and idle-check cases need timing that the timers make rare and do not
exclude.

Checkpoint files. A reload should go on past damage: `adlb-xpt.h:105` "If
corrupted or partially written entries are encountered, ignore them". In the
default build, which has assertions, it can stop, and flushed entries behind the
place stay out of the index; `Checkpoint!IgnoresTorn` shows it under
`Checkpoint.cfg`. `Recovered` is therefore about reloads that end, and
`CleanClose` names the one case, a block that is full, in which a reload after a
clean close does not.

* The reader asserts at the start of each record that it is inside a block
  (`xpt_file.c:1110`). After a record that ends where the block ends, or a search
  for the next marker that does, it is not.
* The length is encoded again for the CRC, and the number of bytes is asserted to
  be the one that was read (`xpt_file.c:778`). Bytes that are not a length can
  decode to a number with a shorter encoding.

Both properties are stated for the first block of a rank because of what happens
at the end of a block, against `xpt_file.c:319` "Checkpoint entries can be split across
blocks":

* `file_pos_add` takes the rest of the block after it has set the position to
  0, so an entry that crosses the end with a buffer that is not aligned wraps
  around and runs past its buffer. With an aligned buffer a field that crosses
  the end drops the magic number of the next block.
* When a record that is still in the buffer ends exactly at the end of a block,
  the same arithmetic fails an assertion of the close (`xpt_file.c:163`); without
  assertions the end mark goes to the next block, in place of its magic number.
* `xpt_read_resync` stops after the marker, so the next read starts in the
  middle of a record and later ones are lost (`adlb-xpt.h`: "ignore them").
* `check_crc` leaves the length out, so a record larger than the reload buffer
  never matches; `val_offset` is off when a value starts in a fresh block.
* When the rest of a block has room for a marker and a CRC but not for a length,
  and the file goes on behind it, the reader counts one invalid record, against
  `xpt_file.c:781`: with a small hole at the end "we would have detected end of
  file earlier". `Tight` in `CleanClose` is this exception.
* `xpt_check_flush` also sets the time of the last flush when it did not flush,
  so calls that come more often than the interval put the periodic flush off.
  In the model the timer of the flush may have expired or not at every call.

Smaller observations, outside the properties: subscribing to a subscript of a
container that is closed is accepted and never answered; `ADLBP_Unlock` does not
ask who holds the lock; `docs/xlb.txt` says that half of the tasks, rounded up,
are stolen, the code draws as many as level the counts of each type.

## 6. Not modelled

* The table of asynchronous gets of a client (`adlb.c:690`): state of one client
  and used by it alone. The servers' side of these gets is in `Matching`.
* Subscripts too long for the header of a sync, which follow in a message of
  their own (`sync.c:533`): that channel, and the blocking send behind it, would
  need a state of their own on both sides. So would the limit on posted receives
  (`sync.c:252`), which delays the completion of a send without acceptance.
* Calls that only read (enumerate, size, typeof), the name table, unique ids,
  `ADLB_Fail`, slices of containers and multisets.
* The table of open checkpoint files, I/O errors, and a file that an earlier job
  left under the same name and that is not truncated (`xpt_file.c:121`).
  Entries beyond the first block of a rank are written and read in the model,
  but nothing is promised of them.
* Failures of servers or workers: MPI ends the job, and the code has no path for
  them. The crash of a whole job is in `Checkpoint`.
* The composition of all modules in one: each takes the others as choices
  (`Sync` the data, `Termination` the details of a put, a get and a sync,
  `Engine` the data store), which covers more behaviours than the code has.
* Pure conversions and support: packing of types and headers (`adlb_types.c`,
  `messaging.c`), parsing of the layout, backoffs, which only set how long a
  server sleeps (timers may expire at any time in every module), memory
  management, debugging, tracing and profiling.
