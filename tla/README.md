# rstrader in TLA+

rstrader is a Rust trading system: it collects market data from Binance, OKX and
Deribit, writes it to Parquet and QuestDB, keeps the positions of a Binance
Futures account, and runs a naive market maker on them. This directory holds TLA+
models of its core logic, the TLC configurations that check them, and TLAPS proofs
of what matters most. Source paths below are relative to `src/` of the crate unless
they start with `docs/`.

## 1. Inventory

### 1.1 Trading

| Component | State | Operations | Talks to |
|---|---|---|---|
| Execution pipeline, `trading/account_state/mod.rs` | positions, live buffer; the Postgres table `executions` | `run_market`: subscribe, backfill, upsert, replay, drain, consume; restore after a disconnect | user-data stream (channel of 2048), REST, Postgres, broadcasts to the strategy |
| User-data stream and history, `exchanges/binance_account.rs` | `seen_ortu`, `pending_tl`, watchdog | `subscribe_live`, `fetch_historical` | Binance; the pipeline |
| Order gateway, same file | WS API connection, map of pending requests | `post_order`, `cancel_order` (WS API), `cancel_all` (REST) | the runner's bridge task |
| Id generator, `xcommons/monoseq.rs` | one atomic `last_state` per process | `next_id` | every caller, from any thread |
| Naive market maker, `strats/naive_mm/strategy.rs` | one order slot and one pending-cancel flag per side, last position, last mid, `ready`, `did_init` | `on_obs`, `on_execution`, `on_order_response`, `on_position`, `update` | runner's mailbox; order channel (1024) |
| Strategy runner, `strats/api.rs` | mailbox | forwarders (`send` for account news, `try_send` for market data and answers), batch dispatch with one deferred `update`, a task per request | strategy, gateway, pipeline |
| Position arithmetic, `xcommons/position.rs` | amount, average price, realized PnL, fees | `trade_with_fee` | pipeline |

Hard here: four sources of news with no common order (answers, executions,
positions, books); REST and stream overlapping or leaving gaps; crashes between an
upsert and its application; requests that are executed while their answers are lost;
time-outs that give up on something that still happens; several threads in the id
generator over a clock that is set back.

What makes them correct: no execution is lost or applied twice, a replay is exact;
every open order is known to the strategy and every slot stands for a live order;
the exposure stays within the limit; ids are unique and increase.

### 1.2 Market data

| Component | State | Operations |
|---|---|---|
| Binance connector and processor, `exchanges/binance.rs` | synchronisation state, buffered diffs, last update id | connect, snapshot, bridge of snapshot and diffs, replay of buffered diffs, continuity check |
| OKX, `exchanges/okx.rs` | connection status; the processor's last sequence id | subscribe, read a frame, follow the prevSeqId chain |
| Deribit, `exchanges/deribit.rs` | request ids, pending requests | requests and market data over one socket; its change_id is read and not compared |
| Unified handler, `md/unified_handler.rs` | connector, processor, packet counter | one run from connect to the end of the stream, cancellation; it does not reconnect |
| Latency arbitration, `md/latency_arb.rs`, and deduper, `md/deduper.rs` | connections, wins per window, TTL/LRU set of keys | first copy wins, rotation of the connection with the fewest wins |
| Order book, `md/orderbook.rs` | price levels, last update id | initialize, apply_update, top levels |
| Subscription manager, `app/subscription_manager.rs` | handles, tokens, channel to the sink | spawns handlers and arbitration groups, adapter of L2 updates to book snapshots, shutdown |
| Circuit breaker, `xcommons/circuit_breaker.rs` | state and last failure behind locks, counter, `is_testing` | can_execute, record_success, record_failure; nothing calls it yet |

A connector owns a WebSocket and turns frames into messages; a processor turns
messages into updates; the handler or the arbitration group owns both and sends the
updates into the manager's channel, from which a sink or the OBS adapter takes them.

Hard: diffs that arrive while a snapshot is fetched or a subscription is
acknowledged, the same event over several connections, connections replaced while
they deliver, cancellation between two updates of one message, state read under one
lock and written under another. Correct when no diff is skipped silently, exactly the
first copy of an event passes, a late copy never undoes a newer one, everything stops
at shutdown, and the breaker never locks itself.

### 1.3 Output and the rest

| Component | State | Operations |
|---|---|---|
| Parquet sink, `output/multi_stream_sink.rs`, file manager, `output/file_manager.rs` | buffers, writers taken out for blocking writes, file sequence numbers | write, flush, close, prune idle files |
| QuestDB sink, `output/questdb.rs` | buffer, connection | serialize and clear, send with retries |
| Batches and schemas, metrics, common types, configuration, start-up | none of their own, or observability only | conversions, wiring |

Hard: a write that fails after the buffer was cleared or the writer taken out, a
shutdown in the middle of a batch, a restart in the same directory. Correct when each
row is in one file once, a closed file is never written again, and each row that
QuestDB does not get was lost for a reason that is known.

`PROJECT.json` lists every component with what is modelled of it, and every hazard
with the line it bites at and the properties that watch it.

## 2. Modules

| Module | Models | Kind |
|---|---|---|
| `AccountState` | `run_market`, table, user-data stream, REST history | specification, safety and liveness |
| `AccountStateClaims` | what two documents say of it | claims the code refutes |
| `AccountStateProofs` | | proofs |
| `MonoSeq` | `MonoSeq::next` by many threads and processes | specification |
| `IdDispenser` | what callers of `next_id` rely on | abstract specification |
| `MCMonoSeq` | instances for TLC | |
| `MonoSeqProofs` | | proofs, with the refinement |
| `NaiveMm` | market maker, runner, gateway and exchange together | specification that composes four components |
| `MCNaiveMm` | instances for TLC | |
| `NaiveMmClaims` | what the strategy's documents and comments say of it | claims the code refutes |
| `NaiveMmProofs` | | proofs |
| `MarketFrames` | what an exchange puts on a market-data socket | vocabulary of the next five |
| `BinanceConnector`, `OkxConnector`, `DeribitConnector` | connector and processor of one exchange | operators on the connector's fields |
| `Connectors` | the two factories and the traits | operators |
| `UnifiedHandler` | the task of one subscription | specification |
| `Deduper` | the bounded set with a TTL | operators |
| `LatencyArb` | an arbitration group | specification, composes connectors, processor and deduper |
| `OrderBook` | one market's book | operators |
| `SubscriptionManager` | the manager with one subscription and its OBS adapter | specification that composes all of the above |
| `MCSubscriptionManager` | instances for TLC | |
| `UnifiedHandlerProofs`, `LatencyArbProofs` | | proofs of the handler, and of the arbitration group, the book and the types |
| `ParquetSink`, `QuestDbSink` | the two sinks, the file manager | specifications |
| `WsApi`, `UserStream`, `TradeHistory` | the parts of the Binance account adapter | specifications |
| `CircuitBreaker`, `Position` | the breaker, the arithmetic of a position | specifications |
| `Standalone` | the seven modules above, one at a time | composition |
| `MCStandalone` | instances for TLC | |
| `StandaloneProofs` | | proofs |
| `SinkProofs`, `AccountProofs` | | proofs of the sinks' rows, the history, the position, and the types of all seven |

### 2.1 AccountState

An execution is an id and a millisecond; a `Position` is the sequence of executions
applied to it since `Position::new`, so that "exactly once, in order" can be said.
`trades` is what happened; `stream`, `wire` and `echo` are the adapter's task
(`echo`: trades flushed as TRADE_LITE whose ORDER_TRADE_UPDATE is still to come);
`rx_buf` is the channel; `pc` is where `run_market` is; `hist` and `todo` are its
local vectors. Every await that other tasks can run at is a boundary between two
actions: `Subscribe`, `Fetch`, one `UpsertHistorical` per row, `Load`, one `Apply`
per execution, `Drain`, `GoOnline`, for a live execution `Receive`, which is its upsert,
and `Apply` when that has returned, and after a disconnect `Disconnected`,
`UpsertHistorical`, `RestoreLoad`, `Apply`, `Restored`, `Resubscribe` or, in Exit
mode, `ExitAfterRestore`. `TaskError` is any `?` that returns, `Crash` any end of the
process, after which only the table survives. `StreamLost` is each of the adapter's
ways to end.

`gap`, `unsaved` and `overtaken` are history variables: they name the executions
for which the code gives no guarantee, so that the invariants say exactly which ones
those are.

### 2.2 MonoSeq

The packed state is a pair (millisecond, sequence); `IdOf` composes the three bit
fields as a number. `Call`, `Load`, `ReadClock`, `CompareExchange` and `Contended`
are the atomic steps of `next()`; `ReadClock` includes the spin of
`wait_until_at_least` (it is enabled when the wait ends). `Tick`, `SetBack` and
`Restart` are the host's. A compare-exchange may fail spuriously, as the weak form
may.

### 2.3 NaiveMm

The four handlers `OnObs`, `OnExecution`, `OnOrderResponse` and `OnPosition` and the
decision pass `Update` follow `strategy.rs` line by line; `post_order`,
`cancel_order`, `cancel_all_orders` and `LoseAnswer` are requests at the gateway;
`Fill` and `Restore` are the exchange and what the execution pipeline announces. The
mailbox is not a variable: forwarders and request tasks put messages into it at
their own pace, so any message under way may be handled next, and `Update` may come
between any two (it is enabled when a handler has scheduled it). Executions and
positions are each in order, as each has a channel of its own. A request may be
refused by a full channel. Answers may be lost (7 s time-out, connection closed,
full mailbox). The 800 ms of `CANCEL_TTL_US` are the action `ExpireCancel`.

Prices matter only as "the target is displaced or not", so a price is a mid and
two mids are displaced from each other. Quantities are integers. `disowned`,
`silent`, `blind` and `cancelled` are history variables, with the same role as above:
they name the orders whose slot was freed without news of their end, those that
ended without a message that names them, those posted while a position was under way,
and those whose cancel was asked for.

### 2.4 From the socket to the sink

Events of a stream (diffs or trades) are numbered as they happen; a diff covers two
update ids, so that a REST snapshot can end inside one. A connector is a record of the
fields of the Rust struct that decide something, and its functions are operators from
record to record: `Connect`, `Subscribe`, `NextMessage` and, for Binance, `Snapshot`
and `Replay`. Who calls them and what happens between two calls is in the modules of
the tasks.

`UnifiedHandler` has one action per await of `run`: connecting, each request of
Deribit, subscribing, the snapshot, one frame, one update of the frame's message,
and cancellation where the code selects on it. `sock` is what the server has sent and
nobody has read, so what arrives while a snapshot is fetched waits there. `skipped`,
`spoilt`, `unlinked`, `early` and `snap` are history variables that name the events the
code can do nothing about: those the server left out, those that a defect of their frame
keeps out, those of them that OKX's chain does not come to take, those read while
Deribit's answer was awaited, and those the snapshot has.

A bad frame has one of four defects, because the code stops at different places. A text
that is not JSON (`text`) shows no id to connector or processor. A time stamp that does
not parse (`time`) fails an OKX depth message before its `seqId` is taken (okx.rs:1204),
a price or size (`number`) after it (okx.rs:1250): in the first two cases the chain is
broken for good, in the third it goes on. Any of these takes the whole message with it,
the good trades beside a bad one too (okx.rs:1467-1498); a trade whose `side` is unknown
is left out alone (okx.rs:1489).

`LatencyArb` has the group's task, one task per connection, the channel `raw` between
them and the rotation. The deduper is a set and a queue whose entries age when
`aged` moves, some or all of them at a time; `fwd` is what went downstream and `aged` how
much of it is older than the TTL. A failure of the processor ends the group. A connection
that has ended stays so until the rotation, which goes by the clock, makes another in the
place of the one with the fewest wins.

`SubscriptionManager` chooses a plan (exchange, L2 or trades, OBS adapter or not,
arbitration or not), starts it, completes when the handle completes, and shuts down at
any time (without the registry of OKX's instruments or Deribit's configuration a handler is
not made, and the manager gives up): the token is cancelled and the handle aborted, which is not the same, since an
aborted group leaves its connections' tasks to the token.

### 2.5 Components that share nothing

`Standalone` composes seven components that share no state with each other: `part`
chooses in the initial state which one runs. That is a way to give them one
configuration, not a claim about their interleaving.

- `ParquetSink`: an action per await of the writing task, `stage` is where it is;
  `todo` the streams a stage has still to treat. Creating, writing and closing a file may
  each fail, the task may be stopped between any two steps, and another process starts
  in the same directory. Two symbols may have the same file name.
- `QuestDbSink`: buffers are cleared before the send; a write may fail half way, be
  taken by the kernel of a connection that is already dead, or find no connection, which
  ends the task; the task may be stopped at each of its awaits, with a first part of the
  batch in the kernel. A new process starts with nothing, so there is one life.
- `WsApi`: requests are tasks that share a connection, its writer and reader task and
  its map of pending requests; the lock is not held while a connection is opened.
- `UserStream`: TRADE_LITE and ORDER_TRADE_UPDATE in any order and number, the 1.5
  seconds, the clearing of `seen_ortu`.
- `TradeHistory`: windows and pages over trades that go on being made.
- `CircuitBreaker`: each lock and each atomic is a step, by several threads.
- `Position`: `trade` and `trade_with_fee` over whole quantities with the average price
  as an exact fraction.

## 3. Runs

| Run | Question | Bounds | Result |
|---|---|---|---|
| `account_restore` | Is the table complete up to the restart point, is a replay exact, does the loop stay exact? | 3 executions, 3 ms, epoch 1, one late ORDER_TRADE_UPDATE | holds, 1.47 M states |
| `account_live` | Is a lost stream subscribed again, does every execution reach the table? | 2 executions, 3 ms, fairness | holds, 50 k states |
| `account_once` | docs/trade_account.md:25: exactly-once | 2 executions | refuted |
| `account_gap` | docs/ACCOUNT_STATE_DISCONNECTS.md:72: disconnects are covered by REST | 2 executions | refuted |
| `ids_fleet` | Do ids increase and stay distinct; is `IdDispenser` implemented; does some call return? | 2 processes, 3 threads, 2 ids per ms, one set-back, one restart, fairness | holds, 144 k states |
| `ids_relived` | monoseq.rs:49: globally unique | 1 restart, 1 set-back | refuted |
| `naive_slots` | Do slots and open orders agree, is the exposure bounded, is a cancel charged to its own order? | one side, 2 orders of 2 fills, 2 mids, 3 positions under way | holds, 965 k states |
| `naive_startup` | strategy.rs:347: cancel-all comes first | same side, lots of 1 | refuted |
| `naive_requotes` | docs/naive_mm_strat.md:7: no order, so we post one | same side, one mid, fairness | refuted |
| `feeds` | Is every event accounted for from the socket to the book, does the first copy of each pass, does shutdown stop everything, does a group get a connection again? | 13 plans; handler: 3 events, 1 fault, 2 unread; arbitration: 2 events, 2 connections, deduper of 1, 1 fault | holds, 342 k states |
| `parts` | What the seven components of 2.5 promise | 3 streams, 3 requests, 3 trades, 3 threads, 2 faults, 2 lives | holds, 589 k states |
| `questdb_kept` | docs/QUESTDB_SINK_IMPLEMENTATION.md:92: buffers are kept, a refused connection is retried | 1 stream, 3 rows, 2 breaks | refuted |

Why the bounds are enough. The pipeline's hazards involve at most an execution
that is missing, one that moves the restart point past it and one tied with either;
a table of three has them all, and crashes, errors, losses and restores are not
bounded. The generator's hazards need two threads in one process, a millisecond that
runs out of sequence numbers, one clock movement and one restart. On one side of the
market maker, two orders are the least with which a message about the first meets
the second, and two fills per order the least with which an order is alive after an
execution; the sides share nothing but the position, and what the other side does to
it can only give this side room. `MaxBacklog` bounds the positions under way;
three are enough for a stale one to be handled after two newer fills, and for a
replay to put an old position after a newer one. Symmetry is used for the mids,
which the model only compares.

In `feeds`, three diffs are the least with which one can be missing between two others
and a snapshot can end before, inside or after the second; a fault is an event left out, a
bad or a control frame, or a receiver that goes away, and one is enough since each names
its own kind of loss. For arbitration two connections and a deduper of one key are the least with
which a key is forgotten while another connection has still to deliver it. In `parts`,
two of the three streams share a file name and the third is not written; two lives are
a restart; three requests and three connections let a reset drop a connection that a
third request has opened; three trades pass a limit of two; the time and trades of the
history fill a page inside a millisecond and cross a window; three threads are one that
tests, one that fails and one that asks; three deals with the chosen quantities open, leave
dust, reduce and turn around.

`CHECK_DEADLOCK FALSE` stands where the system may stop: a bounded quantity runs out
(the clocks of `MonoSeq`, the orders of `NaiveMm`), a subscription has ended and been
shut down, a sink is done, all requests are answered.

### Findings

- **Applied twice at start-up** (`account_once`). What survives the drop at
  `mod.rs:421`, and everything later, is applied without looking it up. An execution
  that the first backfill fetched and the replay applied may still be on the wire
  then. The same happens to a TRADE_LITE whose ORDER_TRADE_UPDATE comes late.
- **Lost in a restore** (`account_gap`). REST is read before the new subscription;
  what happens in between is in neither, and out of reach once a later execution is
  persisted.
- **Ids of an earlier life** (`ids_relived`). The generator's state is not kept
  across a restart, and the clock may be set back.
- **Orders before cancel-all** (`naive_startup`). When a position arrives before the
  first decision, `on_position` sets `ready`, `update()` posts at once, and the
  cancel-all that follows with the next book cancels the new orders as well, without
  any report of it reaching the strategy.
- **Rows that nobody keeps** (`questdb_kept`). QuestDB's sink retries a write that fails,
  with a backoff, but not a connection that is refused: that ends the task, with the batch
  that was drained before the send and all the buffers.
- **A side that is never quoted again** (`naive_requotes`). An order request that
  fails is logged and nothing else; there is a time-out for cancels but none for
  posts.

Noted while modelling, not run as claims of their own: the start-up buffer is
applied but not upserted (`mod.rs:409-421`; the history variable `unsaved`); a restore
that finds the table empty skips the backfill (`mod.rs:445`); the epoch itself is
excluded from the fetch and included in the replay; the answer Ok does not say what it
answers, so that a late post acknowledgement frees a slot whose order is open
(`strategy.rs:287`; the history variable `disowned`).

In the market data chain: nothing reconnects a handler, and on OKX and Deribit a ping or
a heartbeat already ends its stream (`EndExplained`). OKX's chain, once broken by a gap or by a
frame whose `seqId` it did not take, drops everything that follows without ending the task, with the entries before the gap in the
same message; under arbitration the copies of a second connection break it.
`take_l2_replay_messages` empties the buffer before it encodes it and would lose what
is there, but nothing is ever there, because no task reads its socket before its
snapshot (`NothingToReplay`). An arbitration group whose connections have all ended
never learns of it, since it holds a sender of its own, and waits; the rotation, which does
not know either, makes one connection anew in every window (`GroupReconnects`). The first
tick of the rotation interval comes at once. One message that does not convert ends a
group with all its connections (latency_arb.rs:222), while a handler goes on. The handle of an OBS subscription with arbitration is one of a
task that does nothing, so the manager completes at once. The OBS book starts empty.
Nothing calls the manager's shutdown.

In the sinks and the account adapter: a Parquet sink that is aborted or fails leaves files without a footer, and
one that cannot list its directory counts from zero and overwrites closed files
(`blind`). A request over a broken connection waits its seven seconds, its entry stays
in the map, and the reset after a failed send may drop a connection that is newer and
sound. `seen_ortu` is cleared with the id just inserted, and the `continue` of a
frame that is skipped skips the flush of old TRADE_LITEs. In the breaker's HalfOpen
state the flag is read and not set, so once it is clear every caller passes
(circuit_breaker.rs:53 says one), and a reader that saw Open before can open HalfOpen
again after a success.

### Properties worth a second look

- `Accounted`: every event that left the socket was handed on, or is named by one of
  the history variables; `Gapless`: where the stream is sequenced, none is missing in
  the output without such a reason; `SnapshotBridged`: the first diff covers the id
  after the snapshot.
- `OnceWhileRemembered`, `FirstCopyPasses`, `LateOnlyIfMissed`: an event passes once
  while the deduper remembers it, never zero times, and late only if some connection
  missed it. `BookExact`: the book stays exact all the same.
- `GroupReconnects`: a running group again and again has a stream, as long as attempts to
  connect go on succeeding now and then.
- `OnlineCoversTable`: a position in use holds every persisted execution but the one whose
  upsert is awaited.
- `RowsExplained`: QuestDB gets a row once, and again only through a write that failed; one
  it does not get was in the kernel when the connection died, or held by the sink when it
  failed or was stopped.
- `RowsOnce` and `FilesKept`: a row is in one place, and a closed file stays as it is.
- `RequestsSound`: an order request is executed at most once however it is retried.
- `TradesReported`: the exact cases in which a trade is reported twice.

- `HolesExplained`: the restart point never moves past a missing execution, except
  for four named kinds. The upsert loop's order is what it rests on.
- `LoopExact`: after a restore the position holds persisted executions only, and
  twice only those with a late ORDER_TRADE_UPDATE.
- `DispenserSpec`: `MonoSeq` implements `IdDispenser`.
- `OrphansExplained` and `PhantomsExplained`: open orders are in slots, and slots hold
  orders that are open or whose end is still to be told, except for `disowned` and
  `silent` ones.
- `ExposureBounded`: the account passes the limit by a lot or more only through an
  order posted against a stale position, or a disowned one.
- `CancelOwned` and `CancelOnce`: a pending cancel belongs to the order in the slot,
  and no order is cancelled twice, though a fill makes a cancelled order live again.

## 4. Fairness

- `AccountState!FairSpec`: weak fairness of the account task and of the adapter. Both
  are tokio tasks that are polled as long as the process runs, and each of their
  awaits ends in an answer or an error. Nothing is assumed of the exchange, of losses
  or of crashes; `EventuallyPersisted` excepts a process that restarts for ever.
- `MonoSeq!FairSpec`: threads are scheduled, clocks advance (weak), and the
  compare-exchange does not fail spuriously for ever (strong).
- `NaiveMm!FairSpec`: books keep coming, messages are handled, requests are carried out
  and time passes (weak); an `update()` that is scheduled again and again finds room in
  the channel at some point (strong: a full channel would otherwise refute anything).
  It is used for a claim that is refuted even so.
- `SubscriptionManager!FairSpec`: weak fairness of the handler's loop, of what a
  connection's task and a group do once their token is cancelled, and of the rotation: these
  are select loops of tokio tasks, a cancelled token is always ready, and the interval of
  the rotation goes on ticking. Nothing is assumed of the network, so connecting,
  subscribing and fetching a snapshot may hang for ever, and `ShutdownStops` is about tasks
  that read. `GroupReconnects` has its assumption on the network in its statement: a
  connection that is tried again and again is made at some point.

## 5. Proofs

All are checked by TLAPS for every value of the constants, from the assumptions named
in the modules.

**AccountStateProofs.** `TypeCorrect`. `HolesAreExplained` from the inductive invariant
`HoleInv`: `HolesExplained` is not inductive, since an execution that is not in the
table yet may be on its way in the REST answer, in the channel, on the wire or still to
be fetched. `Closed` says so for each source: whatever the table, the REST answer,
the channel and the late duplicates already have is preceded only by executions that
are in the table, in an earlier place of the same way, or named by a history variable.
Each action keeps it because it moves executions along these ways in time order.
`ReplayIsExact`, `OnlineCovers` and `LoopIsExact` from `ReplayInv`: during a replay the
position is the part of the load already applied, in order, and what is left is
later than all of it.

**MonoSeqProofs.** `IdOrder` and `MachinesDiffer` are the arithmetic of the id's
fields: ids are ordered as their stamps, and ids of different machines differ.
`StampInvariant`: every id in a process's log is that of a stamp not after
`last_state`, and whoever is between `Load` and the compare-exchange holds a successor
of what it read. From it `IdsIncrease`, `RestartIsFresh` (a restarted process
returns only greater ids unless its clock has shown an old millisecond again), and
`ImplementsDispenser`, the refinement, step by step.

The inductive invariants of these two were also checked by TLC on the runs' instances.

**NaiveMmProofs.** `TypeCorrect`, and from `SlotInv` the four properties of the slots.
None of them is inductive: what a slot may conclude from an answer depends on what has
happened to the order elsewhere. `Fresh` and `Rejected` say that nothing has happened to
an order whose post is still to come, under way or rejected: it is not open, nobody
asked for its cancel, no execution names it, and a slot that holds it is `PendingNew`
(`Untouched`). `Over` says that the answer to a cancel and the last execution tell of an
order that has ended, and `Awaited` that the slot of an order whose cancel was asked for
waits for the answer, so that an answer to a cancel never finds its order unawaited and
marks it Live again. `CancelAlwaysOwned`, `CancelledOnce`, `OrphansAlwaysExplained` and
`PhantomsAlwaysExplained` follow. `ExposureAlwaysBounded` needs `ExposureInv` on top: the
last position under way is the account's (`Heard`), an order of an earlier process was
never in a slot (`Leftover`), and on a side with no excuse the account and what the
slot's order has left stay below the limit and a lot together (`Bounded`).
TLC checked `SlotInv` on the instance of `naive_slots`, and both on one with an order on
either side, before they were proved.

**StandaloneProofs.** Each component's invariant says nothing of the others, and a step
of another component changes nothing of it.
- `BreakerNeverStuck`: `NeverStuck` is inductive with the fact that a failure about to
  open the breaker has stored its time.
- `ApiRequestsSound`, from `ApiInv`: a request is in one place. Before its message is
  queued nothing of it exists (`Places`); it is in one queue, once (`QueuedOnce`), and not
  executed; afterwards it was executed once. `Connections` keeps the handle of a request
  and the map of its connection together, which is what `PendingExplained` needs.
- `StreamTradesReported`, from `StreamInv`: a trade that waits has not been reported, one
  that `seen_ortu` holds was reported from its update, and a trade that was never cleared
  from `seen_ortu` has one of four histories.
- `ParquetFilesKept`, an action property, from `ParquetInv`: numbers are bounded, so each
  key has a greatest one (`Greatest`, from the well-foundedness of the naturals); a
  process that could list the directory counts on from it (`Numbered`); every writer's
  file is open, its own, and not after its key's counter (`Owned`).

**UnifiedHandlerProofs.** `OutputIsGapless`, `EveryEventAccounted`, `SnapshotIsBridged` and
`EndIsExplained`, for every plan and any number of events, unread frames and faults, from
one invariant, `HandlerInv`. An event is in a frame in the socket (`Carried`), in `todo` or
in `out` (`Handed`), and these come one after another in the order of the exchange
(`SockOrdered`, `HandedOrdered`). None of the four is inductive, because whether the next
diff may be handed on is decided by the id the connector or the processor remembers. So
each exchange has a part that says what that id is worth: `BinanceConn` that between
the snapshot and the first diff nothing was handed on, and afterwards that the
remembered diff is the last that was read and nothing is missing up to it
(`Unbroken`); `OkxConn` the same for the processor's chain, or that the
event after it was skipped by the server or not taken by the processor, and no later one
can continue it (`Broken`); `DeribitConn` that the
answer awaited is the only one in the socket and what is before it is `early`. The
largest part is `ReadStep`, where a frame meets each of these.

**LatencyArbProofs.** From `ArbInv`, and for the book and the types with `HandlerInv` as well, for any
number of connections and any capacity.
- The deduper: `Remembers` relates its set and its queue to what went downstream: the
  queue is a final segment of `fwd` with nothing left out, and every earlier event is
  aged or followed by a capacity of others. From it `DeduperStaysSound` and
  `SentOnceWhileRemembered`. `FirstCopyAlwaysPasses`, an action property, follows from how
  the updates of one message are taken in turn.
- The order: `TaskClosed`, `ChannelClosed` and `Closed` say of each connection, of the channel
  and of what went downstream that everything older than an event there is ahead of it on
  the way, has passed, or was `missed` by some connection. `LateIsMissed` needs all three,
  since an event can only be late if it was in none of them. `NothingIsReplayed` needs
  `ConnSound`, what a task's place in its function says of its
  connector.
- The book: `BookStaysExact` is about handler and group alike. `BookInv` says of the book after
  `taken` updates, level by level, that it shows the newest of them, which `apply_update`'s
  comparison with the last id keeps though updates come late; `EventsInv` that only events
  that have happened go out.
- The types: `ManagerTypesHold`. One conjunct bounds the wins of all connections
  together, a fold over a function on connections; `TotalDefined` and `TotalFacts` show that
  the fold is a sum. Induction over the set is out of reach, so `SumsExist` and
  `SumsRelate` argue by the least counterexample among the sizes of its subsets.
  `HandlerLimits` holds the rest that `HandlerInv` does not say. `TypeOK` is about the variables
  of the task that the plan runs; the other's stay as they were initially.

**SinkProofs.** `ParquetRowsOnce` from `RowsInv`, which adds to `ParquetInv` that this process's
rows are in files whose numbers it has already used, so that a file it creates holds none of
them even if it replaces one (`Once`), that a stage that drops writers finds their
buffers empty (`Emptied`), and that a full buffer is about to be flushed (`Short`).
`IlpRowsExplained` from `IlpInv`: a row waits in one place, once (`Apart`), what a flush is
done with is empty (`Settled`), and a row that still waits has not arrived more often than
its writes failed (`Arrivals`). A sink that has ended, however it did, holds nothing.

**AccountProofs.** `HistoryIsComplete` from `HistoryInv`: during a page everything before
`page_start` has been fetched, but for milliseconds that a full page ended in
(`Window`); `PageHolds` is what one page holds. `PositionStaysExact` from `PositionInv`: the
totals over all trades are functions of the number of trades (`SumIs`), of which there is
only one (`SumUnique`, again by a least counterexample), and the balance is multiplied
out, so that each way a trade can go is an identity of integers (`Opens`, `Adds`, `Reduces`,
`TurnsAround`). `StandaloneTypes` puts the invariants of all seven components
together (`Components`) with the bounds they leave open (`Limits`).

What the proofs assume is in the ASSUMEs of the modules: signs and types of the bounds
and sizes, `QuotesAssumption` (a quote is a side, a price and a quantity), `PlansAssumption`
(an OBS subscription is one of L2 updates, as `subscription_manager.rs` asks),
`MaxTime` positive, as the clock starts at 1, and that `EPSILON`, quantities and prices
are not zero. TLC evaluates them in the runs. Only `ImplementsDispenser` assumes more,
that machine ids are distinct.

Every safety invariant and every action property that a passing run checks is proved.
Model-checked only are the liveness properties (`Resubscribes`, `EventuallyPersisted`,
`Progress`, `ShutdownStops`, `GroupReconnects`): fairness and ENABLED are beyond the prover. The invariants
`HandlerInv`, `ArbInv`, `BookInv` and `PositionInv` range over all naturals or over
functions, so TLC checks the properties they imply and not the invariants themselves.

## 6. Plan

Done: the execution pipeline, the id generator and its refinement, the market maker
over gateway and runner, the market data chain from connectors to the OBS book, both
sinks, the parts of the account adapter, the breaker, the arithmetic of a position, and
the proofs of section 5. What is left, in this order:

1. Abstract specifications beside `IdDispenser`, with the refinement proved: `UserStream` for
   the adapter part of `AccountState`, a store of rows for the two sinks.
2. `reduce_only`, the listenKey keepalive, and a broadcast that lags, in `NaiveMm`.
3. OKX's instrument registry and the initialization of a book from a snapshot, if
   something other than tests comes to call it.

## 7. Not modelled, and why

- Capacities of the account channels (2048 executions, broadcast channels that lag): an
  await that blocks only delays, and a lag drops news; the latter is in the plan.
- `build_from_epoch`, which nothing calls, and the in-memory store of the tests.
- Two processes with the same machine id (it is a hash of the host): `IdDispenser` is
  implemented under distinct ids, which is `MonoSeqProofs`' assumption.
- What the exchange rounds, charges or rejects by its own rules, beyond "accepted,
  rejected as post-only, or failed".
- Signing, parsing, HTTP and websocket details, metrics, logging and configuration: no
  state of the trading logic depends on them.
- The floating-point arithmetic of prices and amounts; `EPSILON` in `Position` stands for
  what it leaves over.
- `md/processor.rs` (StreamProcessor) and `output/parquet.rs` (the single-stream sink): only
  their own tests start them.
- `initialize_from_snapshot` of the order book, which only tests call, and OKX's instrument
  registry beyond whether loading it failed.
- `record_batch.rs`, `schema.rs`, the line protocol's text, the builders and conversions of
  `types.rs`: conversions of one value that no property tells apart from it.
- The counters and histograms of every component, `main`, the command line and the
  configuration: wiring in a straight line, and observability.
- Deribit under arbitration beyond connecting: its requests are part of one step there,
  as they are modelled in `UnifiedHandler`, and the configuration it reads, without
  which the group's task panics (exchanges/mod.rs:316), is taken to be there.
- What an execution that is never persisted does afterwards: `EventuallyPersisted` excepts
  those of the start-up buffer (`unsaved`) and a pipeline whose task has ended, since the
  code has nothing that would save the one or start the other again.
