# A TLA+ development for the crypto order book engine

This directory holds TLA+ specifications of the engine, the TLC models that
check them on small instances, and TLAPS proofs for instances of any size.
Paths below are relative to the repository root (`include/...`, `src/...`,
`tests/...`). `PROJECT.json` maps every definition to the lines it models.

## 1. Inventory

The engine keeps order books of several symbols, merges books over exchanges,
looks for arbitrage, and publishes the result. Its parts:

| Part | State | Operations | Interacts with |
|---|---|---|---|
| `OrderBook` (`core/order_book.hpp`) | two arrays of slots (price, quantity), two price maps, two cached best indices, `sequence_number_` | `update_bid/ask`, `clear`, `get_snapshot`, `get_spread`, `get_mid_price`, imbalance, statistics | writers and readers on several threads, through `SeqLock` |
| `PriceIndexMap` (same file) | open-addressing table | `find`, `insert`, `remove`, `clear` | used by `update_level` inside the write lock |
| `SeqLock` (`utils/seq_lock.hpp`) | one counter, odd while a write is in progress | `write_lock/unlock`, `read_begin`, `read_retry` | the order book |
| `LockFreePool`, `PoolPtr` (`core/memory_pool.hpp`) | slots with an in-use flag, a hint | `allocate`, `deallocate`, moves, `release`, destructors | any thread |
| `RingBuffer` (`utils/ring_buffer.hpp`) | cells, `head_`, `tail_` | `push`, `pop`, `peek`, `empty`, `full`, `size`, `clear` | one producer, one consumer |
| `LockFreeQueue` (`utils/lock_free_queue.hpp`) | linked nodes, `head_`, `tail_`, `size_`, retired list | `push`, `pop`, `size`, `empty`, retirement and reclamation | any threads; the recorder |
| `RateLimiter` (`utils/rate_limiter.cpp`) | tokens, time of the last refill, rate, capacity | `acquire`, `try_acquire`, `try_acquire_for`, `get_current_tokens`, `reset`, `set_rate`, `set_capacity` | any threads |
| `OrderBookManager` (`core/order_book_manager.hpp`) | symbol table behind a shared mutex, update callback | create, remove, clear, `process_update`, snapshots and statistics | called by the connectors' I/O threads and the owner |
| `AggregatedOrderBook` (`core/aggregated_order_book.cpp`) | levels per exchange behind a shared mutex, callback | `update`, `clear`, best prices, arbitrage, routing | calls the monitor |
| `AggregatedOrderBook` (`core/order_book_manager.hpp`) | two sorted vectors of levels | `update_level`, `clear`, snapshot, best prices | a second class of that name |
| `ArbitrageMonitor` (`trading/`) | active opportunities, history, totals | `start`, `stop`, books, settings, detection, expiry | callback of the aggregated book |
| connectors, `ConnectionManager` (`exchange/`) | connection state, subscriptions, channel map; connectors and their I/O threads under a mutex | `connect`, `disconnect`, socket events, messages, `start`, `stop`, `add`, `remove` | websocketpp, callers, the manager of books |
| `FrontendWebSocketServer`, `FrontendRestServer`, server program | sessions with write queues, two server threads, the stored messages | `start`, `stop`, `broadcast`, session events, requests | Boost.Beast, sockets, main's loop |
| `WebSocketServer`, `RestAPIServer` (`network/`) | connections and subscriptions; registered books | `start`, `stop`, broadcasts, commands, requests | websocketpp, sockets |
| recorder, replayer (`persistence/`) | queue, writer thread, file, statistics | `start`, `stop`, `record`, `flush`; `open`, `replay`, `replay_from`, `replay_range`, `get_file_info` | `LockFreeQueue`, file system |
| metrics (`metrics/`) | histograms, counters, gauges | record, percentiles, summary, resets | any threads |
| analytics (`analytics/`) | four sliding windows, a mutex each | trades, order books, averages, reset | any threads |
| `ConfigurationManager` (`config/`) | the configuration behind a mutex | load, reload, save, validate | yaml-cpp, file system, environment |
| CPU affinity, tuning, time, formatting | none | wrappers of system calls, text | |

What is hard in it, and what correctness means there:

* **Readers beside a writer.** `get_snapshot` copies levels one atomic load at a
  time while an update stores them one at a time. A snapshot must be the book
  at one instant; the array, the map and the cached index of a side must agree
  whenever no write is in progress; a reader that retries must get through.
* **Several writers.** `SeqLock::write_lock` does not exclude other writers.
* **Lock-free structures.** Single ownership of pool slots and queue nodes,
  FIFO order, no access to a deleted node, progress when a thread stops inside
  a call, counters that stay exact.
* **Time.** Each moment may fill a token bucket once, whoever refills.
* **Lifetimes.** Threads, sessions, connections and files that are started and
  stopped while callbacks arrive: who joins a thread, who closes a session, and
  what a call that has passed its test does after `stop`.
* **Streams.** A message travels from an exchange through a parser, level by
  level into a book and on to clients: nothing may be lost, applied twice,
  applied to the wrong book or told out of order on the way.
* **Best answers.** Routing and arbitrage pick from several venues: what they
  answer must be the best there is, for every order of equal prices.

The hazards are listed one by one, each at its line, in `PROJECT.json`.

## 2. Modules

| Module | Models | Kind |
|---|---|---|
| `PriceIndexMap` | the hash table as operators on a table value | pure |
| `OrderBook` | the book and its sequence lock, one shared access per step | state machine |
| `BookSpec` | an atomic book: what `OrderBook` promises | abstract |
| `RingBuffer`, `BoundedFifo` | the ring, and the bounded FIFO it implements | machine, abstract |
| `LockFreePool` | the pool and the `PoolPtr` variables of its users | state machine |
| `LockFreeQueue`, `ConcurrentFifo` | the queue, and the FIFO it implements | machine, abstract |
| `RateLimiter` | the token bucket and a clock | state machine |
| `Connections` | `ConnectionManager`, the connectors and their I/O threads | state machine |
| `Feeds` | messages, parsers, `OrderBookManager` and its books | composition |
| `Recorder` | recorder and replayer, composed with `ConcurrentFifo` | composition |
| `FrontendServer` | the server program: main, web socket sessions, REST | composition |
| `WebSocketApi`, `RestApi` | `WebSocketServer`, `RestAPIServer` | state machines |
| `Venues` | exchanges, sides and prices of the next two | constants |
| `AggregatedBook`, `LevelList` | the two classes `AggregatedOrderBook` | state machines, answers as operators |
| `ArbitrageMonitor` | detection, tracking, expiry | state machine |
| `Analytics` | the four calculators | state machine |
| `Metrics`, `Collector` | histogram; `MetricsCollector` around it | state machines |
| `Configuration` | `ConfigurationManager` | state machine |
| `MCOrderBook`, `MCLockFreeQueue`, `MCUtilities`, `MCFeeds`, `MCRecorder`, `MCServers`, `MCServices` | update sets, thread sets, symmetry; parts put side by side | instances |
| `OrderBookProofs`, `UtilitiesProofs` (ring and limiter), `LockFreePoolProofs`, `LockFreeQueueProofs`, `FeedsProofs`, `ConnectionsProofs`, `RecorderProofs`, `ServicesProofs` | theorems | proofs |

Common conventions. An action is one access to state that threads share; what a
thread does between two accesses is part of the action before or after it. A
thread's program counter and live locals are a record in a function over
threads. Definitions that carry the source's names (`find_free_slot`,
`read_retry`, `deallocate`) model the functions of those names. An operator
introduced by "mutant:" in its comment is not part of a specification: it is a
plausible wrong version of the definition that follows it, used to show that
the properties can fail.

**OrderBook.** `level`, `map`, `best`, `seq`, `seqno` are the members `bids_` and
`asks_`, the two maps, the two cached indices, `SeqLock::sequence_` and
`sequence_number_`. A writer goes through `BeginUpdate` (conversion to fixed
point, `write_lock`), `FindLevel` (`find`, `find_free_slot`, the early return
when the side is full), `MapInsert`, the stores, `MapRemove` and `ZeroPrice` for
a quantity of 0, `UpdateBest`, `CountUpdate` and `write_unlock`; `clear` is one
step per store. A reader collects, sorts and trims, copies and validates. The
price maps are touched by writers only, so each call of theirs is one step.
Doubles are integers in sub-units of the fixed-point unit, so truncation to
zero happens. Timestamps and order counts are left out: no property and no
branch depends on them. Interleaving atomic accesses is adequate: levels and
the sequence are stored with release and loaded with acquire ordering.

**RingBuffer.** `head`, `tail` and `buffer`; a push is the test, the write of the
cell and the store of the index. The history `queue` is the FIFO's content;
`credit` and `known` are the last answers of `size`, `full` and `empty` to each
side, reduced by what that side has used since.

**LockFreePool.** `own[t][p]` is the slot variable `p` of thread `t` points to, a
`PoolPtr` or the plain pointer `Raw`. `alive` says where an object has been
constructed. The history `thrown` records in which slots a constructor threw.
Deallocating a pointer twice is outside the model, as a misuse of the
interface; the code does nothing against it although
`tests/test_memory_pool.cpp:336` expects it to.

**LockFreeQueue.** Nodes are addresses with contents; `live` are those that are
allocated, and `new` may return any address that is not, so addresses are used
again. `use` fixes at the start which threads take part, the retirement count
that triggers a reclamation and whether a weak compare-and-exchange may fail
spuriously. The retired list is a set: the list order has no effect. The history
`linked` is the list from `head_` on; `ListSound` says that it is what the
pointers of the nodes make.
`Destructed` are the nodes the destructor deletes: with no call in progress,
all that are allocated.

**RateLimiter.** A tick is the time in which a rate of 1 makes a token; elapsed
time is computed modulo `ClockMod`, as in `uint64_t`. `given`, `earned` and
`granted` are histories of where tokens came from and went; `stale` records that
`last_refill_ns_` was set back. `rate_per_second_` and `capacity_` are plain
members, read as they are at the step that uses them.

**Connections.** `conn[e]` is one record for the connector of exchange `e`, its
`ConnectorInfo` and its socket: `state`, `running`, the place of the I/O thread
(`io`), `stopped` (the event loop), `reconnect_count`, `subscriptions`, and
`wire`, the subscriptions the exchange has been told. A call of the manager is
`Start`, `Stop`, `Remove`, `Subscribe`, `Unsubscribe` or `Shutdown`, which lock
the mutex; then one step per exchange and access (`StartConnect`, `Spawn`,
`RequestStop`, `JoinAndDisconnect`, `ChangeSubscription`, `send_subscription`);
then `Return`. The I/O thread runs `on_open`, `on_fail`, `on_close`, sleeps,
reconnects and leaves the loop. The three connectors are alike in all of this.
External behaviour assumed: the loop of websocketpp ends when it is stopped or
out of work, and returns at once when it is run again without a reset;
destroying a joinable `std::thread` terminates the program. Exchanges are
visited in any order, where `std::map` fixes one. Callbacks that throw or call
the manager again are left out. Messages are a matter of `Feeds`.

**Recorder.** The queue is not modelled again: `Push`, `Pop`, `SeeEmpty` and
`NothingToPop` are the actions of `ConcurrentFifo`, which `LockFreeQueue`
implements for many producers and one consumer until its first reclamation, at
the hundredth pop (see `LockFreeQueueReclaim` for what may happen then). `file`
is the sequence of records in the stream, `flushed` how much of it, the header
counted as one, is safe; `disk` is what a closed file or a crash leaves. `start`
opens the one file name again with `std::ios::out`, which cuts it to nothing:
what it held moves to the history `erased`, and `RecordsKept` says that nothing
goes missing in any other way. `record` is two steps, the test and the push; the
writer thread is its loop, the drain and the last flush, and writes one of the
three formats, whose `bytes_written` it counts as each of them does.

An update has a length of its symbol and a number of levels. A BINARY record
states the first in 8 bits and the second in 16 (`StatedSymbol`,
`StatedLevels`): of a longer symbol so many characters are written, while of more
levels all are, so that the reader decodes a wrong update and is lost
in the file afterwards (`Decoded`, `place = "lost"`).

The replayer is a record with its format, the state of its stream and its place.
`format_` of the replayer is read before it is set, so `open` may take the file
for another format; only a reader that takes a BINARY file for BINARY delivers
anything. `read_binary` delivers a record that a crash has cut behind its
timestamp; after `replay_from`, which seeks into the first record, anything may
be decoded (`place = "sought"`); a stream that has met the end of the file stays
failed, since `seekg` clears `eofbit` only, and a call that waits for a good
stream does not come back (`stuck`). `ReplayFaithful` states all of this: what
each kind of reader delivers of each kind of file, a complete prefix in the good
case. One owner starts and stops the recorder: with two, `start` can replace a
thread that `stop` is still joining. A `flush` during a write of the other
thread is a data race and is left out, as is a replay of a file that is being
recorded.

**Feeds.** From a market to a book. External are the exchanges: `market`, the
subscriptions, the channel ids Kraken hands out (and hands out again), and
`wire`, the messages under way. An I/O thread takes a message (`process_update`:
the `on_message` and the parser of its exchange, then the manager's lookup with
`mutex_` held shared), writes one level per step (`ApplyLevel`), takes the
snapshot for the callback (`Notify`) and releases the mutex (`Done`). The
owner creates, clears and removes books.

A book maps prices to quantities and takes one level at a time, with the two
things `OrderBook` does that a plain map does not. A new level of a side that
holds `max_levels` already is refused (`NoSlot`); `process_update` ignores that
answer, and the history `refused` has the levels that were refused when they
last came. And a removal empties the price's place in the price map: a price
that had been put behind it is no longer found (`Hides`). Which prices share a
probing chain is the constant `Behind`; a removal with such a price in the book may
or may not hide it, since that depends on the order in which they came. A book
this happened to is `Astray` and is not followed further: `OrderBook` and
`OrderBookTombstone` are about it. A snapshot has the best levels of each side to
its depth (`Top`): any depth for `get_snapshot`, `Depth` (20 in the code) for
the callback's. The connectors spell a symbol differently, so a book has one
feeding thread; `clear_order_book` takes the mutex shared, so beside an update
it is a second writer, and the book is `Astray` as well.

Kraken sends a change of both sides in two elements of one message, and
`on_message` reads the first of them; `told` is what an exchange has sent in the elements
that are read. `clean` is the history of symbols for which the mirror is promised at all:
the book was there and empty at the subscription, and nothing was cleared,
dropped, unparsable or hidden since. `Mirror` is what such a book must show: the
market, or for Kraken `told`, without the levels in `refused`.

**FrontendServer.** `server_main.cpp` as a whole: main starts two servers, goes
through rounds of five broadcasts (`Turns`), two of them stored for REST, and
after a signal stops and destroys the servers. `sess[c]` is one
`WebSocketSession`: its socket, the operation under way besides the queue
(handshake, welcome, read, pong), its queue and the write of the queue. Handlers
run one at a time on the I/O thread, `send` runs on main's. A message is its
number. External: Beast refuses a write before the handshake is over; on Linux
`close` of a listening socket does not wake a blocked `accept`. `write_mutex_`
guards the queue's vector in `send` and in `on_write`, so each access to it is
one step; the welcome and the pong go past the queue.

**WebSocketApi, RestApi.** The API's two servers, each with its own thread and
the application's thread that starts, uses, stops and destroys it. Stop is one
step per effect: `WebSocketServer::stop` closes every connection, which throws
for one that is closing; `RestAPIServer`'s thread clears `running_` itself when it
cannot bind. Requests and broadcasts are kept with what they send.

**AggregatedBook, LevelList** (over `Venues`). Every operation holds the mutex
throughout, so each is one step, and the answers (`get_best_bid`, `get_snapshot`,
`detect_arbitrage`, `recommend_routing`) are operators on the state, stated for
every order in which `std::sort` may leave equal prices. The properties compare
them with reference definitions: all pairs of levels, all splits of an order.
`RoutingIsBest` also compares the price that is told with the price that the
recommended order would trade at, level by level; section 3 has where they differ.
`update` with a callback asks for its own mutex again and throws. `LevelList`
has `told`, what each exchange told last, and `shared`, the prices two exchanges
quoted at once, for which `update_level` is known to go wrong.

**ArbitrageMonitor.** A reporter runs `Detect` (the tests and the clock),
`Track` (with the mutex) and, when an alert is set, `AfterAlert` (the mutex
taken again after the callback). `stop` clears `running_` and takes the mutex
afterwards (`StopFlush`). Ages are differences modulo `Wrap`. `late` are the
opportunities whose detection had passed the running test before a stop.

**Analytics.** Four calculators over sliding windows; a feeder reads the clock,
then updates the calculators one after another under their own mutexes. A trade
has a price, a volume, which may be 0, and the timestamp its caller gives it. An
average is a pair of numerator and denominator, compared without division. The
history `fed` has the trades since the last reset, from which `AnalyticsSound`
computes the volume-weighted average of a window anew.

**Metrics, Collector.** `Metrics` is one `LockFreeHistogram` with every atomic
access a step: recorders, one query, one reset. `Collector` adds the counters and
gauges of `MetricsCollector`, a monitor that loads a summary field by field and
then resets the counters, and a reset of everything.

**Configuration.** Every operation holds the mutex. A document has some of the
sections and of each some keys; parsing goes through the sections in the
code's order, gives a key that is missing the parser's default and may fail in
the middle; saving writes the sections and keys the code writes. The stream of a
save is never asked, so `Write` has three outcomes, of which `save` tells none:
the file is written, or does not open, or opens and takes nothing. `environment`
gives, for each string that refers to a variable that is set, what one
pass of substitution makes of it, which may be a reference again. `BringsBack`
says what a load of a saved file restores.

## 3. Runs

Every property of a passing run has a mutant of the code under which the run
fails (`PROJECT.json`, "mutants").

| Run | Instance | Shows |
|---|---|---|
| `OrderBook` | 1 writer, 1 reader, 2 slots per side, 4 buckets, 5 kinds of update, 3 operations with `clear` | `IndicesInBounds`; `LevelsConsistent`: slots, price map and cached best index agree between writes; `SnapshotExact` and the refinement `BookIsAtomic`; `ReadersReturn` |
| `LockFreePool` | 2 threads, 2 handles and a plain pointer each, 3 slots, throwing constructors | `Exclusive`, `SlotsAccounted`, `ObjectsSound` |
| `LockFreeQueue` | 2 + 2 threads before any reclamation, and every pair with reclamation after 1 or 2 pops and no spurious failures; 3 nodes | `NodesSafe`, `SizeExact`, refinement `IsConcurrentFifo` |
| `LockFreeQueueStalled` | 2 producers, 1 consumer, one producer may stop anywhere | `OthersFinish` |
| `Utilities` | ring with 4 cells, 3 values; limiter with 2 clients, 1 administrator, 3 clock values, 1 administrative call | `RingSafe`, refinement `IsBoundedFifo`; `TokensSound`, `RateRespectedInOrder` |
| `Connections` | 2 exchanges, 2 callers, 1 symbol, 1 attempt to reconnect | `ThreadsAccounted`, `SubscriptionsSent`, `CallsReturn` |
| `Feeds` | Kraken with 2 symbols and 1 channel id, or Binance and Coinbase; 2 prices, 1 or 2 levels a side, callback depth 1, a removal of one price that may hide the other; 2 changes of the market, 2 subscriptions, 1 call of the owner | `MirrorsMarket`, `CallbackComplete`, `BookStays` |
| `Recorder` | 2 producers, 3 records in all, 2 recordings, 3 formats, an update with a symbol of 256 characters and one with 65536 levels, a flush every 2 records, crashes, replays | `RecordsKept`, `CompleteAfterStop`, `ReplayFaithful`, `StopReturns` |
| `Servers` | frontend with 1 client and 4 messages; WebSocket API with 2 subscribers; REST API | `QueueSound`, `AbortsExplained`, `RestFresh`, `ConfirmationsBracket`, `ApiShutdown` |
| `Services` | both aggregated books with 2 exchanges, 2 prices, orders of 2; monitor with 2 reporters; analytics with 2 feeders and trades of 3 prices and volumes, 0 among them; histogram with 2 recorders and the percentiles 50 and 100; collector with 3 events; configuration with 5 documents in 3 environments | `RoutingIsBest`, `OpportunitiesSound`, `ListFaithful`; `TrackedOnce`, `AgesHonest`, `QuietWhenStopped`; `AnalyticsSound`; `MetricsSound`; `ConfigSound` |
| `OrderBookTombstone` | removals of colliding prices | violated: `MapFindsLevels` |
| `LockFreeQueueReclaim` | 2 producers, 1 consumer, reclamation after each pop | violated: `NoUseAfterFree` |

The violations are disagreements between the code and its own comments, quoted
under "findings": `PriceIndexMap::remove` leaves no tombstone, so it cuts
probing chains; `try_reclaim` deletes nodes that a producer may still hold. The
passing runs stay on the side where the code keeps its
word: one writer, and colliding prices that are not removed; no reclamation
beside a second producer or consumer; refills in order. Where the side is a matter of the
history and not of the instance, the property names it: `clean` in `Feeds`,
`shared` in `LevelList`, `late` and `alerted` in the monitor, `InOrder` in
`Analytics`, `stale` in `RateLimiter`, `place` in the replayer. What is behind such
a name happens in the model and no property denies it; the hazards in
`PROJECT.json` that are of this kind name no property and say so in a note.

**Deviations met while modelling.** The models contain them; they have no run of
their own because a property against them would fail at once and say no more
than the line itself.

* *Order book.* Two writers of a book share a free slot (`write_lock` does not
  exclude them). Quotes are read outside the sequence lock and may use a price
  of 0. `clear_order_book` holds the manager's mutex shared, so beside an update
  it is a second writer. The aggregated book's `update` with a callback set asks
  for its own mutex and throws before the callback is reached.
* *Utilities.* `allocate` may miss a slot that is free. `capacity()` of the ring
  is one more than it can hold. `size_` of the queue may wrap below 0 for a
  moment. `try_reclaim` counts pops and asks nobody: it deletes nodes that
  another consumer or producer holds, and where a compare-and-exchange can fail
  spuriously even one producer and one consumer can meet that. `acquire(n)` with `n` above the
  capacity never returns. A refill whose clock value is older than the stored
  one fills the bucket at once.
* *Connections.* An I/O loop that ended by itself is no longer marked as
  running, so nobody joins its thread before it is destroyed. `on_close` stores
  `RECONNECTING` and calls `connect`, which accepts `DISCONNECTED` only: a lost
  connection never comes back.
* *Feeds.* Binance's stream has no snapshot, so levels from before the
  subscription are missing until they change. A snapshot after a second subscription is
  applied as an update, so levels that went in between stay. Kraken's
  messages are read in their second element only, so the second half of a change
  of both sides is lost. `process_update` does not look at the answer of
  `update_bid` and `update_ask`: a level that finds its side full stays missing
  until it is told again. The callback's snapshot has 20 levels of a side,
  whatever the update was about.
* *Recorder.* An update that `record` accepts while `stop` drains the queue goes
  into the next file. A second `start` erases the file of the first. Lengths of a
  BINARY record that do not fit their fields are cut. "Replays entire file from
  start to finish" (`include/persistence/market_data_recorder.hpp:328`) is so only for
  a BINARY file and a reader whose uninitialised `format_` happens to be BINARY;
  otherwise `open` succeeds and a replay delivers nothing. `replay_from` and `get_file_info` skip 16 bytes of a
  12 byte header and, after the end of the file, may never come back. JSON and CSV
  files are not replayed, and their `bytes_written` adds up absolute positions;
  that of a binary file leaves out the header.
* *Servers.* Once a client has connected, shutdown ends in `std::terminate`:
  the session's destructor calls `shared_from_this`. A broadcast during a
  handshake fails and stalls that session's queue for good. Welcome and pong are written
  beside the queue, maybe during one of its writes, and from buffers that are gone. A stop that meets a closing connection, or a
  port that is taken, ends in `std::terminate` as well. A blocked `accept` is
  not woken by `close`. The channels of a subscription are never consulted.
* *Services.* A removal or an update at a price another exchange is listed
  at first is dropped or doubled (`LevelList`). A detection that passed its test
  before `stop` is tracked after it. With two feeders a sample may come with a
  time before the last one; TWAP then takes a negative duration, modulo 2^64. TWAP
  weights a price by the time until the next one and gives the last no weight yet, while
  the header has it weight each sample equally
  (`include/analytics/market_analytics.hpp:125-126`) and the test `MultiplePrices`
  expects the mean of three prices (`tests/test_analytics.cpp:102-103`): the code's
  answer is that of the first two. A percentile whose target is 0 answers the first bucket.
  Updates between a summary's look at the counter and `reset_counters` are
  never reported. A failed parse leaves the sections before the failure applied,
  and saving replaces `${...}` references by their values, which are substituted again
  by the next load. `save` answers true when the file was not written
  (`src/config/configuration_manager.cpp:113-117`). A key that `save` does not write, of a
  section that it does, is back at the parser's default after a load.
* *Routing.* The price told for a single venue is the top of its book
  (`src/core/aggregated_order_book.cpp:209`): too good for an order that reaches past
  that level, where the header says "Expected execution price" and "Considers
  liquidity and price impact" (`include/core/aggregated_order_book.hpp:160`, `:311`). A
  venue that is the only one with levels is recommended although it holds less than the
  order ("Single venue can handle the order", `.cpp:206`). The price of a split counts
  levels the order does not reach (`.cpp:217-226`), so it is never too good. The primary
  exchange of a split is the first with a part, not the one with the "Largest
  allocation" (`.cpp:229`). `RoutingIsBest` states each of these as it is.

**Bounds.** Two slots and three operations let a side fill up, refuse an update,
lose its best level and reuse a slot, with a second price in the same home
bucket behind the first; one reader suffices, since readers share nothing with
each other. Three operations include every order of two updates and a `clear`
around a snapshot in progress. A ring of four cells wraps with all three values
in flight. Three pool slots and three variables per thread allow a probe to wrap
past slots that are claimed and freed meanwhile. Three nodes are the dummy, a
value and one address that is free, retired or used again. In the limiter three
clock values give an interval that two threads claim and one that was
already paid for. Two exchanges and two callers let a call of one exchange wait
behind a call of all, with either I/O thread anywhere; a second caller matters
only between calls, as the mutex serialises them. In `Feeds` one channel id for
two symbols makes Kraken use it again, with a message of the first symbol still
under way, and two messages per connection let an update follow a snapshot.
Two recordings with three records of two producers let an update miss one file
and open the next, and a batch of two lets a crash fall before and after a
flush. Four messages make a queue of the frontend grow behind a write while
the client connects, pings and leaves; three messages to a client of the API are a
confirmation, a broadcast and the end of the subscription. The one price of a side that a book of one level holds
refuses the other, a book of two has both, of which the callback sees one. Of the
recorded updates one is followed whole, one loses characters of its symbol and one
derails the reader. In `Services` an order
of two units fits a level, reaches a second level or another venue, or is more than
there is; feeders, and likewise recorders, are interchangeable; a history of one
entry overflows; a window of two ticks, with a clock of five, expires both trades
and samples; at the percentile 100 the target is the total as soon as there
is one, so that a query races with the second recorder's bucket; a reset may fall
anywhere among two recorders and a query. The environments have no variable, an
address, and a variable that refers to another, which is empty; the documents change
addresses, rates, ports and the settings that `save` leaves out, and fail in the last
exchange, in the cores or at once. The servers, and likewise the services, share nothing, so
their state spaces are put side by side (`part`) rather than multiplied.
Constants named `Max...`, `LastTime` and `ListBound` bound the models and
not the code; the guards of the actions carry them.

**Deadlock** is checked for the order book, the ring, the queue and the limiter.
It is not checked where the modelled system ends: a pool, a server or a
connection manager that was destroyed or whose program was terminated, a
recorder that has crashed or is not started again, writers without readers,
feeds and services whose bounded inputs are used up.

**Fairness.** Only a thread inside a call is assumed to keep running (weak
fairness on its next step): the calls take no lock and wait for nothing but each
other, and an operating system schedules every runnable thread. Nobody is
assumed to begin a call. `ReadersReturn` therefore speaks of readers once
writers pause (their operations are bounded); with writers that never pause a
reader may retry for ever. In `LockFreeQueueStalled` the stalled thread has no
fairness at all. In `Connections` callers inside a call and I/O threads keep
running and the sleep before a reconnection ends; no call and no event of the
network has to happen. In `Recorder` the writer thread and an owner inside a call
keep running. The other runs state safety only: what their threads wait for
(a client that connects to a blocked `accept`, a further message) is nothing
the code can count on.

## 4. Proofs

| Theorem | For every | Statement |
|---|---|---|
| `OrderBookProofs!TypesAndBounds` | number of writers, readers, slots, buckets, any updates | `Spec => [](TypeOK /\ IndicesInBounds)` |
| `OrderBookProofs!SnapshotsAreExact` | the same, with one writer | `Spec => SnapshotExact` |
| `OrderBookProofs!LevelsStayConsistent` | the same, prices in `BookSuits` | `Spec /\ [][LookupsKept]_vars => []LevelsConsistent` |
| `OrderBookProofs!LevelsAreConsistent` | the same, prices in `RemovalsApart` too | `Spec => []LevelsConsistent` |
| `OrderBookProofs!BookStaysAtomic` | one writer, prices in `BookSuits` | `Spec /\ [][LookupsKept]_vars => BookIsAtomic` |
| `OrderBookProofs!BookIsAtomicAlways` | the same, prices in `RemovalsApart` too | `Spec => BookIsAtomic` |
| `UtilitiesProofs!RingIsSafe` | capacity, values | `RingSpec => []RingSafe` |
| `UtilitiesProofs!RingIsFifo` | capacity, values | `RingSpec => IsBoundedFifo` |
| `LockFreePoolProofs!PoolOwnership` | threads, handles, slots, throwing or not | `Spec => []Exclusive` |
| `LockFreePoolProofs!ObjectsAreSound` | the same | `Spec => []ObjectsSound` |
| `LockFreePoolProofs!SlotsNotLost` | the same | `Spec => []SlotsAccounted` |
| `LockFreeQueueProofs!QueueIsSafeAlways` | threads, values, nodes, uses in `SafeUses` | `Spec => []NodesSafe` |
| `LockFreeQueueProofs!SizeIsExactAtRest` | the same, width of the counter | `Spec => []SizeExact` |
| `LockFreeQueueProofs!QueueIsConcurrentFifo` | the same | `Spec => IsConcurrentFifo` |
| `UtilitiesProofs!TokensAreSound` | threads, rates, capacities, needs, clock width | `Spec => []TokensSound` |
| `UtilitiesProofs!RateIsRespected` | the same | `Spec => []RateRespectedInOrder` |
| `FeedsProofs!MirrorsMarketAlways` | exchanges, symbols, prices, quantities, levels a side, depth, hidden prices, channels, bounds | `Spec => []MirrorsMarket` |
| `FeedsProofs!CallbackCompleteAlways` | the same | `Spec => []CallbackComplete` |
| `FeedsProofs!BookStaysAlways` | the same | `Spec => []BookStays` |
| `ConnectionsProofs!ThreadsAreAccounted` | exchanges, symbols, callers, attempts | `Spec => []ThreadsAccounted` |
| `ConnectionsProofs!SubscriptionsAreSent` | the same | `Spec => []SubscriptionsSent` |
| `RecorderProofs!NoRecordIsLost` | producers, records and their lengths, recordings, flush interval | `Spec => []RecordsKept` |
| `RecorderProofs!StopCompletes` | the same | `Spec => []CompleteAfterStop` |
| `RecorderProofs!ReplayIsFaithful` | the same | `Spec => []ReplayFaithful` |
| `ServicesProofs!QueuesAreSound` | clients, messages | `FrontSpec => []QueueSound` |
| `ServicesProofs!AbortsAreExplained` | the same | `FrontSpec => []AbortsExplained` |
| `ServicesProofs!RestIsFresh` | the same | `FrontSpec => RestFresh` |
| `ServicesProofs!ConfirmationsAreTrue` | subscribers, symbols, messages | `WsSpec => []ConfirmationsBracket` |
| `ServicesProofs!ApisShutDown` | the same, books | `WsSpec /\ RestSpec => []ApiShutdown` |
| `ServicesProofs!StoppedIsQuiet` | reporters, books, profits, bounds | `MonitorSpec => []QuietWhenStopped` |
| `ServicesProofs!OpportunitiesAreSound` | exchanges, prices, quantities, thresholds | `AggregatedSpec => []OpportunitiesSound` |
| `ServicesProofs!SummariesAreSound` | gauge values, number of events | `CollectorSpec => []SummarySound` |
| `ServicesProofs!SavedFilesLoad` | documents and environments, whatever they hold | `ConfigSpec => ConfigSound` |

The theorems about the servers and the services are about each by itself
(`FrontSpec`, `WsSpec`, `RestSpec`, `MonitorSpec`, `AggregatedSpec`,
`CollectorSpec`, `ConfigSpec`); `MCServers` and `MCServices` put their state spaces side by
side for TLC. `SummarySound` is the half of `MetricsSound` that is about the
collector; the other half, `PercentileSound`, is only model-checked.

Assumptions: those named in the modules, and for all but the first theorem
about the order book that there
is at most one writer: the levels a snapshot copies are those of one instant only
if writers exclude each other, which the code leaves to its users. The theorems
about what the book holds also assume `BookSuits`: no price of an update converts
to 0, which is how a free slot is marked, and the price map has a bucket for
every level (4096 for 1000 levels in the code). And they exclude what the run
`OrderBookTombstone` shows, in one of two ways. `LookupsKept` is about the
behaviour: a removal from the price map changes what `find` returns for no other
price. `RemovalsApart` is about the prices alone and implies it: the home
bucket of a price that may be removed is none of the first `MAX_LEVELS` that a
probe for another price inspects; it holds in the instance of the run `OrderBook`,
where two prices share a home bucket but neither is removed. Without one of them the
statements are false of this code. The theorems
about the queue assume `SafeUses`: a behaviour either has one producer, one
consumer and no spurious failures of `compare_exchange_weak` (x86), with any
number of reclamations, or it has any threads and fewer nodes than the threshold
of `try_reclaim`, so that nothing is deleted. Without it the queue is not safe, as
`LockFreeQueueReclaim` shows; the uses checked by the run `LockFreeQueue` all
satisfy it. An address is no wider than `size_t` (`QueueAssumption`). The limiter
assumes that rates, capacities and the clock fit the width of `uint64_t`
(`ClockMod`); the feeds, that there are finitely many prices and that no symbol
belongs to two exchanges, which name them differently (`FeedsAssumption`); the
recorder, that the marks for "no update" and "torn record" are not updates
(`RecorderAssumption`); the configuration, that the addresses of `create_default` hold
no reference (`EnvironmentAssumption`).

* *Bounds.* `IndicesInBounds` is inductive together with `TypeOK`: every index
  in the map comes from `find_free_slot` after the test for `SIZE_MAX`, whatever
  writers do to each other.
* *Snapshots.* `LockInv` says that the sequence is odd exactly while a writer
  is inside (`Parity`), that a reader's remembered sequence is even and not in
  the future (`Started`), and that as long as the sequence still equals it
  (`StillValid`) everything the reader has collected and copied agrees with the
  levels (`Matches`). A write makes every reader invalid; a reader step extends
  the agreement; validation then gives the snapshot. The price map plays no
  part: the theorem covers colliding and removed prices.
* *Book.* `BookInv` says that between operations each side is settled: its
  prices are distinct, its map has exactly the entries of its levels, each where
  a probe gets to it past full buckets (`Mapped`), its cached index is a best
  slot, and the levels are the abstract side (`Settled`). Inside an
  operation it says, stage by stage, which of these the next store has yet to
  restore (`Stage`, `ClearingSides`), and at the release that the book differs from the
  abstract one by the operation (`Done`). A side with a free slot has
  fewer entries than its map has buckets, by counting (`MapHasRoom`), so `insert`
  always finds an empty one, and a price is behind a chain shorter than the number of
  levels (`ChainIsShort`), which is what makes `RemovalsApart` enough. That an
  exact snapshot is the best `Depth` levels of the abstract book (`SnapshotIsTop`)
  is again counting: an entry is among those kept exactly when fewer than `Depth`
  entries rank before it. A writer's step is then a stutter until the release,
  which is the abstract update, clear or refused update; a reader's is a stutter until
  its sequence is confirmed, which is the abstract snapshot.
* *Ring.* The invariant relates `queue` to the cells between `tail` and `head`
  (`Counted`, `InCells`) and knows what each side has in hand
  (`ProducerHas`, `ConsumerHas`); index arithmetic modulo the capacity is
  settled once in `Steps` and `CellsOfQueue`. Each step is then a step of
  `BoundedFifo` or a stutter.
* *Pool.* The invariant ties program counters to flags, objects and owners.
  Moves are one lemma (`Takeover`): ownership passes from a set of places to
  another and nothing else changes.
* *Queue.* `QueueInv` has four parts. `ListInv`: the list has no loop and `tail_`
  is at its last node or the one before. `PlacesInv`: an allocated node is in the
  list, retired, or held by one thread, as a node not linked yet, one just
  unlinked or one to be deleted. `NodesInv`: only the last node of the list has no
  next, among those unlinked too. `Knowledge`: what each thread may conclude from
  the pointers it has loaded, which is where the two uses differ. Without
  reclamation a loaded pointer stays a node that is or was in the list; in a pair
  it stays the head or the last node, as nobody else moves them. Steps that touch
  no node are settled by `LocalStep`, moves of `tail_` by `TailStep`; the others
  by one lemma each. `RetiredCounted` keeps the counter below the threshold in
  the first use. The size differs from the length by the calls between the two,
  modulo the width (`SizeInv`). The FIFO's queue is the data of the list after
  the dummy node.
* *Limiter.* `BucketInv` adds to the count what each thread has in its locals: a
  refill that goes on saw room in the bucket, an acquisition that goes on saw
  enough tokens, so that the compare-and-exchange that follows keeps the bounds.
  For the rate, `PaidFor` says that the tokens added and those claimed by threads
  that have not added them yet are paid for by the time up to
  `last_refill_ns_`. The claims are summed over the threads along an enumeration
  of them (`IsTotal`), whose partial sums make one thread's change provable
  without induction.
* *Feeds.* `BooksAgree` follows one price of one clean symbol: the quantity the
  exchange told last is that of the last level under way that names the price; if none does,
  that of the level the I/O thread still has to apply; if none is left either,
  that of the book, or the book refused it and has nothing there (`KeyAgrees`, `Holds`).
  Astray books leave `clean` with the step that loses them. It is inductive with three more things: messages
  under way have each price once and are of a symbol of their exchange
  (`WiresSound`); a thread with levels left has a book that stays
  (`ThreadsSound`) and has applied the others (`UpdatesApplied`); and a message of
  Kraken, which names a channel, will be taken for the symbol it was sent for,
  by what `channel_map_` holds by the time the thread gets to it
  (`ChannelsDistinct`, `ChannelsResolve`). That the parser's division of levels into
  sides loses and adds none (`SameLevels`) is proved about its recursive
  function by a least counterexample.
* *Connections.* Whoever is inside a call holds the mutex (`Holder`); `CallsSound`
  says what the holder may rely on between two steps of a call (no thread runs
  where it is about to spawn one, the mark is gone where it joins), and `Wires`
  that connector and exchange differ by the symbol of a call in progress at most.
* *Recorder.* `WrittenInOrder` and `CountersSound` are inductive with the types and
  the places of owner and writer; `PromiseKept` ties the moment at which the writer
  found the queue empty after `stop` to the lengths of the file and of what was erased;
  `DiskSound` says what a crash leaves, `DeliveredSound` that a delivery is what the
  records before it decode to, and `PlaceSound` that a reader which is aligned has
  delivered every record up to its place and one which is lost ended with a torn one.
* *Servers.* A session's queue, write in flight and history fit together
  (`SessionSound`), a message is older than none of its stream that was stored
  (`StoredSound`), and `ThreadsSound` knows which threads can still run at each
  place of main. `ConfirmationsBracket` is inductive once a client without a
  connection is known to have been sent nothing (`FreshSilent`).
* *Services.* `QuietInv` adds that a reporter at the lock of `Track` that is not
  `late` finds the monitor running, so that what it adds was detected in time.
  `BookSound` says that prices and quantities are naturals and that some price
  bounds all of them, so that among the levels of a side there is a best one
  (`BestIsBest`, by well-foundedness) and the best ask and bid are the pair that
  pays most (`ProfitGrows`). A message of the model has one level, so the fold
  over it is unfolded once (`OneFold`). `SummaryInv` adds to `SummarySound` what
  the monitor has loaded and not reported yet.
* *Configuration.* `ConfigInv` says that a configuration can always be written and
  read (`Loads`): none of its lists is one that `parse_yaml` throws on, and, unless
  a variable refers to another, substituting the environment a second time changes no
  address; and that the file of a save is what `save` emits. `Parsed` lists
  what the parser may leave of a section; a saved file throws nowhere, so each
  section it has is parsed (`SavedParses`).

Only model-checked: liveness (`ReadersReturn`, `OthersFinish`, `CallsReturn`,
`StopReturns`), since fairness and `ENABLED` are out of the prover's reach; what
folds and sorts over levels, histories, windows and buckets compute, which needs
induction over data (`RoutingIsBest`, `ListFaithful`, `AnalyticsSound`,
`PercentileSound`, `TrackedOnce`, `AgesHonest`).

## 5. Not modelled

* CPU affinity, system tuning and the time utilities: wrappers of system calls
  and clock conversions without state. Nothing else calls the first two; the
  clock is a variable of the modules that need one, and it never goes back.
* `main.cpp`, a demonstration that calls the components on one thread and prints.
* `ExchangeRateLimiters`, a table of limiters that only delegates.
* The text of messages, of JSON, YAML and HTTP, and the formatters that nothing
  calls; the layout of a record; the pace of a replay; the random prices of the
  server program. A message, document or record is what the properties tell
  apart in it.
* Rounding of doubles. Prices and quantities are integers and averages are
  fractions; the truncation to fixed point in the order book is modelled.
* Data races whose outcome the language leaves open, beyond those named above:
  `flush` beside a write, two owners of a recorder, callbacks that call back into
  the manager that runs them.
