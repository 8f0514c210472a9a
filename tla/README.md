# plantstream: a TLA+ model of the edge node

plantstream polls machines (Modbus, simulation, CSV), judges the quality of
every reading, publishes it to a broker (the Unified Namespace) and forwards
the broker's traffic to a cloud sink with store-and-forward.  This directory
models the parts of it in which goroutines, a disk and a network meet, and the
pure code that decides which register ends up on which topic.

## The system

| Part | State | Operations | Who calls it |
|---|---|---|---|
| inbox (`bridge/inbox.go`) | FIFO per topic, ring, cursor, count, wakeup slot | push, pop | broker goroutine, forwarder |
| bridge (`bridge/bridge.go`) | belief about the sink, retry timer, message in hand | onMessage, Run (replay, spill, fail, drain) | broker goroutine, forwarder, timer |
| disk queue (`adapters/diskqueue`) | segment files, head file; cursor and counters in memory | Open, Push, Peek, Ack, Close | forwarder |
| edge node (`edge/node.go`, `latest.go`) | evaluators, cache | Run, OnReadings, OnError, checkStale | pollers, stale checker |
| quality rules (`domain/quality`) | last value, run of unchanged values, verdict | Observe, Comm, Check | edge node, under its mutex |
| pollers, health (`collectors/source.go`) | source status | pollOnce | one goroutine per source |
| Modbus source and client (`collectors/modbus.go`, `modbus`) | read plan, connection, transaction id | Read, reconnect, Close | poller |
| Modbus server, plc-sim (`modbus/server.go`, `cmd/plc-sim`) | register bank | handle, writeRegisters | client's connection, ticker |
| CSV source (`collectors/sim_csv.go`) | open file, position, exhausted | Read, Close | poller |
| asset model (`domain/asset`) | validated plant, index | load, validate, TagsForSource | everything, at start |
| in-memory broker (`adapters/memory/broker.go`) | retained messages, subscriptions, channels | Publish, Subscribe, Close | node, bridge, API |
| MQTT adapter (`adapters/mqtt`) | subscriptions; connection of a library | Subscribe, resubscribe, onPublish, Close | node, bridge, API |
| event streams (`api/http/server.go`) | buffer, drop count per client | stream | HTTP clients, broker goroutine |
| in-memory queue, Kafka sink | slice under a mutex; connection of a library | Push, Peek, Ack; Send | forwarder |
| UNS topics and payloads | sequence numbers | match, validate, encode | node, brokers |
| line simulation, other HTTP views, configuration, observability | none that others depend on | reads | operators |

Data flow: source → poller → node (evaluator, then cache and broker) → broker
→ bridge (inbox, then sink or queue) → sink; event streams hang off the broker.
Hard behaviours: the node computes under a mutex and publishes after releasing
it; the inbox signals after its unlock; the broker takes its targets under a
lock and sends after it; the sink and the disk fail at any call; a device
answers late, twice or not at all; an MQTT session is forgotten; the process
is stopped or killed anywhere and starts again from what is on the disk.

What makes each part correct: the inbox loses nothing uncounted and serves
every topic; the bridge keeps each topic's order and, except in a crash, every
message; the disk queue is a FIFO whatever moment the process dies at; the
node announces each silence once and shows the current verdict; DEATH ends a
source's messages; a topic shows the registers of its tag as they were at one
moment of the poll; a subscriber misses nothing between the retained messages
and the live ones; nobody waits for ever for a slow or departing subscriber.

## Modules

Forwarding:

- `Inbox`: the inbox and its two goroutines.  `push` and `signal` are the
  parts of push under and after the mutex; `await`, `pop`, `pop_none` are the
  forwarder's loop.  `MCInbox` gives the topics.
- `Bridge` extends `Inbox` with Run: each blocking or failing call is a step
  of the forwarder (`pc`).  The sink goes up and down freely (`toggle_sink`), a
  send may fail although the message arrived (`Ambiguous`), queue calls may
  fail (`MaxErrors`), the context may be cancelled and the process killed;
  `start` is the next process, which gets the retained samples first.  The
  samples of a topic are numbered, so order and loss are visible.
  The disk queue is seen from outside, twice: `queue` is what this process will
  deliver, `stored` what a restart would find.  As long as no call fails the two
  are one, the queue of `StoreQueue`.  An `Ack` that cannot write the head file
  changes `queue` only, and a crash brings back the rest; an append or a roll
  that fails makes the files `torn`: whatever is stored later may be out of
  reach, of this process (`replay_ack`, `replay_discard`) or of the next
  (`Found`).  What failed removals and truncations do is in `DiskQueue`.
  `publish` is the broker handing a message to onMessage: what waits in the
  broker's own channel is not the bridge's yet.
- `StoreQueue`: what the bridge expects of a `ports.Queue`: push at the end,
  ack at the front, counted evictions that spare the newest record.
- `DiskQueue`: the disk queue.  A step changes the disk at most once, so a
  crash falls between any two disk operations.  A record is a run of cells,
  the CRC is their completeness; `Faults` says which system calls may fail: an
  append or its fsync, Push opening the next segment (`roll_fails`), a write of
  the head file, a removal, a truncation, Open opening a segment
  (`recover_fails`); and stored cells may go bad.  Not covered: a read that
  fails although the bytes are there (`Peek`, `scanSegment`, `readHead`, which
  takes an unreadable head file for none), and a directory that cannot be made
  or listed.  A `Writable` queue has its writer open; after a failed roll every
  `Push` returns an error until the next `Open`.
  `MaxRecord` is the longest record a reader accepts (`maxRecordBody`).
  `Abstract` maps it to `StoreQueue`: the abstract items are what a process
  opening the directory now would find.

Judging:

- `Quality`: the evaluator as operators; `QualityRules` drives one evaluator
  with every sequence of calls and keeps the history.
- `EdgeNode`: Run, a poller per source, the stale checker.  A handler's part
  under the mutex is one step; each message is then published in two steps,
  cache and broker.  `MCEdgeNode` gives sources and tags.

Collecting (`Sources` extends `Modbus` and `CsvSource`, which extend `Plant`
and `Registers`):

- `Registers`: a value as registers, in four byte orders: encode, decode, and
  clamping.  `Base` is the number of values of a byte; 256 in the code.
- `Plant`: defaults, validation and index of a plant definition, and the
  node's routing of readings by tag name.
- `ModbusPlan`: how tags become requests, and `LeastRequests`, the least number
  of requests any legal plan needs, as the reference.
- `Modbus`: one poll cycle, request by request: connect, send, receive, time
  out, close on a transport error.  The stream is a sequence of frames; a
  deadline inside a frame leaves a marker after which everything is out of
  step.  The device answers from its bank, may be slow, lose a request, answer
  twice or answer nonsense; plc-sim replaces the tables one after the other.
- `CsvSource`: a file replayed row by row, once or in a loop, while the file is
  replaced or removed.
- `Sources`: the composition, from a plant definition that may be invalid to
  the values shown on topics.  `MCSources` gives plants, device and files.

Distributing (`Brokers` extends `MemoryBroker` and `MqttBroker`, which extend
`EventStream` and `Uns`):

- `Uns`: filters, and matching by the code's loop; `Means` is what a filter means.
- `EventStream`: what a subscriber's handler does: keep the message, or, for
  an event stream, put it into its buffer or count it as dropped.
- `MemoryBroker`: Publish takes retained message and targets under the lock
  and sends to one channel after the other; a subscription's goroutine is
  started after the unlock; contexts end; Close waits.
- `MqttBroker`: local subscriptions sharing the filters of one session that
  the server forgets when the connection was lost for long; `resubscribe` works
  from a list read earlier.  The server and the library are external and as
  the adapter uses them.
- `Brokers`: either broker, as newBroker chooses.  `MCBrokers` gives topics,
  filters and messages.

Proofs, each extending the module it is about: `InboxProofs`, `BridgeProofs`,
`DiskQueueProofs` (whatever fails) and `DiskStateProofs` (while nothing, or
only removals, truncations and opens, have failed), `QualityProofs`, `EdgeNodeProofs`,
`BrokersProofs`, `SourcesProofs`.

Definitions whose comment begins with "Mutant" are variants of the definition
that follows, each with a fault a property has to notice; nothing uses them.

## Runs

| Run | Bounds | Shows |
|---|---|---|
| `Inbox` | 3 topics, 2 messages each, budget 4 | count, ring, cursor, wakeups and drop reports are exact; topics that stay backlogged are served in turn |
| `InboxStranded` | 2 topics, 2 each, budget 2 | *violated*: a push that evicts its own topic takes it off the ring for ever |
| `DiskQueueCrash` | sizes 1-3, budget 4, segment 2, 4 pushes | refinement of `StoreQueue`, exact counters, the byte bound, a cached record that is the head |
| `DiskQueueFaults` | sizes 1-2, 3 pushes, 2 failures of 7 kinds | no unread segment is removed at recovery unless a roll has failed; records are delivered in order unless the head file, a removal or a truncation has failed; only a failed append, roll or head write or a bad cell loses a stored record |
| `DiskQueueTornTail` | one failed append | *violated*: records pushed behind a torn one are lost uncounted |
| `Bridge` | 1 topic, 2 samples, inbox of 1, batch 1, queue 2, 1 failing queue call, any number of failing sends, restarts and crashes | order (but for samples a failed queue call brings back), no lost wakeup or retry, a shutdown keeps what was delivered before it, everything is forwarded in the end |
| `BridgeLateMessage` | 1 topic, 2 samples, graceful stop | *violated*: a message delivered after drain and before unsubscribe is lost |
| `QualityRules` | 5 calls, 4 ticks, 3 values and NaN | the incremental verdict is the one the code's rules, in the code's order of precedence, give to the whole history |
| `EdgeNode` | 1 source, 1 float tag, 2 ticks, refusals | silences announced once; what is shown, once a poller's messages are out, lags only by a STALE; lifecycle order |
| `EdgeNodeHiddenOutage` | 1 source, 2 integer tags | *violated*: a late STALE hides BAD during an outage |
| `Sources` | 15 plants, 3 snapshots of 5 signals, 4 byte orders, bytes of 8 values, 8 addresses, 3 registers per request, 3 transaction ids, 4 files | plans are legal, complete and least; no stale, torn or misread value is shown; every pass over a file, the last or not, is complete; sources recover |
| `Brokers` | 2 subscribers, one of them a stream, 2 publishers, 2 topics, buffers of 1, 2 messages, 2 reconnects | nothing falls between snapshot and live delivery, streams account for their drops, subscriptions survive lost sessions, nobody is stuck |

Why the bounds are enough:

- Inbox: three topics are the least with a ring position before, at and after
  the cursor.  A budget of 4 with 2 per topic makes evictions take from the
  longer FIFO; below that an eviction can take the pushed topic's own message,
  after which the count is wrong (see `InboxStranded`).  What an eviction that
  empties a FIFO does to ring and cursor is covered by the proof.
- Disk queue: four pushes of up to three cells roll segments over and exceed
  the budget of four by one record and by several; a record of three is larger
  than a segment.  No record of these runs is larger than the budget: of those,
  `DiskStaysBounded` is proved, and what `ImplementsQueue` shows with one is
  told below.  Two failures allow one call to fail, and another while the first
  is being recovered from.
- Bridge: topics meet only in the inbox, which has its own run, so one topic
  shows the order.  A restart gets the last sample again as the retained one, so
  two samples, one of them twice, fill the queue of two behind one in hand and
  evict; an inbox of one coalesces.  A batch of 1 makes a replay of two messages
  take several batches.  One failing call is enough for each way in which
  `queue` and `stored` come apart: a head file left behind, messages a torn
  file puts out of reach, samples revived after newer ones were sent.  The
  theorems have no such bounds.
- Edge node: a second source would only add an independent poller, since
  sources share nothing but the mutex and the checker; two ticks allow a tag to
  turn stale, be read, and turn stale again.
- Sources: the layouts meet each limit of the plan (a request that would be too
  long, a gap bridged and one too wide, two tables, one address twice, the end
  of the address space and the register behind it); the snapshots hold values
  at and beyond the limits of their types, negative ones and one that is not a
  number; three transaction ids let an old answer carry the id before the one
  awaited and wrap around.
- Brokers: two publishers and two subscriptions are the least in which one
  publisher waits at a full channel while the other's message has overtaken it;
  with two reconnects one resubscribe can work from a list another has outrun.

Deadlock is checked everywhere but in `Brokers`, where everything may have been
closed, left or published.

Fairness.  `InboxFairSpec`: the forwarder's goroutine and the rest of a push
that has begun are scheduled (weak fairness); nobody is obliged to push.
`BridgeFairSpec`: weak fairness of the forwarder, of the pusher's signal and
of the timer, and strong fairness of the two select cases, because Go's select
chooses among ready cases at random.  The sink is not assumed to recover:
`EventuallyForwarded` speaks of runs in which it does and in which, from some
moment on, the bridge is not stopped.  `SourcesSpec`: the poller's ticker and
the deadline of a read (a cycle's steps), a server's answer while the device is
up, and the CSV cycle; the device is not assumed to come back.  `BrokersSpec`:
a publisher that has begun, a subscription's goroutine, and a Close that has
begun; the client of a stream need not read, a context need not end, and the
MQTT server need not answer.

### What the violated properties say

- `InboxStranded`: `push` stores the FIFO it read before `evictLongest` ran.
  When the victim is the pushed topic the eviction is undone, the count is one
  too low, and if the eviction had emptied the FIFO the topic is off the ring
  although it has a message.  `NoStarvation` is the comment "no topic can
  starve or reorder another".
- `DiskQueueTornTail`: a failed `Write` leaves its bytes, later records follow
  them and cannot be read.  `NoSilentLoss` is ADR 0004's "Data loss is possible
  only in two explicit, counted places".  A head file that cannot be written
  after `resetOnly` truncated the segment has the same effect at the next
  start, and so has a failed roll (see below); `LossExplained` is what holds
  instead.
- `BridgeLateMessage`: `unsub` is deferred and runs after `drain`.  `Kept`, in
  the run `Bridge`, is what holds instead: what was delivered before the
  context was cancelled.
- `EdgeNodeHiddenOutage`: publication is outside the mutex, and `OnError` skips
  a tag that is BAD already, so nothing repairs the cache.

### Seen on the way, without a run of their own

- `NoStarvation` fails without evictions as well, from three topics on: a
  topic that is popped empty and pushed again rejoins at the end of the ring,
  and two topics doing so in turn keep the cursor ahead of a third.
  `RoundRobin`, which holds, asks that the topics stay backlogged.
- A roll that fails loses unread records.  `roll` appends the new segment before
  `openWriter` creates its file (`diskqueue.go:242-245`).  Once the segments
  before it are consumed, it is the head, and `Ack` writes its id to the head
  file.  The next process finds no file at all and begins again with segment 1,
  which is older than the head file says; when that process dies too before the
  head file is written, recovery removes segment 1 with its unread records,
  as "Fully consumed segment left behind by a crash" (`diskqueue.go:127-132`),
  uncounted.  TLC finds it as a violation of `NoSilentLoss` in
  `DiskQueueTornTail` with `Faults = {"roll"}`.  `StaleExplained` is
  `NoLiveStale` up to this case.
- The order in which STALE is decided is not the documented one.  ADR 0003:28
  has "Severity order (worst wins): BAD > OUT_OF_RANGE > FLATLINE > STALE >
  GOOD", and the comment on `Check` (`quality.go:126-127`) says that a BAD tag
  is left as it is because BAD is more severe.  `Check` spares only the BAD of a
  failed poll: an OUT_OF_RANGE, a FLATLINE, and the BAD of a reading that is not
  a number, become STALE when no further sample comes (`quality.go:128-144`).
  `QualityDeserved` states the order of the code.
- A record larger than `MaxBytes` is spared while it is in the tail.  The next
  `Push` creates a new tail before it writes; if the process dies there, the
  next `Open` is over budget with an empty tail and drops the segment in front
  of it, against the comment "The tail is never dropped so the most recent data
  always survives" (`diskqueue.go:278-279`).  TLC finds it as a violation of
  `ImplementsQueue` in `DiskQueueCrash` with `Sizes = {1, 5}` and
  `MaxRecord = 5`.  Records that fit the budget cannot get there:
  `DiskQueueIsQueue` proves it under `RecordsFitBudget`.
- `scanSegment` and `peekLocked` refuse a record longer than `maxRecordBody`
  (`diskqueue.go:180`), `Push` stores it; a restart cuts the segment off in
  front of it, uncounted.  TLC finds it as a violation of `NoSilentLoss` in
  `DiskQueueTornTail` with `Faults = {}` and `MaxRecord = 1`.  The theorems
  about the queue's contents therefore assume `RecordsFit`.
- The node routes readings by tag name (`node.go:90`).  Two assets of one
  source in different cells may share a name (`Validate` compares topics), and
  the later one then gets the readings of both.  `ReadingsGenuine` excepts
  such plants through `NamesClear`.
- `src/README.md:217-219` lists "overlapping addresses" among what validation
  reports; `Validate` has no such check, and overlapping tags are read
  correctly (the layout with one address twice).
- `Subscribe` of the in-memory broker calls `wg.Add` after its unlock
  (`memory/broker.go:105`): a `Close` in between returns before that goroutine
  has started, although its comment says that it waits.
- MQTT: the last subscription of a filter decides to unsubscribe, and a new
  one may ask for the filter before the request is made (`mqtt/broker.go:224`);
  a resubscribe that fails is logged and not repeated.  `StaysSubscribed`
  excepts exactly these two (`excused`).
- plc-sim writes its state register without regard to `-byte-order`, and the
  16-bit input registers with it; `WrittenIn` says which is which.

## Proofs

TLAPS checks the theorems below for every value of the constants: any number
of topics, samples, sources, tags, publishers and subscribers, any bounds, and
behaviours of any length.  A run shows the same property on a small instance,
and the inductive invariants were checked with TLC on those instances before
they were proved.  The hypotheses are the `ASSUME`s of the modules (positive
capacities, types of the constants) and, where they are named, `Roomy`,
`RecordsFit` and `RecordsFitBudget`.  "Clean" means: as long as no system call
has failed (`faults = << >> => ...`), crashes at any moment included.

| Theorem | Proves | Inductive invariant |
|---|---|---|
| `InboxSafety` | `[](InboxTypeOK /\ PerTopicBound /\ RingSound)` | `BufferInv` |
| `InboxAccounting` (Roomy) | `[](Accounting /\ NoLostWakeup)` | `WokenInv` |
| `DropsAreCounted` (Roomy) | `DropsCounted`, of every step | `WokenInv` |
| `RetryAlwaysPending` | `[](BridgeTypeOK /\ ... /\ RetryPending)` | `ControlInv` |
| `SinkOrder` | `OrderKept`, of every step | `ControlInv /\ OrderInv /\ CleanInv` |
| `NothingLostSilently` (Roomy) | `[](Kept /\ WakeupPending)` | `ControlInv /\ StageInv /\ LossInv` |
| `RecoveryRemovesNothingUnread` | `[]StaleExplained` | `RollInv`: `DiskInv` until a roll fails |
| `DeliveryOrdered` | `[](Failed({"roll"}) \/ DeliveredInOrder)` | `OrderInv`: `DiskInv /\ CellsInv` until a roll fails, `FreshInv` until a failure it excepts |
| `DiskQueueTyped` (RecordsFit, clean) | `[]DiskQueueTypeOK` | `QueueInv` |
| `RestartIsInvisible` (RecordsFit, clean) | `[](CountersExact /\ RestartInvisible)` | `QueueInv` |
| `DiskStaysBounded` (RecordsFit, clean) | `[]DiskBound` | `QueueInv` |
| `AckRemovesPeeked` (RecordsFit, clean) | `[]PeekedIsHead` | `QueueInv` |
| `DiskQueueIsQueue` (RecordsFit, RecordsFitBudget, no faults) | `ImplementsQueue`: the refinement of `StoreQueue` | `QueueInv /\ FitsInv /\ TailInv` |
| `LossIsExplained` (RecordsFit) | `[]LossExplained` | `LossInv`: `DiskInv /\ CellsInv /\ KeepInv` until a failure it excepts |
| `QualityAsDeserved` | `[](QualityDeserved /\ LastIsLatest)` | `HistoryInv` |
| `AnnouncedOnce` | `[]TransitionsOnce` | `AnnouncedInv` |
| `EdgeNodeTyped` | `[]EdgeNodeTypeOK` | `LifeInv /\ TypeInv` |
| `LifecycleInOrder` | `LifecycleOrder`, of every step | `LifeInv` |
| `ShowsCurrent` | `[]ShownIsCurrent` | `LifeInv /\ TypeInv /\ PendingInv /\ ShownInv` |
| `MatchesWhatItMeans` | `MatchFilter(f, t) <=> Means(f, t)` for valid `f` | none |
| `RemainsSubscribed` | `[]StaysSubscribed` | `MqttInv` |
| `StreamsAreHonest` | `[]StreamHonest` | `MqttInv /\ BrokerTyped /\ StreamInv` |
| `DeliversSeamlessly` | `[]Seamless` | `BaseInv /\ DeliveryInv` |
| `ReplayComplete` | `[]PassComplete` | `CsvInv` |

**`Roomy`** says that the topics are finitely many and that
`MaxTotal > Cardinality(Topics) * (PerTopic - 1)`: the inbox's budget is more
than the topics can buffer with every FIFO one short of full.  It is a
hypothesis and not an assumption of the model, because the code does not
enforce it: with the defaults (64 per topic, 4096 in all, `config.go:76-77`)
it holds up to 65 topics, and without it the claims are false
(`InboxStranded`).  Where it holds, a push that finds the budget used up and
its own FIFO not full also finds, by counting, a full FIFO of another topic,
so `evictLongest` does not change the FIFO push has in hand.  `InboxSafety`,
`RetryAlwaysPending` and `SinkOrder` need no such hypothesis: they are about
the ring and the order of samples, not about the count.

**Inbox.**  `BufferInv` is the conjunction `InboxSafety` states without `pc`:
`RingSound` needs the types of ring and FIFOs, and that an evicted FIFO leaves
the ring needs the ring's positions to be distinct.  The lemmas are layered:
`RemoveAt`, the existence of the eviction's victim (a least index, by
well-foundedness of the naturals), the cursor under removal, then one lemma per
branch of push and one for pop.  `WokenInv` adds `Accounting`; what is buffered
is counted as a set of positions, since cardinalities have theorems and sums
would need induction.

**Bridge.**  `ControlInv` adds to the types what the program counter implies:
what is in hand (`HandInv`), that an acknowledgement in a replay has something
to acknowledge (`AckInv`), and where the timer may be off (`TimerInv`).
`OrderInv` is the reason for the order at the sink: a topic's samples are
increasing along queue, hand and inbox, and along what a restart would find,
nothing that waits is older than the last one sent unless a restart has revived
it, and a new process is given the retained sample, which is the newest.
`CleanInv` says that nothing is revived before a call of the queue has failed.
`LossInv` adds to `Kept` what each stage of a shutdown has achieved, and
`ViewInv`: until the files are torn, `queue` is `stored` without some of its
oldest messages (`IsRest`), which makes `InQueue \subseteq InStored` inductive.

**Disk queue.**  `NoLiveStale` is not inductive: it says nothing of memory.
`DiskInv` says that outside recovery the list of segments is the set of files
in increasing order, that during recovery the files are the segments found and
those still to scan, all newer, that no file is older than the one the head
file names, and that the head file names none while there is no file.  It needs
nothing about what files contain, so it holds with every fault but one: a
failed roll puts a segment without a file into the list.  A consequence: the
branch of `recover` that removes a "Fully consumed segment left behind by a
crash" (`diskqueue.go:127-132`) is taken only after a failed roll, since dropHead
removes before it writes the head file; and then the segment it removes need not
have been consumed.

The other theorems are about what the files hold, that is, about the recursive
scan of a file and the joining of the records of all files.  Their lemmas come
first (`DiskQueueProofs`): the scan is unfolded by one record, which is an
equation once the recursion is shown to be well founded; facts about a whole
scan are proved by taking a least counterexample, an offset nearest to the end
of the file, so that no induction rule with a predicate parameter is needed;
and `FlattenSeq` is reduced to its last, or its first, element.  `CellsInv`
says that files hold cells of records that were pushed, and that the first cell
of a record is newer than every cell before it.  That orders what one scan finds;
it says nothing of what was delivered before.  `FreshInv` does: no cell from the
head on, the process's own or the one in the head file, begins a record as old
as one already acknowledged or dropped, and the cached record is at the head.  A
failed write of the head file, removal or truncation breaks it, because then
something that is done with can be read again; a failed append or open and a bad
cell do not.  The run `DiskQueueFaults` shows the order with failed rolls too;
the proof excepts them, since it rests on `DiskInv`.

`StateInv` is what the process's memory says about the disk: each segment in
the list has its file's size and number of unread records, its file ends with a
whole record, the counters are the sums, the head file is where the process
reads (or the process is about to write it after emptying the only segment,
`Emptied`), and the cached record is the one at the head; in the middle of a
recovery the same for the files scanned so far.  A torn record at the end of
the newest file, after a crash, is what `Kept` leaves out.  A failed call breaks
`StateInv` (memory is changed before the disk), which is why these theorems say
"as long as no call has failed".

For the refinement each step must be a push at the end, an ack at the front, an
eviction that leaves a record, or no change of the unread records.  The last
point is the hard one: an eviction by recovery counts the bytes of what it
keeps.  `TailInv` says that this fits into the budget or the newest file has an
unread record; `FitsInv` that each file alone fits, which needs records that do
(`RecordsFitBudget`).

`KeepInv` is weaker than `StateInv` and survives failed removals, truncations
and opens in recovery.  Each stored record is released or in a file, and of each file,
what is stored and not released is found by a scan from where the head file
says.  A segment in memory is either live (the same from where the process
reads, and the file ends with a whole record) or dead (all its records are
released: it is the head segment, and its removal has failed).

**`RecordsFit`** says that no record is longer than `MaxRecord`, 16 MiB in the
code, **`RecordsFitBudget`** that none is larger than `MaxBytes`, 64 MiB by
default.  Both are hypotheses and not assumptions of the model, because the
code enforces neither.

**CSV source.**  `PassComplete` is about the pass that was over last (`ended`),
whether the source called itself exhausted or opened the file for another.
`CsvInv` adds the pass under way: what was delivered of it are the well-formed
rows among those read, in order, and only the end of the file, or Close, makes
the source give its reader up.

**Quality rules.**  The verdict depends on counters, its specification on the
whole history.  `SummaryInv` says what the counters are: the first sample and
the length, up to `FlatlineMinSamples`, of the run of equal values that ends
with the last finite sample.  `VerdictInv` is `QualityDeserved` with the last
sample named instead of chosen, and what `commDown` means.

**Edge node.**  `TransitionsOnce` speaks of the history of announcements and
not of the evaluators that decide them; `AnnouncedInv` adds what each evaluator
remembers of it.  `LifeInv` relates the phase of Run to the goroutines and to
what is on the wire: data only between all BIRTHs and the first DEATH.
`PendingInv` is about the messages on their way: a poller's concern its own
tags, one each, and are current; the checker's are STALE.  `ShownInv` adds the
moment between cache and broker.

**Brokers.**  `MqttInv` says of every active subscription that the server has
its filter, or it is excused, or the connection is down, or a resubscribe that
has yet to ask for it is under way.  `StreamInv` follows a stream's drops along
its buffer.  `DeliveryInv` is about the whole of what a subscription was and
will be given (`got`, then `backlog`, then `ch`), which a turn of its goroutine
does not change, together with the messages publishers have still to send it:
both are what it is owed.  It also relates the retained messages to the history
of all published ones.

### Only model-checked

- Liveness (`EventuallyForwarded`, `SourceRecovers`, `NobodyStuck`,
  `RoundRobin`): the prover has no rules for fairness.
- `PlanSound` and `ReadingsGenuine`: that a plan has the least number of
  requests, and that decoding inverts encoding in every byte order, are about
  folds over sorted tags and about arithmetic with powers of `Base`.

## Not modelled, and the plan

Not modelled: durations (a timer is armed or has fired; backoff is not
tracked), metrics and logging, power loss that undoes writes the kernel had
accepted, the insides of the MQTT and Kafka libraries and the adapters' calls
that only pass on their result (MQTT Publish, Kafka Send), the simulation of a
production line (numeric, and no other part depends on its state), payload
encoding and sequence numbers, configuration parsing, the HTTP views other
than the event stream.

What would come next:

1. The in-memory queue as a second refinement of `StoreQueue`.
2. The composition of `EdgeNode`, `MemoryBroker` and `Bridge` for the shutdown
   order of `cmd/plantstream` (DEATH, then the bridge flushes) and the messages
   left in a channel.
3. The parts of `PlanSound` that need no optimum: every tag inside exactly one
   legal request.
