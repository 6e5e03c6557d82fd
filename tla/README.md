# wmq in TLA+

wmq is an HTTP front end to RabbitMQ. Producers publish over HTTP; for every
configured consumer a worker goroutine takes messages from a queue and posts
them to the consumer's URL; a management API adds, changes, deletes, stops and
restarts messages (exchanges) and consumers (queues). This directory holds TLA+
models of the parts of it that are hard to test, the TLC runs that check them
on small instances and TLAPS proofs about them for every instance. Line numbers
below are of `src/message.go` unless another file is named.

## 1. Inventory

| part | state | operations | talks to |
|---|---|---|---|
| consumer manager (437-633, one goroutine) | `wrapedConsumers`: key -> item (configuration, `lasttime`, two control channels) | update, delete, status | callers over two channels; workers over control channels and the map |
| worker (475-609, one per consumer) | its copy of the item, AMQP connection and channel, delivery channel | set up, consume, obey a stop, retry, leave | the map, the connection pool, the broker, the consumer's URL |
| message store (165-298) | `messages`, guarded by `msgLock`; read without it by `getMessage` | add, update, delete message and consumer, restart, reload, status | the manager, the broker, the data file |
| data file (634-659) | the JSON of `messages` | write after each change, load at boot | file system |
| management API (api.go) | none of its own | one handler per operation, 30 s timeout | message store |
| publish API (api.go:322, message.go:300) | none | publish | message store (unlocked), channel pool |
| topology helpers (mq.go) | none | declare, bind, delete, each with one retry | channel pool, broker |
| pools (pool.go, mq.go:199-293) | buffered channel of idle connections / AMQP channels, a mutex each | Get, Put, ReleaseAll | broker |
| concurrent map (map.go) | 32 locked shards | Get, Set, Remove (the rest is unused) | manager, workers |
| configuration, logs, utilities | - | - | - |

What makes each part correct, and what makes it hard:

- *Manager and workers.* At most one worker per consumer; a stop ends the
  worker it was meant for and no other; every request is answered, to the one
  who asked. Hard because the map is read and rewritten by two sides in
  separate Get and Set calls, and because an update silently replaces the
  channels a worker is listening on.
- *Message store.* Names are unique; an operation touches the message it names
  only; what was acknowledged is in the file and survives a restart. Hard
  because the handlers check before they lock, slices are changed in place under
  readers, and the file is written in a second critical section.
- *Topology.* Each configured consumer has its exchange, queue and binding, and a
  deleted one none. Hard because workers re-declare what an operation deletes, and
  because operations stop half way.
- *Pools.* No connection is handed out twice, none is lost, the pool keeps its
  bound. Hard at the limits and with inactive connections.
- *Delivery.* At least once, one in flight per worker. Hard under ack failures, workers that overlap,
  closed channels and transactions.

`PROJECT.json` lists the hazards line by line. In sections 5 to 7 line numbers below 100
without a file are those of `src/pool.go`, the others still of `src/message.go`.

## 2. Plan

| step | modules | state |
|---|---|---|
| 1 | `ConsumerControl` (abstract), `ConsumerManager`, `ConsumerManagerProofs` | modelled, checked, proved (section 3) |
| 2 | `MessageList` (abstract), `MessageStore`, `MessageStoreProofs`, `MessageLookupProofs`, `MessageChangeProofs` | modelled, checked, proved (section 4) |
| 3 | `NetPool`, `NetPoolProofs` | modelled, checked through step 4, proved (section 5) |
| 4 | `Publishing` (composes 3), `PublishingProofs` | modelled, checked, proved (section 5) |
| 5 | `ConsumerQueue` (abstract), `Delivery`, `DeliveryProofs` | modelled, checked, proved (section 6) |
| 6 | `WmqService` (composes `ConsumerControl` with the broker), `WmqServiceProofs` | modelled, checked, proved (section 7) |
| open | non-durable objects, a broker restart | section 8 |

A message's way through the models: `Publishing` ends where the exchange has it,
`Delivery` begins where the queue has it, and `WmqService` says when the exchange,
the queue and the binding between them are there. `ConsumerManager` says how the
worker of `Delivery` comes to consume and to stop, `MessageStore` what the
configuration is that both work from.

## 3. ConsumerManager

| model | code |
|---|---|
| `registry` | the map `wrapedConsumers`; each `Get` and each `Set` is a step, but that a worker's two Gets in a row (489 and 494, 564 and 569) are one: nobody else removes its key (`LiveWorkerRegistered`) |
| item `cfg`, `ch`, `active` | consumer and message; the pair of control channels; `lasttime` is not zero |
| `exit`, `exitOk` | which pairs hold "exit" (616) and "exit_ok" (577) |
| `mpc`, `mreq`, `mitem` | the manager's position, request and copy of an item |
| `reqChan`, `ansChan` | `consumerManageReadChan`, `consumerManageWriteChan` |
| `holder`, `await` | `msgLock`; what each caller of `notifyConsumerManager` waits for |
| `pc`, `gkey`, `local`, `conn` | the worker goroutines |

`Lookup`, `Touch` and `Store` are the update request (457-611), `Stop` and `Send`
the delete request (612-619), `Report` the status request (620-627). `Start` to
`Consume` are the worker's numbered steps 1 to 8, `LoopGet` to `SelectClosed` its
loop, `Remove` and `Close` its deferred function. A channel nobody refers to is
made anew by the next `Store`. The callers may send any request in any order
under `msgLock`; the broker may fail every call. The operators called a *fault*
are variants of the code with a plausible bug: no specification uses them, they
are what the properties have been tried against.

Runs (module `MCConsumerManager`):

- `manager_races`: two consumers, two callers, two worker slots and five channels:
  all safety properties and the refinement to `ConsumerControl`. Both slots may be
  workers of one consumer, so that one that is closing overlaps its successor, or of
  two, which shows whether a stop can reach another consumer's worker
  (`NoCrossTalk`). `OneKeyMoves` bounds the second case: of two consumers' workers one
  is at rest, in its select or ended, while the other moves. A violation needs a
  stale channel, which the manager and one moving worker produce. Five channels are
  enough: a key's item and its worker's copy refer to two at most, and a `Store` needs
  one more.
- `manager_live`: liveness, one of each, three channels. The three are enough: at
  a `Store` the map, the worker and the manager refer to at most two different
  ones.
- `worker_undoes_update` and `orphan_consumer` are expected to be violated; they
  are the findings of the same name below.

Deadlock is not checked because the system can stop: a second delete for a
consumer whose worker listens on an older channel blocks the manager (616), its
caller, and everybody who wants `msgLock`.

*Fairness.* The Go scheduler runs every goroutine that can run (weak fairness of
the manager, of the callers' receives and of every worker step outside the
select). A select with several ready cases chooses at random, so a stop that
stays ready is eventually taken: strong fairness of `SelectExit`. Nothing obliges
the broker to deliver or to close. `WorkerConsumes` also assumes that each
repeated broker call succeeds some time (`BrokerRecovers`).

*Findings.* A worker's `Get`/`Set` pair undoes an update stored in between
(`WorkerWritesActiveTimeOnly`). An update that overlaps a worker's end leaves a
consumer in the map with no worker, and no later update starts one
(`RegisteredConsumerHasWorker`).

### Proofs (`ConsumerManagerProofs`)

Proved for every set of keys, configurations, channels, worker slots and callers,
from the sole assumption that `None` is none of the values it stands beside:
`TypeOK`, `OneWorkerPerKey`, `LiveWorkerRegistered`, `ExitOkNeverBlocks`,
`AnswerMatchesRequest`, `ConnReturned`, `NoCrossTalk`, and that `ConsumerManager`
implements `ConsumerControl`. The invariants are not inductive alone. `IInv` adds:

- the manager that found a key absent still finds it so when it stores
  (`ManagerInv`), since workers write only keys of their own, which are present
  (`WorkerInv`); this is what makes a second worker impossible;
- the channels a key refers to, through the map, a worker's copy or the manager's
  copy, are disjoint from another key's (`ChannelInv`), and those of a live worker
  hold no "exit_ok" (`ExitOkInv`). Both follow from `RefersStep`: only `Store` makes
  a key refer to a new channel;
- exactly one exchange is under way while a caller waits (`ExchangeInv`).

The refinement is proved key by key: `OneKeyStep` shows that a step moves at most
one key, in a way `ConsumerControl` allows. Liveness is only model-checked.

## 4. MessageStore

| model | code |
|---|---|
| `array`, `len` | the slice `messages`: backing array and length; slots that append allocated and nobody wrote are `None` |
| `lock`, `file` | `msgLock`; the data file, `Torn` between truncation and write (640) |
| `op`, `pc` | the handler goroutines of both HTTP servers, from lookup to answer |
| `arr`, `size`, `idx` | the slice a handler ranges over (or passes to `writeMessagesToFile`) and its position; `Shared` while append has not moved the array |
| `alone`, `seen`, `kept`, `shifted` | history, for the properties only |

A request is `Begin`; the unlocked `getMessage` (`StartLookup`, `ReadLen`, `ScanOn`,
`ScanHit`, `ScanMiss`; publish and the consumer operations do it twice, then
`Index` is the rest of the unlocked `getConsumer`); `Acquire`; the change (`Grow`,
`SetElement`, `SetLength` are append at 169, `Update` 174-298, `Delete` and `Shift`
197-229); `Unlock`, which answers a failure at once; the read of `messages` for the
file; and `Marshal` and `Write` under the lock again. `Restart` is a crash at any
step followed by the start of the program. A request that timed out after 30 s
(api.go:474) keeps running, so a client's retry is just another handler.

Abstractions: a message's attributes and consumers are one value; what the broker
calls under the lock do to workers and queues is left to section 3 and the plan.
The unlocked reads are data races. Modelled are those of pointer and length (in
this order; the other order only makes a slice shorter), of elements a delete is
shifting, and of append's last two stores in either order. Words of one element
read half-written are not modelled: they do not move names between positions other
than a shift does. Memory beyond an array is no message to a lookup and kills a
handler that marshals it.

`MessageList` is what the lock holder may rely on: a list that adds, updates or
deletes one message per step. `Committed` maps to it.

Runs (module `MCMessageStore`; two handlers are the smallest race):

- `store_lists`: names a and b, up to three messages (so arrays of 1, 2 and 4 slots,
  one of them never written, shifts of two, and duplicates), adds and deletes. The
  lookups are those of the adds and deletes, which run the same code as a
  publisher's. It also shows what the lookups may get wrong: they can find a
  message that a delete is removing or that a slot still held when append had
  set the length only, and can miss one that is there while a delete shifts.
- `store_updates`: all five kinds of request on one name with two attributes, up to
  two messages. One name suffices because updates move nothing; two attributes
  show a file or list with the wrong version.
- `duplicate_names`, `position_out_of_range`, `bad_file_starts` are expected to be
  violated, see below.

Deadlock is checked: a handler always reaches its answer (the manager, which may
block for good, is outside this model).

*Findings.* Two adds of a name duplicate it (`NamesUnique`); an unlocked
`getConsumer` panics when a delete shortens the list under it (`PositionInRange`); a
data file that was truncated by a crash starts an empty server instead of stopping
it (`BadFileStopsStart`).

### Proofs (`MessageStoreProofs`, `MessageLookupProofs`, `MessageChangeProofs`)

Proved for every set of handlers, names, attributes and requests: `TypeOK`,
`ImplementsList`, `FoundWasThere`, `MissedOnlyIfShifted`, `AcknowledgedIsStored` and
`TouchesNamedOnly`. The assumptions are those of the module, which the runs evaluate: `None` is no
handler and no message (`NoneAssumption`), and `Shared`, the mark for the array of
the list, is no array (`SharedAssumption`).

- `StoreInv` is the inductive invariant of the arrays. Only the holder of `msgLock`
  is between taking and giving it back (`LockInv`). Each slot up to the length holds
  a message, but for the one that append has counted and not written (`SliceInv`).
  The same goes for every slice that a handler has read, though the list may be
  shorter by now, and all of an array that append has left behind is written
  (`ReaderInv`); without it nothing is known of what a lookup reads or a handler
  marshals.
- The refinement separates the steps that leave the arrays alone (`LocalQuiet`) from
  those that write them. `CommittedSlots` says where in the array the list is: without
  the slot that is being appended, and one further on behind a delete's gap.
- For the lookups, `FoundInv` says that a handler has noted its name if the name is in
  any slot it may still read. `KeptInv` says of a handler that no delete has
  disturbed and whose message was there all the time that the message is still
  ahead of it, in the list or in the array left behind.
- For the file, `AloneInv` says that the slice which a change without competitors
  passes to `writeMessagesToFile` is the list, from the unlock to the write.

- For what a change touches, the messages of one name are taken from the list by a
  recursive function (`NamedIn`). `Picks` says of a sequence, without recursion, that it
  is what that function returns; `PicksExists` shows there is one, by the least length
  at which there would be none. An append, the rewriting of an element and the removal
  of one leave the picks of every other name as they were (`AppendOther`,
  `RewriteOther`, `RemoveOther`). `SlotInv` is what a change relies on: the position
  it works at still has the name that the request gave, since the scan that found it
  runs under the same lock.

## 5. NetPool and Publishing

| model | code |
|---|---|
| `idle` | the Go channel `conns` (pool.go:42); its elements are AMQP connections or channels, or a nil `*Channel` |
| `lock` | the pool's mutex, held through Get and Put with all their calls to the broker |
| `pc`, `cur` | each goroutine's step and its local `conn` |
| `open` | what neither side has closed |
| `tx`, `sent` | the channels in transaction mode; what was published on each and is not routed |
| `msg`, `result` | an `apiPublish` handler's message; what `channel.Publish` returned |
| `routed`, `accepted`, `broken` | what the exchange has received; history: answered 204, lost with its channel |

One module stands for both pools, which run the same code. `GetLock`, `Poll`, `Check`,
`CheckFails`, `Settle`, `Make` and `MakeFails` are Get (47-66), with the two calls of
IsActive and the Factory as steps of their own; `PutLock` to `Push` are Put (68-82).
`PutNil` is the Put of a channel that could not be had (mq.go:83-88): the nil is a
`*Channel` in an interface, which `conn == nil` (pool.go:69) does not see, so it goes
into the pool. `publish` (312-327) makes no Put then: `GiveUp`. The Factory of the
channel pool takes a connection from the other pool with this pool's mutex held; the
locks nest in that order only, and no code takes them in the other.

In `Publishing` the steps of the pool get their effect on transactions: `Tx` makes a
channel transactional, `TxCommit` routes what was published on it since, and on a
new channel, not yet tested, the broker routes by itself. The other clients of the
pool are the operations of section 7, of which only their use of the pool matters.

Run `publishing`: two publishers and one broker operation, a pool of one to two, three
channels, two messages. Three clients on two places fill the pool and overflow it;
three channels are enough since each client holds one and a dead one's slot is made
anew. Every step may be followed by a break of any set of channels, by a Factory that
fails, or by a restart. `AcceptedRoutedUnlessBroken` is as much as the code gives: a
204 does not mean that the message was routed, because the result of `TxCommit` is
ignored (mq.go:286) and `channel.Publish` returns before the broker has seen the
message. README.md:58 of the repository says of the answer that 204 means success; the
model shows the one way it may not. `MutexSoonFree` counts what is left for the client
that has the mutex: three steps per idle element at most and the last, though all that it
polls may be dead and the loop of Get has no bound of its own.

*Fairness.* The scheduler runs every goroutine that can run, and Go's mutex starves
nobody (it hands over to a waiter after 1 ms): strong fairness of each client's pool
steps. Nothing is assumed of the broker: calls fail as they like. `Answered` needs no
more because the loop of Get consumes an idle element per round and none is put back
while it holds the mutex.

*Proofs* (`NetPoolProofs`, `PublishingProofs`), for every number of clients, set of
channels, capacity and set of messages. `PoolInv` adds to the checked properties that
the holder of the mutex is the one client inside Get or Put (`LockInv`) and in which
steps a client has an element (`HandInv`). From it: `NeverShared`, `NoneLeaked`,
`NilNeverHandedOut`, and, as the pool keeps its bound (`PoolKeepsBound`), `MutexSoonFree`: the
steps left (`StepsLeft`) go down at each step of the holder and at no other
(`HolderAdvances`). With the fairness above this is why Get ends. `PublishingUsesPool` shows that `Publishing` implements `NetPool`, so
the invariant carries over, and with `SentInv` (what is unrouted is on an open channel
in the hands of its publisher, in the steps between publishing and the push) and
`ResultInv` (what was published without an error is there, routed or lost with a
channel) the two properties about messages follow. The assumptions are those of the
modules: the initial capacity does not exceed the maximum (5 and 300, 10 and 1000,
wmq.go:13-16), nil is no channel, and publishers put nothing after a failed Get.

## 6. Delivery

| model | code |
|---|---|
| `log`, `gone` | the queue at the broker: all messages ever routed to it, those removed |
| `open`, `unacked` | the channels that consume it; on each, what was delivered and not acknowledged |
| `chan`, `inbox` | the worker's `channel` (476) and `deliveryChn` (554) |
| `wpc`, `job`, `local` | the worker's position, the delivery in hand, its `_item` |
| `config` | the registry's item |
| `kind` | what `process` makes of a message that another program published |
| `handled`, `overtaken`, `wanted`, `stale` | history |

`TouchGet` and `TouchSet` are the Get and the Set of the item at the head of the set-up and
of each round of the loop (494-497, 569-572), `Subscribe` the rest of the set-up (section 3
has its steps), the three `Select` actions the select, `ProcessSucceeds`, `ProcessFails`,
`ProcessDrops` and `Panic` the ends of `process`: the URL handled the message and the
answer was right; it did not, or did and was late or answered with another code; the
delivery lacks a field and is dropped; or it makes `process` panic (`content[:20]` of a
shorter text, or a field that is no string), which ends the process since no
goroutine recovers. `Ack` and `Nack` do nothing at the broker when the channel is gone.
A channel that breaks leaves in `deliveryChn` what was already there. A crash may
happen at any step, and the broker outlives it.

A worker ends in three steps: `SelectExit` leaves the loop, `Remove` takes the key from the
registry (478), `Close` closes the channel (480). Between the last two a successor may be
started and consume, while the broker still counts on the old channel, and may even
deliver to it. What such channels have unacknowledged is `Held`.

Run `delivery`: one message of wmq's own and a foreign one of every kind, two
configurations, two channels: one message waits or is held while the other is in hand, and
a worker that has left overlaps its successor. A violation of the order needs two messages
and two channels; the proofs are for any number of either.
`StaleCap` bounds the count of stale deliveries by two, one more than is allowed.

- `HandledInOrder`: a message is handled before an earlier one only if, when it was
  delivered, the channel of a worker that has left held the earlier one (`overtaken`). So
  the order of a consumer's messages is not what one delivery at a time (546) suggests:
  stop and start of a consumer may reverse two. Requeues, broken channels and crashes
  cannot.
- `StaleOnce`: at most one delivery is begun with the old configuration after an
  update, while the registry still has what the update stored. When the worker's
  write-back (572) has undone the update, any number of them is; that is the finding
  `worker_undoes_update` of section 3.
- `InHandStillQueued`: what the worker has in hand is at the broker too, so that a panic,
  a crash or a broken channel loses nothing, and nothing acknowledged is handled again.

`ConsumerQueue` is what a consumer may rely on, without worker, channel or
acknowledgement: only the message at the front is handled, perhaps several times,
and it leaves the queue after it was handled or because it cannot be read; the front
passes over what workers that have left hold back. `Delivery` maps to it with its own
variables (`ImplementsQueue`); a handler that ran twice, a requeue and a redelivery
after a crash are all the same step of it.

*Fairness.* The broker delivers, the worker runs, one that has left gets to its close, and
the URL succeeds sometimes if it is asked again and again (strong fairness of
`ProcessSucceeds`). `Drains` holds where the worker is in the end left in peace and there is
one, and even then only for messages with no bad one at or before them in the queue: a
message whose method is neither get nor post is requeued at its place for ever, one that
panics kills every wmq that reads it, and with a prefetch of one nothing passes either. A
consumer that fails some message for ever blocks its queue in the same way; the strong
fairness assumes there is none.

*Proofs* (`DeliveryProofs`), for all messages, configurations and channels: type
correctness, `AtLeastOnce`, `HandledInOrder`, `StaleOnce`, `InHandStillQueued` and
`ImplementsQueue`. The key is `OrderInv`: whatever is in `deliveryChn`, in hand or handled,
all that was queued before it has left the queue or was overtaken. It is inductive
because a channel is delivered a message only when it has none unacknowledged
(`NoneUnacked`), and the oldest one that is ready (`OldestReady`), so that what precedes it is
removed or on another channel. `HandInv` ties the step `ack` to a message that was handled
or dropped; `StaleInv` says that a worker about to select either has the last update's
configuration or has not been counted since, and that one between its Get and its Set
can undo an update but not redo it. `WayInv` says where the one unacknowledged delivery of
the worker's channel is, on its way or in its hand, and that a message has not left the
queue while it is; with `OrderInv` the message in hand is the front of the queue but for
what is held, which is what `QueueStep` needs for the steps of `ConsumerQueue` that a
worker takes. `Drains` is model-checked only.

## 7. WmqService

| model | code |
|---|---|
| `conf` | `messages`: a list, in which a name may occur twice; of each message the mode and its consumers' routing keys |
| `used` | the IDs that consumers were ever given (UUIDs, api.go:171) |
| `vacant` | the names that an add which waits for `msgLock` may have found free (api.go:45) |
| `look` | the message an update handler looked up before it had `msgLock` (api.go:237) |
| `prog`, `try` | the calls that the holder of `msgLock`, and each worker, has still to make, and how far the first one is |
| `wpc`, `item`, `asked` | a consumer's worker, the mode and routing key in the manager's registry, an "exit" in its control channel |
| `phase` | main: initMessages at boot, serving, dead after a failed boot |
| `exchange`, `queues`, `bound`, `subscribed` | the broker; a binding is a queue with a routing key (mq.go:149) |
| `doubt`, `spoiled`, `left` | history, see below |
| `requests`, `faults` | bounds |

Every operation is what it does under `msgLock` up to its broker calls (`AddMessage` to
`Reload`), followed by its program: `InitMessages` (378-410), `Stops` (426-436), `Deletion`
(207-231), one queue declaration for a status request. Workers run `Setup` (514-561). A
declaration has the two attempts of mq.go:48-139 with the delete after each
(`DeclareRefused`, `DeclareFault`, `Clear`, `ClearFault`); what the broker refuses by itself is
an exchange of another mode, a binding without its ends and a consumer without its
queue. A failure of initMessages that an operation ignores (171, 194, 231, 247, 418, 424)
ends its program like any other. An add appends what it is given, duplicate or not (169);
an operation works on the first message of its name; `UpdateConsumer` changes the routing
key in `conf` and in the registry and binds nothing (260-263).

The manager is here with `ConsumerControl`'s grain: `Lookup` and `Store` are its update
(with the worker that writes its old item back, section 3), `Stop` its delete.
`Controlled` checks that this is what `ConsumerControl`, which `ConsumerManager` is proved
to implement, allows. A worker's end is one step after its stop (`Ends`); that it has two
parts matters to deliveries only and is in section 6.

Run `service` (module `MCWmqService`; two names, two IDs, two modes, two routing keys, two
requests). `Starts` chooses the initial states: an empty file and broker; two messages,
one with a consumer, at a broker with exchanges of another mode and a queue bound to one;
at such a broker also a name that is listed twice, and one message to which a consumer can
be added. The first two allow one failure of a call that the broker could serve
(`MaxFaults`). Two requests are what a race needs, one whose stop or update is still
pending and the next; two names show that an operation leaves the other message alone, two
routing keys that a consumer is bound by its own. Larger instances do not end in minutes;
the safety properties are proved without these bounds. Deadlock is not checked: with its
requests used up the system stops.

What the properties exclude is what the code does not give:

- `InForce` says that between two operations the broker has the exchange of a message, with
  its mode, and its consumers' queues bound by their routing keys. It speaks of names that
  occur once, because the messages of a duplicate declare each other's exchange, and not
  of those in `spoiled`: those an object of which a retry has deleted since, those whose
  routing key `updateConsumer` has changed, and those that an operation which failed was
  about, or at. What is left is that all other messages keep what they need whatever fails
  and whatever their own workers do with older settings, and that an operation which runs
  all of initMessages puts right what was spoiled before, unless it fails: it begins with
  all of these in `doubt` and takes each out with the declaration of its exchange.
- A transient failure of a declaration makes mq.go:73 and 120 delete a live queue with its
  messages or an exchange with its bindings; after two failures the result is that of the
  delete, success, with nothing declared. This spoils the message, but for the first
  retry of an operation's queue, which is declared again and bound.
- `QueueWanted` says that between two operations a queue is that of a listed consumer or in
  `left`: an earlier run has left it; the worker of a consumer that is gone has declared it,
  as it has not seen its stop; or the operation that was to delete it has failed before
  (`deleteConsumer` at 285-288, `deleteMessage` at 207-227). Such a queue may stay bound and
  collect messages until somebody deletes it.
- `Served` exempts workers of a message that disagree on its mode (an operation that
  failed half way, or an update with an old lookup, 263, leaves them so): each deletes
  the exchange the other declared before it can bind, and this may go on for ever. It
  also says nothing of a consumer without a worker: a restart, or an update of a
  message, stops every worker and updates at once, and a worker that removes itself
  after the update has no successor (section 3, `RegisteredConsumerHasWorker`).
- `OperationsAdvance` counts four steps for each call that is left, two attempts and a
  delete after each (mq.go:48-139); an operation that repeats none has an end.
- `OperationsEnd` exempts a stop of a consumer whose last stop was not taken: manager,
  operation and `msgLock` wait (616).

*Fairness.* Weak fairness of the holder of `msgLock` and of every worker's steps but the
select's choice of a stop.

*Proofs* (`WmqServiceProofs`), for any finite sets of names and IDs, any modes and routing
keys, any list of messages at the start and any number of requests and faults: `TypeOK`,
`InForce`, `QueueWanted`, `Controlled` and `OperationsAdvance`. Assumed, and evaluated by the
run: names, keys and `Api` are distinct, `None` is no mode, no routing key, no setting and no
look-up.

- `ServiceInv` is the inductive invariant. It speaks of the messages that there will be when
  the operation is over (`Remaining`: without the one that a deletion has still to take out).
  `FitInv` says that what the holder of `msgLock` has still to call fits them: it declares
  only what they list, an exchange with its mode, after each exchange or queue it makes all
  the bindings that are needed of it, and it deletes only what they do not need or what it
  is to put right later. `ForceInv` says that what a message not spoiled is to have is there
  or made at once, and if it is in doubt, that its exchange is still to be declared; with
  nothing left to call this is `InForce`. `QueueInv` says that a queue is listed, left, or
  still to be deleted; with nothing left to call this is `QueueWanted`.
- A call of the operation keeps these by doing its part (`ForceDone`); a step of anyone else
  because it takes nothing of a message that is not spoiled (`Aside`): the delete of a retry
  spoils the message, and a worker's declaration is refused where it does not agree. What
  an append, the change of the first message of a name and the removal of one do to the
  messages that are alone with their name is in `AppendIs`, `EditIs` and `RemoveIs`.
- `ManagerInv` (a key found absent still is at the store) gives at most one worker, and
  `WorkerInv` says that a worker declares its own objects only, in its set-up.
- That every program fits (`InitFits`, `StopsFirst`, `DeleteLast`, `DeletionFits`) needs to know
  what `FlattenSeq` makes of a list of parts. Its recursive function is shown to exist, and
  each call to be in one part, by the least length at which it would fail
  (`FlattenExists`, `FlattenBlocks`).
  `MessageChangeProofs` uses the same argument; nothing else needs induction.

- `OperationsAdvance` is the part of `OperationsEnd` that needs no fairness: every step of an
  operation brings it nearer to its end (`Advance`), and no step of anyone else sets it
  back (`OperationStep`), so that it ends unless it is kept from taking steps, as a stop
  may be.

`Served` and `OperationsEnd` are model-checked only.

## 8. What is left to TLC, and what is not modelled

Liveness under fairness is model-checked only: `StopHonoured`, `AnsweredUnlessStopPending`,
`WorkerConsumes`, `Answered`, `Drains`, `Served` and `OperationsEnd`. All other properties of
the passing runs are theorems.

Not modelled:

- Configuration, log set-up, utilities (config.go, logger.go, utils.go) and the log
  endpoints (api.go:399-460): input and output without state that anything else reads.
- map.go beyond Get, Set and Remove, which are atomic steps under a shard's lock;
  wmq does not use the iterators and the codec.
- `ReleaseAll`, called only where a start fails, and `Len`, never called.
- Non-durable messages: their exchanges and queues delete themselves when the last
  consumer leaves, which adds the broker's choice of when to every state.
- A restart of the broker. Messages are published without delivery mode 2, so that a
  durable queue comes back empty.
- The channels of one connection: a worker's retry (continue at 512-559) leaves the
  channel it opened at 507 open, until the connection closes.
- Content: publishers send the headers as one JSON string, so that `process` finds no
  children in it (677) and forwards none.
- Time: the waits of a worker (503 and others) are steps that may take any time. The
  README of the repository gives consume.FailWait in milliseconds, the code multiplies
  it by a second (603).
