# mpmc-queue: specification, model checking and proofs

TLA+ modules for the queue library in `src/queue`: a multi-producer
multi-consumer queue in memory, where every consumer (or consumer group) reads
all items at its own pace and items leave by age (TTL), not by being read.

## 1. The system

### Components, their state and operations

| Component | State | Operations | Source |
|---|---|---|---|
| Items and chunks (`QueueData`, `ChunkNode`) | creation time, size; an array of 1000 items with `size`, `head`, `NextElement`, `pooled` | `Add`, `Get`, `RemoveExpired`, `GetEarliestExpiry` | data.go, pool.go |
| Chunked list | a `container/list` of chunks, `totalItems` | `Enqueue`, `EnqueueBatch`, `RemoveExpiredData`, `Clear` | chunked_list.go |
| Memory tracker | `totalMemory` | `CanAddData`, `AddData`, `RemoveData`, `AddChunk`, `RemoveChunk`, the size estimate | memory.go |
| Producers | stamped items, a place in a `select` | `TryEnqueue`, `Enqueue`, `...Batch`, `...WithContext` | queue.go |
| Settings | `ttl`, `expirationEnabled`, `maxItems` | `SetTTL`, `EnableExpiration`, `DisableExpiration` | queue.go |
| Consumer | position (`chunkElement`, `indexInChunk`), notification channel, history, `closed` | `TryRead`, `Read` and batch, predicate and context forms, `Close` | consumer.go |
| Consumer group | one position for all members | `TryRead`, `AddConsumer`, `Close` | consumer_group.go |
| Consumer manager | maps of consumers and groups, snapshot of the active ones | add, remove, evict, notify all of an expiration | consumer.go |
| Wake-ups | `enqueueNotify`, `dequeueNotify` (token channels of 100) | `notifyWaitingConsumers`, the fill loop after a sweep | notify.go, queue.go |
| Expiration worker | a ticker | the sweep, the eviction of inactive consumers | queue.go |
| Close | `closed`, `stopChan` | `Close`, `CloseWithContext` | queue.go |
| Histories, statistics, metrics | windows and counters | record, snapshot, percentile | consumer.go, metrics.go |
| qctl, examples, scripts | none of their own | use the library | cmd, examples, scripts |

### How they interact

- **Producers and sweeps** hold `q.mutex` for writing: they exclude each other.
- **Readers** hold no lock while they move. `TryRead` copies the cursor's
  position under the cursor's own mutex, looks at the chunk with atomic loads
  (`pooled`, `size`, `head`, `NextElement`) and once under `q.mutex.RLock`
  (`Get`), and commits a move if the position is still the copied one. All that
  the writer does is visible between any two of these steps.
- **A sweep** removes expired items from the front, and still under `q.mutex`
  tells every cursor how many unread items it lost and corrects its position.
  The copy of the position, the send and the correction are separate critical
  sections of the cursor's mutex: a `TryRead` may commit between them.
- **Waiting** is by tokens. All readers of a queue receive from
  `enqueueNotify`, all producers from `dequeueNotify`; a token says "look
  again" and belongs to nobody.
- **Close** raises `closed`, closes `stopChan`, waits for the worker, closes the
  consumers it finds, and clears the data, with `TryRead`s still running.
- **The manager** is changed under its own mutex and read without one: wake-ups and
  `Close` use the snapshot `activeConsumers`. Mutexes are taken in the order queue,
  manager, consumer or group.

### What is hard, and what makes each part correct

| Part | Hard behaviour | Correct when |
|---|---|---|
| Chunks | readers look without a lock | only the last chunk has room; `NextElement` leads on; a removed chunk is drained and marked; a chunk goes from the middle only over expired items |
| Counters | four places add, three subtract | they equal what is stored; the limits hold |
| Sweep | stops early; reads the clock twice | nothing expired stays for ever; one producer's expired items go at once |
| Reading | stale copies, several readers of one position, resets | in order, none twice, none skipped in a chunk, the loop ends; where that fails, in the ways named and no other |
| Notification | counts and positions in separate steps | the count is what was unread; the position moves over expired items only |
| Wake-ups | shared tokens, full channels, a chunk removed under a `TryRead` | nobody sleeps on a token, on data or on space |
| Close | against calls about to block | it returns, and so does every call |
| Manager | a snapshot beside the map, eviction on an old time, joins against removals | the snapshot is the map; nobody is removed and left open; members have a group |
| Mutexes | three levels, taken by callers, worker and `Close` | every operation gets its mutexes |
| Size estimate | cycles, cutoffs, a cache by type, saturation | the cache changes nothing; what is admitted fits |
| Windows and rings | wrap-around, reset half full | they hold the latest, and the percentile splits them |

`PROJECT.json` lists the hazards at their lines, with the properties that cover
each.

## 2. Modules

| Module | Models |
|---|---|
| `ChunkStore` | the chunk list as readers see it: sizes, heads, links, marks; the steps of enqueue, sweep and `Clear` under `q.mutex`. Which items expired is left open. |
| `ChunkedList` | extends `ChunkStore` with producers, stamps, sizes, limits, counters and a clock that decides what expires |
| `Log` | abstract: a log with a place for every reader. Entries are appended, expire from the front, are delivered in order |
| `Cursor` | extends `ChunkStore` with consumers and groups, `TryRead` step by step, the notification of a sweep, registration and `Close` |
| `Queries` | extends `Cursor` with what a consumer can be asked: `GetUnreadCount`, `HasMoreData` |
| `Blocking` | blocking enqueue and all forms of reading, `NativeChannel`, the two token channels, the fill loop, `Close`; the storage reduced to counters and to whose chunk a sweep removed |
| `Registry` | the manager's maps and snapshot, adding, removing, evicting, joining a group, `Close`, with the mutexes of queue, manager and consumer |
| `Sizes` | the size estimate by reflection, with visited map, cutoffs, cache and saturation, and the batch held against the limit |
| `Metrics` | latency rings, counters, percentile, and the history window of a consumer |
| `MCCursor`, `MCBlocking`, `MCAccounts` | which thread reads which cursor; payloads; for TLC |
| `ChunkStoreProofs`, `ListProofs` | theorems about the storage and its counters, limits and sweeps |
| `CursorProofs` | theorems about readers: types, nothing skipped in a chunk, nothing overwritten delivered |
| `ReaderProofs` | what can be missed between chunks, the counts of notifications, the queries |
| `LogProofs` | order of delivery, and the queue as a log |
| `RegistryProofs`, `BlockingProofs`, `MetricsProofs` | theorems about the manager, the waits, the rings and windows |

`ChunkStore` is shared: every action of `ChunkedList` and of `Cursor` that touches the
storage is an action of `ChunkStore` with more conjuncts, so what is proved of the storage
holds under both. `Log` is an abstract specification of the queue as its users see it,
with the slots below `size` as what was appended and `LiveSlots` as what is kept. `Cursor`
implements it with one reader per consumer and no tick in a sweep (`ImplementsLog`, checked
in `ReadAlone`); in general it does but for two kinds of step, which `QueueImplementsLog`
names (section 5). `Log` lets a reader miss an entry, because the code does
(`ClaimReadsAll`, section 4).

### State and code

- **Chunks are numbers in the order of allocation.** The code only pushes at the
  back and never reuses a chunk (`PutChunkNode` marks it, `GetChunkNode`
  allocates), so the list is the set `linked` in increasing order, and an item is
  the slot `<<chunk, index>>` it was put in. IDs and payloads add nothing to that.
- **`phase`, `at`, `oldHead`** are the locals of the writer that holds
  `q.mutex`: adding (a batch keeps the lock), scanning, notifying. `at` is the
  sweep's `element`, `oldHead` with the current `head` is `removalInfo`.
- **`pc`, `cur`, `cix`, `reg`, `blank`** are the locals of `TryRead`:
  `currentElement`, `currentIndex`, the value loaded last, and whether the copy
  is of an overwritten item. One action per critical section or atomic load.
- **`elem`, `idx`** are `chunkElement` and `indexInChunk` of a cursor, which is
  a consumer or a group. The two `TryRead`s are one action each step; they
  differ in the second look before the first position is stored (group only), in
  the jump over expired items (to the head, or by one) and in what `closed` means.
- **`request`** holds what a producer stamped and has not yet added. The stamp
  comes before the lock, as in `TryEnqueue`, `Enqueue` and `EnqueueBatch`;
  `TryEnqueueBatch` stamps under the lock, which is the case of no delay. All
  items of a batch have one stamp: the code reads the clock for each, in a row.
- **`parkedP`, `parkedR`** are the queues of goroutines a Go channel keeps. A
  send to a channel somebody waits on goes to the one waiting longest.
- **`want`** is what a reader still wants: 1 for `Read`, the limit for a batch, 0 for a
  predicate, which takes an item or goes on. A form that blocks starts at `"try"`, one
  that does not at `"more"`, where finding nothing returns. `NativeChannel` is a reader
  of `Pipes`: it offers what it read until somebody receives it.
- **`placed`, `adrift`, `crossed`** of `Blocking` say what removed chunks do to a wait: which
  cursors have a position, which of them stand in a chunk that the running sweep has removed and
  has not yet corrected, and whose last `TryRead` a sweep has crossed. `Miss` is the `TryRead`
  that finds its chunk `pooled` and returns nil with items listed (consumer.go:165,
  consumer_group.go:114).
- **`pc`, `arg`** of `Registry` say where a goroutine stands in an operation that takes
  several steps; `visit` is what its loop over the map has left. Mutexes are `qWriter`,
  `qReaders`, `cmWriter`, `cmReaders`; a consumer's is seen only where a sweep holds it
  between the test of `closed` and the send (`cHolder`).
- **A payload of `Sizes`** is a record: kind, type, address, length, parts. `Heap` says
  what pointers lead to, so cycles and shared objects are there. `Walk` carries the
  visited map (`NoMap` until it is made, and then shared, as a Go map is) and the cache.

### Abstractions

- Sizes, the chunk's cost and the limits are small numbers. The clamps at zero
  in `RemoveData` and `RemoveChunk` are there (`Less`); overflow is not.
- `Blocking` has no chunks. A sweep may remove the chunk of any cursor that has read or lost
  all items in it, and all of them when no item is left; one item can so stand for a full chunk.
  A `TryRead` running at a cursor without position, or at a group's, may be crossed by
  any sweep, since what it has loaded can be out of date; `Cursor` has the steps that lead
  there. A position does not go back in `Blocking` (`OnlyTheseReopen` says when it does).
- `Blocking` bounds only the number of items (`MaxItems`); waiting for memory
  takes the same `select`s.
- The sweeps of `Blocking` are the worker's, one at a time. `ForceExpiration`
  does the same in its caller, and `Close` does not wait for that one.
- In `Registry` a sweep decides freely which consumers are sent a count; a group's
  mutex is a leaf like a consumer's and has no step of its own. That a waiting writer holds
  back new readers of an `RWMutex` is left out: no goroutine asks for a mutex it holds, so
  this delays nobody for ever.
- `Sizes`: lengths, addresses and limits are small, `MaxInt` is 127 in place of 2^63-1.
  A panic in reflection (recovered as 1 << 40) is left out. What a payload occupies
  is defined apart from the walk (`Occupied`): the words of its type with padding, the bytes and
  the header of each string, what lies in it and everything reached, once each.
- `Metrics`: 60 percent of 3 samples stand for 95 of 1000; the float64 product is
  exact integer division. Averages are left out.
- Positions, names and statistics records are only copied.

## 3. Runs

TLC, every run to completion. Deadlock is not checked: all counters are bounded
(chunks, stamps, the clock, items), so behaviours end where the bound is reached
or the queue was closed. What must not get stuck is stated as liveness.

| Run | Question | Bounds |
|---|---|---|
| `ListCounters` | counters and limits; shape of the list; what a sweep leaves before a chunk it removes from the middle | 2 producers, batches of 2, sizes 1 and 2, room for 5 items, 3 chunks of 2, expiration switched, `Close`, ticks inside a sweep: middle chunks removed, an emptied list pushed on again |
| `ListExpiry` | everything expires; no sweep leaves an expired item behind while stamps are in order | 2 producers, so stamps out of order too; batches of 2, TTL changed between 1 and 2, clock to 5 |
| `ReadAlone` | the queue is a log (so order and no duplicate); no overwritten item, what can be missed, the count, the answers to queries; `TryRead` returns, a polling consumer keeps up | 1 consumer, 1 goroutine, 2 chunks of 2, `Close`; notices of capacity 1 |
| `ReadGroup` | order, no duplicate and no skip in a chunk for two members of a group; when a position goes back | 2 chunks of 2 |
| `Wait` | no token lies where somebody sleeps, unread data has its signal and free space its token coming; nobody sleeps on whom no sweep has crossed | 1 reader with a predicate, 2 producers of single items, 3 items in all, `MaxItems` 2, 2 tokens, chunks removed under a `TryRead`, removal of the consumer |
| `WaitGroup` | a group's data moves; `Close` ends all waits and returns | 2 members, one reading batches of 2, one a `NativeChannel`; batches of 1 and 2 enqueued, 2 items in all, `MaxItems` 2, 2 tokens, cancellation, `Close` |
| `Registry` | snapshot, nobody left open, members and groups, no send on a closed channel, no circle of waiting, every operation returns | 2 callers and the worker, 2 consumers, 1 group, eviction on, `ForceExpiration` and `Close` from any caller |
| `Accounts` | the cache changes no estimate, what is admitted fits but for what estimates leave out; windows and rings hold the latest, the percentile | 14 payloads (cycle, chain past the depth, shared and overlapping parts, map, interface over the limit, strings alone and in a slice, a padded struct, sizes that overflow or are negative) in batches of 1 and 2 after every cache they leave; rings of 3 with 4 records between resets, history of 2 with 4 reads |

Chunks of two items are enough because the code tells a chunk apart only
by empty, full and in between, and an index by before, at and after `head`. Three chunks give
the list a removed, a middle and a last one; to a reader the chunk it stands in and the next
one are all it looks at. Two tokens
distinguish empty, partly filled and full. Three items in `Wait` let one be read, one
be removed with its chunk and one be waited for. Removal of a consumer is checked in `Wait`,
cancellation and `Close` in `WaitGroup`; the invariants of both are proved with all three.
Two callers and the worker can hold all three
levels of mutexes in a circle of three; two consumers give one listed and one removed, or
one of a group and one independent; a group name can be used again only by a second group,
so what happens to a name that is reused stays out of `Registry`'s run.

### Fairness

- `Cursor`: weak fairness for whoever holds `q.mutex`, strong fairness for a step
  of `TryRead`: it may be enabled and disabled for ever by sweeps taking
  `q.mutex`, but `sync.RWMutex` lets waiting readers in when a writer unlocks, and
  a mutex that is passed round is eventually given to everyone waiting.
  `PollingSpec` adds that the application calls `TryRead` again.
- `ChunkedList`: the clock goes on (strongly fair, since a tick is held back between
  scan and stop test when `ClockTicks` is false), the ticker starts sweeps, a sweep and a batch
  in progress go on.
- `Blocking`: a goroutine that can run does (each on its own), so do the fill loop
  and `Close`. Nothing is assumed of when calls are made, items expire, contexts
  are cancelled, consumers removed, or of anybody receiving from a `NativeChannel`.
- `Registry`: strong fairness for a goroutine inside an operation, since it competes for
  mutexes: `sync.Mutex` and `sync.RWMutex` hand a mutex to those who wait, however often
  others ask. Strong fairness for the worker's exit: its `select` chooses at random
  between a tick and `stopChan`, so it does not choose the tick for ever.

### Mutants

Each property of a passing run has a definition in the module (marked
"Mutant") that changes one mapped definition the way a plausible bug would, and
under which TLC finds the property violated: a link forgotten, a mark, a payment,
a double check, a position comparison, a `select` that does not look first, two mutexes in
the other order, a sum without its guard, an index off by one.

## 4. What the documents say and the code does not keep

Four runs each check a statement of the repository and TLC prints the behaviour
that breaks it. `PROJECT.json` quotes the lines.

| Run | Statement | What happens |
|---|---|---|
| `ClaimReadsAll` | each consumer reads all data (README.md:17) | `TryRead` finds its chunk read to the end and, before it loads `NextElement`, the chunk is filled and the next one made: it goes on and never delivers what was added. This is the only way: `OnlyLateItemsMissed` |
| `ClaimReadWakes` | `Read` blocks until data becomes available (consumer.go:233) | two consumers, two signals, one of them takes both |
| `ClaimReadBlocks` | the same, with a single consumer | it is parked at the end of a full chunk and is woken for an item in the next one; a sweep removes the full chunk before it corrects positions; `TryRead` finds the chunk `pooled`, forgets the position and returns nil, and `Read` goes back to its `select` with the signal spent. The item stays unread until another is enqueued |
| `ClaimGroupOnce` | each item goes to exactly one member (ARCHITECTURE.md:184) | three members, a sweep that empties the list, an old front stored after the position was reset. Storing a front that is out of date is one of the two ways a position goes back: `OnlyTheseReopen` |

Other statements hold under a condition, or but for an exception, that the properties and
theorems name:

- *Items are ordered by creation time* (data.go:161): for one producer. The stamp
  is taken before the lock. `SweepIsThorough` has the order as a premise,
  `EverythingExpires` shows that without it an item is only delayed.
- *Hard memory limit* (README.md:353): up to the chunks one request makes, which
  the test for space does not count (`WithinLimits`).
- *FIFO* (TROUBLESHOOTING.md:338): while no cursor goes back over what it delivered. It goes back
  in two ways (`OnlyTheseReopen`, proved for any number of goroutines and with ticks): `TryRead`
  stores a front that is out of date (two first reads of one consumer at once; three
  members of a group), or a sweep removes the cursor's chunk from behind the front,
  because the TTL of an item was reached between its scan and its stop test. `DeliveredInOrder` is
  checked for two members of a group without such ticks.
- *`Enqueue` blocks until space becomes available* (queue.go:161): for producers that
  all bring as many items, and no more of them than `dequeueNotify` has room for
  (`NobodySleepsOn`, proved; `EnqueueWakes` in `Wait`). A producer whose batch does not fit takes a
  token, finds no room and waits again, and the token is gone for a producer whose item would fit.
- *Items are immutable* (data.go:20): until `Close` clears the data; a `TryRead`
  running then can return a zeroed item (`DeliversWhatWasEnqueued`).
- *Notifications have exact counts* (README.md:531): exact for the position they are
  computed from (`CountIsUnread`); a `TryRead` may commit right after.
- *`nil` means no data* (consumer.go:114): not for the call that finds its chunk
  removed. It costs a polling consumer no data (`KeepsUp`), but a blocked one its wake-up
  (`ClaimReadBlocks`). `ReadWakes`, `CursorMoves` and `NobodySleepsOn` so speak of readers
  no sweep has crossed.
- *`CleanInactiveConsumers` removes independent consumers* (queue.go:546): it removes
  members of groups too, and groups without members, one just made included
  (consumer.go:807, :819). A consumer blocked in `Read` because there is nothing to read
  is evicted as inactive.
- *`RemoveGroup` removes all its associated consumers* (consumer.go:776): but for one whose
  `AddConsumer` tested the group's `closed` before (`MembersHaveTheirGroup`).
- *Close shuts down the queue and all its consumers* (queue.go:638): those in the snapshot it
  takes; one added later stays open, and groups are not closed (`NoneLeftOpen`).
- *Conservative estimation* (README.md:526, ARCHITECTURE.md:428): but for what it leaves out. A string counts as its length,
  without the header that lies in the batch, struct or slice around it (memory.go:118, :223), so a slice of
  short strings is estimated at a part of what it occupies; padding of structs is not counted
  (memory.go:253); a pointer met again adds nothing, not its own word, and a slice that begins
  where another did adds nothing (memory.go:195); nothing is seen below depth 1000. `AdmittedFits`
  says that, each object taken once, headers and padding are all that a batch can
  pass the limit by.
- *`HasMoreData`* (consumer.go:385) answers for the position between two writers
  (`QueriesAreExact`); at a position in a chunk already removed it can say yes with nothing left.

## 5. Proofs

All theorems are about `Spec` of their module (no fairness needed), for every value of
the constants that satisfies the module's `ASSUME`. Each rests on an inductive invariant,
with a lemma for the initial states and one per kind of step. Three need a hypothesis more,
`~ClockTicks`: the clock does not move between a sweep's scan of a chunk and its
stop test. Where the code does not keep a statement, the theorem says what it does keep, and the
exceptions are in the statement: nothing is assumed of how many goroutines read a consumer or of
what they find.

| Module | Theorem | Property | Hypothesis |
|---|---|---|---|
| `ChunkStoreProofs` | `StoreTypeInvariant`, `OpenOnlyAtBack`, `RemovedOnlyDrained`, `NextLeadsToNext` | types, `OnlyBackOpen`, `RemovedIsDrained`, `NextLeadsOn` | |
| `ListProofs` | `ListTypeInvariant`, `CountersExact`, `LimitsHold` | `TypeOK`, `CountersAreExact`, `WithinLimits` | |
| | `HolesOverExpired` | `HolesBehindExpired` | |
| | `SweepsAreThorough` | `SweepIsThorough` | `~ClockTicks` |
| `CursorProofs` | `CursorTypes`, `NoLiveItemSkipped`, `NothingWipedDelivered` | `TypeOK`, `NoSkipInChunk`, `DeliversWhatWasEnqueued` | |
| `ReaderProofs` | `OnlyLateItems` | `OnlyLateItemsMissed` | |
| | `NotificationsCount`, `QueriesAnswerRight` | `CountIsUnread`, `QueriesAreExact` | `~ClockTicks` |
| `LogProofs` | `OnlyStaleFrontsReopen` | `OnlyTheseReopen` | |
| | `QueueImplementsLog` | steps of `Log`, but for `CommitsAgain` and `ExpiresOutOfTurn` | |
| `RegistryProofs` | `RegistryTypes`, `SnapshotCurrent`, `SendsAreSafe`, `CloseReachesAll`, `GroupsKeepMembers`, `NobodyStuck` | `TypeOK`, `SnapshotIsCurrent`, `NoSendOnClosed`, `NoneLeftOpen`, `MembersHaveTheirGroup`, `NobodyIsStuck` | |
| `BlockingProofs` | `BlockingTypes`, `WakeUpsAreDue` | `TypeOK`, `NobodySleepsOn` | |
| `MetricsProofs` | `MetricsTypes`, `LatestAreKept`, `PercentilesSplit` | types, `KeepsTheLatest`, `PercentileSplits` | |

### The arguments

`ChunkStoreProofs`:

- `StoreInv` is inductive: types, `HeadsBehind` (head at most size), `ScanListed`
  (a sweep stands in a listed chunk), `Unmade` (chunks not allocated are blank),
  `OnlyBackOpen`, `Marked` (pooled means not listed), `Drained` (removed means
  empty or cleared), `EmptyInHand` (the only empty chunk listed is the one the
  writer is at). None of the properties is inductive alone: a removed chunk is
  drained because the sweep stands at it and found it empty, it is found listed
  because the sweep only steps to listed chunks, and `AddItem` only changes the
  last chunk because the others are full.
- `PrefixInv` adds that the list has no holes (`ListIsSuffix`), `NextIsSuccessor` (a link names
  the next chunk made) and `ScanAtFront` (a sweep is at the front), under `~ClockTicks`. It is no
  result of its own; the three theorems with that hypothesis use it.
- `NextLeadsToNext` needs no assumption on the clock. `ChainInv` says that from every
  listed chunk a chain of links leads to the next one listed, over removed chunks if need be:
  a removal from the middle changes no link, so it joins the chain to the removed chunk and the
  chain from it; a push links the back.

`ListProofs`: `CountInv` says that the counters are the sums over what is
stored. A sum over a set of slots is a fold, and the prover has no induction for it; the
lemmas count it instead, as the number of pairs of a slot and a unit of its size, so that
adding or removing an item adds or removes its pairs (`FiniteSetTheorems`). The subtractions in
`RemoveData` and `RemoveChunk` never reach their clamp at zero because what is subtracted
is part of the sum. `LimitInv` adds what a batch that was admitted still has to add: the
items left and the chunks they will need, so that the limit holds in the middle of
`EnqueueBatch` too. `SweepsAreThorough` adds what a sweep knows when it stops (`ScanEnded`): the
first item of the chunk it stands at has not expired and, by `PrefixInv`, is the first of the list.
`HolesOverExpired` has the clock free. Its invariant `PassedExpired` says that every listed
chunk before the one a sweep is at begins with an expired item: the sweep goes on from a chunk it
leaves in the list only if its stop test finds the head expired (`SweepPasses`), the clock does not go back and the
TTL is fixed while `q.mutex` is held (`StaysExpired`), and no head it has passed is moved
before the sweep ends (`PassedHeads`).

`CursorProofs`, for any number of goroutines on any number of cursors, groups among them, and
with ticks:

- `SharedInv` says with `Holds`, for each `pc`, what a thread's locals are worth when others have
  moved the position meanwhile, and with
  `Placed` that what lies behind a cursor in its chunk is delivered or expired. The second is
  what `NoSkipInChunk` says, and it survives the moves over expired items because a move is
  committed only at the position it was computed for and only over indices below `head`.
- `Unwiped`: what `Get` returns under the read lock lies at or after `head`, and nothing
  at or after `head` is overwritten before `Clear`.

`ReaderProofs`:

- `OnlyLateItems`: `OnwardInv` says that a link leads from a full chunk to a later one
  with nothing listed between them (`NextOnward`), and that this is so of the chunk a thread is
  about to go to, or of the front it is about to store (`GoesOn`). So all a cursor passes over by
  `Advance` is what was put in the chunk it leaves at or after the thread's index, and all other
  moves pass over nothing live.
- `NotificationsCount`: `oldHead` and `head` of the chunks swept, cut at the position, are
  the items removed that the cursor had ahead of it. `SweepInv` says that a sweep takes
  from the front of the list and from chunks it has unlinked (`SweptInFront`), so that the code's
  test of chunk after chunk finds all of them.
- `QueriesAnswerRight`: `ItemsInChain` is the walk along `NextElement`, a recursive function.
  That it is the number of items from a chunk on needs no induction theorem: the count itself
  satisfies the recursion, so a greatest chunk at which the two differ would contradict it.

`LogProofs`:

- `OnlyStaleFrontsReopen`: an item is `Reopened` when it was delivered and the next `TryRead` would
  begin at or before it (`Start`: at the position, or at the front, there or to come). The front moves forward
  only, `Commit`, `Jump` and `Advance` move a position forward (`OnwardInv`), the
  correction after a sweep moves an index forward in its chunk, and a reset goes to a front
  that lies after a removed chunk unless that was taken from the middle (`FallsToFront`). What is
  left are the two cases of the statement.
- `QueueImplementsLog`: every step of `Cursor` is one of `Log`, or none, or one of two kinds.
  `CommitsAgain` is a commit of a cursor with something reopened; otherwise all it
  delivered lies before its position, at which the commit delivers (`CommitDelivers`), and `HistoryInv`
  says that a commit delivers an item that was appended. `ExpiresOutOfTurn` is a sweep taking an
  item behind the front, which takes a tick between scan and stop test; at the front, what
  expires is older than all that is kept. `AddItem` appends after everything appended, because
  the back chunk is the last one made and the others are full (`OlderFull`). `Clear` takes all.
  All other steps change neither what is kept nor what was delivered.

`RegistryProofs`: `RegistryInv`. Where a thread is tells which mutexes it holds (`Holders`),
and that tells which others can be in a critical section: what a loop over the map has left
is still listed (`Visits`), the snapshot never lacks a listed consumer and differs from the map only while the
manager's mutex is held for writing (`Snapshots`), and a consumer between the test of `closed` and the send is not closed
because its mutex is held. `Closing` and `Reached` follow `Close` from its snapshot to the
last consumer of it. `NobodyStuck`: every thread that waits does so for one further down
the levels `Close`, queue, manager, consumer (`Level`), by cases over where the holder of the mutex
can be. A thread's wait so ends after at most four others at one that can go on, whatever the number of
callers; that it does go on is fairness (`OperationsFinish`). `Ready` is the guard of the
thread's next step, which was checked to be its `ENABLED` with TLC. A writer that waits and holds back new
readers, as `sync.RWMutex` does, waits for holders of the same mutex, on the same level, so it
adds no circle.

`BlockingProofs`: `BlockingInv`. The wait queues are injective sequences of exactly those
parked (`Lines`). `NobodySleepsOn` is not inductive: it says nothing of a goroutine between its
failed try and its look at the channel, which may park in the next step. `SignalOrToken` says
that what a reader at that point missed left a token, has a producer about to signal, or that the
reader is `crossed`; the mark stays with it until it takes another signal or finds what there is.
`TokenEach` says that, while there is space, `dequeueNotify` holds a token for each producer at
that point; equal needs and no more producers than tokens are used there.

`MetricsProofs`: `Rings` says where a ring has the sample of each age (`Spot`), whether it has
wrapped or not; after `Reset` the samples left in the array are behind a count of zero. `Window` says that the
history is the run of reads that ends with the last. That each sample is kept as often as
recorded follows by a bijection between ages and places. `PercentilesSplit`: sorting is a choice
among the injections that put the samples in order (`Sorts`), and it has to be shown that there is one.
The number of samples before each, equal ones in the order they stand in (`Place`), is
injective, so onto, since the set is finite, and its inverse sorts. Then the first k of the sorted samples are
at or below the k-th, and what is below it is among the first k - 1; the index of `calculateP95`
is such a k also where it is cut off at the last sample.

### Only model-checked

- All liveness: `EverythingExpires`, `TryReadReturns`, `KeepsUp`, `ReadWakes`, `EnqueueWakes`,
  `CursorMoves`, `CloseEndsWaits`, `CloseReturns`, `OperationsFinish`. Temporal reasoning with
  fairness is out of the prover's reach.
- `DeliveredInOrder` for two members of a group and `ImplementsLog` for one reader, both without
  ticks, as such: neither is true of the code in general, and what is proved is the form with its exceptions.
- `Sizes` (`CacheTransparent`, `AdmittedFits`): the walk is a recursive operator over nested
  payloads, and what it computes is known only by induction over them.
- `TypeOK` of `MCAccounts` as a whole: the part about `Metrics` is `MetricsTypes`.

## 6. What is left

Every component that keeps state of its own is modelled.
What could still be added: chunks in `Blocking`, so that `crossed` becomes a consequence of the steps of
`Cursor` and not a state of its own; a refinement between the two; the count of a notification
against a `TryRead` that commits before it is sent; more producers than `dequeueNotify` has room
for; a form of `Walk` without recursion over nested payloads, to prove `AdmittedFits` about. If
`TryRead` is changed to store a front only where the position is unset and the front listed, the
first exception of `OnlyTheseReopen` goes; if the stop test uses the time of the scan, the second and
`ExpiresOutOfTurn` go.

Not modelled: error texts, the Prometheus text and averages, getters of one field, the
command, the examples, the benchmark script and the tests. None of them keeps state
of its own or takes a step that another part could see. The copies and address-of tricks
of `reflect` in `estimateValueSize` are left out, since they change no size.
