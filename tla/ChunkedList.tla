------------------------------ MODULE ChunkedList -----------------------------
(***************************************************************************)
(* What goes into the storage and what it costs: admission of items by     *)
(* TryEnqueue, Enqueue and their batch forms (queue/queue.go), the counters *)
(* of MemoryTracker (queue/memory.go) and of ChunkedList, and the sweep    *)
(* with the clock it reads.  The chunks themselves are ChunkStore's, whose *)
(* every step is taken here with its cost.                                 *)
(*                                                                         *)
(* A producer stamps its items (NewQueueData) before it asks for q.mutex;  *)
(* a blocked Enqueue keeps its stamp however long it waits.  How it waits  *)
(* is not modelled here: a request that does not fit is given up (the Try  *)
(* forms and errors) or stays to be tried again (the blocking forms).      *)
(***************************************************************************)
EXTENDS ChunkStore, Sequences, FiniteSetsExt

CONSTANTS
  Producers,
  Sizes,          \* sizes an item can have (QueueData.size)
  MaxBatch,       \* bound: items in a batch
  ChunkNodeSize,  \* what a chunk itself costs
  MaxMemory,      \* QueueConfig.MaxMemory
  MaxItems,       \* QueueConfig.MaxItems, 0 for no limit
  TTLs,           \* values of q.ttl
  MayDisable,     \* bound: is expiration ever switched off, or the queue closed?
  LastStamp,      \* bound: no item is stamped after this time
  MaxTime,        \* bound: the clock stops there
  Nobody          \* no producer holds q.mutex

ASSUME ListAssumption ==
  /\ Sizes \subseteq Nat \ {0}
  /\ MaxBatch \in Nat \ {0}
  /\ ChunkNodeSize \in Nat
  /\ MaxMemory \in Nat
  /\ MaxItems \in Nat
  /\ TTLs \subseteq Nat /\ TTLs # {}
  /\ MayDisable \in BOOLEAN
  /\ LastStamp \in Nat /\ MaxTime \in Nat
  /\ Nobody \notin Producers

VARIABLES
  now,            \* the clock
  ttl,            \* q.ttl
  expiring,       \* q.expirationEnabled
  created,        \* QueueData.Created of the item in each slot
  cost,           \* QueueData.size of the item in each slot, 0 if none
  memory,         \* MemoryTracker.totalMemory
  totalItems,     \* ChunkedList.totalItems
  request,        \* the items each producer has stamped and not yet added
  writer,         \* the producer that holds q.mutex
  scanned         \* RemoveExpired has returned for chunk at

itemVars  == <<created, cost>>
countVars == <<memory, totalItems>>
modeVars  == <<ttl, expiring>>
askVars   == <<request, writer>>
vars == <<storeVars, now, modeVars, itemVars, countVars, askVars, scanned>>

NoRequest  == [sizes |-> <<>>, stamp |-> 0]

Total(s)   == MapThenSumSet(LAMBDA i : s[i], DOMAIN s)
CostOf(S)  == MapThenSumSet(LAMBDA s : cost[s], S)
Less(a, b) == IF a < b THEN 0 ELSE a - b      \* the clamp of RemoveData

TypeOK ==
  /\ StoreTypeOK
  /\ now \in 0 .. MaxTime
  /\ ttl \in TTLs
  /\ expiring \in BOOLEAN
  /\ created \in [Slot -> 0 .. MaxTime]
  /\ cost \in [Slot -> Sizes \cup {0}]
  /\ memory \in Nat
  /\ totalItems \in Nat
  /\ \A p \in Producers :
       /\ request[p].sizes \in Seq(Sizes)
       /\ request[p].stamp \in 0 .. MaxTime
  /\ writer \in Producers \cup {Nobody}
  /\ scanned \in BOOLEAN

(* Expiration is on from the start when the TTL is positive. *)
Init ==
  /\ StoreInit
  /\ now = 0
  /\ ttl \in TTLs
  /\ expiring = (ttl > 0)
  /\ created = [s \in Slot |-> 0]
  /\ cost = [s \in Slot |-> 0]
  /\ memory = 0
  /\ totalItems = 0
  /\ request = [p \in Producers |-> NoRequest]
  /\ writer = Nobody
  /\ scanned = FALSE

-----------------------------------------------------------------------------
(* Producers *)

(* Mutant: SetSize is forgotten. *)
StampUnsized(p) ==
  /\ request[p] = NoRequest
  /\ ~closed
  /\ now <= LastStamp
  /\ request' = [request EXCEPT ![p] = [sizes |-> <<0>>, stamp |-> now]]
  /\ UNCHANGED <<storeVars, now, modeVars, itemVars, countVars, writer, scanned>>

(* NewQueueData and SetSize, for one item or a batch. *)
Stamp(p) ==
  /\ request[p] = NoRequest
  /\ ~closed
  /\ now <= LastStamp
  /\ \E n \in 1 .. MaxBatch : \E s \in [1 .. n -> Sizes] :
       request' = [request EXCEPT ![p] = [sizes |-> s, stamp |-> now]]
  /\ UNCHANGED <<storeVars, now, modeVars, itemVars, countVars, writer, scanned>>

(* Mutant: a batch is tested as if it were one item. *)
FitsOne(sizes) ==
  /\ MaxItems > 0 => totalItems + 1 <= MaxItems
  /\ memory <= MaxMemory - Head(sizes)

(* The tests made under the lock.  For one item they are those of TryEnqueue *)
(* and CanAddData, for more those of TryEnqueueBatch and EnqueueBatch.       *)
Fits(sizes) ==
  /\ MaxItems > 0 => totalItems + Len(sizes) <= MaxItems
  /\ memory <= MaxMemory - Total(sizes)

(* The bound on chunks leaves room for n items. *)
Bounded(n) ==
  LET free == IF NeedsChunk THEN 0 ELSE ChunkSize - size[Back]
  IN n <= free + ChunkSize * (MaxChunks - allocated)

(* p holds q.mutex, or takes it and passes the tests. *)
Admitted(p) ==
  IF phase = "add"
    THEN writer = p
    ELSE /\ request[p] # NoRequest
         /\ Fits(request[p].sizes)
         /\ Bounded(Len(request[p].sizes))

(* Every item goes in before the lock is given back.  A chunk is made when   *)
(* the last one is full, and paid for, whatever MaxMemory says.              *)
GrowFor(p) ==
  /\ Admitted(p)
  /\ writer' = p
  /\ AddChunk
  /\ memory' = memory + ChunkNodeSize
  /\ UNCHANGED <<now, modeVars, itemVars, totalItems, request, scanned>>

AddFor(p) ==
  LET slot == <<Back, size[Back]>>
      rest == Tail(request[p].sizes)
      last == rest = <<>>
  IN
  /\ Admitted(p)
  /\ writer' = IF last THEN Nobody ELSE p
  /\ AddItem
  /\ phase' = IF last THEN "free" ELSE "add"
  /\ created' = [created EXCEPT ![slot] = request[p].stamp]
  /\ cost' = [cost EXCEPT ![slot] = Head(request[p].sizes)]
  /\ memory' = memory + Head(request[p].sizes)
  /\ totalItems' = totalItems + 1
  /\ request' = [request EXCEPT ![p] = IF last THEN NoRequest ELSE [@ EXCEPT !.sizes = rest]]
  /\ UNCHANGED <<now, modeVars, scanned>>

(* An error: the queue is full, or closed. *)
GiveUp(p) ==
  /\ phase = "free"
  /\ request[p] # NoRequest
  /\ closed \/ ~Fits(request[p].sizes)
  /\ request' = [request EXCEPT ![p] = NoRequest]
  /\ UNCHANGED <<storeVars, now, modeVars, itemVars, countVars, writer, scanned>>

-----------------------------------------------------------------------------
(* The sweep *)

(* Mutant: the two times swapped. *)
IsExpiredSwapped(s) == created[s] - now > ttl

(* QueueData.IsExpired and the stop test of RemoveExpiredData are the same   *)
(* question, asked at two moments.                                           *)
IsExpired(s) == now - created[s] > ttl

(* Mutant: the newest item of the chunk is asked instead of the oldest. *)
NewestOf(c)  == <<c, size[c] - 1>>
HeadOf(c)    == <<c, head[c]>>

(* Data[i] = QueueData{} *)
Wipe(S) ==
  /\ created' = [s \in Slot |-> IF s \in S THEN 0 ELSE created[s]]
  /\ cost' = [s \in Slot |-> IF s \in S THEN 0 ELSE cost[s]]

StartSweep ==
  /\ expiring
  /\ SweepBegin
  /\ UNCHANGED <<now, modeVars, itemVars, countVars, askVars, scanned>>

Expire ==
  /\ ~scanned
  /\ ExpireItem
  /\ IsExpired(HeadOf(at))
  /\ memory' = Less(memory, cost[HeadOf(at)])
  /\ totalItems' = totalItems - 1
  /\ Wipe({HeadOf(at)})
  /\ UNCHANGED <<now, modeVars, askVars, scanned>>

EndChunkScan ==
  /\ phase = "scan"
  /\ at # Nil
  /\ ~scanned
  /\ ~IsEmpty(at)
  /\ ~IsExpired(HeadOf(at))
  /\ scanned' = TRUE
  /\ UNCHANGED <<storeVars, now, modeVars, itemVars, countVars, askVars>>

(* Mutant: RemoveChunk is forgotten. *)
DropChunkUnpaid ==
  /\ UnlinkEmpty
  /\ UNCHANGED <<now, modeVars, memory, itemVars, totalItems, askVars, scanned>>

DropChunk ==
  /\ UnlinkEmpty
  /\ memory' = Less(memory, ChunkNodeSize)
  /\ UNCHANGED <<now, modeVars, itemVars, totalItems, askVars, scanned>>

(* Mutant: the sweep goes on whatever the test says. *)
StopTestNot ==
  /\ scanned
  /\ LeaveChunk
  /\ at' = After(at)
  /\ scanned' = FALSE
  /\ UNCHANGED <<now, modeVars, itemVars, countVars, askVars>>

StopTest ==
  /\ scanned
  /\ LeaveChunk
  /\ at' = IF IsExpired(HeadOf(at)) THEN After(at) ELSE Nil
  /\ scanned' = FALSE
  /\ UNCHANGED <<now, modeVars, itemVars, countVars, askVars>>

EndSweep ==
  /\ EndScan \/ EndNotify
  /\ UNCHANGED <<now, modeVars, itemVars, countVars, askVars, scanned>>

-----------------------------------------------------------------------------
(* Settings, Close and time *)

SetTTL ==
  /\ phase = "free"
  /\ ttl' \in TTLs \ {ttl}
  /\ UNCHANGED <<storeVars, now, expiring, itemVars, countVars, askVars, scanned>>

(* EnableExpiration and DisableExpiration *)
SetExpiration ==
  /\ phase = "free"
  /\ expiring => MayDisable
  /\ expiring' = ~expiring
  /\ UNCHANGED <<storeVars, now, ttl, itemVars, countVars, askVars, scanned>>

RaiseClosed ==
  /\ MayDisable
  /\ CloseFlag
  /\ UNCHANGED <<now, modeVars, itemVars, countVars, askVars, scanned>>

(* Clear gives back the cost of each live item and of each chunk. *)
ClearAll ==
  /\ Clear
  /\ memory' = Less(memory, CostOf(LiveSlots) + ChunkNodeSize * Cardinality(linked))
  /\ totalItems' = 0
  /\ Wipe(LiveSlots)
  /\ UNCHANGED <<now, modeVars, askVars, scanned>>

Tick ==
  /\ now < MaxTime
  /\ ~ClockTicks => ~scanned
  /\ now' = now + 1
  /\ UNCHANGED <<storeVars, modeVars, itemVars, countVars, askVars, scanned>>

Next ==
  \/ \E p \in Producers : Stamp(p) \/ GrowFor(p) \/ AddFor(p) \/ GiveUp(p)
  \/ StartSweep \/ Expire \/ EndChunkScan \/ DropChunk \/ StopTest \/ EndSweep
  \/ SetTTL \/ SetExpiration \/ RaiseClosed \/ ClearAll \/ Tick

Spec == Init /\ [][Next]_vars

(* The clock goes on (strongly fair, as no tick falls between scan and stop  *)
(* test when ClockTicks is false), and the worker's ticker starts a sweep    *)
(* again and again and brings it to its end.                                 *)
FairSpec ==
  /\ Spec
  /\ SF_vars(Tick)
  /\ WF_vars(StartSweep)
  /\ WF_vars(Expire \/ EndChunkScan \/ DropChunk \/ StopTest \/ EndSweep)
  /\ \A p \in Producers : WF_vars(phase = "add" /\ (GrowFor(p) \/ AddFor(p)))

-----------------------------------------------------------------------------
(* Properties *)

(* The counters say what is there: totalMemory is the sum of the sizes of    *)
(* the live items and of the chunks, totalItems their number, at every step  *)
(* of enqueues, sweeps and Clear (AddData and RemoveData, memory.go:80 and   *)
(* :87; the clamps never bite).                                              *)
CountersAreExact ==
  /\ memory = CostOf(LiveSlots) + ChunkNodeSize * Cardinality(linked)
  /\ totalItems = Cardinality(LiveSlots)

(* The limits hold for batches as for single items; the memory limit only up *)
(* to the chunks one request can make, because the test for space            *)
(* (memory.go:72, queue.go:340) does not count them.                         *)
WithinLimits ==
  /\ MaxItems > 0 => totalItems <= MaxItems
  /\ memory <= MaxMemory + ChunkNodeSize * ((MaxBatch + ChunkSize - 1) \div ChunkSize)

(* A chunk goes from the middle of the list only over expired items: when a   *)
(* sweep unlinks one while older ones stay, the head of each of these has     *)
(* expired by then.  The scan left it as not expired; between that and the    *)
(* stop test the clock moved, and nothing the sweep or others do later in its *)
(* walk undoes it (chunked_list.go:152, :191; the TTL is fixed meanwhile,     *)
(* queue.go:596 against :700).                                                *)
HolesBehindExpired ==
  [][\A c \in linked \ linked', d \in linked' : d < c => IsExpired(HeadOf(d))]_vars

(* Every item is removed in the end, also one that stands behind items with  *)
(* a later stamp: sweeps make progress past whatever the last one left       *)
(* (RemoveExpiredData, chunked_list.go:143).                                 *)
EverythingExpires ==
  \A s \in Slot : s \in LiveSlots ~> s \notin LiveSlots

(* The items stand in the order of their stamps.  The comment at data.go:161 *)
(* says they always do; the stamp is taken before q.mutex (queue.go:139 and  *)
(* :142), so two producers can be served in the other order.                 *)
OrderedByCreation ==
  \A r, s \in LiveSlots :
    r[1] < s[1] \/ (r[1] = s[1] /\ r[2] < s[2]) => created[r] <= created[s]

(* While the items stand in the order of their stamps, a sweep that no tick  *)
(* interferes with leaves no expired item behind, in any chunk: stopping at  *)
(* the first item not expired loses nothing (data.go:161,                    *)
(* chunked_list.go:188).                                                     *)
SweepIsThorough ==
  [][StopTest /\ at' = Nil /\ OrderedByCreation
       => \A s \in LiveSlots : ~IsExpired(s)]_vars
===============================================================================
