------------------------------ MODULE ChunkStore ------------------------------
(***************************************************************************)
(* The chunked storage of the queue (queue/chunked_list.go, data.go,       *)
(* pool.go) as its readers see it: which chunks are in the container/list, *)
(* how full each is, how far its head has moved, which chunk its           *)
(* NextElement names and whether it was given back to the pool.            *)
(*                                                                         *)
(* Payloads, sizes and clocks are left out.  An item is the slot <<c, i>>  *)
(* it was put in: a slot is written once and no chunk is ever reused.      *)
(* Chunks are numbered in the order of their allocation; the code only     *)
(* pushes at the back and removes, so the list IS the set of linked chunks *)
(* in increasing order.                                                    *)
(*                                                                         *)
(* Everything here runs under q.mutex held for writing; the steps are      *)
(* separate because readers look at size, head, NextElement and pooled     *)
(* with atomic loads and no lock.                                          *)
(***************************************************************************)
EXTENDS Integers, FiniteSets

CONSTANTS
  ChunkSize,   \* capacity of a chunk (1000 in the code)
  MaxChunks,   \* bound: how many chunks are ever allocated
  ClockTicks   \* may an item reach its TTL between the two clock reads a
               \* sweep makes of it, the scan's and the stop test's?

ASSUME StoreAssumption ==
  /\ ChunkSize \in Nat \ {0}
  /\ MaxChunks \in Nat
  /\ ClockTicks \in BOOLEAN

ChunkId == 1 .. MaxChunks
Nil     == 0
Slot    == ChunkId \X (0 .. ChunkSize - 1)

VARIABLES
  allocated,   \* number of chunks made so far: chunks 1 .. allocated exist
  size,        \* ChunkNode.size
  head,        \* ChunkNode.head
  next,        \* ChunkNode.NextElement
  pooled,      \* ChunkNode.pooled
  zeroed,      \* chunks whose Data was overwritten by Clear
  linked,      \* the chunks in cl.list
  closed,      \* q.closed
  phase,       \* what the writer holding q.mutex is doing; "free": no writer
  at,          \* RemoveExpiredData's element
  oldHead      \* the heads when the sweep began

chunkVars == <<allocated, size, head, next, pooled, zeroed, linked>>
sweepVars == <<phase, at, oldHead>>
storeVars == <<chunkVars, closed, sweepVars>>

StoreTypeOK ==
  /\ allocated \in 0 .. MaxChunks
  /\ size \in [ChunkId -> 0 .. ChunkSize]
  /\ head \in [ChunkId -> 0 .. ChunkSize]
  /\ next \in [ChunkId -> ChunkId \cup {Nil}]
  /\ pooled \in [ChunkId -> BOOLEAN]
  /\ zeroed \subseteq ChunkId
  /\ linked \subseteq 1 .. allocated
  /\ closed \in BOOLEAN
  /\ phase \in {"free", "add", "scan", "notify"}
  /\ at \in ChunkId \cup {Nil}
  /\ oldHead \in [ChunkId -> 0 .. ChunkSize]

StoreInit ==
  /\ allocated = 0
  /\ size = [c \in ChunkId |-> 0]
  /\ head = [c \in ChunkId |-> 0]
  /\ next = [c \in ChunkId |-> Nil]
  /\ pooled = [c \in ChunkId |-> FALSE]
  /\ zeroed = {}
  /\ linked = {}
  /\ closed = FALSE
  /\ phase = "free"
  /\ at = Nil
  /\ oldHead = [c \in ChunkId |-> 0]

-----------------------------------------------------------------------------
(* container/list *)

First(S) == IF S = {} THEN Nil ELSE CHOOSE c \in S : \A d \in S : c <= d
Last(S)  == IF S = {} THEN Nil ELSE CHOOSE c \in S : \A d \in S : d <= c

Front     == First(linked)                       \* list.Front
Back      == Last(linked)                        \* list.Back
After(c)  == First({d \in linked : d > c})       \* element.Next

IsFull(c)  == size[c] >= ChunkSize
IsEmpty(c) == head[c] = size[c]

(* The items of chunk c that Get can still return. *)
LiveIn(c)  == {c} \X (head[c] .. size[c] - 1)
LiveSlots  == UNION {LiveIn(c) : c \in linked}

-----------------------------------------------------------------------------
(* Enqueue: get or create the last chunk, then put the item in it.  Between *)
(* the two a reader may already follow NextElement to the new chunk.        *)

(* Mutant: a new chunk one item too early. *)
NeedsChunkEarly == linked # {} => size[Back] >= ChunkSize - 1
NeedsChunk == linked # {} => IsFull(Back)
HasRoom    == ~NeedsChunk \/ allocated < MaxChunks

(* Mutant: NextElement.Store is forgotten. *)
PushChunkUnnamed ==
  /\ allocated < MaxChunks
  /\ NeedsChunk
  /\ allocated' = allocated + 1
  /\ linked' = linked \cup {allocated + 1}
  /\ UNCHANGED <<size, head, next, pooled, zeroed>>

(* A chunk pushed on an empty list is named by no NextElement. *)
PushChunk ==
  /\ allocated < MaxChunks
  /\ NeedsChunk
  /\ allocated' = allocated + 1
  /\ linked' = linked \cup {allocated + 1}
  /\ next' = IF linked = {} THEN next ELSE [next EXCEPT ![Back] = allocated + 1]
  /\ UNCHANGED <<size, head, pooled, zeroed>>

PutItem ==
  /\ ~NeedsChunk
  /\ size' = [size EXCEPT ![Back] = @ + 1]
  /\ UNCHANGED <<allocated, head, next, pooled, zeroed, linked>>

AddChunk ==
  /\ phase \in {"free", "add"}
  /\ phase = "free" => ~closed
  /\ PushChunk
  /\ phase' = "add"
  /\ UNCHANGED <<closed, at, oldHead>>

(* The lock is kept for the rest of a batch, or given back. *)
AddItem ==
  /\ phase \in {"free", "add"}
  /\ phase = "free" => ~closed
  /\ PutItem
  /\ phase' \in {"free", "add"}
  /\ phase' = "add" => HasRoom'
  /\ UNCHANGED <<closed, at, oldHead>>

-----------------------------------------------------------------------------
(* RemoveExpiredData: walk from the front, drop the expired prefix of each   *)
(* chunk, unlink the chunks this empties, stop at the first chunk whose      *)
(* earliest item has not expired.  Which items have expired is not decided   *)
(* here; ChunkedList does it with a clock.                                   *)

SweepBegin ==
  /\ phase = "free"
  /\ phase' = "scan"
  /\ at' = Front
  /\ oldHead' = head
  /\ UNCHANGED <<chunkVars, closed>>

(* ChunkNode.RemoveExpired: one expired item at the head. *)
ExpireItem ==
  /\ phase = "scan"
  /\ at # Nil
  /\ ~IsEmpty(at)
  /\ head' = [head EXCEPT ![at] = @ + 1]
  /\ UNCHANGED <<allocated, size, next, pooled, zeroed, linked, closed, sweepVars>>

(* Mutant: the chunk is not marked as it is put in the pool. *)
UnlinkUnmarked ==
  /\ phase = "scan"
  /\ at # Nil
  /\ IsEmpty(at)
  /\ linked' = linked \ {at}
  /\ at' = After(at)
  /\ UNCHANGED <<allocated, size, head, next, pooled, zeroed, closed, phase, oldHead>>

(* cl.list.Remove and PutChunkNode of a chunk left empty. *)
UnlinkEmpty ==
  /\ phase = "scan"
  /\ at # Nil
  /\ IsEmpty(at)
  /\ linked' = linked \ {at}
  /\ pooled' = [pooled EXCEPT ![at] = TRUE]
  /\ at' = After(at)
  /\ UNCHANGED <<allocated, size, head, next, zeroed, closed, phase, oldHead>>

(* The scan of at ended at an item not expired.  The stop test asks for its *)
(* age again: the sweep ends, or goes on if the TTL was reached meanwhile.  *)
LeaveChunk ==
  /\ phase = "scan"
  /\ at # Nil
  /\ ~IsEmpty(at)
  /\ \/ at' = Nil
     \/ ClockTicks /\ at' = After(at)
  /\ UNCHANGED <<chunkVars, closed, phase, oldHead>>

(* removalInfo: the chunks this sweep took items from, with both heads. *)
Swept(c)      == head[c] > oldHead[c]
SweptChunks   == {c \in ChunkId : Swept(c)}
SweptSlots    == UNION {{c} \X (oldHead[c] .. head[c] - 1) : c \in SweptChunks}

(* The consumers are notified, under the lock, when something was removed. *)
EndScan ==
  /\ phase = "scan"
  /\ at = Nil
  /\ phase' = IF SweptChunks = {} THEN "free" ELSE "notify"
  /\ oldHead' = IF SweptChunks = {} THEN [c \in ChunkId |-> 0] ELSE oldHead
  /\ UNCHANGED <<chunkVars, closed, at>>

EndNotify ==
  /\ phase = "notify"
  /\ phase' = "free"
  /\ oldHead' = [c \in ChunkId |-> 0]
  /\ UNCHANGED <<chunkVars, closed, at>>

-----------------------------------------------------------------------------
(* Queue.Close: closed is set first; the data is cleared at the end. *)

CloseFlag ==
  /\ ~closed
  /\ closed' = TRUE
  /\ UNCHANGED <<chunkVars, sweepVars>>

(* Clear overwrites the live items and unlinks every chunk.  It leaves size *)
(* and head as they were.                                                   *)
Clear ==
  /\ phase = "free"
  /\ closed
  /\ linked' = {}
  /\ zeroed' = zeroed \cup linked
  /\ pooled' = [c \in ChunkId |-> pooled[c] \/ c \in linked]
  /\ UNCHANGED <<allocated, size, head, next, closed, sweepVars>>

StoreNext ==
  \/ AddChunk \/ AddItem
  \/ SweepBegin \/ ExpireItem \/ UnlinkEmpty \/ LeaveChunk \/ EndScan \/ EndNotify
  \/ CloseFlag \/ Clear

StoreSpec == StoreInit /\ [][StoreNext]_storeVars

-----------------------------------------------------------------------------
(* Properties *)

(* Only the chunk at the back has room: every other listed chunk is full, so *)
(* that its size tells a reader to go on to the next (chunked_list.go:47).   *)
OnlyBackOpen == \A c \in linked \ {Back} : IsFull(c)

(* NextElement leads from every listed chunk to the one after it, if need be *)
(* through chunks that were removed in between, and from the last to nothing *)
(* listed (chunked_list.go:52; the push on an empty list at :41 links none). *)
NextLeadsOn ==
  \A c \in linked :
    IF c = Back
      THEN next[c] \notin linked
      ELSE \E path \in SUBSET (c .. After(c)) :
             /\ c \in path
             /\ \A d \in path \ {After(c)} : next[d] \in path /\ next[d] > d

(* A removed chunk holds nothing that Get returns, and is marked; a listed   *)
(* one is not marked, and between two writers it is not empty                *)
(* (chunked_list.go:176-183, and Get at data.go:123).                        *)
RemovedIsDrained ==
  /\ \A c \in 1 .. allocated : pooled[c] <=> c \notin linked
  /\ \A c \in 1 .. allocated : c \notin linked => IsEmpty(c) \/ c \in zeroed
  /\ phase = "free" => \A c \in linked : ~IsEmpty(c)
===============================================================================
