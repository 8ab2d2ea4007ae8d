-------------------------------- MODULE Cursor --------------------------------
(***************************************************************************)
(* Reading: Consumer.TryRead and ConsumerGroup.TryRead over the chunked    *)
(* storage, concurrent with enqueues, with the expiration sweep and its    *)
(* notification of every cursor, and with Close.                           *)
(*                                                                         *)
(* A cursor is what reads: an independent consumer or a consumer group.    *)
(* A thread is a goroutine inside TryRead.  Its steps are the critical     *)
(* sections and the atomic loads of the code, in the code's order: the     *)
(* position is copied under the cursor's mutex, the storage is looked at   *)
(* without it, and the move is committed only if the position is still the *)
(* one that was copied.                                                    *)
(***************************************************************************)
EXTENDS ChunkStore, Sequences

CONSTANTS
  Cursors,     \* independent consumers and consumer groups
  Groups,      \* those that are groups
  Threads,     \* goroutines calling TryRead
  CursorOf,    \* the cursor each of them reads
  MayClose,    \* bound: is the queue closed in the behaviours considered?
  NoticeCap,   \* capacity of notificationCh (100 in the code)
  NoCursor     \* no cursor is being notified

ASSUME CursorAssumption ==
  /\ Groups \subseteq Cursors
  /\ CursorOf \in [Threads -> Cursors]
  /\ NoticeCap \in Nat
  /\ MayClose \in BOOLEAN
  /\ NoCursor \notin Cursors

VARIABLES
  registered,  \* cursors that ConsumerManager knows
  cclosed,     \* consumers whose closed flag is set
  elem,        \* chunkElement of each cursor
  idx,         \* indexInChunk of each cursor
  notices,     \* contents of each notificationCh
  got,         \* history: the slots each cursor delivered
  phantoms,    \* history: cursors that delivered an overwritten item
  pc,          \* where each thread is
  cur,         \* currentElement
  cix,         \* currentIndex
  reg,         \* firstElement, head or nextElement: the value just loaded
  blank,       \* did Get copy an overwritten item?
  todo,        \* cursors a sweep has still to notify
  nc,          \* the cursor being notified
  due,         \* expiredCount computed for it
  seen,        \* the position it was computed from
  closing      \* how far Close has come

cursorVars == <<registered, cclosed, elem, idx>>
threadVars == <<pc, cur, cix, reg, blank>>
noteVars   == <<todo, nc, due, seen>>
vars == <<storeVars, cursorVars, notices, got, phantoms, threadVars, noteVars, closing>>

Steps == {"idle", "init", "front", "store", "loop", "pooled", "reset", "size",
          "get", "commit", "skip", "jump", "next", "advance"}

Init ==
  /\ StoreInit
  /\ registered = {}
  /\ cclosed = {}
  /\ elem = [c \in Cursors |-> Nil]
  /\ idx = [c \in Cursors |-> 0]
  /\ notices = [c \in Cursors |-> <<>>]
  /\ got = [c \in Cursors |-> <<>>]
  /\ phantoms = {}
  /\ pc = [t \in Threads |-> "idle"]
  /\ cur = [t \in Threads |-> Nil]
  /\ cix = [t \in Threads |-> 0]
  /\ reg = [t \in Threads |-> 0]
  /\ blank = [t \in Threads |-> FALSE]
  /\ todo = {}
  /\ nc = NoCursor
  /\ due = 0
  /\ seen = <<Nil, 0>>
  /\ closing = "open"

-----------------------------------------------------------------------------
(* TryRead, one thread *)

Goto(t, s) == pc' = [pc EXCEPT ![t] = s]

(* To s with no local in use. *)
Forget(t, s) ==
  /\ Goto(t, s)
  /\ cur' = [cur EXCEPT ![t] = Nil]
  /\ cix' = [cix EXCEPT ![t] = 0]
  /\ reg' = [reg EXCEPT ![t] = 0]
  /\ blank' = [blank EXCEPT ![t] = FALSE]

Return(t) == Forget(t, "idle")

(* continue: the next round of the loop copies the position afresh. *)
Again(t) == Forget(t, "loop")

MoveTo(c, e, i) ==
  /\ elem' = [elem EXCEPT ![c] = e]
  /\ idx' = [idx EXCEPT ![c] = i]

Stay == UNCHANGED <<elem, idx>>

(* The position has not moved since this thread copied it. *)
Unmoved(t) == elem[CursorOf[t]] = cur[t] /\ idx[CursorOf[t]] = cix[t]

rest == <<storeVars, registered, cclosed, notices, noteVars, closing>>

IsClosed(c) == c \in cclosed \/ (c \in Groups /\ closed)

Call(t) ==
  /\ pc[t] = "idle"
  /\ CursorOf[t] \in registered
  /\ ~IsClosed(CursorOf[t])
  /\ Goto(t, "init")
  /\ UNCHANGED <<rest, elem, idx, got, phantoms, cur, cix, reg, blank>>

NeedsInit(t) ==
  /\ pc[t] = "init"
  /\ Goto(t, IF elem[CursorOf[t]] = Nil THEN "front" ELSE "loop")
  /\ UNCHANGED <<rest, elem, idx, got, phantoms, cur, cix, reg, blank>>

LoadFront(t) ==
  /\ pc[t] = "front"
  /\ phase = "free"
  /\ IF linked = {}
       THEN Return(t)
       ELSE /\ Goto(t, "store")
            /\ reg' = [reg EXCEPT ![t] = Front]
            /\ UNCHANGED <<cur, cix, blank>>
  /\ UNCHANGED <<rest, elem, idx, got, phantoms>>

(* Mutant: the group does not look again either. *)
NeverPlaced(c) == FALSE

(* Only the group looks again before it stores. *)
AlreadyPlaced(c) == c \in Groups /\ elem[c] # Nil

StoreFront(t) ==
  LET c == CursorOf[t] IN
  /\ pc[t] = "store"
  /\ IF AlreadyPlaced(c) THEN Stay ELSE MoveTo(c, reg[t], 0)
  /\ Again(t)
  /\ UNCHANGED <<rest, got, phantoms>>

CopyPosition(t) ==
  LET c == CursorOf[t] IN
  /\ pc[t] = "loop"
  /\ IF elem[c] = Nil
       THEN Return(t)
       ELSE /\ Goto(t, "pooled")
            /\ cur' = [cur EXCEPT ![t] = elem[c]]
            /\ cix' = [cix EXCEPT ![t] = idx[c]]
            /\ UNCHANGED <<reg, blank>>
  /\ UNCHANGED <<rest, elem, idx, got, phantoms>>

LoadPooled(t) ==
  /\ pc[t] = "pooled"
  /\ Goto(t, IF pooled[cur[t]] THEN "reset" ELSE "size")
  /\ UNCHANGED <<rest, elem, idx, got, phantoms, cur, cix, reg, blank>>

(* The chunk was removed: forget the position, report no data. *)
ResetPosition(t) ==
  LET c == CursorOf[t] IN
  /\ pc[t] = "reset"
  /\ IF elem[c] = cur[t] THEN MoveTo(c, Nil, 0) ELSE Stay
  /\ Return(t)
  /\ UNCHANGED <<rest, got, phantoms>>

LoadSize(t) ==
  /\ pc[t] = "size"
  /\ Goto(t, IF cix[t] < size[cur[t]] THEN "get" ELSE "next")
  /\ UNCHANGED <<rest, elem, idx, got, phantoms, cur, cix, reg, blank>>

(* Data[i] was overwritten, by a sweep or by Clear. *)
Wiped(c, i) == i < head[c] \/ c \in zeroed

(* Mutant: Get does not look at the head. *)
GetAnywhere(t) ==
  /\ pc[t] = "get"
  /\ phase = "free"
  /\ Goto(t, "commit")
  /\ blank' = [blank EXCEPT ![t] = Wiped(cur[t], cix[t])]
  /\ UNCHANGED <<rest, elem, idx, got, phantoms, cur, cix, reg>>

(* ChunkNode.Get and the copy, under q.mutex.RLock. *)
Get(t) ==
  /\ pc[t] = "get"
  /\ phase = "free"
  /\ IF head[cur[t]] <= cix[t] /\ cix[t] < size[cur[t]]
       THEN /\ Goto(t, "commit")
            /\ blank' = [blank EXCEPT ![t] = Wiped(cur[t], cix[t])]
       ELSE /\ Goto(t, "skip")
            /\ UNCHANGED blank
  /\ UNCHANGED <<rest, elem, idx, got, phantoms, cur, cix, reg>>

Commit(t) ==
  LET c == CursorOf[t] IN
  /\ pc[t] = "commit"
  /\ IF Unmoved(t)
       THEN /\ MoveTo(c, elem[c], idx[c] + 1)
            /\ got' = [got EXCEPT ![c] = Append(@, <<cur[t], cix[t]>>)]
            /\ phantoms' = IF blank[t] THEN phantoms \cup {c} ELSE phantoms
            /\ Return(t)
       ELSE /\ Stay
            /\ Again(t)
            /\ UNCHANGED <<got, phantoms>>
  /\ UNCHANGED rest

LoadHead(t) ==
  /\ pc[t] = "skip"
  /\ IF cix[t] < head[cur[t]]
       THEN /\ Goto(t, "jump")
            /\ reg' = [reg EXCEPT ![t] = head[cur[t]]]
            /\ UNCHANGED <<cur, cix, blank>>
       ELSE Return(t)
  /\ UNCHANGED <<rest, elem, idx, got, phantoms>>

(* Mutant: a second thread jumps from where the first has moved to. *)
JumpUnchecked(t) ==
  LET c == CursorOf[t] IN
  /\ pc[t] = "jump"
  /\ MoveTo(c, elem[c], IF c \in Groups THEN idx[c] + 1 ELSE reg[t])
  /\ Again(t)
  /\ UNCHANGED <<rest, got, phantoms>>

(* A consumer jumps to the head it loaded, a group moves by one. *)
Jump(t) ==
  LET c == CursorOf[t] IN
  /\ pc[t] = "jump"
  /\ IF Unmoved(t)
       THEN MoveTo(c, elem[c], IF c \in Groups THEN idx[c] + 1 ELSE reg[t])
       ELSE Stay
  /\ Again(t)
  /\ UNCHANGED <<rest, got, phantoms>>

LoadNext(t) ==
  /\ pc[t] = "next"
  /\ Goto(t, "advance")
  /\ reg' = [reg EXCEPT ![t] = next[cur[t]]]
  /\ UNCHANGED <<rest, elem, idx, got, phantoms, cur, cix, blank>>

(* Mutant: at the last chunk the loop goes on. *)
AdvanceForEver(t) ==
  /\ pc[t] = "advance"
  /\ IF Unmoved(t) /\ reg[t] # Nil THEN MoveTo(CursorOf[t], reg[t], 0) ELSE Stay
  /\ Again(t)
  /\ UNCHANGED <<rest, got, phantoms>>

(* The move to the next chunk; there may be none. *)
Advance(t) ==
  /\ pc[t] = "advance"
  /\ IF Unmoved(t) /\ reg[t] # Nil THEN MoveTo(CursorOf[t], reg[t], 0) ELSE Stay
  /\ IF reg[t] = Nil THEN Return(t) ELSE Again(t)
  /\ UNCHANGED <<rest, got, phantoms>>

TryReadStep(t) ==
  \/ NeedsInit(t) \/ LoadFront(t) \/ StoreFront(t) \/ CopyPosition(t)
  \/ LoadPooled(t) \/ ResetPosition(t) \/ LoadSize(t) \/ Get(t) \/ Commit(t)
  \/ LoadHead(t) \/ Jump(t) \/ LoadNext(t) \/ Advance(t)

-----------------------------------------------------------------------------
(* ConsumerManager: registration and the notification of a sweep *)

(* AddConsumer under q.mutex.RLock: a consumer starts at the front of the  *)
(* list.  AddGroup takes cm.mutex only: a group starts without a position. *)
Register(c) ==
  /\ c \notin registered
  /\ IF c \in Groups THEN phase # "notify" ELSE phase = "free"
  /\ registered' = registered \cup {c}
  /\ MoveTo(c, IF c \in Groups THEN Nil ELSE Front, 0)
  /\ UNCHANGED <<storeVars, cclosed, notices, got, phantoms, threadVars, noteVars, closing>>

ExpiredIn(S)  == {s \in SweptSlots : s[1] \in S}

(* Mutant: a position past the new head is not tested for. *)
ExpiredCountNegative(e, i) ==
  IF e = Nil THEN Cardinality(SweptSlots)
  ELSE IF e \notin SweptChunks THEN 0
  ELSE Cardinality(ExpiredIn({d \in SweptChunks : d > e}))
       + (IF i <= oldHead[e] THEN head[e] - oldHead[e] ELSE head[e] - i)

(* Mutant: items read before the sweep are counted with the rest. *)
ExpiredCountWhole(e, i) ==
  IF e = Nil THEN Cardinality(SweptSlots)
  ELSE IF e \notin SweptChunks THEN 0
  ELSE Cardinality(ExpiredIn({d \in SweptChunks : d > e}))
       + (IF i >= head[e] THEN 0 ELSE head[e] - oldHead[e])

(* calculateExpiredCount: how many of the items this sweep removed lie at or *)
(* after position <<e, i>>.                                                  *)
ExpiredCount(e, i) ==
  IF e = Nil THEN Cardinality(SweptSlots)
  ELSE IF e \notin SweptChunks THEN 0
  ELSE Cardinality(ExpiredIn({d \in SweptChunks : d > e}))
       + (IF i >= head[e] THEN 0
          ELSE IF i <= oldHead[e] THEN head[e] - oldHead[e]
          ELSE head[e] - i)

(* NotifyAllConsumersOfExpiration: the consumers, then the groups. *)
BeginNotify ==
  /\ EndScan
  /\ todo' = IF phase' = "notify" THEN registered ELSE {}
  /\ UNCHANGED <<cursorVars, notices, got, phantoms, threadVars, nc, due, seen, closing>>

NotifyRead(c) ==
  /\ phase = "notify"
  /\ nc = NoCursor
  /\ c \in todo
  /\ c \in Groups => todo \subseteq Groups
  /\ nc' = c
  /\ seen' = <<elem[c], idx[c]>>
  /\ due' = ExpiredCount(elem[c], idx[c])
  /\ UNCHANGED <<storeVars, cursorVars, notices, got, phantoms, threadVars, todo, closing>>

(* NotifyExpiredItems: a send that never blocks; a full channel drops it. *)
NotifySend(c) ==
  /\ nc = c
  /\ due > 0
  /\ notices' = IF c \notin cclosed /\ Len(notices[c]) < NoticeCap
                  THEN [notices EXCEPT ![c] = Append(@, due)]
                  ELSE notices
  /\ due' = 0
  /\ UNCHANGED <<storeVars, cursorVars, got, phantoms, threadVars, todo, nc, seen, closing>>

(* Mutant: the index is set to the new head, also from beyond it. *)
IndexAtHead(e, i) == IF e \in SweptChunks THEN head[e] ELSE i

(* Mutant: or one past it, and over an item still there. *)
IndexPastHead(e, i) == IF e \in SweptChunks /\ i < head[e] THEN head[e] + 1 ELSE i

IndexAfterSweep(e, i) == IF e \in SweptChunks /\ i < head[e] THEN head[e] ELSE i

(* UpdatePositionAfterExpiration *)
NotifyUpdate(c) ==
  LET e == elem[c] IN
  /\ nc = c
  /\ due = 0
  /\ IF e = Nil THEN Stay
     ELSE IF Front = Nil THEN MoveTo(c, Nil, 0)
     ELSE IF pooled[e] THEN MoveTo(c, Front, 0)
     ELSE MoveTo(c, e, IndexAfterSweep(e, idx[c]))
  /\ nc' = NoCursor
  /\ todo' = todo \ {c}
  /\ seen' = <<Nil, 0>>
  /\ UNCHANGED <<storeVars, registered, cclosed, notices, got, phantoms, threadVars, due, closing>>

FinishNotify ==
  /\ todo = {}
  /\ EndNotify
  /\ UNCHANGED <<cursorVars, notices, got, phantoms, threadVars, noteVars, closing>>

-----------------------------------------------------------------------------
(* Queue.Close *)

BeginClose ==
  /\ MayClose
  /\ closing = "open"
  /\ CloseFlag
  /\ closing' = "flagged"
  /\ UNCHANGED <<cursorVars, notices, got, phantoms, threadVars, noteVars>>

(* Every consumer in the snapshot is closed; groups are not. *)
CloseConsumers ==
  /\ closing = "flagged"
  /\ cclosed' = registered \ Groups
  /\ closing' = "consumers"
  /\ UNCHANGED <<storeVars, registered, elem, idx, notices, got, phantoms, threadVars, noteVars>>

ClearData ==
  /\ closing = "consumers"
  /\ Clear
  /\ closing' = "cleared"
  /\ UNCHANGED <<cursorVars, notices, got, phantoms, threadVars, noteVars>>

-----------------------------------------------------------------------------

Enqueue ==
  /\ AddChunk \/ AddItem
  /\ UNCHANGED <<cursorVars, notices, got, phantoms, threadVars, noteVars, closing>>

Sweep ==
  /\ SweepBegin \/ ExpireItem \/ UnlinkEmpty \/ LeaveChunk
  /\ UNCHANGED <<cursorVars, notices, got, phantoms, threadVars, noteVars, closing>>

Notify == \E c \in Cursors : NotifyRead(c) \/ NotifySend(c) \/ NotifyUpdate(c)

Close == BeginClose \/ CloseConsumers \/ ClearData

Next ==
  \/ \E t \in Threads : Call(t) \/ TryReadStep(t)
  \/ \E c \in Cursors : Register(c)
  \/ Enqueue \/ Sweep \/ BeginNotify \/ Notify \/ FinishNotify \/ Close

Spec == Init /\ [][Next]_vars

(* The Go scheduler runs every goroutine that can run.  A reader that waits  *)
(* for q.mutex gets it, however often sweeps take it: sync.RWMutex lets the  *)
(* waiting readers in when a writer unlocks.  Whoever holds q.mutex goes on. *)
Fairness ==
  /\ \A t \in Threads : SF_vars(TryReadStep(t))
  /\ WF_vars(phase = "add" /\ Enqueue)
  /\ WF_vars(phase = "scan" /\ (Sweep \/ BeginNotify))
  /\ WF_vars(Notify \/ FinishNotify)

FairSpec == Spec /\ Fairness

(* An application whose readers call again after every return. *)
PollingSpec == FairSpec /\ \A t \in Threads : WF_vars(Call(t))

-----------------------------------------------------------------------------
(* Properties *)

TypeOK ==
  /\ StoreTypeOK
  /\ registered \subseteq Cursors
  /\ cclosed \subseteq Cursors
  /\ elem \in [Cursors -> ChunkId \cup {Nil}]
  /\ idx \in [Cursors -> Nat]
  /\ notices \in [Cursors -> Seq(Nat)]
  /\ got \in [Cursors -> Seq(ChunkId \X Nat)]
  /\ phantoms \subseteq Cursors
  /\ pc \in [Threads -> Steps]
  /\ cur \in [Threads -> ChunkId \cup {Nil}]
  /\ cix \in [Threads -> Nat]
  /\ reg \in [Threads -> Nat]
  /\ blank \in [Threads -> BOOLEAN]
  /\ todo \subseteq Cursors
  /\ nc \in Cursors \cup {NoCursor}
  /\ due \in Nat
  /\ seen \in (ChunkId \cup {Nil}) \X Nat
  /\ closing \in {"open", "flagged", "consumers", "cleared"}

Precedes(r, s) == r[1] < s[1] \/ (r[1] = s[1] /\ r[2] < s[2])

(* Slot s lies before the position of cursor c. *)
Behind(c, s) == elem[c] # Nil /\ Precedes(s, <<elem[c], idx[c]>>)

Delivered(c) == {got[c][i] : i \in DOMAIN got[c]}

(* Items come out of a cursor in the order they were put in, and none comes  *)
(* out twice: each commit of TryRead (consumer.go:187, consumer_group.go:136) *)
(* delivers a slot after all that the cursor delivered before.               *)
DeliveredInOrder ==
  \A c \in Cursors : \A i, j \in DOMAIN got[c] :
    i < j => Precedes(got[c][i], got[c][j])

(* Where the next TryRead of cursor c begins: at its position, or without    *)
(* one at the front of the list, there or to come (consumer.go:134-150).     *)
Start(c) ==
  IF elem[c] # Nil THEN <<elem[c], idx[c]>>
  ELSE IF linked = {} THEN <<allocated + 1, 0>>
  ELSE <<Front, 0>>

(* What cursor c delivered and has before it again. *)
Reopened(c) == {s \in Delivered(c) : ~Precedes(s, Start(c))}

(* A cursor goes back over what it delivered in two ways only: TryRead       *)
(* stores a front loaded before the cursor had a position, or removed since  *)
(* (consumer.go:146, consumer_group.go:93), or the cursor stands in a chunk  *)
(* removed from behind the front and falls back to the front                 *)
(* (consumer.go:165, :534; consumer_group.go:114).                           *)
OnlyTheseReopen ==
  [][\A c \in Cursors : \A s \in Reopened(c)' \ Reopened(c) :
       \/ \E t \in Threads : /\ CursorOf[t] = c /\ StoreFront(t)
                             /\ elem[c] # Nil \/ reg[t] \notin linked
       \/ elem[c] \notin linked \cup {Nil} /\ Front # Nil /\ Front < elem[c]]_vars

(* The queue is a log: its items are appended, expire from the front and are *)
(* delivered to each cursor in order, whatever the steps of TryRead, of the  *)
(* sweep, of its notification and of Close come to between them              *)
(* (consumer.go:187, chunked_list.go:143, :206; "each consumer reads ... at  *)
(* their own pace", README.md:17).                                           *)
Shared == INSTANCE Log WITH
  Entries   <- Slot,
  Order     <- {p \in Slot \X Slot : Precedes(p[1], p[2])},
  Readers   <- Cursors,
  appended  <- {s \in Slot : s[2] < size[s[1]]},
  kept      <- LiveSlots,
  delivered <- got

ImplementsLog == Shared!LogSpec

(* Moving over expired items never moves over an item that is still there:   *)
(* in the chunk a cursor stands in, every live item before its position was  *)
(* delivered (the head jumps of consumer.go:201 and consumer_group.go:147,   *)
(* and UpdatePositionAfterExpiration at consumer.go:527).                    *)
NoSkipInChunk ==
  \A c \in registered : \A s \in LiveSlots :
    s[1] = elem[c] /\ Behind(c, s) => s \in Delivered(c)

(* What TryRead returns is what was enqueued: no item that a sweep or Clear  *)
(* has overwritten is delivered, by Get's look at the head under q.mutex     *)
(* (data.go:123) and the commit after it.  Only the overwriting of Clear, at *)
(* the end of Close (chunked_list.go:215), is not seen by Get.               *)
DeliversWhatWasEnqueued == closing # "cleared" => phantoms = {}

(* "Each consumer reads all data at their own pace" (README.md:17): no item  *)
(* that is still in the list is behind a consumer that did not deliver it.   *)
(* The size loaded at consumer.go:175 is old when NextElement is loaded at   *)
(* consumer.go:213.                                                          *)
ReadsAllData ==
  \A c \in registered : \A s \in LiveSlots : Behind(c, s) => s \in Delivered(c)

(* The items still there that cursor c has gone past without delivering.     *)
Missed(c) == {s \in LiveSlots : Behind(c, s) /\ s \notin Delivered(c)}

(* How that comes about: a live item is gone past undelivered only by a move *)
(* to the next chunk (consumer.go:218, consumer_group.go:165), and it is one *)
(* put in the chunk the thread leaves, at or after the index at which it     *)
(* found that chunk read to its end (consumer.go:175, consumer_group.go:122). *)
OnlyLateItemsMissed ==
  [][\A c \in Cursors : \A s \in Missed(c)' \ Missed(c) :
       \E t \in Threads :
         CursorOf[t] = c /\ Advance(t) /\ s[1] = cur[t] /\ s[2] >= cix[t]]_vars

(* The count put in a notification is the number of items the sweep removed  *)
(* at or after the position it was computed from, for a cursor without a     *)
(* position or in a chunk that was listed when the sweep began               *)
(* (calculateExpiredCount, consumer.go:882).                                 *)
CountIsUnread ==
  [][\A c \in Cursors :
       NotifyRead(c) /\ elem[c] \in linked \cup SweptChunks \cup {Nil}
         => due' = Cardinality({s \in SweptSlots : ~Behind(c, s)})]_vars

(* Every TryRead returns, whatever enqueues, sweeps and Close do: its loop   *)
(* (consumer.go:153) takes another round only because the position moved,    *)
(* and that it does no more often than there are items and chunks.           *)
TryReadReturns == \A t \in Threads : pc[t] # "idle" ~> pc[t] = "idle"

(* A cursor that is read keeps up: an item does not stay ahead of it for     *)
(* ever (NextElement, consumer.go:213, and the position set again after a sweep, *)
(* consumer.go:534, lead to every chunk still listed).                       *)
KeepsUp ==
  \A t \in Threads : \A s \in Slot :
    s \in LiveSlots /\ CursorOf[t] \in registered
      ~> \/ s \notin LiveSlots
         \/ s \in Delivered(CursorOf[t])
         \/ Behind(CursorOf[t], s)
         \/ closed
===============================================================================
