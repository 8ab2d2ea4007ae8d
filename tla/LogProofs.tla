------------------------------- MODULE LogProofs -------------------------------
(***************************************************************************)
(* Order of delivery, however many goroutines read a consumer or a group   *)
(* and whatever the clock does: how a cursor can come to stand before what *)
(* it has delivered, and that but for the commits of such a cursor and for *)
(* sweeps behind the front the queue is a log: every step of Cursor is,    *)
(* seen through the refinement mapping of Cursor, an append, an expiration *)
(* from the front, a delivery in order, or no step.                        *)
(***************************************************************************)
EXTENDS ReaderProofs

Appended == {s \in Slot : s[2] < size[s[1]]}

-----------------------------------------------------------------------------
(* The invariant *)

(* Only cursors that are known are read, and only those have delivered; what *)
(* they delivered are slots; who is about to forget a position has seen its  *)
(* chunk marked.                                                             *)
HistoryInv ==
  /\ \A t \in Threads : pc[t] # "idle" => CursorOf[t] \in registered
  /\ \A c \in Cursors : c \notin registered => got[c] = <<>>
  /\ \A c \in Cursors : \A i \in DOMAIN got[c] : got[c][i] \in Slot
  /\ \A t \in Threads : pc[t] = "reset" => pooled[cur[t]]
  /\ \A t \in Threads : pc[t] = "jump" => cix[t] < reg[t]

(* Only a commit delivers (consumer.go:187, consumer_group.go:136). *)
LEMMA GotMoves ==
  ASSUME [Next]_vars
  PROVE  \/ UNCHANGED got
         \/ \E t \in Threads :
              /\ pc[t] = "commit"
              /\ UNCHANGED storeVars
              /\ got' = [got EXCEPT ![CursorOf[t]] = Append(@, <<cur[t], cix[t]>>)]
              /\ elem[CursorOf[t]] = cur[t] /\ idx[CursorOf[t]] = cix[t]
              /\ Commit(t)
<1>1. ASSUME NEW t \in Threads, Call(t) \/ TryReadStep(t), ~Commit(t)  PROVE UNCHANGED got
  BY <1>1 DEF Call, TryReadStep, NeedsInit, LoadFront, StoreFront, CopyPosition, LoadPooled,
     ResetPosition, LoadSize, Get, LoadHead, Jump, LoadNext, Advance
<1>2. ASSUME NEW t \in Threads, Commit(t), ~UNCHANGED got
      PROVE  /\ pc[t] = "commit" /\ UNCHANGED storeVars /\ Unmoved(t)
             /\ got' = [got EXCEPT ![CursorOf[t]] = Append(@, <<cur[t], cix[t]>>)]
  BY <1>2 DEF Commit, rest
<1>3. ASSUME NEW c \in Cursors, Register(c)  PROVE UNCHANGED got
  BY <1>3 DEF Register
<1>4. CASE Enqueue \/ Sweep \/ BeginNotify \/ Notify \/ FinishNotify \/ Close \/ UNCHANGED vars
  BY <1>4 DEF Enqueue, Sweep, BeginNotify, Notify, NotifyRead, NotifySend, NotifyUpdate,
     FinishNotify, Close, BeginClose, CloseConsumers, ClearData, vars
<1> QED
  BY <1>1, <1>2, <1>3, <1>4 DEF Next, Unmoved

(* What a thread at its commit is about to deliver is an item that was put   *)
(* in (consumer.go:178, consumer_group.go:126).                              *)
LEMMA CommitsSlot ==
  ASSUME SharedInv, NEW t \in Threads, pc[t] = "commit"
  PROVE  <<cur[t], cix[t]>> \in Appended /\ cur[t] \in ChunkId
<1>1. /\ cur[t] \in ChunkId /\ cix[t] \in Nat /\ size[cur[t]] \in 0 .. ChunkSize
      /\ cix[t] < size[cur[t]]
  <2>1. cur[t] \in ChunkId /\ cix[t] \in Nat /\ cix[t] < size[cur[t]]
    BY DEF SharedInv, Holds, Copied, TypeOK
  <2> QED
    BY <2>1 DEF SharedInv, StoreInv, StoreTypeOK
<1>2. cix[t] \in 0 .. ChunkSize - 1
  BY <1>1, StoreAssumption
<1> QED
  BY <1>1, <1>2 DEF Appended, Slot

(* A new queue has delivered nothing (queue.go:87). *)
LEMMA HistoryInvInit == Init => HistoryInv
  BY DEF Init, HistoryInv

(* Threads are at work on known cursors, and only LoadPooled leads to the    *)
(* reset (consumer.go:115, :165; consumer_group.go:114).                     *)
LEMMA ThreadsKnown ==
  ASSUME SharedInv, HistoryInv, [Next]_vars
  PROVE  /\ registered \subseteq registered'
         /\ \A t \in Threads : pc'[t] # "idle" => CursorOf[t] \in registered
         /\ \A t \in Threads : pc'[t] = "reset" => pooled'[cur'[t]]
         /\ \A t \in Threads : pc'[t] = "jump" => cix'[t] < reg'[t]
<1>1. ASSUME NEW u \in Threads, Call(u) \/ TryReadStep(u)
      PROVE  /\ registered' = registered
             /\ \A t \in Threads : pc'[t] # "idle" => CursorOf[t] \in registered
             /\ \A t \in Threads : pc'[t] = "reset" => pooled'[cur'[t]]
             /\ \A t \in Threads : pc'[t] = "jump" => cix'[t] < reg'[t]
  <2>1. UNCHANGED <<storeVars, registered>>
    BY <1>1 DEF Call, TryReadStep, NeedsInit, LoadFront, StoreFront, CopyPosition, LoadPooled,
       ResetPosition, LoadSize, Get, Commit, LoadHead, Jump, LoadNext, Advance, rest
  <2>2. \A t \in Threads \ {u} : /\ pc'[t] = pc[t] /\ cur'[t] = cur[t]
                                  /\ cix'[t] = cix[t] /\ reg'[t] = reg[t]
    BY <1>1 DEF Call, TryReadStep, NeedsInit, LoadFront, StoreFront, CopyPosition, LoadPooled,
       ResetPosition, LoadSize, Get, Commit, LoadHead, Jump, LoadNext, Advance,
       Goto, Forget, Return, Again, SharedInv, TypeOK
  <2>3. CursorOf[u] \in registered
    BY <1>1 DEF Call, TryReadStep, NeedsInit, LoadFront, StoreFront, CopyPosition, LoadPooled,
       ResetPosition, LoadSize, Get, Commit, LoadHead, Jump, LoadNext, Advance, HistoryInv
  <2>4. pc'[u] = "reset" => pooled[cur[u]] /\ cur'[u] = cur[u]
    <3>1. CASE LoadPooled(u)
      BY <3>1 DEF LoadPooled, Goto, SharedInv, TypeOK
    <3>2. CASE ~LoadPooled(u)
      BY <1>1, <3>2 DEF Call, TryReadStep, NeedsInit, LoadFront, StoreFront, CopyPosition,
         ResetPosition, LoadSize, Get, Commit, LoadHead, Jump, LoadNext, Advance,
         Goto, Forget, Return, Again, SharedInv, TypeOK
    <3> QED
      BY <3>1, <3>2
  <2>5. pc'[u] = "jump" => cix'[u] < reg'[u]
    <3>1. CASE LoadHead(u)
      BY <3>1 DEF LoadHead, Goto, Return, Forget, SharedInv, TypeOK
    <3>2. CASE ~LoadHead(u)
      BY <1>1, <3>2 DEF Call, TryReadStep, NeedsInit, LoadFront, StoreFront, CopyPosition,
         LoadPooled, ResetPosition, LoadSize, Get, Commit, Jump, LoadNext, Advance,
         Goto, Forget, Return, Again, SharedInv, TypeOK
    <3> QED
      BY <3>1, <3>2
  <2>6. pooled' = pooled
    BY <2>1 DEF storeVars, chunkVars
  <2> QED
    BY <2>1, <2>2, <2>3, <2>4, <2>5, <2>6 DEF HistoryInv
<1>2. ASSUME \/ \E c \in Cursors : Register(c)
             \/ Enqueue \/ Sweep \/ BeginNotify \/ Notify \/ FinishNotify \/ Close
             \/ UNCHANGED vars
      PROVE  /\ registered \subseteq registered'
             /\ \A t \in Threads : pc'[t] # "idle" => CursorOf[t] \in registered
             /\ \A t \in Threads : pc'[t] = "reset" => pooled'[cur'[t]]
             /\ \A t \in Threads : pc'[t] = "jump" => cix'[t] < reg'[t]
  <2>1. UNCHANGED threadVars
    BY <1>2, OtherNotes
  <2>2. registered \subseteq registered'
    BY <1>2 DEF Register, Enqueue, Sweep, BeginNotify, Notify, NotifyRead, NotifySend,
       NotifyUpdate, FinishNotify, Close, BeginClose, CloseConsumers, ClearData, vars, cursorVars
  <2>3. \A t \in Threads : pc[t] = "reset" => cur[t] \in ChunkId
    BY DEF SharedInv, Holds, Copied
  <2>4. \A c \in ChunkId : pooled[c] => pooled'[c]
    BY StepsTheStore, StoreMoves DEF SharedInv
  <2> QED
    BY <2>1, <2>2, <2>3, <2>4 DEF HistoryInv, threadVars
<1> QED
  BY <1>1, <1>2 DEF Next

(* So every step keeps the invariant. *)
LEMMA HistoryInvStep ==
  ASSUME SharedInv, HistoryInv, [Next]_vars
  PROVE  HistoryInv'
<1>1. /\ registered \subseteq registered'
      /\ \A t \in Threads : pc'[t] # "idle" => CursorOf[t] \in registered'
      /\ \A t \in Threads : pc'[t] = "reset" => pooled'[cur'[t]]
      /\ \A t \in Threads : pc'[t] = "jump" => cix'[t] < reg'[t]
  BY ThreadsKnown
<1>2. CASE UNCHANGED got
  BY <1>1, <1>2 DEF HistoryInv
<1>3. CASE ~UNCHANGED got
  <2>1. PICK t \in Threads :
          /\ pc[t] = "commit"
          /\ got' = [got EXCEPT ![CursorOf[t]] = Append(@, <<cur[t], cix[t]>>)]
    BY <1>3, GotMoves
  <2>2. <<cur[t], cix[t]>> \in Slot /\ CursorOf[t] \in registered
    BY <2>1, CommitsSlot DEF Appended, HistoryInv
  <2>3. got \in [Cursors -> Seq(ChunkId \X Nat)] /\ CursorOf[t] \in Cursors
    BY CursorAssumption DEF SharedInv, TypeOK
  <2>4. ASSUME NEW c \in Cursors, NEW i \in DOMAIN got'[c]  PROVE got'[c][i] \in Slot
    <3>1. /\ <<cur[t], cix[t]>> \in ChunkId \X Nat /\ Len(got[c]) \in Nat
          /\ DOMAIN got[c] = 1 .. Len(got[c])
      BY <2>2, <2>3, StoreAssumption DEF Slot
    <3>2. CASE c = CursorOf[t]
      <4>1. got'[c] = Append(got[c], <<cur[t], cix[t]>>)
        BY <2>1, <2>3, <3>2
      <4>2. \/ i \in DOMAIN got[c] /\ got'[c][i] = got[c][i]
            \/ got'[c][i] = <<cur[t], cix[t]>>
        BY <2>3, <2>4, <3>1, <4>1
      <4> QED
        BY <2>2, <4>2 DEF HistoryInv
    <3>3. CASE c # CursorOf[t]
      BY <2>1, <2>3, <2>4, <3>3 DEF HistoryInv
    <3> QED
      BY <3>2, <3>3
  <2>5. ASSUME NEW c \in Cursors, c \notin registered'  PROVE got'[c] = <<>>
    <3>1. c \notin registered /\ c # CursorOf[t]
      BY <1>1, <2>2, <2>5
    <3> QED
      BY <2>1, <2>3, <3>1 DEF HistoryInv
  <2> QED
    BY <1>1, <2>4, <2>5 DEF HistoryInv
<1> QED
  BY <1>2, <1>3

(* In every behaviour. *)
LEMMA HistoryInvariant == Spec => []HistoryInv
<1>1. SharedInv /\ HistoryInv /\ [Next]_vars => HistoryInv'
  BY HistoryInvStep
<1> QED
  BY <1>1, HistoryInvInit, SharedInvariant, PTL DEF Spec

-----------------------------------------------------------------------------
(* How a cursor comes to stand before what it has delivered *)

(* Where a cursor without a position begins. *)
Begin == IF linked = {} THEN allocated + 1 ELSE Front

(* What that means in numbers. *)
BeginMeans ==
  /\ allocated \in Nat /\ Begin \in Nat /\ Begin <= allocated + 1
  /\ linked # {} => Begin = Front /\ Begin \in linked /\ Front # Nil
  /\ linked = {} => Begin = allocated + 1 /\ Front = Nil
  /\ \A d \in linked : d \in Nat \ {0} /\ Begin <= d /\ d <= allocated

(* The front is the first of the list, or is one to come (chunked_list.go:116). *)
LEMMA BeginIs == StoreTypeOK => BeginMeans
<1> SUFFICES ASSUME StoreTypeOK  PROVE BeginMeans
  OBVIOUS
<1>1. allocated \in Nat /\ linked \subseteq 1 .. allocated
  BY Chunks
<1>2. CASE linked = {}
  BY <1>1, <1>2 DEF BeginMeans, Begin, Front, First
<1>3. CASE linked # {}
  <2>1. Front \in linked /\ \A d \in linked : Front <= d
    BY <1>3, FrontIs
  <2> QED
    BY <1>1, <1>3, <2>1 DEF BeginMeans, Begin, Nil
<1> QED
  BY <1>2, <1>3

(* And after a step. *)
LEMMA BeginIsNext == StoreTypeOK' => BeginMeans'
  BY BeginIs, PTL

(* The list begins no earlier after a step of the storage: chunks are linked *)
(* at its back only (chunked_list.go:47).                                    *)
LEMMA BeginGrows ==
  ASSUME StoreInv, StoreInv', [StoreNext]_storeVars
  PROVE  Begin \in Nat /\ Begin' \in Nat /\ Begin <= Begin'
<1>1. BeginMeans /\ BeginMeans'
  BY BeginIs, BeginIsNext DEF StoreInv
<1>2. \A c \in 1 .. allocated : c \in linked' => c \in linked
  BY StoreMoves
<1>3. /\ allocated <= allocated'
      /\ allocated \in Nat /\ allocated' \in Nat
      /\ Begin \in Nat /\ Begin' \in Nat /\ Begin <= allocated + 1
      /\ \A d \in linked : Begin <= d
  BY <1>1, StoreMoves DEF BeginMeans
<1>4. CASE linked' = {}
  <2>1. Begin' = allocated' + 1
    BY <1>1, <1>4 DEF BeginMeans
  <2>2. \A m, n, b \in Nat : m <= n /\ b <= m + 1 => b <= n + 1
    OBVIOUS
  <2> QED
    BY <1>3, <2>1, <2>2
<1>5. CASE linked' # {}
  <2>1. Begin' \in linked' /\ Begin' \in Nat \ {0}
    BY <1>1, <1>5 DEF BeginMeans
  <2>2. Begin' \in 1 .. allocated => Begin <= Begin'
    BY <1>2, <1>3, <2>1
  <2> QED
    BY <1>2, <1>3, <2>1, <2>2
<1> QED
  BY <1>4, <1>5

(* Where a cursor begins, in numbers. *)
LEMMA StartIs ==
  ASSUME SharedInv, NEW c \in Cursors
  PROVE  /\ Start(c) = IF elem[c] # Nil THEN <<elem[c], idx[c]>> ELSE <<Begin, 0>>
         /\ elem[c] \in Nat /\ idx[c] \in Nat /\ Begin \in Nat
<1>1. elem[c] \in ChunkId \cup {Nil} /\ idx[c] \in Nat /\ StoreTypeOK
  BY DEF SharedInv, TypeOK, StoreInv
<1>2. elem[c] \in Nat /\ Begin \in Nat
  BY <1>1, StoreNumbers, BeginIs DEF BeginMeans, Nil
<1> QED
  BY <1>1, <1>2 DEF Start, Begin

(* A cursor that begins no earlier has no more before it. *)
LEMMA NoneReopened ==
  ASSUME SharedInv, HistoryInv, NEW c \in Cursors, got'[c] = got[c],
         NEW a \in Nat, NEW i \in Nat, Start(c) = <<a, i>>,
         NEW b \in Nat, NEW j \in Nat, Start(c)' = <<b, j>>,
         a < b \/ (a = b /\ i <= j)
  PROVE  Reopened(c)' \subseteq Reopened(c)
<1> SUFFICES ASSUME NEW s \in Reopened(c)'  PROVE s \in Reopened(c)
  OBVIOUS
<1>1. s \in Delivered(c) /\ ~Precedes(s, <<b, j>>)
  BY DEF Reopened, Delivered
<1>2. s[1] \in Nat /\ s[2] \in Nat
  <2>1. s \in Slot
    BY <1>1 DEF Delivered, HistoryInv
  <2> QED
    BY <2>1, StoreAssumption DEF Slot, ChunkId
<1>3. ~Precedes(s, <<a, i>>)
  BY <1>1, <1>2 DEF Precedes
<1> QED
  BY <1>1, <1>3 DEF Reopened

(* The storage and other cursors' steps take no cursor back.                 *)
LEMMA StayReopens ==
  ASSUME SharedInv, HistoryInv, SharedInv', [Next]_vars, NEW c \in Cursors,
         UNCHANGED <<elem[c], idx[c], got[c]>>
  PROVE  Reopened(c)' \subseteq Reopened(c)
<1>1. Begin \in Nat /\ Begin' \in Nat /\ Begin <= Begin'
  BY StepsTheStore, BeginGrows DEF SharedInv
<1>2. /\ Start(c) = IF elem[c] # Nil THEN <<elem[c], idx[c]>> ELSE <<Begin, 0>>
      /\ elem[c] \in Nat /\ idx[c] \in Nat
  BY StartIs
<1>3. Start(c)' = IF elem[c] # Nil THEN <<elem[c], idx[c]>> ELSE <<Begin', 0>>
  BY DEF Start, Begin
<1>4. CASE elem[c] # Nil
  <2>1. idx[c] <= idx[c]
    BY <1>2
  <2> QED
    BY <1>2, <1>3, <1>4, <2>1, NoneReopened
<1>5. CASE elem[c] = Nil
  BY <1>1, <1>2, <1>3, <1>5, NoneReopened
<1> QED
  BY <1>4, <1>5

(* A position given up, or set to the front, in a removed chunk leads back   *)
(* only if that chunk was removed from behind the front.                     *)
LEMMA FallsToFront ==
  ASSUME SharedInv, OnwardInv, HistoryInv, NEW c \in Cursors, UNCHANGED storeVars,
         got'[c] = got[c], elem[c] # Nil, pooled[elem[c]] \/ linked = {},
         \/ elem'[c] = Nil
         \/ Front # Nil /\ elem'[c] = Front /\ idx'[c] = 0,
         ~(elem[c] \notin linked \cup {Nil} /\ Front # Nil /\ Front < elem[c])
  PROVE  Reopened(c)' \subseteq Reopened(c)
<1>1. elem[c] \in ChunkId /\ elem[c] <= allocated /\ elem[c] \in Nat /\ idx[c] \in Nat
      /\ Start(c) = <<elem[c], idx[c]>> /\ elem[c] > 0
  BY StartIs, StoreAssumption DEF SharedInv, TypeOK, OnwardInv, Nil, ChunkId
<1>2. elem[c] \notin linked
  <2>1. elem[c] \in 1 .. allocated
    BY <1>1, Chunks DEF SharedInv, StoreInv
  <2> QED
    BY <2>1 DEF SharedInv, StoreInv, Marked
<1>3. StoreTypeOK
  BY DEF SharedInv, StoreInv
<1>4. elem[c] < Begin /\ Begin \in Nat
  BY <1>1, <1>2, <1>3, BeginIs DEF BeginMeans
<1>5. Start(c)' = <<Begin, 0>>
  <2>1. UNCHANGED <<linked, allocated>> /\ Front' = Front
    BY DEF storeVars, chunkVars, Front
  <2> QED
    BY <1>3, <2>1, BeginIs DEF BeginMeans, Start, Begin
<1> QED
  BY <1>1, <1>4, <1>5, NoneReopened

(* TryRead takes its cursor back only by storing a front that is out of date *)
(* or by giving up a position behind the front (consumer.go:146, :165;       *)
(* consumer_group.go:93, :114).                                              *)
LEMMA TryReadReopens ==
  ASSUME SharedInv, OnwardInv, HistoryInv, NEW t \in Threads, NEW c \in Cursors,
         CursorOf[t] = c, TryReadStep(t),
         ~(StoreFront(t) /\ (elem[c] # Nil \/ reg[t] \notin linked)),
         ~(elem[c] \notin linked \cup {Nil} /\ Front # Nil /\ Front < elem[c]),
         ~UNCHANGED <<elem[c], idx[c], got[c]>>
  PROVE  Reopened(c)' \subseteq Reopened(c)
<1>1. /\ elem \in [Cursors -> ChunkId \cup {Nil}] /\ idx \in [Cursors -> Nat]
      /\ got \in [Cursors -> Seq(ChunkId \X Nat)]
      /\ elem[c] \in Nat /\ idx[c] \in Nat /\ Begin \in Nat
      /\ Start(c) = IF elem[c] # Nil THEN <<elem[c], idx[c]>> ELSE <<Begin, 0>>
      /\ cur[t] \in ChunkId \cup {Nil} /\ cix[t] \in Nat /\ reg[t] \in Nat
      /\ Holds(pc[t], cur[t], cix[t], reg[t]) /\ GoesOn(pc[t], cur[t], reg[t])
  BY StartIs DEF SharedInv, TypeOK, OnwardInv
<1>2. UNCHANGED storeVars
  BY TryReadNotes
<1>3. \A e, i : MoveTo(c, e, i) => elem'[c] = e /\ idx'[c] = i
  BY <1>1 DEF MoveTo
<1>4. CASE StoreFront(t)
  <2>1. elem[c] = Nil /\ reg[t] \in linked
    BY <1>4
  <2>2. elem'[c] = reg[t] /\ idx'[c] = 0 /\ got'[c] = got[c]
    BY <1>3, <1>4, <2>1 DEF StoreFront, AlreadyPlaced
  <2>3. \A d \in linked : reg[t] <= d
    BY <1>1, <1>4 DEF GoesOn, StoreFront
  <2>4. reg[t] = Begin /\ reg[t] # Nil
    <3>1. Begin \in linked /\ Begin <= reg[t] /\ reg[t] # Nil
      BY <2>1, BeginIs DEF BeginMeans, SharedInv, StoreInv, Nil
    <3> QED
      BY <1>1, <2>3, <3>1
  <2>5. Start(c)' = <<Begin, 0>> /\ Start(c) = <<Begin, 0>>
    BY <1>1, <2>1, <2>2, <2>4 DEF Start
  <2> QED
    BY <1>1, <2>2, <2>5, NoneReopened
<1>5. CASE ResetPosition(t)
  <2>1. got'[c] = got[c] /\ cur[t] \in ChunkId /\ pooled[cur[t]]
    BY <1>1, <1>5 DEF ResetPosition, Holds, Copied, HistoryInv
  <2>2. elem[c] = cur[t] /\ elem'[c] = Nil
    BY <1>3, <1>5, <2>1 DEF ResetPosition, Stay
  <2>3. elem[c] # Nil
    BY <2>1, <2>2, StoreAssumption DEF ChunkId, Nil
  <2> QED
    BY <1>2, <2>1, <2>2, <2>3, FallsToFront
<1>6. CASE Jump(t)
  <2>1. got'[c] = got[c] /\ cur[t] \in ChunkId /\ head[cur[t]] \in Nat
    BY <1>1, <1>6, StoreNumbers DEF Jump, Holds, Copied, SharedInv, StoreInv
  <2>2. elem[c] = cur[t] /\ idx[c] = cix[t]
    BY <1>6, <2>1 DEF Jump, Stay, Unmoved
  <2>3. elem'[c] = elem[c] /\ idx'[c] = IF c \in Groups THEN idx[c] + 1 ELSE reg[t]
    BY <1>3, <1>6, <2>2 DEF Jump, Unmoved
  <2>4. cix[t] < reg[t]
    BY <1>6 DEF Jump, HistoryInv
  <2>5. elem[c] # Nil
    BY <2>1, <2>2, StoreAssumption DEF ChunkId, Nil
  <2>6. idx'[c] \in Nat /\ idx[c] <= idx'[c]
    BY <1>1, <2>2, <2>3, <2>4
  <2>7. Start(c)' = <<elem[c], idx'[c]>>
    BY <2>3, <2>5 DEF Start
  <2> QED
    BY <1>1, <2>1, <2>5, <2>6, <2>7, NoneReopened
<1>7. CASE Advance(t)
  <2>1. got'[c] = got[c] /\ cur[t] \in ChunkId
    BY <1>1, <1>7 DEF Advance, Holds, Copied
  <2>2. elem[c] = cur[t] /\ reg[t] # Nil
    BY <1>7, <2>1 DEF Advance, Stay, Unmoved
  <2>3. elem'[c] = reg[t] /\ idx'[c] = 0 /\ cur[t] < reg[t]
    <3>1. cur[t] < reg[t]
      BY <1>1, <1>7, <2>2 DEF Advance, GoesOn
    <3>2. elem'[c] = reg[t] /\ idx'[c] = 0
      BY <1>3, <1>7, <2>1, <2>2 DEF Advance, Stay
    <3> QED
      BY <3>1, <3>2
  <2>4. elem[c] # Nil
    BY <2>1, <2>2, StoreAssumption DEF ChunkId, Nil
  <2>5. Start(c)' = <<reg[t], 0>>
    BY <2>2, <2>3 DEF Start
  <2> QED
    BY <1>1, <2>1, <2>2, <2>3, <2>4, <2>5, NoneReopened
<1>8. CASE Commit(t)
  <2> DEFINE e == <<cur[t], cix[t]>>
             n == Len(got[c])
  <2>1. /\ elem[c] = cur[t] /\ idx[c] = cix[t] /\ cur[t] \in ChunkId
        /\ elem'[c] = elem[c] /\ idx'[c] = idx[c] + 1
        /\ got'[c] = Append(got[c], e)
    <3>1. cur[t] \in ChunkId
      BY <1>1, <1>8 DEF Commit, Holds, Copied
    <3>2. Unmoved(t)
      BY <1>8 DEF Commit, Stay
    <3> QED
      BY <1>1, <1>3, <1>8, <3>1, <3>2 DEF Commit, Unmoved
  <2>2. elem[c] # Nil
    BY <2>1, StoreAssumption DEF ChunkId, Nil
  <2>3. Start(c) = <<elem[c], idx[c]>> /\ Start(c)' = <<elem[c], idx[c] + 1>>
    BY <1>1, <2>1, <2>2 DEF Start
  <2>4. ASSUME NEW s \in Reopened(c)'  PROVE s \in Reopened(c)
    <3>1. s \in Delivered(c)' /\ ~Precedes(s, <<elem[c], idx[c] + 1>>)
      BY <2>3, <2>4 DEF Reopened
    <3>2. /\ n \in Nat /\ DOMAIN got[c] = 1 .. n /\ DOMAIN got'[c] = 1 .. n + 1
          /\ \A i \in 1 .. n : got'[c][i] = got[c][i]
          /\ got'[c][n + 1] = e
      BY <1>1, <2>1
    <3>3. s # e
      BY <1>1, <2>1, <3>1 DEF Precedes
    <3>4. PICK i \in 1 .. n + 1 : s = got'[c][i]
      BY <3>1, <3>2 DEF Delivered
    <3> HIDE DEF n, e
    <3>5. i \in 1 .. n
      BY <3>2, <3>3, <3>4
    <3>6. s \in Delivered(c)
      BY <3>2, <3>4, <3>5 DEF Delivered
    <3>7. s[1] \in Nat /\ s[2] \in Nat
      <4>1. s \in Slot
        BY <3>6 DEF Delivered, HistoryInv
      <4> QED
        BY <4>1, StoreAssumption DEF Slot, ChunkId
    <3>8. ~Precedes(s, <<elem[c], idx[c]>>)
      BY <1>1, <3>1, <3>7 DEF Precedes
    <3> QED
      BY <2>3, <3>6, <3>8 DEF Reopened
  <2> QED
    BY <2>4
<1>9. CASE \/ NeedsInit(t) \/ LoadFront(t) \/ CopyPosition(t) \/ LoadPooled(t)
           \/ LoadSize(t) \/ Get(t) \/ LoadHead(t) \/ LoadNext(t)
  <2>1. UNCHANGED <<elem, idx, got>>
    BY <1>9 DEF NeedsInit, LoadFront, CopyPosition, LoadPooled, LoadSize, Get, LoadHead, LoadNext
  <2> QED
    BY <2>1
<1> QED
  BY <1>4, <1>5, <1>6, <1>7, <1>8, <1>9 DEF TryReadStep

(* A new consumer has delivered nothing (consumer.go:739, :831). *)
LEMMA RegisterReopens ==
  ASSUME HistoryInv, NEW c \in Cursors, Register(c)
  PROVE  Reopened(c)' = {}
<1>1. got'[c] = <<>>
  BY DEF Register, HistoryInv
<1> QED
  BY <1>1 DEF Reopened, Delivered

(* UpdatePositionAfterExpiration takes a cursor back only from behind the    *)
(* front (consumer.go:514, consumer_group.go:185).                           *)
LEMMA NotifyReopens ==
  ASSUME SharedInv, OnwardInv, HistoryInv, NEW c \in Cursors, NotifyUpdate(c),
         ~(elem[c] \notin linked \cup {Nil} /\ Front # Nil /\ Front < elem[c]),
         ~UNCHANGED <<elem[c], idx[c], got[c]>>
  PROVE  Reopened(c)' \subseteq Reopened(c)
<1>1. /\ elem \in [Cursors -> ChunkId \cup {Nil}] /\ idx \in [Cursors -> Nat]
      /\ elem[c] \in Nat /\ idx[c] \in Nat
      /\ Start(c) = IF elem[c] # Nil THEN <<elem[c], idx[c]>> ELSE <<Begin, 0>>
  BY StartIs DEF SharedInv, TypeOK
<1>2. UNCHANGED storeVars /\ got'[c] = got[c] /\ elem[c] # Nil
  BY DEF NotifyUpdate, Stay
<1>3. \A e, i : MoveTo(c, e, i) => elem'[c] = e /\ idx'[c] = i
  BY <1>1 DEF MoveTo
<1>4. CASE Front = Nil
  <2>1. elem'[c] = Nil
    BY <1>2, <1>3, <1>4 DEF NotifyUpdate
  <2>2. linked = {}
    BY <1>4, BeginIs DEF BeginMeans, SharedInv, StoreInv
  <2> QED
    BY <1>2, <2>1, <2>2, FallsToFront
<1>5. CASE Front # Nil /\ pooled[elem[c]]
  <2>1. elem'[c] = Front /\ idx'[c] = 0
    BY <1>2, <1>3, <1>5 DEF NotifyUpdate
  <2> QED
    BY <1>2, <1>5, <2>1, FallsToFront
<1>6. CASE Front # Nil /\ ~pooled[elem[c]]
  <2>1. elem'[c] = elem[c] /\ idx'[c] = IndexAfterSweep(elem[c], idx[c])
    BY <1>2, <1>3, <1>6 DEF NotifyUpdate
  <2>2. head[elem[c]] \in Nat
    BY <1>1, <1>2, StoreNumbers DEF SharedInv, StoreInv
  <2>3. idx'[c] \in Nat /\ idx[c] <= idx'[c]
    BY <1>1, <2>1, <2>2 DEF IndexAfterSweep
  <2>4. Start(c)' = <<elem[c], idx'[c]>>
    BY <1>2, <2>1 DEF Start
  <2> QED
    BY <1>1, <1>2, <2>3, <2>4, NoneReopened
<1> QED
  BY <1>4, <1>5, <1>6

(* What moves a cursor at all. *)
LEMMA OnlyTheseMove ==
  ASSUME SharedInv, [Next]_vars, NEW c \in Cursors, ~UNCHANGED <<elem[c], idx[c], got[c]>>
  PROVE  \/ \E t \in Threads : CursorOf[t] = c /\ TryReadStep(t)
         \/ Register(c) \/ NotifyUpdate(c)
<1>1. /\ elem \in [Cursors -> ChunkId \cup {Nil}] /\ idx \in [Cursors -> Nat]
      /\ got \in [Cursors -> Seq(ChunkId \X Nat)]
  BY DEF SharedInv, TypeOK
<1>2. ASSUME NEW t \in Threads, Call(t)  PROVE FALSE
  BY <1>2 DEF Call
<1>3. ASSUME NEW t \in Threads, TryReadStep(t), CursorOf[t] # c  PROVE FALSE
  <2>1. \/ UNCHANGED <<elem, idx>>
        \/ \E e, i : MoveTo(CursorOf[t], e, i)
    BY <1>3 DEF TryReadStep, NeedsInit, LoadFront, StoreFront, CopyPosition, LoadPooled,
       ResetPosition, LoadSize, Get, Commit, LoadHead, Jump, LoadNext, Advance, Stay
  <2>2. elem'[c] = elem[c] /\ idx'[c] = idx[c]
    BY <1>1, <1>3, <2>1 DEF MoveTo
  <2>3. got'[c] = got[c]
    <3>1. \/ got' = got
          \/ got' = [got EXCEPT ![CursorOf[t]] = Append(@, <<cur[t], cix[t]>>)]
      BY <1>3 DEF TryReadStep, NeedsInit, LoadFront, StoreFront, CopyPosition, LoadPooled,
         ResetPosition, LoadSize, Get, Commit, LoadHead, Jump, LoadNext, Advance
    <3> QED
      BY <1>1, <1>3, <3>1
  <2> QED
    BY <2>2, <2>3
<1>4. ASSUME NEW d \in Cursors, Register(d) \/ NotifyUpdate(d), d # c  PROVE FALSE
  <2>1. \/ UNCHANGED <<elem, idx>>
        \/ \E e, i : MoveTo(d, e, i)
    BY <1>4 DEF Register, NotifyUpdate, Stay
  <2>2. elem'[c] = elem[c] /\ idx'[c] = idx[c] /\ got' = got
    BY <1>1, <1>4, <2>1 DEF MoveTo, Register, NotifyUpdate
  <2> QED
    BY <2>2
<1>5. CASE \/ Enqueue \/ Sweep \/ BeginNotify \/ FinishNotify \/ Close \/ UNCHANGED vars
           \/ \E d \in Cursors : NotifyRead(d) \/ NotifySend(d)
  BY <1>5 DEF Enqueue, Sweep, BeginNotify, FinishNotify, Close, BeginClose, CloseConsumers,
     ClearData, NotifyRead, NotifySend, cursorVars, vars
<1> QED
  BY <1>2, <1>3, <1>4, <1>5 DEF Next, Notify

(* Every step. *)
LEMMA StepReopens ==
  ASSUME SharedInv, OnwardInv, HistoryInv, SharedInv', [Next]_vars, NEW c \in Cursors,
         NEW s \in Reopened(c)' \ Reopened(c)
  PROVE  \/ \E t \in Threads : /\ CursorOf[t] = c /\ StoreFront(t)
                               /\ elem[c] # Nil \/ reg[t] \notin linked
         \/ elem[c] \notin linked \cup {Nil} /\ Front # Nil /\ Front < elem[c]
<1>1. ~UNCHANGED <<elem[c], idx[c], got[c]>>
  BY StayReopens
<1>2. ~Register(c)
  BY RegisterReopens
<1> QED
  BY <1>1, <1>2, OnlyTheseMove, TryReadReopens, NotifyReopens

(* However many goroutines share a cursor, whatever sweeps, their            *)
(* notifications and Close do between the steps of TryRead, and whatever the *)
(* clock does: a cursor goes back over what it delivered only when TryRead   *)
(* stores a front that is out of date, or when its chunk was removed from    *)
(* behind the front (consumer.go:146, :165, :534; consumer_group.go:93, :114). *)
THEOREM OnlyStaleFrontsReopen == Spec => OnlyTheseReopen
<1>1. SharedInv /\ OnwardInv /\ HistoryInv /\ SharedInv' /\ [Next]_vars =>
        [\A c \in Cursors : \A s \in Reopened(c)' \ Reopened(c) :
           \/ \E t \in Threads : /\ CursorOf[t] = c /\ StoreFront(t)
                                 /\ elem[c] # Nil \/ reg[t] \notin linked
           \/ elem[c] \notin linked \cup {Nil} /\ Front # Nil /\ Front < elem[c]]_vars
  BY StepReopens
<1> QED
  BY <1>1, SharedInvariant, OnwardInvariant, HistoryInvariant, PTL DEF Spec, OnlyTheseReopen

-----------------------------------------------------------------------------
(* The log *)

(* The order of the log is that of the slots. *)
LEMMA BeforeIs ==
  ASSUME NEW r \in Slot, NEW s \in Slot
  PROVE  Shared!Before(r, s) <=> Precedes(r, s)
  BY DEF Shared!Before

(* Slots in numbers. *)
LEMMA Slots ==
  ASSUME StoreTypeOK
  PROVE  \A s \in Slot : /\ s = <<s[1], s[2]>> /\ s[1] \in ChunkId
                        /\ s[1] \in Nat /\ s[2] \in Nat
                        /\ size[s[1]] \in Nat /\ head[s[1]] \in Nat
  BY StoreAssumption DEF Slot, ChunkId, StoreTypeOK

(* A push of an empty chunk, the removal of an empty one, and the steps that *)
(* touch no chunk are no steps of the log (chunked_list.go:41, :176).        *)
LEMMA StoreStutters ==
  ASSUME StoreInv, StoreTypeOK', UNCHANGED got,
         \/ AddChunk \/ UnlinkEmpty \/ SweepBegin \/ LeaveChunk \/ EndScan \/ EndNotify
         \/ CloseFlag \/ UNCHANGED storeVars
  PROVE  UNCHANGED Shared!logVars
<1>1. UNCHANGED <<size, head>>
  BY DEF AddChunk, PushChunk, UnlinkEmpty, SweepBegin, LeaveChunk, EndScan, EndNotify,
     CloseFlag, storeVars, chunkVars
<1>2. ASSUME NEW s \in Slot  PROVE s \in LiveSlots <=> s \in LiveSlots'
  <2>1. /\ s[1] \in ChunkId /\ s[2] \in Nat /\ size[s[1]] \in Nat /\ head[s[1]] \in Nat
        /\ s \in LiveSlots
             <=> s[1] \in linked /\ head[s[1]] <= s[2] /\ s[2] < size[s[1]]
        /\ s \in LiveSlots'
             <=> s[1] \in linked' /\ head[s[1]] <= s[2] /\ s[2] < size[s[1]]
    BY <1>1, Slots, LiveIs, LiveIsNext DEF LiveMeans, StoreInv
  <2>2. CASE AddChunk
    <3>1. linked' = linked \cup {allocated + 1} /\ allocated \in Nat
      BY <2>2, Chunks DEF AddChunk, PushChunk, StoreInv
    <3>2. s[1] = allocated + 1 => size[s[1]] = 0
      BY <2>1, <3>1 DEF StoreInv, Unmade
    <3> QED
      BY <2>1, <3>1, <3>2
  <2>3. CASE UnlinkEmpty
    <3>1. linked' = linked \ {at} /\ head[at] = size[at]
      BY <2>3 DEF UnlinkEmpty, IsEmpty
    <3> QED
      BY <2>1, <3>1
  <2>4. CASE \/ SweepBegin \/ LeaveChunk \/ EndScan \/ EndNotify \/ CloseFlag
             \/ UNCHANGED storeVars
    <3>1. linked' = linked
      BY <2>4 DEF SweepBegin, LeaveChunk, EndScan, EndNotify, CloseFlag, storeVars, chunkVars
    <3> QED
      BY <2>1, <3>1
  <2> QED
    BY <2>2, <2>3, <2>4
<1>3. LiveSlots \subseteq Slot /\ LiveSlots' \subseteq Slot
  BY LiveIs, LiveIsNext DEF LiveMeans, StoreInv
<1>4. LiveSlots' = LiveSlots
  BY <1>2, <1>3
<1> QED
  BY <1>1, <1>4 DEF Shared!logVars

(* An enqueue appends after everything enqueued before (data.go:112). *)
LEMMA AddItemAppends ==
  ASSUME StoreInv, OlderFull, StoreTypeOK', UNCHANGED got, AddItem
  PROVE  Shared!AppendEntry
<1> DEFINE e == <<Back, size[Back]>>
<1>1. StoreTypeOK /\ linked # {} /\ size[Back] < ChunkSize /\ linked' = linked /\ head' = head
  <2>1. StoreTypeOK /\ linked # {} /\ ~IsFull(Back) /\ UNCHANGED <<linked, head>>
    BY DEF AddItem, PutItem, NeedsChunk, StoreInv
  <2>2. size[Back] \in 0 .. ChunkSize
    BY <2>1, BackIs DEF StoreTypeOK
  <2> QED
    BY <2>1, <2>2, StoreAssumption DEF IsFull
<1>2. Back \in linked /\ Back \in ChunkId /\ Back = allocated /\ allocated \in Nat
  <2>1. Back \in linked /\ Back \in ChunkId /\ Back \in 1 .. allocated /\ allocated \in Nat
    BY <1>1, BackIs, Chunks
  <2>2. ~IsFull(Back)
    BY DEF AddItem, PutItem, NeedsChunk
  <2> QED
    BY <2>1, <2>2 DEF OlderFull
<1>3. size' = [size EXCEPT ![Back] = @ + 1] /\ size \in [ChunkId -> 0 .. ChunkSize]
  BY <1>1 DEF AddItem, PutItem, StoreTypeOK
<1>4. e \in Slot /\ e[1] = Back /\ e[2] = size[Back] /\ size[Back] \in Nat
  <2>1. size[Back] \in 0 .. ChunkSize - 1
    BY <1>1, <1>2, <1>3, StoreAssumption
  <2> QED
    BY <1>2, <2>1 DEF Slot
<1>5. ASSUME NEW a \in Appended  PROVE Shared!Before(a, e)
  <2>1. a \in Slot /\ a[1] \in ChunkId /\ a[1] \in Nat /\ a[2] \in Nat /\ a[2] < size[a[1]]
    BY <1>1, Slots DEF Appended
  <2>2. a[1] <= Back
    <3>1. ~(a[1] > allocated)
      BY <2>1 DEF StoreInv, Unmade
    <3> QED
      BY <1>2, <2>1, <3>1
  <2>3. a[1] < Back \/ (a[1] = Back /\ a[2] < size[Back])
    BY <1>2, <2>1, <2>2
  <2>4. Precedes(a, e)
    BY <1>4, <2>3 DEF Precedes
  <2> QED
    BY <1>4, <2>1, <2>4, BeforeIs
<1>6. ASSUME NEW s \in Slot
      PROVE  /\ s[2] < size'[s[1]] <=> s[2] < size[s[1]] \/ s = e
             /\ s = e => s[1] \in linked /\ head[s[1]] <= s[2]
  <2>1. s = <<s[1], s[2]>> /\ s[1] \in ChunkId /\ s[2] \in Nat /\ size[s[1]] \in Nat
    BY <1>1, Slots
  <2>2. s = e <=> s[1] = Back /\ s[2] = size[Back]
    BY <2>1
  <2>3. size'[s[1]] = IF s[1] = Back THEN size[Back] + 1 ELSE size[s[1]]
    BY <1>3, <2>1
  <2>4. head[Back] <= size[Back]
    BY <1>2 DEF StoreInv, HeadsBehind
  <2> QED
    BY <1>2, <1>4, <2>1, <2>2, <2>3, <2>4
<1>7. Appended' = Appended \cup {e}
  BY <1>4, <1>6 DEF Appended
<1>8. LiveSlots' = LiveSlots \cup {e}
  <2>1. \A s \in Slot : s \in LiveSlots' <=> s \in LiveSlots \/ s = e
    BY <1>1, <1>6, LiveIs, LiveIsNext DEF LiveMeans
  <2>2. LiveSlots \subseteq Slot /\ LiveSlots' \subseteq Slot
    BY <1>1, LiveIs, LiveIsNext DEF LiveMeans
  <2> QED
    BY <1>4, <2>1, <2>2
<1> QED
  BY <1>4, <1>5, <1>7, <1>8 DEF Shared!AppendEntry, Appended

(* At the front a sweep takes the oldest item that is left (data.go:152).    *)
LEMMA ExpireItemExpires ==
  ASSUME StoreInv, StoreTypeOK', UNCHANGED got, ExpireItem, at = Front
  PROVE  Shared!Expire
<1>1. StoreTypeOK /\ at \in linked /\ at \in ChunkId /\ at \in Nat /\ \A d \in linked : at <= d
  <2>1. StoreTypeOK /\ at \in linked
    BY DEF ExpireItem, StoreInv, ScanListed
  <2> QED
    BY <2>1, Chunks, FrontIs
<1>2. /\ head' = [head EXCEPT ![at] = @ + 1] /\ linked' = linked /\ size' = size
      /\ head \in [ChunkId -> 0 .. ChunkSize]
  BY <1>1 DEF ExpireItem, StoreTypeOK
<1>3. LiveSlots \subseteq Slot /\ LiveSlots' \subseteq Slot
  BY <1>1, LiveIs, LiveIsNext DEF LiveMeans
<1>4. ASSUME NEW s \in Slot
      PROVE  /\ s \in LiveSlots' => s \in LiveSlots
             /\ s \in LiveSlots /\ s \notin LiveSlots' => s[1] = at /\ s[2] = head[at]
             /\ s \in LiveSlots' /\ s[1] = at => s[2] > head[at]
  <2>1. /\ s[1] \in ChunkId /\ s[2] \in Nat /\ size[s[1]] \in Nat /\ head[s[1]] \in Nat
        /\ head[at] \in Nat
    BY <1>1, Slots, StoreAssumption DEF StoreTypeOK
  <2>2. head'[s[1]] = IF s[1] = at THEN head[at] + 1 ELSE head[s[1]]
    BY <1>2, <2>1
  <2>3. /\ s \in LiveSlots
             <=> s[1] \in linked /\ head[s[1]] <= s[2] /\ s[2] < size[s[1]]
        /\ s \in LiveSlots'
             <=> s[1] \in linked /\ head'[s[1]] <= s[2] /\ s[2] < size[s[1]]
    BY <1>1, <1>2, LiveIs, LiveIsNext DEF LiveMeans
  <2> QED
    BY <2>1, <2>2, <2>3
<1>5. ASSUME NEW k \in LiveSlots', NEW g \in LiveSlots \ LiveSlots'
      PROVE  Shared!Before(g, k)
  <2>1. k \in Slot /\ g \in Slot /\ g[1] = at /\ g[2] = head[at] /\ k[1] \in linked
    BY <1>1, <1>3, <1>4, LiveIs, LiveIsNext DEF LiveMeans
  <2>2. k[1] \in Nat /\ at <= k[1]
    BY <1>1, <2>1, Slots
  <2>3. at < k[1] \/ (k[1] = at /\ k[2] > head[at])
    BY <1>1, <1>4, <2>1, <2>2
  <2>4. k[2] \in Nat /\ head[at] \in Nat
    BY <1>1, <2>1, Slots, StoreAssumption DEF StoreTypeOK
  <2>5. Precedes(g, k)
    BY <2>1, <2>3, <2>4 DEF Precedes
  <2> QED
    BY <2>1, <2>5, BeforeIs
<1>6. LiveSlots' \subseteq LiveSlots
  BY <1>3, <1>4
<1> QED
  BY <1>2, <1>5, <1>6 DEF Shared!Expire

(* Clear takes everything (chunked_list.go:206). *)
LEMMA ClearExpires ==
  ASSUME UNCHANGED got, Clear
  PROVE  Shared!Expire
<1>1. LiveSlots' = {} /\ size' = size
  BY DEF Clear, LiveSlots
<1> QED
  BY <1>1 DEF Shared!Expire

(* A commit delivers to one cursor, and after all it delivered before unless *)
(* the cursor had gone back (consumer.go:187, consumer_group.go:136).        *)
LEMMA CommitDelivers ==
  ASSUME SharedInv, HistoryInv, NEW t \in Threads, pc[t] = "commit", UNCHANGED storeVars,
         got' = [got EXCEPT ![CursorOf[t]] = Append(@, <<cur[t], cix[t]>>)],
         elem[CursorOf[t]] = cur[t], idx[CursorOf[t]] = cix[t], Reopened(CursorOf[t]) = {}
  PROVE  Shared!Deliver(CursorOf[t])
<1> DEFINE c == CursorOf[t]
           e == <<cur[t], cix[t]>>
<1>1. c \in Cursors /\ e \in Appended /\ e \in Slot /\ Start(c) = e
  <2>1. c \in Cursors /\ e \in Appended /\ e \in Slot /\ cur[t] \in ChunkId
    BY CursorAssumption, CommitsSlot DEF Appended
  <2>2. cur[t] # Nil
    BY <2>1, StoreAssumption DEF ChunkId, Nil
  <2> QED
    BY <2>1, <2>2 DEF Start
<1>2. ASSUME NEW i \in DOMAIN got[c]  PROVE Shared!Before(got[c][i], e)
  <2>1. Precedes(got[c][i], e) /\ got[c][i] \in Slot
    BY <1>1 DEF HistoryInv, Reopened, Delivered
  <2> QED
    BY <1>1, <2>1, BeforeIs
<1>3. UNCHANGED <<size, LiveSlots>>
  BY DEF storeVars, chunkVars, LiveSlots, LiveIn
<1> QED
  BY <1>1, <1>2, <1>3 DEF Shared!Deliver, Appended

(* The two steps that are none of the log: a commit of a cursor that stands  *)
(* before what it has delivered, and the expiration of an item in a chunk    *)
(* behind the front, which the sweep went on to because the TTL was reached  *)
(* between the scan and the stop test (chunked_list.go:152, :191).           *)
CommitsAgain     == \E t \in Threads : Commit(t) /\ Reopened(CursorOf[t]) # {}
ExpiresOutOfTurn == ExpireItem /\ at # Front

(* Every other step of the queue is a step of the log or none. *)
LEMMA StepsTheLog ==
  ASSUME SharedInv, OnwardInv, HistoryInv, StoreTypeOK', [Next]_vars
  PROVE  [Shared!LogNext \/ CommitsAgain \/ ExpiresOutOfTurn]_(Shared!logVars)
<1>1. CASE UNCHANGED got
  <2>1. [StoreNext]_storeVars /\ StoreInv /\ OlderFull
    BY StepsTheStore DEF SharedInv, OnwardInv
  <2>2. CASE AddItem
    BY <1>1, <2>1, <2>2, AddItemAppends DEF Shared!LogNext
  <2>3. CASE ExpireItem
    BY <1>1, <2>1, <2>3, ExpireItemExpires DEF Shared!LogNext, ExpiresOutOfTurn
  <2>4. CASE Clear
    BY <1>1, <2>4, ClearExpires DEF Shared!LogNext
  <2>5. CASE \/ AddChunk \/ UnlinkEmpty \/ SweepBegin \/ LeaveChunk \/ EndScan \/ EndNotify
             \/ CloseFlag \/ UNCHANGED storeVars
    BY <1>1, <2>1, <2>5, StoreStutters
  <2> QED
    BY <2>1, <2>2, <2>3, <2>4, <2>5 DEF StoreNext
<1>2. CASE ~UNCHANGED got
  <2>1. PICK t \in Threads : CommitsAgain \/ Shared!Deliver(CursorOf[t])
    BY <1>2, GotMoves, CommitDelivers DEF CommitsAgain
  <2> QED
    BY <2>1, CursorAssumption DEF Shared!LogNext
<1> QED
  BY <1>1, <1>2

(* A new queue is an empty log. *)
LEMMA InitLog == Init => Shared!LogInit
<1> SUFFICES ASSUME Init  PROVE Shared!LogInit
  OBVIOUS
<1>1. \A s \in Slot : ~(s[2] < size[s[1]])
  BY StoreAssumption DEF Init, StoreInit, Slot
<1>2. LiveSlots = {}
  BY DEF Init, StoreInit, LiveSlots
<1> QED
  BY <1>1, <1>2 DEF Init, Shared!LogInit

(* The queue is a log, for any numbers of chunks, cursors and threads and    *)
(* whatever the interleaving of TryRead with enqueues, sweeps and Close:     *)
(* items are appended, expire oldest first, and are delivered in order, but  *)
(* for those two steps; OnlyStaleFrontsReopen says how the first comes about *)
(* (consumer.go:187, consumer_group.go:136, chunked_list.go:143, data.go:112). *)
THEOREM QueueImplementsLog ==
  Spec => /\ Shared!LogInit
          /\ [][Shared!LogNext \/ CommitsAgain \/ ExpiresOutOfTurn]_(Shared!logVars)
<1>1. SharedInv /\ OnwardInv /\ HistoryInv /\ StoreTypeOK' /\ [Next]_vars =>
        [Shared!LogNext \/ CommitsAgain \/ ExpiresOutOfTurn]_(Shared!logVars)
  BY StepsTheLog
<1>2. SharedInv => StoreTypeOK
  BY DEF SharedInv, StoreInv
<1> QED
  BY <1>1, <1>2, InitLog, SharedInvariant, OnwardInvariant, HistoryInvariant, PTL DEF Spec
===============================================================================
