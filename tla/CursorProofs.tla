----------------------------- MODULE CursorProofs -----------------------------
(***************************************************************************)
(* Proofs about Cursor, for any numbers of cursors, groups, threads and    *)
(* chunks, however many goroutines read a consumer or a group and whatever *)
(* the clock does: types, no live item of its chunk is skipped by a        *)
(* cursor, nothing overwritten is delivered.                               *)
(*                                                                         *)
(* With several threads on a cursor a thread knows little of the position; *)
(* what it knows of the chunk it looks at stays true, because no size and  *)
(* no head goes back.                                                      *)
(***************************************************************************)
EXTENDS Cursor, ChunkStoreProofs

-----------------------------------------------------------------------------
(* Every step of Cursor is a step of the storage or leaves it alone. *)
LEMMA StepsTheStore == [Next]_vars => [StoreNext]_storeVars
<1> SUFFICES ASSUME [Next]_vars  PROVE [StoreNext]_storeVars
  OBVIOUS
<1>1. CASE UNCHANGED vars
  BY <1>1 DEF vars
<1>2. ASSUME NEW t \in Threads, Call(t) \/ TryReadStep(t)  PROVE UNCHANGED storeVars
  BY <1>2 DEF Call, TryReadStep, NeedsInit, LoadFront, StoreFront, CopyPosition, LoadPooled,
     ResetPosition, LoadSize, Get, Commit, LoadHead, Jump, LoadNext, Advance, rest
<1>3. ASSUME NEW c \in Cursors, Register(c)  PROVE UNCHANGED storeVars
  BY <1>3 DEF Register
<1>4. CASE Enqueue \/ Sweep
  BY <1>4 DEF Enqueue, Sweep, StoreNext
<1>5. CASE BeginNotify \/ FinishNotify
  BY <1>5 DEF BeginNotify, FinishNotify, StoreNext
<1>6. CASE Notify
  BY <1>6 DEF Notify, NotifyRead, NotifySend, NotifyUpdate
<1>7. CASE Close
  BY <1>7 DEF Close, BeginClose, CloseConsumers, ClearData, StoreNext
<1> QED
  BY <1>1, <1>2, <1>3, <1>4, <1>5, <1>6, <1>7 DEF Next

(* What a step of the storage cannot take back. *)
LEMMA StoreMoves ==
  ASSUME StoreInv, [StoreNext]_storeVars
  PROVE  /\ allocated <= allocated'
         /\ \A c \in 1 .. allocated : c \in linked' => c \in linked
         /\ \A c \in ChunkId : pooled[c] => pooled'[c]
<1>1. allocated \in Nat
  BY Chunks DEF StoreInv
<1>2. CASE AddChunk
  BY <1>1, <1>2 DEF AddChunk, PushChunk
<1>3. CASE UnlinkEmpty
  <2>1. pooled' = [pooled EXCEPT ![at] = TRUE] /\ pooled \in [ChunkId -> BOOLEAN]
    BY <1>3 DEF UnlinkEmpty, StoreInv, StoreTypeOK
  <2>2. \A c \in ChunkId : pooled[c] => pooled'[c]
    BY <2>1
  <2>3. allocated' = allocated /\ linked' \subseteq linked
    BY <1>3 DEF UnlinkEmpty
  <2> QED
    BY <1>1, <2>2, <2>3
<1>4. CASE Clear
  <2>1. allocated' = allocated /\ linked' = {}
    BY <1>4 DEF Clear
  <2>2. \A c \in ChunkId : pooled[c] => pooled'[c]
    BY <1>4 DEF Clear
  <2> QED
    BY <1>1, <2>1, <2>2
<1>5. CASE \/ AddItem \/ SweepBegin \/ ExpireItem \/ LeaveChunk \/ EndScan \/ EndNotify
           \/ CloseFlag \/ UNCHANGED storeVars
  <2>1. UNCHANGED <<allocated, linked, pooled>>
    BY <1>5 DEF AddItem, PutItem, SweepBegin, ExpireItem, LeaveChunk, EndScan, EndNotify,
       CloseFlag, storeVars, chunkVars
  <2> QED
    BY <1>1, <2>1
<1> QED
  BY <1>2, <1>3, <1>4, <1>5 DEF StoreNext

(* No chunk shrinks (data.go:112 is the only store to size). *)
LEMMA SizesGrow ==
  ASSUME StoreInv, [StoreNext]_storeVars
  PROVE  \A c \in ChunkId : size[c] <= size'[c]
<1>1. \A c \in ChunkId : size[c] \in Nat
  BY StoreAssumption DEF StoreInv, StoreTypeOK
<1>2. CASE AddItem
  <2>1. size' = [size EXCEPT ![Back] = @ + 1] /\ size \in [ChunkId -> 0 .. ChunkSize]
    BY <1>2 DEF AddItem, PutItem, StoreInv, StoreTypeOK
  <2> QED
    BY <1>1, <2>1
<1>3. CASE \/ AddChunk \/ SweepBegin \/ ExpireItem \/ UnlinkEmpty \/ LeaveChunk \/ EndScan
           \/ EndNotify \/ CloseFlag \/ Clear \/ UNCHANGED storeVars
  <2>1. size' = size
    BY <1>3 DEF AddChunk, PushChunk, SweepBegin, ExpireItem, UnlinkEmpty, LeaveChunk, EndScan,
       EndNotify, CloseFlag, Clear, storeVars, chunkVars
  <2> QED
    BY <1>1, <2>1
<1> QED
  BY <1>2, <1>3 DEF StoreNext

-----------------------------------------------------------------------------
(* The invariant *)

(* The steps of a TryRead that has copied the position. *)
Copied == {"pooled", "reset", "size", "get", "commit", "skip", "jump", "next", "advance"}

(* What a thread at step s knows, with the locals currentElement k,          *)
(* currentIndex i and last loaded value r.                                   *)
Holds(s, k, i, r) ==
  /\ s \in Copied => k \in ChunkId
  /\ s \in {"store", "advance"} => r \in ChunkId \cup {Nil}
  /\ s = "commit" => i < size[k]
  /\ s = "jump" => i < head[k] /\ r <= head[k]

(* A position lies in its chunk, and no item before it in the chunk is still *)
(* live and not delivered.                                                   *)
Placed(c) ==
  elem[c] # Nil =>
    /\ idx[c] <= size[elem[c]]
    /\ \A s \in LiveSlots : s[1] = elem[c] /\ s[2] < idx[c] => s \in Delivered(c)

SharedInv ==
  /\ StoreInv
  /\ TypeOK
  /\ \A t \in Threads : Holds(pc[t], cur[t], cix[t], reg[t])
  /\ \A c \in Cursors : Placed(c)

(* No head goes back (data.go:144 is the only store to head). *)
LEMMA HeadsGrow ==
  ASSUME StoreInv, [StoreNext]_storeVars
  PROVE  \A c \in ChunkId : head[c] <= head'[c]
<1>1. \A c \in ChunkId : head[c] \in Nat
  BY StoreAssumption DEF StoreInv, StoreTypeOK
<1>2. CASE ExpireItem
  <2>1. head' = [head EXCEPT ![at] = @ + 1] /\ head \in [ChunkId -> 0 .. ChunkSize]
    BY <1>2 DEF ExpireItem, StoreInv, StoreTypeOK
  <2> QED
    BY <1>1, <2>1
<1>3. CASE \/ AddChunk \/ AddItem \/ SweepBegin \/ UnlinkEmpty \/ LeaveChunk \/ EndScan
           \/ EndNotify \/ CloseFlag \/ Clear \/ UNCHANGED storeVars
  <2>1. head' = head
    BY <1>3 DEF AddChunk, PushChunk, AddItem, PutItem, SweepBegin, UnlinkEmpty, LeaveChunk,
       EndScan, EndNotify, CloseFlag, Clear, storeVars, chunkVars
  <2> QED
    BY <1>1, <2>1
<1> QED
  BY <1>2, <1>3 DEF StoreNext

(* The types of the storage in numbers. *)
LEMMA StoreNumbers ==
  ASSUME StoreTypeOK
  PROVE  /\ linked \subseteq ChunkId /\ ChunkId \subseteq Nat \ {0}
         /\ \A c \in ChunkId : /\ size[c] \in Nat /\ head[c] \in Nat /\ oldHead[c] \in Nat
                               /\ size[c] <= ChunkSize
BY Chunks, StoreAssumption DEF StoreTypeOK

(* And after a step. *)
LEMMA StoreNumbersNext ==
  StoreTypeOK' => \A c \in ChunkId : size'[c] \in Nat /\ head'[c] \in Nat
BY StoreAssumption DEF StoreTypeOK

(* A thread keeps what it knows while the storage takes a step. *)
LEMMA StoreKeepsHolds ==
  ASSUME SharedInv, StoreInv', [StoreNext]_storeVars,
         NEW s, NEW k, NEW i \in Nat, NEW r \in Nat, Holds(s, k, i, r)
  PROVE  Holds(s, k, i, r)'
<1>1. \A c \in ChunkId : /\ size[c] <= size'[c] /\ head[c] <= head'[c]
                         /\ size[c] \in Nat /\ head[c] \in Nat
                         /\ size'[c] \in Nat /\ head'[c] \in Nat
  BY SizesGrow, HeadsGrow, StoreNumbers, StoreNumbersNext DEF SharedInv, StoreInv
<1>2. s \in {"commit", "jump"} => k \in ChunkId
  BY DEF Holds, Copied
<1>3. s = "commit" => i < size'[k]
  BY <1>1, <1>2 DEF Holds
<1>4. s = "jump" => i < head'[k] /\ r <= head'[k]
  BY <1>1, <1>2 DEF Holds
<1> QED
  BY <1>3, <1>4 DEF Holds

(* A cursor stays well placed while the storage takes a step: a new item is  *)
(* put at the end of its chunk, at or after every position in it.            *)
LEMMA StoreKeepsPlaced ==
  ASSUME SharedInv, StoreInv', [StoreNext]_storeVars, NEW c \in Cursors,
         elem'[c] = elem[c], idx'[c] = idx[c], got'[c] = got[c]
  PROVE  Placed(c)'
<1> SUFFICES ASSUME elem[c] # Nil
             PROVE  /\ idx[c] <= size'[elem[c]]
                    /\ \A s \in LiveSlots' : s[1] = elem[c] /\ s[2] < idx[c] => s \in Delivered(c)
  BY DEF Placed, Delivered
<1> DEFINE e == elem[c]
<1>1. e \in ChunkId /\ idx[c] \in Nat
  BY DEF SharedInv, TypeOK
<1>2. /\ size[e] <= size'[e] /\ head[e] <= head'[e] /\ size[e] \in Nat /\ head[e] \in Nat
      /\ size'[e] \in Nat /\ head'[e] \in Nat
  BY <1>1, SizesGrow, HeadsGrow, StoreNumbers, StoreNumbersNext DEF SharedInv, StoreInv
<1>3. idx[c] <= size[e]
  BY DEF SharedInv, Placed
<1>4. ASSUME NEW s \in LiveSlots', s[1] = e, s[2] < idx[c]  PROVE s \in Delivered(c)
  <2>1. s \in Slot /\ s[1] \in linked' /\ head'[s[1]] <= s[2] /\ s[2] < size'[s[1]]
    BY LiveIsNext DEF LiveMeans, StoreInv
  <2>2. s[2] \in Nat
    BY <2>1, StoreAssumption DEF Slot
  <2>3. head[e] <= s[2] /\ s[2] < size[e]
    BY <1>1, <1>2, <1>3, <1>4, <2>1, <2>2
  <2>4. e \in 1 .. allocated
    <3>1. e <= allocated \/ size[e] = 0
      BY <1>1, StoreNumbers, Chunks DEF SharedInv, StoreInv, Unmade
    <3>2. size[e] # 0 /\ allocated \in Nat /\ e \in Nat \ {0}
      BY <1>1, <1>2, <2>2, <2>3, StoreNumbers, Chunks DEF SharedInv, StoreInv
    <3> QED
      BY <3>1, <3>2
  <2>5. e \in linked
    BY <1>4, <2>1, <2>4, StoreMoves DEF SharedInv
  <2>6. s \in LiveSlots
    BY <1>4, <2>1, <2>3, <2>5, LiveIs DEF LiveMeans, SharedInv, StoreInv
  <2> QED
    BY <1>4, <2>6 DEF SharedInv, Placed
<1>5. idx[c] <= size'[e]
  BY <1>1, <1>2, <1>3
<1> QED
  BY <1>4, <1>5

-----------------------------------------------------------------------------
(* Steps of TryRead *)

(* Thread t goes to step s with locals k, i and r. *)
Local(t, s, k, i, r) ==
  /\ pc' = [pc EXCEPT ![t] = s]
  /\ cur' = [cur EXCEPT ![t] = k]
  /\ cix' = [cix EXCEPT ![t] = i]
  /\ reg' = [reg EXCEPT ![t] = r]

(* The locals of a thread have their types, and each step of TryRead sets    *)
(* them as Local says.                                                       *)
LEMMA LocalValues ==
  ASSUME TypeOK, NEW t \in Threads
  PROVE  /\ CursorOf[t] \in Cursors
         /\ pc[t] \in Steps /\ cur[t] \in ChunkId \cup {Nil}
         /\ cix[t] \in Nat /\ reg[t] \in Nat
         /\ \A s : Goto(t, s) /\ UNCHANGED <<cur, cix, reg>>
                     => Local(t, s, cur[t], cix[t], reg[t])
         /\ \A s : Forget(t, s) => Local(t, s, Nil, 0, 0)
<1>1. /\ CursorOf[t] \in Cursors
      /\ pc[t] \in Steps /\ cur[t] \in ChunkId \cup {Nil}
      /\ cix[t] \in Nat /\ reg[t] \in Nat
  BY CursorAssumption DEF TypeOK
<1>2. /\ cur = [cur EXCEPT ![t] = cur[t]]
      /\ cix = [cix EXCEPT ![t] = cix[t]]
      /\ reg = [reg EXCEPT ![t] = reg[t]]
  BY DEF TypeOK
<1>3. ASSUME NEW s, Goto(t, s), UNCHANGED <<cur, cix, reg>>
      PROVE  Local(t, s, cur[t], cix[t], reg[t])
  BY <1>2, <1>3 DEF Goto, Local
<1>4. ASSUME NEW s, Forget(t, s)  PROVE Local(t, s, Nil, 0, 0)
  BY <1>4 DEF Forget, Goto, Local
<1> QED
  BY <1>1, <1>3, <1>4

(* Each sets the locals to values it has checked (consumer.go:138-218,       *)
(* consumer_group.go:85-165).                                                *)
LEMMA LocalsChecked ==
  ASSUME SharedInv, NEW t \in Threads, Call(t) \/ TryReadStep(t)
  PROVE  \E s \in Steps, k \in ChunkId \cup {Nil}, i \in Nat, r \in Nat :
           Local(t, s, k, i, r) /\ Holds(s, k, i, r)
<1> DEFINE c == CursorOf[t]
           k0 == cur[t]
           i0 == cix[t]
           r0 == reg[t]
<1>1. /\ c \in Cursors
      /\ pc[t] \in Steps /\ k0 \in ChunkId \cup {Nil} /\ i0 \in Nat /\ r0 \in Nat
      /\ \A s : Goto(t, s) /\ UNCHANGED <<cur, cix, reg>> => Local(t, s, k0, i0, r0)
      /\ \A s : Forget(t, s) => Local(t, s, Nil, 0, 0)
  BY LocalValues DEF SharedInv
<1>2. Holds(pc[t], k0, i0, r0)
  BY DEF SharedInv
<1>3. /\ ChunkId \subseteq Nat /\ Nil \in Nat
      /\ elem[c] \in ChunkId \cup {Nil} /\ idx[c] \in Nat
      /\ \A d \in ChunkId : head[d] \in Nat /\ next[d] \in ChunkId \cup {Nil}
      /\ linked # {} => Front \in ChunkId
  BY <1>1, StoreNumbers, FrontIs DEF SharedInv, TypeOK, StoreTypeOK, Nil
<1>4. /\ Holds("idle", Nil, 0, 0) /\ Holds("loop", Nil, 0, 0)
      /\ "idle" \in Steps /\ "loop" \in Steps
  BY DEF Holds, Copied, Steps
<1>5. CASE \/ StoreFront(t) \/ ResetPosition(t) \/ Commit(t) \/ Jump(t) \/ Advance(t)
  <2>1. Forget(t, "idle") \/ Forget(t, "loop")
    BY <1>5 DEF StoreFront, ResetPosition, Commit, Jump, Advance, Return, Again
  <2>2. Local(t, "idle", Nil, 0, 0) \/ Local(t, "loop", Nil, 0, 0)
    BY <1>1, <2>1
  <2> QED
    BY <1>3, <1>4, <2>2
<1>6. CASE \/ Call(t) \/ NeedsInit(t) \/ LoadPooled(t) \/ LoadSize(t) \/ Get(t)
  <2>1. PICK s \in {"init", "front", "loop", "reset", "size", "get", "next", "commit", "skip"} :
          /\ Goto(t, s) /\ UNCHANGED <<cur, cix, reg>>
          /\ s \in Copied => pc[t] \in Copied
          /\ s = "commit" => i0 < size[k0]
    BY <1>6 DEF Call, NeedsInit, LoadPooled, LoadSize, Get, Copied
  <2>2. Local(t, s, k0, i0, r0) /\ Holds(s, k0, i0, r0) /\ s \in Steps
    BY <1>1, <1>2, <2>1 DEF Holds, Steps
  <2> QED
    BY <1>1, <2>2
<1>7. CASE LoadFront(t)
  <2>1. CASE linked = {}
    BY <1>1, <1>3, <1>4, <1>7, <2>1 DEF LoadFront, Return
  <2>2. CASE linked # {}
    <3>1. Local(t, "store", k0, i0, Front)
      BY <1>1, <1>7, <2>2 DEF LoadFront, Goto, Local, SharedInv, TypeOK
    <3>2. Holds("store", k0, i0, Front) /\ Front \in Nat /\ "store" \in Steps
      BY <1>3, <2>2 DEF Holds, Copied, Steps
    <3> QED
      BY <1>1, <3>1, <3>2
  <2> QED
    BY <2>1, <2>2
<1>8. CASE CopyPosition(t)
  <2>1. CASE elem[c] = Nil
    BY <1>1, <1>3, <1>4, <1>8, <2>1 DEF CopyPosition, Return
  <2>2. CASE elem[c] # Nil
    <3>1. Local(t, "pooled", elem[c], idx[c], r0)
      BY <1>1, <1>8, <2>2 DEF CopyPosition, Goto, Local, SharedInv, TypeOK
    <3>2. Holds("pooled", elem[c], idx[c], r0) /\ "pooled" \in Steps
      BY <1>3, <2>2 DEF Holds, Copied, Steps
    <3> QED
      BY <1>1, <1>3, <3>1, <3>2
  <2> QED
    BY <2>1, <2>2
<1>9. CASE LoadHead(t)
  <2>1. k0 \in ChunkId
    BY <1>2, <1>9 DEF LoadHead, Holds, Copied
  <2>2. CASE i0 < head[k0]
    <3>1. Local(t, "jump", k0, i0, head[k0])
      BY <1>1, <1>9, <2>2 DEF LoadHead, Goto, Local, SharedInv, TypeOK
    <3>2. head[k0] <= head[k0]
      <4>1. head[k0] \in Nat
        BY <1>3, <2>1
      <4> QED
        BY <4>1
    <3>3. Holds("jump", k0, i0, head[k0]) /\ "jump" \in Steps
      BY <2>1, <2>2, <3>2 DEF Holds, Copied, Steps
    <3> QED
      BY <1>1, <1>3, <2>1, <3>1, <3>3
  <2>3. CASE ~(i0 < head[k0])
    BY <1>1, <1>3, <1>4, <1>9, <2>3 DEF LoadHead, Return
  <2> QED
    BY <2>2, <2>3
<1>10. CASE LoadNext(t)
  <2>1. k0 \in ChunkId
    BY <1>2, <1>10 DEF LoadNext, Holds, Copied
  <2>2. Local(t, "advance", k0, i0, next[k0])
    BY <1>1, <1>10 DEF LoadNext, Goto, Local, SharedInv, TypeOK
  <2>3. Holds("advance", k0, i0, next[k0]) /\ next[k0] \in Nat /\ "advance" \in Steps
    BY <1>3, <2>1 DEF Holds, Copied, Steps
  <2> QED
    BY <1>1, <2>2, <2>3
<1> QED
  BY <1>5, <1>6, <1>7, <1>8, <1>9, <1>10 DEF TryReadStep

(* A cursor is well placed without a position, at the start of a chunk, and  *)
(* in its chunk up to the head or to where it was.                           *)
LEMMA PlacedAt ==
  ASSUME SharedInv, UNCHANGED storeVars, NEW c \in Cursors,
         NEW e \in ChunkId \cup {Nil}, NEW i \in Nat,
         elem'[c] = e, idx'[c] = i, got'[c] = got[c],
         e # Nil => i = 0 \/ (e = elem[c] /\ (i <= head[e] \/ i <= idx[c]))
  PROVE  Placed(c)'
<1> SUFFICES ASSUME e # Nil
             PROVE  /\ i <= size[e]
                    /\ \A s \in LiveSlots : s[1] = e /\ s[2] < i => s \in Delivered(c)
  BY DEF Placed, Delivered, LiveSlots, LiveIn, storeVars, chunkVars
<1>1. /\ e \in ChunkId /\ idx[c] \in Nat
      /\ size[e] \in Nat /\ head[e] \in Nat /\ head[e] <= size[e]
  BY StoreNumbers DEF SharedInv, StoreInv, TypeOK, HeadsBehind
<1>2. e = elem[c] => idx[c] <= size[e]
  BY DEF SharedInv, Placed
<1>3. i <= size[e]
  BY <1>1, <1>2
<1>4. ASSUME NEW s \in LiveSlots, s[1] = e, s[2] < i  PROVE s \in Delivered(c)
  <2>1. head[e] <= s[2] /\ s[2] \in Nat
    <3>1. s \in Slot /\ head[e] <= s[2]
      BY <1>4, LiveIs DEF LiveMeans, SharedInv, StoreInv
    <3> QED
      BY <3>1, StoreAssumption DEF Slot
  <2>2. e = elem[c] /\ s[2] < idx[c]
    BY <1>1, <1>4, <2>1
  <2> QED
    BY <1>4, <2>2 DEF SharedInv, Placed
<1> QED
  BY <1>3, <1>4

(* So are the cursors that do not move. *)
LEMMA OthersPlaced ==
  ASSUME SharedInv, UNCHANGED storeVars, NEW d \in Cursors,
         elem'[d] = elem[d], idx'[d] = idx[d], got'[d] = got[d]
  PROVE  Placed(d)'
BY DEF SharedInv, Placed, Delivered, LiveSlots, LiveIn, storeVars, chunkVars

(* The types of positions and of what was delivered. *)
Positions ==
  /\ elem \in [Cursors -> ChunkId \cup {Nil}]
  /\ idx \in [Cursors -> Nat]
  /\ got \in [Cursors -> Seq(ChunkId \X Nat)]

(* Moving a cursor to such a position keeps all cursors well placed. *)
LEMMA MoveKeepsPlaced ==
  ASSUME SharedInv, UNCHANGED <<storeVars, got>>, NEW c \in Cursors,
         NEW e \in ChunkId \cup {Nil}, NEW i \in Nat, MoveTo(c, e, i),
         e # Nil => i = 0 \/ (e = elem[c] /\ (i <= head[e] \/ i <= idx[c]))
  PROVE  Positions' /\ \A d \in Cursors : Placed(d)'
<1>1. /\ elem' = [elem EXCEPT ![c] = e] /\ idx' = [idx EXCEPT ![c] = i]
      /\ elem \in [Cursors -> ChunkId \cup {Nil}] /\ idx \in [Cursors -> Nat]
      /\ got' \in [Cursors -> Seq(ChunkId \X Nat)] /\ got' = got
  BY DEF MoveTo, SharedInv, TypeOK
<1>2. ASSUME NEW d \in Cursors  PROVE Placed(d)'
  <2>1. CASE d = c
    BY <1>1, <2>1, PlacedAt
  <2>2. CASE d # c
    BY <1>1, <2>2, OthersPlaced
  <2> QED
    BY <2>1, <2>2
<1> QED
  BY <1>1, <1>2 DEF Positions

(* And so does staying. *)
LEMMA StayKeepsPlaced ==
  ASSUME SharedInv, UNCHANGED <<storeVars, elem, idx, got>>
  PROVE  Positions' /\ \A d \in Cursors : Placed(d)'
<1>1. Positions'
  BY DEF SharedInv, TypeOK, Positions
<1> QED
  BY <1>1, OthersPlaced

(* The moves of TryRead but for the commit (consumer.go:147, :167, :205,     *)
(* :218; consumer_group.go:95, :116, :152, :165).                            *)
LEMMA TryReadPlaces ==
  ASSUME SharedInv, NEW t \in Threads,
         \/ StoreFront(t) \/ ResetPosition(t) \/ Jump(t) \/ Advance(t)
  PROVE  Positions' /\ \A d \in Cursors : Placed(d)'
<1> DEFINE c == CursorOf[t]
<1>1. /\ c \in Cursors /\ elem[c] \in ChunkId \cup {Nil} /\ idx[c] \in Nat
      /\ cix[t] \in Nat /\ reg[t] \in Nat
      /\ Holds(pc[t], cur[t], cix[t], reg[t])
  BY CursorAssumption DEF SharedInv, TypeOK
<1>2. UNCHANGED <<storeVars, got>>
  BY DEF StoreFront, ResetPosition, Jump, Advance, rest
<1>3. CASE Stay
  BY <1>2, <1>3, StayKeepsPlaced DEF Stay
<1>4. CASE StoreFront(t) /\ ~Stay
  <2>1. MoveTo(c, reg[t], 0) /\ reg[t] \in ChunkId \cup {Nil}
    BY <1>1, <1>4 DEF StoreFront, Holds
  <2> QED
    BY <1>1, <1>2, <2>1, MoveKeepsPlaced
<1>5. CASE ResetPosition(t) /\ ~Stay
  <2>1. MoveTo(c, Nil, 0)
    BY <1>5 DEF ResetPosition
  <2> QED
    BY <1>1, <1>2, <2>1, MoveKeepsPlaced
<1>6. CASE Advance(t) /\ ~Stay
  <2>1. MoveTo(c, reg[t], 0) /\ reg[t] \in ChunkId \cup {Nil}
    BY <1>1, <1>6 DEF Advance, Holds
  <2> QED
    BY <1>1, <1>2, <2>1, MoveKeepsPlaced
<1>7. CASE Jump(t) /\ ~Stay
  <2> DEFINE i == IF c \in Groups THEN idx[c] + 1 ELSE reg[t]
  <2>1. /\ MoveTo(c, elem[c], i) /\ elem[c] = cur[t] /\ idx[c] = cix[t]
        /\ cur[t] \in ChunkId /\ cix[t] < head[cur[t]] /\ reg[t] <= head[cur[t]]
    BY <1>1, <1>7 DEF Jump, Holds, Copied, Unmoved
  <2>2. head[elem[c]] \in Nat
    BY <2>1, StoreNumbers DEF SharedInv, StoreInv
  <2>3. i \in Nat /\ i <= head[elem[c]]
    BY <1>1, <2>1, <2>2
  <2> QED
    BY <1>1, <1>2, <2>1, <2>3, MoveKeepsPlaced
<1> QED
  BY <1>3, <1>4, <1>5, <1>6, <1>7

(* A commit moves over the one slot it delivers (consumer.go:187,            *)
(* consumer_group.go:136).                                                   *)
LEMMA CommitPlaces ==
  ASSUME SharedInv, NEW t \in Threads, Commit(t)
  PROVE  Positions' /\ \A d \in Cursors : Placed(d)'
<1> DEFINE c == CursorOf[t]
           q == <<cur[t], cix[t]>>
<1>1. /\ c \in Cursors /\ cix[t] \in Nat /\ cur[t] \in ChunkId
      /\ cix[t] < size[cur[t]] /\ size[cur[t]] \in Nat
      /\ UNCHANGED storeVars
  <2>1. c \in Cursors /\ cix[t] \in Nat /\ Holds("commit", cur[t], cix[t], reg[t])
    BY CursorAssumption DEF SharedInv, TypeOK, Commit
  <2> QED
    BY <2>1, StoreNumbers DEF SharedInv, StoreInv, Holds, Copied, Commit, rest
<1>2. CASE ~Unmoved(t)
  BY <1>2, <1>1, StayKeepsPlaced DEF Commit, Stay
<1>3. CASE Unmoved(t)
  <2>1. /\ elem[c] = cur[t] /\ idx[c] = cix[t]
        /\ elem' = [elem EXCEPT ![c] = elem[c]] /\ idx' = [idx EXCEPT ![c] = idx[c] + 1]
        /\ got' = [got EXCEPT ![c] = Append(@, q)]
    BY <1>3 DEF Commit, MoveTo, Unmoved
  <2>2. /\ elem \in [Cursors -> ChunkId \cup {Nil}] /\ idx \in [Cursors -> Nat]
        /\ got \in [Cursors -> Seq(ChunkId \X Nat)] /\ q \in ChunkId \X Nat
    BY <1>1 DEF SharedInv, TypeOK
  <2>3. Positions'
    BY <1>1, <2>1, <2>2 DEF Positions
  <2>4. /\ elem'[c] = elem[c] /\ idx'[c] = idx[c] + 1 /\ idx[c] \in Nat
        /\ got'[c] = Append(got[c], q) /\ got[c] \in Seq(ChunkId \X Nat)
    BY <1>1, <2>1, <2>2
  <2>5. Delivered(c)' = Delivered(c) \cup {q}
    <3>1. /\ Len(got[c]) \in Nat /\ DOMAIN got[c] = 1 .. Len(got[c])
          /\ DOMAIN got'[c] = 1 .. Len(got[c]) + 1
          /\ \A i \in 1 .. Len(got[c]) : got'[c][i] = got[c][i]
          /\ got'[c][Len(got[c]) + 1] = q
      BY <2>2, <2>4
    <3>2. \A x : x \in Delivered(c)' <=> \E i \in 1 .. Len(got[c]) + 1 : got'[c][i] = x
      BY <3>1 DEF Delivered
    <3>3. \A x : x \in Delivered(c) <=> \E i \in 1 .. Len(got[c]) : got[c][i] = x
      BY <3>1 DEF Delivered
    <3>4. \A i : i \in 1 .. Len(got[c]) + 1 <=> i \in 1 .. Len(got[c]) \/ i = Len(got[c]) + 1
      BY <3>1
    <3> QED
      BY <3>1, <3>2, <3>3, <3>4
  <2>6. Placed(c)'
    <3>1. /\ LiveSlots' = LiveSlots /\ size' = size
      BY <1>1 DEF LiveSlots, LiveIn, storeVars, chunkVars
    <3>2. ASSUME NEW s \in LiveSlots, s[1] = elem[c], s[2] < idx[c] + 1
          PROVE  s \in Delivered(c) \cup {q}
      <4>1. s = <<s[1], s[2]>> /\ s[2] \in Nat
        <5>1. s \in Slot
          BY LiveIs DEF LiveMeans, SharedInv, StoreInv
        <5> QED
          BY <5>1, StoreAssumption DEF Slot
      <4>2. s[2] < idx[c] \/ s[2] = idx[c]
        BY <2>4, <3>2, <4>1
      <4>3. s[2] < idx[c] => s \in Delivered(c)
        BY <1>1, <3>2, <2>1 DEF SharedInv, Placed, Nil, ChunkId
      <4>4. s[2] = idx[c] => s = q
        BY <2>1, <3>2, <4>1
      <4> QED
        BY <4>2, <4>3, <4>4
    <3>3. idx[c] + 1 <= size[elem[c]]
      BY <1>1, <2>1, <2>4
    <3> QED
      BY <2>4, <2>5, <3>1, <3>2, <3>3 DEF Placed
  <2>7. ASSUME NEW d \in Cursors, d # c  PROVE Placed(d)'
    <3>1. elem'[d] = elem[d] /\ idx'[d] = idx[d] /\ got'[d] = got[d]
      BY <1>1, <2>1, <2>2, <2>7
    <3> QED
      BY <1>1, <3>1, OthersPlaced
  <2> QED
    BY <2>3, <2>6, <2>7
<1> QED
  BY <1>2, <1>3

-----------------------------------------------------------------------------
(* Steps that move a cursor from outside *)

(* A sweep removes finitely many items; what it counts is a number           *)
(* (calculateExpiredCount, consumer.go:882).                                 *)
LEMMA CountsAreNumbers ==
  ASSUME StoreTypeOK
  PROVE  /\ IsFiniteSet(SweptSlots)
         /\ \A S : IsFiniteSet(ExpiredIn(S)) /\ Cardinality(ExpiredIn(S)) \in Nat
         /\ \A e \in ChunkId \cup {Nil}, i \in Nat : ExpiredCount(e, i) \in Nat
<1>1. \A c \in ChunkId : head[c] \in Nat /\ oldHead[c] \in Nat /\ head[c] <= ChunkSize
  BY StoreAssumption DEF StoreTypeOK
<1>2. IsFiniteSet(ChunkId \X (0 .. ChunkSize))
  <2>1. IsFiniteSet(ChunkId) /\ IsFiniteSet(0 .. ChunkSize)
    BY StoreAssumption, FS_Interval DEF ChunkId
  <2> QED
    BY <2>1, FS_Product
<1>3. SweptSlots \subseteq ChunkId \X (0 .. ChunkSize)
  <2> SUFFICES ASSUME NEW s \in SweptSlots  PROVE s \in ChunkId \X (0 .. ChunkSize)
    OBVIOUS
  <2>1. PICK c \in ChunkId : s \in {c} \X (oldHead[c] .. head[c] - 1)
    BY DEF SweptSlots, SweptChunks
  <2>2. oldHead[c] .. head[c] - 1 \subseteq 0 .. ChunkSize
    BY <1>1, StoreAssumption
  <2> QED
    BY <2>1, <2>2
<1>4. IsFiniteSet(SweptSlots)
  BY <1>2, <1>3, FS_Subset
<1>5. \A S : IsFiniteSet(ExpiredIn(S)) /\ Cardinality(ExpiredIn(S)) \in Nat
  BY <1>4, FS_Subset, FS_CardinalityType DEF ExpiredIn
<1>6. ASSUME NEW e \in ChunkId \cup {Nil}, NEW i \in Nat  PROVE ExpiredCount(e, i) \in Nat
  <2>1. Cardinality(SweptSlots) \in Nat
    BY <1>4, FS_CardinalityType
  <2>2. CASE e \in SweptChunks
    <3>1. e \in ChunkId /\ head[e] > oldHead[e] /\ head[e] \in Nat /\ oldHead[e] \in Nat
      BY <1>1, <2>2 DEF SweptChunks, Swept
    <3>2. (IF i >= head[e] THEN 0
           ELSE IF i <= oldHead[e] THEN head[e] - oldHead[e] ELSE head[e] - i) \in Nat
      BY <3>1
    <3>3. Cardinality(ExpiredIn({d \in SweptChunks : d > e})) \in Nat
      BY <1>5
    <3> QED
      BY <2>1, <3>2, <3>3 DEF ExpiredCount
  <2>3. CASE e \notin SweptChunks
    BY <2>1, <2>3 DEF ExpiredCount
  <2> QED
    BY <2>2, <2>3
<1> QED
  BY <1>4, <1>5, <1>6

(* A new consumer starts at the front, a group without a position            *)
(* (consumer.go:739, :831).                                                  *)
LEMMA RegisterPlaces ==
  ASSUME SharedInv, NEW c \in Cursors, Register(c)
  PROVE  Positions' /\ \A d \in Cursors : Placed(d)'
<1> DEFINE e == IF c \in Groups THEN Nil ELSE Front
<1>1. UNCHANGED <<storeVars, got>> /\ MoveTo(c, e, 0)
  BY DEF Register
<1>2. e \in ChunkId \cup {Nil}
  BY FrontIs DEF SharedInv, StoreInv, Front, First
<1> QED
  BY <1>1, <1>2, MoveKeepsPlaced

(* UpdatePositionAfterExpiration (consumer.go:514) moves over items the      *)
(* sweep removed.                                                            *)
LEMMA NotifyPlaces ==
  ASSUME SharedInv, NEW c \in Cursors, NotifyUpdate(c)
  PROVE  Positions' /\ \A d \in Cursors : Placed(d)'
<1>1. UNCHANGED <<storeVars, got>> /\ elem[c] \in ChunkId \cup {Nil} /\ idx[c] \in Nat
  BY DEF NotifyUpdate, SharedInv, TypeOK
<1>2. CASE Stay
  BY <1>1, <1>2, StayKeepsPlaced DEF Stay
<1>3. CASE MoveTo(c, Nil, 0)
  BY <1>1, <1>3, MoveKeepsPlaced
<1>4. CASE MoveTo(c, Front, 0)
  <2>1. Front \in ChunkId \cup {Nil}
    BY FrontIs DEF SharedInv, StoreInv, Front, First
  <2> QED
    BY <1>1, <1>4, <2>1, MoveKeepsPlaced
<1>5. CASE MoveTo(c, elem[c], IndexAfterSweep(elem[c], idx[c])) /\ elem[c] # Nil
  <2> DEFINE i == IndexAfterSweep(elem[c], idx[c])
  <2>1. head[elem[c]] \in Nat
    BY <1>1, <1>5, StoreNumbers DEF SharedInv, StoreInv
  <2>2. i \in Nat /\ (i <= head[elem[c]] \/ i <= idx[c])
    BY <1>1, <2>1 DEF IndexAfterSweep
  <2> HIDE DEF i
  <2>3. MoveTo(c, elem[c], i)
    BY <1>5 DEF i
  <2> QED
    BY <1>1, <2>2, <2>3, MoveKeepsPlaced
<1> QED
  BY <1>2, <1>3, <1>4, <1>5 DEF NotifyUpdate

-----------------------------------------------------------------------------
(* Every step *)

(* The types of the other variables of the cursors and of the notification.  *)
NoteTypes ==
  /\ registered \subseteq Cursors /\ cclosed \subseteq Cursors
  /\ notices \in [Cursors -> Seq(Nat)]
  /\ phantoms \subseteq Cursors
  /\ blank \in [Threads -> BOOLEAN]
  /\ todo \subseteq Cursors
  /\ nc \in Cursors \cup {NoCursor}
  /\ due \in Nat
  /\ seen \in (ChunkId \cup {Nil}) \X Nat
  /\ closing \in {"open", "flagged", "consumers", "cleared"}

(* The types of the locals of the threads. *)
LocalTypes ==
  /\ pc \in [Threads -> Steps]
  /\ cur \in [Threads -> ChunkId \cup {Nil}]
  /\ cix \in [Threads -> Nat]
  /\ reg \in [Threads -> Nat]

(* Together they are the types. *)
LEMMA TypesAre == TypeOK <=> StoreTypeOK /\ Positions /\ LocalTypes /\ NoteTypes
BY DEF TypeOK, Positions, LocalTypes, NoteTypes

(* And after a step. *)
LEMMA TypesAreNext == StoreTypeOK' /\ Positions' /\ LocalTypes' /\ NoteTypes' => TypeOK'
BY DEF TypeOK, Positions, LocalTypes, NoteTypes

(* A step of TryRead leaves the notification and the other cursors alone. *)
LEMMA TryReadNotes ==
  ASSUME SharedInv, NEW t \in Threads, Call(t) \/ TryReadStep(t)
  PROVE  NoteTypes' /\ UNCHANGED storeVars
<1>1. UNCHANGED <<storeVars, registered, cclosed, notices, todo, nc, due, seen, closing>>
  BY DEF Call, TryReadStep, NeedsInit, LoadFront, StoreFront, CopyPosition, LoadPooled,
     ResetPosition, LoadSize, Get, Commit, LoadHead, Jump, LoadNext, Advance, rest, noteVars
<1>2. NoteTypes /\ CursorOf[t] \in Cursors
  BY TypesAre, CursorAssumption DEF SharedInv
<1>3. \/ phantoms' = phantoms
      \/ phantoms' = phantoms \cup {CursorOf[t]}
  BY DEF Call, TryReadStep, NeedsInit, LoadFront, StoreFront, CopyPosition, LoadPooled,
     ResetPosition, LoadSize, Get, Commit, LoadHead, Jump, LoadNext, Advance
<1>4. \/ blank' = blank
      \/ blank' = [blank EXCEPT ![t] = FALSE]
      \/ blank' = [blank EXCEPT ![t] = Wiped(cur[t], cix[t])]
  BY DEF Call, TryReadStep, NeedsInit, LoadFront, StoreFront, CopyPosition, LoadPooled,
     ResetPosition, LoadSize, Get, Commit, LoadHead, Jump, LoadNext, Advance,
     Return, Again, Forget
<1>5. blank' \in [Threads -> BOOLEAN]
  <2>1. Wiped(cur[t], cix[t]) \in BOOLEAN
    BY DEF Wiped
  <2> QED
    BY <1>2, <1>4, <2>1 DEF NoteTypes
<1> QED
  BY <1>1, <1>2, <1>3, <1>5 DEF NoteTypes

(* The others leave the threads alone. *)
LEMMA OtherNotes ==
  ASSUME SharedInv,
         \/ \E c \in Cursors : Register(c)
         \/ Enqueue \/ Sweep \/ BeginNotify \/ Notify \/ FinishNotify \/ Close \/ UNCHANGED vars
  PROVE  NoteTypes' /\ UNCHANGED threadVars
<1>1. NoteTypes /\ StoreTypeOK /\ Positions /\ Groups \subseteq Cursors
  BY TypesAre, CursorAssumption DEF SharedInv
<1>2. CASE \E c \in Cursors : Register(c)
  BY <1>1, <1>2 DEF Register, NoteTypes, threadVars, noteVars
<1>3. CASE Enqueue \/ Sweep \/ FinishNotify \/ UNCHANGED vars
  BY <1>1, <1>3 DEF Enqueue, Sweep, FinishNotify, vars, NoteTypes, threadVars, noteVars, cursorVars
<1>4. CASE BeginNotify
  BY <1>1, <1>4 DEF BeginNotify, NoteTypes, threadVars, cursorVars
<1>5. CASE Close
  BY <1>1, <1>5 DEF Close, BeginClose, CloseConsumers, ClearData, NoteTypes, threadVars, noteVars,
     cursorVars
<1>6. ASSUME NEW c \in Cursors, NotifyRead(c)  PROVE NoteTypes' /\ UNCHANGED threadVars
  <2>1. elem[c] \in ChunkId \cup {Nil} /\ idx[c] \in Nat
    BY <1>1 DEF Positions
  <2>2. ExpiredCount(elem[c], idx[c]) \in Nat
    BY <1>1, <2>1, CountsAreNumbers
  <2> QED
    BY <1>1, <1>6, <2>1, <2>2 DEF NotifyRead, NoteTypes, threadVars, cursorVars
<1>7. ASSUME NEW c \in Cursors, NotifySend(c)  PROVE NoteTypes' /\ UNCHANGED threadVars
  <2>1. notices' \in [Cursors -> Seq(Nat)]
    <3>1. notices' = notices \/ notices' = [notices EXCEPT ![c] = Append(@, due)]
      BY <1>7 DEF NotifySend
    <3>2. notices \in [Cursors -> Seq(Nat)] /\ due \in Nat
      BY <1>1 DEF NoteTypes
    <3>3. notices[c] \in Seq(Nat)
      BY <3>2
    <3>4. Append(notices[c], due) \in Seq(Nat)
      BY <3>2, <3>3
    <3> QED
      BY <3>1, <3>2, <3>4
  <2>2. /\ UNCHANGED <<registered, cclosed, phantoms, blank, todo, nc, seen, closing>>
        /\ due' = 0 /\ UNCHANGED threadVars
    BY <1>7 DEF NotifySend, threadVars, cursorVars
  <2> QED
    BY <1>1, <2>1, <2>2 DEF NoteTypes
<1>8. ASSUME NEW c \in Cursors, NotifyUpdate(c)  PROVE NoteTypes' /\ UNCHANGED threadVars
  <2>1. /\ UNCHANGED <<registered, cclosed, notices, phantoms, blank, due, closing>>
        /\ nc' = NoCursor /\ todo' = todo \ {c} /\ seen' = <<Nil, 0>> /\ UNCHANGED threadVars
    BY <1>8 DEF NotifyUpdate, threadVars
  <2> QED
    BY <1>1, <2>1 DEF NoteTypes
<1> QED
  BY <1>2, <1>3, <1>4, <1>5, <1>6, <1>7, <1>8 DEF Notify

(* The invariant is kept. *)
LEMMA SharedInvStep == SharedInv /\ [Next]_vars => SharedInv'
<1> SUFFICES ASSUME SharedInv, [Next]_vars  PROVE SharedInv'
  OBVIOUS
<1>1. [StoreNext]_storeVars /\ StoreInv' /\ StoreTypeOK'
  BY StepsTheStore, StoreInvStep DEF SharedInv, StoreInv
<1>2. SUFFICES /\ Positions' /\ LocalTypes' /\ NoteTypes'
               /\ (\A t \in Threads : Holds(pc[t], cur[t], cix[t], reg[t]))'
               /\ \A d \in Cursors : Placed(d)'
  BY <1>1, TypesAreNext DEF SharedInv
<1>3. ASSUME NEW t \in Threads, Call(t) \/ TryReadStep(t)
      PROVE  /\ LocalTypes' /\ NoteTypes' /\ Positions'
             /\ (\A u \in Threads : Holds(pc[u], cur[u], cix[u], reg[u]))'
             /\ \A d \in Cursors : Placed(d)'
  <2>1. NoteTypes' /\ UNCHANGED storeVars
    BY <1>3, TryReadNotes
  <2>2. PICK s \in Steps, k \in ChunkId \cup {Nil}, i \in Nat, r \in Nat :
               Local(t, s, k, i, r) /\ Holds(s, k, i, r)
    BY <1>3, LocalsChecked
  <2>3. LocalTypes' /\ \A u \in Threads \ {t} : /\ pc'[u] = pc[u] /\ cur'[u] = cur[u]
                                                /\ cix'[u] = cix[u] /\ reg'[u] = reg[u]
    BY <2>2, TypesAre DEF SharedInv, Local, LocalTypes
  <2>4. pc'[t] = s /\ cur'[t] = k /\ cix'[t] = i /\ reg'[t] = r
    BY <2>2, TypesAre DEF SharedInv, Local, LocalTypes
  <2>5. ASSUME NEW u \in Threads  PROVE Holds(pc[u], cur[u], cix[u], reg[u])'
    <3>1. size' = size /\ head' = head
      BY <2>1 DEF storeVars, chunkVars
    <3>2. CASE u = t
      BY <2>2, <2>4, <3>1, <3>2 DEF Holds
    <3>3. CASE u # t
      BY <2>3, <3>1, <3>3 DEF Holds, SharedInv
    <3> QED
      BY <3>2, <3>3
  <2>6. Positions' /\ \A d \in Cursors : Placed(d)'
    <3>1. CASE \/ StoreFront(t) \/ ResetPosition(t) \/ Jump(t) \/ Advance(t)
      BY <3>1, TryReadPlaces
    <3>2. CASE Commit(t)
      BY <3>2, CommitPlaces
    <3>3. CASE \/ Call(t) \/ NeedsInit(t) \/ LoadFront(t) \/ CopyPosition(t) \/ LoadPooled(t)
               \/ LoadSize(t) \/ Get(t) \/ LoadHead(t) \/ LoadNext(t)
      <4>1. UNCHANGED <<elem, idx, got>>
        BY <3>3 DEF Call, NeedsInit, LoadFront, CopyPosition, LoadPooled, LoadSize, Get, LoadHead,
           LoadNext
      <4> QED
        BY <2>1, <4>1, StayKeepsPlaced
    <3> QED
      BY <1>3, <3>1, <3>2, <3>3 DEF TryReadStep
  <2> QED
    BY <2>1, <2>3, <2>5, <2>6
<1>4. ASSUME \/ \E c \in Cursors : Register(c)
             \/ Enqueue \/ Sweep \/ BeginNotify \/ Notify \/ FinishNotify \/ Close
             \/ UNCHANGED vars
      PROVE  /\ LocalTypes' /\ NoteTypes' /\ Positions'
             /\ (\A u \in Threads : Holds(pc[u], cur[u], cix[u], reg[u]))'
             /\ \A d \in Cursors : Placed(d)'
  <2>1. NoteTypes' /\ UNCHANGED <<pc, cur, cix, reg>>
    BY <1>4, OtherNotes DEF threadVars
  <2>2. LocalTypes'
    BY <2>1, TypesAre DEF LocalTypes, SharedInv
  <2>3. ASSUME NEW u \in Threads  PROVE Holds(pc[u], cur[u], cix[u], reg[u])'
    <3>1. cix[u] \in Nat /\ reg[u] \in Nat /\ Holds(pc[u], cur[u], cix[u], reg[u])
      BY DEF SharedInv, TypeOK
    <3> QED
      BY <1>1, <2>1, <3>1, StoreKeepsHolds
  <2>4. Positions' /\ \A d \in Cursors : Placed(d)'
    <3>1. CASE \E c \in Cursors : Register(c)
      BY <3>1, RegisterPlaces
    <3>2. CASE \E c \in Cursors : NotifyUpdate(c)
      BY <3>2, NotifyPlaces
    <3>3. CASE \/ Enqueue \/ Sweep \/ BeginNotify \/ FinishNotify \/ Close \/ UNCHANGED vars
               \/ \E c \in Cursors : NotifyRead(c) \/ NotifySend(c)
      <4>1. UNCHANGED <<elem, idx, got>>
        BY <3>3 DEF Enqueue, Sweep, BeginNotify, FinishNotify, Close, BeginClose, CloseConsumers,
           ClearData, NotifyRead, NotifySend, cursorVars, vars
      <4>2. Positions'
        BY <4>1, TypesAre DEF Positions, SharedInv
      <4>3. \A d \in Cursors : Placed(d)'
        BY <1>1, <4>1, StoreKeepsPlaced
      <4> QED
        BY <4>2, <4>3
    <3> QED
      BY <1>4, <3>1, <3>2, <3>3 DEF Notify
  <2> QED
    BY <2>1, <2>2, <2>3, <2>4
<1> QED
  BY <1>3, <1>4 DEF Next

(* A queue without consumers satisfies it (queue.go:87). *)
LEMMA SharedInvInit == Init => SharedInv
<1> SUFFICES ASSUME Init  PROVE SharedInv
  OBVIOUS
<1>1. StoreInv /\ StoreTypeOK
  BY StoreInvInit DEF Init, StoreInv
<1>2. Positions /\ LocalTypes
  BY DEF Init, Positions, LocalTypes, Steps
<1>3. NoteTypes
  BY DEF Init, NoteTypes
<1>4. \A t \in Threads : Holds(pc[t], cur[t], cix[t], reg[t])
  BY DEF Init, Holds, Copied
<1>5. \A c \in Cursors : Placed(c)
  BY DEF Init, Placed
<1> QED
  BY <1>1, <1>2, <1>3, <1>4, <1>5, TypesAre DEF SharedInv

(* In every behaviour. *)
LEMMA SharedInvariant == Spec => []SharedInv
BY SharedInvInit, SharedInvStep, PTL DEF Spec

(* Positions, locals, notifications and what was delivered are well typed,   *)
(* whatever the readers, the sweeps and Close do to each other (consumer.go, *)
(* consumer_group.go).                                                       *)
THEOREM CursorTypes == Spec => []TypeOK
<1>1. SharedInv => TypeOK
  BY DEF SharedInv
<1> QED
  BY <1>1, SharedInvariant, PTL

(* However many goroutines share a cursor and whatever the clock does, no    *)
(* live item of the chunk it stands in lies before it without having been    *)
(* delivered (consumer.go:201, :527; consumer_group.go:147).                 *)
THEOREM NoLiveItemSkipped == Spec => []NoSkipInChunk
<1>1. SharedInv => NoSkipInChunk
  <2> SUFFICES ASSUME SharedInv, NEW c \in registered, NEW s \in LiveSlots,
                      s[1] = elem[c], Behind(c, s)
               PROVE  s \in Delivered(c)
    BY DEF NoSkipInChunk
  <2>1. c \in Cursors /\ elem[c] # Nil /\ elem[c] \in Nat /\ s[2] < idx[c]
    <3>1. c \in Cursors /\ elem[c] # Nil /\ elem[c] \in ChunkId
      BY DEF SharedInv, TypeOK, Behind
    <3>2. elem[c] \in Nat
      BY <3>1, StoreNumbers DEF SharedInv, StoreInv
    <3> QED
      BY <3>1, <3>2 DEF Behind, Precedes
  <2> QED
    BY <2>1 DEF SharedInv, Placed
<1> QED
  BY <1>1, SharedInvariant, PTL

-----------------------------------------------------------------------------
(* What is delivered was not overwritten *)

(* Before the data is cleared, nothing wiped has been copied.                *)
Unwiped ==
  closing # "cleared" => zeroed = {} /\ phantoms = {} /\ \A t \in Threads : ~blank[t]

(* Get returns no item that a sweep overwrote, since it looks at the head    *)
(* under the lock that sweeps take for writing (data.go:123, consumer.go:180). *)
LEMMA UnwipedStep ==
  ASSUME SharedInv, Unwiped, [Next]_vars
  PROVE  Unwiped'
<1>1. CASE ClearData
  BY <1>1 DEF ClearData, Unwiped
<1>2. CASE ~ClearData
  <2>1. zeroed' = zeroed
    <3>1. CASE UNCHANGED storeVars
      BY <3>1 DEF storeVars, chunkVars
    <3>2. CASE \/ AddChunk \/ AddItem \/ SweepBegin \/ ExpireItem \/ UnlinkEmpty \/ LeaveChunk
               \/ EndScan \/ EndNotify \/ CloseFlag
      BY <3>2 DEF AddChunk, PushChunk, AddItem, PutItem, SweepBegin, ExpireItem, UnlinkEmpty,
         LeaveChunk, EndScan, EndNotify, CloseFlag, chunkVars
    <3>3. \/ UNCHANGED storeVars
          \/ AddChunk \/ AddItem \/ SweepBegin \/ ExpireItem \/ UnlinkEmpty \/ LeaveChunk
          \/ EndScan \/ EndNotify \/ CloseFlag
      <4>1. CASE \E t \in Threads : Call(t) \/ TryReadStep(t)
        BY <4>1, TryReadNotes
      <4>2. CASE (\E c \in Cursors : Register(c)) \/ Notify \/ UNCHANGED vars
        BY <4>2 DEF Register, Notify, NotifyRead, NotifySend, NotifyUpdate, vars
      <4>3. CASE Enqueue \/ Sweep \/ BeginNotify \/ FinishNotify \/ Close
        BY <1>2, <4>3 DEF Enqueue, Sweep, BeginNotify, FinishNotify, Close, BeginClose,
           CloseConsumers
      <4> QED
        BY <4>1, <4>2, <4>3 DEF Next
    <3> QED
      BY <3>1, <3>2, <3>3
  <2>2. CASE \E t \in Threads : Call(t) \/ TryReadStep(t)
    <3>1. PICK t \in Threads : Call(t) \/ TryReadStep(t)
      BY <2>2
    <3>2. closing' = closing
      BY <3>1 DEF Call, TryReadStep, NeedsInit, LoadFront, StoreFront, CopyPosition, LoadPooled,
         ResetPosition, LoadSize, Get, Commit, LoadHead, Jump, LoadNext, Advance, rest
    <3>3. blank \in [Threads -> BOOLEAN]
      BY DEF SharedInv, TypeOK
    <3>4. CASE closing = "cleared"
      BY <3>2, <3>4 DEF Unwiped
    <3>5. CASE closing # "cleared" /\ Get(t)
      <4>1. cur[t] \in ChunkId /\ cix[t] \in Nat /\ head[cur[t]] \in Nat
        <5>1. cur[t] \in ChunkId /\ cix[t] \in Nat
          BY <3>5 DEF Get, SharedInv, Holds, Copied, TypeOK
        <5> QED
          BY <5>1, StoreNumbers DEF SharedInv, StoreInv
      <4>2. \/ blank' = blank
            \/ /\ head[cur[t]] <= cix[t]
               /\ blank' = [blank EXCEPT ![t] = Wiped(cur[t], cix[t])]
        BY <3>5 DEF Get
      <4>3. head[cur[t]] <= cix[t] => ~Wiped(cur[t], cix[t])
        BY <3>5, <4>1 DEF Wiped, Unwiped
      <4>4. phantoms' = phantoms
        BY <3>5 DEF Get
      <4> QED
        BY <2>1, <3>2, <3>3, <3>5, <4>2, <4>3, <4>4 DEF Unwiped
    <3>6. CASE closing # "cleared" /\ ~Get(t)
      <4>1. blank' = blank \/ blank' = [blank EXCEPT ![t] = FALSE]
        BY <3>1, <3>6 DEF Call, TryReadStep, NeedsInit, LoadFront, StoreFront, CopyPosition,
           LoadPooled, ResetPosition, LoadSize, Commit, LoadHead, Jump, LoadNext, Advance,
           Return, Again, Forget
      <4>2. phantoms' = phantoms \/ blank[t]
        BY <3>1, <3>6 DEF Call, TryReadStep, NeedsInit, LoadFront, StoreFront, CopyPosition,
           LoadPooled, ResetPosition, LoadSize, Commit, LoadHead, Jump, LoadNext, Advance
      <4> QED
        BY <2>1, <3>2, <3>3, <3>6, <4>1, <4>2 DEF Unwiped
    <3> QED
      BY <3>1, <3>4, <3>5, <3>6
  <2>3. CASE \/ \E c \in Cursors : Register(c)
             \/ Enqueue \/ Sweep \/ BeginNotify \/ Notify \/ FinishNotify \/ Close
             \/ UNCHANGED vars
    <3>1. UNCHANGED <<phantoms, blank>>
      BY <2>3 DEF Register, Enqueue, Sweep, BeginNotify, Notify, NotifyRead, NotifySend,
         NotifyUpdate, FinishNotify, Close, BeginClose, CloseConsumers, ClearData, vars, threadVars
    <3>2. closing' # "cleared" => closing # "cleared"
      BY <2>3 DEF Register, Enqueue, Sweep, BeginNotify, Notify, NotifyRead, NotifySend,
         NotifyUpdate, FinishNotify, Close, BeginClose, CloseConsumers, ClearData, vars
    <3> QED
      BY <2>1, <3>1, <3>2 DEF Unwiped
  <2> QED
    BY <2>2, <2>3 DEF Next
<1> QED
  BY <1>1, <1>2

(* What TryRead returns is what was enqueued, until Clear at the end of      *)
(* Close (data.go:123, chunked_list.go:215).                                 *)
THEOREM NothingWipedDelivered == Spec => []DeliversWhatWasEnqueued
<1>1. Init => Unwiped
  BY DEF Init, StoreInit, Unwiped
<1>2. Unwiped => DeliversWhatWasEnqueued
  BY DEF Unwiped, DeliversWhatWasEnqueued
<1>3. SharedInv /\ Unwiped /\ [Next]_vars => Unwiped'
  BY UnwipedStep
<1> QED
  BY <1>1, <1>2, <1>3, SharedInvariant, PTL DEF Spec
===============================================================================
