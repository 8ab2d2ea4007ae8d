----------------------------- MODULE ReaderProofs -----------------------------
(***************************************************************************)
(* Proofs about readers, however many goroutines read a consumer or a      *)
(* group: which items a cursor can miss between two chunks, whatever the   *)
(* clock does; and, if no tick falls between scan and stop test of a       *)
(* sweep, what a notification counts and what the queries answer.          *)
(***************************************************************************)
EXTENDS Queries, CursorProofs

-----------------------------------------------------------------------------
(* What a cursor goes past without delivering it *)

(* NextElement leads onward from a full chunk, over no listed one; of the    *)
(* listed chunks only the last one made may have room.                       *)
NextOnward ==
  \A c \in ChunkId : next[c] # Nil =>
    /\ c < next[c] /\ next[c] <= allocated
    /\ IsFull(c)
    /\ \A d \in linked : d <= c \/ next[c] <= d

OlderFull == \A c \in linked : c < allocated => IsFull(c)

(* The chunk r a thread at step s is about to move its cursor to: no listed  *)
(* one lies before it, or between the chunk k the thread leaves and it.      *)
GoesOn(s, k, r) ==
  /\ s = "store" => r <= allocated /\ \A d \in linked : r <= d
  /\ s = "advance" /\ r # Nil => /\ k < r /\ r <= allocated
                                 /\ \A d \in linked : d <= k \/ r <= d

OnwardInv ==
  /\ NextOnward
  /\ OlderFull
  /\ \A c \in Cursors : elem[c] <= allocated
  /\ \A t \in Threads : GoesOn(pc[t], cur[t], reg[t])

(* A chunk is linked behind a full one, and only the last has room for an    *)
(* item (chunked_list.go:47, :52).                                           *)
LEMMA StoreLeadsOnward ==
  ASSUME StoreInv, NextOnward, OlderFull, StoreInv', [StoreNext]_storeVars
  PROVE  NextOnward' /\ OlderFull'
<1>1. /\ allocated \in Nat /\ linked \subseteq 1 .. allocated
      /\ ChunkId \subseteq Nat \ {0} /\ linked \subseteq ChunkId
      /\ \A c \in ChunkId : size[c] \in Nat /\ size'[c] \in Nat /\ size[c] <= size'[c]
      /\ next \in [ChunkId -> ChunkId \cup {Nil}] /\ ChunkSize \in Nat
  BY Chunks, StoreNumbers, StoreNumbersNext, SizesGrow, StoreAssumption
  DEF StoreInv, StoreTypeOK
<1>2. \A c \in ChunkId : IsFull(c) => IsFull(c)'
  BY <1>1 DEF IsFull
<1>3. CASE AddChunk
  <2> DEFINE n == allocated + 1
  <2>1. /\ allocated' = n /\ linked' = linked \cup {n} /\ n \in ChunkId
        /\ next' = IF linked = {} THEN next ELSE [next EXCEPT ![Back] = n]
        /\ linked # {} => IsFull(Back)
    <3>1. n <= MaxChunks
      BY <1>1, <1>3, StoreAssumption DEF AddChunk, PushChunk
    <3> QED
      BY <1>1, <1>3, <3>1, StoreAssumption DEF AddChunk, PushChunk, NeedsChunk, ChunkId
  <2>2. linked # {} => Back \in linked /\ Back \in ChunkId /\ \A d \in linked : d <= Back
    BY BackIs DEF StoreInv
  <2>3. ASSUME NEW c \in ChunkId, next'[c] # Nil
        PROVE  /\ c < next'[c] /\ next'[c] <= n /\ IsFull(c)'
               /\ \A d \in linked' : d <= c \/ next'[c] <= d
    <3>1. CASE linked # {} /\ c = Back
      <4>1. next'[c] = n
        BY <1>1, <2>1, <3>1
      <4>2. c < n /\ IsFull(c)
        BY <1>1, <2>1, <2>2, <3>1
      <4>3. \A d \in linked' : d <= c \/ n <= d
        BY <1>1, <2>1, <2>2, <3>1
      <4> QED
        BY <1>1, <1>2, <4>1, <4>2, <4>3
    <3>2. CASE linked = {} \/ c # Back
      <4>1. next'[c] = next[c]
        BY <1>1, <2>1, <3>2
      <4>2. /\ c < next[c] /\ next[c] <= allocated /\ IsFull(c)
            /\ \A d \in linked : d <= c \/ next[c] <= d
        BY <2>3, <4>1 DEF NextOnward
      <4>3. next[c] \in Nat
        BY <1>1, <2>3, <4>1
      <4>4. next[c] <= n
        BY <1>1, <4>2, <4>3
      <4> QED
        BY <1>2, <2>1, <4>1, <4>2, <4>4
    <3> QED
      BY <3>1, <3>2
  <2>4. ASSUME NEW c \in linked', c < n  PROVE IsFull(c)'
    <3>1. c \in linked /\ c \in Nat /\ c <= allocated
      BY <1>1, <2>1, <2>4
    <3>2. CASE c < allocated
      BY <1>1, <1>2, <3>1, <3>2 DEF OlderFull
    <3>3. CASE c = allocated
      <4>1. Back \in linked /\ c <= Back /\ Back \in Nat
        BY <1>1, <2>2, <3>1
      <4>2. Back <= allocated
        BY <1>1, <4>1
      <4>3. c = Back
        BY <1>1, <3>3, <4>1, <4>2
      <4> QED
        BY <1>1, <1>2, <2>1, <3>1, <4>3
    <3> QED
      BY <1>1, <3>1, <3>2, <3>3
  <2> QED
    BY <2>1, <2>3, <2>4 DEF NextOnward, OlderFull
<1>4. CASE ~AddChunk
  <2>1. next' = next /\ allocated' = allocated /\ linked' \subseteq linked
    BY <1>4 DEF StoreNext, AddItem, PutItem, SweepBegin, ExpireItem, UnlinkEmpty, LeaveChunk,
       EndScan, EndNotify, CloseFlag, Clear, storeVars, chunkVars
  <2>2. NextOnward'
    BY <1>2, <2>1 DEF NextOnward
  <2>3. OlderFull'
    BY <1>1, <1>2, <2>1 DEF OlderFull
  <2> QED
    BY <2>2, <2>3
<1> QED
  BY <1>3, <1>4

(* What a thread is about to move to stays the first of its kind, as new     *)
(* chunks are linked at the back only (chunked_list.go:47).                  *)
LEMMA StoreKeepsGoing ==
  ASSUME StoreInv, StoreInv', [StoreNext]_storeVars,
         NEW s, NEW k \in Nat, NEW r \in Nat, GoesOn(s, k, r)
  PROVE  GoesOn(s, k, r)'
<1>1. /\ allocated \in Nat /\ allocated' \in Nat /\ allocated <= allocated'
      /\ linked' \subseteq 1 .. allocated'
      /\ \A c \in 1 .. allocated : c \in linked' => c \in linked
  <2>1. StoreTypeOK' /\ StoreTypeOK
    BY DEF StoreInv
  <2>2. allocated' \in Nat /\ linked' \subseteq 1 .. allocated'
    BY <2>1, StoreAssumption DEF StoreTypeOK
  <2> QED
    BY <2>1, <2>2, Chunks, StoreMoves
<1>2. \A d \in linked' : d \in Nat /\ (d \in linked \/ d > allocated)
  BY <1>1
<1>3. s = "store" => r <= allocated' /\ \A d \in linked' : r <= d
  BY <1>1, <1>2 DEF GoesOn
<1>4. s = "advance" /\ r # Nil => /\ k < r /\ r <= allocated'
                                 /\ \A d \in linked' : d <= k \/ r <= d
  BY <1>1, <1>2 DEF GoesOn
<1> QED
  BY <1>3, <1>4 DEF GoesOn

(* The front that TryRead loads is the first chunk listed, NextElement the   *)
(* next one (consumer.go:143, :213; consumer_group.go:90, :160).             *)
LEMMA LoadsGoOn ==
  ASSUME SharedInv, OnwardInv, NEW t \in Threads, Call(t) \/ TryReadStep(t)
  PROVE  GoesOn(pc'[t], cur'[t], reg'[t])
<1>1. pc \in [Threads -> Steps] /\ reg \in [Threads -> Nat]
  BY DEF SharedInv, TypeOK
<1>2. CASE LoadFront(t)
  <2>1. CASE linked = {}
    <3>1. pc'[t] = "idle"
      BY <1>1, <1>2, <2>1 DEF LoadFront, Return, Forget, Goto
    <3> QED
      BY <3>1 DEF GoesOn
  <2>2. CASE linked # {}
    <3>1. pc'[t] = "store" /\ reg'[t] = Front
      BY <1>1, <1>2, <2>2 DEF LoadFront, Goto
    <3>2. Front \in linked /\ \A d \in linked : Front <= d
      BY <2>2, FrontIs DEF SharedInv, StoreInv
    <3>3. Front <= allocated
      BY <3>2, Chunks DEF SharedInv, StoreInv
    <3> QED
      BY <3>1, <3>2, <3>3 DEF GoesOn
  <2> QED
    BY <2>1, <2>2
<1>3. CASE LoadNext(t)
  <2>1. cur[t] \in ChunkId
    BY <1>3 DEF LoadNext, SharedInv, Holds, Copied
  <2>2. pc'[t] = "advance" /\ reg'[t] = next[cur[t]] /\ cur'[t] = cur[t]
    BY <1>1, <1>3 DEF LoadNext, Goto
  <2>3. next[cur[t]] # Nil =>
          /\ cur[t] < next[cur[t]] /\ next[cur[t]] <= allocated
          /\ \A d \in linked : d <= cur[t] \/ next[cur[t]] <= d
    BY <2>1 DEF OnwardInv, NextOnward
  <2> QED
    BY <2>2, <2>3 DEF GoesOn
<1>4. CASE ~LoadFront(t) /\ ~LoadNext(t)
  <2>1. pc'[t] \notin {"store", "advance"}
    BY <1>1, <1>4 DEF Call, TryReadStep, NeedsInit, StoreFront, CopyPosition, LoadPooled,
       ResetPosition, LoadSize, Get, Commit, LoadHead, Jump, Advance, Goto, Return, Again, Forget
  <2> QED
    BY <2>1 DEF GoesOn
<1> QED
  BY <1>2, <1>3, <1>4

(* Where a step may take a position: to no chunk, to the first one listed,   *)
(* or within the chunk it stands in; or else it is the move to the next one. *)
Leaps(c) ==
  \/ elem'[c] \in {Nil, elem[c]}
  \/ elem'[c] <= allocated /\ \A d \in linked : elem'[c] <= d

(* A step moves a cursor so, or leaves it (consumer.go:147, :167, :205, :218, *)
(* :534, :739; consumer_group.go:95, :116, :152, :165).                      *)
LEMMA CursorsMove ==
  ASSUME SharedInv, OnwardInv, [Next]_vars, NEW c \in Cursors
  PROVE  /\ Delivered(c) \subseteq Delivered(c)'
         /\ \/ UNCHANGED <<elem[c], idx[c], got[c]>>
            \/ /\ UNCHANGED storeVars
               /\ \/ Leaps(c)
                  \/ \E t \in Threads : /\ CursorOf[t] = c /\ Advance(t) /\ Unmoved(t)
                                        /\ reg[t] # Nil /\ elem'[c] = reg[t]
                                        /\ idx'[c] = 0 /\ got'[c] = got[c]
<1> USE DEF Leaps
<1>1. /\ elem \in [Cursors -> ChunkId \cup {Nil}] /\ idx \in [Cursors -> Nat]
      /\ got \in [Cursors -> Seq(ChunkId \X Nat)]
      /\ linked # {} => /\ Front \in linked /\ Front <= allocated
                        /\ \A d \in linked : Front <= d
      /\ linked = {} => Front = Nil
  <2>1. StoreTypeOK
    BY DEF SharedInv, StoreInv
  <2>2. linked # {} => /\ Front \in linked /\ Front <= allocated
                        /\ \A d \in linked : Front <= d
    BY <2>1, FrontIs, Chunks
  <2>3. linked = {} => Front = Nil
    BY DEF Front, First
  <2> QED
    BY <2>2, <2>3 DEF SharedInv, TypeOK
<1>2. ASSUME NEW t \in Threads, Call(t) \/ TryReadStep(t)
      PROVE  /\ UNCHANGED storeVars
             /\ Delivered(c) \subseteq Delivered(c)'
             /\ \/ UNCHANGED <<elem[c], idx[c], got[c]>>
                \/ Leaps(c)
                \/ /\ CursorOf[t] = c /\ Advance(t) /\ Unmoved(t)
                   /\ reg[t] # Nil /\ elem'[c] = reg[t] /\ idx'[c] = 0 /\ got'[c] = got[c]
  <2> DEFINE b == CursorOf[t]
  <2>1. UNCHANGED storeVars
    BY <1>2, TryReadNotes
  <2>2. CASE Commit(t)
    <3>1. \/ UNCHANGED <<elem, idx, got>>
          \/ /\ MoveTo(b, elem[b], idx[b] + 1)
             /\ got' = [got EXCEPT ![b] = Append(@, <<cur[t], cix[t]>>)]
      BY <2>2 DEF Commit, Stay
    <3>2. elem'[c] = elem[c]
      BY <1>1, <3>1 DEF MoveTo
    <3>3. got'[c] = got[c] \/ got'[c] = Append(got[c], <<cur[t], cix[t]>>)
      BY <1>1, <3>1
    <3>4. Delivered(c) \subseteq Delivered(c)'
      <4>1. got[c] \in Seq(ChunkId \X Nat)
        BY <1>1
      <4>2. CASE got'[c] = got[c]
        BY <4>2 DEF Delivered
      <4>3. CASE got'[c] = Append(got[c], <<cur[t], cix[t]>>)
        <5>1. \A i \in DOMAIN got[c] : i \in DOMAIN got'[c] /\ got'[c][i] = got[c][i]
          BY <4>1, <4>3
        <5> QED
          BY <5>1 DEF Delivered
      <4> QED
        BY <3>3, <4>2, <4>3
    <3> QED
      BY <2>1, <3>2, <3>4
  <2>3. CASE ~Commit(t)
    <3>1. got' = got
      BY <1>2, <2>3 DEF Call, TryReadStep, NeedsInit, LoadFront, StoreFront, CopyPosition,
         LoadPooled, ResetPosition, LoadSize, Get, LoadHead, Jump, LoadNext, Advance
    <3>2. Delivered(c) \subseteq Delivered(c)'
      BY <3>1 DEF Delivered
    <3>3. CASE Stay
      BY <2>1, <3>1, <3>2, <3>3 DEF Stay
    <3>4. CASE StoreFront(t) /\ ~Stay
      <4>1. elem' = [elem EXCEPT ![b] = reg[t]] /\ idx' = [idx EXCEPT ![b] = 0]
        BY <3>4 DEF StoreFront, MoveTo
      <4>2. reg[t] <= allocated /\ \A d \in linked : reg[t] <= d
        BY <3>4 DEF StoreFront, OnwardInv, GoesOn
      <4> QED
        BY <1>1, <2>1, <3>1, <3>2, <4>1, <4>2
    <3>5. CASE ResetPosition(t) /\ ~Stay
      <4>1. elem' = [elem EXCEPT ![b] = Nil] /\ idx' = [idx EXCEPT ![b] = 0]
        BY <3>5 DEF ResetPosition, MoveTo
      <4> QED
        BY <1>1, <2>1, <3>1, <3>2, <4>1
    <3>6. CASE Jump(t) /\ ~Stay
      <4>1. elem' = [elem EXCEPT ![b] = elem[b]]
        BY <3>6 DEF Jump, MoveTo
      <4> QED
        BY <1>1, <2>1, <3>1, <3>2, <4>1
    <3>7. CASE Advance(t) /\ ~Stay
      <4>1. /\ Unmoved(t) /\ reg[t] # Nil
            /\ elem' = [elem EXCEPT ![b] = reg[t]] /\ idx' = [idx EXCEPT ![b] = 0]
        BY <3>7 DEF Advance, MoveTo
      <4> QED
        BY <1>1, <2>1, <3>1, <3>2, <3>7, <4>1
    <3>8. \/ Stay
          \/ (StoreFront(t) \/ ResetPosition(t) \/ Jump(t) \/ Advance(t)) /\ ~Stay
      BY <1>2, <2>3 DEF Call, TryReadStep, NeedsInit, LoadFront, CopyPosition,
         LoadPooled, LoadSize, Get, LoadHead, LoadNext, Stay
    <3> QED
      BY <3>3, <3>4, <3>5, <3>6, <3>7, <3>8
  <2> QED
    BY <2>2, <2>3
<1>3. ASSUME NEW d \in Cursors, Register(d) \/ NotifyUpdate(d)
      PROVE  /\ UNCHANGED storeVars
             /\ Delivered(c) \subseteq Delivered(c)'
             /\ UNCHANGED <<elem[c], idx[c], got[c]>> \/ Leaps(c)
  <2>1. UNCHANGED storeVars /\ got' = got
    BY <1>3 DEF Register, NotifyUpdate
  <2>2. Delivered(c) \subseteq Delivered(c)'
    BY <2>1 DEF Delivered
  <2>3. \/ UNCHANGED <<elem, idx>>
        \/ \E e \in {Nil, elem[d], Front} :
             elem' = [elem EXCEPT ![d] = e] /\ idx' = [idx EXCEPT ![d] = idx'[d]]
    <3>1. CASE Stay
      BY <3>1 DEF Stay
    <3>2. CASE \E e \in {Nil, elem[d], Front} : \E i : MoveTo(d, e, i)
      <4>0. PICK e \in {Nil, elem[d], Front} : \E i : MoveTo(d, e, i)
        BY <3>2
      <4>1. PICK i : MoveTo(d, e, i)
        BY <4>0
      <4>2. idx' = [idx EXCEPT ![d] = i] /\ elem' = [elem EXCEPT ![d] = e]
        BY <4>1 DEF MoveTo
      <4>3. idx'[d] = i
        BY <1>1, <4>2
      <4> QED
        BY <4>2, <4>3
    <3> QED
      BY <1>3, <3>1, <3>2 DEF Register, NotifyUpdate
  <2>4. UNCHANGED <<elem[c], idx[c]>> \/ Leaps(c)
    <3>1. CASE UNCHANGED <<elem, idx>>
      BY <3>1
    <3>2. CASE ~UNCHANGED <<elem, idx>>
      <4>1. PICK e \in {Nil, elem[d], Front} :
              elem' = [elem EXCEPT ![d] = e] /\ idx' = [idx EXCEPT ![d] = idx'[d]]
        BY <2>3, <3>2
      <4>2. CASE c = d
        <5>1. elem'[c] = e
          BY <1>1, <4>1, <4>2
        <5> QED
          BY <1>1, <4>1, <4>2, <5>1
      <4>3. CASE c # d
        BY <1>1, <4>1, <4>3
      <4> QED
        BY <4>2, <4>3
    <3> QED
      BY <3>1, <3>2
  <2> QED
    BY <2>1, <2>2, <2>4
<1>4. CASE \/ Enqueue \/ Sweep \/ BeginNotify \/ FinishNotify \/ Close \/ UNCHANGED vars
           \/ \E d \in Cursors : NotifyRead(d) \/ NotifySend(d)
  <2>1. UNCHANGED <<elem, idx, got>>
    BY <1>4 DEF Enqueue, Sweep, BeginNotify, FinishNotify, Close, BeginClose, CloseConsumers,
       ClearData, NotifyRead, NotifySend, cursorVars, vars
  <2> QED
    BY <2>1 DEF Delivered
<1> QED
  BY <1>2, <1>3, <1>4 DEF Next, Notify

(* It holds of a queue without consumers (queue.go:87).                      *)
LEMMA OnwardInvInit == Init => OnwardInv
BY DEF Init, StoreInit, OnwardInv, NextOnward, OlderFull, GoesOn, Nil

(* Every step keeps it (chunked_list.go:52, consumer.go:213, :534, :739).    *)
LEMMA OnwardInvStep ==
  ASSUME SharedInv, OnwardInv, SharedInv', [Next]_vars
  PROVE  OnwardInv'
<1>1. /\ [StoreNext]_storeVars /\ StoreInv /\ StoreInv'
      /\ allocated \in Nat /\ allocated <= allocated' /\ allocated' \in Nat
  <2>1. StoreInv /\ StoreInv' /\ [StoreNext]_storeVars
    BY StepsTheStore DEF SharedInv
  <2>2. allocated' \in Nat
    BY <2>1, StoreAssumption DEF StoreInv, StoreTypeOK
  <2> QED
    BY <2>1, <2>2, Chunks, StoreMoves DEF StoreInv
<1>2. NextOnward' /\ OlderFull'
  BY <1>1, StoreLeadsOnward DEF OnwardInv
<1>3. ASSUME NEW c \in Cursors  PROVE elem'[c] <= allocated'
  <2>1. elem[c] \in Nat /\ elem[c] <= allocated /\ elem'[c] \in Nat
    <3>1. elem[c] \in ChunkId \cup {Nil} /\ elem'[c] \in ChunkId \cup {Nil}
      BY DEF SharedInv, TypeOK
    <3> QED
      BY <3>1, <1>1, Chunks DEF OnwardInv, Nil, StoreInv
  <2>2. elem'[c] <= allocated
    <3>1. ASSUME NEW t \in Threads, Advance(t), reg[t] # Nil, elem'[c] = reg[t]
          PROVE  elem'[c] <= allocated
      BY <3>1 DEF OnwardInv, GoesOn, Advance
    <3> QED
      BY <1>1, <2>1, <3>1, CursorsMove DEF Leaps, Nil
  <2> QED
    BY <1>1, <2>1, <2>2
<1>4. ASSUME NEW t \in Threads  PROVE GoesOn(pc[t], cur[t], reg[t])'
  <2>1. cur[t] \in Nat /\ reg[t] \in Nat
    <3>1. cur[t] \in ChunkId \cup {Nil} /\ reg[t] \in Nat
      BY DEF SharedInv, TypeOK
    <3> QED
      BY <3>1, <1>1, Chunks DEF Nil, StoreInv
  <2>2. CASE \E u \in Threads : Call(u) \/ TryReadStep(u)
    <3>1. PICK u \in Threads : Call(u) \/ TryReadStep(u)
      BY <2>2
    <3>2. UNCHANGED <<linked, allocated>>
      BY <3>1, TryReadNotes DEF storeVars, chunkVars
    <3>3. CASE t = u
      <4>1. GoesOn(pc'[t], cur'[t], reg'[t])
        BY <3>1, <3>3, LoadsGoOn
      <4> QED
        BY <3>2, <4>1 DEF GoesOn
    <3>4. CASE t # u
      <4>1. PICK s \in Steps, k \in ChunkId \cup {Nil}, i \in Nat, r \in Nat : Local(u, s, k, i, r)
        BY <3>1, LocalsChecked
      <4>2. pc'[t] = pc[t] /\ cur'[t] = cur[t] /\ reg'[t] = reg[t]
        BY <3>4, <4>1 DEF Local, SharedInv, TypeOK
      <4> QED
        BY <3>2, <4>2 DEF GoesOn, OnwardInv
    <3> QED
      BY <3>3, <3>4
  <2>3. CASE ~\E u \in Threads : Call(u) \/ TryReadStep(u)
    <3>1. UNCHANGED <<pc, cur, reg>>
      BY <2>3, OtherNotes DEF Next, vars, threadVars, SharedInv
    <3>2. GoesOn(pc[t], cur[t], reg[t])
      BY DEF OnwardInv
    <3> QED
      BY <1>1, <2>1, <3>1, <3>2, StoreKeepsGoing
  <2> QED
    BY <2>2, <2>3
<1> QED
  BY <1>2, <1>3, <1>4 DEF OnwardInv

(* A step that does not move the cursor misses nothing: an item is put in    *)
(* the last chunk, after every position in it (chunked_list.go:61).          *)
LEMMA StayMisses ==
  ASSUME SharedInv, OnwardInv, SharedInv', [Next]_vars, NEW c \in Cursors,
         UNCHANGED <<elem[c], idx[c], got[c]>>
  PROVE  Missed(c)' \subseteq Missed(c)
<1> SUFFICES ASSUME NEW s \in Missed(c)'  PROVE s \in Missed(c)
  OBVIOUS
<1> DEFINE e == elem[c]
           d == s[1]
<1>1. s \in LiveSlots' /\ elem'[c] = e /\ e # Nil /\ Precedes(s, <<e, idx[c]>>) /\ s \notin Delivered(c)
  BY DEF Missed, Behind, Precedes, Delivered
<1>2. /\ s \in Slot /\ d \in linked' /\ head'[d] <= s[2] /\ s[2] < size'[d]
      /\ s = <<s[1], s[2]>> /\ d \in ChunkId /\ d \in Nat \ {0} /\ s[2] \in Nat
  BY <1>1, LiveIsNext, SlotsAre DEF LiveMeans, SharedInv, StoreInv
<1>3. e \in ChunkId /\ e \in Nat /\ e <= allocated /\ idx[c] \in Nat /\ allocated \in Nat
  BY <1>1, Chunks DEF SharedInv, TypeOK, OnwardInv, StoreInv
<1>4. d <= e
  BY <1>1, <1>2, <1>3 DEF Precedes
<1>5. /\ head[d] <= head'[d] /\ size[d] <= size'[d] /\ size'[d] <= ChunkSize /\ ChunkSize \in Nat
      /\ head[d] \in Nat /\ head'[d] \in Nat /\ size[d] \in Nat /\ size'[d] \in Nat
  <2>1. size'[d] \in 0 .. ChunkSize /\ ChunkSize \in Nat
    BY <1>2, StoreAssumption DEF SharedInv, StoreInv, StoreTypeOK
  <2> QED
    BY <1>2, <2>1, StepsTheStore, SizesGrow, HeadsGrow, StoreNumbers, StoreNumbersNext
    DEF SharedInv, StoreInv
<1>6. d \in linked
  <2>1. d \in 1 .. allocated
    BY <1>2, <1>3, <1>4
  <2> QED
    BY <1>2, <2>1, StepsTheStore, StoreMoves DEF SharedInv
<1>7. s[2] < size[d]
  <2> SUFFICES ASSUME size[d] <= s[2]  PROVE FALSE
    BY <1>2, <1>5
  <2>1. ~IsFull(d)
    BY <1>2, <1>5 DEF IsFull
  <2>2. d = allocated
    BY <1>2, <1>3, <1>4, <1>6, <2>1 DEF OnwardInv, OlderFull
  <2>3. d = e
    BY <1>2, <1>3, <1>4, <2>2
  <2>4. idx[c] <= size[d]
    BY <1>1, <2>3 DEF SharedInv, Placed
  <2> QED
    BY <1>1, <1>2, <1>3, <1>5, <2>3, <2>4 DEF Precedes
<1>8. s \in LiveSlots
  BY <1>2, <1>5, <1>6, <1>7, LiveIs DEF LiveMeans, SharedInv, StoreInv
<1> QED
  BY <1>1, <1>8 DEF Missed, Behind

(* Nor does one to the first chunk, to none or within the chunk: what lies   *)
(* before the position in its own chunk was delivered.                       *)
LEMMA LeapMisses ==
  ASSUME SharedInv', UNCHANGED storeVars, NEW c \in Cursors, elem[c] \in Nat,
         Delivered(c) \subseteq Delivered(c)', Leaps(c)
  PROVE  Missed(c)' \subseteq Missed(c)
<1> SUFFICES ASSUME NEW s \in Missed(c)'  PROVE s \in Missed(c)
  OBVIOUS
<1> DEFINE e == elem'[c]
<1>1. /\ s \in LiveSlots' /\ LiveSlots' = LiveSlots /\ linked' = linked
      /\ e # Nil /\ Precedes(s, <<e, idx'[c]>>) /\ s \notin Delivered(c)'
  BY DEF Missed, Behind, Precedes, LiveSlots, LiveIn, storeVars, chunkVars
<1>2. /\ s \in Slot /\ s[1] \in linked /\ s = <<s[1], s[2]>> /\ s[1] \in Nat /\ s[2] \in Nat
  BY <1>1, LiveIsNext, SlotsAre DEF LiveMeans, SharedInv, StoreInv
<1>3. e \in Nat /\ idx'[c] \in Nat
  <2>1. StoreTypeOK'
    BY DEF SharedInv, StoreInv
  <2>2. e \in ChunkId \cup {Nil} /\ idx'[c] \in Nat
    BY DEF SharedInv, TypeOK
  <2> QED
    BY <2>2, StoreAssumption DEF ChunkId, Nil
<1>4. s[1] # e
  <2> SUFFICES ASSUME s[1] = e  PROVE FALSE
    OBVIOUS
  <2>1. s[2] < idx'[c]
    BY <1>1, <1>2, <1>3 DEF Precedes
  <2>2. Placed(c)'
    BY DEF SharedInv
  <2> QED
    BY <1>1, <2>1, <2>2 DEF Placed
<1>5. s[1] < e
  BY <1>1, <1>2, <1>3, <1>4 DEF Precedes
<1>6. e = elem[c]
  BY <1>1, <1>2, <1>3, <1>5 DEF Leaps
<1>7. s \notin Delivered(c)
  BY <1>1
<1> QED
  BY <1>1, <1>2, <1>5, <1>6, <1>7 DEF Missed, Behind, Precedes

(* The move to the next chunk misses what was put in the chunk it leaves     *)
(* after that was found read to its end, and nothing else                    *)
(* (consumer.go:218, consumer_group.go:165).                                 *)
LEMMA AdvanceMisses ==
  ASSUME SharedInv, OnwardInv, SharedInv', UNCHANGED storeVars, NEW t \in Threads,
         Advance(t), Unmoved(t), reg[t] # Nil,
         elem'[CursorOf[t]] = reg[t], idx'[CursorOf[t]] = 0,
         got'[CursorOf[t]] = got[CursorOf[t]],
         NEW s \in Missed(CursorOf[t])', s \notin Missed(CursorOf[t])
  PROVE  s[1] = cur[t] /\ s[2] >= cix[t]
<1> DEFINE c == CursorOf[t]
<1>1. /\ s \in LiveSlots /\ Precedes(s, <<reg[t], 0>>) /\ s \notin Delivered(c)
  BY DEF Missed, Behind, Precedes, LiveSlots, LiveIn, storeVars, chunkVars, Delivered
<1>2. /\ s \in Slot /\ s[1] \in linked /\ s = <<s[1], s[2]>> /\ s[1] \in Nat /\ s[2] \in Nat
  BY <1>1, LiveIs, SlotsAre DEF LiveMeans, SharedInv, StoreInv
<1>3. /\ c \in Cursors /\ elem[c] = cur[t] /\ idx[c] = cix[t] /\ cix[t] \in Nat
      /\ cur[t] \in ChunkId /\ cur[t] \in Nat \ {0} /\ reg[t] \in Nat
  <2>1. c \in Cursors /\ elem[c] = cur[t] /\ idx[c] = cix[t] /\ cix[t] \in Nat /\ reg[t] \in Nat
    BY CursorAssumption DEF Unmoved, SharedInv, TypeOK
  <2>2. cur[t] \in ChunkId
    BY DEF SharedInv, Holds, Copied, Advance
  <2> QED
    BY <2>1, <2>2, Chunks DEF SharedInv, StoreInv
<1>4. s[1] <= cur[t]
  <2>1. \A d \in linked : d <= cur[t] \/ reg[t] <= d
    BY DEF OnwardInv, GoesOn, Advance
  <2> QED
    BY <1>1, <1>2, <1>3, <2>1 DEF Precedes
<1>5. ~Precedes(s, <<cur[t], cix[t]>>)
  BY <1>1, <1>3 DEF Missed, Behind, Nil
<1> QED
  BY <1>2, <1>3, <1>4, <1>5 DEF Precedes

(* So a step misses at most that. *)
LEMMA StepMisses ==
  ASSUME SharedInv, OnwardInv, SharedInv', [Next]_vars,
         NEW c \in Cursors, NEW s \in Missed(c)', s \notin Missed(c)
  PROVE  \E t \in Threads : /\ CursorOf[t] = c /\ Advance(t) /\ reg[t] # Nil
                             /\ UNCHANGED storeVars
                             /\ s[1] = cur[t] /\ s[2] >= cix[t]
<1>1. elem[c] \in Nat
  <2>1. elem[c] \in ChunkId \cup {Nil}
    BY DEF SharedInv, TypeOK
  <2> QED
    BY <2>1, Chunks DEF SharedInv, StoreInv, Nil
<1>2. ~UNCHANGED <<elem[c], idx[c], got[c]>>
  BY StayMisses
<1>3. UNCHANGED storeVars /\ Delivered(c) \subseteq Delivered(c)'
  BY <1>2, CursorsMove
<1>4. ~Leaps(c)
  BY <1>1, <1>3, LeapMisses
<1>5. PICK t \in Threads : /\ CursorOf[t] = c /\ Advance(t) /\ Unmoved(t)
                          /\ reg[t] # Nil /\ elem'[c] = reg[t]
                          /\ idx'[c] = 0 /\ got'[c] = got[c]
  BY <1>2, <1>4, CursorsMove
<1>6. s[1] = cur[t] /\ s[2] >= cix[t]
  BY <1>3, <1>5, AdvanceMisses
<1> QED
  BY <1>3, <1>5, <1>6

(* Kept in every behaviour. *)
LEMMA OnwardInvariant == Spec => []OnwardInv
<1>1. SharedInv /\ OnwardInv /\ SharedInv' /\ [Next]_vars => OnwardInv'
  BY OnwardInvStep
<1> QED
  BY <1>1, OnwardInvInit, SharedInvariant, PTL DEF Spec

(* However many goroutines share a cursor, whatever sweeps, their            *)
(* notifications and Close do between the steps of TryRead: a live item is   *)
(* gone past undelivered only by the move to the next chunk, and only if it  *)
(* was put in the chunk left after this was found read to its end            *)
(* (consumer.go:175-218, consumer_group.go:122-165).                         *)
THEOREM OnlyLateItems == Spec => OnlyLateItemsMissed
<1>1. SharedInv /\ OnwardInv /\ SharedInv' /\ [Next]_vars =>
        [\A c \in Cursors : \A s \in Missed(c)' \ Missed(c) :
           \E t \in Threads :
             CursorOf[t] = c /\ Advance(t) /\ s[1] = cur[t] /\ s[2] >= cix[t]]_vars
  BY StepMisses
<1> QED
  BY <1>1, SharedInvariant, OnwardInvariant, PTL DEF Spec, OnlyLateItemsMissed

-----------------------------------------------------------------------------
(* What a notification counts, when the clock does not move between scan and *)
(* stop test *)

(* A sweep takes items from the front of the list and from the chunks it has *)
(* unlinked.                                                                 *)
SweptInFront ==
  phase \in {"scan", "notify"} =>
    \A d \in SweptChunks : d \in linked => \A e \in linked : d <= e

SweepInv == PrefixInv /\ SweptInFront

(* A sweep begins with nothing removed, and removes at the front.            *)
LEMMA SweptInFrontStep ==
  ASSUME ~ClockTicks, SweepInv, StoreInv', [StoreNext]_storeVars
  PROVE  SweptInFront'
<1>1. /\ \A c \in ChunkId : head[c] \in Nat /\ oldHead[c] \in Nat
      /\ linked \subseteq ChunkId /\ ChunkId \subseteq Nat
  BY StoreNumbers DEF SweepInv, PrefixInv, StoreInv
<1>2. CASE AddChunk \/ AddItem
  <2>1. phase' \in {"free", "add"}
    BY <1>2 DEF AddChunk, AddItem
  <2> QED
    BY <2>1 DEF SweptInFront
<1>3. CASE EndNotify \/ Clear
  BY <1>3 DEF EndNotify, Clear, sweepVars, SweptInFront
<1>4. CASE SweepBegin
  <2>1. \A c \in ChunkId : ~Swept(c)'
    BY <1>1, <1>4 DEF SweepBegin, chunkVars, Swept
  <2> QED
    BY <2>1 DEF SweptInFront, SweptChunks
<1>5. CASE ExpireItem
  <2>1. /\ phase = "scan" /\ at \in linked /\ \A d \in linked : at <= d
        /\ head' = [head EXCEPT ![at] = @ + 1] /\ UNCHANGED <<linked, oldHead, phase>>
    BY <1>5 DEF ExpireItem, sweepVars, SweepInv, PrefixInv, StoreInv, ScanListed, ScanAtFront
  <2>2. \A d \in ChunkId \ {at} : head'[d] = head[d]
    BY <2>1 DEF SweepInv, PrefixInv, StoreInv, StoreTypeOK
  <2>3. ASSUME NEW d \in SweptChunks', d \in linked, NEW e \in linked  PROVE d <= e
    <3>1. CASE d = at
      BY <2>1, <3>1
    <3>2. CASE d # at
      <4>1. d \in SweptChunks
        BY <2>1, <2>2, <2>3, <3>2 DEF SweptChunks, Swept
      <4> QED
        BY <2>1, <2>3, <4>1 DEF SweepInv, SweptInFront
    <3> QED
      BY <3>1, <3>2
  <2> QED
    BY <2>1, <2>3 DEF SweptInFront
<1>6. CASE UnlinkEmpty
  <2>1. phase = "scan" /\ UNCHANGED <<head, oldHead>> /\ linked' = linked \ {at}
    BY <1>6 DEF UnlinkEmpty
  <2>2. SweptChunks' = SweptChunks
    BY <2>1 DEF SweptChunks, Swept
  <2> QED
    BY <2>1, <2>2 DEF SweepInv, SweptInFront
<1>7. CASE LeaveChunk \/ CloseFlag \/ UNCHANGED storeVars
  <2>1. UNCHANGED <<phase, head, oldHead, linked>>
    BY <1>7 DEF LeaveChunk, CloseFlag, storeVars, chunkVars, sweepVars
  <2>2. SweptChunks' = SweptChunks
    BY <2>1 DEF SweptChunks, Swept
  <2> QED
    BY <2>1, <2>2 DEF SweepInv, SweptInFront
<1>8. CASE EndScan
  <2>1. phase = "scan" /\ UNCHANGED <<head, linked>>
    BY <1>8 DEF EndScan, chunkVars
  <2>2. SweptChunks = {} => phase' = "free"
    BY <1>8 DEF EndScan
  <2>3. SweptChunks # {} => oldHead' = oldHead
    BY <1>8 DEF EndScan
  <2>4. SweptChunks # {} => SweptChunks' = SweptChunks
    BY <2>1, <2>3 DEF SweptChunks, Swept
  <2> QED
    BY <2>1, <2>2, <2>4 DEF SweepInv, SweptInFront
<1> QED
  BY <1>2, <1>3, <1>4, <1>5, <1>6, <1>7, <1>8 DEF StoreNext

(* Kept by every step of the queue. *)
LEMMA SweepInvariant ==
  ASSUME ~ClockTicks
  PROVE  Spec => []SweepInv
<1>1. Init => SweepInv
  BY PrefixInvInit DEF Init, StoreInit, SweepInv, SweptInFront
<1>2. SweepInv /\ [Next]_vars => SweepInv'
  BY StepsTheStore, PrefixInvStep, StoreInvStep, SweptInFrontStep DEF SweepInv, PrefixInv
<1> QED
  BY <1>1, <1>2, PTL DEF Spec

(* The slots a sweep emptied, in numbers. *)
LEMMA SweptMeans ==
  ASSUME StoreTypeOK
  PROVE  /\ \A d \in SweptChunks : /\ d \in ChunkId /\ d \in Nat /\ oldHead[d] < head[d]
                                   /\ head[d] \in Nat /\ oldHead[d] \in Nat
         /\ \A s \in SweptSlots : /\ s = <<s[1], s[2]>> /\ s[1] \in SweptChunks
                                  /\ s[2] \in oldHead[s[1]] .. head[s[1]] - 1
         /\ \A d \in SweptChunks : \A j \in oldHead[d] .. head[d] - 1 : <<d, j>> \in SweptSlots
<1>1. \A d \in ChunkId : d \in Nat /\ head[d] \in Nat /\ oldHead[d] \in Nat
  BY StoreNumbers
<1>2. \A d \in SweptChunks : /\ d \in ChunkId /\ d \in Nat /\ oldHead[d] < head[d]
                             /\ head[d] \in Nat /\ oldHead[d] \in Nat
  BY <1>1 DEF SweptChunks, Swept
<1>3. \A s : s \in SweptSlots <=>
        \E d \in SweptChunks : s \in {d} \X (oldHead[d] .. head[d] - 1)
  BY DEF SweptSlots
<1>4. ASSUME NEW s \in SweptSlots
      PROVE  /\ s = <<s[1], s[2]>> /\ s[1] \in SweptChunks
             /\ s[2] \in oldHead[s[1]] .. head[s[1]] - 1
  BY <1>3
<1>5. ASSUME NEW d \in SweptChunks, NEW j \in oldHead[d] .. head[d] - 1
      PROVE  <<d, j>> \in SweptSlots
  BY <1>3
<1> QED
  BY <1>2, <1>4, <1>5

(* Items swept from another chunk than that of a listed chunk lie before it. *)
LEMMA SweptBefore ==
  ASSUME SweepInv, phase = "notify", NEW e \in linked, NEW d \in SweptChunks, d # e
  PROVE  d < e
<1>1. /\ d \in ChunkId /\ d \in Nat /\ oldHead[d] < head[d] /\ head[d] \in Nat
      /\ oldHead[d] \in Nat /\ e \in Nat /\ allocated \in Nat /\ size[d] \in Nat
  BY SweptMeans, StoreNumbers, Chunks DEF SweepInv, PrefixInv, StoreInv
<1>2. head[d] <= size[d]
  BY <1>1 DEF SweepInv, PrefixInv, StoreInv, HeadsBehind
<1>3. d <= allocated
  BY <1>1, <1>2 DEF SweepInv, PrefixInv, StoreInv, Unmade
<1>4. CASE d \in linked
  BY <1>1, <1>4 DEF SweepInv, SweptInFront
<1>5. CASE d \notin linked
  <2>1. e .. allocated \subseteq linked
    BY DEF SweepInv, PrefixInv, ListIsSuffix
  <2> QED
    BY <1>1, <1>3, <1>5, <2>1
<1> QED
  BY <1>4, <1>5

(* What calculateExpiredCount adds up (consumer.go:882): the rest of the     *)
(* chunk of the position, and the chunks after it.                           *)
LEMMA CountIs ==
  ASSUME SharedInv, SweepInv, phase = "notify", NEW c \in Cursors,
         elem[c] \in linked \cup SweptChunks \cup {Nil}
  PROVE  ExpiredCount(elem[c], idx[c]) = Cardinality({s \in SweptSlots : ~Behind(c, s)})
<1> DEFINE e == elem[c]
           i == idx[c]
           U == {s \in SweptSlots : ~Behind(c, s)}
<1>1. i \in Nat /\ e \in ChunkId \cup {Nil} /\ StoreTypeOK
  BY DEF SharedInv, TypeOK, StoreInv
<1>2. \A s \in SweptSlots : /\ s = <<s[1], s[2]>> /\ s[1] \in SweptChunks
                            /\ s[2] \in oldHead[s[1]] .. head[s[1]] - 1
  BY <1>1, SweptMeans
<1>3. CASE e = Nil
  <2>1. U = SweptSlots
    BY <1>3 DEF Behind
  <2> QED
    BY <1>3, <2>1 DEF ExpiredCount
<1>4. CASE e # Nil /\ e \notin SweptChunks
  <2>1. e \in linked
    BY <1>4
  <2>2. \A s \in SweptSlots : Behind(c, s)
    <3> SUFFICES ASSUME NEW s \in SweptSlots  PROVE s[1] < e
      BY <1>4 DEF Behind, Precedes
    <3>1. s[1] \in SweptChunks
      BY <1>2
    <3> QED
      BY <1>4, <2>1, <3>1, SweptBefore
  <2>3. U = {}
    BY <2>2
  <2>4. Cardinality(U) = 0
    BY <2>3, FS_EmptySet
  <2>5. ExpiredCount(e, i) = 0
    BY <1>4 DEF ExpiredCount
  <2> HIDE DEF U
  <2> QED
    BY <2>4, <2>5 DEF U
<1>5. CASE e # Nil /\ e \in SweptChunks
  <2> DEFINE A == ExpiredIn({d \in SweptChunks : d > e})
             m == IF i <= oldHead[e] THEN oldHead[e] ELSE i
             B == {e} \X (m .. head[e] - 1)
  <2>1. /\ e \in Nat /\ oldHead[e] < head[e] /\ head[e] \in Nat /\ oldHead[e] \in Nat
        /\ \A d \in SweptChunks : d \in Nat /\ oldHead[d] \in Nat /\ head[d] \in Nat
    BY <1>1, <1>5, SweptMeans
  <2>2. ASSUME NEW s \in SweptSlots
        PROVE  ~Behind(c, s) <=> s[1] > e \/ (s[1] = e /\ s[2] >= m)
    <3>1. s[1] \in Nat /\ s[2] \in Nat /\ s[2] >= oldHead[s[1]]
      BY <1>2, <2>1
    <3> QED
      BY <1>1, <1>5, <2>1, <3>1 DEF Behind, Precedes
  <2>3. U = A \cup B
    <3>1. ASSUME NEW s \in U  PROVE s \in A \cup B
      <4>1. s = <<s[1], s[2]>> /\ s[1] \in SweptChunks /\ s[2] \in oldHead[s[1]] .. head[s[1]] - 1
        BY <1>2
      <4>2. s[1] > e \/ (s[1] = e /\ s[2] >= m)
        BY <2>2
      <4>3. CASE s[1] > e
        BY <4>1, <4>3 DEF ExpiredIn
      <4>4. CASE s[1] = e /\ s[2] >= m
        <5>1. s[2] \in m .. head[e] - 1
          BY <1>1, <2>1, <4>1, <4>4
        <5> QED
          BY <4>1, <4>4, <5>1
      <4> QED
        BY <4>2, <4>3, <4>4
    <3>2. ASSUME NEW s \in A  PROVE s \in U
      <4>1. s \in SweptSlots /\ s[1] \in SweptChunks /\ s[1] > e
        BY DEF ExpiredIn
      <4> QED
        BY <2>2, <4>1
    <3>3. ASSUME NEW s \in B  PROVE s \in U
      <4>1. PICK j \in m .. head[e] - 1 : s = <<e, j>>
        OBVIOUS
      <4>2. j \in oldHead[e] .. head[e] - 1 /\ j >= m
        BY <1>1, <2>1
      <4>3. s \in SweptSlots
        BY <1>1, <1>5, <4>1, <4>2, SweptMeans
      <4>4. ~Behind(c, s)
        BY <2>2, <4>1, <4>2, <4>3
      <4> QED
        BY <4>3, <4>4
    <3> QED
      BY <3>1, <3>2, <3>3
  <2>4. A \cap B = {}
    <3>1. \A s \in A : s[1] > e
      BY DEF ExpiredIn
    <3>2. \A s \in B : s[1] = e
      OBVIOUS
    <3> QED
      BY <2>1, <3>1, <3>2
  <2>5. IsFiniteSet(A) /\ Cardinality(A) \in Nat
    BY <1>1, CountsAreNumbers
  <2>6. IsFiniteSet(B) /\ Cardinality(B) = IF i >= head[e] THEN 0 ELSE head[e] - m
    <3>1. m \in Int /\ head[e] - 1 \in Int
      BY <1>1, <2>1
    <3>2. /\ IsFiniteSet(m .. head[e] - 1)
          /\ Cardinality(m .. head[e] - 1)
               = IF m > head[e] - 1 THEN 0 ELSE head[e] - 1 - m + 1
      BY <3>1, FS_Interval
    <3>3. IsFiniteSet({e}) /\ Cardinality({e}) = 1
      BY FS_Singleton
    <3>4. IsFiniteSet(B) /\ Cardinality(B) = 1 * Cardinality(m .. head[e] - 1)
      <4> DEFINE C == m .. head[e] - 1
      <4>1. IsFiniteSet(C) /\ IsFiniteSet({e}) /\ Cardinality({e}) = 1 /\ B = {e} \X C
        BY <3>2, <3>3
      <4> HIDE DEF B, C
      <4>2. IsFiniteSet(B) /\ Cardinality(B) = 1 * Cardinality(C)
        BY <4>1, FS_Product
      <4> QED
        BY <4>2 DEF C
    <3>5. (IF m > head[e] - 1 THEN 0 ELSE head[e] - 1 - m + 1)
            = IF i >= head[e] THEN 0 ELSE head[e] - m
      BY <1>1, <2>1
    <3>6. (IF i >= head[e] THEN 0 ELSE head[e] - m) \in Nat
      BY <1>1, <2>1
    <3> QED
      BY <3>2, <3>4, <3>5, <3>6
  <2>7. Cardinality(U) = Cardinality(A) + Cardinality(B)
    <3> HIDE DEF A, B, U
    <3>1. Cardinality(A \cup B) = Cardinality(A) + Cardinality(B) - Cardinality({})
      BY <2>4, <2>5, <2>6, FS_Union
    <3>2. Cardinality({}) = 0
      BY FS_EmptySet
    <3>3. Cardinality(B) \in Nat
      BY <2>6, FS_CardinalityType
    <3> QED
      BY <2>3, <2>5, <3>1, <3>2, <3>3
  <2>8. ExpiredCount(e, i) = Cardinality(A) + (IF i >= head[e] THEN 0
                               ELSE IF i <= oldHead[e] THEN head[e] - oldHead[e]
                               ELSE head[e] - i)
    BY <1>5 DEF ExpiredCount
  <2>9. (IF i >= head[e] THEN 0 ELSE head[e] - m)
          = (IF i >= head[e] THEN 0
             ELSE IF i <= oldHead[e] THEN head[e] - oldHead[e] ELSE head[e] - i)
    OBVIOUS
  <2> HIDE DEF A, B, U
  <2> QED
    BY <2>6, <2>7, <2>8, <2>9 DEF U
<1> QED
  BY <1>3, <1>4, <1>5

(* A notification counts the items the sweep removed at or after the         *)
(* position it was computed from, however the readers of that cursor go on   *)
(* (consumer.go:882), if no item reaches its TTL between scan and stop test. *)
THEOREM NotificationsCount ==
  ASSUME ~ClockTicks
  PROVE  Spec => CountIsUnread
<1> DEFINE Counts ==
      \A c \in Cursors :
        NotifyRead(c) /\ elem[c] \in linked \cup SweptChunks \cup {Nil}
          => due' = Cardinality({s \in SweptSlots : ~Behind(c, s)})
<1>1. SharedInv /\ SweepInv => Counts
  BY CountIs DEF NotifyRead
<1>2. Spec => []SweepInv
  BY SweepInvariant
<1>3. CountIsUnread <=> [][Counts]_vars
  BY PTL DEF CountIsUnread
<1> QED
  BY <1>1, <1>2, <1>3, SharedInvariant, PTL

-----------------------------------------------------------------------------
(* What the queries answer, when the clock does not move between scan and    *)
(* stop test *)

(* The items put in a chunk and not expired, listed or not. *)
Stored == {s \in Slot : head[s[1]] <= s[2] /\ s[2] < size[s[1]]}

(* Those that the chain of NextElement leads to from chunk d. *)
Ahead(d) == {s \in Stored : s[1] >= d /\ \A x \in d .. s[1] - 1 : next[x] # Nil}
CountAhead(d) == IF d = Nil THEN 0 ELSE Cardinality(Ahead(d))

(* What IterateFrom finds in one chunk, as slots (chunked_list.go:231). *)
InChunk(e, i) == {e} \X {j \in i .. size[e] - 1 : head[e] <= j}

(* They are as many as ItemsOf counts.                                       *)
LEMMA InChunkIs ==
  ASSUME StoreInv, NEW e \in ChunkId, NEW i \in Nat
  PROVE  /\ IsFiniteSet(InChunk(e, i))
         /\ Cardinality(InChunk(e, i)) = ItemsOf(e, i) /\ ItemsOf(e, i) \in Nat
         /\ InChunk(e, i) = {s \in Stored : s[1] = e /\ s[2] >= i}
<1> DEFINE J == {j \in i .. size[e] - 1 : head[e] <= j}
<1>1. /\ size[e] \in Nat /\ head[e] \in Nat /\ size[e] <= ChunkSize /\ ChunkSize \in Nat
      /\ e \in Nat
  BY StoreNumbers, StoreAssumption DEF StoreInv
<1>2. IsFiniteSet(i .. size[e] - 1)
  BY <1>1, FS_Interval
<1>3. IsFiniteSet(J)
  BY <1>2, FS_Subset
<1>4. Cardinality(J) \in Nat
  BY <1>3, FS_CardinalityType
<1>5. IsFiniteSet({e}) /\ Cardinality({e}) = 1
  BY FS_Singleton
<1>6. IsFiniteSet({e} \X J) /\ Cardinality({e} \X J) = 1 * Cardinality(J)
  <2> HIDE DEF J
  <2> QED
    BY <1>3, <1>5, FS_Product
<1>7. ASSUME NEW s \in {e} \X J  PROVE s \in Stored /\ s[1] = e /\ s[2] >= i
  <2>1. s = <<e, s[2]>> /\ s[1] = e /\ s[2] \in J
    OBVIOUS
  <2>2. s[2] \in 0 .. ChunkSize - 1
    BY <1>1, <2>1
  <2>3. s \in Slot
    BY <2>1, <2>2 DEF Slot
  <2> QED
    BY <1>1, <2>1, <2>3 DEF Stored
<1>8. ASSUME NEW s \in Stored, s[1] = e, s[2] >= i  PROVE s \in {e} \X J
  <2>1. s = <<e, s[2]>> /\ s[2] \in Nat /\ head[e] <= s[2] /\ s[2] < size[e]
    BY <1>8, SlotsAre DEF Stored
  <2>2. s[2] \in J
    BY <1>1, <1>8, <2>1
  <2> QED
    BY <2>1, <2>2
<1>9. InChunk(e, i) = {e} \X J /\ ItemsOf(e, i) = Cardinality(J)
  BY DEF InChunk, ItemsOf
<1> HIDE DEF J
<1>10. {e} \X J = {s \in Stored : s[1] = e /\ s[2] >= i}
  BY <1>7, <1>8
<1> QED
  BY <1>4, <1>6, <1>9, <1>10

(* A chunk's items and those of the chain after it. *)
LEMMA ChainSplits ==
  ASSUME PrefixInv, NEW d \in ChunkId
  PROVE  CountAhead(d) = ItemsOf(d, 0) + CountAhead(next[d])
<1>1. /\ d \in Nat \ {0} /\ StoreInv
      /\ next[d] # Nil => next[d] = d + 1
      /\ next[d] \in ChunkId \cup {Nil}
  BY StoreNumbers DEF PrefixInv, StoreInv, NextIsSuccessor, StoreTypeOK
<1>2. InChunk(d, 0) = {s \in Stored : s[1] = d}
  <2>1. InChunk(d, 0) = {s \in Stored : s[1] = d /\ s[2] >= 0}
    BY <1>1, InChunkIs
  <2>2. \A s \in Stored : s[2] >= 0
    BY SlotsAre DEF Stored
  <2> QED
    BY <2>1, <2>2
<1>3. /\ IsFiniteSet(InChunk(d, 0)) /\ Cardinality(InChunk(d, 0)) = ItemsOf(d, 0)
      /\ ItemsOf(d, 0) \in Nat
  BY <1>1, InChunkIs
<1>4. CountAhead(d) = Cardinality(Ahead(d))
  BY <1>1 DEF CountAhead, Nil
<1>5. CASE next[d] = Nil
  <2>1. \A s \in Stored : s[1] > d => d \in d .. s[1] - 1
    BY <1>1, SlotsAre DEF Stored
  <2>2. Ahead(d) = InChunk(d, 0)
    <3>1. ASSUME NEW s \in Ahead(d)  PROVE s[1] = d
      <4>1. s \in Stored /\ s[1] >= d /\ \A x \in d .. s[1] - 1 : next[x] # Nil
        BY DEF Ahead
      <4>2. ~(s[1] > d)
        BY <1>5, <2>1, <4>1
      <4> QED
        BY <1>1, <4>1, <4>2, SlotsAre DEF Stored
    <3>2. ASSUME NEW s \in Stored, s[1] = d  PROVE s \in Ahead(d)
      BY <1>1, <3>2 DEF Ahead
    <3> QED
      BY <1>2, <3>1, <3>2 DEF Ahead
  <2>3. CountAhead(next[d]) = 0
    BY <1>5 DEF CountAhead
  <2> QED
    BY <1>3, <1>4, <2>2, <2>3
<1>6. CASE next[d] # Nil
  <2>1. next[d] = d + 1
    BY <1>1, <1>6
  <2>2. Ahead(d) = InChunk(d, 0) \cup Ahead(d + 1)
    <3>1. ASSUME NEW s \in Ahead(d)  PROVE s[1] = d \/ s \in Ahead(d + 1)
      <4>1. /\ s \in Stored /\ s[1] >= d /\ s[1] \in Nat
            /\ \A x \in d .. s[1] - 1 : next[x] # Nil
        BY SlotsAre DEF Ahead, Stored
      <4>2. \A x \in d + 1 .. s[1] - 1 : x \in d .. s[1] - 1
        BY <1>1, <4>1
      <4>3. s[1] = d \/ s[1] >= d + 1
        BY <1>1, <4>1
      <4> QED
        BY <4>1, <4>2, <4>3 DEF Ahead
    <3>2. ASSUME NEW s \in Stored, s[1] = d  PROVE s \in Ahead(d)
      BY <1>1, <3>2 DEF Ahead
    <3>3. ASSUME NEW s \in Ahead(d + 1)  PROVE s \in Ahead(d)
      <4>1. /\ s \in Stored /\ s[1] >= d + 1 /\ s[1] \in Nat
            /\ \A x \in d + 1 .. s[1] - 1 : next[x] # Nil
        BY SlotsAre DEF Ahead, Stored
      <4>2. \A x \in d .. s[1] - 1 : x = d \/ x \in d + 1 .. s[1] - 1
        BY <1>1, <4>1
      <4>3. s[1] >= d
        BY <1>1, <4>1
      <4> QED
        BY <1>6, <4>1, <4>2, <4>3 DEF Ahead
    <3> QED
      BY <1>2, <3>1, <3>2, <3>3 DEF Ahead
  <2>3. InChunk(d, 0) \cap Ahead(d + 1) = {}
    <3>1. \A s \in Ahead(d + 1) : s[1] >= d + 1
      BY DEF Ahead
    <3>2. ~(d >= d + 1)
      BY <1>1
    <3> QED
      BY <1>2, <3>1, <3>2
  <2>4. IsFiniteSet(Ahead(d + 1)) /\ Cardinality(Ahead(d + 1)) \in Nat
    <3>1. Ahead(d + 1) \subseteq Slot
      BY DEF Ahead, Stored
    <3> QED
      BY <3>1, SlotsAre
  <2>5. Cardinality(Ahead(d))
          = Cardinality(InChunk(d, 0)) + Cardinality(Ahead(d + 1)) - Cardinality({})
    BY <1>3, <2>2, <2>3, <2>4, FS_Union
  <2>6. Cardinality({}) = 0
    BY FS_EmptySet
  <2>7. CountAhead(next[d]) = Cardinality(Ahead(d + 1))
    BY <1>6, <2>1 DEF CountAhead
  <2> QED
    BY <1>3, <1>4, <2>4, <2>5, <2>6, <2>7
<1> QED
  BY <1>5, <1>6

(* IterateFrom finds what the chain of NextElement leads to, as NextElement  *)
(* names a younger chunk (chunked_list.go:231-251).                          *)
LEMMA IterationCounts ==
  ASSUME PrefixInv
  PROVE  \A d \in ChunkId \cup {Nil} : ItemsInChain[d] = CountAhead(d)
<1> DEFINE S == ChunkId \cup {Nil}
           g == [d \in S |-> CountAhead(d)]
<1>1. \A d \in ChunkId : next[d] \in S /\ (next[d] # Nil => next[d] = d + 1)
  BY DEF PrefixInv, StoreInv, NextIsSuccessor, StoreTypeOK
<1>2. CountAhead(Nil) = 0
  BY DEF CountAhead
<1>3. g = [d \in S |-> IF d = Nil THEN 0 ELSE ItemsOf(d, 0) + g[next[d]]]
  <2>1. ASSUME NEW d \in S
        PROVE  CountAhead(d) = IF d = Nil THEN 0 ELSE ItemsOf(d, 0) + g[next[d]]
    <3>1. CASE d = Nil
      BY <1>2, <3>1
    <3>2. CASE d # Nil
      <4>1. d \in ChunkId
        BY <3>2
      <4>2. g[next[d]] = CountAhead(next[d])
        BY <1>1, <4>1
      <4> QED
        BY <3>2, <4>1, <4>2, ChainSplits
    <3> QED
      BY <3>1, <3>2
  <2> QED
    BY <2>1, Zenon
<1>4. ItemsInChain = [d \in S |-> IF d = Nil THEN 0 ELSE ItemsOf(d, 0) + ItemsInChain[next[d]]]
  <2> HIDE DEF g
  <2>1. \E f : f = [d \in S |-> IF d = Nil THEN 0 ELSE ItemsOf(d, 0) + f[next[d]]]
    BY <1>3
  <2> QED
    BY <2>1, Zenon DEF ItemsInChain
<1>5. ASSUME NEW d \in S
      PROVE  ItemsInChain[d] = IF d = Nil THEN 0 ELSE ItemsOf(d, 0) + ItemsInChain[next[d]]
  BY <1>4, Zenon
<1> DEFINE Bad == {d \in ChunkId : ItemsInChain[d] # CountAhead(d)}
<1>6. Bad = {}
  <2> SUFFICES ASSUME Bad # {}  PROVE FALSE
    OBVIOUS
  <2>1. MaxChunks \in Nat /\ Bad \subseteq 0 .. MaxChunks
    BY StoreAssumption DEF ChunkId
  <2>2. PICK m \in Bad : \A d \in Bad : d <= m
    <3> HIDE DEF Bad
    <3> QED
      BY <2>1, LastIs
  <2>3. m \in ChunkId /\ m \in Nat
    BY <2>1, <2>2
  <2>4. ItemsInChain[next[m]] = CountAhead(next[m])
    <3>1. CASE next[m] = Nil
      BY <1>2, <1>5, <3>1
    <3>2. CASE next[m] # Nil
      <4>1. next[m] = m + 1 /\ next[m] \in ChunkId
        BY <1>1, <2>3, <3>2
      <4>2. next[m] \notin Bad
        BY <2>2, <2>3, <4>1
      <4> QED
        BY <4>1, <4>2
    <3> QED
      BY <3>1, <3>2
  <2>5. ItemsInChain[m] = ItemsOf(m, 0) + ItemsInChain[next[m]]
    BY <1>5, <2>3, StoreAssumption DEF ChunkId, Nil
  <2>6. CountAhead(m) = ItemsOf(m, 0) + CountAhead(next[m])
    BY <2>3, ChainSplits
  <2> QED
    BY <2>2, <2>4, <2>5, <2>6
<1> QED
  BY <1>2, <1>5, <1>6

(* From one listed chunk NextElement leads to the next, from the last to     *)
(* nothing.                                                                  *)
LEMMA NextOfListed ==
  ASSUME PrefixInv, ChainInv, NEW e \in linked
  PROVE  /\ e \in ChunkId /\ e \in Nat \ {0} /\ e <= allocated /\ allocated \in Nat
         /\ e .. allocated \subseteq linked
         /\ IF e = allocated THEN next[e] = Nil ELSE next[e] = e + 1
<1>1. /\ e \in ChunkId /\ e \in Nat \ {0} /\ e <= allocated /\ allocated \in Nat
      /\ e .. allocated \subseteq linked
  BY Chunks DEF PrefixInv, StoreInv, ListIsSuffix
<1>2. next[e] # Nil => next[e] = e + 1 /\ e < allocated
  BY <1>1 DEF PrefixInv, NextIsSuccessor
<1>3. Back = allocated
  BY BackIsNewest DEF PrefixInv, StoreInv
<1>4. ASSUME e # allocated  PROVE next[e] # Nil
  <2>1. PICK P : Leads(P, e, After(e))
    BY <1>3, <1>4 DEF ChainInv, LeadsOn
  <2>2. After(e) # e
    <3>1. After(e) = Nil \/ After(e) > e
      BY <1>1, AfterIs DEF PrefixInv, StoreInv
    <3>2. After(e) > e => After(e) # e
      BY <1>1
    <3> QED
      BY <1>1, <3>1, <3>2 DEF Nil
  <2>3. next[e] > e
    BY <2>1, <2>2 DEF Leads
  <2> QED
    BY <1>1, <2>3 DEF Nil
<1> QED
  BY <1>1, <1>2, <1>4

(* So the iteration goes over the items of the later chunks of the list.     *)
LEMMA LaterItems ==
  ASSUME PrefixInv, ChainInv, NEW e \in linked
  PROVE  CountAhead(next[e]) = Cardinality({s \in LiveSlots : s[1] > e})
<1> DEFINE L == {s \in LiveSlots : s[1] > e}
<1>1. /\ e \in ChunkId /\ e \in Nat \ {0} /\ e <= allocated /\ allocated \in Nat
      /\ e .. allocated \subseteq linked
      /\ IF e = allocated THEN next[e] = Nil ELSE next[e] = e + 1
  BY NextOfListed
<1>2. LiveMeans /\ linked \subseteq 1 .. allocated
  BY LiveIs, Chunks DEF PrefixInv, StoreInv
<1>3. \A s \in LiveSlots : /\ s \in Stored /\ s[1] \in linked /\ s[1] \in Nat
                           /\ s[1] <= allocated
  <2> SUFFICES ASSUME NEW s \in LiveSlots
               PROVE  /\ s \in Stored /\ s[1] \in linked /\ s[1] \in Nat
                      /\ s[1] <= allocated
    OBVIOUS
  <2>1. s \in Slot
    BY <1>2 DEF LiveMeans
  <2>2. s[1] \in linked /\ head[s[1]] <= s[2] /\ s[2] < size[s[1]]
    BY <1>2, <2>1 DEF LiveMeans
  <2>3. s[1] \in 1 .. allocated
    BY <1>2, <2>2
  <2> QED
    BY <1>1, <2>1, <2>2, <2>3 DEF Stored
<1>4. CASE e = allocated
  <2>1. L = {}
    BY <1>1, <1>3, <1>4
  <2>2. CountAhead(next[e]) = 0
    BY <1>1, <1>4 DEF CountAhead
  <2>3. Cardinality({}) = 0
    BY FS_EmptySet
  <2> QED
    BY <2>1, <2>2, <2>3
<1>5. CASE e # allocated
  <2>1. next[e] = e + 1 /\ next[e] # Nil
    BY <1>1, <1>5 DEF Nil
  <2>2. ASSUME NEW s \in Ahead(e + 1)  PROVE s \in L
    <3>1. /\ s \in Slot /\ s[1] \in ChunkId /\ s[1] \in Nat /\ s[2] \in Nat /\ s[1] >= e + 1
          /\ head[s[1]] <= s[2] /\ s[2] < size[s[1]]
      BY SlotsAre DEF Ahead, Stored
    <3>2. s[1] <= allocated
      <4>1. size[s[1]] # 0
        BY <3>1
      <4> QED
        BY <1>1, <3>1, <4>1 DEF PrefixInv, StoreInv, Unmade
    <3>3. s[1] \in e .. allocated
      BY <1>1, <3>1, <3>2
    <3>4. s[1] > e
      BY <1>1, <3>1
    <3> QED
      BY <1>1, <1>2, <3>1, <3>3, <3>4 DEF LiveMeans
  <2>3. ASSUME NEW s \in L  PROVE s \in Ahead(e + 1)
    <3>1. s \in Stored /\ s[1] \in Nat /\ s[1] <= allocated /\ s[1] > e
      BY <1>3
    <3>2. ASSUME NEW x \in e + 1 .. s[1] - 1  PROVE next[x] # Nil
      <4>1. x \in e .. allocated /\ x # allocated
        BY <1>1, <3>1
      <4>2. x \in linked
        BY <1>1, <4>1
      <4> QED
        BY <4>1, <4>2, NextOfListed DEF Nil
    <3>3. s[1] >= e + 1
      BY <1>1, <3>1
    <3> QED
      BY <3>1, <3>2, <3>3 DEF Ahead
  <2>4. Ahead(e + 1) = L
    <3> HIDE DEF L
    <3> QED
      BY <2>2, <2>3
  <2> QED
    BY <2>1, <2>4 DEF CountAhead
<1> QED
  BY <1>4, <1>5

(* What is unread lies in the chunk of the position, from its index on, and  *)
(* in the chunks after it.                                                   *)
LEMMA UnreadSplits ==
  ASSUME SharedInv, PrefixInv, NEW c \in Cursors, elem[c] \in linked
  PROVE  LET L == {s \in LiveSlots : s[1] > elem[c]} IN
         /\ {s \in LiveSlots : ~Behind(c, s)} = InChunk(elem[c], idx[c]) \cup L
         /\ InChunk(elem[c], idx[c]) \cap L = {}
         /\ IsFiniteSet(L) /\ Cardinality(L) \in Nat
<1> DEFINE e == elem[c]
           i == idx[c]
           L == {s \in LiveSlots : s[1] > e}
           U == {s \in LiveSlots : ~Behind(c, s)}
<1>1. e \in ChunkId /\ e \in Nat /\ e # Nil /\ i \in Nat /\ StoreInv /\ LiveMeans
  BY Chunks, LiveIs DEF SharedInv, StoreInv, TypeOK, Nil
<1>2. InChunk(e, i) = {s \in Stored : s[1] = e /\ s[2] >= i}
  BY <1>1, InChunkIs
<1>3. ASSUME NEW s \in LiveSlots
      PROVE  /\ s \in Stored /\ s[1] \in Nat /\ s[2] \in Nat
             /\ ~Behind(c, s) <=> s[1] > e \/ (s[1] = e /\ s[2] >= i)
  <2>1. s \in Stored /\ s[1] \in Nat /\ s[2] \in Nat
    BY <1>1, SlotsAre DEF LiveMeans, Stored
  <2> QED
    BY <1>1, <2>1 DEF Behind, Precedes
<1>4. ASSUME NEW s \in Stored, s[1] = e  PROVE s \in LiveSlots
  BY <1>1, <1>4 DEF LiveMeans, Stored
<1>5. U = InChunk(e, i) \cup L
  BY <1>2, <1>3, <1>4
<1>6. InChunk(e, i) \cap L = {}
  <2>1. ~(e > e)
    BY <1>1
  <2> QED
    BY <1>2, <2>1
<1>7. L \subseteq Slot
  BY <1>1 DEF LiveMeans
<1>8. IsFiniteSet(L) /\ Cardinality(L) \in Nat
  BY <1>7, SlotsAre
<1> QED
  BY <1>5, <1>6, <1>8

(* GetUnreadCount (consumer.go:400, consumer_group.go:225). *)
LEMMA UnreadIsCounted ==
  ASSUME SharedInv, PrefixInv, ChainInv, NEW c \in Cursors, InList(c)
  PROVE  GetUnreadCount(c) = Cardinality({s \in LiveSlots : ~Behind(c, s)})
<1>1. CASE elem[c] = Nil
  <2>1. {s \in LiveSlots : ~Behind(c, s)} = LiveSlots
    BY <1>1 DEF Behind
  <2> QED
    BY <1>1, <2>1 DEF GetUnreadCount, InList, TotalItems
<1>2. CASE elem[c] # Nil
  <2> DEFINE A == InChunk(elem[c], idx[c])
             L == {s \in LiveSlots : s[1] > elem[c]}
             U == {s \in LiveSlots : ~Behind(c, s)}
  <2>1. /\ elem[c] \in linked /\ elem[c] \in ChunkId /\ idx[c] \in Nat /\ StoreInv
        /\ next[elem[c]] \in ChunkId \cup {Nil}
    BY <1>2 DEF InList, SharedInv, TypeOK, StoreInv, StoreTypeOK
  <2>2. U = A \cup L /\ A \cap L = {} /\ IsFiniteSet(L) /\ Cardinality(L) \in Nat
    BY <2>1, UnreadSplits
  <2>3. /\ IsFiniteSet(A) /\ Cardinality(A) = ItemsOf(elem[c], idx[c])
        /\ ItemsOf(elem[c], idx[c]) \in Nat
    BY <2>1, InChunkIs
  <2>4. ItemsInChain[next[elem[c]]] = Cardinality(L)
    <3>1. ItemsInChain[next[elem[c]]] = CountAhead(next[elem[c]])
      BY <2>1, IterationCounts
    <3> QED
      BY <2>1, <3>1, LaterItems
  <2>5. GetUnreadCount(c) = ItemsOf(elem[c], idx[c]) + Cardinality(L)
    BY <1>2, <2>4 DEF GetUnreadCount, InList, CountItemsFrom
  <2> HIDE DEF A, L, U
  <2>6. Cardinality(A \cup L) = Cardinality(A) + Cardinality(L) - Cardinality({})
    BY <2>2, <2>3, FS_Union
  <2>7. Cardinality({}) = 0
    BY FS_EmptySet
  <2>8. GetUnreadCount(c) = Cardinality(U)
    BY <2>2, <2>3, <2>5, <2>6, <2>7
  <2> QED
    BY <2>8 DEF U
<1> QED
  BY <1>1, <1>2

(* HasMoreData (consumer.go:435, consumer_group.go:266): between two writers *)
(* a listed chunk is not empty.                                              *)
LEMMA MoreIsKnown ==
  ASSUME SharedInv, PrefixInv, ChainInv, phase = "free", NEW c \in Cursors, InList(c)
  PROVE  HasMoreData(c) <=> {s \in LiveSlots : ~Behind(c, s)} # {}
<1> DEFINE U == {s \in LiveSlots : ~Behind(c, s)}
           e == elem[c]
           i == idx[c]
<1>1. LiveMeans /\ StoreInv /\ ~IsClosed(c) /\ i \in Nat
  BY LiveIs DEF SharedInv, StoreInv, InList, TypeOK
<1>2. CASE e = Nil
  <2>1. U = LiveSlots
    BY <1>2 DEF Behind
  <2>2. IsFiniteSet(LiveSlots) /\ Cardinality(LiveSlots) \in Nat
    BY <1>1, SlotsAre DEF LiveMeans
  <2>3. Cardinality(LiveSlots) = 0 <=> LiveSlots = {}
    BY <2>2, FS_EmptySet
  <2>4. HasMoreData(c) <=> Cardinality(LiveSlots) > 0
    BY <1>1, <1>2 DEF HasMoreData, TotalItems
  <2> QED
    BY <2>1, <2>2, <2>3, <2>4
<1>3. CASE e # Nil
  <2>1. /\ e \in linked /\ e \in ChunkId /\ e \in Nat \ {0} /\ e <= allocated
        /\ allocated \in Nat /\ e .. allocated \subseteq linked
        /\ IF e = allocated THEN next[e] = Nil ELSE next[e] = e + 1
    BY <1>3, NextOfListed DEF InList
  <2>2. HasMoreData(c) <=> i < size[e] \/ next[e] # Nil
    BY <1>1, <1>3 DEF HasMoreData
  <2>3. U = InChunk(e, i) \cup {s \in LiveSlots : s[1] > e}
    BY <2>1, UnreadSplits
  <2>4. InChunk(e, i) = {s \in Stored : s[1] = e /\ s[2] >= i}
    BY <1>1, <2>1, InChunkIs
  <2>5. \A d \in linked : /\ d \in ChunkId /\ head[d] < size[d] /\ head[d] \in Nat
                          /\ size[d] \in Nat /\ size[d] <= ChunkSize
    <3>1. \A d \in linked : /\ d \in ChunkId /\ head[d] \in Nat /\ size[d] \in Nat
                            /\ size[d] <= ChunkSize /\ head[d] <= size[d]
      BY <1>1, StoreNumbers DEF StoreInv, HeadsBehind
    <3>2. \A d \in linked : head[d] # size[d]
      BY <1>1 DEF StoreInv, EmptyInHand, IsEmpty
    <3> QED
      BY <3>1, <3>2
  <2>6. ASSUME i < size[e]  PROVE U # {}
    <3> DEFINE s == <<e, size[e] - 1>>
    <3>1. s \in Stored /\ s[1] = e /\ s[2] >= i
      <4>1. head[e] <= size[e] - 1 /\ size[e] - 1 < size[e] /\ size[e] - 1 >= i
        BY <1>1, <2>1, <2>5, <2>6
      <4>2. size[e] - 1 \in 0 .. ChunkSize - 1
        BY <2>1, <2>5, StoreAssumption
      <4>3. s \in Slot
        BY <2>1, <4>2 DEF Slot
      <4> QED
        BY <4>1, <4>3 DEF Stored
    <3>2. s \in InChunk(e, i)
      BY <2>4, <3>1
    <3> QED
      BY <2>3, <3>2
  <2>7. ASSUME next[e] # Nil  PROVE U # {}
    <3> DEFINE s == <<e + 1, head[e + 1]>>
    <3>1. e + 1 \in linked
      <4>1. e + 1 \in e .. allocated
        BY <2>1, <2>7
      <4> QED
        BY <2>1, <4>1
    <3>2. s \in Slot
      <4>1. head[e + 1] \in 0 .. ChunkSize - 1
        BY <2>5, <3>1, StoreAssumption
      <4> QED
        BY <2>5, <3>1, <4>1 DEF Slot
    <3>3. s[1] = e + 1 /\ s[2] = head[e + 1] /\ head[e + 1] <= head[e + 1] /\ e + 1 > e
      BY <2>1, <2>5, <3>1
    <3>4. s \in LiveSlots
      BY <1>1, <2>5, <3>1, <3>2, <3>3 DEF LiveMeans
    <3> QED
      BY <2>3, <3>3, <3>4
  <2>8. ASSUME NEW s \in U  PROVE i < size[e] \/ next[e] # Nil
    <3>1. CASE s \in InChunk(e, i)
      <4>1. s[2] >= i /\ s[2] < size[e] /\ s[2] \in Nat
        BY <2>4, <3>1, SlotsAre DEF Stored
      <4>2. size[e] \in Nat
        BY <2>1, <2>5
      <4> QED
        BY <1>1, <4>1, <4>2
    <3>2. CASE s \in LiveSlots /\ s[1] > e
      <4>1. s[1] \in linked
        BY <1>1, <3>2 DEF LiveMeans
      <4>2. s[1] \in Nat /\ s[1] <= allocated
        BY <4>1, Chunks DEF PrefixInv, StoreInv
      <4>3. e # allocated
        BY <2>1, <3>2, <4>2
      <4> QED
        BY <2>1, <4>3 DEF Nil
    <3> QED
      BY <2>3, <3>1, <3>2
  <2>9. HasMoreData(c) <=> U # {}
    <3> HIDE DEF U
    <3> QED
      BY <2>2, <2>6, <2>7, <2>8
  <2> QED
    BY <2>9 DEF U
<1> QED
  BY <1>2, <1>3

(* GetUnreadCount and HasMoreData answer, between two writers, for every     *)
(* cursor that stands in the list, what is in the list and not behind its    *)
(* position: the walk along NextElement takes all of it and nothing twice    *)
(* (consumer.go:400-410, :435; chunked_list.go:231-251;                      *)
(* consumer_group.go:225-235, :266), if no item reaches its TTL between scan *)
(* and stop test.                                                            *)
THEOREM QueriesAnswerRight ==
  ASSUME ~ClockTicks
  PROVE  Spec => []QueriesAreExact
<1>1. SharedInv /\ PrefixInv /\ ChainInv => QueriesAreExact
  <2> SUFFICES ASSUME SharedInv, PrefixInv, ChainInv, phase = "free",
                      NEW c \in Cursors, InList(c)
               PROVE  LET unread == {s \in LiveSlots : ~Behind(c, s)} IN
                      /\ GetUnreadCount(c) = Cardinality(unread)
                      /\ HasMoreData(c) <=> unread # {}
    BY DEF QueriesAreExact
  <2> QED
    BY UnreadIsCounted, MoreIsKnown
<1>2. Init => ChainInv
  BY StoreInvInit DEF Init, StoreInit, ChainInv
<1>3. Spec => []ChainInv
  BY <1>2, StepsTheStore, ChainInvStep, PTL DEF Spec
<1>4. Spec => []SweepInv
  BY SweepInvariant
<1>5. SweepInv => PrefixInv
  BY DEF SweepInv
<1> QED
  BY <1>1, <1>3, <1>4, <1>5, SharedInvariant, PTL
===============================================================================
