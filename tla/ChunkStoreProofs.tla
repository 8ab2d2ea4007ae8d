--------------------------- MODULE ChunkStoreProofs ---------------------------
(***************************************************************************)
(* Proofs about ChunkStore, for every chunk size and every number of       *)
(* chunks.  StoreInv is inductive whatever the clock does; PrefixInv adds   *)
(* what needs a clock that does not move between scan and stop test.       *)
(***************************************************************************)
EXTENDS ChunkStore, FiniteSetTheorems, WellFoundedInduction, TLAPS

(* Every nonempty set of naturals has a least element. *)
LEMMA LeastExists ==
  ASSUME NEW S, S \subseteq Nat, S # {}
  PROVE  \E c \in S : \A d \in S : c <= d
<1>1. \E c \in S : \A d \in S : ~ (<<d, c>> \in OpToRel(<, Nat))
  BY NatLessThanWellFounded, WFMin
<1>2. PICK c \in S : \A d \in S : ~ (<<d, c>> \in OpToRel(<, Nat))
  BY <1>1
<1>3. \A d \in S : ~ (d < c)
  BY <1>2 DEF OpToRel
<1> QED
  BY <1>3

(* list.Front of a list that is not empty is its least chunk. *)
LEMMA FirstIs ==
  ASSUME NEW S, S \subseteq Nat, S # {}
  PROVE  First(S) \in S /\ \A d \in S : First(S) <= d
  BY LeastExists DEF First

(* list.Back of a list that is not empty is its greatest chunk. *)
LEMMA LastIs ==
  ASSUME NEW n \in Nat, NEW S, S \subseteq 0 .. n, S # {}
  PROVE  Last(S) \in S /\ \A d \in S : d <= Last(S)
<1> DEFINE T == {x \in Nat : n - x \in S}
<1>1. T \subseteq Nat /\ T # {}
  <2>1. PICK d \in S : TRUE
    OBVIOUS
  <2>2. n - d \in T
    BY <2>1
  <2> QED
    BY <2>2
<1>2. PICK m \in T : \A e \in T : m <= e
  BY <1>1, LeastExists
<1>3. n - m \in S /\ \A d \in S : d <= n - m
  <2>1. ASSUME NEW d \in S  PROVE  d <= n - m
    <3>1. n - d \in T
      OBVIOUS
    <3>2. m <= n - d
      BY <1>2, <3>1
    <3>3. m \in Nat /\ d \in Nat
      BY <1>1
    <3> HIDE DEF T
    <3> QED
      BY <3>2, <3>3
  <2> QED
    BY <1>2, <2>1
<1>4. \E c \in S : \A d \in S : d <= c
  BY <1>3
<1> QED
  BY <1>4 DEF Last

(* Chunks are numbered from 1 and only those made are listed. *)
LEMMA Chunks ==
  ASSUME StoreTypeOK
  PROVE  /\ allocated \in Nat
         /\ linked \subseteq 1 .. allocated
         /\ 1 .. allocated \subseteq ChunkId
         /\ linked \subseteq ChunkId
         /\ ChunkId \subseteq Nat \ {0}
  BY StoreAssumption DEF StoreTypeOK, ChunkId

(* The same for the chunks of the list (container/list). *)
LEMMA BackIs ==
  ASSUME StoreTypeOK, linked # {}
  PROVE  Back \in linked /\ Back \in ChunkId /\ \A d \in linked : d <= Back
<1>1. allocated \in Nat /\ linked \subseteq 0 .. allocated /\ linked \subseteq ChunkId
  BY StoreAssumption DEF StoreTypeOK, ChunkId
<1> QED
  BY <1>1, LastIs DEF Back

(* And for its front. *)
LEMMA FrontIs ==
  ASSUME StoreTypeOK, linked # {}
  PROVE  Front \in linked /\ Front \in ChunkId /\ \A d \in linked : Front <= d
<1>1. linked \subseteq Nat /\ linked \subseteq ChunkId
  BY StoreAssumption DEF StoreTypeOK, ChunkId
<1> QED
  BY <1>1, FirstIs DEF Front

(* element.Next is the next greater chunk, or nothing. *)
LEMMA AfterIs ==
  ASSUME StoreTypeOK, NEW c \in ChunkId
  PROVE  \/ After(c) = Nil /\ \A d \in linked : d <= c
         \/ After(c) \in linked /\ After(c) > c /\ \A d \in linked : d > c => After(c) <= d
<1> DEFINE S == {d \in linked : d > c}
<1>1. linked \subseteq Nat /\ c \in Nat
  BY StoreAssumption DEF StoreTypeOK, ChunkId
<1>2. S \subseteq Nat
  BY <1>1
<1>3. CASE S = {}
  BY <1>1, <1>3 DEF After, First
<1>4. CASE S # {}
  <2>1. First(S) \in S /\ \A d \in S : First(S) <= d
    BY <1>2, <1>4, FirstIs
  <2> QED
    BY <2>1 DEF After
<1> QED
  BY <1>3, <1>4

-----------------------------------------------------------------------------

(* The parts of the invariant: no head passes its size; a sweep scans a      *)
(* listed chunk; a chunk not made is blank; the pooled mark means unlinked;  *)
(* an unlinked chunk holds nothing; a listed chunk is empty only while its   *)
(* writer is still at it.                                                    *)
HeadsBehind  == \A c \in ChunkId : head[c] <= size[c]
ScanListed   == at # Nil => phase = "scan" /\ at \in linked
Unmade       == \A c \in ChunkId : c > allocated => size[c] = 0 /\ next[c] = Nil /\ ~pooled[c]
Marked       == \A c \in 1 .. allocated : pooled[c] <=> c \notin linked
Drained      == \A c \in 1 .. allocated : c \notin linked => IsEmpty(c) \/ c \in zeroed
EmptyInHand  == \A c \in linked :
                  IsEmpty(c) => \/ phase = "add" /\ c = Back /\ size[c] = 0
                                \/ phase = "scan" /\ c = at

StoreInv ==
  /\ StoreTypeOK
  /\ HeadsBehind
  /\ ScanListed
  /\ Unmade
  /\ OnlyBackOpen
  /\ Marked
  /\ Drained
  /\ EmptyInHand

(* A new queue (NewChunkedList, chunked_list.go:18) satisfies the invariant. *)
LEMMA StoreInvInit == StoreInit => StoreInv
<1> SUFFICES ASSUME StoreInit PROVE StoreInv
  OBVIOUS
<1>1. StoreTypeOK
  <2>1. 0 \in 0 .. ChunkSize /\ 0 \in 0 .. MaxChunks
    BY StoreAssumption
  <2> QED
    BY <2>1 DEF StoreInit, StoreTypeOK, Nil
<1>2. HeadsBehind /\ ScanListed /\ Unmade /\ OnlyBackOpen
  BY DEF StoreInit, HeadsBehind, ScanListed, Unmade, OnlyBackOpen
<1>3. Marked /\ Drained /\ EmptyInHand
  BY DEF StoreInit, Marked, Drained, EmptyInHand
<1> QED
  BY <1>1, <1>2, <1>3 DEF StoreInv

(* A new chunk (chunked_list.go:30-54) is empty and alone in that. *)
LEMMA AddChunkKeeps ==
  ASSUME StoreInv, AddChunk
  PROVE  StoreInv'
<1> USE StoreAssumption
<1> DEFINE n == allocated + 1
<1>1. n \in ChunkId /\ allocated \in Nat /\ allocated' = n /\ linked' = linked \cup {n}
  BY DEF StoreInv, StoreTypeOK, AddChunk, PushChunk, ChunkId
<1>2. \A c \in linked : c \in ChunkId /\ c < n
  BY <1>1 DEF StoreInv, StoreTypeOK, ChunkId
<1>3. StoreTypeOK'
  <2>1. linked = {} => next' = next
    BY DEF AddChunk, PushChunk
  <2>2. linked # {} => next' = [next EXCEPT ![Back] = n] /\ Back \in ChunkId
    BY BackIs DEF AddChunk, PushChunk, StoreInv
  <2>3. next' \in [ChunkId -> ChunkId \cup {Nil}]
    BY <1>1, <2>1, <2>2 DEF StoreInv, StoreTypeOK
  <2>4. allocated' \in 0 .. MaxChunks /\ linked' \subseteq 1 .. allocated'
    BY <1>1, <1>2 DEF ChunkId
  <2> QED
    BY <2>3, <2>4 DEF StoreInv, StoreTypeOK, AddChunk, PushChunk
<1>4. Back' = n
  <2>1. linked' \subseteq 0 .. n /\ linked' # {} /\ n \in Nat
    BY <1>1, <1>2 DEF ChunkId
  <2>2. Last(linked') \in linked' /\ \A d \in linked' : d <= Last(linked')
    BY <2>1, LastIs
  <2>3. Last(linked') = n
    <3> HIDE DEF n
    <3>1. n \in linked' /\ n <= Last(linked')
      BY <1>1, <2>2
    <3>2. ~ (Last(linked') \in linked)
      BY <1>2, <2>1, <3>1 DEF ChunkId
    <3> QED
      BY <1>1, <2>2, <3>2
  <2> QED
    BY <2>3 DEF Back
<1>5. \A c \in linked : IsFull(c)
  BY BackIs DEF AddChunk, PushChunk, NeedsChunk, StoreInv, OnlyBackOpen
<1>6. size' = size /\ head' = head /\ pooled' = pooled /\ zeroed' = zeroed /\ at' = at /\ phase' = "add"
  BY DEF AddChunk, PushChunk
<1>7. size[n] = 0 /\ head[n] = 0 /\ ~pooled[n]
  BY <1>1 DEF StoreInv, Unmade, HeadsBehind, StoreTypeOK
<1>8. at = Nil
  BY DEF StoreInv, ScanListed, AddChunk
<1>9. HeadsBehind' /\ ScanListed' /\ Unmade'
  <2>1. HeadsBehind'
    BY <1>6 DEF StoreInv, HeadsBehind
  <2>2. ScanListed'
    BY <1>6, <1>8 DEF ScanListed
  <2>3. Unmade'
    <3>1. \A c \in ChunkId : c > n => next'[c] = Nil
      <4>1. CASE linked = {}
        BY <1>1, <4>1 DEF AddChunk, PushChunk, StoreInv, Unmade, ChunkId
      <4>2. CASE linked # {}
        <5>1. Back < n /\ Back \in ChunkId
          BY <1>2, <4>2, BackIs DEF StoreInv
        <5> QED
          BY <1>1, <4>2, <5>1 DEF AddChunk, PushChunk, StoreInv, StoreTypeOK, Unmade, ChunkId
      <4> QED
        BY <4>1, <4>2
    <3> QED
      BY <1>1, <1>6, <3>1 DEF StoreInv, Unmade, ChunkId
  <2> QED
    BY <2>1, <2>2, <2>3
<1>10. OnlyBackOpen'
  BY <1>1, <1>4, <1>5, <1>6 DEF OnlyBackOpen, IsFull
<1>11. Marked' /\ Drained'
  <2>1. \A c \in 1 .. n : c = n \/ c \in 1 .. allocated
    BY <1>1
  <2>2. Marked'
    BY <1>1, <1>2, <1>6, <1>7, <2>1 DEF StoreInv, Marked, ChunkId
  <2>3. Drained'
    BY <1>1, <1>6, <2>1 DEF StoreInv, Drained, IsEmpty
  <2> QED
    BY <2>2, <2>3
<1>12. EmptyInHand'
  <2>1. ASSUME NEW c \in linked  PROVE  ~IsEmpty(c)
    <3>1. size[c] # 0
      BY <1>2, <1>5, <2>1 DEF IsFull, StoreInv, StoreTypeOK
    <3>2. phase # "scan"
      BY DEF AddChunk
    <3> QED
      BY <2>1, <3>1, <3>2 DEF StoreInv, EmptyInHand
  <2> QED
    BY <1>1, <1>4, <1>6, <1>7, <2>1 DEF EmptyInHand, IsEmpty
<1> QED
  BY <1>3, <1>9, <1>10, <1>11, <1>12 DEF StoreInv

(* ChunkNode.Add (data.go:103) fills the last chunk only. *)
LEMMA AddItemKeeps ==
  ASSUME StoreInv, AddItem
  PROVE  StoreInv'
<1> USE StoreAssumption
<1> DEFINE b == Back
<1>1. b \in linked /\ b \in ChunkId
  BY BackIs DEF AddItem, PutItem, NeedsChunk, StoreInv
<1>2. size' = [size EXCEPT ![b] = @ + 1] /\ size[b] < ChunkSize
  BY <1>1 DEF AddItem, PutItem, NeedsChunk, IsFull, StoreInv, StoreTypeOK
<1>3. UNCHANGED <<allocated, head, next, pooled, zeroed, linked, closed, at, oldHead>>
  BY DEF AddItem, PutItem
<1>4. phase \in {"free", "add"} /\ phase' \in {"free", "add"}
  BY DEF AddItem
<1>5. Back' = b
  BY <1>3 DEF Back
<1>6. \A c \in ChunkId : size'[c] = IF c = b THEN size[c] + 1 ELSE size[c]
  BY <1>1, <1>2 DEF StoreInv, StoreTypeOK
<1> HIDE DEF b
<1>7. StoreTypeOK'
  <2>1. size' \in [ChunkId -> 0 .. ChunkSize]
    BY <1>1, <1>2 DEF StoreInv, StoreTypeOK
  <2> QED
    BY <1>3, <1>4, <2>1 DEF StoreInv, StoreTypeOK
<1>8. HeadsBehind'
  BY <1>3, <1>6 DEF StoreInv, StoreTypeOK, HeadsBehind
<1>9. ScanListed'
  BY <1>3, <1>4 DEF StoreInv, ScanListed
<1>10. Unmade'
  BY <1>1, <1>3, <1>6, SMTT(30) DEF StoreInv, StoreTypeOK, Unmade, ChunkId
<1>11. OnlyBackOpen'
  <2>1. \A c \in linked \ {b} : size'[c] = size[c]
    BY <1>6, Chunks DEF StoreInv
  <2> QED
    BY <1>3, <1>5, <2>1 DEF StoreInv, OnlyBackOpen, IsFull, b
<1>12. Marked' /\ Drained'
  <2>1. Marked'
    BY <1>3 DEF StoreInv, Marked
  <2>2. \A c \in 1 .. allocated : c \in ChunkId
    BY Chunks DEF StoreInv
  <2>3. Drained'
    BY <1>1, <1>3, <1>6, <2>2 DEF StoreInv, Drained, IsEmpty
  <2> QED
    BY <2>1, <2>3
<1>13. EmptyInHand'
  <2>1. ASSUME NEW c \in linked  PROVE  ~IsEmpty(c)'
    <3>1. c \in ChunkId
      BY DEF StoreInv, StoreTypeOK, ChunkId
    <3>2. CASE c = b
      BY <1>3, <1>6, <3>1, <3>2 DEF StoreInv, StoreTypeOK, HeadsBehind, IsEmpty
    <3>3. CASE c # b
      BY <1>3, <1>4, <1>6, <3>1, <3>3 DEF StoreInv, EmptyInHand, IsEmpty, b
    <3> QED
      BY <3>2, <3>3
  <2> QED
    BY <1>3, <2>1 DEF EmptyInHand
<1> QED
  BY <1>7, <1>8, <1>9, <1>10, <1>11, <1>12, <1>13 DEF StoreInv

(* A sweep starts at the front, with no chunk empty (chunked_list.go:148). *)
LEMMA SweepBeginKeeps ==
  ASSUME StoreInv, SweepBegin
  PROVE  StoreInv'
<1>1. at' = Nil \/ (at' \in linked /\ at' \in ChunkId)
  BY FrontIs DEF SweepBegin, StoreInv, Front, First
<1>2. UNCHANGED <<allocated, size, head, next, pooled, zeroed, linked, closed>> /\ phase' = "scan"
  BY DEF SweepBegin, chunkVars
<1>3. StoreTypeOK'
  BY <1>1, <1>2 DEF SweepBegin, StoreInv, StoreTypeOK
<1>4. HeadsBehind' /\ ScanListed' /\ Unmade'
  BY <1>1, <1>2 DEF StoreInv, HeadsBehind, ScanListed, Unmade
<1>5. OnlyBackOpen' /\ Marked' /\ Drained'
  BY <1>2 DEF StoreInv, OnlyBackOpen, Marked, Drained, Back, IsFull, IsEmpty
<1>6. EmptyInHand'
  BY <1>2 DEF SweepBegin, StoreInv, EmptyInHand, IsEmpty
<1> QED
  BY <1>3, <1>4, <1>5, <1>6 DEF StoreInv

(* RemoveExpired (data.go:144) moves head up to size, in a listed chunk. *)
LEMMA ExpireItemKeeps ==
  ASSUME StoreInv, ExpireItem
  PROVE  StoreInv'
<1>1. at \in ChunkId /\ phase = "scan"
  BY DEF ExpireItem, StoreInv, StoreTypeOK
<1>2. \A c \in ChunkId : head'[c] = IF c = at THEN head[c] + 1 ELSE head[c]
  BY <1>1 DEF ExpireItem, StoreInv, StoreTypeOK
<1>3. UNCHANGED <<allocated, size, next, pooled, zeroed, linked, closed, phase, at, oldHead>>
  BY DEF ExpireItem, sweepVars
<1>4. head[at] < size[at]
  BY <1>1 DEF ExpireItem, IsEmpty, StoreInv, HeadsBehind, StoreTypeOK
<1>5. StoreTypeOK'
  <2>1. head' \in [ChunkId -> 0 .. ChunkSize]
    BY <1>1, <1>4, StoreAssumption DEF ExpireItem, StoreInv, StoreTypeOK
  <2> QED
    BY <1>3, <2>1 DEF StoreInv, StoreTypeOK
<1>6. HeadsBehind'
  BY <1>2, <1>3, <1>4 DEF StoreInv, StoreTypeOK, HeadsBehind
<1>7. ScanListed' /\ Unmade' /\ OnlyBackOpen' /\ Marked'
  BY <1>3 DEF StoreInv, ScanListed, Unmade, OnlyBackOpen, Back, IsFull, Marked
<1>8. Drained'
  <2>1. at \in linked
    BY DEF ExpireItem, StoreInv, ScanListed
  <2>2. \A c \in 1 .. allocated : c \in ChunkId
    BY Chunks DEF StoreInv
  <2> QED
    BY <1>2, <1>3, <2>1, <2>2 DEF StoreInv, Drained, IsEmpty
<1>9. EmptyInHand'
  <2>1. \A c \in linked : c \in ChunkId
    BY Chunks DEF StoreInv
  <2> QED
    BY <1>1, <1>2, <1>3, <2>1 DEF StoreInv, EmptyInHand, IsEmpty
<1> QED
  BY <1>5, <1>6, <1>7, <1>8, <1>9 DEF StoreInv

(* Only an empty chunk is unlinked, and it is marked (chunked_list.go:173). *)
LEMMA UnlinkEmptyKeeps ==
  ASSUME StoreInv, UnlinkEmpty
  PROVE  StoreInv'
<1>1. at \in ChunkId /\ at \in linked /\ phase = "scan" /\ linked' = linked \ {at}
  BY DEF UnlinkEmpty, StoreInv, StoreTypeOK, ScanListed
<1>2. \A c \in ChunkId : pooled'[c] <=> pooled[c] \/ c = at
  BY <1>1 DEF UnlinkEmpty, StoreInv, StoreTypeOK
<1>3. UNCHANGED <<allocated, size, head, next, zeroed, closed, phase, oldHead>>
  BY DEF UnlinkEmpty
<1>4. \A c \in 1 .. allocated : c \in ChunkId
  BY Chunks DEF StoreInv
<1>5. at' = Nil \/ (at' \in linked' /\ at' \in ChunkId)
  <2>1. linked \subseteq ChunkId /\ at \in Nat
    BY <1>1, Chunks DEF StoreInv
  <2>2. at' = After(at)
    BY DEF UnlinkEmpty
  <2>3. After(at) = Nil \/ (After(at) \in linked /\ After(at) > at)
    BY <1>1, AfterIs DEF StoreInv
  <2>4. After(at) > at => After(at) # at
    BY <2>1
  <2> QED
    BY <1>1, <2>1, <2>2, <2>3, <2>4
<1>6. StoreTypeOK'
  <2>1. pooled' \in [ChunkId -> BOOLEAN]
    BY DEF UnlinkEmpty, StoreInv, StoreTypeOK
  <2> QED
    BY <1>1, <1>3, <1>5, <2>1 DEF StoreInv, StoreTypeOK
<1>7. HeadsBehind' /\ ScanListed'
  BY <1>1, <1>3, <1>5 DEF StoreInv, HeadsBehind, ScanListed
<1>8. Unmade'
  BY <1>1, <1>2, <1>3 DEF StoreInv, StoreTypeOK, Unmade, ChunkId
<1>9. OnlyBackOpen'
  <2> SUFFICES ASSUME NEW c \in linked', c # Back'  PROVE  IsFull(c)
    BY <1>3 DEF OnlyBackOpen, IsFull
  <2>1. linked' \subseteq 0 .. allocated /\ allocated \in Nat /\ linked' # {}
    BY <1>1, Chunks DEF StoreInv
  <2>2. Back' \in linked' /\ \A d \in linked' : d <= Back'
    BY <2>1, LastIs DEF Back
  <2>3. c # Back
    <3>1. \A d \in linked : d <= Back
      BY <1>1, BackIs DEF StoreInv
    <3>2. c <= Back' /\ Back' <= Back /\ c \in Nat /\ Back' \in Nat
      BY <1>1, <2>1, <2>2, <3>1
    <3> QED
      BY <3>2
  <2> QED
    BY <1>1, <2>3 DEF StoreInv, OnlyBackOpen
<1>10. Marked'
  BY <1>1, <1>2, <1>3, <1>4 DEF StoreInv, Marked
<1>11. Drained' /\ EmptyInHand'
  <2>1. IsEmpty(at)
    BY DEF UnlinkEmpty
  <2>2. Drained'
    BY <1>1, <1>3, <2>1 DEF StoreInv, Drained, IsEmpty
  <2>3. EmptyInHand'
    BY <1>1, <1>3 DEF StoreInv, EmptyInHand, IsEmpty
  <2> QED
    BY <2>2, <2>3
<1> QED
  BY <1>6, <1>7, <1>8, <1>9, <1>10, <1>11 DEF StoreInv

(* A chunk that is left is not empty (chunked_list.go:191). *)
LEMMA LeaveChunkKeeps ==
  ASSUME StoreInv, LeaveChunk
  PROVE  StoreInv'
<1>1. at \in ChunkId /\ phase = "scan" /\ ~IsEmpty(at)
  BY DEF LeaveChunk, StoreInv, StoreTypeOK
<1>2. UNCHANGED <<allocated, size, head, next, pooled, zeroed, linked, closed, phase, oldHead>>
  BY DEF LeaveChunk, chunkVars
<1>3. at' = Nil \/ (at' \in linked /\ at' \in ChunkId)
  <2>1. CASE at' = Nil
    BY <2>1
  <2>2. CASE at' = After(at)
    BY <1>1, <2>2, AfterIs, Chunks DEF StoreInv
  <2> QED
    BY <2>1, <2>2 DEF LeaveChunk
<1>4. StoreTypeOK'
  BY <1>2, <1>3 DEF StoreInv, StoreTypeOK
<1>5. HeadsBehind' /\ ScanListed' /\ Unmade'
  BY <1>1, <1>2, <1>3 DEF StoreInv, HeadsBehind, ScanListed, Unmade
<1>6. OnlyBackOpen' /\ Marked' /\ Drained'
  BY <1>2 DEF StoreInv, OnlyBackOpen, Marked, Drained, Back, IsFull, IsEmpty
<1>7. EmptyInHand'
  BY <1>1, <1>2 DEF StoreInv, EmptyInHand, IsEmpty
<1> QED
  BY <1>4, <1>5, <1>6, <1>7 DEF StoreInv

(* The steps that end a sweep or set closed leave the chunks alone. *)
LEMMA EndSweepKeeps ==
  ASSUME StoreInv, EndScan \/ EndNotify \/ CloseFlag
  PROVE  StoreInv'
<1>1. UNCHANGED <<allocated, size, head, next, pooled, zeroed, linked, at>>
  BY DEF EndScan, EndNotify, CloseFlag, chunkVars, sweepVars
<1>2. 0 \in 0 .. ChunkSize
  BY StoreAssumption
<1>3. StoreTypeOK'
  BY <1>1, <1>2 DEF EndScan, EndNotify, CloseFlag, sweepVars, StoreInv, StoreTypeOK
<1>4. \/ phase' = phase
      \/ at = Nil /\ phase # "add"
  BY DEF EndScan, EndNotify, CloseFlag, sweepVars, StoreInv, ScanListed
<1>5. HeadsBehind' /\ ScanListed' /\ Unmade'
  BY <1>1, <1>4 DEF StoreInv, HeadsBehind, ScanListed, Unmade
<1>6. OnlyBackOpen' /\ Marked' /\ Drained'
  BY <1>1 DEF StoreInv, OnlyBackOpen, Marked, Drained, Back, IsFull, IsEmpty
<1>7. EmptyInHand'
  <2>1. \A c \in linked : c # Nil
    BY Chunks DEF StoreInv, Nil
  <2>2. CASE phase' = phase
    BY <1>1, <2>2 DEF StoreInv, EmptyInHand, IsEmpty, Back
  <2>3. CASE at = Nil /\ phase # "add"
    BY <1>1, <2>1, <2>3 DEF StoreInv, EmptyInHand, IsEmpty
  <2> QED
    BY <1>4, <2>2, <2>3
<1> QED
  BY <1>3, <1>5, <1>6, <1>7 DEF StoreInv

(* Clear (chunked_list.go:206) marks all it unlinks. *)
LEMMA ClearKeeps ==
  ASSUME StoreInv, Clear
  PROVE  StoreInv'
<1>1. linked' = {} /\ zeroed' = zeroed \cup linked /\ phase = "free"
  BY DEF Clear
<1>2. UNCHANGED <<allocated, size, head, next, closed, phase, at, oldHead>>
  BY DEF Clear, sweepVars
<1>3. \A c \in ChunkId : pooled'[c] <=> pooled[c] \/ c \in linked
  BY DEF Clear
<1>4. StoreTypeOK'
  <2>1. pooled' \in [ChunkId -> BOOLEAN]
    BY DEF Clear, StoreInv, StoreTypeOK
  <2>2. zeroed' \subseteq ChunkId
    BY <1>1, Chunks DEF StoreInv, StoreTypeOK
  <2> QED
    BY <1>1, <1>2, <2>1, <2>2 DEF StoreInv, StoreTypeOK
<1>5. HeadsBehind' /\ ScanListed' /\ OnlyBackOpen' /\ EmptyInHand'
  BY <1>1, <1>2 DEF StoreInv, HeadsBehind, ScanListed, OnlyBackOpen, EmptyInHand
<1>6. Unmade'
  BY <1>2, <1>3, Chunks DEF StoreInv, Unmade
<1>7. Marked'
  BY <1>1, <1>2, <1>3, Chunks DEF StoreInv, Marked
<1>8. Drained'
  BY <1>1, <1>2 DEF StoreInv, Drained, IsEmpty
<1> QED
  BY <1>4, <1>5, <1>6, <1>7, <1>8 DEF StoreInv

(* So every step of the storage keeps the invariant. *)
LEMMA StoreInvStep == StoreInv /\ [StoreNext]_storeVars => StoreInv'
<1> SUFFICES ASSUME StoreInv, [StoreNext]_storeVars  PROVE StoreInv'
  OBVIOUS
<1>1. CASE StoreNext
  BY <1>1, AddChunkKeeps, AddItemKeeps, SweepBeginKeeps, ExpireItemKeeps,
     UnlinkEmptyKeeps, LeaveChunkKeeps, EndSweepKeeps, ClearKeeps DEF StoreNext
<1>2. CASE UNCHANGED storeVars
  BY <1>2 DEF storeVars, chunkVars, sweepVars, StoreInv, StoreTypeOK, HeadsBehind, ScanListed,
     Unmade, OnlyBackOpen, Marked, Drained, EmptyInHand, Back, IsFull, IsEmpty
<1> QED
  BY <1>1, <1>2

(* The storage keeps its types, whatever interleaving of enqueues, sweeps    *)
(* and Close (chunked_list.go).                                              *)
THEOREM StoreTypeInvariant == StoreSpec => []StoreTypeOK
<1>1. StoreInv => StoreTypeOK
  BY DEF StoreInv
<1> QED
  BY <1>1, StoreInvInit, StoreInvStep, PTL DEF StoreSpec

(* Only the last chunk of the list is ever open for items, so that a full    *)
(* size tells a reader to go on (chunked_list.go:47).                        *)
THEOREM OpenOnlyAtBack == StoreSpec => []OnlyBackOpen
<1>1. StoreInv => OnlyBackOpen
  BY DEF StoreInv
<1> QED
  BY <1>1, StoreInvInit, StoreInvStep, PTL DEF StoreSpec

(* A removed chunk is marked and holds nothing for Get; a listed one is not  *)
(* marked and, between two writers, not empty (chunked_list.go:176-183).     *)
THEOREM RemovedOnlyDrained == StoreSpec => []RemovedIsDrained
<1>1. StoreInv => RemovedIsDrained
  BY DEF StoreInv, RemovedIsDrained, Marked, Drained, EmptyInHand
<1> QED
  BY <1>1, StoreInvInit, StoreInvStep, PTL DEF StoreSpec

-----------------------------------------------------------------------------
(* When the clock does not move between scan and stop test, a sweep leaves   *)
(* at the first chunk it does not empty, so it only ever unlinks the front.  *)

(* What has been removed is older than all that is listed: the list is a     *)
(* suffix of the chunks made.  It takes a clock that does not move between   *)
(* scan and stop test (chunked_list.go:152 and :191).                        *)
ListIsSuffix == \A c \in linked : c .. allocated \subseteq linked

NextIsSuccessor == \A c \in ChunkId : next[c] # Nil => next[c] = c + 1 /\ c < allocated
ScanAtFront     == at # Nil => \A d \in linked : at <= d

PrefixInv ==
  /\ StoreInv
  /\ ListIsSuffix
  /\ NextIsSuccessor
  /\ ScanAtFront

(* The empty list is a suffix (chunked_list.go:18). *)
LEMMA PrefixInvInit == StoreInit => PrefixInv
  BY StoreInvInit
  DEF StoreInit, PrefixInv, ListIsSuffix, NextIsSuccessor, ScanAtFront

(* The last chunk made is at the back of a list that is not empty. *)
LEMMA BackIsNewest ==
  ASSUME StoreTypeOK, ListIsSuffix, linked # {}
  PROVE  Back = allocated
<1>1. Back \in linked /\ (\A d \in linked : d <= Back) /\ Back \in Nat
  BY BackIs, Chunks
<1>2. Back <= allocated /\ allocated \in Nat
  BY <1>1, Chunks
<1>3. allocated \in linked
  BY <1>1, <1>2 DEF ListIsSuffix
<1> QED
  BY <1>1, <1>2, <1>3

(* A push at the back (chunked_list.go:41-53) extends the suffix, and
   NextElement of the old back names the successor. *)
LEMMA PrefixAddChunk ==
  ASSUME PrefixInv, AddChunk
  PROVE  ListIsSuffix' /\ NextIsSuccessor' /\ ScanAtFront'
<1> DEFINE n == allocated + 1
<1>1. /\ n \in ChunkId /\ allocated \in Nat /\ allocated' = n
      /\ linked' = linked \cup {n} /\ at' = at
  BY StoreAssumption DEF PrefixInv, StoreInv, StoreTypeOK, AddChunk, PushChunk, ChunkId
<1>2. linked \subseteq 1 .. allocated /\ ChunkId \subseteq Nat
  BY Chunks DEF PrefixInv, StoreInv
<1>3. ListIsSuffix'
  BY <1>1, <1>2 DEF PrefixInv, ListIsSuffix
<1>4. NextIsSuccessor'
  <2>1. CASE linked = {}
    BY <1>1, <1>2, <2>1 DEF AddChunk, PushChunk, PrefixInv, NextIsSuccessor
  <2>2. CASE linked # {}
    <3>1. Back = allocated
      BY <2>2, BackIsNewest DEF PrefixInv, StoreInv
    <3>2. next' = [next EXCEPT ![allocated] = n]
      BY <2>2, <3>1 DEF AddChunk, PushChunk
    <3>3. \A c \in ChunkId : next'[c] = IF c = allocated THEN n ELSE next[c]
      BY <3>2 DEF PrefixInv, StoreInv, StoreTypeOK
    <3> QED
      BY <1>1, <1>2, <3>3 DEF PrefixInv, NextIsSuccessor
  <2> QED
    BY <2>1, <2>2
<1>5. at = Nil
  BY DEF PrefixInv, StoreInv, ScanListed, AddChunk
<1> QED
  BY <1>1, <1>3, <1>4, <1>5 DEF ScanAtFront

(* Unlinking the front (chunked_list.go:173-183) leaves a suffix. *)
LEMMA PrefixUnlink ==
  ASSUME PrefixInv, UnlinkEmpty
  PROVE  ListIsSuffix' /\ NextIsSuccessor' /\ ScanAtFront'
<1>1. at \in Nat /\ at \in linked /\ linked' = linked \ {at} /\ at' = After(at)
  BY Chunks DEF UnlinkEmpty, PrefixInv, StoreInv, ScanListed
<1>2. UNCHANGED <<allocated, next>>
  BY DEF UnlinkEmpty
<1>3. linked \subseteq Nat /\ \A d \in linked' : d > at
  BY <1>1, Chunks DEF PrefixInv, StoreInv, ScanAtFront, UnlinkEmpty
<1>4. ListIsSuffix'
  BY <1>1, <1>2, <1>3 DEF PrefixInv, ListIsSuffix
<1>5. NextIsSuccessor'
  BY <1>2 DEF PrefixInv, NextIsSuccessor
<1>6. ScanAtFront'
  <2>1. at \in ChunkId
    BY <1>1, Chunks DEF PrefixInv, StoreInv
  <2> QED
    BY <1>1, <1>3, <2>1, AfterIs DEF PrefixInv, StoreInv, ScanAtFront
<1> QED
  BY <1>4, <1>5, <1>6

(* So every step keeps the list a suffix. *)
LEMMA PrefixInvStep ==
  ASSUME ~ClockTicks
  PROVE  PrefixInv /\ [StoreNext]_storeVars => PrefixInv'
<1> SUFFICES ASSUME PrefixInv, [StoreNext]_storeVars  PROVE PrefixInv'
  OBVIOUS
<1>1. StoreInv'
  BY StoreInvStep DEF PrefixInv
<1>2. ListIsSuffix' /\ NextIsSuccessor' /\ ScanAtFront'
  <2>1. CASE AddChunk
    BY <2>1, PrefixAddChunk
  <2>2. CASE UnlinkEmpty
    BY <2>2, PrefixUnlink
  <2>3. CASE SweepBegin
    BY <2>3, FrontIs DEF SweepBegin, chunkVars, PrefixInv, StoreInv, ListIsSuffix, NextIsSuccessor,
       ScanAtFront
  <2>4. CASE LeaveChunk
    BY <2>4 DEF LeaveChunk, chunkVars, PrefixInv, ListIsSuffix, NextIsSuccessor, ScanAtFront
  <2>5. CASE Clear
    BY <2>5 DEF Clear, PrefixInv, ListIsSuffix, NextIsSuccessor, ScanAtFront
  <2>6. CASE AddItem \/ ExpireItem \/ EndScan \/ EndNotify \/ CloseFlag \/ UNCHANGED storeVars
    <3>1. UNCHANGED <<allocated, next, linked, at>>
      BY <2>6 DEF AddItem, PutItem, ExpireItem, EndScan, EndNotify, CloseFlag, storeVars,
         chunkVars, sweepVars
    <3> QED
      BY <3>1 DEF PrefixInv, ListIsSuffix, NextIsSuccessor, ScanAtFront
  <2> QED
    BY <2>1, <2>2, <2>3, <2>4, <2>5, <2>6 DEF StoreNext
<1> QED
  BY <1>1, <1>2 DEF PrefixInv

-----------------------------------------------------------------------------
(* Whatever the clock does, NextElement leads from chunk to chunk.  A sweep  *)
(* that goes on past a chunk it left removes chunks from the middle of the   *)
(* list; NextElement goes on leading through them.                           *)

(* The least element of a set is its first, the greatest its last. *)
LEMMA FirstIsLeast ==
  ASSUME NEW S, S \subseteq Nat, NEW m \in S, \A d \in S : m <= d
  PROVE  First(S) = m
<1>1. First(S) \in S /\ First(S) <= m /\ m <= First(S)
  BY FirstIs
<1>2. First(S) \in Nat /\ m \in Nat
  BY <1>1
<1> QED
  BY <1>1, <1>2

(* The same at the back. *)
LEMMA LastIsGreatest ==
  ASSUME NEW S, S \subseteq Nat, NEW m \in S, \A d \in S : d <= m
  PROVE  Last(S) = m
<1>1. S \subseteq 0 .. m /\ m \in Nat
  OBVIOUS
<1>2. Last(S) \in S /\ m <= Last(S) /\ Last(S) <= m
  BY <1>1, LastIs
<1>3. Last(S) \in Nat
  BY <1>2
<1> QED
  BY <1>1, <1>2, <1>3

(* NextElement leads from chunk a to chunk b, upwards, by the chunks of P. *)
Leads(P, a, b) ==
  /\ P \subseteq a .. b /\ a \in P
  /\ \A d \in P \ {b} : next[d] \in P /\ next[d] > d

(* It does get there, as it goes upwards and stays in P until then. *)
LEMMA LeadsThere ==
  ASSUME NEW a \in Nat, NEW b \in Nat, NEW P, Leads(P, a, b)
  PROVE  b \in P
<1>1. P \subseteq 0 .. b /\ P # {}
  BY DEF Leads
<1>2. Last(P) \in P /\ \A d \in P : d <= Last(P)
  BY <1>1, LastIs
<1>3. SUFFICES ASSUME Last(P) # b  PROVE FALSE
  BY <1>2
<1>4. next[Last(P)] \in P /\ next[Last(P)] > Last(P)
  BY <1>2, <1>3 DEF Leads
<1>5. next[Last(P)] <= Last(P) /\ Last(P) \in Nat /\ next[Last(P)] \in Nat
  <2>1. \A x \in P : x \in Nat
    BY <1>1
  <2> QED
    BY <1>2, <1>4, <2>1
<1> QED
  BY <1>4, <1>5

(* Two ways make one. *)
LEMMA LeadsOver ==
  ASSUME NEW a \in Nat, NEW b \in Nat, NEW c \in Nat, a <= b, b <= c,
         NEW P, Leads(P, a, b), NEW Q, Leads(Q, b, c)
  PROVE  Leads(P \cup Q, a, c)
<1>1. P \subseteq a .. c /\ Q \subseteq a .. c /\ a \in P /\ b \in Q
  BY DEF Leads
<1>2. ASSUME NEW d \in (P \cup Q) \ {c}  PROVE next[d] \in P \cup Q /\ next[d] > d
  BY <1>2 DEF Leads
<1> QED
  BY <1>1, <1>2 DEF Leads

(* What NextLeadsOn says of one chunk. *)
LeadsOn(c) ==
  IF c = Back THEN next[c] \notin linked ELSE \E P : Leads(P, c, After(c))

(* The property is that of every listed chunk.                               *)
LEMMA LeadsOnIs == NextLeadsOn <=> \A c \in linked : LeadsOn(c)
<1>1. \A c : LeadsOn(c) <=> IF c = Back
               THEN next[c] \notin linked
               ELSE \E P \in SUBSET (c .. After(c)) :
                      /\ c \in P
                      /\ \A d \in P \ {After(c)} : next[d] \in P /\ next[d] > d
  BY DEF LeadsOn, Leads
<1> QED
  BY <1>1 DEF NextLeadsOn

ChainInv == StoreInv /\ \A c \in linked : LeadsOn(c)

(* Where the list does not change, NextElement of its chunks leads as before *)
(* (only the push at chunked_list.go:52 stores NextElement).                 *)
LEMMA ChainStays ==
  ASSUME \A c \in linked : LeadsOn(c), UNCHANGED <<linked, next>>
  PROVE  (\A c \in linked : LeadsOn(c))'
BY DEF LeadsOn, Leads, After, Back

(* A push links the new chunk behind the back (chunked_list.go:47-53). *)
LEMMA PushKeepsChain ==
  ASSUME ChainInv, AddChunk
  PROVE  (\A c \in linked : LeadsOn(c))'
<1> DEFINE n == allocated + 1
<1>1. /\ linked' = linked \cup {n} /\ n \in ChunkId
      /\ linked \subseteq 1 .. allocated /\ allocated \in Nat /\ ChunkId \subseteq Nat \ {0}
      /\ next \in [ChunkId -> ChunkId \cup {Nil}]
  <2>1. StoreTypeOK /\ linked' = linked \cup {n} /\ allocated < MaxChunks
    BY DEF ChainInv, StoreInv, AddChunk, PushChunk
  <2>2. linked \subseteq 1 .. allocated /\ allocated \in Nat /\ ChunkId \subseteq Nat \ {0}
    BY <2>1, Chunks
  <2>3. n \in ChunkId
    BY <2>1, <2>2, StoreAssumption DEF ChunkId
  <2> QED
    BY <2>1, <2>2, <2>3 DEF StoreTypeOK
<1>2. linked' \subseteq Nat /\ n \in linked' /\ \A d \in linked' : d <= n
  BY <1>1
<1>3. Back' = n
  BY <1>2, LastIsGreatest DEF Back
<1>4. next'[n] \notin linked'
  <2>1. next[n] = Nil
    BY <1>1 DEF ChainInv, StoreInv, Unmade
  <2>2. linked # {} => Back # n
    BY <1>1, BackIs DEF ChainInv, StoreInv
  <2>3. next'[n] = next[n]
    BY <1>1, <2>2 DEF AddChunk, PushChunk
  <2> QED
    BY <1>1, <2>1, <2>3 DEF Nil
<1>5. ASSUME NEW c \in linked  PROVE \E P : Leads(P, c, After(c))'
  <2>1. /\ Back \in linked /\ Back \in Nat /\ (\A d \in linked : d <= Back) /\ c \in Nat
        /\ c \in ChunkId /\ Back \in ChunkId
    BY <1>1, BackIs, Chunks DEF ChainInv, StoreInv
  <2>2. next' = [next EXCEPT ![Back] = n]
    BY DEF AddChunk, PushChunk
  <2>3. CASE c = Back
    <3>1. After(c)' = n
      <4>1. {d \in linked' : d > c} = {n}
        <5>1. \A d \in linked' : d > c <=> d = n
          BY <1>1, <2>1, <2>3
        <5> QED
          BY <1>1, <5>1
      <4>2. {n} \subseteq Nat /\ n \in {n} /\ n <= n
        BY <1>1
      <4>3. First({n}) = n
        BY <4>2, FirstIsLeast
      <4>4. After(c)' = First({d \in linked' : d > c})
        BY DEF After
      <4> QED
        BY <4>1, <4>3, <4>4
    <3>2. next'[c] = n /\ c < n
      BY <1>1, <2>1, <2>2, <2>3
    <3>3. Leads({c, After(c)}, c, After(c))'
      <4>1. {c, n} \subseteq c .. n /\ \A d \in {c, n} \ {n} : d = c
        BY <1>1, <2>1, <3>2
      <4> QED
        BY <3>1, <3>2, <4>1 DEF Leads
    <3> QED
      BY <3>3
  <2>4. CASE c # Back
    <3>1. PICK P : Leads(P, c, After(c))
      BY <2>4 DEF ChainInv, LeadsOn
    <3>2. After(c) \in linked /\ After(c) > c /\ \A d \in linked : d > c => After(c) <= d
      BY <2>1, <2>4, AfterIs DEF ChainInv, StoreInv
    <3>3. After(c)' = After(c)
      <4>1. {d \in linked' : d > c} \subseteq Nat /\ After(c) \in {d \in linked' : d > c}
        BY <1>1, <1>2, <3>2
      <4>2. \A d \in {e \in linked' : e > c} : After(c) <= d
        <5>1. After(c) <= n /\ linked' = linked \cup {n}
          BY <1>1, <1>2, <3>2
        <5> QED
          BY <3>2, <5>1
      <4> QED
        BY <4>1, <4>2, FirstIsLeast DEF After
    <3>4. \A d \in P \ {After(c)} : next'[d] = next[d]
      <4>1. After(c) \in Nat /\ After(c) <= Back /\ After(c) <= MaxChunks /\ 1 <= c
        <5>1. After(c) \in 1 .. allocated /\ After(c) <= Back /\ c \in Nat \ {0}
          BY <1>1, <2>1, <3>2
        <5>2. n <= MaxChunks /\ MaxChunks \in Nat
          BY <1>1, StoreAssumption DEF ChunkId
        <5> QED
          BY <1>1, <5>1, <5>2
      <4>2. \A d \in P : d \in c .. After(c)
        BY <3>1 DEF Leads
      <4>3. \A d \in P \ {After(c)} : d # Back
        BY <2>1, <4>1, <4>2
      <4>4. \A d \in P : d \in ChunkId
        BY <2>1, <4>1, <4>2, StoreAssumption DEF ChunkId
      <4> QED
        BY <1>1, <2>2, <4>3, <4>4
    <3>5. Leads(P, c, After(c))'
      BY <3>1, <3>3, <3>4 DEF Leads
    <3> QED
      BY <3>5
  <2> QED
    BY <2>3, <2>4
<1>6. ASSUME NEW c \in linked'  PROVE LeadsOn(c)'
  <2>1. CASE c = n
    BY <1>3, <1>4, <2>1 DEF LeadsOn
  <2>2. CASE c # n
    <3>1. c \in linked
      BY <1>1, <2>2
    <3> QED
      BY <1>3, <1>5, <2>2, <3>1 DEF LeadsOn
  <2> QED
    BY <2>1, <2>2
<1> QED
  BY <1>6

(* A chunk that is unlinked is led through: its own NextElement is left as   *)
(* it was (PutChunkNode, pool.go; chunked_list.go:173-183).                  *)
LEMMA UnlinkKeepsChain ==
  ASSUME ChainInv, UnlinkEmpty
  PROVE  (\A c \in linked : LeadsOn(c))'
<1>1. /\ linked' = linked \ {at} /\ next' = next /\ at \in linked
      /\ linked \subseteq ChunkId /\ ChunkId \subseteq Nat \ {0}
  BY Chunks DEF ChainInv, StoreInv, ScanListed, UnlinkEmpty
<1>2. \A c \in linked :
        \/ After(c) = Nil /\ \A d \in linked : d <= c
        \/ After(c) \in linked /\ After(c) > c /\ \A d \in linked : d > c => After(c) <= d
  BY <1>1, AfterIs DEF ChainInv, StoreInv
<1>3. Back \in linked /\ \A d \in linked : d <= Back
  BY <1>1, BackIs DEF ChainInv, StoreInv
<1> SUFFICES ASSUME NEW c \in linked'  PROVE LeadsOn(c)'
  OBVIOUS
<1>4. c \in linked /\ c # at /\ LeadsOn(c)
  BY <1>1 DEF ChainInv
<1>5. CASE After(c) # at /\ c # Back
  <2>1. Back' # c /\ After(c)' = After(c)
    <3>1. After(c) \in linked /\ After(c) > c /\ \A d \in linked : d > c => After(c) <= d
      BY <1>1, <1>2, <1>3, <1>4, <1>5
    <3>2. /\ After(c) \in {d \in linked' : d > c} /\ {d \in linked' : d > c} \subseteq Nat
          /\ \A d \in {e \in linked' : e > c} : After(c) <= d
      BY <1>1, <1>5, <3>1
    <3>3. After(c)' = After(c)
      BY <3>2, FirstIsLeast DEF After
    <3>4. linked' # {} /\ StoreTypeOK'
      BY StoreInvStep DEF ChainInv, StoreInv, StoreNext
    <3>5. linked' \subseteq Nat /\ After(c) \in linked'
      BY <1>1, <3>2
    <3>6. Back' # c
      <4>1. Back' \in linked' /\ \A d \in linked' : d <= Back'
        <5>1. allocated' \in Nat /\ linked' \subseteq 0 .. allocated'
          BY <3>4 DEF StoreTypeOK
        <5> QED
          BY <3>4, <5>1, LastIs DEF Back
      <4>2. After(c) <= Back' /\ After(c) > c /\ Back' \in Nat /\ After(c) \in Nat /\ c \in Nat
        BY <1>1, <1>4, <3>1, <3>5, <4>1
      <4> QED
        BY <4>2
    <3> QED
      BY <3>3, <3>6
  <2> QED
    BY <1>1, <1>4, <1>5, <2>1 DEF LeadsOn, Leads
<1>6. CASE c = Back
  <2>1. linked' \subseteq Nat /\ c \in linked' /\ \A d \in linked' : d <= c
    BY <1>1, <1>3, <1>6
  <2>2. Back' = c
    BY <2>1, LastIsGreatest DEF Back
  <2> QED
    BY <1>1, <1>4, <1>6, <2>2 DEF LeadsOn
<1>7. CASE After(c) = at /\ c # Back
  <2>1. at > c /\ \A d \in linked : d > c => at <= d
    BY <1>1, <1>2, <1>7 DEF Nil
  <2>2. PICK P : Leads(P, c, at)
    BY <1>4, <1>7 DEF LeadsOn
  <2>3. CASE at = Back
    <3>1. linked' \subseteq Nat /\ c \in linked' /\ \A d \in linked' : d <= c
      BY <1>1, <1>3, <2>1, <2>3
    <3>2. Back' = c
      BY <3>1, LastIsGreatest DEF Back
    <3>3. next[c] \in P /\ next[c] > c
      BY <1>4, <2>2 DEF Leads
    <3>4. next[c] \in Nat /\ next[c] <= at
      <4>1. next[c] \in c .. at /\ c \in Nat /\ at \in Nat
        BY <1>1, <1>4, <2>2, <3>3 DEF Leads
      <4> QED
        BY <4>1
    <3>5. next[c] \notin linked'
      BY <1>1, <2>1, <3>3, <3>4
    <3> QED
      BY <1>1, <3>2, <3>5 DEF LeadsOn
  <2>4. CASE at # Back
    <3>1. After(at) \in linked /\ After(at) > at /\ \A d \in linked : d > at => After(at) <= d
      BY <1>1, <1>2, <1>3, <2>4
    <3>2. PICK Q : Leads(Q, at, After(at))
      BY <1>1, <2>4 DEF ChainInv, LeadsOn
    <3>3. /\ After(at) \in {d \in linked' : d > c} /\ {d \in linked' : d > c} \subseteq Nat
          /\ \A d \in {e \in linked' : e > c} : After(at) <= d
      <4>1. c \in Nat /\ at \in Nat /\ After(at) \in Nat /\ After(at) # at
        <5>1. \A d \in linked : d \in Nat
          BY <1>1
        <5>2. c \in Nat /\ at \in Nat /\ After(at) \in Nat
          BY <1>1, <1>4, <3>1, <5>1
        <5> QED
          BY <3>1, <5>2
      <4>2. After(at) \in linked' /\ After(at) > c
        BY <1>1, <2>1, <3>1, <4>1
      <4>3. ASSUME NEW d \in linked', d > c  PROVE After(at) <= d
        <5>1. d \in linked /\ d # at /\ d \in Nat /\ at <= d
          BY <1>1, <2>1, <4>3
        <5>2. d > at
          BY <4>1, <5>1
        <5> QED
          BY <3>1, <5>1, <5>2
      <4> QED
        BY <1>1, <4>2, <4>3
    <3>4. After(c)' = After(at)
      BY <3>3, FirstIsLeast DEF After
    <3>5. c \in Nat /\ at \in Nat /\ After(at) \in Nat /\ c <= at /\ at <= After(at)
      <4>1. c \in Nat /\ at \in Nat /\ After(at) \in Nat
        BY <1>1, <1>4, <3>1
      <4> QED
        BY <2>1, <3>1, <4>1
    <3>6. Leads(P \cup Q, c, After(at))
      BY <2>2, <3>2, <3>5, LeadsOver
    <3>7. Leads(P \cup Q, c, After(c))'
      BY <1>1, <3>4, <3>6 DEF Leads
    <3>8. Back' # c
      <4>1. Back \in linked' /\ Back \in Nat /\ Back > c /\ linked' \subseteq Nat
        BY <1>1, <1>3, <1>4, <1>7, <2>4
      <4>2. \A d \in linked' : d <= Back
        BY <1>1, <1>3
      <4>3. Back' = Back
        BY <4>1, <4>2, LastIsGreatest DEF Back
      <4> QED
        BY <4>1, <4>3
    <3> QED
      BY <3>7, <3>8 DEF LeadsOn
  <2> QED
    BY <2>3, <2>4
<1> QED
  BY <1>5, <1>6, <1>7

(* So every step of the storage keeps the chain. *)
LEMMA ChainInvStep == ChainInv /\ [StoreNext]_storeVars => ChainInv'
<1> SUFFICES ASSUME ChainInv, [StoreNext]_storeVars  PROVE (\A c \in linked : LeadsOn(c))'
  BY StoreInvStep DEF ChainInv
<1>1. CASE Clear
  BY <1>1 DEF Clear
<1>2. CASE \/ AddItem \/ SweepBegin \/ ExpireItem \/ LeaveChunk \/ EndScan \/ EndNotify
           \/ CloseFlag \/ UNCHANGED storeVars
  <2>1. UNCHANGED <<linked, next>>
    BY <1>2 DEF AddItem, PutItem, SweepBegin, ExpireItem, LeaveChunk, EndScan, EndNotify,
       CloseFlag, storeVars, chunkVars
  <2> QED
    BY <2>1, ChainStays DEF ChainInv
<1> QED
  BY <1>1, <1>2, PushKeepsChain, UnlinkKeepsChain DEF StoreNext

(* NextElement leads from every listed chunk to the next one listed, also    *)
(* when a sweep has removed chunks from between them, and from the last to   *)
(* nothing listed (chunked_list.go:52).                                      *)
THEOREM NextLeadsToNext == StoreSpec => []NextLeadsOn
<1>1. StoreInit => ChainInv
  BY StoreInvInit DEF StoreInit, ChainInv
<1>2. ChainInv => NextLeadsOn
  BY LeadsOnIs DEF ChainInv
<1> QED
  BY <1>1, <1>2, ChainInvStep, PTL DEF StoreSpec

-----------------------------------------------------------------------------
(* Slots *)

(* Slots are finitely many. *)
LEMMA SlotsAre ==
  /\ IsFiniteSet(Slot)
  /\ \A S : S \subseteq Slot => IsFiniteSet(S) /\ Cardinality(S) \in Nat
  /\ \A s \in Slot : s = <<s[1], s[2]>> /\ s[1] \in ChunkId /\ s[1] \in Nat \ {0} /\ s[2] \in Nat
<1>1. IsFiniteSet(ChunkId) /\ IsFiniteSet(0 .. ChunkSize - 1)
  BY StoreAssumption, FS_Interval DEF ChunkId
<1>2. IsFiniteSet(Slot)
  BY <1>1, FS_Product DEF Slot
<1>3. \A S : S \subseteq Slot => IsFiniteSet(S) /\ Cardinality(S) \in Nat
  BY <1>2, FS_Subset, FS_CardinalityType
<1>4. \A s \in Slot : s = <<s[1], s[2]>> /\ s[1] \in ChunkId /\ s[1] \in Nat \ {0} /\ s[2] \in Nat
  BY StoreAssumption DEF Slot, ChunkId
<1> QED
  BY <1>2, <1>3, <1>4

(* A slot is live when its chunk is listed and it lies between head and size. *)
LiveMeans ==
  /\ LiveSlots \subseteq Slot
  /\ \A s \in Slot : s \in LiveSlots
       <=> s[1] \in linked /\ head[s[1]] <= s[2] /\ s[2] < size[s[1]]

(* That is what Get can return of the listed chunks (data.go:117).           *)
LEMMA LiveIs == StoreTypeOK => LiveMeans
<1> SUFFICES ASSUME StoreTypeOK  PROVE LiveMeans
  OBVIOUS
<1>1. /\ linked \subseteq ChunkId /\ ChunkId \subseteq Nat
      /\ \A c \in ChunkId : /\ size[c] \in Nat /\ head[c] \in Nat
                            /\ size[c] <= ChunkSize
  BY Chunks, StoreAssumption DEF StoreTypeOK
<1>2. ASSUME NEW s \in LiveSlots  PROVE s \in Slot
  <2>1. PICK c \in linked : s \in {c} \X (head[c] .. size[c] - 1)
    BY DEF LiveSlots, LiveIn
  <2> QED
    BY <1>1, <2>1, StoreAssumption DEF Slot
<1>3. ASSUME NEW s \in Slot
      PROVE  s \in LiveSlots <=> s[1] \in linked /\ head[s[1]] <= s[2] /\ s[2] < size[s[1]]
  <2>1. s = <<s[1], s[2]>> /\ s[1] \in ChunkId /\ s[2] \in Nat
    BY StoreAssumption DEF Slot
  <2>2. s \in LiveSlots <=> \E c \in linked : s \in {c} \X (head[c] .. size[c] - 1)
    BY DEF LiveSlots, LiveIn
  <2>3. \A c \in linked : s \in {c} \X (head[c] .. size[c] - 1)
                            <=> s[1] = c /\ s[2] \in head[c] .. size[c] - 1
    BY <2>1
  <2>4. \A c \in linked : s[2] \in head[c] .. size[c] - 1
                            <=> head[c] <= s[2] /\ s[2] < size[c]
    BY <1>1, <2>1
  <2> QED
    BY <2>2, <2>3, <2>4
<1> QED
  BY <1>2, <1>3 DEF LiveMeans

(* And so after a step. *)
LEMMA LiveIsNext == StoreTypeOK' => LiveMeans'
  BY LiveIs, PTL
===============================================================================
