------------------------------ MODULE ListProofs ------------------------------
(***************************************************************************)
(* The counters of ChunkedList are exact and its limits hold, for any      *)
(* sizes, limits and clock; what its sweeps leave and what they pass.      *)
(***************************************************************************)
EXTENDS ChunkedList, ChunkStoreProofs, SequenceTheorems

(* Every action of ChunkedList takes one action of the storage, or none. *)
LEMMA ListStepsTheStore == [Next]_vars => [StoreNext]_storeVars
<1> SUFFICES ASSUME [Next]_vars  PROVE [StoreNext]_storeVars
  OBVIOUS
<1>1. CASE UNCHANGED vars
  BY <1>1 DEF vars
<1>2. ASSUME NEW p \in Producers, Stamp(p) \/ GiveUp(p)  PROVE UNCHANGED storeVars
  BY <1>2 DEF Stamp, GiveUp
<1>3. ASSUME NEW p \in Producers, GrowFor(p) \/ AddFor(p)  PROVE StoreNext
  BY <1>3 DEF GrowFor, AddFor, StoreNext
<1>4. CASE StartSweep \/ Expire \/ DropChunk \/ StopTest \/ EndSweep \/ RaiseClosed \/ ClearAll
  BY <1>4 DEF StartSweep, Expire, DropChunk, StopTest, EndSweep, RaiseClosed, ClearAll, StoreNext
<1>5. CASE EndChunkScan \/ SetTTL \/ SetExpiration \/ Tick
  BY <1>5 DEF EndChunkScan, SetTTL, SetExpiration, Tick
<1> QED
  BY <1>1, <1>2, <1>3, <1>4, <1>5 DEF Next

-----------------------------------------------------------------------------
(* Sums *)

SumOver(w, S) == MapThenSumSet(LAMBDA s : w[s], S)

(* As many pairs as the weights of S add up to. *)
Weights(w, S) == UNION {{s} \X (1 .. w[s]) : s \in S}

(* Weights are finitely many, and those of one element can be taken out.     *)
LEMMA WeightsSplit ==
  ASSUME NEW S, IsFiniteSet(S), NEW w, \A s \in S : w[s] \in Nat
  PROVE  /\ IsFiniteSet(Weights(w, S)) /\ Cardinality(Weights(w, S)) \in Nat
         /\ \A x \in S : Cardinality(Weights(w, S))
                           = w[x] + Cardinality(Weights(w, S \ {x}))
<1> DEFINE F == {{s} \X (1 .. w[s]) : s \in S}
           f == [s \in S |-> {s} \X (1 .. w[s])]
<1>1. \A s \in S : /\ IsFiniteSet({s} \X (1 .. w[s]))
                   /\ Cardinality({s} \X (1 .. w[s])) = w[s]
  <2> SUFFICES ASSUME NEW s \in S
               PROVE  /\ IsFiniteSet({s} \X (1 .. w[s]))
                      /\ Cardinality({s} \X (1 .. w[s])) = w[s]
    OBVIOUS
  <2>1. w[s] \in Nat /\ 1 \in Int /\ w[s] \in Int
    OBVIOUS
  <2>2. IsFiniteSet({s}) /\ Cardinality({s}) = 1
    BY FS_Singleton
  <2>3. IsFiniteSet(1 .. w[s]) /\ Cardinality(1 .. w[s]) = IF 1 > w[s] THEN 0 ELSE w[s] - 1 + 1
    BY <2>1, FS_Interval
  <2>4. Cardinality(1 .. w[s]) = w[s]
    BY <2>1, <2>3
  <2>5. /\ IsFiniteSet({s} \X (1 .. w[s]))
        /\ Cardinality({s} \X (1 .. w[s])) = Cardinality({s}) * Cardinality(1 .. w[s])
    BY <2>2, <2>3, FS_Product
  <2>6. 1 * w[s] = w[s]
    BY <2>1
  <2> QED
    BY <2>2, <2>4, <2>5, <2>6
<1>2. IsFiniteSet(F)
  <2>1. f \in Surjection(S, F)
    BY DEF Surjection
  <2> HIDE DEF f, F
  <2> QED
    BY <2>1, FS_Surjection
<1>3. IsFiniteSet(UNION F)
  <2>1. \A T \in F : IsFiniteSet(T)
    BY <1>1
  <2> HIDE DEF F
  <2> QED
    BY <1>2, <2>1, FS_UNION
<1>4. IsFiniteSet(Weights(w, S)) /\ Cardinality(Weights(w, S)) \in Nat
  <2>1. Weights(w, S) = UNION F
    BY DEF Weights
  <2> HIDE DEF F
  <2> QED
    BY <1>3, <2>1, FS_CardinalityType
<1>5. ASSUME NEW x \in S
      PROVE  Cardinality(Weights(w, S)) = w[x] + Cardinality(Weights(w, S \ {x}))
  <2> DEFINE A == {x} \X (1 .. w[x])
             B == Weights(w, S \ {x})
  <2>1. Weights(w, S) = A \cup B
    BY DEF Weights
  <2>2. A \cap B = {}
    BY DEF Weights
  <2>3. IsFiniteSet(A) /\ Cardinality(A) = w[x]
    BY <1>1
  <2>4. IsFiniteSet(B) /\ Cardinality(B) \in Nat
    <3>1. B \subseteq Weights(w, S)
      BY DEF Weights
    <3> HIDE DEF B
    <3> QED
      BY <1>4, <3>1, FS_Subset, FS_CardinalityType
  <2>5. w[x] \in Nat
    OBVIOUS
  <2> HIDE DEF A, B
  <2>6. Cardinality(A \cup B) = Cardinality(A) + Cardinality(B) - Cardinality(A \cap B)
    BY <2>3, <2>4, FS_Union
  <2>7. Cardinality(A \cap B) = 0
    BY <2>2, FS_EmptySet
  <2> QED
    BY <2>1, <2>3, <2>4, <2>5, <2>6, <2>7 DEF B
<1> QED
  BY <1>4, <1>5

(* MapThenSumSet adds all weights, in whatever order it chooses.             *)
LEMMA SumIs ==
  ASSUME NEW S, IsFiniteSet(S), NEW w, \A s \in S : w[s] \in Nat
  PROVE  SumOver(w, S) = Cardinality(Weights(w, S))
<1> DEFINE pick(T) == CHOOSE x \in T : TRUE
           add(f) == [T \in SUBSET S |-> IF T = {} THEN 0 ELSE w[pick(T)] + f[T \ {pick(T)}]]
           g == [T \in SUBSET S |-> Cardinality(Weights(w, T))]
           sum == CHOOSE f : f = add(f)
<1>1. SumOver(w, S) = sum[S]
  BY Zenon DEF SumOver, MapThenSumSet, MapThenFoldSet
<1>2. \A T \in SUBSET S : T # {} => pick(T) \in T /\ T \ {pick(T)} \in SUBSET S
  <2> SUFFICES ASSUME NEW T \in SUBSET S, T # {}  PROVE pick(T) \in T
    OBVIOUS
  <2>1. \E x \in T : TRUE
    OBVIOUS
  <2> QED
    BY <2>1, Zenon
<1>3. ASSUME NEW T \in SUBSET S
      PROVE  /\ IsFiniteSet(T)
             /\ g[T] = IF T = {} THEN 0 ELSE w[pick(T)] + g[T \ {pick(T)}]
  <2>1. IsFiniteSet(T) /\ \A s \in T : w[s] \in Nat
    BY FS_Subset
  <2>2. CASE T = {}
    <3>1. Weights(w, {}) = {}
      BY DEF Weights
    <3> QED
      BY <2>1, <2>2, <3>1, FS_EmptySet
  <2>3. CASE T # {}
    <3>1. pick(T) \in T /\ T \ {pick(T)} \in SUBSET S
      BY <1>2, <2>3
    <3> DEFINE x == pick(T)
    <3> HIDE DEF x
    <3>2. x \in T /\ T \ {x} \in SUBSET S
      BY <3>1 DEF x
    <3>3. Cardinality(Weights(w, T)) = w[x] + Cardinality(Weights(w, T \ {x}))
      BY <2>1, <3>2, WeightsSplit
    <3>4. g[T] = w[x] + g[T \ {x}]
      BY <3>2, <3>3
    <3> QED
      BY <2>1, <2>3, <3>4 DEF x
  <2> QED
    BY <2>2, <2>3
<1> HIDE DEF pick
<1>4. g = add(g)
  BY <1>3
<1>5. sum = add(sum)
  <2>1. \E f : f = add(f)
    <3> HIDE DEF add, g
    <3> QED
      BY <1>4
  <2> HIDE DEF add
  <2> QED
    BY <2>1, Zenon
<1>6. ASSUME NEW T \in SUBSET S
      PROVE  sum[T] = IF T = {} THEN 0 ELSE w[pick(T)] + sum[T \ {pick(T)}]
  <2> HIDE DEF sum
  <2>1. add(sum)[T] = IF T = {} THEN 0 ELSE w[pick(T)] + sum[T \ {pick(T)}]
    BY Zenon
  <2> QED
    BY <1>5, <2>1, Zenon
<1> DEFINE Bad == {T \in SUBSET S : sum[T] # g[T]}
           Counts == {n \in Nat : \E T \in Bad : Cardinality(T) = n}
<1> HIDE DEF sum, g, add
<1>7. Bad = {}
  <2> SUFFICES ASSUME Bad # {}  PROVE FALSE
    OBVIOUS
  <2>1. \A T \in SUBSET S : IsFiniteSet(T) /\ Cardinality(T) \in Nat
    BY <1>3, FS_CardinalityType
  <2>2. Counts \subseteq Nat /\ Counts # {}
    BY <2>1
  <2>3. PICK n \in Counts : \A m \in Counts : n <= m
    <3> HIDE DEF Counts
    <3> QED
      BY <2>2, LeastExists
  <2>4. PICK T \in Bad : Cardinality(T) = n
    BY <2>3
  <2>5. T \in SUBSET S /\ sum[T] # g[T] /\ IsFiniteSet(T) /\ Cardinality(T) \in Nat
    BY <2>1, <2>4
  <2>6. T # {}
    BY <1>3, <1>6, <2>5
  <2> DEFINE U == T \ {pick(T)}
  <2>7. pick(T) \in T /\ U \in SUBSET S
    BY <1>2, <2>5, <2>6 DEF pick
  <2>8. Cardinality(U) = Cardinality(T) - 1
    BY <2>5, <2>7, FS_RemoveElement
  <2>9. U \notin Bad
    <3>1. U \in Bad => n <= Cardinality(U)
      BY <2>1, <2>3
    <3> QED
      BY <2>4, <2>5, <2>8, <3>1
  <2>10. sum[U] = g[U]
    BY <2>7, <2>9
  <2> QED
    BY <1>3, <1>6, <2>5, <2>6, <2>10
<1>8. sum[S] = g[S]
  BY <1>7
<1>9. g[S] = Cardinality(Weights(w, S))
  BY DEF g
<1> QED
  BY <1>1, <1>8, <1>9

(* So a sum is a number, an element can be taken out of it, and it knows     *)
(* only the weights of its elements.                                         *)
LEMMA SumSplits ==
  ASSUME NEW S, IsFiniteSet(S), NEW w, \A s \in S : w[s] \in Nat
  PROVE  /\ SumOver(w, S) \in Nat
         /\ S = {} => SumOver(w, S) = 0
         /\ \A x \in S : SumOver(w, S) = w[x] + SumOver(w, S \ {x})
<1>1. SumOver(w, S) = Cardinality(Weights(w, S)) /\ Cardinality(Weights(w, S)) \in Nat
  BY SumIs, WeightsSplit
<1>2. S = {} => SumOver(w, S) = 0
  <2>1. S = {} => Weights(w, S) = {}
    BY DEF Weights
  <2> QED
    BY <1>1, <2>1, FS_EmptySet
<1>3. ASSUME NEW x \in S  PROVE SumOver(w, S) = w[x] + SumOver(w, S \ {x})
  <2>1. IsFiniteSet(S \ {x}) /\ \A s \in S \ {x} : w[s] \in Nat
    BY FS_RemoveElement
  <2>2. SumOver(w, S \ {x}) = Cardinality(Weights(w, S \ {x}))
    BY <2>1, SumIs
  <2> QED
    BY <1>1, <2>2, WeightsSplit
<1> QED
  BY <1>1, <1>2, <1>3

(* Equal weights have equal sums.                                            *)
LEMMA SumAgrees ==
  ASSUME NEW S, IsFiniteSet(S), NEW w, NEW v,
         \A s \in S : w[s] \in Nat /\ v[s] = w[s]
  PROVE  SumOver(v, S) = SumOver(w, S)
<1>1. Weights(v, S) = Weights(w, S)
  BY DEF Weights
<1> QED
  BY <1>1, SumIs

-----------------------------------------------------------------------------
(* What is stored, step by step *)

(* A new chunk holds nothing (chunked_list.go:34-55).                        *)
LEMMA PushStores ==
  ASSUME StoreInv, AddChunk
  PROVE  /\ LiveSlots' = LiveSlots
         /\ linked' # {} /\ size'[Back'] = 0
         /\ IsFiniteSet(linked) /\ Cardinality(linked') = Cardinality(linked) + 1
         /\ linked # {} => size[Back] >= ChunkSize
<1> DEFINE n == allocated + 1
<1>1. /\ n \in ChunkId /\ allocated \in Nat /\ linked' = linked \cup {n}
      /\ size' = size /\ head' = head
      /\ linked # {} => size[Back] >= ChunkSize
  BY StoreAssumption
  DEF StoreInv, StoreTypeOK, AddChunk, PushChunk, ChunkId, NeedsChunk, IsFull
<1>2. \A c \in linked : c \in Nat /\ c < n
  BY <1>1 DEF StoreInv, StoreTypeOK
<1>3. size[n] = 0 /\ head[n] \in Nat
  <2>1. n > allocated
    BY <1>1
  <2>2. size[n] = 0
    BY <1>1, <2>1 DEF StoreInv, Unmade
  <2>3. head[n] \in Nat
    BY <1>1, StoreAssumption DEF StoreInv, StoreTypeOK
  <2> QED
    BY <2>2, <2>3
<1>4. Back' = n
  <2>1. linked' \subseteq Nat /\ n \in linked' /\ \A d \in linked' : d <= n
    BY <1>1, <1>2
  <2>2. Last(linked') = n
    BY <2>1, LastIsGreatest
  <2> QED
    BY <2>2 DEF Back
<1>5. IsFiniteSet(linked) /\ Cardinality(linked') = Cardinality(linked) + 1
  <2>1. IsFiniteSet(linked)
    <3>1. IsFiniteSet(1 .. allocated)
      BY <1>1, FS_Interval
    <3> QED
      BY <3>1, FS_Subset DEF StoreInv, StoreTypeOK
  <2>2. n \notin linked
    BY <1>1, <1>2
  <2> QED
    BY <1>1, <2>1, <2>2, FS_AddElement
<1>6. LiveSlots' = LiveSlots
  <2>1. LiveMeans /\ LiveMeans'
    BY AddChunkKeeps, LiveIs, LiveIsNext DEF StoreInv
  <2>2. ASSUME NEW s \in Slot  PROVE s \in LiveSlots' <=> s \in LiveSlots
    <3>1. s[2] \in Nat
      BY SlotsAre
    <3>2. s \in LiveSlots' <=> s[1] \in linked' /\ head[s[1]] <= s[2] /\ s[2] < size[s[1]]
      BY <1>1, <2>1 DEF LiveMeans
    <3>3. s \in LiveSlots <=> s[1] \in linked /\ head[s[1]] <= s[2] /\ s[2] < size[s[1]]
      BY <2>1 DEF LiveMeans
    <3>4. s[1] = n => ~(s[2] < size[s[1]])
      BY <1>3, <3>1
    <3> QED
      BY <1>1, <3>2, <3>3, <3>4
  <2> QED
    BY <2>1, <2>2 DEF LiveMeans
<1> QED
  BY <1>1, <1>3, <1>4, <1>5, <1>6

(* An item goes to the slot behind the last one (data.go:98-114).            *)
LEMMA PutStores ==
  ASSUME StoreInv, AddItem
  PROVE  LET slot == <<Back, size[Back]>> IN
         /\ slot \in Slot \ LiveSlots
         /\ LiveSlots' = LiveSlots \cup {slot}
         /\ linked' = linked /\ linked # {} /\ Back' = Back
         /\ size[Back] \in Nat /\ size'[Back'] = size[Back] + 1
<1> DEFINE b == Back
           slot == <<b, size[b]>>
<1>1. /\ linked # {} /\ ~(size[b] >= ChunkSize) /\ linked' = linked /\ head' = head
      /\ size' = [size EXCEPT ![b] = size[b] + 1]
  BY DEF AddItem, PutItem, NeedsChunk, IsFull
<1>2. b \in linked /\ b \in ChunkId
  BY <1>1, BackIs DEF StoreInv
<1>3. size[b] \in 0 .. ChunkSize - 1 /\ head[b] <= size[b]
  BY <1>1, <1>2, StoreAssumption DEF StoreInv, StoreTypeOK, HeadsBehind
<1>4. /\ size'[b] = size[b] + 1
      /\ \A c \in ChunkId : c # b => size'[c] = size[c]
  BY <1>1, <1>2 DEF StoreInv, StoreTypeOK
<1>5. slot \in Slot
  BY <1>2, <1>3 DEF Slot
<1>6. LiveMeans /\ LiveMeans'
  BY AddItemKeeps, LiveIs, LiveIsNext DEF StoreInv
<1>7. slot \notin LiveSlots
  BY <1>3, <1>5, <1>6 DEF LiveMeans
<1>8. ASSUME NEW s \in Slot  PROVE s \in LiveSlots' <=> s \in LiveSlots \cup {slot}
  <2>1. s = <<s[1], s[2]>> /\ s[1] \in ChunkId /\ s[2] \in Nat
    BY SlotsAre
  <2>2. s \in LiveSlots' <=> s[1] \in linked /\ head[s[1]] <= s[2] /\ s[2] < size'[s[1]]
    BY <1>1, <1>6 DEF LiveMeans
  <2>3. s \in LiveSlots <=> s[1] \in linked /\ head[s[1]] <= s[2] /\ s[2] < size[s[1]]
    BY <1>6 DEF LiveMeans
  <2>4. CASE s[1] # b
    BY <1>4, <2>1, <2>2, <2>3, <2>4
  <2>5. CASE s[1] = b
    <3>1. s[2] < size[b] + 1 <=> s[2] < size[b] \/ s[2] = size[b]
      BY <1>3, <2>1
    <3>2. s[2] = size[b] => head[b] <= s[2]
      BY <1>3
    <3>3. s = slot <=> s[2] = size[b]
      BY <2>1, <2>5
    <3> QED
      BY <1>2, <1>4, <2>2, <2>3, <2>5, <3>1, <3>2, <3>3
  <2> QED
    BY <2>4, <2>5
<1>9. LiveSlots' = LiveSlots \cup {slot}
  BY <1>5, <1>6, <1>8 DEF LiveMeans
<1>10. Back' = b
  BY <1>1 DEF Back
<1> QED
  BY <1>1, <1>3, <1>4, <1>5, <1>7, <1>9, <1>10

(* An item expires at the head of the chunk swept (data.go:144-166).         *)
LEMMA ExpiryStores ==
  ASSUME StoreInv, ExpireItem
  PROVE  /\ HeadOf(at) \in LiveSlots
         /\ LiveSlots' = LiveSlots \ {HeadOf(at)}
         /\ linked' = linked
<1> DEFINE slot == HeadOf(at)
<1>1. /\ at \in linked /\ at \in ChunkId /\ head[at] # size[at]
      /\ linked' = linked /\ size' = size /\ head' = [head EXCEPT ![at] = head[at] + 1]
  BY DEF ExpireItem, IsEmpty, StoreInv, ScanListed, StoreTypeOK, Nil
<1>2. head[at] \in Nat /\ size[at] \in Nat /\ head[at] < size[at] /\ size[at] <= ChunkSize
  <2>1. /\ head[at] \in Nat /\ size[at] \in Nat /\ head[at] <= size[at]
        /\ size[at] <= ChunkSize
    BY <1>1, StoreAssumption DEF StoreInv, StoreTypeOK, HeadsBehind
  <2> QED
    BY <1>1, <2>1
<1>3. /\ head'[at] = head[at] + 1
      /\ \A c \in ChunkId : c # at => head'[c] = head[c]
  BY <1>1 DEF StoreInv, StoreTypeOK
<1>4. slot = <<at, head[at]>> /\ slot \in Slot
  BY <1>1, <1>2, StoreAssumption DEF HeadOf, Slot
<1>5. LiveMeans /\ LiveMeans'
  BY ExpireItemKeeps, LiveIs, LiveIsNext DEF StoreInv
<1>6. slot \in LiveSlots
  BY <1>1, <1>2, <1>4, <1>5 DEF LiveMeans
<1>7. ASSUME NEW s \in Slot  PROVE s \in LiveSlots' <=> s \in LiveSlots \ {slot}
  <2>1. s = <<s[1], s[2]>> /\ s[1] \in ChunkId /\ s[2] \in Nat
    BY SlotsAre
  <2>2. s \in LiveSlots' <=> s[1] \in linked /\ head'[s[1]] <= s[2] /\ s[2] < size[s[1]]
    BY <1>1, <1>5 DEF LiveMeans
  <2>3. s \in LiveSlots <=> s[1] \in linked /\ head[s[1]] <= s[2] /\ s[2] < size[s[1]]
    BY <1>5 DEF LiveMeans
  <2>4. CASE s[1] # at
    BY <1>3, <1>4, <2>1, <2>2, <2>3, <2>4
  <2>5. CASE s[1] = at
    <3>1. head[at] + 1 <= s[2] <=> head[at] <= s[2] /\ s[2] # head[at]
      BY <1>2, <2>1
    <3>2. s = slot <=> s[2] = head[at]
      BY <1>4, <2>1, <2>5
    <3> QED
      BY <1>3, <2>2, <2>3, <2>5, <3>1, <3>2
  <2> QED
    BY <2>4, <2>5
<1>8. LiveSlots' = LiveSlots \ {slot}
  BY <1>5, <1>7 DEF LiveMeans
<1> QED
  BY <1>1, <1>6, <1>8

(* A chunk unlinked holds nothing (chunked_list.go:173-185).                 *)
LEMMA UnlinkStores ==
  ASSUME StoreInv, UnlinkEmpty
  PROVE  /\ LiveSlots' = LiveSlots
         /\ IsFiniteSet(linked) /\ Cardinality(linked') = Cardinality(linked) - 1
         /\ Cardinality(linked) \in Nat \ {0}
<1>1. /\ at \in linked /\ head[at] = size[at] /\ linked' = linked \ {at}
      /\ size' = size /\ head' = head
  BY DEF UnlinkEmpty, IsEmpty, StoreInv, ScanListed
<1>2. IsFiniteSet(linked)
  <2>1. IsFiniteSet(1 .. allocated)
    <3>1. allocated \in Int
      BY DEF StoreInv, StoreTypeOK
    <3> QED
      BY <3>1, FS_Interval
  <2> QED
    BY <2>1, FS_Subset DEF StoreInv, StoreTypeOK
<1>3. Cardinality(linked') = Cardinality(linked) - 1 /\ Cardinality(linked) \in Nat
  BY <1>1, <1>2, FS_RemoveElement, FS_CardinalityType
<1>4. Cardinality(linked) # 0
  BY <1>1, <1>2, FS_EmptySet
<1>5. LiveMeans /\ LiveMeans'
  BY UnlinkEmptyKeeps, LiveIs, LiveIsNext DEF StoreInv
<1>6. ASSUME NEW s \in Slot  PROVE s \in LiveSlots' <=> s \in LiveSlots
  <2>1. s[1] \in ChunkId /\ s[2] \in Nat /\ head[s[1]] \in Nat /\ size[s[1]] \in Nat
    BY SlotsAre, StoreAssumption DEF StoreInv, StoreTypeOK
  <2>2. s \in LiveSlots' <=> s[1] \in linked' /\ head[s[1]] <= s[2] /\ s[2] < size[s[1]]
    BY <1>1, <1>5 DEF LiveMeans
  <2>3. s \in LiveSlots <=> s[1] \in linked /\ head[s[1]] <= s[2] /\ s[2] < size[s[1]]
    BY <1>5 DEF LiveMeans
  <2>4. s[1] = at => ~(head[s[1]] <= s[2] /\ s[2] < size[s[1]])
    BY <1>1, <2>1
  <2> QED
    BY <1>1, <2>2, <2>3, <2>4
<1>7. LiveSlots' = LiveSlots
  BY <1>5, <1>6 DEF LiveMeans
<1> QED
  BY <1>2, <1>3, <1>4, <1>7

-----------------------------------------------------------------------------
(* The invariant *)

RequestType == [sizes : Seq(Sizes), stamp : 0 .. MaxTime]

ListTypes ==
  /\ now \in 0 .. MaxTime
  /\ ttl \in TTLs
  /\ expiring \in BOOLEAN
  /\ created \in [Slot -> 0 .. MaxTime]
  /\ cost \in [Slot -> Sizes \cup {0}]
  /\ request \in [Producers -> RequestType]
  /\ writer \in Producers \cup {Nobody}
  /\ scanned \in BOOLEAN

(* A producer asks for items or for nothing; who holds q.mutex to add has    *)
(* some left to add.                                                         *)
Asking ==
  /\ \A p \in Producers : request[p] # NoRequest =>
       request[p].sizes # <<>> /\ Len(request[p].sizes) <= MaxBatch
  /\ phase = "add" =>
       writer \in Producers /\ request[writer] # NoRequest /\ linked # {}

CountInv == StoreInv /\ ListTypes /\ Asking /\ CountersAreExact

(* The counters, with the sum over an explicit function.                     *)
Exact ==
  /\ memory = SumOver(cost, LiveSlots) + ChunkNodeSize * Cardinality(linked)
  /\ totalItems = Cardinality(LiveSlots)

(* It is the same.                                                           *)
LEMMA ExactIs == CountersAreExact <=> Exact
  BY Zenon DEF CountersAreExact, Exact, CostOf, SumOver

(* And so after a step.                                                      *)
LEMMA ExactIsNext == CountersAreExact' <=> Exact'
  BY ExactIs, PTL

(* Costs are naturals, live items and listed chunks finitely many.           *)
LEMMA CostsAre ==
  ASSUME StoreInv, ListTypes
  PROVE  /\ LiveSlots \subseteq Slot /\ IsFiniteSet(LiveSlots)
         /\ Cardinality(LiveSlots) \in Nat
         /\ \A s \in Slot : cost[s] \in Nat
         /\ SumOver(cost, LiveSlots) \in Nat
         /\ IsFiniteSet(linked) /\ Cardinality(linked) \in Nat
         /\ ChunkNodeSize * Cardinality(linked) \in Nat
<1>1. LiveSlots \subseteq Slot /\ IsFiniteSet(LiveSlots) /\ Cardinality(LiveSlots) \in Nat
  BY LiveIs, SlotsAre DEF StoreInv, LiveMeans
<1>2. \A s \in Slot : cost[s] \in Nat
  <2> SUFFICES ASSUME NEW s \in Slot  PROVE cost[s] \in Nat
    OBVIOUS
  <2>1. cost[s] \in Sizes \/ cost[s] = 0
    BY DEF ListTypes
  <2>2. \A n \in Sizes : n \in Nat
    BY ListAssumption
  <2>3. cost[s] \in Sizes => cost[s] \in Nat
    BY <2>2
  <2>4. cost[s] = 0 => cost[s] \in Nat
    OBVIOUS
  <2> QED
    BY <2>1, <2>3, <2>4
<1>3. SumOver(cost, LiveSlots) \in Nat
  BY <1>1, <1>2, SumSplits
<1>4. IsFiniteSet(linked) /\ Cardinality(linked) \in Nat
  <2>1. IsFiniteSet(1 .. allocated)
    <3>1. allocated \in Int
      BY DEF StoreInv, StoreTypeOK
    <3> QED
      BY <3>1, FS_Interval
  <2> QED
    BY <2>1, FS_Subset, FS_CardinalityType DEF StoreInv, StoreTypeOK
<1>5. ChunkNodeSize * Cardinality(linked) \in Nat
  BY <1>4, ListAssumption
<1> QED
  BY <1>1, <1>2, <1>3, <1>4, <1>5

(* So the counters are naturals.                                             *)
LEMMA CountersAre == CountInv => memory \in Nat /\ totalItems \in Nat
<1> SUFFICES ASSUME CountInv  PROVE memory \in Nat /\ totalItems \in Nat
  OBVIOUS
<1>1. Exact
  BY ExactIs DEF CountInv
<1> QED
  BY <1>1, CostsAre DEF CountInv, Exact

(* And so after a step.                                                      *)
LEMMA CountersAreNext == CountInv' => memory' \in Nat /\ totalItems' \in Nat
<1>1. CountInv' => (memory \in Nat /\ totalItems \in Nat)'
  BY CountersAre, PTL
<1> QED
  BY <1>1

(* A new queue (queue.go:87-125) satisfies it.                               *)
LEMMA CountInit == Init => CountInv
<1> SUFFICES ASSUME Init  PROVE CountInv
  OBVIOUS
<1> USE ListAssumption
<1>1. StoreInv
  BY StoreInvInit DEF Init
<1>2. ListTypes
  <2>1. <<>> \in Seq(Sizes) /\ 0 \in 0 .. MaxTime
    OBVIOUS
  <2>2. NoRequest \in RequestType
    BY <2>1 DEF NoRequest, RequestType
  <2>3. request \in [Producers -> RequestType]
    BY <2>2 DEF Init
  <2>4. expiring \in BOOLEAN
    BY DEF Init
  <2> QED
    BY <2>1, <2>3, <2>4 DEF Init, ListTypes
<1>3. Asking
  BY DEF Init, StoreInit, Asking
<1>4. Exact
  <2>1. linked = {} /\ LiveSlots = {}
    BY DEF Init, StoreInit, LiveSlots
  <2>2. IsFiniteSet({}) /\ Cardinality({}) = 0
    BY FS_EmptySet
  <2>3. SumOver(cost, {}) = 0
    BY <2>2, SumSplits
  <2> QED
    BY <2>1, <2>2, <2>3 DEF Init, Exact
<1> QED
  BY <1>1, <1>2, <1>3, <1>4, ExactIs DEF CountInv

(* A step that leaves chunks, items and counters alone keeps them exact.     *)
LEMMA SameCounts ==
  ASSUME Exact, UNCHANGED <<chunkVars, itemVars, countVars>>
  PROVE  Exact'
<1>1. LiveSlots' = LiveSlots
  BY DEF chunkVars, LiveSlots, LiveIn
<1> QED
  BY <1>1 DEF chunkVars, itemVars, countVars, Exact

(* A producer stamps its items (data.go:30-44).                              *)
LEMMA StampKeeps ==
  ASSUME CountInv, NEW p \in Producers, Stamp(p)
  PROVE  ListTypes' /\ Asking' /\ Exact'
<1>1. PICK n \in 1 .. MaxBatch : \E s \in [1 .. n -> Sizes] :
        request' = [request EXCEPT ![p] = [sizes |-> s, stamp |-> now]]
  BY DEF Stamp
<1>2. PICK s \in [1 .. n -> Sizes] :
        request' = [request EXCEPT ![p] = [sizes |-> s, stamp |-> now]]
  BY <1>1
<1>3. s \in Seq(Sizes) /\ Len(s) = n /\ s # <<>> /\ n <= MaxBatch
  <2>1. n \in Nat /\ n # 0 /\ n <= MaxBatch
    BY ListAssumption
  <2>2. s \in Seq(Sizes) /\ Len(s) = n
    BY <2>1
  <2>3. Len(<<>>) = 0
    OBVIOUS
  <2> QED
    BY <2>1, <2>2, <2>3
<1>4. UNCHANGED <<storeVars, now, modeVars, itemVars, countVars, writer, scanned>>
  BY DEF Stamp
<1>5. request' \in [Producers -> RequestType]
  <2>1. [sizes |-> s, stamp |-> now] \in RequestType
    BY <1>3 DEF CountInv, ListTypes, RequestType
  <2> QED
    BY <1>2, <2>1 DEF CountInv, ListTypes
<1>6. ListTypes'
  BY <1>4, <1>5 DEF CountInv, ListTypes, modeVars, itemVars
<1>7. /\ request'[p].sizes = s /\ request'[p] # NoRequest
      /\ \A q \in Producers : q # p => request'[q] = request[q]
  <2>1. /\ request'[p] = [sizes |-> s, stamp |-> now]
        /\ \A q \in Producers : q # p => request'[q] = request[q]
    BY <1>2 DEF CountInv, ListTypes
  <2> QED
    BY <1>3, <2>1 DEF NoRequest
<1>8. Asking'
  BY <1>3, <1>4, <1>7 DEF CountInv, Asking, storeVars, sweepVars, chunkVars
<1>9. Exact'
  BY <1>4, SameCounts, ExactIs DEF CountInv, storeVars
<1> QED
  BY <1>6, <1>8, <1>9

(* A request is given up (queue.go:359-434).                                 *)
LEMMA GiveUpKeeps ==
  ASSUME CountInv, NEW p \in Producers, GiveUp(p)
  PROVE  ListTypes' /\ Asking' /\ Exact'
<1>1. /\ request' = [request EXCEPT ![p] = NoRequest] /\ phase = "free"
      /\ UNCHANGED <<storeVars, now, modeVars, itemVars, countVars, writer, scanned>>
  BY DEF GiveUp
<1>2. NoRequest \in RequestType
  <2>1. <<>> \in Seq(Sizes) /\ 0 \in 0 .. MaxTime
    BY ListAssumption
  <2> QED
    BY <2>1 DEF NoRequest, RequestType
<1>3. ListTypes'
  BY <1>1, <1>2 DEF CountInv, ListTypes, modeVars, itemVars
<1>4. \A q \in Producers : request'[q] = IF q = p THEN NoRequest ELSE request[q]
  BY <1>1 DEF CountInv, ListTypes
<1>5. Asking'
  BY <1>1, <1>4 DEF CountInv, Asking, storeVars, sweepVars
<1>6. Exact'
  BY <1>1, SameCounts, ExactIs DEF CountInv, storeVars
<1> QED
  BY <1>3, <1>5, <1>6

(* A chunk is made and paid for (chunked_list.go:69-96).                     *)
LEMMA GrowKeeps ==
  ASSUME CountInv, NEW p \in Producers, GrowFor(p)
  PROVE  ListTypes' /\ Asking' /\ Exact'
<1>1. /\ writer' = p /\ AddChunk /\ memory' = memory + ChunkNodeSize /\ phase' = "add"
      /\ UNCHANGED <<now, modeVars, itemVars, totalItems, request, scanned>>
  BY DEF GrowFor, AddChunk
<1>2. ListTypes'
  BY <1>1 DEF CountInv, ListTypes, modeVars, itemVars
<1>3. request[p] # NoRequest
  BY DEF GrowFor, Admitted, CountInv, Asking
<1>4. /\ LiveSlots' = LiveSlots /\ linked' # {}
      /\ Cardinality(linked') = Cardinality(linked) + 1
  BY <1>1, PushStores DEF CountInv
<1>5. Asking'
  BY <1>1, <1>3, <1>4 DEF CountInv, Asking
<1>6. Exact'
  <2>1. Exact /\ Cardinality(linked) \in Nat /\ ChunkNodeSize \in Nat
    BY ExactIs, CostsAre, ListAssumption DEF CountInv
  <2>2. ChunkNodeSize * (Cardinality(linked) + 1)
          = ChunkNodeSize * Cardinality(linked) + ChunkNodeSize
    BY <2>1
  <2>3. cost' = cost /\ totalItems' = totalItems
    BY <1>1 DEF itemVars
  <2>4. SumOver(cost, LiveSlots) \in Nat /\ ChunkNodeSize * Cardinality(linked) \in Nat
    BY CostsAre DEF CountInv
  <2> QED
    BY <1>1, <1>4, <2>1, <2>2, <2>3, <2>4 DEF Exact
<1> QED
  BY <1>2, <1>5, <1>6

(* An item is added and paid for (chunked_list.go:98-108).                   *)
LEMMA AddKeeps ==
  ASSUME CountInv, NEW p \in Producers, AddFor(p)
  PROVE  ListTypes' /\ Asking' /\ Exact'
<1> DEFINE slot == <<Back, size[Back]>>
           sizes == request[p].sizes
           last == Tail(sizes) = <<>>
<1>1. /\ AddItem
      /\ writer' = IF last THEN Nobody ELSE p
      /\ phase' = IF last THEN "free" ELSE "add"
      /\ created' = [created EXCEPT ![slot] = request[p].stamp]
      /\ cost' = [cost EXCEPT ![slot] = Head(sizes)]
      /\ memory' = memory + Head(sizes)
      /\ totalItems' = totalItems + 1
      /\ request' = [request EXCEPT ![p] = IF last THEN NoRequest
                                           ELSE [request[p] EXCEPT !.sizes = Tail(sizes)]]
      /\ UNCHANGED <<now, modeVars, scanned>>
  BY DEF AddFor
<1>2. /\ slot \in Slot \ LiveSlots /\ LiveSlots' = LiveSlots \cup {slot}
      /\ linked' = linked /\ linked # {}
  BY <1>1, PutStores DEF CountInv
<1>3. request[p] # NoRequest /\ request[p] \in RequestType
  BY DEF AddFor, Admitted, CountInv, Asking, ListTypes
<1>4. /\ sizes \in Seq(Sizes) /\ sizes # <<>> /\ Len(sizes) <= MaxBatch
      /\ request[p].stamp \in 0 .. MaxTime
  BY <1>3 DEF CountInv, Asking, RequestType
<1>5. /\ Head(sizes) \in Sizes /\ Head(sizes) \in Nat
      /\ Tail(sizes) \in Seq(Sizes) /\ Len(Tail(sizes)) = Len(sizes) - 1
      /\ Len(sizes) \in Nat
  BY <1>4, HeadTailProperties, LenProperties, ListAssumption
<1>6. NoRequest \in RequestType
  <2>1. <<>> \in Seq(Sizes) /\ 0 \in 0 .. MaxTime
    BY ListAssumption
  <2> QED
    BY <2>1 DEF NoRequest, RequestType
<1> DEFINE rest == [request[p] EXCEPT !.sizes = Tail(sizes)]
<1>7. rest \in RequestType /\ rest.sizes = Tail(sizes)
  BY <1>3, <1>5 DEF RequestType
<1>8. /\ request' \in [Producers -> RequestType]
      /\ request'[p] = IF last THEN NoRequest ELSE rest
      /\ \A q \in Producers : q # p => request'[q] = request[q]
  BY <1>1, <1>6, <1>7 DEF CountInv, ListTypes
<1>9. ListTypes'
  <2>1. created' \in [Slot -> 0 .. MaxTime]
    BY <1>1, <1>2, <1>4 DEF CountInv, ListTypes
  <2>2. cost' \in [Slot -> Sizes \cup {0}]
    BY <1>1, <1>2, <1>5 DEF CountInv, ListTypes
  <2>3. writer' \in Producers \cup {Nobody}
    BY <1>1
  <2> QED
    BY <1>1, <1>8, <2>1, <2>2, <2>3 DEF CountInv, ListTypes, modeVars
<1>10. Asking'
  <2>1. ~last => rest # NoRequest /\ rest.sizes # <<>> /\ Len(rest.sizes) <= MaxBatch
    <3>1. NoRequest.sizes = <<>>
      BY DEF NoRequest
    <3>2. Len(sizes) - 1 <= MaxBatch
      BY <1>4, <1>5, ListAssumption
    <3> HIDE DEF rest, sizes
    <3> QED
      BY <1>5, <1>7, <3>1, <3>2
  <2>2. ASSUME NEW q \in Producers, request'[q] # NoRequest
        PROVE  request'[q].sizes # <<>> /\ Len(request'[q].sizes) <= MaxBatch
    <3>1. CASE q = p
      BY <1>8, <2>1, <2>2, <3>1
    <3>2. CASE q # p
      BY <1>8, <2>2, <3>2 DEF CountInv, Asking
    <3> QED
      BY <3>1, <3>2
  <2>3. ASSUME phase' = "add"
        PROVE  writer' \in Producers /\ request'[writer'] # NoRequest /\ linked' # {}
    <3>1. ~last
      BY <1>1, <2>3
    <3> QED
      BY <1>1, <1>2, <1>8, <2>1, <3>1
  <2> QED
    BY <2>2, <2>3 DEF Asking
<1>11. Exact'
  <2>1. Exact /\ IsFiniteSet(LiveSlots) /\ LiveSlots \subseteq Slot
        /\ Cardinality(LiveSlots) \in Nat
        /\ (\A s \in Slot : cost[s] \in Nat)
        /\ SumOver(cost, LiveSlots) \in Nat
        /\ ChunkNodeSize * Cardinality(linked) \in Nat
    BY ExactIs, CostsAre DEF CountInv
  <2>2. /\ cost'[slot] = Head(sizes)
        /\ \A s \in LiveSlots : cost'[s] = cost[s]
    BY <1>1, <1>2, <2>1 DEF CountInv, ListTypes
  <2> DEFINE L == LiveSlots
             K == L \cup {slot}
  <2> HIDE DEF L, slot, sizes
  <2>3. IsFiniteSet(K) /\ Cardinality(K) = Cardinality(L) + 1 /\ K \ {slot} = L
    BY <1>2, <2>1, FS_AddElement DEF L
  <2>4. \A s \in K : cost'[s] \in Nat
    BY <1>2, <1>5, <2>1, <2>2 DEF L
  <2>5. SumOver(cost', K) = cost'[slot] + SumOver(cost', L)
    BY <2>3, <2>4, SumSplits
  <2>6. SumOver(cost', L) = SumOver(cost, L)
    <3>1. \A s \in L : cost[s] \in Nat /\ cost'[s] = cost[s]
      BY <2>1, <2>2 DEF L
    <3>2. IsFiniteSet(L)
      BY <2>1 DEF L
    <3> QED
      BY <3>1, <3>2, SumAgrees
  <2>7. LiveSlots' = K
    BY <1>2 DEF L
  <2> QED
    BY <1>1, <1>2, <1>5, <2>1, <2>2, <2>3, <2>5, <2>6, <2>7 DEF Exact, L, sizes
<1> QED
  BY <1>9, <1>10, <1>11

(* An expired item is taken out and given back (data.go:144-166).            *)
LEMMA ExpireKeeps ==
  ASSUME CountInv, Expire
  PROVE  /\ ListTypes' /\ Asking' /\ Exact'
         /\ memory' <= memory /\ totalItems' <= totalItems /\ phase' = "scan"
<1> DEFINE slot == HeadOf(at)
<1>1. /\ ExpireItem /\ memory' = Less(memory, cost[slot]) /\ totalItems' = totalItems - 1
      /\ Wipe({slot}) /\ phase = "scan" /\ phase' = "scan"
      /\ UNCHANGED <<now, modeVars, askVars, scanned>>
  BY DEF Expire, ExpireItem, sweepVars
<1>2. slot \in LiveSlots /\ LiveSlots' = LiveSlots \ {slot} /\ linked' = linked
  BY <1>1, ExpiryStores DEF CountInv
<1>3. ListTypes'
  <2>1. 0 \in 0 .. MaxTime
    BY ListAssumption
  <2>2. created' \in [Slot -> 0 .. MaxTime] /\ cost' \in [Slot -> Sizes \cup {0}]
    BY <1>1, <2>1 DEF Wipe, CountInv, ListTypes
  <2> QED
    BY <1>1, <2>2 DEF CountInv, ListTypes, modeVars, askVars
<1>4. Asking'
  BY <1>1 DEF CountInv, Asking, askVars
<1>5. Exact /\ IsFiniteSet(LiveSlots) /\ LiveSlots \subseteq Slot
      /\ Cardinality(LiveSlots) \in Nat
      /\ (\A s \in Slot : cost[s] \in Nat)
      /\ SumOver(cost, LiveSlots) \in Nat
      /\ ChunkNodeSize * Cardinality(linked) \in Nat
  BY ExactIs, CostsAre DEF CountInv
<1> DEFINE L == LiveSlots
           K == L \ {slot}
           w == cost'
<1>6. \A s \in K : w[s] \in Nat /\ w[s] = cost[s]
  BY <1>1, <1>5 DEF Wipe
<1>7. cost[slot] \in Nat
  BY <1>2, <1>5
<1>8. LiveSlots' = K
  BY <1>2
<1> HIDE DEF L, slot, w
<1>9. IsFiniteSet(K) /\ Cardinality(K) = Cardinality(L) - 1
  BY <1>2, <1>5, FS_RemoveElement DEF L
<1>10. SumOver(cost, L) = cost[slot] + SumOver(cost, K)
  BY <1>2, <1>5, SumSplits DEF L
<1>11. SumOver(cost, K) \in Nat
  <2>1. \A s \in K : cost[s] \in Nat
    BY <1>5 DEF L
  <2> QED
    BY <1>9, <2>1, SumSplits
<1>12. SumOver(w, K) = SumOver(cost, K)
  <2>1. \A s \in K : cost[s] \in Nat /\ w[s] = cost[s]
    BY <1>6
  <2> QED
    BY <1>9, <2>1, SumAgrees
<1>13. memory = SumOver(cost, L) + ChunkNodeSize * Cardinality(linked)
  BY <1>5 DEF Exact, L
<1>14. memory' = SumOver(w, K) + ChunkNodeSize * Cardinality(linked) /\ memory' <= memory
  BY <1>1, <1>5, <1>7, <1>10, <1>11, <1>12, <1>13 DEF Less
<1>15. totalItems' = Cardinality(K) /\ totalItems' <= totalItems
  BY <1>1, <1>5, <1>9 DEF Exact, L
<1>16. Exact'
  BY <1>2, <1>8, <1>14, <1>15 DEF Exact, w
<1> QED
  BY <1>1, <1>3, <1>4, <1>14, <1>15, <1>16

(* An empty chunk is taken out and given back (chunked_list.go:173-185).     *)
LEMMA DropKeeps ==
  ASSUME CountInv, DropChunk
  PROVE  /\ ListTypes' /\ Asking' /\ Exact'
         /\ memory' <= memory /\ totalItems' <= totalItems /\ phase' = "scan"
<1>1. /\ UnlinkEmpty /\ memory' = Less(memory, ChunkNodeSize)
      /\ phase = "scan" /\ phase' = "scan"
      /\ UNCHANGED <<now, modeVars, itemVars, totalItems, askVars, scanned>>
  BY DEF DropChunk, UnlinkEmpty
<1>2. /\ LiveSlots' = LiveSlots
      /\ Cardinality(linked') = Cardinality(linked) - 1
      /\ Cardinality(linked) \in Nat \ {0}
  BY <1>1, UnlinkStores DEF CountInv
<1>3. ListTypes' /\ Asking'
  BY <1>1 DEF CountInv, ListTypes, Asking, modeVars, itemVars, askVars
<1>4. Exact /\ SumOver(cost, LiveSlots) \in Nat /\ Cardinality(LiveSlots) \in Nat
  BY ExactIs, CostsAre DEF CountInv
<1> DEFINE n == Cardinality(linked)
<1>5. /\ n - 1 \in Nat /\ ChunkNodeSize \in Nat
      /\ ChunkNodeSize * n = ChunkNodeSize * (n - 1) + ChunkNodeSize
      /\ ChunkNodeSize * (n - 1) \in Nat
  BY <1>2, ListAssumption
<1>6. memory = SumOver(cost, LiveSlots) + ChunkNodeSize * n
  BY <1>4 DEF Exact
<1> HIDE DEF n
<1>7. memory' = SumOver(cost, LiveSlots) + ChunkNodeSize * (n - 1) /\ memory' <= memory
  BY <1>1, <1>4, <1>5, <1>6 DEF Less
<1>8. totalItems' = totalItems /\ totalItems \in Nat /\ cost' = cost
  BY <1>1, <1>4 DEF itemVars, Exact
<1>9. Exact'
  BY <1>2, <1>4, <1>7, <1>8 DEF Exact, n
<1> QED
  BY <1>1, <1>3, <1>7, <1>8, <1>9

(* Clear takes everything out and gives it back (chunked_list.go:206-223).   *)
LEMMA ClearAllKeeps ==
  ASSUME CountInv, ClearAll
  PROVE  /\ ListTypes' /\ Asking' /\ Exact'
         /\ memory' <= memory /\ totalItems' <= totalItems /\ phase' = "free"
<1>1. /\ linked' = {} /\ phase' = "free" /\ totalItems' = 0 /\ Wipe(LiveSlots)
      /\ memory' = Less(memory, CostOf(LiveSlots) + ChunkNodeSize * Cardinality(linked))
      /\ UNCHANGED <<now, modeVars, askVars, scanned>>
  BY DEF ClearAll, Clear, sweepVars
<1>2. ListTypes'
  <2>1. 0 \in 0 .. MaxTime
    BY ListAssumption
  <2>2. created' \in [Slot -> 0 .. MaxTime] /\ cost' \in [Slot -> Sizes \cup {0}]
    BY <1>1, <2>1 DEF Wipe, CountInv, ListTypes
  <2> QED
    BY <1>1, <2>2 DEF CountInv, ListTypes, modeVars, askVars
<1>3. Asking'
  BY <1>1 DEF CountInv, Asking, askVars
<1>4. memory \in Nat /\ totalItems \in Nat
  BY CountersAre
<1>5. memory' = 0
  <2>1. memory = CostOf(LiveSlots) + ChunkNodeSize * Cardinality(linked)
    BY DEF CountInv, CountersAreExact
  <2> QED
    BY <1>1, <1>4, <2>1 DEF Less
<1>6. LiveSlots' = {}
  BY <1>1 DEF LiveSlots
<1>7. IsFiniteSet({}) /\ Cardinality({}) = 0
  BY FS_EmptySet
<1>8. SumOver(cost', {}) = 0
  BY <1>7, SumSplits
<1>9. Exact'
  BY <1>1, <1>5, <1>6, <1>7, <1>8, ListAssumption DEF Exact
<1> QED
  BY <1>1, <1>2, <1>3, <1>4, <1>5, <1>9

(* The other steps leave chunks, items and counters alone.                   *)
QuietStep ==
  \/ StartSweep \/ EndChunkScan \/ StopTest \/ EndSweep
  \/ SetTTL \/ SetExpiration \/ RaiseClosed \/ Tick \/ UNCHANGED vars

(* They keep the counters exact and admit nothing.                           *)
LEMMA QuietKeeps ==
  ASSUME CountInv, QuietStep
  PROVE  /\ ListTypes' /\ Asking' /\ Exact'
         /\ UNCHANGED <<countVars, chunkVars, askVars>>
         /\ phase' = "add" => phase = "add"
<1>1. /\ UNCHANGED <<chunkVars, itemVars, countVars, askVars>>
      /\ phase' = "add" => phase = "add"
  BY DEF QuietStep, StartSweep, SweepBegin, EndChunkScan, StopTest, LeaveChunk, EndSweep, EndScan,
         EndNotify, SetTTL, SetExpiration, RaiseClosed, CloseFlag, Tick, vars, storeVars, sweepVars
<1>2. /\ now' \in 0 .. MaxTime /\ ttl' \in TTLs /\ expiring' \in BOOLEAN /\ scanned' \in BOOLEAN
  <2>1. now \in 0 .. MaxTime /\ ttl \in TTLs /\ expiring \in BOOLEAN /\ scanned \in BOOLEAN
    BY DEF CountInv, ListTypes
  <2>2. CASE SetTTL
    BY <2>1, <2>2 DEF SetTTL
  <2>3. CASE SetExpiration
    BY <2>1, <2>3 DEF SetExpiration
  <2>4. CASE Tick
    BY <2>1, <2>4, ListAssumption DEF Tick, modeVars
  <2>5. CASE StartSweep \/ EndChunkScan \/ StopTest \/ EndSweep \/ RaiseClosed \/ UNCHANGED vars
    BY <2>1, <2>5
    DEF StartSweep, EndChunkScan, StopTest, EndSweep, RaiseClosed, vars, modeVars
  <2> QED
    BY <2>2, <2>3, <2>4, <2>5 DEF QuietStep
<1>3. ListTypes'
  BY <1>1, <1>2 DEF CountInv, ListTypes, itemVars, askVars
<1>4. Asking'
  BY <1>1 DEF CountInv, Asking, askVars, chunkVars
<1>5. Exact'
  BY <1>1, SameCounts, ExactIs DEF CountInv
<1> QED
  BY <1>1, <1>3, <1>4, <1>5

(* Every step keeps the counters exact.                                      *)
LEMMA CountStep == CountInv /\ [Next]_vars => CountInv'
<1> SUFFICES ASSUME CountInv, [Next]_vars  PROVE CountInv'
  OBVIOUS
<1>1. StoreInv'
  BY ListStepsTheStore, StoreInvStep DEF CountInv
<1>2. ListTypes' /\ Asking' /\ Exact'
  BY StampKeeps, GiveUpKeeps, GrowKeeps, AddKeeps, ExpireKeeps, DropKeeps, ClearAllKeeps, QuietKeeps
  DEF Next, QuietStep
<1> QED
  BY <1>1, <1>2, ExactIsNext DEF CountInv

(* The invariant holds, whatever is enqueued, swept and cleared.             *)
LEMMA CountInvariant == Spec => []CountInv
  BY CountInit, CountStep, PTL DEF Spec

(* Types of the storage and of what goes into it: no counter is ever         *)
(* negative and every stored item has a size (memory.go:25-29,               *)
(* data.go:21-27).                                                           *)
THEOREM ListTypeInvariant == Spec => []TypeOK
<1>1. CountInv => TypeOK
  BY CountersAre DEF CountInv, TypeOK, ListTypes, StoreInv, RequestType
<1> QED
  BY <1>1, CountInvariant, PTL

(* totalMemory is the sum of the sizes of the live items and the chunks,     *)
(* totalItems their number, at every step of every interleaving, for all     *)
(* sizes, limits and clocks: no clamp ever bites (memory.go:80 and :87,      *)
(* chunked_list.go:60, :101, :159, :222).                                    *)
THEOREM CountersExact == Spec => []CountersAreExact
<1>1. CountInv => CountersAreExact
  BY DEF CountInv
<1> QED
  BY <1>1, CountInvariant, PTL

-----------------------------------------------------------------------------
(* The limits *)

(* A batch costs what its first item costs and what the others do            *)
(* (queue.go:326-338).                                                       *)
LEMMA TotalSplits ==
  ASSUME NEW s \in Seq(Sizes)
  PROVE  /\ Total(s) \in Nat
         /\ s # <<>> => Total(s) = Head(s) + Total(Tail(s)) /\ Total(Tail(s)) \in Nat
<1> DEFINE n == Len(s)
<1>1. \A t \in Seq(Sizes) : /\ Len(t) \in Nat /\ DOMAIN t = 1 .. Len(t) /\ IsFiniteSet(DOMAIN t)
                            /\ \A i \in DOMAIN t : t[i] \in Nat
  <2> SUFFICES ASSUME NEW t \in Seq(Sizes)
               PROVE  /\ Len(t) \in Nat /\ DOMAIN t = 1 .. Len(t) /\ IsFiniteSet(DOMAIN t)
                      /\ \A i \in DOMAIN t : t[i] \in Nat
    OBVIOUS
  <2>1. Len(t) \in Nat /\ DOMAIN t = 1 .. Len(t)
    BY LenProperties
  <2>2. IsFiniteSet(1 .. Len(t))
    BY <2>1, FS_Interval
  <2>3. \A i \in DOMAIN t : t[i] \in Sizes
    BY <2>1, ElementOfSeq
  <2> QED
    BY <2>1, <2>2, <2>3, ListAssumption
<1>2. \A t \in Seq(Sizes) : Total(t) = SumOver(t, DOMAIN t) /\ Total(t) \in Nat
  <2> SUFFICES ASSUME NEW t \in Seq(Sizes)
               PROVE  Total(t) = SumOver(t, DOMAIN t) /\ Total(t) \in Nat
    OBVIOUS
  <2>1. Total(t) = SumOver(t, DOMAIN t)
    BY Zenon DEF Total, SumOver
  <2> QED
    BY <1>1, <2>1, SumSplits
<1>3. ASSUME s # <<>>  PROVE Total(s) = Head(s) + Total(Tail(s)) /\ Total(Tail(s)) \in Nat
  <2> DEFINE t == Tail(s)
             A == Weights(s, 2 .. n)
             B == Weights(t, 1 .. n - 1)
             f == [u \in A |-> <<u[1] - 1, u[2]>>]
  <2>1. /\ t \in Seq(Sizes) /\ Len(t) = n - 1 /\ Head(s) = s[1] /\ n \in Nat /\ n >= 1
        /\ \A i \in 1 .. n - 1 : t[i] = s[i + 1]
    BY <1>1, <1>3, HeadTailProperties, EmptySeq
  <2>2. \A u : u \in A <=> \E i \in 2 .. n : \E k \in 1 .. s[i] : u = <<i, k>>
    BY DEF Weights
  <2>3. \A u : u \in B <=> \E i \in 1 .. n - 1 : \E k \in 1 .. t[i] : u = <<i, k>>
    BY DEF Weights
  <2> HIDE DEF t, A, B
  <2>4. f \in [A -> B]
    <3> SUFFICES ASSUME NEW u \in A  PROVE <<u[1] - 1, u[2]>> \in B
      OBVIOUS
    <3>1. PICK i \in 2 .. n : \E k \in 1 .. s[i] : u = <<i, k>>
      BY <2>2
    <3>2. PICK k \in 1 .. s[i] : u = <<i, k>>
      BY <3>1
    <3>3. i - 1 \in 1 .. n - 1 /\ t[i - 1] = s[i]
      <4>1. i - 1 \in 1 .. n - 1 /\ i - 1 + 1 = i
        BY <2>1
      <4> QED
        BY <2>1, <4>1
    <3>4. <<u[1] - 1, u[2]>> = <<i - 1, k>> /\ k \in 1 .. t[i - 1]
      BY <3>2, <3>3
    <3> QED
      BY <2>3, <3>3, <3>4
  <2>5. ASSUME NEW u \in A, NEW v \in A, f[u] = f[v]  PROVE u = v
    <3>1. PICK i \in 2 .. n : \E k \in 1 .. s[i] : u = <<i, k>>
      BY <2>2
    <3>2. PICK k \in 1 .. s[i] : u = <<i, k>>
      BY <3>1
    <3>3. PICK j \in 2 .. n : \E m \in 1 .. s[j] : v = <<j, m>>
      BY <2>2
    <3>4. PICK m \in 1 .. s[j] : v = <<j, m>>
      BY <3>3
    <3>5. i - 1 = j - 1 /\ k = m
      BY <2>5, <3>2, <3>4
    <3>6. i = j
      BY <2>1, <3>5
    <3> QED
      BY <3>2, <3>4, <3>5, <3>6
  <2>6. ASSUME NEW v \in B  PROVE \E u \in A : f[u] = v
    <3>1. PICK j \in 1 .. n - 1 : \E m \in 1 .. t[j] : v = <<j, m>>
      BY <2>3
    <3>2. PICK m \in 1 .. t[j] : v = <<j, m>>
      BY <3>1
    <3>3. j + 1 \in 2 .. n /\ j + 1 - 1 = j /\ m \in 1 .. s[j + 1]
      BY <2>1, <3>2
    <3>4. <<j + 1, m>> \in A
      BY <2>2, <3>3
    <3>5. f[<<j + 1, m>>] = v
      BY <3>2, <3>3, <3>4
    <3> QED
      BY <3>4, <3>5
  <2>7. ExistsBijection(A, B)
    <3> HIDE DEF f
    <3> QED
      BY <2>4, <2>5, <2>6 DEF ExistsBijection, Bijection, Injection, Surjection, IsInjective
  <2>8. /\ IsFiniteSet(2 .. n) /\ IsFiniteSet(1 .. n - 1)
        /\ (\A i \in 2 .. n : s[i] \in Nat) /\ (\A i \in 1 .. n - 1 : t[i] \in Nat)
    <3>1. IsFiniteSet(2 .. n) /\ IsFiniteSet(1 .. n - 1)
      BY <2>1, FS_Interval
    <3>2. \A i \in 1 .. n : s[i] \in Nat
      BY <1>1
    <3>3. \A i \in 1 .. Len(t) : t[i] \in Nat
      BY <1>1, <2>1
    <3>4. \A i \in 2 .. n : i \in 1 .. n
      BY <2>1
    <3> QED
      BY <2>1, <3>1, <3>2, <3>3, <3>4
  <2>9. SumOver(s, 2 .. n) = SumOver(t, 1 .. n - 1)
    <3>1. SumOver(s, 2 .. n) = Cardinality(A) /\ IsFiniteSet(A)
      BY <2>8, SumIs, WeightsSplit DEF A
    <3>2. SumOver(t, 1 .. n - 1) = Cardinality(B)
      BY <2>8, SumIs DEF B
    <3>3. Cardinality(B) = Cardinality(A)
      BY <2>7, <3>1, FS_Bijection
    <3> QED
      BY <3>1, <3>2, <3>3
  <2>10. SumOver(s, 1 .. n) = s[1] + SumOver(s, 2 .. n)
    <3>1. (1 .. n) \ {1} = 2 .. n /\ 1 \in 1 .. n
      BY <2>1
    <3>2. IsFiniteSet(1 .. n) /\ \A i \in 1 .. n : s[i] \in Nat
      BY <1>1
    <3>3. SumOver(s, 1 .. n) = s[1] + SumOver(s, (1 .. n) \ {1})
      BY <3>1, <3>2, SumSplits
    <3> QED
      BY <3>1, <3>3
  <2>11. Total(s) = SumOver(s, 1 .. n)
    BY <1>1, <1>2
  <2>12. Total(t) = SumOver(t, 1 .. n - 1) /\ Total(t) \in Nat
    BY <1>1, <1>2, <2>1
  <2> QED
    BY <2>1, <2>9, <2>10, <2>11, <2>12 DEF t
<1> QED
  BY <1>2, <1>3

(* What was granted to a request holds until its last item is in: the items  *)
(* left fit; the memory they still take fits but for the g chunks made for   *)
(* the request, and after the first of these its items fill chunk by chunk.  *)
Granted(sizes, items, mem, used, g) ==
  /\ MaxItems > 0 => items + Len(sizes) <= MaxItems
  /\ mem + Total(sizes) <= MaxMemory + ChunkNodeSize * g
  /\ g > 0 => ChunkSize * (g - 1) + used + Len(sizes) <= MaxBatch

Charge ==
  phase = "add" => \E g \in Nat :
    Granted(request[writer].sizes, totalItems, memory, size[Back], g)

LimitInv == CountInv /\ Charge /\ WithinLimits

ChunksOfBatch == (MaxBatch + ChunkSize - 1) \div ChunkSize

(* The quotient's successor is too much.                                     *)
LEMMA DivAbove ==
  ASSUME NEW a \in Nat, NEW b \in Nat, b > 0
  PROVE  a \div b \in Nat /\ a < b * ((a \div b) + 1)
  OBVIOUS

(* The chunks that g - 1 times ChunkSize items, and one more, come to are no *)
(* more than a batch may need.                                               *)
LEMMA EnoughChunks ==
  ASSUME NEW g \in Nat, g > 0 => ChunkSize * (g - 1) + 1 <= MaxBatch
  PROVE  /\ ChunksOfBatch \in Nat /\ g <= ChunksOfBatch
         /\ ChunkNodeSize * g \in Nat /\ ChunkNodeSize * ChunksOfBatch \in Nat
         /\ ChunkNodeSize * g <= ChunkNodeSize * ChunksOfBatch
<1> DEFINE a == MaxBatch + ChunkSize - 1
           q == a \div ChunkSize
<1>1. ChunkSize \in Nat \ {0} /\ MaxBatch \in Nat \ {0} /\ ChunkNodeSize \in Nat /\ a \in Nat
  BY StoreAssumption, ListAssumption
<1>2. q \in Nat /\ a < ChunkSize * (q + 1)
  <2> HIDE DEF a
  <2> QED
    BY <1>1, DivAbove
<1>3. g <= q
  <2>1. CASE g = 0
    BY <1>2, <2>1
  <2>2. CASE g > 0
    <3>1. ChunkSize * g = ChunkSize * (g - 1) + ChunkSize /\ ChunkSize * (g - 1) \in Nat
      BY <1>1, <2>2
    <3>2. ChunkSize * g <= a
      BY <1>1, <2>2, <3>1
    <3>3. ChunkSize * g < ChunkSize * (q + 1)
      BY <1>1, <1>2, <3>1, <3>2
    <3> HIDE DEF q, a
    <3>4. ASSUME g >= q + 1  PROVE FALSE
      <4>1. ChunkSize * g >= ChunkSize * (q + 1)
        BY <1>1, <1>2, <3>4
      <4>2. ChunkSize * g \in Nat /\ ChunkSize * (q + 1) \in Nat
        BY <1>1, <1>2
      <4> QED
        BY <3>3, <4>1, <4>2
    <3> QED
      BY <1>2, <3>4
  <2> QED
    BY <2>1, <2>2
<1> HIDE DEF q
<1>4. ChunkNodeSize * g <= ChunkNodeSize * q /\ ChunkNodeSize * g \in Nat
      /\ ChunkNodeSize * q \in Nat
  BY <1>1, <1>2, <1>3
<1> QED
  BY <1>2, <1>3, <1>4 DEF q, ChunksOfBatch

(* Passing the tests grants the request (queue.go:134-158, :306-355).        *)
LEMMA AdmissionGrants ==
  ASSUME LimitInv, NEW p \in Producers, Admitted(p), phase \in {"free", "add"}
  PROVE  /\ request[p].sizes \in Seq(Sizes) /\ request[p].sizes # <<>>
         /\ Len(request[p].sizes) <= MaxBatch
         /\ \E g \in Nat : /\ Granted(request[p].sizes, totalItems, memory, size[Back], g)
                           /\ g > 0 => linked # {}
<1> DEFINE sizes == request[p].sizes
<1>1. request[p] # NoRequest /\ request[p] \in RequestType
  BY DEF Admitted, LimitInv, CountInv, Asking, ListTypes
<1>2. sizes \in Seq(Sizes) /\ sizes # <<>> /\ Len(sizes) <= MaxBatch
  BY <1>1 DEF LimitInv, CountInv, Asking, RequestType
<1>3. CASE phase = "add"
  <2>1. writer = p /\ linked # {}
    BY <1>3 DEF Admitted, LimitInv, CountInv, Asking
  <2> QED
    BY <1>2, <1>3, <2>1 DEF LimitInv, Charge
<1>4. CASE phase = "free"
  <2>1. Fits(sizes)
    BY <1>4 DEF Admitted
  <2>2. Total(sizes) \in Nat /\ memory \in Nat /\ MaxMemory \in Nat /\ ChunkNodeSize \in Nat
    BY <1>2, TotalSplits, CountersAre, ListAssumption DEF LimitInv
  <2>3. memory + Total(sizes) <= MaxMemory + ChunkNodeSize * 0
    <3>1. memory <= MaxMemory - Total(sizes)
      BY <2>1 DEF Fits
    <3> HIDE DEF sizes
    <3> QED
      BY <2>2, <3>1
  <2>4. Granted(sizes, totalItems, memory, size[Back], 0)
    BY <2>1, <2>3 DEF Granted, Fits
  <2> QED
    BY <1>2, <2>4
<1> QED
  BY <1>3, <1>4

(* The chunk a request makes is charged to it.                               *)
LEMMA GrowWithin ==
  ASSUME LimitInv, NEW p \in Producers, GrowFor(p)
  PROVE  Charge' /\ WithinLimits'
<1> DEFINE sizes == request[p].sizes
<1>1. /\ AddChunk /\ phase \in {"free", "add"} /\ Admitted(p)
      /\ writer' = p /\ request' = request /\ totalItems' = totalItems
      /\ memory' = memory + ChunkNodeSize
  BY DEF GrowFor, AddChunk
<1>2. /\ sizes \in Seq(Sizes) /\ sizes # <<>> /\ Len(sizes) <= MaxBatch
      /\ \E g \in Nat : /\ Granted(sizes, totalItems, memory, size[Back], g)
                        /\ g > 0 => linked # {}
  BY <1>1, AdmissionGrants
<1>3. PICK g \in Nat : /\ Granted(sizes, totalItems, memory, size[Back], g)
                       /\ g > 0 => linked # {}
  BY <1>2
<1>4. /\ Len(sizes) \in Nat /\ Len(sizes) >= 1 /\ Total(sizes) \in Nat
      /\ memory \in Nat /\ totalItems \in Nat
  BY <1>2, LenProperties, EmptySeq, TotalSplits, CountersAre DEF LimitInv
<1>5. size'[Back'] = 0 /\ (linked # {} => size[Back] >= ChunkSize /\ size[Back] \in Nat)
  <2>1. linked # {} => size[Back] \in Nat
    BY BackIs, StoreAssumption DEF LimitInv, CountInv, StoreInv, StoreTypeOK
  <2> QED
    BY <1>1, <2>1, PushStores DEF LimitInv, CountInv
<1>6. /\ ChunkSize \in Nat \ {0} /\ MaxBatch \in Nat \ {0} /\ ChunkNodeSize \in Nat
      /\ MaxMemory \in Nat /\ g + 1 - 1 = g
  BY StoreAssumption, ListAssumption
<1> HIDE DEF sizes
<1>7. ChunkSize * g + 0 + Len(sizes) <= MaxBatch
  <2>1. CASE g = 0
    BY <1>2, <1>4, <1>6, <2>1
  <2>2. CASE g > 0
    <3>1. ChunkSize * (g - 1) + size[Back] + Len(sizes) <= MaxBatch
      BY <1>3, <2>2 DEF Granted
    <3>2. ChunkSize * g = ChunkSize * (g - 1) + ChunkSize /\ ChunkSize * (g - 1) \in Nat
      BY <1>6, <2>2
    <3> QED
      BY <1>3, <1>4, <1>5, <1>6, <2>2, <3>1, <3>2
  <2> QED
    BY <2>1, <2>2
<1>8. memory' + Total(sizes) <= MaxMemory + ChunkNodeSize * (g + 1)
  <2>1. memory + Total(sizes) <= MaxMemory + ChunkNodeSize * g
    BY <1>3 DEF Granted
  <2>2. /\ ChunkNodeSize * (g + 1) = ChunkNodeSize * g + ChunkNodeSize
        /\ ChunkNodeSize * g \in Nat
    BY <1>6
  <2> QED
    BY <1>1, <1>4, <1>6, <2>1, <2>2
<1>9. MaxItems > 0 => totalItems' + Len(sizes) <= MaxItems
  BY <1>1, <1>3 DEF Granted
<1>10. Charge'
  <2>1. g + 1 \in Nat /\ ChunkSize * (g + 1 - 1) + size'[Back'] + Len(sizes) <= MaxBatch
    BY <1>5, <1>6, <1>7
  <2>2. Granted(sizes, totalItems', memory', size'[Back'], g + 1)
    BY <1>8, <1>9, <2>1 DEF Granted
  <2> QED
    BY <1>1, <2>1, <2>2 DEF Charge, sizes
<1>11. WithinLimits'
  <2>1. g + 1 > 0 => ChunkSize * (g + 1 - 1) + 1 <= MaxBatch
    <3>1. ChunkSize * g \in Nat
      BY <1>6
    <3> QED
      BY <1>4, <1>6, <1>7, <3>1
  <2>2. /\ ChunkNodeSize * (g + 1) <= ChunkNodeSize * ChunksOfBatch
        /\ ChunkNodeSize * (g + 1) \in Nat /\ ChunkNodeSize * ChunksOfBatch \in Nat
    <3>1. g + 1 \in Nat
      OBVIOUS
    <3> QED
      BY <2>1, <3>1, EnoughChunks
  <2>3. memory' <= MaxMemory + ChunkNodeSize * ChunksOfBatch
    BY <1>1, <1>4, <1>6, <1>8, <2>2
  <2>4. MaxItems > 0 => totalItems' <= MaxItems
    BY <1>1, <1>4, <1>9, ListAssumption
  <2> QED
    BY <2>3, <2>4 DEF WithinLimits, ChunksOfBatch
<1> QED
  BY <1>10, <1>11

(* An item takes what it was granted.                                        *)
LEMMA AddWithin ==
  ASSUME LimitInv, NEW p \in Producers, AddFor(p)
  PROVE  Charge' /\ WithinLimits'
<1> DEFINE sizes == request[p].sizes
           rest == Tail(sizes)
<1>1. /\ AddItem /\ phase \in {"free", "add"} /\ Admitted(p)
      /\ memory' = memory + Head(sizes) /\ totalItems' = totalItems + 1
      /\ phase' = "add" => writer' = p /\ request'[p].sizes = rest
  <2>1. request \in [Producers -> RequestType]
    BY DEF LimitInv, CountInv, ListTypes
  <2>2. request[p] \in RequestType
    BY <2>1
  <2>3. [request[p] EXCEPT !.sizes = rest].sizes = rest
    BY <2>2 DEF RequestType
  <2> QED
    BY <2>1, <2>3 DEF AddFor, AddItem
<1>2. /\ sizes \in Seq(Sizes) /\ sizes # <<>> /\ Len(sizes) <= MaxBatch
      /\ \E g \in Nat : /\ Granted(sizes, totalItems, memory, size[Back], g)
                        /\ g > 0 => linked # {}
  BY <1>1, AdmissionGrants
<1>3. PICK g \in Nat : Granted(sizes, totalItems, memory, size[Back], g)
  BY <1>2
<1>4. /\ Len(sizes) \in Nat /\ Len(sizes) >= 1 /\ Head(sizes) \in Nat
      /\ rest \in Seq(Sizes) /\ Len(rest) = Len(sizes) - 1
      /\ Total(sizes) = Head(sizes) + Total(rest) /\ Total(rest) \in Nat
      /\ memory \in Nat /\ totalItems \in Nat
  <2>1. Head(sizes) \in Sizes
    BY <1>2, HeadTailProperties
  <2>2. Head(sizes) \in Nat
    BY <2>1, ListAssumption
  <2> QED
    BY <1>2, <2>2, LenProperties, EmptySeq, HeadTailProperties, TotalSplits, CountersAre
    DEF LimitInv
<1>5. size[Back] \in Nat /\ size'[Back'] = size[Back] + 1
  BY <1>1, PutStores DEF LimitInv, CountInv
<1>6. /\ ChunkSize \in Nat \ {0} /\ MaxBatch \in Nat \ {0} /\ ChunkNodeSize \in Nat
      /\ MaxMemory \in Nat /\ MaxItems \in Nat /\ ChunkNodeSize * g \in Nat
  BY StoreAssumption, ListAssumption
<1> HIDE DEF sizes, rest
<1>7. memory' + Total(rest) <= MaxMemory + ChunkNodeSize * g
  <2>1. memory + Total(sizes) <= MaxMemory + ChunkNodeSize * g
    BY <1>3 DEF Granted
  <2> QED
    BY <1>1, <1>4, <1>6, <2>1
<1>8. MaxItems > 0 => totalItems' + Len(rest) <= MaxItems
  BY <1>1, <1>3, <1>4, <1>6 DEF Granted
<1>9. g > 0 => /\ ChunkSize * (g - 1) + size'[Back'] + Len(rest) <= MaxBatch
               /\ ChunkSize * (g - 1) + 1 <= MaxBatch
  <2> SUFFICES ASSUME g > 0
               PROVE  /\ ChunkSize * (g - 1) + size'[Back'] + Len(rest) <= MaxBatch
                      /\ ChunkSize * (g - 1) + 1 <= MaxBatch
    OBVIOUS
  <2>1. ChunkSize * (g - 1) + size[Back] + Len(sizes) <= MaxBatch
    BY <1>3 DEF Granted
  <2>2. ChunkSize * (g - 1) \in Nat
    BY <1>6
  <2> QED
    BY <1>4, <1>5, <1>6, <2>1, <2>2, SMTT(30)
<1>10. Charge'
  <2>1. Granted(rest, totalItems', memory', size'[Back'], g)
    BY <1>7, <1>8, <1>9 DEF Granted
  <2> QED
    BY <1>1, <2>1 DEF Charge
<1>11. WithinLimits'
  <2>1. /\ ChunkNodeSize * g <= ChunkNodeSize * ChunksOfBatch
        /\ ChunkNodeSize * ChunksOfBatch \in Nat
    BY <1>9, EnoughChunks
  <2>2. memory' <= MaxMemory + ChunkNodeSize * ChunksOfBatch
    BY <1>1, <1>4, <1>6, <1>7, <2>1
  <2>3. MaxItems > 0 => totalItems' <= MaxItems
    BY <1>1, <1>4, <1>6, <1>8
  <2> QED
    BY <2>2, <2>3 DEF WithinLimits, ChunksOfBatch
<1> QED
  BY <1>10, <1>11

(* No other step takes more.                                                 *)
LEMMA RestWithin ==
  ASSUME LimitInv, \/ \E p \in Producers : Stamp(p) \/ GiveUp(p)
                   \/ Expire \/ DropChunk \/ ClearAll \/ QuietStep
  PROVE  Charge' /\ WithinLimits'
<1>1. /\ memory \in Nat /\ totalItems \in Nat /\ MaxItems \in Nat /\ MaxMemory \in Nat
      /\ ChunkNodeSize * ChunksOfBatch \in Nat
  <2>1. ChunkNodeSize * ChunksOfBatch \in Nat
    BY EnoughChunks
  <2> QED
    BY <2>1, CountersAre, ListAssumption DEF LimitInv
<1>2. /\ MaxItems > 0 => totalItems <= MaxItems
      /\ memory <= MaxMemory + ChunkNodeSize * ChunksOfBatch
  BY DEF LimitInv, WithinLimits, ChunksOfBatch
<1>3. CASE Expire \/ DropChunk \/ ClearAll
  <2>1. memory' <= memory /\ totalItems' <= totalItems /\ phase' # "add"
    BY <1>3, ExpireKeeps, DropKeeps, ClearAllKeeps DEF LimitInv
  <2>2. memory' \in Nat /\ totalItems' \in Nat
    <3>1. CountInv'
      BY <1>3, CountStep DEF Next, LimitInv
    <3> QED
      BY <3>1, CountersAreNext
  <2>3. /\ MaxItems > 0 => totalItems' <= MaxItems
        /\ memory' <= MaxMemory + ChunkNodeSize * ChunksOfBatch
    BY <1>1, <1>2, <2>1, <2>2
  <2> QED
    BY <2>1, <2>3 DEF Charge, WithinLimits, ChunksOfBatch
<1>4. CASE QuietStep
  <2>1. UNCHANGED <<countVars, chunkVars, askVars>> /\ (phase' = "add" => phase = "add")
    BY <1>4, QuietKeeps DEF LimitInv
  <2>2. Charge'
    BY <2>1 DEF LimitInv, Charge, countVars, chunkVars, askVars, Back
  <2> QED
    BY <1>2, <2>1, <2>2 DEF WithinLimits, ChunksOfBatch, countVars
<1>5. CASE \E p \in Producers : Stamp(p) \/ GiveUp(p)
  <2>1. PICK p \in Producers : Stamp(p) \/ GiveUp(p)
    BY <1>5
  <2>2. UNCHANGED <<storeVars, countVars, writer>> /\ (request[p] = NoRequest \/ phase = "free")
    BY <2>1 DEF Stamp, GiveUp
  <2>3. \A q \in Producers : q # p => request'[q] = request[q]
    BY <2>1 DEF Stamp, GiveUp, LimitInv, CountInv, ListTypes
  <2>4. ASSUME phase' = "add"  PROVE Charge'
    <3>1. phase = "add" /\ writer # p /\ writer \in Producers /\ writer' = writer
      BY <2>2, <2>4 DEF LimitInv, CountInv, Asking, storeVars, sweepVars
    <3>2. request'[writer'] = request[writer]
      BY <2>3, <3>1
    <3> QED
      BY <2>2, <3>1, <3>2 DEF LimitInv, Charge, storeVars, chunkVars, countVars, Back
  <2>5. phase' # "add" => Charge'
    BY DEF Charge
  <2>6. WithinLimits'
    BY <1>2, <2>2 DEF WithinLimits, ChunksOfBatch, countVars
  <2> QED
    BY <2>4, <2>5, <2>6
<1> QED
  BY <1>3, <1>4, <1>5

(* Every step keeps within the limits.                                       *)
LEMMA LimitStep == LimitInv /\ [Next]_vars => LimitInv'
<1> SUFFICES ASSUME LimitInv, [Next]_vars  PROVE LimitInv'
  OBVIOUS
<1>1. CountInv'
  BY CountStep DEF LimitInv
<1>2. CASE \E p \in Producers : GrowFor(p) \/ AddFor(p)
  BY <1>1, <1>2, GrowWithin, AddWithin DEF LimitInv
<1>3. CASE ~ \E p \in Producers : GrowFor(p) \/ AddFor(p)
  <2>1. \/ \E p \in Producers : Stamp(p) \/ GiveUp(p)
        \/ Expire \/ DropChunk \/ ClearAll \/ QuietStep
    BY <1>3 DEF Next, QuietStep
  <2> QED
    BY <1>1, <2>1, RestWithin DEF LimitInv
<1> QED
  BY <1>2, <1>3

(* A new queue is within its limits.                                         *)
LEMMA LimitInit == Init => LimitInv
<1> SUFFICES ASSUME Init  PROVE LimitInv
  OBVIOUS
<1>1. memory = 0 /\ totalItems = 0 /\ phase # "add"
  BY DEF Init, StoreInit
<1>2. ChunkNodeSize * ChunksOfBatch \in Nat /\ MaxMemory \in Nat /\ MaxItems \in Nat
  <2>1. ChunkNodeSize * ChunksOfBatch \in Nat
    BY EnoughChunks
  <2> QED
    BY <2>1, ListAssumption
<1>3. WithinLimits
  BY <1>1, <1>2 DEF WithinLimits, ChunksOfBatch
<1> QED
  BY <1>1, <1>3, CountInit DEF LimitInv, Charge

(* The limits hold at every step, in the middle of a batch too, for all      *)
(* sizes and limits: the items never exceed MaxItems, and the memory exceeds *)
(* MaxMemory at most by the chunks one batch may need (memory.go:72,         *)
(* queue.go:340).                                                            *)
THEOREM LimitsHold == Spec => []WithinLimits
<1>1. LimitInv => WithinLimits
  BY DEF LimitInv
<1> QED
  BY <1>1, LimitInit, LimitStep, PTL DEF Spec


-----------------------------------------------------------------------------
(* What a sweep leaves *)

(* Once the scan of a chunk has ended, its head is not expired, and stays so *)
(* until the stop test: no tick falls between, and the TTL is not set while  *)
(* a sweep holds q.mutex.                                                    *)
ScanEnded ==
  scanned => /\ phase = "scan" /\ at # Nil /\ ~IsEmpty(at)
             /\ ~IsExpired(HeadOf(at))

ThoroughInv == CountInv /\ PrefixInv /\ ScanEnded

(* Every step keeps it.                                                      *)
LEMMA ThoroughStep ==
  ASSUME ~ClockTicks
  PROVE  ThoroughInv /\ [Next]_vars => ThoroughInv'
<1> SUFFICES ASSUME ThoroughInv, [Next]_vars  PROVE ThoroughInv'
  OBVIOUS
<1>1. CountInv' /\ PrefixInv'
  BY CountStep, PrefixInvStep, ListStepsTheStore DEF ThoroughInv
<1>2. ScanEnded'
  <2>1. ASSUME scanned',
               UNCHANGED <<phase, at, size, head, now, ttl, created, scanned>>
        PROVE  ScanEnded'
    BY <2>1 DEF ThoroughInv, ScanEnded, IsEmpty, IsExpired, HeadOf
  <2>2. ASSUME phase = "free" \/ ~scanned, UNCHANGED scanned  PROVE ScanEnded'
    BY <2>2 DEF ThoroughInv, ScanEnded
  <2>3. ASSUME NEW p \in Producers, Stamp(p) \/ GiveUp(p)  PROVE ScanEnded'
    <3>1. UNCHANGED <<phase, at, size, head, now, ttl, created, scanned>>
      BY <2>3 DEF Stamp, GiveUp, storeVars, chunkVars, sweepVars, modeVars, itemVars
    <3> QED
      BY <2>1, <3>1 DEF ScanEnded
  <2>4. ASSUME NEW p \in Producers, GrowFor(p) \/ AddFor(p)  PROVE ScanEnded'
    <3>1. phase # "scan" /\ UNCHANGED scanned
      BY <2>4 DEF GrowFor, AddFor, AddChunk, AddItem
    <3> QED
      BY <3>1 DEF ThoroughInv, ScanEnded
  <2>5. CASE StartSweep \/ SetTTL \/ ClearAll
    <3>1. phase = "free" /\ UNCHANGED scanned
      BY <2>5 DEF StartSweep, SweepBegin, SetTTL, ClearAll, Clear
    <3> QED
      BY <2>2, <3>1
  <2>6. CASE Expire
    BY <2>2, <2>6 DEF Expire
  <2>7. CASE EndChunkScan
    BY <2>7
    DEF EndChunkScan, ScanEnded, IsEmpty, IsExpired, HeadOf, storeVars, chunkVars, sweepVars,
        modeVars, itemVars
  <2>8. CASE DropChunk
    <3>1. IsEmpty(at) /\ UNCHANGED scanned
      BY <2>8 DEF DropChunk, UnlinkEmpty
    <3> QED
      BY <3>1 DEF ThoroughInv, ScanEnded
  <2>9. CASE StopTest
    BY <2>9 DEF StopTest, ScanEnded
  <2>10. CASE EndSweep
    <3>1. (at = Nil \/ phase = "notify") /\ UNCHANGED scanned
      BY <2>10 DEF EndSweep, EndScan, EndNotify
    <3> QED
      BY <3>1 DEF ThoroughInv, ScanEnded
  <2>11. CASE SetExpiration \/ RaiseClosed
    <3>1. UNCHANGED <<phase, at, size, head, now, ttl, created, scanned>>
      BY <2>11
      DEF SetExpiration, RaiseClosed, CloseFlag, storeVars, chunkVars, sweepVars, modeVars, itemVars
    <3> QED
      BY <2>1, <3>1 DEF ScanEnded
  <2>12. CASE Tick
    BY <2>2, <2>12 DEF Tick
  <2>13. CASE UNCHANGED vars
    <3>1. UNCHANGED <<phase, at, size, head, now, ttl, created, scanned>>
      BY <2>13 DEF vars, storeVars, chunkVars, sweepVars, modeVars, itemVars
    <3> QED
      BY <2>1, <3>1 DEF ScanEnded
  <2> QED
    BY <2>3, <2>4, <2>5, <2>6, <2>7, <2>8, <2>9, <2>10, <2>11, <2>12, <2>13 DEF Next
<1> QED
  BY <1>1, <1>2 DEF ThoroughInv

(* The head of the first chunk is the first item of the list.                *)
LEMMA HeadIsFirst ==
  ASSUME PrefixInv, at # Nil, ~IsEmpty(at), NEW s \in LiveSlots
  PROVE  /\ HeadOf(at) \in LiveSlots /\ HeadOf(at) \in Slot /\ s \in Slot
         /\ \/ s = HeadOf(at)
            \/ HeadOf(at)[1] < s[1]
            \/ HeadOf(at)[1] = s[1] /\ HeadOf(at)[2] < s[2]
<1>1. at \in linked /\ at \in ChunkId /\ at \in Nat /\ LiveMeans
  <2>1. StoreTypeOK /\ at \in linked
    BY DEF PrefixInv, StoreInv, ScanListed
  <2>2. linked \subseteq ChunkId /\ ChunkId \subseteq Nat
    BY <2>1, Chunks
  <2>3. at \in ChunkId /\ at \in Nat
    BY <2>1, <2>2
  <2> QED
    BY <2>1, <2>3, LiveIs
<1>2. head[at] \in Nat /\ size[at] \in Nat /\ head[at] < size[at] /\ size[at] <= ChunkSize
  <2>1. /\ head[at] \in Nat /\ size[at] \in Nat /\ head[at] <= size[at]
        /\ size[at] <= ChunkSize
    BY <1>1, StoreAssumption DEF PrefixInv, StoreInv, StoreTypeOK, HeadsBehind
  <2> QED
    BY <2>1 DEF IsEmpty
<1>3. HeadOf(at) = <<at, head[at]>> /\ HeadOf(at) \in Slot
  BY <1>1, <1>2, StoreAssumption DEF HeadOf, Slot
<1>4. HeadOf(at) \in LiveSlots
  BY <1>1, <1>2, <1>3 DEF LiveMeans
<1>5. s \in Slot /\ s[1] \in linked /\ head[s[1]] <= s[2]
  BY <1>1 DEF LiveMeans
<1>6. s = <<s[1], s[2]>> /\ s[1] \in Nat /\ s[2] \in Nat /\ at <= s[1]
  BY <1>5, SlotsAre DEF PrefixInv, ScanAtFront
<1>7. CASE s[1] = at
  BY <1>2, <1>3, <1>4, <1>5, <1>6, <1>7
<1>8. CASE s[1] # at
  BY <1>1, <1>3, <1>4, <1>5, <1>6, <1>8
<1> QED
  BY <1>7, <1>8

(* While the items stand in the order of their stamps, a sweep that no tick  *)
(* interferes with leaves no expired item in the whole list: stopping at the *)
(* first item not expired loses nothing (data.go:161, chunked_list.go:188).  *)
THEOREM SweepsAreThorough ==
  ASSUME ~ClockTicks
  PROVE  Spec => SweepIsThorough
<1>1. Init => ThoroughInv
  BY CountInit, PrefixInvInit DEF Init, ThoroughInv, ScanEnded
<1>2. ThoroughInv => (StopTest /\ at' = Nil /\ OrderedByCreation
                        => \A s \in LiveSlots : ~IsExpired(s))
  <2> SUFFICES ASSUME ThoroughInv, StopTest, OrderedByCreation, NEW s \in LiveSlots
               PROVE  ~IsExpired(s)
    OBVIOUS
  <2> DEFINE h == HeadOf(at)
  <2>1. PrefixInv /\ at # Nil /\ ~IsEmpty(at) /\ ~IsExpired(h)
    BY DEF StopTest, ThoroughInv, ScanEnded
  <2>2. h \in LiveSlots /\ h \in Slot /\ s \in Slot
        /\ (s = h \/ h[1] < s[1] \/ (h[1] = s[1] /\ h[2] < s[2]))
    BY <2>1, HeadIsFirst
  <2> HIDE DEF h
  <2>3. CASE s = h
    BY <2>1, <2>3
  <2>4. CASE s # h
    <3>1. created[h] <= created[s]
      BY <2>2, <2>4 DEF OrderedByCreation
    <3>2. created[h] \in Nat /\ created[s] \in Nat /\ now \in Nat /\ ttl \in Nat
      BY <2>2, ListAssumption DEF ThoroughInv, CountInv, ListTypes
    <3>3. ~(now - created[h] > ttl)
      BY <2>1 DEF IsExpired
    <3>4. ~(now - created[s] > ttl)
      BY <3>1, <3>2, <3>3
    <3> QED
      BY <3>4 DEF IsExpired
  <2> QED
    BY <2>3, <2>4
<1>3. ThoroughInv /\ [Next]_vars => ThoroughInv'
  BY ThoroughStep
<1> QED
  BY <1>1, <1>2, <1>3, PTL DEF Spec, SweepIsThorough

-----------------------------------------------------------------------------
(* Holes in the list *)

(* The chunks a sweep has gone past, and left in the list, begin with an     *)
(* item that has expired.                                                    *)
PassedExpired ==
  phase = "scan" /\ at # Nil => \A d \in linked : d < at => IsExpired(HeadOf(d))

HoleInv == CountInv /\ PassedExpired

(* What expired stays expired while a sweep goes on: the clock does not turn *)
(* back, the TTL and the stamps of other chunks are not touched.             *)
LEMMA StaysExpired ==
  ASSUME CountInv, CountInv', ttl' = ttl, now <= now',
         NEW d \in linked, head'[d] = head[d], created'[HeadOf(d)] = created[HeadOf(d)],
         HeadOf(d) \in Slot, IsExpired(HeadOf(d))
  PROVE  IsExpired(HeadOf(d))'
<1> DEFINE s == HeadOf(d)
<1>1. created[s] \in Nat /\ now \in Nat /\ now' \in Nat /\ ttl \in Nat
  BY ListAssumption DEF CountInv, ListTypes
<1>2. now - created[s] > ttl
  BY DEF IsExpired
<1>3. HeadOf(d)' = s
  BY DEF HeadOf
<1> HIDE DEF s
<1>4. created'[s] = created[s]
  BY DEF s
<1>5. now' - created'[s] > ttl'
  BY <1>1, <1>2, <1>4
<1> QED
  BY <1>3, <1>5 DEF IsExpired

(* In a sweep the heads of the chunks gone past are slots of their own.      *)
LEMMA PassedHeads ==
  ASSUME CountInv, phase = "scan", at # Nil, NEW d \in linked, d < at
  PROVE  HeadOf(d) \in Slot /\ HeadOf(d) # HeadOf(at) /\ d \in ChunkId /\ at \in ChunkId
<1>1. at \in linked /\ linked \subseteq ChunkId /\ ChunkId \subseteq Nat
  BY Chunks DEF CountInv, StoreInv, ScanListed
<1>2. ~IsEmpty(d)
  BY <1>1 DEF CountInv, StoreInv, EmptyInHand
<1>3. head[d] \in Nat /\ head[d] < size[d] /\ size[d] <= ChunkSize
  BY <1>1, <1>2, StoreAssumption DEF CountInv, StoreInv, StoreTypeOK, HeadsBehind, IsEmpty
<1>4. head[d] \in 0 .. ChunkSize - 1 /\ d \in ChunkId /\ at \in ChunkId /\ d # at
  <2>1. size[d] \in Nat /\ ChunkSize \in Nat /\ d \in Nat /\ at \in Nat
    BY <1>1, StoreAssumption DEF CountInv, StoreInv, StoreTypeOK
  <2> QED
    BY <1>1, <1>3, <2>1
<1>5. HeadOf(d) \in Slot
  BY <1>4 DEF HeadOf, Slot
<1>6. HeadOf(d) # HeadOf(at)
  BY <1>4 DEF HeadOf
<1> QED
  BY <1>4, <1>5, <1>6

(* The sweep's own steps keep what it has gone past expired.                 *)
LEMMA SweepPasses ==
  ASSUME HoleInv, CountInv', Expire \/ DropChunk \/ StopTest
  PROVE  PassedExpired'
<1>1. phase = "scan" /\ at # Nil /\ StoreTypeOK /\ at \in linked /\ at \in ChunkId
  <2>1. phase = "scan" /\ at # Nil
    BY DEF Expire, ExpireItem, DropChunk, UnlinkEmpty, StopTest, LeaveChunk
  <2> QED
    BY <2>1, Chunks DEF HoleInv, CountInv, StoreInv, ScanListed
<1>2. linked \subseteq Nat /\ linked \subseteq ChunkId
  BY <1>1, Chunks
<1> SUFFICES ASSUME at' # Nil, NEW d \in linked', d < at'  PROVE IsExpired(HeadOf(d))'
  BY DEF PassedExpired
<1>3. CASE Expire
  <2>1. d \in linked /\ d < at
    BY <1>3 DEF Expire, ExpireItem, sweepVars
  <2>2. IsExpired(HeadOf(d)) /\ HeadOf(d) \in Slot /\ HeadOf(d) # HeadOf(at)
    BY <1>1, <2>1, PassedHeads DEF HoleInv, PassedExpired
  <2>3. created'[HeadOf(d)] = created[HeadOf(d)]
    BY <1>3, <2>2 DEF Expire, Wipe
  <2>4. head'[d] = head[d]
    BY <1>1, <1>2, <1>3, <2>1 DEF Expire, ExpireItem, StoreTypeOK
  <2>5. ttl' = ttl /\ now <= now'
    BY <1>3 DEF Expire, modeVars, HoleInv, CountInv, ListTypes
  <2> QED
    BY <2>1, <2>2, <2>3, <2>4, <2>5, StaysExpired DEF HoleInv
<1>4. ASSUME d \in linked, IsExpired(HeadOf(d)), UNCHANGED <<head, now, ttl, created>>
      PROVE  IsExpired(HeadOf(d))'
  BY <1>4 DEF IsExpired, HeadOf
<1>5. CASE DropChunk
  <2>1. d \in linked /\ d # at /\ at' = After(at) /\ UNCHANGED <<head, now, ttl, created>>
    BY <1>5 DEF DropChunk, UnlinkEmpty, modeVars, itemVars
  <2>2. d < at
    <3>1. at \in Nat /\ d \in Nat /\ at' \in Nat /\ (d > at => at' <= d)
      BY <1>1, <1>2, <2>1, AfterIs
    <3> QED
      BY <2>1, <3>1
  <2> QED
    BY <1>1, <1>4, <2>1, <2>2 DEF HoleInv, PassedExpired
<1>6. CASE StopTest
  <2>1. /\ d \in linked /\ at' = After(at) /\ IsExpired(HeadOf(at))
        /\ UNCHANGED <<head, now, ttl, created>>
    BY <1>6 DEF StopTest, LeaveChunk, chunkVars, modeVars, itemVars
  <2>2. d = at \/ d < at
    <3>1. at \in Nat /\ d \in Nat /\ at' \in Nat /\ (d > at => at' <= d)
      BY <1>1, <1>2, <2>1, AfterIs
    <3> QED
      BY <3>1
  <2> QED
    BY <1>1, <1>4, <2>1, <2>2 DEF HoleInv, PassedExpired
<1> QED
  BY <1>3, <1>5, <1>6

(* And so does every other step.                                             *)
LEMMA HoleStep == HoleInv /\ [Next]_vars => HoleInv'
<1> SUFFICES ASSUME HoleInv, [Next]_vars  PROVE HoleInv'
  OBVIOUS
<1>1. CountInv'
  BY CountStep DEF HoleInv
<1>2. PassedExpired'
  <2>1. ASSUME UNCHANGED <<phase, at, linked, head, now, ttl, created>>  PROVE PassedExpired'
    BY <2>1 DEF HoleInv, PassedExpired, IsExpired, HeadOf
  <2>2. ASSUME NEW p \in Producers, Stamp(p) \/ GiveUp(p)  PROVE PassedExpired'
    BY <2>1, <2>2 DEF Stamp, GiveUp, storeVars, chunkVars, sweepVars, modeVars, itemVars
  <2>3. CASE EndChunkScan \/ SetExpiration \/ RaiseClosed \/ UNCHANGED vars
    BY <2>1, <2>3
    DEF EndChunkScan, SetExpiration, RaiseClosed, CloseFlag, vars, storeVars, chunkVars,
        sweepVars, modeVars, itemVars
  <2>4. ASSUME phase' # "scan"  PROVE PassedExpired'
    BY <2>4 DEF PassedExpired
  <2>5. ASSUME NEW p \in Producers, GrowFor(p) \/ AddFor(p)  PROVE PassedExpired'
    BY <2>4, <2>5 DEF GrowFor, AddFor, AddChunk, AddItem
  <2>6. CASE SetTTL \/ ClearAll \/ EndSweep
    BY <2>4, <2>6 DEF SetTTL, ClearAll, Clear, EndSweep, EndScan, EndNotify, storeVars, sweepVars
  <2>7. CASE StartSweep
    <3>1. linked' = linked /\ at' = Front /\ \A d \in linked : ~(d < Front)
      <4>1. StoreTypeOK
        BY DEF HoleInv, CountInv, StoreInv
      <4>2. \A d \in linked : d \in Nat /\ Front \in Nat /\ Front <= d
        BY <4>1, FrontIs, Chunks
      <4> QED
        BY <2>7, <4>2 DEF StartSweep, SweepBegin, chunkVars
    <3> QED
      BY <3>1 DEF PassedExpired
  <2>8. CASE Expire \/ DropChunk \/ StopTest
    BY <1>1, <2>8, SweepPasses
  <2>9. CASE Tick
    <3> SUFFICES ASSUME phase = "scan", at # Nil, NEW d \in linked, d < at
                 PROVE  IsExpired(HeadOf(d))'
      BY <2>9 DEF Tick, storeVars, chunkVars, sweepVars, PassedExpired
    <3>1. HeadOf(d) \in Slot /\ IsExpired(HeadOf(d))
      BY PassedHeads DEF HoleInv, PassedExpired
    <3>2. /\ ttl' = ttl /\ now <= now' /\ head'[d] = head[d]
          /\ created'[HeadOf(d)] = created[HeadOf(d)]
      BY <2>9 DEF Tick, storeVars, chunkVars, modeVars, itemVars, HoleInv, CountInv, ListTypes
    <3> QED
      BY <1>1, <3>1, <3>2, StaysExpired DEF HoleInv
  <2> QED
    BY <2>2, <2>3, <2>5, <2>6, <2>7, <2>8, <2>9 DEF Next
<1> QED
  BY <1>1, <1>2 DEF HoleInv

(* Whatever the clock does, a sweep unlinks a chunk behind one it leaves in  *)
(* the list only if the head of that one has expired by then                 *)
(* (chunked_list.go:152, :187-195).                                          *)
THEOREM HolesOverExpired == Spec => HolesBehindExpired
<1>1. Init => HoleInv
  BY CountInit DEF Init, StoreInit, HoleInv, PassedExpired
<1>2. HoleInv /\ [Next]_vars => HoleInv'
  BY HoleStep
<1>3. HoleInv /\ [Next]_vars
        => [\A c \in linked \ linked', d \in linked' : d < c => IsExpired(HeadOf(d))]_vars
  <2> SUFFICES ASSUME HoleInv, Next, NEW c \in linked \ linked', NEW d \in linked', d < c
               PROVE  IsExpired(HeadOf(d))
    OBVIOUS
  <2>1. DropChunk
    <3>1. linked' # linked /\ ~(linked \subseteq linked') /\ linked' # {}
      OBVIOUS
    <3>2. ~AddChunk /\ ~AddItem /\ linked' # linked
      BY <3>1 DEF AddChunk, PushChunk, AddItem, PutItem
    <3>3. ~ClearAll
      BY <3>1 DEF ClearAll, Clear
    <3>4. ~Expire /\ ~StartSweep /\ ~StopTest /\ ~EndSweep /\ ~RaiseClosed
      BY <3>1
      DEF Expire, ExpireItem, StartSweep, SweepBegin, StopTest, LeaveChunk, EndSweep, EndScan,
          EndNotify, RaiseClosed, CloseFlag, chunkVars
    <3>5. ~EndChunkScan /\ ~SetTTL /\ ~SetExpiration /\ ~Tick
      BY <3>1 DEF EndChunkScan, SetTTL, SetExpiration, Tick, storeVars, chunkVars
    <3>6. \A p \in Producers : ~Stamp(p) /\ ~GiveUp(p) /\ ~GrowFor(p) /\ ~AddFor(p)
      BY <3>1, <3>2 DEF Stamp, GiveUp, GrowFor, AddFor, storeVars, chunkVars
    <3> QED
      BY <3>3, <3>4, <3>5, <3>6 DEF Next
  <2>2. phase = "scan" /\ at # Nil /\ c = at /\ d \in linked
    BY <2>1 DEF DropChunk, UnlinkEmpty
  <2> QED
    BY <2>2 DEF HoleInv, PassedExpired
<1> QED
  BY <1>1, <1>2, <1>3, PTL DEF Spec, HolesBehindExpired
==============================================================================
