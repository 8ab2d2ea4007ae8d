----------------------------- MODULE MetricsProofs -----------------------------
(***************************************************************************)
(* Proofs about what is kept of operations past, for every number of       *)
(* samples and records and every history limit: types, that the rings and  *)
(* the history hold the latest, and that the percentile splits a ring's    *)
(* samples.                                                                *)
(***************************************************************************)
EXTENDS Metrics, SequenceTheorems, FiniteSetTheorems, TLAPS

-----------------------------------------------------------------------------
(* The invariant *)

AtMost(n, m) == IF n < m THEN n ELSE m

(* Where the ring has the sample recorded d samples before the last one,     *)
(* when the next one goes to idx.                                            *)
Spot(idx, d) == IF d < idx THEN idx - 1 - d ELSE idx - 1 - d + Samples

(* Ring r holds the latest samples of the sequence t: all of them, from      *)
(* index 0 on, until it is full.                                             *)
Retains(r, t) ==
  /\ r.count = AtMost(Len(t), Samples)
  /\ Len(t) < Samples => r.idx = Len(t)
  /\ \A d \in 0 .. Samples - 1 : d < Len(t) => r.data[Spot(r.idx, d)] = t[Len(t) - d]

Rings == \A o \in Ops : Retains(ring[o], timed[o])

(* The history is the run of numbers that ends with the last read.           *)
Window ==
  /\ Len(history) = AtMost(reads, MaxHistory)
  /\ \A i \in 1 .. Len(history) : history[i] = reads - Len(history) + i

MetricsInv == MetricsTypeOK /\ Rings /\ Window

-----------------------------------------------------------------------------
(* Operators *)

RingType ==
  [data : [0 .. Samples - 1 -> Latencies \cup {0}], idx : 0 .. Samples - 1, count : 0 .. Samples]

(* The index after the last one is the first.                                *)
LEMMA NextIndex ==
  ASSUME NEW i \in 0 .. Samples - 1
  PROVE  (i + 1) % Samples = IF i + 1 = Samples THEN 0 ELSE i + 1
<1>1. Samples \in Nat /\ Samples > 0 /\ i \in Nat
  BY MetricsAssumption
<1>2. \A a \in Nat : a < Samples => a % Samples = a
  BY <1>1
<1>3. Samples % Samples = 0
  BY <1>1
<1> QED
  BY <1>1, <1>2, <1>3

(* A spot is an index of the ring, and no two ages share one.                *)
LEMMA SpotIs ==
  ASSUME NEW i \in 0 .. Samples - 1, NEW d \in 0 .. Samples - 1
  PROVE  /\ Spot(i, d) \in 0 .. Samples - 1
         /\ \A e \in 0 .. Samples - 1 : Spot(i, d) = Spot(i, e) => d = e
  BY MetricsAssumption DEF Spot

(* Push keeps the latest (metrics.go:66).                                    *)
LEMMA PushRetains ==
  ASSUME NEW r \in RingType, NEW t \in Seq(Latencies), NEW v \in Latencies, Retains(r, t)
  PROVE  Push(r, v) \in RingType /\ Retains(Push(r, v), Append(t, v))
<1> DEFINE p == Push(r, v)
           u == Append(t, v)
           after == IF r.idx + 1 = Samples THEN 0 ELSE r.idx + 1
<1>1. Samples \in Nat \ {0} /\ v \in Latencies \cup {0}
  BY MetricsAssumption
<1>2. /\ r.idx \in 0 .. Samples - 1 /\ r.count \in 0 .. Samples
      /\ r.data \in [0 .. Samples - 1 -> Latencies \cup {0}]
  BY DEF RingType
<1>3. p.idx = after /\ after \in 0 .. Samples - 1
  BY <1>1, <1>2, NextIndex, SMTT(30) DEF Push
<1>4. p.data = [r.data EXCEPT ![r.idx] = v]
  BY DEF Push
<1>5. p.count = IF r.count < Samples THEN r.count + 1 ELSE r.count
  BY DEF Push
<1>6. p \in RingType
  <2>1. p.data \in [0 .. Samples - 1 -> Latencies \cup {0}]
    BY <1>1, <1>2, <1>4
  <2>2. p.count \in 0 .. Samples
    BY <1>1, <1>2, <1>5
  <2> QED
    BY <1>3, <2>1, <2>2 DEF RingType, Push
<1>7. /\ Len(t) \in Nat /\ Len(u) = Len(t) + 1 /\ u[Len(t) + 1] = v
      /\ \A k \in 1 .. Len(t) : u[k] = t[k]
  BY LenProperties, AppendProperties
<1>8. p.count = AtMost(Len(u), Samples)
  BY <1>1, <1>2, <1>5, <1>7 DEF Retains, AtMost
<1>9. Len(u) < Samples => p.idx = Len(u)
  BY <1>1, <1>2, <1>3, <1>7 DEF Retains
<1>10. ASSUME NEW d \in 0 .. Samples - 1, d < Len(u)
       PROVE  p.data[Spot(p.idx, d)] = u[Len(u) - d]
  <2>1. CASE d = 0
    <3>1. Spot(after, 0) = r.idx
      BY <1>1, <1>2 DEF Spot
    <3>2. p.data[r.idx] = v
      BY <1>2, <1>4
    <3>3. Len(u) - 0 = Len(t) + 1
      BY <1>7
    <3> QED
      BY <1>3, <1>7, <2>1, <3>1, <3>2, <3>3
  <2>2. CASE d # 0
    <3> DEFINE e == d - 1
    <3>1. e \in 0 .. Samples - 1 /\ e < Len(t) /\ Len(u) - d = Len(t) - e
          /\ Len(t) - e \in 1 .. Len(t)
      BY <1>1, <1>7, <1>10, <2>2
    <3>2. Spot(after, d) = Spot(r.idx, e) /\ Spot(r.idx, e) # r.idx
      BY <1>1, <1>2, <2>2, SMTT(30) DEF Spot
    <3>3. p.data[Spot(r.idx, e)] = r.data[Spot(r.idx, e)]
      BY <1>2, <1>4, <3>1, <3>2, SpotIs
    <3>4. r.data[Spot(r.idx, e)] = t[Len(t) - e]
      BY <3>1 DEF Retains
    <3> QED
      BY <1>3, <1>7, <3>1, <3>2, <3>3, <3>4
  <2> QED
    BY <2>1, <2>2
<1> QED
  BY <1>6, <1>8, <1>9, <1>10 DEF Retains

(* Trim cuts the front off a history that is too long (consumer.go:67).      *)
LEMMA TrimIs ==
  ASSUME NEW h \in Seq(Nat)
  PROVE  /\ Trim(h) \in Seq(Nat)
         /\ Len(Trim(h)) = AtMost(Len(h), MaxHistory)
         /\ \A i \in 1 .. Len(Trim(h)) : Trim(h)[i] = h[Len(h) - Len(Trim(h)) + i]
<1> DEFINE n == Len(h)
           x == n - MaxHistory
<1>1. n \in Nat /\ MaxHistory \in Nat /\ x \in Int /\ \A i \in 1 .. n : h[i] \in Nat
  BY MetricsAssumption, LenProperties, ElementOfSeq
<1>2. CASE x > 0
  <2>1. Trim(h) = SubSeq(h, x + 1, n)
    BY <1>2 DEF Trim
  <2>2. \A i \in x + 1 .. n : h[i] \in Nat
    BY <1>1, <1>2
  <2>3. /\ SubSeq(h, x + 1, n) \in Seq(Nat)
        /\ Len(SubSeq(h, x + 1, n)) = IF x + 1 <= n THEN n - (x + 1) + 1 ELSE 0
        /\ \A i \in 1 .. n - (x + 1) + 1 : SubSeq(h, x + 1, n)[i] = h[x + 1 + i - 1]
    <3> HIDE DEF n, x
    <3> QED
      BY <1>1, <2>2, SubSeqProperties
  <2> QED
    BY <1>1, <1>2, <2>1, <2>3, SMTT(30) DEF AtMost
<1>3. CASE ~(x > 0)
  <2>1. Trim(h) = h
    BY <1>3 DEF Trim
  <2> QED
    BY <1>1, <1>3, <2>1 DEF AtMost
<1> QED
  BY <1>2, <1>3

-----------------------------------------------------------------------------
(* Every operation keeps the invariant *)

(* What the types say of one ring and its samples.                           *)
RingsAre ==
  \A o \in Ops : ring[o] \in RingType /\ timed[o] \in Seq(Latencies) /\ Retains(ring[o], timed[o])

(* The empty ring holds the latest of nothing.                               *)
LEMMA MetricsStart == MetricsInit => MetricsInv
<1> SUFFICES ASSUME MetricsInit  PROVE MetricsInv
  OBVIOUS
<1>1. Samples \in Nat \ {0} /\ MaxHistory \in Nat /\ MaxRecords \in Nat
  BY MetricsAssumption
<1>2. \A o \in Ops : ring[o].count = 0 /\ ring[o].idx = 0 /\ timed[o] = <<>>
  BY DEF MetricsInit
<1>3. Len(<<>>) = 0
  OBVIOUS
<1>4. Rings
  BY <1>1, <1>2, <1>3 DEF Rings, Retains, AtMost
<1>5. Window
  BY <1>1 DEF MetricsInit, Window, AtMost
<1>6. MetricsTypeOK
  <2>1. ring \in [Ops -> RingType]
    BY <1>1 DEF MetricsInit, RingType
  <2>2. total \in [Ops \cup {"expired"} -> 0 .. MaxRecords]
    BY <1>1 DEF MetricsInit
  <2>3. timed \in [Ops -> Seq(Latencies)] /\ history \in Seq(Nat)
    BY DEF MetricsInit
  <2>4. errors \in Nat /\ limitHits \in Nat /\ reads \in Nat
    BY DEF MetricsInit
  <2> QED
    BY <2>1, <2>2, <2>3, <2>4 DEF MetricsTypeOK, RingType
<1> QED
  BY <1>4, <1>5, <1>6 DEF MetricsInv

(* The two recorders push one sample to one ring (metrics.go:75-102).        *)
LEMMA RecordKeeps ==
  ASSUME MetricsInv, NEW op \in Ops, NEW v \in Latencies, Record(op, v)
  PROVE  /\ ring' \in [Ops -> RingType] /\ timed' \in [Ops -> Seq(Latencies)]
         /\ total' \in [Ops \cup {"expired"} -> 0 .. MaxRecords]
         /\ Rings'
<1>1. /\ ring \in [Ops -> RingType] /\ timed \in [Ops -> Seq(Latencies)]
      /\ total \in [Ops \cup {"expired"} -> 0 .. MaxRecords]
      /\ Retains(ring[op], timed[op])
  BY DEF MetricsInv, MetricsTypeOK, RingType, Rings
<1>2. /\ ring' = [ring EXCEPT ![op] = Push(ring[op], v)]
      /\ timed' = [timed EXCEPT ![op] = Append(timed[op], v)]
      /\ total' = [total EXCEPT ![op] = total[op] + 1] /\ total[op] < MaxRecords
  BY DEF Record
<1>3. /\ Push(ring[op], v) \in RingType
      /\ Retains(Push(ring[op], v), Append(timed[op], v))
  BY <1>1, PushRetains
<1>4. Append(timed[op], v) \in Seq(Latencies)
  BY <1>1, AppendProperties
<1>5. ring' \in [Ops -> RingType] /\ timed' \in [Ops -> Seq(Latencies)]
  BY <1>1, <1>2, <1>3, <1>4
<1>6. total' \in [Ops \cup {"expired"} -> 0 .. MaxRecords]
  <2>1. total[op] + 1 \in 0 .. MaxRecords
    BY <1>1, <1>2, MetricsAssumption
  <2> QED
    BY <1>1, <1>2, <2>1
<1>7. ASSUME NEW o \in Ops  PROVE Retains(ring'[o], timed'[o])
  <2>1. CASE o = op
    BY <1>1, <1>2, <1>3, <2>1
  <2>2. CASE o # op
    <3>1. ring'[o] = ring[o] /\ timed'[o] = timed[o]
      BY <1>1, <1>2, <2>2
    <3>2. Retains(ring[o], timed[o])
      BY DEF MetricsInv, Rings
    <3> QED
      BY <3>1, <3>2
  <2> QED
    BY <2>1, <2>2
<1>8. Rings'
  BY <1>7 DEF Rings, Retains
<1> QED
  BY <1>5, <1>6, <1>8

(* Reset empties the rings where they stand, old samples and all             *)
(* (metrics.go:244-267).                                                     *)
LEMMA ResetKeeps ==
  ASSUME MetricsInv, Reset
  PROVE  MetricsInv'
<1>1. Samples \in Nat \ {0} /\ MaxRecords \in Nat
  BY MetricsAssumption
<1>2. ring \in [Ops -> RingType]
  BY DEF MetricsInv, MetricsTypeOK, RingType
<1>3. \A o \in Ops : Emptied(ring[o]) \in RingType
  <2> SUFFICES ASSUME NEW o \in Ops, NEW r, r = ring[o]
               PROVE  [r EXCEPT !.idx = 0, !.count = 0] \in RingType
    BY DEF Emptied
  <2>1. r \in RingType /\ 0 \in 0 .. Samples - 1 /\ 0 \in 0 .. Samples
    BY <1>1, <1>2
  <2> QED
    BY <2>1 DEF RingType
<1>4. ring' \in [Ops -> RingType]
  BY <1>3 DEF Reset
<1>5. \A o \in Ops : timed'[o] = <<>>
  BY DEF Reset
<1>6. \A o \in Ops : ring'[o].count = 0 /\ ring'[o].idx = 0
  <2> SUFFICES ASSUME NEW o \in Ops  PROVE ring'[o].count = 0 /\ ring'[o].idx = 0
    OBVIOUS
  <2>1. ring'[o] = [ring[o] EXCEPT !.idx = 0, !.count = 0]
    BY DEF Reset, Emptied
  <2> QED
    BY <1>2, <2>1 DEF RingType
<1>7. Rings'
  <2>1. Len(<<>>) = 0
    OBVIOUS
  <2>2. \A o \in Ops : Retains(ring[o], timed[o])'
    BY <1>1, <1>5, <1>6, <2>1 DEF Retains, AtMost
  <2> QED
    BY <2>2 DEF Rings
<1>8. MetricsTypeOK'
  <2>1. total' \in [Ops \cup {"expired"} -> 0 .. MaxRecords]
    BY <1>1 DEF Reset
  <2>2. timed' \in [Ops -> Seq(Latencies)]
    BY DEF Reset
  <2>3. /\ errors' \in Nat /\ limitHits' \in Nat
        /\ history' \in Seq(Nat) /\ reads' \in Nat
    BY DEF Reset, MetricsInv, MetricsTypeOK
  <2> QED
    BY <1>4, <2>1, <2>2, <2>3 DEF MetricsTypeOK, RingType
<1>9. Window'
  BY DEF Reset, MetricsInv, Window
<1> QED
  BY <1>7, <1>8, <1>9 DEF MetricsInv

(* A read is put at the end of the history, and the oldest makes room        *)
(* (consumer.go:67).                                                         *)
LEMMA HistoryKeeps ==
  ASSUME MetricsInv, addToHistory
  PROVE  history' \in Seq(Nat) /\ reads' \in Nat /\ Window'
<1> DEFINE u == Append(history, reads + 1)
<1>1. history \in Seq(Nat) /\ reads \in Nat /\ MaxHistory \in Nat
  BY MetricsAssumption DEF MetricsInv, MetricsTypeOK
<1>2. history' = Trim(u) /\ reads' = reads + 1
  BY DEF addToHistory
<1>3. /\ u \in Seq(Nat) /\ Len(history) \in Nat /\ Len(u) = Len(history) + 1
      /\ u[Len(history) + 1] = reads + 1
      /\ \A i \in 1 .. Len(history) : u[i] = history[i]
  BY <1>1, AppendProperties, LenProperties
<1>4. /\ Len(history) = AtMost(reads, MaxHistory)
      /\ \A i \in 1 .. Len(history) : history[i] = reads - Len(history) + i
  BY DEF MetricsInv, Window
<1>5. \A i \in 1 .. Len(u) : u[i] = reads + 1 - Len(u) + i
  <2> SUFFICES ASSUME NEW i \in 1 .. Len(u)  PROVE u[i] = reads + 1 - Len(u) + i
    OBVIOUS
  <2>1. i = Len(history) + 1 \/ i \in 1 .. Len(history)
    BY <1>3
  <2> QED
    BY <1>1, <1>3, <1>4, <2>1, SMTT(30)
<1>6. /\ Trim(u) \in Seq(Nat) /\ Len(Trim(u)) = AtMost(Len(u), MaxHistory)
      /\ \A i \in 1 .. Len(Trim(u)) : Trim(u)[i] = u[Len(u) - Len(Trim(u)) + i]
  BY <1>3, TrimIs
<1> HIDE DEF u
<1>7. Len(history') = AtMost(reads', MaxHistory)
  BY <1>1, <1>2, <1>3, <1>4, <1>6 DEF AtMost
<1>8. ASSUME NEW i \in 1 .. Len(history')
      PROVE  history'[i] = reads' - Len(history') + i
  <2>1. Len(u) - Len(Trim(u)) + i \in 1 .. Len(u)
    BY <1>1, <1>2, <1>3, <1>6, <1>8 DEF AtMost
  <2>2. Len(u) \in Nat /\ Len(Trim(u)) \in Nat
    BY <1>1, <1>3, <1>6 DEF AtMost
  <2> DEFINE j == Len(u) - Len(Trim(u)) + i
  <2>3. u[j] = reads + 1 - Len(u) + j
    BY <1>5, <2>1
  <2>4. history'[i] = u[j]
    BY <1>2, <1>6, <1>8
  <2>5. i \in Nat /\ reads' = reads + 1 /\ Len(history') = Len(Trim(u))
    BY <1>2, <1>8
  <2> QED
    BY <1>1, <2>2, <2>3, <2>4, <2>5
<1> QED
  BY <1>1, <1>2, <1>6, <1>7, <1>8 DEF Window

(* One step per operation.                                                   *)
LEMMA MetricsStep == MetricsInv /\ [MetricsNext]_metricsVars => MetricsInv'
<1> SUFFICES ASSUME MetricsInv, [MetricsNext]_metricsVars  PROVE MetricsInv'
  OBVIOUS
<1>1. /\ errors \in Nat /\ limitHits \in Nat
      /\ history \in Seq(Nat) /\ reads \in Nat
      /\ ring \in [Ops -> RingType] /\ timed \in [Ops -> Seq(Latencies)]
      /\ total \in [Ops \cup {"expired"} -> 0 .. MaxRecords]
      /\ Rings /\ Window
  BY DEF MetricsInv, MetricsTypeOK, RingType
<1>2. CASE \E v \in Latencies : \/ \E err \in {"nil", "limit", "other"} : RecordEnqueue(v, err)
                                \/ RecordDequeue(v)
  <2>1. PICK v \in Latencies : \/ \E err \in {"nil", "limit", "other"} : RecordEnqueue(v, err)
                               \/ RecordDequeue(v)
    BY <1>2
  <2>2. PICK op \in Ops : Record(op, v)
    BY <2>1 DEF RecordEnqueue, RecordDequeue, Ops
  <2>3. errors' \in Nat /\ limitHits' \in Nat
    BY <1>1, <2>1 DEF RecordEnqueue, RecordDequeue
  <2>4. history' = history /\ reads' = reads
    BY <2>2 DEF Record
  <2>5. Window'
    BY <1>1, <2>4 DEF Window
  <2> QED
    BY <1>1, <2>2, <2>3, <2>4, <2>5, RecordKeeps DEF MetricsInv, MetricsTypeOK, RingType
<1>3. CASE RecordExpired(1)
  <2>1. total' \in [Ops \cup {"expired"} -> 0 .. MaxRecords]
    <3>1. total["expired"] + 1 \in 0 .. MaxRecords
      BY <1>1, <1>3, MetricsAssumption DEF RecordExpired
    <3> QED
      BY <1>1, <1>3, <3>1 DEF RecordExpired
  <2>2. UNCHANGED <<ring, errors, limitHits, history, timed, reads>>
    BY <1>3 DEF RecordExpired
  <2>3. Rings' /\ Window'
    BY <1>1, <2>2 DEF Rings, Retains, Window
  <2> QED
    BY <1>1, <2>1, <2>2, <2>3 DEF MetricsInv, MetricsTypeOK, RingType
<1>4. CASE addToHistory
  <2>1. UNCHANGED <<ring, total, errors, limitHits, timed>>
    BY <1>4 DEF addToHistory
  <2>2. Rings'
    BY <1>1, <2>1 DEF Rings, Retains
  <2> QED
    BY <1>1, <1>4, <2>1, <2>2, HistoryKeeps DEF MetricsInv, MetricsTypeOK, RingType
<1>5. CASE Reset
  BY <1>5, ResetKeeps
<1>6. CASE UNCHANGED metricsVars
  BY <1>1, <1>6 DEF metricsVars, MetricsInv, MetricsTypeOK, Rings, Retains, Window, RingType
<1> QED
  BY <1>2, <1>3, <1>4, <1>5, <1>6 DEF MetricsNext

(* The invariant holds, whatever is recorded and reset.                      *)
LEMMA MetricsInvariant == MetricsSpec => []MetricsInv
  BY MetricsStart, MetricsStep, PTL DEF MetricsSpec

(* Types of the metrics' variables and of the history (metrics.go:11-31,     *)
(* consumer.go:35): the write index never leaves the ring.                   *)
THEOREM MetricsTypes == MetricsSpec => []MetricsTypeOK
<1>1. MetricsInv => MetricsTypeOK
  BY DEF MetricsInv
<1> QED
  BY <1>1, MetricsInvariant, PTL

-----------------------------------------------------------------------------
(* What is kept is the latest *)

(* Latest, sample by sample.                                                 *)
LEMMA LatestIs ==
  ASSUME NEW S, NEW s \in Seq(S), NEW n \in Nat
  PROVE  /\ Latest(s, n) \in Seq(S)
         /\ Len(Latest(s, n)) = AtMost(Len(s), n)
         /\ \A i \in 1 .. AtMost(Len(s), n) :
              Latest(s, n)[i] = s[Len(s) - AtMost(Len(s), n) + i]
<1> DEFINE k == Len(s)
           from == IF k > n THEN k - n + 1 ELSE 1
<1>1. k \in Nat /\ \A i \in 1 .. k : s[i] \in S
  BY LenProperties, ElementOfSeq
<1>2. from \in Int /\ from >= 1 /\ k - from + 1 = AtMost(k, n)
      /\ from = k - AtMost(k, n) + 1
  <2>1. CASE k > n
    <3>1. k \in Nat /\ n \in Nat
      BY <1>1
    <3> HIDE DEF k
    <3>2. AtMost(k, n) = n
      BY <2>1, <3>1 DEF AtMost
    <3>3. from = k - n + 1
      BY <2>1
    <3> HIDE DEF from
    <3> QED
      BY <2>1, <3>1, <3>2, <3>3
  <2>2. CASE ~(k > n)
    BY <1>1, <2>2 DEF AtMost
  <2> QED
    BY <2>1, <2>2
<1>3. \A i \in from .. k : s[i] \in S
  BY <1>1, <1>2
<1>4. Latest(s, n) = SubSeq(s, from, k)
  BY DEF Latest
<1> HIDE DEF from, k
<1>5. /\ SubSeq(s, from, k) \in Seq(S)
      /\ Len(SubSeq(s, from, k)) = IF from <= k THEN k - from + 1 ELSE 0
      /\ \A i \in 1 .. k - from + 1 : SubSeq(s, from, k)[i] = s[from + i - 1]
  BY <1>1, <1>2, <1>3, SubSeqProperties, SMTT(30)
<1>6. AtMost(k, n) \in Nat
  BY <1>1 DEF AtMost
<1>7. Len(Latest(s, n)) = AtMost(k, n)
  BY <1>1, <1>2, <1>4, <1>5, <1>6
<1>8. ASSUME NEW i \in 1 .. AtMost(k, n)
      PROVE  Latest(s, n)[i] = s[k - AtMost(k, n) + i]
  <2>1. from + i - 1 = k - AtMost(k, n) + i
    BY <1>1, <1>2, <1>6, SMTT(30)
  <2>2. SubSeq(s, from, k)[i] = s[from + i - 1]
    BY <1>2, <1>5
  <2> QED
    BY <1>4, <2>1, <2>2
<1> QED
  BY <1>4, <1>5, <1>7, <1>8 DEF k

(* A ring that retains the latest of a sequence shows each value as often as *)
(* they have it: the spots of the ages are the indices of the snapshot.      *)
LEMMA SnapshotCounts ==
  ASSUME NEW r \in RingType, NEW t \in Seq(Latencies), Retains(r, t), NEW v
  PROVE  Count(Snapshot(r), v) = Count(Latest(t, Samples), v)
<1> DEFINE n == r.count
           s == Snapshot(r)
           l == Latest(t, Samples)
           A == {i \in DOMAIN l : l[i] = v}
           B == {i \in DOMAIN s : s[i] = v}
           f == [i \in A |-> Spot(r.idx, n - i) + 1]
<1>1. /\ Samples \in Nat \ {0} /\ Len(t) \in Nat /\ n = AtMost(Len(t), Samples)
      /\ n \in Nat /\ n <= Samples /\ n <= Len(t)
      /\ r.idx \in 0 .. Samples - 1
  BY MetricsAssumption, LenProperties DEF RingType, Retains, AtMost
<1>2. /\ l \in Seq(Latencies) /\ Len(l) = n
      /\ \A i \in 1 .. n : l[i] = t[Len(t) - n + i]
  <2>1. /\ l \in Seq(Latencies) /\ Len(l) = AtMost(Len(t), Samples)
        /\ \A i \in 1 .. AtMost(Len(t), Samples) :
             l[i] = t[Len(t) - AtMost(Len(t), Samples) + i]
    <3>1. Samples \in Nat
      BY <1>1
    <3> QED
      BY <3>1, LatestIs
  <2> QED
    BY <1>1, <2>1
<1>3. DOMAIN l = 1 .. n
  BY <1>2, LenProperties
<1>4. DOMAIN s = 1 .. n /\ \A i \in 1 .. n : s[i] = r.data[i - 1]
  BY DEF Snapshot
<1>5. ASSUME NEW i \in 1 .. n
      PROVE  /\ n - i \in 0 .. Samples - 1
             /\ Spot(r.idx, n - i) + 1 \in 1 .. n
             /\ s[Spot(r.idx, n - i) + 1] = l[i]
  <2>1. n - i \in 0 .. Samples - 1 /\ n - i < Len(t)
    BY <1>1
  <2>2. Spot(r.idx, n - i) \in 0 .. n - 1
    <3>1. CASE Len(t) < Samples
      <4>1. r.idx = n
        BY <1>1, <3>1 DEF Retains, AtMost
      <4> QED
        BY <1>1, <4>1 DEF Spot
    <3>2. CASE ~(Len(t) < Samples)
      <4>1. n = Samples
        BY <1>1, <3>2 DEF AtMost
      <4> QED
        BY <1>1, <2>1, <4>1, SpotIs
    <3> QED
      BY <3>1, <3>2
  <2>3. r.data[Spot(r.idx, n - i)] = t[Len(t) - (n - i)]
    BY <2>1 DEF Retains
  <2>4. Len(t) - (n - i) = Len(t) - n + i
    BY <1>1
  <2>5. Spot(r.idx, n - i) + 1 \in 1 .. n /\ Spot(r.idx, n - i) + 1 - 1 = Spot(r.idx, n - i)
    BY <1>1, <2>2
  <2>6. s[Spot(r.idx, n - i) + 1] = r.data[Spot(r.idx, n - i)]
    <3> DEFINE b == Spot(r.idx, n - i) + 1
    <3>1. b \in 1 .. n /\ b - 1 = Spot(r.idx, n - i)
      BY <1>1, <2>2
    <3>2. s[b] = r.data[b - 1]
      <4> HIDE DEF b, s
      <4> QED
        BY <1>4, <3>1
    <3> QED
      BY <3>1, <3>2
  <2>7. l[i] = t[Len(t) - n + i]
    BY <1>2
  <2> QED
    BY <2>1, <2>3, <2>4, <2>5, <2>6, <2>7
<1>6. A \subseteq 1 .. n /\ B \subseteq 1 .. n /\ IsFiniteSet(A)
  <2>1. IsFiniteSet(1 .. n)
    BY <1>1, FS_Interval
  <2> QED
    BY <1>3, <1>4, <2>1, FS_Subset
<1>7. f \in [A -> B]
  BY <1>3, <1>4, <1>5, <1>6
<1>8. ASSUME NEW i \in A, NEW j \in A, f[i] = f[j]  PROVE i = j
  <2>1. /\ Spot(r.idx, n - i) \in 0 .. Samples - 1
        /\ Spot(r.idx, n - j) \in 0 .. Samples - 1
        /\ n - i \in 0 .. Samples - 1 /\ n - j \in 0 .. Samples - 1
    BY <1>1, <1>5, <1>6, SpotIs
  <2>2. Spot(r.idx, n - i) = Spot(r.idx, n - j)
    BY <1>8, <2>1
  <2>3. n - i = n - j
    <3> DEFINE d == n - i
               e == n - j
    <3>1. d \in 0 .. Samples - 1 /\ e \in 0 .. Samples - 1 /\ Spot(r.idx, d) = Spot(r.idx, e)
      BY <2>1, <2>2
    <3> HIDE DEF d, e
    <3>2. d = e
      BY <1>1, <3>1, SpotIs
    <3> QED
      BY <3>2 DEF d, e
  <2> QED
    BY <1>1, <1>6, <2>3
<1>9. ASSUME NEW b \in B  PROVE \E i \in A : f[i] = b
  <2> DEFINE d == IF b - 1 < r.idx THEN r.idx - b ELSE r.idx - b + Samples
             i == n - d
  <2>1. b \in 1 .. n /\ s[b] = v
    BY <1>6
  <2>2. d \in 0 .. n - 1 /\ Spot(r.idx, d) = b - 1
    <3>1. CASE Len(t) < Samples
      <4>1. r.idx = n
        BY <1>1, <3>1 DEF Retains, AtMost
      <4> QED
        BY <1>1, <2>1, <4>1 DEF Spot
    <3>2. CASE ~(Len(t) < Samples)
      <4>1. n = Samples
        BY <1>1, <3>2 DEF AtMost
      <4> QED
        BY <1>1, <2>1, <4>1, SMTT(30) DEF Spot
    <3> QED
      BY <3>1, <3>2
  <2>3. i \in 1 .. n /\ n - i = d /\ b - 1 + 1 = b
    BY <1>1, <2>1, <2>2, SMTT(30)
  <2>4. s[b] = l[i]
    BY <1>5, <2>2, <2>3
  <2>5. i \in A
    BY <1>3, <2>1, <2>3, <2>4
  <2>6. f[i] = b
    BY <2>2, <2>3, <2>5
  <2> QED
    BY <2>5, <2>6
<1>10. ExistsBijection(A, B)
  <2> HIDE DEF A, B, f
  <2> QED
    BY <1>7, <1>8, <1>9 DEF ExistsBijection, Bijection, Injection, Surjection, IsInjective
<1>11. Cardinality(B) = Cardinality(A)
  <2> HIDE DEF A, B
  <2> QED
    BY <1>6, <1>10, FS_Bijection
<1> QED
  BY <1>11 DEF Count

(* The samples a snapshot takes are the latest recorded since the last       *)
(* Reset, each as often as recorded, also when the ring has wrapped or was   *)
(* reset half full; the history is the latest reads in order, none missing   *)
(* (metrics.go:66-73, :244-267; consumer.go:67).                             *)
THEOREM LatestAreKept == MetricsSpec => []KeepsTheLatest
<1>1. MetricsInv => KeepsTheLatest
  <2> SUFFICES ASSUME MetricsInv  PROVE KeepsTheLatest
    OBVIOUS
  <2>1. ASSUME NEW o \in Ops, NEW v
        PROVE  Count(Snapshot(ring[o]), v) = Count(Latest(timed[o], Samples), v)
    <3>1. /\ ring[o] \in RingType /\ timed[o] \in Seq(Latencies)
          /\ Retains(ring[o], timed[o])
      BY DEF MetricsInv, MetricsTypeOK, RingType, Rings
    <3> QED
      BY <3>1, SnapshotCounts
  <2>2. history = Latest([i \in 1 .. reads |-> i], MaxHistory)
    <3> DEFINE all == [i \in 1 .. reads |-> i]
               l == Latest(all, MaxHistory)
               n == AtMost(reads, MaxHistory)
    <3>1. /\ history \in Seq(Nat) /\ reads \in Nat /\ MaxHistory \in Nat
          /\ n \in Nat /\ n <= reads
      BY MetricsAssumption DEF MetricsInv, MetricsTypeOK, AtMost
    <3>2. all \in Seq(Nat) /\ Len(all) = reads
      <4>1. \A i \in 1 .. reads : i \in Nat
        BY <3>1
      <4>2. all \in [1 .. reads -> Nat]
        BY <4>1
      <4> QED
        BY <3>1, <4>2, SeqDef, LenProperties
    <3>3. /\ l \in Seq(Nat) /\ Len(l) = n
          /\ \A i \in 1 .. n : l[i] = all[reads - n + i]
      <4> HIDE DEF all
      <4>1. /\ Latest(all, MaxHistory) \in Seq(Nat)
            /\ Len(Latest(all, MaxHistory)) = AtMost(Len(all), MaxHistory)
            /\ \A i \in 1 .. AtMost(Len(all), MaxHistory) :
                 Latest(all, MaxHistory)[i]
                   = all[Len(all) - AtMost(Len(all), MaxHistory) + i]
        BY <3>1, <3>2, LatestIs
      <4> QED
        BY <3>2, <4>1
    <3>4. Len(history) = n /\ \A i \in 1 .. n : history[i] = reads - n + i
      BY DEF MetricsInv, Window
    <3>5. \A i \in 1 .. n : reads - n + i \in 1 .. reads
      BY <3>1
    <3>6. \A i \in 1 .. n : history[i] = l[i]
      BY <3>3, <3>4, <3>5
    <3> HIDE DEF l
    <3>7. history = l
      BY <3>1, <3>3, <3>4, <3>6, SeqEqual
    <3> QED
      BY <3>7 DEF l
  <2> QED
    BY <2>1, <2>2 DEF KeepsTheLatest
<1> QED
  BY <1>1, MetricsInvariant, PTL

-----------------------------------------------------------------------------
(* Sorting and the percentile *)

(* The place of sample i of s when equal samples keep their order.           *)
Before(s, i) == {j \in DOMAIN s : s[j] < s[i] \/ (s[j] = s[i] /\ j <= i)}
Place(s)     == [i \in DOMAIN s |-> Cardinality(Before(s, i))]

(* Places are those of a sequence: two samples have different ones, the      *)
(* smaller sample the smaller one.                                           *)
LEMMA PlaceIs ==
  ASSUME NEW n \in Nat, NEW s \in [1 .. n -> Nat]
  PROVE  /\ Place(s) \in Injection(1 .. n, 1 .. n)
         /\ \A i, j \in 1 .. n : s[i] < s[j] => Place(s)[i] < Place(s)[j]
<1>1. \A i \in 1 .. n : s[i] \in Nat
  OBVIOUS
<1>2. DOMAIN s = 1 .. n /\ IsFiniteSet(1 .. n) /\ Cardinality(1 .. n) = n
  BY FS_Interval
<1>3. ASSUME NEW i \in 1 .. n
      PROVE  /\ Before(s, i) \in SUBSET (1 .. n) /\ i \in Before(s, i)
             /\ IsFiniteSet(Before(s, i)) /\ Place(s)[i] = Cardinality(Before(s, i))
             /\ Place(s)[i] \in 1 .. n
  <2>1. Before(s, i) \in SUBSET (1 .. n) /\ i \in Before(s, i)
    BY <1>1, <1>2 DEF Before
  <2>2. IsFiniteSet(Before(s, i)) /\ Cardinality(Before(s, i)) <= n
    BY <1>2, <2>1, FS_Subset
  <2>3. Cardinality(Before(s, i)) \in Nat
    BY <2>2, FS_CardinalityType
  <2>4. Cardinality(Before(s, i)) # 0
    BY <2>1, <2>2, FS_EmptySet
  <2>5. Place(s)[i] = Cardinality(Before(s, i))
    BY <1>2 DEF Place
  <2>6. Cardinality(Before(s, i)) \in 1 .. n
    BY <2>2, <2>3, <2>4
  <2> QED
    BY <2>1, <2>2, <2>5, <2>6
<1>4. ASSUME NEW i \in 1 .. n, NEW j \in 1 .. n, s[i] < s[j] \/ (s[i] = s[j] /\ i < j)
      PROVE  Place(s)[i] < Place(s)[j]
  <2>1. Before(s, i) \in SUBSET Before(s, j)
    BY <1>1, <1>2, <1>4 DEF Before
  <2>2. j \notin Before(s, i)
    BY <1>1, <1>2, <1>4 DEF Before
  <2>3. Cardinality(Before(s, i)) <= Cardinality(Before(s, j))
    BY <1>3, <2>1, FS_Subset
  <2>4. Cardinality(Before(s, i)) # Cardinality(Before(s, j))
    BY <1>3, <2>1, <2>2, FS_Subset
  <2> QED
    BY <1>3, <2>3, <2>4
<1>5. Place(s) \in [1 .. n -> 1 .. n]
  BY <1>2, <1>3 DEF Place
<1>6. ASSUME NEW i \in 1 .. n, NEW j \in 1 .. n, Place(s)[i] = Place(s)[j]
      PROVE  i = j
  <2>1. Place(s)[i] \in Nat
    BY <1>3
  <2>2. ~ (Place(s)[i] < Place(s)[j]) /\ ~ (Place(s)[j] < Place(s)[i])
    BY <1>6, <2>1
  <2>3. ~ (s[i] < s[j]) /\ ~ (s[j] < s[i]) /\ ~ (s[i] = s[j] /\ i < j)
        /\ ~ (s[j] = s[i] /\ j < i)
    BY <1>4, <2>2
  <2> QED
    BY <1>1, <2>3
<1>7. Place(s) \in Injection(1 .. n, 1 .. n)
  BY <1>5, <1>6 DEF Injection, IsInjective
<1> QED
  BY <1>4, <1>7

(* An injection of 1 .. n into itself has an inverse, which is one too.      *)
LEMMA InjectionInverts ==
  ASSUME NEW n \in Nat, NEW f \in Injection(1 .. n, 1 .. n)
  PROVE  \E g \in Injection(1 .. n, 1 .. n) :
           \A k \in 1 .. n : f[g[k]] = k /\ g[f[k]] = k
<1>1. IsFiniteSet(1 .. n)
  BY FS_Interval
<1>2. f \in Surjection(1 .. n, 1 .. n)
  BY <1>1, FS_Injection
<1>3. /\ f \in [1 .. n -> 1 .. n]
      /\ \A i, j \in 1 .. n : f[i] = f[j] => i = j
      /\ \A k \in 1 .. n : \E i \in 1 .. n : f[i] = k
  BY <1>2 DEF Injection, IsInjective, Surjection
<1> DEFINE g == [k \in 1 .. n |-> CHOOSE i \in 1 .. n : f[i] = k]
<1>4. ASSUME NEW k \in 1 .. n
      PROVE  g[k] \in 1 .. n /\ f[g[k]] = k
  BY <1>3
<1>5. g \in [1 .. n -> 1 .. n]
  BY <1>4
<1> HIDE DEF g
<1>6. ASSUME NEW k \in 1 .. n
      PROVE  g[f[k]] = k
  <2>1. f[k] \in 1 .. n
    BY <1>3
  <2>2. g[f[k]] \in 1 .. n /\ f[g[f[k]]] = f[k]
    BY <1>4, <2>1
  <2> QED
    BY <1>3, <2>2
<1>7. \A j, k \in 1 .. n : g[j] = g[k] => j = k
  BY <1>4
<1>8. g \in Injection(1 .. n, 1 .. n)
  BY <1>5, <1>7 DEF Injection, IsInjective
<1> QED
  BY <1>4, <1>6, <1>8

(* What Sorted chooses exists: the samples can be sorted.                    *)
LEMMA SortedIs ==
  ASSUME NEW n \in Nat, NEW s \in [1 .. n -> Nat]
  PROVE  \E p \in Injection(1 .. n, 1 .. n) :
           Sorts(p, s) /\ Sorted(s) = [i \in 1 .. n |-> s[p[i]]]
<1>1. DOMAIN s = 1 .. n /\ \A i \in 1 .. n : s[i] \in Nat
  OBVIOUS
<1>2. PICK g \in Injection(1 .. n, 1 .. n) :
        \A k \in 1 .. n : Place(s)[g[k]] = k /\ g[Place(s)[k]] = k
  BY PlaceIs, InjectionInverts
<1>3. g \in [1 .. n -> 1 .. n]
  BY DEF Injection
<1>4. ASSUME NEW i \in 1 .. n, NEW j \in 1 .. n, i < j
      PROVE  s[g[i]] <= s[g[j]]
  <2>1. g[i] \in 1 .. n /\ g[j] \in 1 .. n
    BY <1>3
  <2>2. ~ (s[g[j]] < s[g[i]])
    <3>1. Place(s)[g[i]] = i /\ Place(s)[g[j]] = j
      BY <1>2
    <3>2. s[g[j]] < s[g[i]] => Place(s)[g[j]] < Place(s)[g[i]]
      BY <2>1, PlaceIs
    <3>3. ~ (j < i)
      BY <1>4
    <3> QED
      BY <3>1, <3>2, <3>3
  <2> QED
    BY <1>1, <2>1, <2>2
<1>5. Sorts(g, s)
  BY <1>1, <1>4 DEF Sorts
<1>6. \E q \in Injection(DOMAIN s, DOMAIN s) : Sorts(q, s)
  BY <1>1, <1>5
<1> DEFINE p == CHOOSE q \in Injection(DOMAIN s, DOMAIN s) : Sorts(q, s)
<1>7. p \in Injection(1 .. n, 1 .. n) /\ Sorts(p, s)
  BY <1>1, <1>6
<1>8. Sorted(s) = [i \in 1 .. n |-> s[p[i]]]
  BY <1>1 DEF Sorted
<1> QED
  BY <1>7, <1>8

(* The k-th of the sorted samples has k of them at or below it, and no more  *)
(* than k - 1 below it.                                                      *)
LEMMA SortedSplits ==
  ASSUME NEW n \in Nat, NEW s \in [1 .. n -> Nat], NEW k \in 1 .. n
  PROVE  /\ Cardinality({i \in 1 .. n : s[i] <= Sorted(s)[k]}) \in Nat
         /\ Cardinality({i \in 1 .. n : s[i] < Sorted(s)[k]}) \in Nat
         /\ Cardinality({i \in 1 .. n : s[i] <= Sorted(s)[k]}) >= k
         /\ Cardinality({i \in 1 .. n : s[i] < Sorted(s)[k]}) <= k - 1
<1>1. PICK p \in Injection(1 .. n, 1 .. n) :
        Sorts(p, s) /\ Sorted(s) = [i \in 1 .. n |-> s[p[i]]]
  BY SortedIs
<1>2. PICK g \in Injection(1 .. n, 1 .. n) :
        \A i \in 1 .. n : p[g[i]] = i /\ g[p[i]] = i
  BY InjectionInverts
<1>3. /\ p \in [1 .. n -> 1 .. n] /\ \A i, j \in 1 .. n : p[i] = p[j] => i = j
      /\ g \in [1 .. n -> 1 .. n] /\ \A i, j \in 1 .. n : g[i] = g[j] => i = j
  BY DEF Injection, IsInjective
<1> DEFINE v == Sorted(s)[k]
           A == {i \in 1 .. n : s[i] <= v}
           B == {i \in 1 .. n : s[i] < v}
<1>4. v = s[p[k]] /\ \A i \in 1 .. n : s[i] \in Nat
  BY <1>1
<1>5. \A i, j \in 1 .. n : i < j => s[p[i]] <= s[p[j]]
  BY <1>1 DEF Sorts
<1> HIDE DEF v
<1>6. /\ A \in SUBSET (1 .. n) /\ IsFiniteSet(A) /\ Cardinality(A) \in Nat
      /\ B \in SUBSET (1 .. n) /\ IsFiniteSet(B) /\ Cardinality(B) \in Nat
  <2>1. A \in SUBSET (1 .. n) /\ B \in SUBSET (1 .. n)
    OBVIOUS
  <2> HIDE DEF A, B
  <2>2. IsFiniteSet(1 .. n)
    BY FS_Interval
  <2>3. IsFiniteSet(A) /\ IsFiniteSet(B)
    BY <2>1, <2>2, FS_Subset
  <2> QED
    BY <2>1, <2>3, FS_CardinalityType
<1>7. Cardinality(A) >= k
  <2> DEFINE f == [i \in 1 .. k |-> p[i]]
  <2>1. ASSUME NEW i \in 1 .. k
        PROVE  i \in 1 .. n /\ p[i] \in A
    <3>1. i \in 1 .. n /\ p[i] \in 1 .. n /\ p[k] \in 1 .. n
      BY <1>3
    <3>2. s[p[i]] <= s[p[k]]
      <4>1. CASE i = k
        <5>1. s[p[k]] \in Nat
          BY <1>4, <3>1
        <5> QED
          BY <4>1, <5>1
      <4>2. CASE i < k
        BY <1>5, <3>1, <4>2
      <4> QED
        BY <4>1, <4>2
    <3> QED
      BY <1>4, <3>1, <3>2
  <2>2. f \in [1 .. k -> A]
    BY <2>1
  <2>3. \A i, j \in 1 .. k : f[i] = f[j] => i = j
    BY <1>3, <2>1
  <2>4. f \in Injection(1 .. k, A)
    BY <2>2, <2>3 DEF Injection, IsInjective
  <2>5. Cardinality(1 .. k) = k
    BY FS_Interval
  <2> HIDE DEF A, f
  <2> QED
    BY <1>6, <2>4, <2>5, FS_Injection
<1>8. Cardinality(B) <= k - 1
  <2> DEFINE f == [i \in B |-> g[i]]
  <2>1. ASSUME NEW i \in B
        PROVE  i \in 1 .. n /\ g[i] \in 1 .. k - 1
    <3>1. i \in 1 .. n /\ g[i] \in 1 .. n /\ p[g[i]] = i /\ p[k] \in 1 .. n
      BY <1>2, <1>3
    <3>2. ~ (s[p[k]] <= s[i])
      BY <1>4, <3>1
    <3>3. s[i] \in Nat
      BY <1>4, <3>1
    <3>4. g[i] # k
      BY <3>1, <3>2, <3>3
    <3>5. ~ (k < g[i])
      BY <1>5, <3>1, <3>2
    <3> QED
      BY <3>1, <3>4, <3>5
  <2>2. f \in [B -> 1 .. k - 1]
    BY <2>1
  <2>3. \A i, j \in B : f[i] = f[j] => i = j
    BY <1>3, <2>1
  <2>4. f \in Injection(B, 1 .. k - 1)
    BY <2>2, <2>3 DEF Injection, IsInjective
  <2>5. IsFiniteSet(1 .. k - 1) /\ Cardinality(1 .. k - 1) = k - 1
    BY FS_Interval
  <2> HIDE DEF B, f
  <2> QED
    BY <2>4, <2>5, FS_Injection
<1> QED
  BY <1>6, <1>7, <1>8 DEF v

(* Of n samples, the index of the percentile is that of one of them, and as  *)
(* many are before it as the percentage asks for or less, one more or more   *)
(* with it (metrics.go:226-229).                                             *)
LEMMA IndexOfPercentile ==
  ASSUME NEW n \in Nat \ {0}, NEW q \in 0 .. 100
  PROVE  LET index == (n * q) \div 100
             k     == 1 + (IF index >= n THEN n - 1 ELSE index)
         IN  k \in 1 .. n /\ 100 * k >= n * q /\ 100 * (k - 1) <= n * q
<1> DEFINE m == n * q
           index == m \div 100
           k == 1 + (IF index >= n THEN n - 1 ELSE index)
<1>1. m \in Nat /\ m <= 100 * n
  OBVIOUS
<1> HIDE DEF m
<1>2. index \in Nat /\ 100 * index <= m /\ m < 100 * (index + 1)
  BY <1>1
<1> HIDE DEF index
<1>3. k \in 1 .. n /\ 100 * k >= m /\ 100 * (k - 1) <= m
  BY <1>1, <1>2
<1> QED
  BY <1>3 DEF m, index

(* The percentile has at least so many of the samples at or below it and no  *)
(* more below it, at every number of samples down to one: the sorted samples *)
(* are as many as the samples, and the index that is cut off at the last one *)
(* is never too small (metrics.go:220-230).                                  *)
THEOREM PercentilesSplit == MetricsSpec => []PercentileSplits
<1>1. MetricsTypeOK => PercentileSplits
  <2> SUFFICES ASSUME MetricsTypeOK, NEW o \in Ops, Snapshot(ring[o]) # <<>>
               PROVE  LET s == Snapshot(ring[o])
                          v == Percentile(s)
                          m == Len(s) * Percent
                      IN /\ 100 * Cardinality({i \in DOMAIN s : s[i] <= v}) >= m
                         /\ 100 * Cardinality({i \in DOMAIN s : s[i] < v}) <= m
    BY DEF PercentileSplits
  <2> DEFINE s == Snapshot(ring[o])
             n == ring[o].count
             index == (n * Percent) \div 100
             k == 1 + (IF index >= n THEN n - 1 ELSE index)
             a == Cardinality({i \in 1 .. n : s[i] <= Sorted(s)[k]})
             b == Cardinality({i \in 1 .. n : s[i] < Sorted(s)[k]})
  <2>1. ring[o] \in RingType
    BY DEF MetricsTypeOK, RingType
  <2>2. n \in Nat /\ n <= Samples /\ Samples \in Nat /\ Percent \in 0 .. 100
    BY <2>1, MetricsAssumption DEF RingType
  <2>3. s \in [1 .. n -> Nat]
    <3>1. \A i \in 1 .. n : i - 1 \in 0 .. Samples - 1
      BY <2>2
    <3>2. \A i \in 0 .. Samples - 1 : ring[o].data[i] \in Nat
      <4>1. ring[o].data \in [0 .. Samples - 1 -> Latencies \cup {0}]
        BY <2>1 DEF RingType
      <4>2. Latencies \cup {0} \subseteq Nat
        BY MetricsAssumption
      <4> QED
        BY <4>1, <4>2
    <3> QED
      BY <3>1, <3>2 DEF Snapshot
  <2>4. DOMAIN s = 1 .. n /\ Len(s) = n
    BY <2>2, <2>3
  <2>5. n \in Nat \ {0}
    <3>1. CASE n = 0
      <4>1. s = <<>>
        BY <2>3, <3>1
      <4> QED
        BY <4>1
    <3> QED
      BY <2>2, <3>1
  <2> HIDE DEF s, n
  <2>6. k \in 1 .. n /\ 100 * k >= n * Percent /\ 100 * (k - 1) <= n * Percent
    BY <2>2, <2>5, IndexOfPercentile
  <2>7. Percentile(s) = Sorted(s)[k]
    BY <2>4 DEF Percentile
  <2> HIDE DEF k
  <2>8. a \in Nat /\ b \in Nat /\ a >= k /\ b <= k - 1
    BY <2>3, <2>5, <2>6, SortedSplits
  <2> HIDE DEF a, b
  <2>9. k \in Nat /\ n * Percent \in Nat
    BY <2>2, <2>5, <2>6
  <2> DEFINE m == n * Percent
  <2>10. 100 * a >= m /\ 100 * b <= m
    <3> HIDE DEF m
    <3>1. m \in Nat /\ 100 * k >= m /\ 100 * (k - 1) <= m
      BY <2>6, <2>9 DEF m
    <3> QED
      BY <2>8, <2>9, <3>1
  <2>11. /\ 100 * Cardinality({i \in DOMAIN s : s[i] <= Percentile(s)}) >= Len(s) * Percent
         /\ 100 * Cardinality({i \in DOMAIN s : s[i] < Percentile(s)}) <= Len(s) * Percent
    BY <2>4, <2>7, <2>10 DEF a, b
  <2> QED
    BY <2>11 DEF s
<1> QED
  BY <1>1, MetricsTypes, PTL
===============================================================================
