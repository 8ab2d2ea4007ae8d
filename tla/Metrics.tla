-------------------------------- MODULE Metrics --------------------------------
(***************************************************************************)
(* What is kept of operations past: the latency rings and counters of      *)
(* Metrics (queue/metrics.go) and a consumer's window of dequeue records   *)
(* (addToHistoryUnsafe, queue/consumer.go).  Each operation is one         *)
(* critical section of the tracker's or the consumer's mutex.              *)
(***************************************************************************)
EXTENDS Integers, Sequences, FiniteSets, Functions

CONSTANTS
  Latencies,   \* durations recorded
  Samples,     \* maxLatencySamples (1000 in the code)
  Percent,     \* 95 in the code
  MaxHistory,  \* QueueConfig.MaxConsumerHistory
  MaxRecords,  \* bound: operations of a kind recorded between two resets
  MaxReads     \* bound: items the consumer reads

ASSUME MetricsAssumption ==
  /\ Latencies \subseteq Nat
  /\ Samples \in Nat \ {0}
  /\ Percent \in 0 .. 100
  /\ MaxHistory \in Nat
  /\ MaxRecords \in Nat /\ MaxReads \in Nat

VARIABLES
  ring,        \* the latency ring of each kind of operation
  total,       \* totalEnqueued, totalDequeued, totalExpired
  errors,      \* enqueueErrors
  limitHits,   \* memoryLimitHits
  history,     \* dequeueHistory
  timed,       \* history: the latencies recorded since the last Reset
  reads        \* history: how many items the consumer has read

metricsVars == <<ring, total, errors, limitHits, history, timed, reads>>

Ops == {"enqueue", "dequeue"}

MetricsTypeOK ==
  /\ ring \in [Ops -> [data  : [0 .. Samples - 1 -> Latencies \cup {0}],
                       idx   : 0 .. Samples - 1,
                       count : 0 .. Samples]]
  /\ total \in [Ops \cup {"expired"} -> 0 .. MaxRecords]
  /\ errors \in Nat /\ limitHits \in Nat
  /\ history \in Seq(Nat)
  /\ timed \in [Ops -> Seq(Latencies)]
  /\ reads \in Nat

MetricsInit ==
  /\ ring = [o \in Ops |-> [data |-> [i \in 0 .. Samples - 1 |-> 0], idx |-> 0, count |-> 0]]
  /\ total = [o \in Ops \cup {"expired"} |-> 0]
  /\ errors = 0 /\ limitHits = 0
  /\ history = <<>>
  /\ timed = [o \in Ops |-> <<>>]
  /\ reads = 0

(* Mutant: the ring does not wrap. *)
PushPast(r, d) ==
  [data  |-> [r.data EXCEPT ![r.idx] = d],
   idx   |-> r.idx + 1,
   count |-> IF r.count < Samples THEN r.count + 1 ELSE r.count]

Push(r, d) ==
  [data  |-> [r.data EXCEPT ![r.idx] = d],
   idx   |-> (r.idx + 1) % Samples,
   count |-> IF r.count < Samples THEN r.count + 1 ELSE r.count]

Record(op, d) ==
  /\ total[op] < MaxRecords
  /\ total' = [total EXCEPT ![op] = @ + 1]
  /\ ring' = [ring EXCEPT ![op] = Push(@, d)]
  /\ timed' = [timed EXCEPT ![op] = Append(@, d)]
  /\ UNCHANGED <<history, reads>>

(* Err is nil, a MemoryLimitError or another error. *)
RecordEnqueue(d, err) ==
  /\ Record("enqueue", d)
  /\ errors' = IF err = "nil" THEN errors ELSE errors + 1
  /\ limitHits' = IF err = "limit" THEN limitHits + 1 ELSE limitHits

RecordDequeue(d) ==
  /\ Record("dequeue", d)
  /\ UNCHANGED <<errors, limitHits>>

RecordExpired(n) ==
  /\ total["expired"] + n <= MaxRecords
  /\ total' = [total EXCEPT !["expired"] = @ + n]
  /\ UNCHANGED <<ring, errors, limitHits, history, timed, reads>>

Trim(h) ==
  LET excess == Len(h) - MaxHistory
  IN IF excess > 0 THEN SubSeq(h, excess + 1, Len(h)) ELSE h

(* A read puts a record in its consumer's history. *)
addToHistory ==
  /\ reads < MaxReads
  /\ reads' = reads + 1
  /\ history' = Trim(Append(history, reads + 1))
  /\ UNCHANGED <<ring, total, errors, limitHits, timed>>

(* Mutant: the write index is left where it is. *)
Rewound(r)   == [r EXCEPT !.count = 0]
(* The old samples stay in the array. *)
Emptied(r)   == [r EXCEPT !.idx = 0, !.count = 0]

Reset ==
  /\ ring' = [o \in Ops |-> Emptied(ring[o])]
  /\ total' = [o \in Ops \cup {"expired"} |-> 0]
  /\ errors' = 0 /\ limitHits' = 0
  /\ timed' = [o \in Ops |-> <<>>]
  /\ UNCHANGED <<history, reads>>

MetricsNext ==
  \/ \E d \in Latencies :
       (\E err \in {"nil", "limit", "other"} : RecordEnqueue(d, err)) \/ RecordDequeue(d)
  \/ RecordExpired(1)
  \/ addToHistory
  \/ Reset

MetricsSpec == MetricsInit /\ [][MetricsNext]_metricsVars

-----------------------------------------------------------------------------
(* GetSnapshot *)

Snapshot(r)  == [i \in 1 .. r.count |-> r.data[i - 1]]

(* sort.Slice, in increasing order. *)
Sorts(p, s) == \A i, j \in DOMAIN s : i < j => s[p[i]] <= s[p[j]]
Sorted(s) ==
  LET p == CHOOSE q \in Injection(DOMAIN s, DOMAIN s) : Sorts(q, s)
  IN [i \in DOMAIN s |-> s[p[i]]]

(* Mutant: the index of the sorted samples begins at one. *)
FromOne(s) ==
  LET index == (Len(s) * Percent) \div 100
  IN Sorted(s)[IF index = 0 THEN 1 ELSE index]

(* calculateP95 *)
Percentile(s) ==
  LET index == (Len(s) * Percent) \div 100
  IN Sorted(s)[1 + (IF index >= Len(s) THEN Len(s) - 1 ELSE index)]

Latest(s, n) == SubSeq(s, IF Len(s) > n THEN Len(s) - n + 1 ELSE 1, Len(s))
Count(s, v)  == Cardinality({i \in DOMAIN s : s[i] = v})

-----------------------------------------------------------------------------
(* Properties *)

(* What is kept is the latest, in both: the samples a snapshot takes are the *)
(* latest recorded since the last Reset, each as often as it was recorded,   *)
(* also when the ring has wrapped and when it was reset half full, for Reset *)
(* leaves the old samples in the array (metrics.go:85, :121, :244); and the  *)
(* history is the latest reads, in order, none missing between them, nothing *)
(* with a limit of zero (consumer.go:67).                                    *)
KeepsTheLatest ==
  /\ \A o \in Ops : \A v \in Latencies \cup {0} :
       Count(Snapshot(ring[o]), v) = Count(Latest(timed[o], Samples), v)
  /\ history = Latest([i \in 1 .. reads |-> i], MaxHistory)

(* The percentile has at least so many of the samples at or below it and no  *)
(* more below it, at every number of samples down to one (metrics.go:226).   *)
PercentileSplits ==
  \A o \in Ops :
    LET s == Snapshot(ring[o])
        p == Percentile(s)
        n == Len(s) * Percent
    IN s # <<>> =>
         /\ 100 * Cardinality({i \in DOMAIN s : s[i] <= p}) >= n
         /\ 100 * Cardinality({i \in DOMAIN s : s[i] < p}) <= n
===============================================================================
