---------------------------- MODULE BlockingProofs ----------------------------
(***************************************************************************)
(* Types and safety of the waits: the wait queues of the two channels are  *)
(* who is parked, and what a parked goroutine waits for is on its way.     *)
(* The invariant says in addition that a goroutine between its failed try  *)
(* and its look at the channel will find the token it needs there, unless  *)
(* the try failed because a sweep crossed it.                              *)
(***************************************************************************)
EXTENDS Blocking, SequenceTheorems, FiniteSetTheorems, TLAPS

(* The members of W stand in line, each once. *)
IsLine(q, W) == q \in Seq(W) /\ ToSet(q) = W /\ IsInjective(q)

(* An empty line has nobody in it. *)
LEMMA EmptyLine ==
  ASSUME NEW q, NEW W, IsLine(q, W)
  PROVE  q = <<>> <=> W = {}
<1>1. q \in Seq(W) /\ ToSet(q) = W
  BY DEF IsLine
<1>2. Len(q) \in Nat /\ DOMAIN q = 1 .. Len(q) /\ (q # <<>> => Len(q) # 0)
  BY <1>1, LenProperties, EmptySeq
<1>3. CASE q = <<>>
  BY <1>1, <1>3 DEF ToSet
<1>4. CASE q # <<>>
  <2>1. 1 \in DOMAIN q
    BY <1>2, <1>4
  <2> QED
    BY <1>1, <1>4, <2>1 DEF ToSet
<1> QED
  BY <1>3, <1>4

(* Nobody waits: the line of nobody. *)
LEMMA NoLine == IsLine(<<>>, {})
BY EmptySeq DEF IsLine, ToSet, IsInjective

(* One more goes to the end of the line. *)
LEMMA JoinLine ==
  ASSUME NEW q, NEW W, IsLine(q, W), NEW x, x \notin W
  PROVE  IsLine(Append(q, x), W \cup {x})
<1> DEFINE r == Append(q, x)
<1>1. q \in Seq(W) /\ ToSet(q) = W /\ IsInjective(q) /\ q \in Seq(W \cup {x})
  BY SeqMonotonic DEF IsLine
<1>2. /\ Len(q) \in Nat /\ DOMAIN q = 1 .. Len(q)
      /\ r \in Seq(W \cup {x}) /\ Len(r) = Len(q) + 1
      /\ \A i \in 1 .. Len(q) : r[i] = q[i]
      /\ r[Len(q) + 1] = x
  BY <1>1, LenProperties, AppendProperties
<1>3. DOMAIN r = 1 .. Len(q) + 1
  BY <1>2, LenProperties
<1>4. \A i \in 1 .. Len(q) : q[i] \in W
  BY <1>1, ElementOfSeq
<1>5. IsInjective(r)
  BY <1>1, <1>2, <1>3, <1>4 DEF IsInjective
<1>6. ToSet(r) = W \cup {x}
  <2>1. W \cup {x} \subseteq ToSet(r)
    <3>1. ASSUME NEW y \in W  PROVE \E i \in DOMAIN r : r[i] = y
      <4>1. PICK i \in DOMAIN q : q[i] = y
        BY <1>1 DEF ToSet
      <4> QED
        BY <1>2, <1>3, <4>1
    <3> QED
      BY <3>1, <1>2, <1>3 DEF ToSet
  <2>2. ToSet(r) \subseteq W \cup {x}
    BY <1>2, <1>3, <1>4 DEF ToSet
  <2> QED
    BY <2>1, <2>2
<1> QED
  BY <1>2, <1>5, <1>6 DEF IsLine

(* Anyone may leave the line; the others keep their order. *)
LEMMA LeaveLine ==
  ASSUME NEW q, NEW W, IsLine(q, W), NEW i \in DOMAIN q
  PROVE  q[i] \in W /\ IsLine(RemoveAt(q, i), W \ {q[i]})
<1> DEFINE V == W \ {q[i]}
           a == SubSeq(q, 1, i - 1)
           b == SubSeq(q, i + 1, Len(q))
           r == RemoveAt(q, i)
<1>1. q \in Seq(W) /\ ToSet(q) = W /\ IsInjective(q)
  BY DEF IsLine
<1>2. Len(q) \in Nat /\ DOMAIN q = 1 .. Len(q) /\ i \in 1 .. Len(q)
  BY <1>1, LenProperties
<1>3. \A j \in 1 .. Len(q) : q[j] \in W /\ (j # i => q[j] \in V)
  BY <1>1, <1>2, ElementOfSeq DEF IsInjective
<1>4. /\ a \in Seq(V) /\ Len(a) = i - 1
      /\ \A j \in 1 .. i - 1 : a[j] = q[j]
  <2>1. \A j \in 1 .. i - 1 : q[j] \in V
    BY <1>2, <1>3
  <2> QED
    BY <1>2, <2>1, SubSeqProperties
<1>5. /\ b \in Seq(V) /\ Len(b) = Len(q) - i
      /\ \A j \in 1 .. Len(q) - i : b[j] = q[i + j]
  <2>1. \A j \in i + 1 .. Len(q) : q[j] \in V
    BY <1>2, <1>3
  <2>2. /\ b \in Seq(V)
        /\ Len(b) = IF i + 1 <= Len(q) THEN Len(q) - (i + 1) + 1 ELSE 0
        /\ \A j \in 1 .. Len(q) - (i + 1) + 1 : b[j] = q[i + 1 + j - 1]
    BY <1>2, <2>1, SubSeqProperties
  <2> QED
    BY <1>2, <2>2
<1>6. /\ r \in Seq(V) /\ Len(r) = Len(q) - 1
      /\ \A j \in 1 .. i - 1 : r[j] = q[j]
      /\ \A j \in i .. Len(q) - 1 : r[j] = q[j + 1]
  <2>1. /\ r \in Seq(V) /\ Len(r) = Len(a) + Len(b)
        /\ \A j \in 1 .. Len(a) + Len(b) :
             r[j] = IF j <= Len(a) THEN a[j] ELSE b[j - Len(a)]
    BY <1>4, <1>5, ConcatProperties DEF RemoveAt
  <2>2. Len(a) + Len(b) = Len(q) - 1 /\ Len(a) = i - 1
    BY <1>2, <1>4, <1>5
  <2>3. ASSUME NEW j \in 1 .. i - 1  PROVE r[j] = q[j]
    <3>1. j \in 1 .. Len(a) + Len(b) /\ j <= Len(a)
      BY <1>2, <2>2
    <3> QED
      BY <1>4, <2>1, <3>1
  <2>4. ASSUME NEW j \in i .. Len(q) - 1  PROVE r[j] = q[j + 1]
    <3>1. /\ j \in 1 .. Len(q) - 1 /\ ~(j <= i - 1)
          /\ j - (i - 1) \in 1 .. Len(q) - i /\ i + (j - (i - 1)) = j + 1
      BY <1>2
    <3>2. r[j] = b[j - (i - 1)]
      BY <2>1, <2>2, <3>1
    <3> QED
      BY <1>5, <3>1, <3>2
  <2> QED
    BY <2>1, <2>2, <2>3, <2>4
<1>7. DOMAIN r = 1 .. Len(q) - 1
  BY <1>2, <1>6, LenProperties
<1>8. IsInjective(r)
  <2> SUFFICES ASSUME NEW j \in DOMAIN r, NEW k \in DOMAIN r, r[j] = r[k]  PROVE j = k
    BY DEF IsInjective
  <2> DEFINE at(n) == IF n < i THEN n ELSE n + 1
  <2>1. /\ at(j) \in DOMAIN q /\ r[j] = q[at(j)]
        /\ at(k) \in DOMAIN q /\ r[k] = q[at(k)]
    BY <1>2, <1>6, <1>7, SMTT(30)
  <2>2. at(j) = at(k)
    BY <1>1, <2>1 DEF IsInjective
  <2> QED
    BY <1>2, <1>7, <2>2
<1>9. ToSet(r) = V
  <2>1. ASSUME NEW y \in V  PROVE y \in ToSet(r)
    <3>1. PICK j \in 1 .. Len(q) : q[j] = y /\ j # i
      BY <1>1, <1>2 DEF ToSet
    <3>2. CASE j < i
      BY <1>2, <1>6, <1>7, <3>1, <3>2 DEF ToSet
    <3>3. CASE j > i
      <4>1. j - 1 \in i .. Len(q) - 1 /\ j - 1 \in DOMAIN r /\ (j - 1) + 1 = j
        BY <1>2, <1>7, <3>1, <3>3
      <4>2. r[j - 1] = y
        BY <1>6, <3>1, <4>1
      <4> QED
        BY <4>1, <4>2 DEF ToSet
    <3> QED
      BY <1>2, <3>1, <3>2, <3>3
  <2>2. \A j \in DOMAIN r : r[j] \in V
    BY <1>6, <1>7, ElementOfSeq
  <2> QED
    BY <2>1, <2>2 DEF ToSet
<1> QED
  BY <1>2, <1>3, <1>6, <1>8, <1>9 DEF IsLine

(* Whoever has waited longest is served first. *)
LEMMA ServeLine ==
  ASSUME NEW q, NEW W, IsLine(q, W), q # <<>>
  PROVE  Head(q) \in W /\ IsLine(Tail(q), W \ {Head(q)})
<1>1. q \in Seq(W) /\ ToSet(q) = W /\ IsInjective(q)
  BY DEF IsLine
<1>2. Len(q) \in Nat \ {0} /\ DOMAIN q = 1 .. Len(q)
  BY <1>1, LenProperties, EmptySeq
<1>3. /\ Tail(q) \in Seq(W) /\ Len(Tail(q)) = Len(q) - 1
      /\ \A i \in 1 .. Len(Tail(q)) : Tail(q)[i] = q[i + 1]
  BY <1>1, HeadTailProperties
<1>4. Head(q) = q[1] /\ 1 \in DOMAIN q
  BY <1>1, <1>2
<1>5. /\ RemoveAt(q, 1) \in Seq(W) /\ q[1] \in W
      /\ IsLine(RemoveAt(q, 1), W \ {q[1]})
  <2>1. q[1] \in W /\ IsLine(RemoveAt(q, 1), W \ {q[1]})
    BY <1>4, LeaveLine
  <2> QED
    BY <2>1, SeqMonotonic DEF IsLine
<1>6. RemoveAt(q, 1) = Tail(q)
  <2>1. SubSeq(q, 1, 0) = <<>>
    BY SubSeqEmpty
  <2>2. Tail(q) = SubSeq(q, 2, Len(q))
    BY <1>1, TailIsSubSeq
  <2>3. SubSeq(q, 2, Len(q)) \in Seq(W)
    BY <1>3, <2>2
  <2>4. RemoveAt(q, 1) = <<>> \o SubSeq(q, 2, Len(q))
    BY <2>1 DEF RemoveAt
  <2> QED
    BY <2>2, <2>3, <2>4, ConcatEmptySeq
<1> QED
  BY <1>4, <1>5, <1>6

-----------------------------------------------------------------------------
(* The invariant *)

SleepingP == {p \in Producers : ppc[p] = "parked"}
SleepingR == {r \in Readers : rpc[r] = "parked"}

(* The wait queues of the two channels hold who is parked, each once. *)
Lines == IsLine(parkedP, SleepingP) /\ IsLine(parkedR, SleepingR)

(* stopChan is closed once and for all (queue.go:645); a consumer that is    *)
(* not closed is listed (consumer.go:850).                                   *)
Stages ==
  /\ stopped <=> stage \in {"stop", "shut", "clear"}
  /\ active \cup shut = Readers

(* A producer that waits brings items; one that signals owes a signal        *)
(* (notify.go:34).                                                           *)
Brings ==
  \A p \in Producers :
    /\ ppc[p] = "send" => owed[p] >= 1
    /\ ppc[p] \in {"try", "select", "parked", "signal"} => need[p] \in Needs

(* SignalIsComing, before its readers are parked: a token may be the signal. *)
(* A reader whose TryRead a sweep crossed may have spent it.                 *)
SignalOrToken ==
  OneCursor /\ shut = {} /\ ~closed /\ (\A r \in Readers : rpc[r] \in {"select", "parked"})
    /\ (\E r \in Readers : HasUnread(r))
    => enqTokens > 0 \/ crossed # {} \/ \E p \in Producers : Pending(p)

(* SpaceIsComing, before its producers are parked: there is a token for each *)
(* that is about to look for one.                                            *)
Choosing == {p \in Producers : ppc[p] = "select"}
Alike    == Cardinality(Needs) = 1 /\ Cardinality(Producers) <= TokenCap
TokenEach ==
  Alike /\ sweeping = "no" /\ ~stopped =>
    \A n \in Needs : Depth + n <= MaxItems => Cardinality(Choosing) <= deqTokens

BlockingInv ==
  /\ CountsOK /\ PlacesOK /\ Lines /\ Stages /\ Brings /\ NoTokenWhileParked
  /\ SignalOrToken /\ TokenEach /\ SpaceIsComing

-----------------------------------------------------------------------------
(* The actions by operation *)

Enqueuing(p) ==
  \/ CallEnqueue(p) \/ TryEnqueue(p) \/ SelectSpace(p)
  \/ CountSignals(p) \/ SendSignal(p) \/ CancelEnqueue(p)
Reading(r) ==
  \/ CallRead(r) \/ TryRead(r) \/ SelectData(r)
  \/ Receive(r) \/ CancelRead(r) \/ RemoveConsumer(r)
Sweeping == Expire \/ (\E c \in Cursors : Correct(c)) \/ EndNotify \/ FillDequeueNotify
Closing  == SetClosed \/ CloseStopChan \/ CloseConsumers \/ ClearData

(* Every step is one of these or a stutter. *)
LEMMA StepsByOperation ==
  ASSUME [Next]_vars
  PROVE  \/ \E p \in Producers : Enqueuing(p)
         \/ \E r \in Readers : Reading(r)
         \/ Sweeping \/ Closing \/ UNCHANGED vars
BY DEF Next, ProducerStep, ReaderStep, SweepStep, CloseStep, Enqueuing, Reading, Sweeping, Closing

(* The numbers the proofs reason with. *)
LEMMA Numbers ==
  ASSUME CountsOK
  PROVE  /\ tail \in Nat /\ gone \in Nat /\ gone <= tail
         /\ Depth \in Nat /\ Depth = tail - gone /\ Depth <= MaxItems
         /\ MaxItems \in Nat /\ TokenCap \in Nat \ {0}
         /\ enqTokens \in Nat /\ deqTokens \in Nat /\ deqTokens <= TokenCap
         /\ Cardinality(Readers) \in Nat /\ Cardinality(active) \in Nat
         /\ Cardinality(active) <= Cardinality(Readers)
         /\ active # {} => Cardinality(active) > 0
         /\ \A p \in Producers : need[p] \in Nat /\ owed[p] \in Nat
         /\ \A c \in Cursors : pos[c] \in Nat /\ pos[c] <= tail
         /\ \A r \in Readers : CursorOf[r] \in Cursors
<1>1. IsFiniteSet(active) /\ Cardinality(active) <= Cardinality(Readers)
  BY BlockingAssumption, FS_Subset DEF CountsOK
<1>2. /\ Cardinality(active) \in Nat /\ Cardinality(Readers) \in Nat
      /\ active # {} => Cardinality(active) > 0
  BY <1>1, BlockingAssumption, FS_CardinalityType, FS_EmptySet
<1>3. /\ tail \in Nat /\ gone \in 0 .. tail /\ Depth = tail - gone /\ Depth <= MaxItems
      /\ enqTokens \in 0 .. TokenCap /\ deqTokens \in 0 .. TokenCap
      /\ MaxItems \in Nat /\ TokenCap \in Nat \ {0}
  BY BlockingAssumption DEF CountsOK, Depth
<1>4. \A p \in Producers : need[p] \in Nat /\ owed[p] \in Nat
  <2>1. \A n \in Needs \cup {0} : n \in Nat
    BY <1>3, BlockingAssumption
  <2>2. \A p \in Producers :
          need[p] \in Needs \cup {0} /\ owed[p] \in 0 .. Cardinality(Readers)
    BY DEF CountsOK
  <2> QED
    BY <1>2, <2>1, <2>2
<1>5. \A c \in Cursors : pos[c] \in 0 .. tail
  BY DEF CountsOK
<1>6. \A r \in Readers : CursorOf[r] \in Cursors
  BY BlockingAssumption
<1> QED
  BY <1>1, <1>2, <1>3, <1>4, <1>5, <1>6

(* What a TryRead does to the rest: it leaves its reader somewhere else, and  *)
(* the cursor no further than the last item.                                 *)
LEMMA TryReadSteps ==
  ASSUME CountsOK, NEW r \in Readers, TryRead(r)
  PROVE  /\ UNCHANGED <<tail, gone, enqTokens, deqTokens, ppc, need, owed, parkedP, parkedR>>
         /\ UNCHANGED <<sweeping, active, shut, closed, stopped, stage>>
         /\ rpc[r] \in {"try", "more"}
         /\ \E s \in {"idle", "try", "more", "offer", "select"} : rpc' = [rpc EXCEPT ![r] = s]
         /\ want' \in [Readers -> Nat]
         /\ pos' \in [Cursors -> 0 .. tail]
<1>1. /\ tail \in Nat /\ gone \in Nat /\ gone <= tail
      /\ \A c \in Cursors : pos[c] \in Nat /\ pos[c] <= tail
      /\ CursorOf[r] \in Cursors
      /\ rpc \in [Readers -> {"idle", "try", "select", "parked", "more", "offer"}]
      /\ want \in [Readers -> Nat] /\ pos \in [Cursors -> 0 .. tail]
  BY Numbers DEF CountsOK
<1>2. /\ UNCHANGED <<tail, gone, enqTokens, deqTokens, ppc, need, owed, parkedP, parkedR>>
      /\ UNCHANGED <<sweeping, active, shut, closed, stopped, stage>>
      /\ rpc[r] \in {"try", "more"}
  BY DEF TryRead, tokens, prodVars, manager, ending
<1>3. CASE Deliver(r)
  <2>1. /\ \E s \in {"idle", "try", "more", "offer", "select"} : rpc' = [rpc EXCEPT ![r] = s]
        /\ want' \in [Readers -> Nat]
    BY <1>1, <1>2, <1>3 DEF Deliver, Took, GoR, ReturnR
  <2>2. pos' \in [Cursors -> 0 .. tail]
    <3>1. Passed(CursorOf[r]) + 1 \in 0 .. tail
      BY <1>1, <1>3 DEF Deliver, HasUnread, Passed
    <3> QED
      BY <1>1, <1>3, <3>1 DEF Deliver
  <2> QED
    BY <1>2, <2>1, <2>2
<1>4. CASE FindNothing(r) \/ Miss(r)
  BY <1>1, <1>2, <1>4 DEF FindNothing, Miss, WentWithout, GoR, ReturnR
<1> QED
  BY <1>3, <1>4 DEF TryRead

-----------------------------------------------------------------------------
(* Each part is kept *)

(* A producer that parks joins the line of dequeueNotify; one that a sweep    *)
(* wakes, that cancels or that Close stops leaves it.                         *)
LEMMA ProducersInLine ==
  ASSUME CountsOK, IsLine(parkedP, SleepingP), [Next]_vars
  PROVE  IsLine(parkedP, SleepingP)'
<1>1. /\ ppc \in [Producers -> {"idle", "try", "select", "parked", "signal", "send"}]
      /\ parkedP = <<>> <=> SleepingP = {}
  BY EmptyLine DEF CountsOK
<1>2. ASSUME parkedP' = parkedP, SleepingP' = SleepingP  PROVE IsLine(parkedP, SleepingP)'
  BY <1>2
<1>3. ASSUME NEW p \in Producers, Enqueuing(p)  PROVE IsLine(parkedP, SleepingP)'
  <2>1. CASE SelectSpace(p) /\ ppc'[p] = "parked"
    <3>1. parkedP' = Append(parkedP, p) /\ SleepingP' = SleepingP \cup {p} /\ p \notin SleepingP
      BY <1>1, <2>1 DEF SelectSpace, GoP, ReturnP, SleepingP
    <3> QED
      BY <3>1, JoinLine
  <2>2. CASE SelectSpace(p) /\ ppc'[p] # "parked"
    BY <1>1, <1>2, <2>2 DEF SelectSpace, GoP, ReturnP, SleepingP
  <2>3. CASE CancelEnqueue(p) /\ ppc[p] = "parked"
    <3>1. PICK i \in DOMAIN parkedP : parkedP[i] = p /\ parkedP' = RemoveAt(parkedP, i)
      BY <2>3 DEF CancelEnqueue
    <3>2. SleepingP' = SleepingP \ {p}
      BY <1>1, <2>3 DEF CancelEnqueue, GoP, ReturnP, SleepingP
    <3> QED
      BY <3>1, <3>2, LeaveLine
  <2>4. CASE CancelEnqueue(p) /\ ppc[p] # "parked"
    BY <1>1, <1>2, <2>4 DEF CancelEnqueue, GoP, ReturnP, SleepingP
  <2>5. CASE CallEnqueue(p) \/ TryEnqueue(p) \/ CountSignals(p) \/ SendSignal(p)
    <3>1. parkedP' = parkedP
      BY <2>5 DEF CallEnqueue, TryEnqueue, CountSignals, SendSignal
    <3>2. /\ ppc[p] # "parked" /\ ppc'[p] # "parked"
          /\ \A x \in Producers \ {p} : ppc'[x] = ppc[x]
      BY <1>1, <2>5 DEF CallEnqueue, TryEnqueue, CountSignals, SendSignal, GoP, ReturnP
    <3> QED
      BY <1>2, <3>1, <3>2 DEF SleepingP
  <2> QED
    BY <1>3, <2>1, <2>2, <2>3, <2>4, <2>5 DEF Enqueuing
<1>4. CASE \E r \in Readers : Reading(r)
  BY <1>2, <1>4, TryReadSteps DEF Reading, CallRead, SelectData, Receive, CancelRead,
     RemoveConsumer, SleepingP, prodVars
<1>5. CASE Sweeping
  <2>1. CASE FillDequeueNotify /\ parkedP # <<>>
    <3>1. parkedP' = Tail(parkedP) /\ ppc' = [ppc EXCEPT ![Head(parkedP)] = "try"]
      BY <2>1 DEF FillDequeueNotify, GoP
    <3>2. Head(parkedP) \in SleepingP /\ IsLine(Tail(parkedP), SleepingP \ {Head(parkedP)})
      BY <2>1, ServeLine
    <3>3. SleepingP' = SleepingP \ {Head(parkedP)}
      BY <1>1, <3>1, <3>2 DEF SleepingP
    <3> QED
      BY <3>1, <3>2, <3>3
  <2>2. CASE \/ Expire \/ (\E c \in Cursors : Correct(c)) \/ EndNotify
             \/ (FillDequeueNotify /\ parkedP = <<>>)
    BY <1>2, <2>2 DEF Expire, Correct, EndNotify, FillDequeueNotify, prodVars, SleepingP
  <2> QED
    BY <1>5, <2>1, <2>2 DEF Sweeping
<1>6. CASE Closing
  <2>1. CASE CloseStopChan
    <3>1. parkedP' = <<>> /\ SleepingP' = {}
      BY <1>1, <2>1 DEF CloseStopChan, SleepingP
    <3> QED
      BY <3>1, NoLine
  <2>2. CASE SetClosed \/ CloseConsumers \/ ClearData
    BY <1>2, <2>2 DEF SetClosed, CloseConsumers, ClearData, prodVars, SleepingP
  <2> QED
    BY <1>6, <2>1, <2>2 DEF Closing
<1>7. CASE UNCHANGED vars
  BY <1>2, <1>7 DEF vars, prodVars, SleepingP
<1> QED
  BY StepsByOperation, <1>3, <1>4, <1>5, <1>6, <1>7

(* A reader that parks joins the line of enqueueNotify; one that a signal     *)
(* wakes, that cancels or that Close stops leaves it.                         *)
LEMMA ReadersInLine ==
  ASSUME CountsOK, IsLine(parkedR, SleepingR), [Next]_vars
  PROVE  IsLine(parkedR, SleepingR)'
<1>1. /\ rpc \in [Readers -> {"idle", "try", "select", "parked", "more", "offer"}]
      /\ parkedR = <<>> <=> SleepingR = {}
  BY EmptyLine DEF CountsOK
<1>2. ASSUME parkedR' = parkedR, SleepingR' = SleepingR  PROVE IsLine(parkedR, SleepingR)'
  BY <1>2
<1>3. ASSUME NEW p \in Producers, Enqueuing(p)  PROVE IsLine(parkedR, SleepingR)'
  <2>1. CASE SendSignal(p) /\ parkedR # <<>>
    <3>1. parkedR' = Tail(parkedR) /\ rpc' = [rpc EXCEPT ![Head(parkedR)] = "try"]
      BY <2>1 DEF SendSignal
    <3>2. Head(parkedR) \in SleepingR /\ IsLine(Tail(parkedR), SleepingR \ {Head(parkedR)})
      BY <2>1, ServeLine
    <3>3. SleepingR' = SleepingR \ {Head(parkedR)}
      BY <1>1, <3>1, <3>2 DEF SleepingR
    <3> QED
      BY <3>1, <3>2, <3>3
  <2>2. CASE \/ CallEnqueue(p) \/ TryEnqueue(p) \/ SelectSpace(p) \/ CountSignals(p)
             \/ CancelEnqueue(p) \/ (SendSignal(p) /\ parkedR = <<>>)
    BY <1>2, <2>2 DEF CallEnqueue, TryEnqueue, SelectSpace, CountSignals, CancelEnqueue,
       SendSignal, readVars, SleepingR
  <2> QED
    BY <1>3, <2>1, <2>2 DEF Enqueuing
<1>4. ASSUME NEW r \in Readers, Reading(r)  PROVE IsLine(parkedR, SleepingR)'
  <2>1. CASE SelectData(r) /\ rpc'[r] = "parked"
    <3>1. parkedR' = Append(parkedR, r) /\ SleepingR' = SleepingR \cup {r} /\ r \notin SleepingR
      BY <1>1, <2>1 DEF SelectData, GoR, ReturnR, SleepingR
    <3> QED
      BY <3>1, JoinLine
  <2>2. CASE SelectData(r) /\ rpc'[r] # "parked"
    BY <1>1, <1>2, <2>2 DEF SelectData, GoR, ReturnR, SleepingR
  <2>3. CASE CancelRead(r) /\ rpc[r] = "parked"
    <3>1. PICK i \in DOMAIN parkedR : parkedR[i] = r /\ parkedR' = RemoveAt(parkedR, i)
      BY <2>3 DEF CancelRead
    <3>2. SleepingR' = SleepingR \ {r}
      BY <1>1, <2>3 DEF CancelRead, GoR, ReturnR, SleepingR
    <3> QED
      BY <3>1, <3>2, LeaveLine
  <2>4. CASE CancelRead(r) /\ rpc[r] # "parked"
    BY <1>1, <1>2, <2>4 DEF CancelRead, GoR, ReturnR, SleepingR
  <2>5. CASE CallRead(r) \/ Receive(r) \/ RemoveConsumer(r)
    <3>1. parkedR' = parkedR
      BY <2>5 DEF CallRead, Receive, RemoveConsumer
    <3>2. SleepingR' = SleepingR
      BY <1>1, <2>5 DEF CallRead, Receive, RemoveConsumer, GoR, readVars, SleepingR
    <3> QED
      BY <1>2, <3>1, <3>2
  <2>6. CASE TryRead(r)
    BY <1>1, <1>2, <2>6, TryReadSteps DEF SleepingR
  <2> QED
    BY <1>4, <2>1, <2>2, <2>3, <2>4, <2>5, <2>6 DEF Reading
<1>5. CASE Sweeping
  BY <1>2, <1>5 DEF Sweeping, Expire, Correct, EndNotify, FillDequeueNotify, readVars, SleepingR
<1>6. CASE Closing
  <2>1. CASE CloseStopChan
    <3>1. parkedR' = <<>> /\ SleepingR' = {}
      BY <1>1, <2>1 DEF CloseStopChan, SleepingR
    <3> QED
      BY <3>1, NoLine
  <2>2. CASE SetClosed \/ CloseConsumers \/ ClearData
    BY <1>2, <2>2 DEF SetClosed, CloseConsumers, ClearData, readVars, SleepingR
  <2> QED
    BY <1>6, <2>1, <2>2 DEF Closing
<1>7. CASE UNCHANGED vars
  BY <1>2, <1>7 DEF vars, readVars, SleepingR
<1> QED
  BY StepsByOperation, <1>3, <1>4, <1>5, <1>6, <1>7

(* The types are kept: a producer owes no more signals than there are         *)
(* readers, and no more items are added than fit.                            *)
LEMMA CountsKept ==
  ASSUME CountsOK, Lines, Stages, Brings, [Next]_vars
  PROVE  CountsOK'
<1> USE BlockingAssumption DEF CountsOK, Depth, Brings
<1>1. /\ tail \in Nat /\ gone \in Nat /\ gone <= tail /\ MaxItems \in Nat
      /\ TokenCap \in Nat \ {0} /\ Cardinality(Readers) \in Nat /\ Cardinality(active) \in Nat
      /\ Cardinality(active) <= Cardinality(Readers) /\ tail - gone \in Nat
      /\ \A x \in Producers : need[x] \in Nat
  BY Numbers
<1>2. ASSUME NEW p \in Producers, Enqueuing(p)  PROVE CountsOK'
  <2>1. CASE TryEnqueue(p)
    <3>1. /\ UNCHANGED <<gone, pos, enqTokens, deqTokens, rpc, want, sweeping>>
          /\ UNCHANGED <<active, shut, closed, stopped, stage>>
      BY <2>1 DEF TryEnqueue, tokens, readVars, manager, ending
    <3>2. tail' \in Nat /\ tail <= tail' /\ tail' - gone <= MaxItems
      BY <1>1, <2>1 DEF TryEnqueue, Fits
    <3>3. gone \in 0 .. tail' /\ pos \in [Cursors -> 0 .. tail']
      BY <1>1, <3>2
    <3>4. /\ ppc' \in [Producers -> {"idle", "try", "select", "parked", "signal", "send"}]
          /\ need' \in [Producers -> Needs \cup {0}]
          /\ owed' \in [Producers -> 0 .. Cardinality(Readers)]
      BY <1>1, <2>1 DEF TryEnqueue, GoP, ReturnP
    <3> QED
      BY <3>1, <3>2, <3>3, <3>4
  <2>2. CASE SelectSpace(p)
    <3>1. /\ UNCHANGED <<tail, gone, pos, enqTokens, rpc, want, sweeping>>
          /\ UNCHANGED <<active, shut, closed, stopped, stage>>
      BY <2>2 DEF SelectSpace, data, readVars, manager, ending
    <3>2. deqTokens' \in 0 .. TokenCap
      BY <1>1, <2>2 DEF SelectSpace
    <3>3. /\ ppc' \in [Producers -> {"idle", "try", "select", "parked", "signal", "send"}]
          /\ need' \in [Producers -> Needs \cup {0}]
          /\ owed' \in [Producers -> 0 .. Cardinality(Readers)]
      <4>1. \/ ReturnP(p)
            \/ (\E s \in {"try", "parked"} : GoP(p, s)) /\ need' = need /\ owed' = owed
        BY <2>2 DEF SelectSpace
      <4>2. CASE ReturnP(p)
        BY <1>1, <4>2 DEF GoP, ReturnP
      <4>3. CASE (\E s \in {"try", "parked"} : GoP(p, s)) /\ need' = need /\ owed' = owed
        BY <1>1, <4>3 DEF GoP
      <4> QED
        BY <4>1, <4>2, <4>3
    <3> QED
      BY <3>1, <3>2, <3>3
  <2>3. CASE CountSignals(p)
    <3>1. /\ UNCHANGED <<tail, gone, pos, enqTokens, deqTokens, rpc, want, sweeping>>
          /\ UNCHANGED <<active, shut, closed, stopped, stage>>
      BY <2>3 DEF CountSignals, data, tokens, readVars, manager, ending
    <3>2. Least(Cardinality(active), Depth) \in 0 .. Cardinality(Readers)
      BY <1>1 DEF Least
    <3>3. /\ ppc' \in [Producers -> {"idle", "try", "select", "parked", "signal", "send"}]
          /\ need' \in [Producers -> Needs \cup {0}]
          /\ owed' \in [Producers -> 0 .. Cardinality(Readers)]
      BY <1>1, <3>2, <2>3 DEF CountSignals, GoP, ReturnP
    <3> QED
      BY <3>1, <3>3
  <2>4. CASE SendSignal(p)
    <3>1. /\ UNCHANGED <<tail, gone, pos, deqTokens, want, sweeping>>
          /\ UNCHANGED <<active, shut, closed, stopped, stage>>
      BY <2>4 DEF SendSignal, data, manager, ending
    <3>2. enqTokens' \in 0 .. TokenCap
      BY <1>1, <2>4 DEF SendSignal
    <3>3. rpc' \in [Readers -> {"idle", "try", "select", "parked", "more", "offer"}]
      BY <2>4 DEF SendSignal
    <3>4. owed[p] - 1 \in 0 .. Cardinality(Readers)
      BY <1>1, <2>4 DEF SendSignal
    <3>5. CASE ReturnP(p)
      BY <1>1, <3>1, <3>2, <3>3, <3>5 DEF ReturnP, GoP
    <3>6. CASE owed' = [owed EXCEPT ![p] = @ - 1] /\ UNCHANGED <<ppc, need>>
      BY <1>1, <3>1, <3>2, <3>3, <3>4, <3>6
    <3> QED
      BY <3>5, <3>6, <2>4 DEF SendSignal
  <2>5. CASE CallEnqueue(p) \/ CancelEnqueue(p)
    BY <1>1, <2>5 DEF CallEnqueue, CancelEnqueue, GoP, ReturnP, data, tokens,
      readVars, manager, ending
  <2> QED
    BY <1>2, <2>1, <2>2, <2>3, <2>4, <2>5 DEF Enqueuing
<1>3. ASSUME NEW r \in Readers, Reading(r)  PROVE CountsOK'
  <2>1. CASE CallRead(r)
    BY <1>1, <2>1 DEF CallRead, GoR, data, tokens, prodVars, manager, ending
  <2>2. CASE TryRead(r)
    BY <2>2, TryReadSteps
  <2>3. CASE SelectData(r)
    <3>1. /\ UNCHANGED <<tail, gone, pos, deqTokens, ppc, need, owed, sweeping>>
          /\ UNCHANGED <<active, shut, closed, stopped, stage>>
      BY <2>3 DEF SelectData, data, prodVars, manager, ending
    <3>2. enqTokens' \in 0 .. TokenCap
      BY <1>1, <2>3 DEF SelectData
    <3>3. /\ rpc' \in [Readers -> {"idle", "try", "select", "parked", "more", "offer"}]
          /\ want' \in [Readers -> Nat]
      <4>1. \/ ReturnR(r)
            \/ (\E s \in {"try", "parked"} : GoR(r, s)) /\ want' = want
        BY <2>3 DEF SelectData
      <4> QED
        BY <4>1 DEF GoR, ReturnR
    <3> QED
      BY <3>1, <3>2, <3>3
  <2>4. CASE Receive(r) \/ CancelRead(r) \/ RemoveConsumer(r)
    BY <1>1, <2>4 DEF Receive, CancelRead, RemoveConsumer, GoR, ReturnR, data,
      tokens, prodVars, readVars, manager, ending
  <2> QED
    BY <1>3, <2>1, <2>2, <2>3, <2>4 DEF Reading
<1>4. CASE Sweeping
  <2>1. CASE FillDequeueNotify
    <3>1. /\ UNCHANGED <<tail, gone, pos, enqTokens, need, owed, rpc, want>>
          /\ UNCHANGED <<active, shut, closed, stopped, stage>>
      BY <2>1 DEF FillDequeueNotify, data, readVars, manager, ending
    <3>2. CASE parkedP # <<>>
      <4>1. /\ UNCHANGED <<deqTokens, sweeping>> /\ ppc' = [ppc EXCEPT ![Head(parkedP)] = "try"]
        BY <3>2, <2>1 DEF FillDequeueNotify, GoP
      <4> QED
        BY <3>1, <4>1
    <3>3. CASE parkedP = <<>>
      <4>1. /\ deqTokens' = Least(deqTokens + 1, TokenCap)
            /\ sweeping' = (IF deqTokens < TokenCap THEN "fill" ELSE "no") /\ ppc' = ppc
        BY <3>3, <2>1 DEF FillDequeueNotify
      <4>2. deqTokens' \in 0 .. TokenCap
        BY <1>1, <4>1 DEF Least
      <4>3. sweeping' \in {"no", "tell", "fill"}
        BY <4>1
      <4> QED
        BY <3>1, <4>1, <4>2, <4>3
    <3> QED
      BY <3>2, <3>3
  <2>2. CASE Expire
    BY <1>1, <2>2 DEF Expire, tokens, prodVars, readVars, manager, ending
  <2>3. CASE (\E c \in Cursors : Correct(c)) \/ EndNotify
    BY <1>1, <2>3 DEF Correct, EndNotify, data, tokens, prodVars, readVars, manager, ending
  <2> QED
    BY <1>4, <2>1, <2>2, <2>3 DEF Sweeping
<1>5. CASE Closing
  <2>1. CASE CloseStopChan
    BY <1>1, <2>1 DEF CloseStopChan, data, tokens, manager
  <2>2. CASE ClearData
    <3>1. /\ UNCHANGED <<tail, pos, enqTokens, deqTokens, ppc, need, owed, rpc, want>>
          /\ UNCHANGED <<sweeping, active, shut, closed, stopped>>
      BY <2>2 DEF ClearData, tokens, prodVars, readVars, manager
    <3>2. gone' \in 0 .. tail /\ tail - gone' <= MaxItems /\ stage' = "clear"
      BY <1>1, <2>2 DEF ClearData
    <3> QED
      BY <3>1, <3>2
  <2>3. CASE SetClosed \/ CloseConsumers
    BY <1>1, <2>3 DEF SetClosed, CloseConsumers, data, tokens, prodVars, readVars,
      manager
  <2> QED
    BY <1>5, <2>1, <2>2, <2>3 DEF Closing
<1>6. CASE UNCHANGED vars
  BY <1>1, <1>6 DEF vars, data, tokens, prodVars, readVars, manager, ending
<1> QED
  BY StepsByOperation, <1>2, <1>3, <1>4, <1>5, <1>6

(* Cursors are adrift only while the sweep is telling; a reader that left     *)
(* TryRead and its select behind is crossed no more.                         *)
LEMMA PlacesKept ==
  ASSUME CountsOK, PlacesOK, Lines, [Next]_vars
  PROVE  PlacesOK'
<1> USE BlockingAssumption DEF PlacesOK
<1> DEFINE Calls == {r \in Readers : rpc[r] \in {"try", "more", "select", "parked"}}
<1>1. rpc \in [Readers -> {"idle", "try", "select", "parked", "more", "offer"}]
  BY DEF CountsOK
<1>2. ASSUME NEW p \in Producers, Enqueuing(p)  PROVE PlacesOK'
  <2>1. CASE SendSignal(p) /\ parkedR # <<>>
    <3>1. /\ UNCHANGED <<placed, adrift, sweeping>> /\ crossed' = crossed \ {Head(parkedR)}
          /\ rpc' = [rpc EXCEPT ![Head(parkedR)] = "try"]
      BY <2>1 DEF SendSignal, data, places
    <3> QED
      BY <1>1, <3>1
  <2>2. CASE \/ CallEnqueue(p) \/ TryEnqueue(p) \/ SelectSpace(p) \/ CountSignals(p)
             \/ CancelEnqueue(p) \/ (SendSignal(p) /\ parkedR = <<>>)
    BY <2>2 DEF CallEnqueue, TryEnqueue, SelectSpace, CountSignals, CancelEnqueue,
       SendSignal, data, places, readVars
  <2> QED
    BY <1>2, <2>1, <2>2 DEF Enqueuing
<1>3. ASSUME NEW r \in Readers, Reading(r)  PROVE PlacesOK'
  <2>1. CASE TryRead(r)
    <3>1. /\ sweeping' = sweeping /\ rpc[r] \in {"try", "more"}
          /\ \E s \in {"idle", "try", "more", "offer", "select"} : rpc' = [rpc EXCEPT ![r] = s]
      BY <2>1, TryReadSteps
    <3>2. /\ placed' \subseteq Cursors /\ adrift' \subseteq placed'
          /\ sweeping' # "tell" => adrift' = {}
      BY <2>1, <3>1 DEF TryRead, Deliver, FindNothing, Miss, places
    <3>3. CASE Deliver(r) \/ FindNothing(r)
      <4>1. crossed' = crossed \ {r}
        BY <3>3 DEF Deliver, FindNothing
      <4> QED
        BY <1>1, <3>1, <3>2, <4>1
    <3>4. CASE Miss(r)
      <4>1. InTryRead(CursorOf[r]) \subseteq {x \in Readers : rpc[x] \in {"try", "more"}}
        BY DEF InTryRead
      <4>2. CASE rpc[r] = "try"
        <5>1. rpc' = [rpc EXCEPT ![r] = "select"] /\ crossed' = crossed \cup InTryRead(CursorOf[r])
          BY <3>4, <4>2 DEF Miss, WentWithout, GoR
        <5> QED
          BY <1>1, <3>2, <4>1, <5>1
      <4>3. CASE rpc[r] # "try"
        <5>1. crossed' = (crossed \cup InTryRead(CursorOf[r])) \ {r}
          BY <3>4, <4>3 DEF Miss
        <5> QED
          BY <1>1, <3>1, <3>2, <4>1, <5>1
      <4> QED
        BY <4>2, <4>3
    <3> QED
      BY <2>1, <3>3, <3>4 DEF TryRead
  <2>2. CASE SelectData(r)
    <3>1. UNCHANGED <<placed, adrift, sweeping>>
      BY <2>2 DEF SelectData, data, places
    <3>2. \/ crossed' = crossed \ {r} /\ \E s \in {"try", "idle"} : rpc' = [rpc EXCEPT ![r] = s]
          \/ crossed' = crossed /\ rpc' = [rpc EXCEPT ![r] = "parked"]
      BY <2>2 DEF SelectData, GoR, ReturnR
    <3> QED
      BY <1>1, <3>1, <3>2
  <2>3. CASE CancelRead(r)
    <3>1. /\ UNCHANGED <<placed, adrift, sweeping>> /\ crossed' = crossed \ {r}
          /\ rpc' = [rpc EXCEPT ![r] = "idle"]
      BY <2>3 DEF CancelRead, GoR, ReturnR, data, places
    <3> QED
      BY <1>1, <3>1
  <2>4. CASE CallRead(r) \/ Receive(r)
    <3>1. /\ UNCHANGED <<placed, adrift, sweeping, crossed>>
          /\ \E s \in {"try", "more"} : rpc' = [rpc EXCEPT ![r] = s]
      BY <2>4 DEF CallRead, Receive, GoR, data, places
    <3> QED
      BY <1>1, <3>1
  <2>5. CASE RemoveConsumer(r)
    BY <2>5 DEF RemoveConsumer, data, places, readVars
  <2> QED
    BY <1>3, <2>1, <2>2, <2>3, <2>4, <2>5 DEF Reading
<1>4. CASE Sweeping
  <2>1. CASE Expire
    <3>1. /\ sweeping' = "tell" /\ rpc' = rpc /\ adrift' \subseteq Cursors
          /\ placed' = placed \cup adrift'
      BY <2>1 DEF Expire
    <3>2. crossed' \subseteq Calls
      BY <2>1 DEF Expire, InTryRead
    <3> QED
      BY <3>1, <3>2
  <2>2. ASSUME NEW c \in Cursors, Correct(c)  PROVE PlacesOK'
    <3>1. /\ sweeping' = sweeping /\ sweeping = "tell" /\ rpc' = rpc
          /\ adrift' = adrift \ {c} /\ placed' = (IF gone = tail THEN placed \ {c} ELSE placed)
          /\ crossed' = crossed \cup InTryRead(c)
      BY <2>2 DEF Correct
    <3>2. crossed' \subseteq Calls
      BY <3>1 DEF InTryRead
    <3> QED
      BY <3>1, <3>2
  <2>3. CASE EndNotify \/ FillDequeueNotify
    BY <2>3 DEF EndNotify, FillDequeueNotify, data, places, readVars
  <2> QED
    BY <1>4, <2>1, <2>2, <2>3 DEF Sweeping
<1>5. CASE Closing
  <2>1. CASE CloseStopChan
    <3>1. /\ UNCHANGED <<placed, adrift, sweeping>>
          /\ crossed' = {r \in crossed : rpc[r] # "parked"}
          /\ rpc' = [r \in Readers |-> IF rpc[r] = "parked" THEN "idle" ELSE rpc[r]]
      BY <2>1 DEF CloseStopChan, data, places
    <3> QED
      BY <1>1, <3>1
  <2>2. CASE SetClosed \/ CloseConsumers \/ ClearData
    BY <2>2 DEF SetClosed, CloseConsumers, ClearData, data, places, readVars
  <2> QED
    BY <1>5, <2>1, <2>2 DEF Closing
<1>6. CASE UNCHANGED vars
  BY <1>6 DEF vars, data, places, readVars
<1> QED
  BY StepsByOperation, <1>2, <1>3, <1>4, <1>5, <1>6

(* Close goes through its stages in order. *)
LEMMA StagesKept ==
  ASSUME CountsOK, Stages, [Next]_vars
  PROVE  Stages'
<1> USE DEF CountsOK, Stages
<1>1. ASSUME NEW p \in Producers, Enqueuing(p)  PROVE Stages'
  BY <1>1 DEF Enqueuing, CallEnqueue, TryEnqueue, SelectSpace, CountSignals,
    SendSignal, CancelEnqueue, GoP, ReturnP, Least, Fits, Depth, data, tokens,
    readVars, manager, ending
<1>2. ASSUME NEW r \in Readers, Reading(r)  PROVE Stages'
  BY <1>2, TryReadSteps DEF Reading, CallRead, SelectData, Receive, CancelRead,
    RemoveConsumer, GoR, ReturnR, data, tokens, prodVars, readVars, manager, ending
<1>3. CASE Sweeping
  BY <1>3 DEF Sweeping, Expire, Correct, EndNotify, FillDequeueNotify, GoP, Least, data,
    tokens, prodVars, readVars, manager, ending
<1>4. CASE Closing
  BY <1>4 DEF Closing, SetClosed, CloseStopChan, CloseConsumers, ClearData, data,
    tokens, prodVars, readVars, manager
<1>5. CASE UNCHANGED vars
  BY <1>5 DEF vars, data, tokens, prodVars, readVars, manager, ending
<1> QED
  BY StepsByOperation, <1>1, <1>2, <1>3, <1>4, <1>5

(* A producer that waits brings items; one that signals owes signals.        *)
LEMMA BringsKept ==
  ASSUME CountsOK, Lines, Brings, [Next]_vars
  PROVE  Brings'
<1> USE BlockingAssumption DEF CountsOK, Brings
<1>1. /\ tail \in Nat /\ gone \in Nat /\ gone <= tail /\ Depth \in Nat /\ Depth = tail - gone
      /\ enqTokens \in Nat /\ TokenCap \in Nat \ {0} /\ Cardinality(active) \in Nat
      /\ active # {} => Cardinality(active) > 0
      /\ \A x \in Producers : owed[x] \in Nat
  BY Numbers
<1>2. ASSUME NEW p \in Producers, Enqueuing(p)  PROVE Brings'
  <2>1. CASE CountSignals(p)
    <3>1. \/ ReturnP(p)
          \/ /\ UNCHANGED need /\ GoP(p, "send")
             /\ owed' = [owed EXCEPT ![p] = Least(Cardinality(active), Depth)]
             /\ Least(Cardinality(active), Depth) # 0
      BY <2>1 DEF CountSignals
    <3>2. Least(Cardinality(active), Depth) \in Nat
      BY <1>1 DEF Least
    <3> QED
      BY <3>1, <3>2, <2>1 DEF CountSignals, GoP, ReturnP
  <2>2. CASE SendSignal(p)
    <3>1. \/ ReturnP(p)
          \/ owed[p] # 1 /\ owed' = [owed EXCEPT ![p] = @ - 1] /\ UNCHANGED <<ppc, need>>
      BY <2>2 DEF SendSignal
    <3>2. ppc[p] = "send" /\ owed[p] \in Nat /\ owed[p] >= 1
      BY <1>1, <2>2 DEF SendSignal
    <3>3. CASE ReturnP(p)
      BY <3>3 DEF GoP, ReturnP
    <3>4. CASE owed[p] # 1 /\ owed' = [owed EXCEPT ![p] = @ - 1] /\ UNCHANGED <<ppc, need>>
      <4>1. owed[p] - 1 >= 1
        BY <3>2, <3>4
      <4> QED
        BY <3>4, <4>1
    <3> QED
      BY <3>1, <3>3, <3>4
  <2>3. CASE CallEnqueue(p)
    BY <1>1, <2>3 DEF CallEnqueue, GoP
  <2>4. CASE TryEnqueue(p)
    BY <1>1, <2>4 DEF TryEnqueue, GoP, ReturnP
  <2>5. CASE SelectSpace(p)
    BY <1>1, <2>5 DEF SelectSpace, GoP, ReturnP
  <2>6. CASE CancelEnqueue(p)
    BY <1>1, <2>6 DEF CancelEnqueue, GoP, ReturnP
  <2> QED
    BY <1>2, <2>1, <2>2, <2>3, <2>4, <2>5, <2>6 DEF Enqueuing
<1>3. ASSUME NEW r \in Readers, Reading(r)  PROVE Brings'
  BY <1>1, <1>3, TryReadSteps DEF Reading, CallRead, SelectData, Receive, CancelRead,
    RemoveConsumer, GoR, ReturnR, data, tokens, prodVars, readVars, manager, ending
<1>4. CASE Sweeping
  <2>1. CASE FillDequeueNotify
    <3>1. CASE parkedP # <<>>
      <4>1. Head(parkedP) \in SleepingP
        BY <3>1, ServeLine DEF Lines
      <4>2. ppc' = [ppc EXCEPT ![Head(parkedP)] = "try"] /\ UNCHANGED <<need, owed>>
        BY <3>1, <2>1 DEF FillDequeueNotify, GoP
      <4> QED
        BY <4>1, <4>2 DEF SleepingP
    <3>2. CASE parkedP = <<>>
      BY <3>2, <2>1 DEF FillDequeueNotify
    <3> QED
      BY <3>1, <3>2
  <2>2. CASE Expire \/ (\E c \in Cursors : Correct(c)) \/ EndNotify
    BY <1>1, <2>2 DEF Expire, Correct, EndNotify, data, tokens, prodVars, readVars, manager,
      ending
  <2> QED
    BY <1>4, <2>1, <2>2 DEF Sweeping
<1>5. CASE Closing
  BY <1>1, <1>5 DEF Closing, SetClosed, CloseStopChan, CloseConsumers, ClearData,
    data, tokens, prodVars, readVars, manager
<1>6. CASE UNCHANGED vars
  BY <1>1, <1>6 DEF vars, data, tokens, prodVars, readVars, manager, ending
<1> QED
  BY StepsByOperation, <1>2, <1>3, <1>4, <1>5, <1>6

(* Nobody parks with a token in the channel, and no token is buffered while   *)
(* somebody is parked.                                                       *)
LEMMA NoTokenKept ==
  ASSUME CountsOK, Lines, Stages, NoTokenWhileParked, [Next]_vars
  PROVE  NoTokenWhileParked'
<1> USE BlockingAssumption DEF CountsOK, Stages, NoTokenWhileParked
<1>1. ASSUME NEW p \in Producers, Enqueuing(p)  PROVE NoTokenWhileParked'
  <2>1. CASE CancelEnqueue(p)
    BY <2>1 DEF CancelEnqueue, GoP, ReturnP, data, tokens, readVars, manager, ending
  <2>2. CASE CallEnqueue(p) \/ TryEnqueue(p) \/ SelectSpace(p) \/ CountSignals(p) \/ SendSignal(p)
    BY <2>2 DEF CallEnqueue, TryEnqueue, SelectSpace, CountSignals, SendSignal, GoP,
      ReturnP, Least, Fits, Depth, data, tokens, readVars, manager, ending
  <2> QED
    BY <1>1, <2>1, <2>2 DEF Enqueuing
<1>2. ASSUME NEW r \in Readers, Reading(r)  PROVE NoTokenWhileParked'
  <2>1. CASE CancelRead(r)
    BY <2>1 DEF CancelRead, GoR, ReturnR, data, tokens, prodVars, manager, ending
  <2>2. CASE CallRead(r) \/ TryRead(r) \/ SelectData(r) \/ Receive(r) \/ RemoveConsumer(r)
    BY <2>2, TryReadSteps DEF CallRead, SelectData, Receive, RemoveConsumer, GoR, ReturnR,
      data, tokens, prodVars, readVars, manager, ending
  <2> QED
    BY <1>2, <2>1, <2>2 DEF Reading
<1>3. CASE Sweeping
  BY <1>3 DEF Sweeping, Expire, Correct, EndNotify, FillDequeueNotify, GoP, Least, data,
    tokens, prodVars, readVars, manager, ending
<1>4. CASE Closing
  BY <1>4 DEF Closing, SetClosed, CloseStopChan, CloseConsumers, ClearData, data,
    tokens, prodVars, readVars, manager
<1>5. CASE UNCHANGED vars
  BY <1>5 DEF vars, data, tokens, prodVars, readVars, manager, ending
<1> QED
  BY StepsByOperation, <1>1, <1>2, <1>3, <1>4, <1>5

(* A signal or a token is there for the readers of the only position. *)
LEMMA SignalKept ==
  ASSUME CountsOK, PlacesOK, Lines, Stages, Brings, SignalOrToken, [Next]_vars
  PROVE  SignalOrToken'
<1> USE BlockingAssumption DEF CountsOK, Stages, SignalOrToken, OneCursor,
        Pending
<1>1. /\ tail \in Nat /\ gone \in Nat /\ gone <= tail /\ Depth \in Nat /\ Depth = tail - gone
      /\ enqTokens \in Nat /\ TokenCap \in Nat \ {0} /\ Cardinality(active) \in Nat
      /\ active # {} => Cardinality(active) > 0
      /\ \A x \in Producers : owed[x] \in Nat
  BY Numbers
<1>2. ASSUME NEW p \in Producers, Enqueuing(p)  PROVE SignalOrToken'
  <2>1. CASE TryEnqueue(p)
    BY <1>1, <2>1 DEF TryEnqueue, GoP, ReturnP, Fits, Depth, tokens, readVars,
      manager, ending, HasUnread, Passed
  <2>2. CASE CountSignals(p)
    <3>1. /\ UNCHANGED <<tail, gone, pos, enqTokens, rpc, crossed, shut, active, closed>>
          /\ \/ ReturnP(p) /\ Least(Cardinality(active), Depth) = 0
             \/ GoP(p, "send")
      BY <2>2 DEF CountSignals, data, tokens, readVars, manager, ending
    <3> SUFFICES ASSUME shut = {}, NEW r \in Readers, HasUnread(r)
                 PROVE  enqTokens > 0 \/ crossed # {} \/ \E x \in Producers : Pending(x)'
      BY <3>1 DEF HasUnread, Passed
    <3>2. Depth > 0
      BY <1>1, Numbers DEF HasUnread, Passed
    <3>3. Least(Cardinality(active), Depth) # 0
      BY <1>1, <3>2 DEF Least
    <3>4. ppc' = [ppc EXCEPT ![p] = "send"]
      BY <3>1, <3>3 DEF GoP
    <3> QED
      BY <3>4
  <2>3. CASE SendSignal(p)
    <3>1. CASE parkedR # <<>>
      <4>1. Head(parkedR) \in Readers
        <5>1. Head(parkedR) \in SleepingR
          BY <3>1, ServeLine DEF Lines
        <5> QED
          BY <5>1 DEF SleepingR
      <4>2. rpc'[Head(parkedR)] = "try"
        BY <3>1, <4>1, <2>3 DEF SendSignal
      <4> QED
        BY <4>1, <4>2
    <3>2. CASE parkedR = <<>>
      <4>1. enqTokens' = IF enqTokens < TokenCap THEN enqTokens + 1 ELSE enqTokens
        BY <3>2, <2>3 DEF SendSignal
      <4> QED
        BY <1>1, <4>1
    <3> QED
      BY <3>1, <3>2
  <2>4. CASE CallEnqueue(p) \/ SelectSpace(p) \/ CancelEnqueue(p)
    BY <1>1, <2>4, SMTT(30) DEF CallEnqueue, SelectSpace, CancelEnqueue, GoP, ReturnP, data,
      tokens, readVars, manager, ending, HasUnread, Passed
  <2> QED
    BY <1>2, <2>1, <2>2, <2>3, <2>4 DEF Enqueuing
<1>3. ASSUME NEW r \in Readers, Reading(r)  PROVE SignalOrToken'
  <2>1. CASE TryRead(r)
    <3>1. /\ UNCHANGED <<tail, gone, shut, closed>> /\ rpc[r] \in {"try", "more"}
          /\ \E s \in {"idle", "try", "more", "offer", "select"} : rpc' = [rpc EXCEPT ![r] = s]
      BY <2>1, TryReadSteps
    <3> SUFFICES ASSUME OneCursor, shut = {}, ~closed, rpc'[r] = "select",
                        NEW x \in Readers, HasUnread(x)'
                 PROVE  crossed' # {}
      BY <3>1 DEF OneCursor
    <3>2. ~Deliver(r)
      BY <3>1 DEF Deliver, Took, GoR, ReturnR
    <3>3. CASE Miss(r)
      <4>1. r \in InTryRead(CursorOf[r])
        BY <3>1 DEF InTryRead
      <4>2. rpc[r] = "try"
        BY <3>1, <3>3 DEF Miss, WentWithout, GoR, ReturnR
      <4> QED
        BY <3>3, <4>1, <4>2 DEF Miss
    <3>4. CASE FindNothing(r)
      <4>1. ~HasUnread(r) /\ pos' = pos
        BY <3>4 DEF FindNothing, Barred
      <4> QED
        BY <3>1, <4>1 DEF HasUnread, Passed
    <3> QED
      BY <2>1, <3>2, <3>3, <3>4 DEF TryRead
  <2>2. CASE SelectData(r)
    <3>1. UNCHANGED <<tail, gone, pos, ppc, shut, closed>> /\ rpc[r] = "select"
      BY <2>2 DEF SelectData, data, prodVars, manager, ending
    <3>2. CASE rpc'[r] \in {"try", "idle"}
      BY <3>2
    <3>3. CASE rpc'[r] \notin {"try", "idle"}
      <4>1. rpc' = [rpc EXCEPT ![r] = "parked"] /\ UNCHANGED <<enqTokens, crossed>>
        BY <2>2, <3>3 DEF SelectData, GoR, ReturnR
      <4>2. \A x \in Readers : rpc'[x] \in {"select", "parked"} => rpc[x] \in {"select", "parked"}
        BY <3>1, <4>1
      <4> QED
        BY <3>1, <4>1, <4>2 DEF HasUnread, Passed
    <3> QED
      BY <3>2, <3>3
  <2>3. CASE CallRead(r) \/ Receive(r) \/ CancelRead(r) \/ RemoveConsumer(r)
    BY <1>1, <2>3 DEF CallRead, Receive, CancelRead, RemoveConsumer, GoR, ReturnR,
      data, tokens, prodVars, readVars, manager, ending, HasUnread, Passed
  <2> QED
    BY <1>3, <2>1, <2>2, <2>3 DEF Reading
<1>4. CASE Sweeping
  <2>1. CASE Expire
    <3>1. /\ UNCHANGED <<tail, pos, enqTokens, rpc, ppc, shut, closed>> /\ crossed \subseteq crossed'
          /\ gone' \in Nat /\ gone <= gone'
      BY <1>1, <2>1 DEF Expire, tokens, prodVars, manager, ending
    <3>2. \A x \in Readers : HasUnread(x)' => HasUnread(x)
      BY <1>1, <3>1, Numbers DEF HasUnread, Passed
    <3> QED
      BY <3>1, <3>2
  <2>3. CASE (\E c \in Cursors : Correct(c)) \/ EndNotify
    <3>1. /\ UNCHANGED <<tail, gone, pos, enqTokens, rpc, ppc, shut, closed>>
          /\ crossed \subseteq crossed'
      BY <2>3 DEF Correct, EndNotify, data, tokens, prodVars, readVars, manager, ending
    <3> QED
      BY <3>1 DEF HasUnread, Passed
  <2>2. CASE FillDequeueNotify
    <3>1. UNCHANGED <<tail, gone, pos, enqTokens, rpc, crossed, shut, closed>>
      BY <2>2 DEF FillDequeueNotify, data, readVars, manager, ending
    <3>2. \A x \in Producers : Pending(x) => Pending(x)'
      <4>1. CASE parkedP # <<>>
        <5>1. Head(parkedP) \in SleepingP
          BY <4>1, ServeLine DEF Lines
        <5>2. ppc' = [ppc EXCEPT ![Head(parkedP)] = "try"]
          BY <4>1, <2>2 DEF FillDequeueNotify, GoP
        <5> QED
          BY <5>1, <5>2 DEF SleepingP
      <4>2. CASE parkedP = <<>>
        BY <4>2, <2>2 DEF FillDequeueNotify
      <4> QED
        BY <4>1, <4>2
    <3> QED
      BY <3>1, <3>2 DEF HasUnread, Passed
  <2> QED
    BY <1>4, <2>1, <2>2, <2>3 DEF Sweeping
<1>5. CASE Closing
  <2>1. CASE CloseStopChan
    <3>1. /\ UNCHANGED <<tail, gone, pos, enqTokens, shut, closed>>
          /\ rpc' = [x \in Readers |-> IF rpc[x] = "parked" THEN "idle" ELSE rpc[x]]
          /\ crossed' = {x \in crossed : rpc[x] # "parked"}
          /\ ppc' = [x \in Producers |-> IF ppc[x] = "parked" THEN "idle" ELSE ppc[x]]
      BY <2>1 DEF CloseStopChan, data, tokens, manager
    <3>2. CASE \E x \in Readers : rpc[x] = "parked"
      BY <3>1, <3>2
    <3>3. CASE \A x \in Readers : rpc[x] # "parked"
      <4>1. rpc' = rpc
        BY <3>1, <3>3
      <4>2. crossed \subseteq Readers => crossed' = crossed
        BY <3>1, <3>3
      <4> QED
        BY <3>1, <4>1, <4>2 DEF HasUnread, Passed, PlacesOK
    <3> QED
      BY <3>2, <3>3
  <2>2. CASE ClearData
    BY <1>1, <2>2 DEF ClearData, tokens, prodVars, readVars, manager, HasUnread,
      Passed
  <2>3. CASE SetClosed \/ CloseConsumers
    BY <1>1, <2>3 DEF SetClosed, CloseConsumers, data, tokens, prodVars, readVars,
      manager, HasUnread, Passed
  <2> QED
    BY <1>5, <2>1, <2>2, <2>3 DEF Closing
<1>6. CASE UNCHANGED vars
  BY <1>1, <1>6 DEF vars, data, tokens, prodVars, readVars, manager, ending,
    HasUnread, Passed
<1> QED
  BY StepsByOperation, <1>2, <1>3, <1>4, <1>5, <1>6

(* A sweep leaves a token for everyone who is about to look for one; each     *)
(* takes one, and nobody looks before its items did not fit.                  *)
LEMMA TokenKept ==
  ASSUME CountsOK, Lines, Stages, Brings, TokenEach, [Next]_vars
  PROVE  TokenEach'
<1> USE BlockingAssumption DEF CountsOK, TokenEach, Depth
<1>1. /\ tail \in Nat /\ gone \in Nat /\ gone <= tail /\ MaxItems \in Nat
      /\ TokenCap \in Nat \ {0} /\ deqTokens \in Nat /\ deqTokens <= TokenCap
      /\ \A n \in Needs : n \in Nat
      /\ \A x \in Producers : need[x] \in Nat
      /\ IsFiniteSet(Choosing) /\ Cardinality(Choosing) \in Nat
      /\ Cardinality(Choosing) <= Cardinality(Producers) /\ Cardinality(Producers) \in Nat
      /\ Alike => \A m, n \in Needs : m = n
  <2>1. IsFiniteSet(Choosing) /\ Cardinality(Choosing) <= Cardinality(Producers)
    BY BlockingAssumption, FS_Subset DEF Choosing
  <2>2. Cardinality(Choosing) \in Nat /\ Cardinality(Producers) \in Nat
    BY <2>1, BlockingAssumption, FS_CardinalityType
  <2>3. IsFiniteSet(Needs)
    <3>1. Needs \subseteq 1 .. MaxItems /\ MaxItems \in Int /\ 1 \in Int
      BY BlockingAssumption
    <3>2. IsFiniteSet(1 .. MaxItems)
      BY <3>1, FS_Interval
    <3> QED
      BY <3>1, <3>2, FS_Subset
  <2>4. Alike => \A m, n \in Needs : m = n
    BY <2>3, FS_Singleton DEF Alike
  <2>5. \A n \in Needs : n \in Nat
    BY BlockingAssumption
  <2> QED
    BY <2>1, <2>2, <2>4, <2>5, Numbers
<1>2. ASSUME NEW p \in Producers, Enqueuing(p)  PROVE TokenEach'
  <2>1. CASE TryEnqueue(p)
    <3>1. /\ UNCHANGED <<gone, deqTokens, sweeping, stopped>>
          /\ tail' \in Nat /\ tail <= tail' /\ gone' = gone
          /\ ppc'[p] # "select" \/ (tail' = tail /\ Depth + need[p] > MaxItems)
          /\ \A x \in Producers \ {p} : ppc'[x] = ppc[x]
      BY <1>1, <2>1 DEF TryEnqueue, Fits, GoP, ReturnP, tokens, ending
    <3>2. ppc[p] # "select" /\ need[p] \in Needs
      BY <2>1 DEF TryEnqueue, Brings
    <3>3. CASE ppc'[p] # "select"
      <4>1. Cardinality(Choosing') = Cardinality(Choosing)
        <5>1. Choosing' = Choosing
          BY <3>1, <3>2, <3>3 DEF Choosing
        <5> QED
          BY <5>1
      <4>2. ASSUME NEW n \in Needs, tail' - gone' + n <= MaxItems
            PROVE  tail - gone + n <= MaxItems
        <5>1. /\ n \in Nat /\ tail \in Nat /\ gone \in Nat /\ MaxItems \in Nat
              /\ tail' \in Nat /\ tail <= tail' /\ gone' = gone
          BY <1>1, <3>1
        <5>2. \A a, b, c, d, e \in Nat : a <= b /\ b - c + d <= e => a - c + d <= e
          OBVIOUS
        <5>3. tail' - gone + n <= MaxItems
          BY <4>2, <5>1
        <5> QED
          BY <5>1, <5>2, <5>3
      <4> QED
        BY <3>1, <4>1, <4>2
    <3>4. CASE tail' = tail /\ Depth + need[p] > MaxItems
      BY <1>1, <3>1, <3>2, <3>4
    <3> QED
      BY <3>1, <3>3, <3>4
  <2>2. CASE SelectSpace(p)
    <3>1. /\ UNCHANGED <<tail, gone, sweeping, stopped>>
          /\ deqTokens' = deqTokens \/ deqTokens' = deqTokens - 1
          /\ deqTokens' \in Nat
          /\ ppc[p] = "select" /\ ppc'[p] # "select"
          /\ \A x \in Producers \ {p} : ppc'[x] = ppc[x]
      BY <1>1, <2>2 DEF SelectSpace, GoP, ReturnP, data, ending
    <3>2. Choosing' = Choosing \ {p} /\ p \in Choosing
      BY <3>1 DEF Choosing
    <3>3. Cardinality(Choosing') = Cardinality(Choosing) - 1
      BY <1>1, <3>2, FS_RemoveElement
    <3> QED
      BY <1>1, <3>1, <3>3
  <2>3. CASE CountSignals(p)
    BY <1>1, <2>3 DEF CountSignals, GoP, ReturnP, Least, Depth, data, tokens,
      readVars, manager, ending, Choosing, Alike
  <2>4. CASE SendSignal(p)
    <3>1. /\ UNCHANGED <<tail, gone, deqTokens, sweeping, stopped>>
          /\ ppc[p] = "send" /\ (ppc' = ppc \/ ppc' = [ppc EXCEPT ![p] = "idle"])
      BY <2>4 DEF SendSignal, GoP, ReturnP, data, ending
    <3>2. Choosing' = Choosing
      BY <3>1 DEF Choosing
    <3> QED
      BY <3>1, <3>2
  <2>5. CASE CancelEnqueue(p)
    <3>1. UNCHANGED <<tail, gone, deqTokens, sweeping, stopped>>
      BY <2>5 DEF CancelEnqueue, data, tokens, ending
    <3>2. Choosing' \subseteq Choosing
      BY <2>5 DEF CancelEnqueue, GoP, ReturnP, Choosing
    <3>3. Cardinality(Choosing') <= Cardinality(Choosing) /\ Cardinality(Choosing') \in Nat
      BY <1>1, <3>2, FS_Subset, FS_CardinalityType
    <3> QED
      BY <1>1, <3>1, <3>3
  <2>6. CASE CallEnqueue(p)
    BY <1>1, <2>6 DEF CallEnqueue, GoP, data, tokens, readVars, manager, ending,
      Choosing, Alike
  <2> QED
    BY <1>2, <2>1, <2>2, <2>3, <2>4, <2>5, <2>6 DEF Enqueuing
<1>3. ASSUME NEW r \in Readers, Reading(r)  PROVE TokenEach'
  <2>1. UNCHANGED <<tail, gone, deqTokens, sweeping, stopped, ppc>>
    BY <1>3, TryReadSteps DEF Reading, CallRead, SelectData, Receive, CancelRead,
       RemoveConsumer, data, tokens, prodVars, ending
  <2> QED
    BY <2>1 DEF Choosing
<1>4. CASE Sweeping
  <2>1. CASE FillDequeueNotify
    <3>1. CASE parkedP # <<>>
      BY <3>1, <2>1 DEF FillDequeueNotify
    <3>2. CASE parkedP = <<>>
      <4>1. /\ deqTokens' = Least(deqTokens + 1, TokenCap)
            /\ sweeping' = (IF deqTokens < TokenCap THEN "fill" ELSE "no") /\ ppc' = ppc
        BY <3>2, <2>1 DEF FillDequeueNotify
      <4>2. CASE deqTokens < TokenCap
        BY <4>1, <4>2
      <4>3. CASE deqTokens = TokenCap
        <5>1. deqTokens' = TokenCap
          BY <1>1, <4>1, <4>3 DEF Least
        <5>2. Cardinality(Choosing') = Cardinality(Choosing)
          BY <4>1 DEF Choosing
        <5> QED
          BY <1>1, <5>1, <5>2 DEF Alike
      <4> QED
        BY <1>1, <4>2, <4>3
    <3> QED
      BY <3>1, <3>2
  <2>2. CASE Expire \/ (\E c \in Cursors : Correct(c)) \/ EndNotify
    <3>1. sweeping' # "no"
      BY <2>2 DEF Expire, Correct, EndNotify
    <3> QED
      BY <3>1
  <2> QED
    BY <1>4, <2>1, <2>2 DEF Sweeping
<1>5. CASE Closing
  <2>1. CASE SetClosed \/ CloseConsumers
    <3>1. UNCHANGED <<tail, gone, deqTokens, sweeping, stopped, ppc>>
      BY <2>1 DEF SetClosed, CloseConsumers, data, tokens, prodVars, ending
    <3> QED
      BY <3>1 DEF Choosing
  <2>2. CASE CloseStopChan \/ ClearData
    <3>1. stopped'
      BY <2>2 DEF CloseStopChan, ClearData, Stages
    <3> QED
      BY <3>1
  <2> QED
    BY <1>5, <2>1, <2>2 DEF Closing
<1>6. CASE UNCHANGED vars
  BY <1>1, <1>6 DEF vars, data, tokens, prodVars, readVars, manager, ending,
    Choosing, Alike
<1> QED
  BY StepsByOperation, <1>2, <1>3, <1>4, <1>5, <1>6

(* A producer parks only if its items do not fit or a sweep is on; a sweep    *)
(* does not end while one is parked.                                          *)
LEMMA SpaceKept ==
  ASSUME CountsOK, Lines, Stages, Brings, TokenEach, NoTokenWhileParked, SpaceIsComing,
         [Next]_vars
  PROVE  SpaceIsComing'
<1> USE BlockingAssumption DEF CountsOK, SpaceIsComing, Fits, Depth
<1>1. /\ tail \in Nat /\ gone \in Nat /\ gone <= tail /\ MaxItems \in Nat
      /\ TokenCap \in Nat \ {0} /\ deqTokens \in Nat /\ deqTokens <= TokenCap
      /\ \A n \in Needs : n \in Nat
      /\ \A x \in Producers : need[x] \in Nat
      /\ IsFiniteSet(Choosing) /\ Cardinality(Choosing) \in Nat
      /\ Cardinality(Choosing) <= Cardinality(Producers) /\ Cardinality(Producers) \in Nat
      /\ Alike => \A m, n \in Needs : m = n
  <2>1. IsFiniteSet(Choosing) /\ Cardinality(Choosing) <= Cardinality(Producers)
    BY BlockingAssumption, FS_Subset DEF Choosing
  <2>2. Cardinality(Choosing) \in Nat /\ Cardinality(Producers) \in Nat
    BY <2>1, BlockingAssumption, FS_CardinalityType
  <2>3. IsFiniteSet(Needs)
    <3>1. Needs \subseteq 1 .. MaxItems /\ MaxItems \in Int /\ 1 \in Int
      BY BlockingAssumption
    <3>2. IsFiniteSet(1 .. MaxItems)
      BY <3>1, FS_Interval
    <3> QED
      BY <3>1, <3>2, FS_Subset
  <2>4. Alike => \A m, n \in Needs : m = n
    BY <2>3, FS_Singleton DEF Alike
  <2>5. \A n \in Needs : n \in Nat
    BY BlockingAssumption
  <2> QED
    BY <2>1, <2>2, <2>4, <2>5, Numbers
<1>2. ASSUME NEW p \in Producers, Enqueuing(p)  PROVE SpaceIsComing'
  <2>1. CASE TryEnqueue(p)
    BY <1>1, <2>1 DEF TryEnqueue, GoP, ReturnP, Fits, Depth, tokens, readVars,
      manager, ending
  <2>2. CASE SelectSpace(p)
    <3>2. /\ UNCHANGED <<tail, gone, sweeping>>
          /\ \A x \in Producers \ {p} : ppc'[x] = ppc[x] /\ need'[x] = need[x]
          /\ ppc'[p] = "parked" => deqTokens = 0 /\ ~stopped /\ need'[p] = need[p]
      BY <2>2 DEF SelectSpace, GoP, ReturnP, data
    <3>3. ASSUME Alike, ppc'[p] = "parked", Depth + need[p] <= MaxItems
          PROVE  sweeping # "no"
      <4>1. p \in Choosing /\ need[p] \in Needs
        BY <2>2 DEF SelectSpace, Choosing, Brings
      <4>2. Cardinality(Choosing) # 0
        BY <1>1, <4>1, FS_EmptySet
      <4> QED
        BY <1>1, <3>2, <3>3, <4>1, <4>2 DEF TokenEach, Depth
    <3> QED
      BY <3>2, <3>3 DEF Alike
  <2>3. CASE CountSignals(p)
    BY <1>1, <2>3 DEF CountSignals, GoP, ReturnP, Least, Depth, data, tokens,
      readVars, manager, ending
  <2>4. CASE SendSignal(p)
    BY <1>1, <2>4 DEF SendSignal, GoP, ReturnP, data, manager, ending
  <2>5. CASE CancelEnqueue(p)
    BY <1>1, <2>5 DEF CancelEnqueue, GoP, ReturnP, data, tokens, readVars, manager,
      ending
  <2>6. CASE CallEnqueue(p)
    BY <1>1, <2>6 DEF CallEnqueue, GoP, data, tokens, readVars, manager, ending
  <2> QED
    BY <1>2, <2>1, <2>2, <2>3, <2>4, <2>5, <2>6 DEF Enqueuing
<1>3. ASSUME NEW r \in Readers, Reading(r)  PROVE SpaceIsComing'
  BY <1>1, <1>3, TryReadSteps DEF Reading, CallRead, SelectData, Receive, CancelRead,
    RemoveConsumer, GoR, ReturnR, data, tokens, prodVars, readVars, manager, ending
<1>4. CASE Sweeping
  <2>1. CASE FillDequeueNotify
    <3>1. CASE parkedP # <<>>
      BY <3>1, <2>1 DEF FillDequeueNotify
    <3>2. CASE parkedP = <<>>
      <4>1. SleepingP = {}
        BY <3>2, EmptyLine DEF Lines
      <4> QED
        BY <3>2, <4>1, <2>1 DEF FillDequeueNotify, SleepingP
    <3> QED
      BY <3>1, <3>2
  <2>2. CASE Expire \/ (\E c \in Cursors : Correct(c)) \/ EndNotify
    <3>1. sweeping' # "no"
      BY <2>2 DEF Expire, Correct, EndNotify
    <3> QED
      BY <3>1
  <2> QED
    BY <1>4, <2>1, <2>2 DEF Sweeping
<1>5. CASE Closing
  <2>1. CASE CloseStopChan
    BY <1>1, <2>1 DEF CloseStopChan, data, tokens, manager
  <2>2. CASE ClearData
    <3>1. SleepingP = {}
      BY <2>2, EmptyLine DEF ClearData, Stages, NoTokenWhileParked, Lines
    <3> QED
      BY <3>1, <2>2 DEF ClearData, prodVars, SleepingP
  <2>3. CASE SetClosed \/ CloseConsumers
    BY <1>1, <2>3 DEF SetClosed, CloseConsumers, data, tokens, prodVars, readVars,
      manager
  <2> QED
    BY <1>5, <2>1, <2>2, <2>3 DEF Closing
<1>6. CASE UNCHANGED vars
  BY <1>1, <1>6 DEF vars, data, tokens, prodVars, readVars, manager, ending
<1> QED
  BY StepsByOperation, <1>2, <1>3, <1>4, <1>5, <1>6

-----------------------------------------------------------------------------
(* The theorems *)

(* Nobody waits, and there is nothing to wait for. *)
LEMMA InitBlocking == Init => BlockingInv
<1> SUFFICES ASSUME Init  PROVE BlockingInv
  OBVIOUS
<1>1. Cardinality(Readers) \in Nat /\ Cardinality({}) = 0 /\ IsFiniteSet({})
  BY BlockingAssumption, FS_CardinalityType, FS_EmptySet
<1>2. CountsOK
  <2>1. tail = 0 /\ gone = 0 /\ 0 \in 0 .. 0 /\ 0 \in 0 .. TokenCap /\ 0 \in 0 .. Cardinality(Readers)
    BY <1>1, BlockingAssumption DEF Init
  <2>2. tail - gone <= MaxItems /\ Readers \subseteq Readers
    BY <2>1, BlockingAssumption
  <2>3. /\ ppc \in [Producers -> {"idle", "try", "select", "parked", "signal", "send"}]
        /\ need \in [Producers -> Needs \cup {0}]
        /\ owed \in [Producers -> 0 .. Cardinality(Readers)]
        /\ rpc \in [Readers -> {"idle", "try", "select", "parked", "more", "offer"}]
        /\ want \in [Readers -> Nat] /\ pos \in [Cursors -> 0 .. 0]
    BY <2>1 DEF Init
  <2>4. /\ enqTokens = 0 /\ deqTokens = 0 /\ sweeping = "no" /\ active = Readers /\ shut = {}
        /\ closed = FALSE /\ stopped = FALSE /\ stage = "open"
    BY DEF Init
  <2> QED
    BY <2>1, <2>2, <2>3, <2>4 DEF CountsOK, Depth
<1>3. SleepingP = {} /\ SleepingR = {} /\ Choosing = {}
  BY DEF Init, SleepingP, SleepingR, Choosing
<1>4. Lines
  BY <1>3, NoLine DEF Init, Lines
<1>5. TokenEach
  BY <1>1, <1>3 DEF Init, TokenEach
<1>6. Stages /\ Brings /\ NoTokenWhileParked /\ SpaceIsComing
  BY DEF Init, Stages, Brings, NoTokenWhileParked, SpaceIsComing
<1>8. PlacesOK
  BY DEF Init, PlacesOK
<1>7. SignalOrToken
  BY BlockingAssumption DEF Init, SignalOrToken, HasUnread, Passed
<1> QED
  BY <1>2, <1>4, <1>5, <1>6, <1>7, <1>8 DEF BlockingInv

(* Every step keeps all of it. *)
LEMMA KeepsBlocking == BlockingInv /\ [Next]_vars => BlockingInv'
<1>1. CountsOK /\ Lines /\ [Next]_vars => Lines'
  BY ProducersInLine, ReadersInLine DEF Lines
<1> QED
  BY <1>1, CountsKept, PlacesKept, StagesKept, BringsKept, NoTokenKept, SignalKept, TokenKept, SpaceKept
  DEF BlockingInv

(* In every behaviour. *)
LEMMA BlockingInvariant == Spec => []BlockingInv
BY InitBlocking, KeepsBlocking, PTL DEF Spec

(* When all readers of the only position are parked, what the channel holds  *)
(* is nothing, so a producer is on its way or a sweep crossed one of them.   *)
LEMMA SignalFromToken == BlockingInv => SignalIsComing
<1> SUFFICES ASSUME BlockingInv, OneCursor, shut = {}, ~closed,
                    \A r \in Readers : rpc[r] = "parked",
                    NEW r \in Readers, HasUnread(r)
             PROVE  crossed # {} \/ \E p \in Producers : Pending(p)
  BY DEF SignalIsComing
<1>1. parkedR # <<>>
  <2>1. r \in SleepingR
    BY DEF SleepingR
  <2> QED
    BY <2>1, EmptyLine DEF BlockingInv, Lines
<1>2. ~(enqTokens > 0)
  BY <1>1 DEF BlockingInv, NoTokenWhileParked
<1> QED
  BY <1>2 DEF BlockingInv, SignalOrToken

(* Counters, channels and places are well typed, no more items are held than *)
(* the limit, and the wait queues hold exactly who is parked                 *)
(* (queue.go:215, consumer.go:242).                                          *)
THEOREM BlockingTypes == Spec => []TypeOK
<1>1. BlockingInv => TypeOK
  BY DEF BlockingInv, Lines, IsLine, SleepingP, SleepingR, TypeOK
<1> QED
  BY <1>1, BlockingInvariant, PTL

(* No token is left in a channel while somebody is parked on it; the readers *)
(* of the only position never sleep on unread data unless a producer is      *)
(* about to signal (notify.go:21) or a sweep has crossed the last TryRead of *)
(* one of them, as when it found its chunk pooled (consumer.go:165,          *)
(* consumer_group.go:114); with equal needs and not more producers than      *)
(* tokens, none sleeps while its items fit but during the sweep that is      *)
(* waking them (queue.go:721).                                               *)
THEOREM WakeUpsAreDue == Spec => []NobodySleepsOn
<1>1. BlockingInv => NobodySleepsOn
  BY SignalFromToken DEF BlockingInv, NobodySleepsOn
<1> QED
  BY <1>1, BlockingInvariant, PTL
===============================================================================
