------------------------------- MODULE Blocking -------------------------------
(***************************************************************************)
(* Waiting: how Read and Enqueue block and are woken, through the two      *)
(* token channels of the queue, and how Close ends every wait.             *)
(*                                                                         *)
(* The storage is reduced to counters: items 1 .. tail were enqueued,      *)
(* items 1 .. gone have expired, a cursor has read or passed pos items.    *)
(* Chunks are left out but for what they do to a wait: a sweep removes the *)
(* chunk a cursor stands in (the cursor is adrift until the sweep comes to *)
(* correct it), and a TryRead that meets such a chunk returns nothing      *)
(* although there is something to read.  How it comes to that, step by     *)
(* step, is in Cursor.                                                     *)
(*                                                                         *)
(* A Go channel hands a value to a goroutine already waiting for it,       *)
(* longest waiting first, and buffers it only when nobody waits.  So a     *)
(* goroutine is "select" until it has looked at the channels and found     *)
(* nothing, and then parked, in a queue.                                   *)
(***************************************************************************)
EXTENDS Integers, Sequences, FiniteSets, SequencesExt

CONSTANTS
  Producers,   \* goroutines calling Enqueue, EnqueueBatch
  Readers,     \* goroutines calling Read, one Consumer each
  Cursors,     \* positions: one per independent consumer, one per group
  CursorOf,    \* the position each reader moves
  Groups,      \* the positions that are groups'
  Pipes,       \* readers that are goroutines of NativeChannel
  Needs,       \* sizes of the batches enqueued
  Wants,       \* limits of the batches read; 0: a read by predicate
  MaxItems,    \* QueueConfig.MaxItems
  TokenCap,    \* capacity of enqueueNotify and dequeueNotify (100 in the code)
  MaxTail,     \* bound: items ever enqueued
  MayRemove,   \* bound: are consumers removed?
  MayCancel,   \* bound: are contexts cancelled?
  MayClose     \* bound: is the queue closed?

ASSUME BlockingAssumption ==
  /\ IsFiniteSet(Producers) /\ IsFiniteSet(Readers)
  /\ CursorOf \in [Readers -> Cursors]
  /\ Pipes \subseteq Readers
  /\ Needs \subseteq 1 .. MaxItems
  /\ Wants \subseteq Nat
  /\ Groups \subseteq Cursors
  /\ \A r, s \in Readers : r # s /\ CursorOf[r] = CursorOf[s] => CursorOf[r] \in Groups
  /\ MaxItems \in Nat \ {0} /\ TokenCap \in Nat \ {0} /\ MaxTail \in Nat
  /\ MayRemove \in BOOLEAN /\ MayCancel \in BOOLEAN /\ MayClose \in BOOLEAN

VARIABLES
  tail, gone,      \* items enqueued, items expired
  pos,             \* items each cursor has read or passed
  placed,          \* cursors with a position (chunkElement is not nil)
  adrift,          \* those whose chunk the running sweep has removed
  enqTokens,       \* tokens buffered in enqueueNotify
  deqTokens,       \* tokens buffered in dequeueNotify
  ppc, need,       \* producers: where, and how many items they bring
  owed,            \* signals a producer has still to send
  rpc, want,       \* readers: where, and how many items they still want
  crossed,         \* readers whose TryRead, running or last, a sweep has crossed
  parkedP,         \* producers waiting on dequeueNotify
  parkedR,         \* readers waiting on enqueueNotify
  sweeping,        \* what a sweep is doing after its removals
  active,          \* readers whose Consumer the manager lists
  shut,            \* readers whose Consumer is closed
  closed,          \* q.closed
  stopped,         \* stopChan is closed
  stage            \* how far Close has come

places   == <<placed, adrift>>
data     == <<tail, gone, pos, places>>
tokens   == <<enqTokens, deqTokens>>
prodVars == <<ppc, need, owed>>
readVars == <<rpc, want, crossed>>
manager  == <<active, shut>>
ending   == <<closed, stopped, stage>>
vars == <<data, tokens, prodVars, readVars, parkedP, parkedR, sweeping, manager, ending>>

Depth   == tail - gone
Fits(p) == Depth + need[p] <= MaxItems
Passed(c) == IF pos[c] < gone THEN gone ELSE pos[c]
HasUnread(r) == Passed(CursorOf[r]) < tail

(* The readers of c that are in TryRead. *)
InTryRead(c) == {r \in Readers : CursorOf[r] = c /\ rpc[r] \in {"try", "more"}}
(* TryRead tests the consumer's closed, and for a member the queue's too.    *)
Barred(r) == r \in shut \/ (closed /\ CursorOf[r] \in Groups)

Least(a, b) == IF a < b THEN a ELSE b

CountsOK ==
  /\ tail \in Nat /\ gone \in 0 .. tail /\ Depth <= MaxItems
  /\ pos \in [Cursors -> 0 .. tail]
  /\ enqTokens \in 0 .. TokenCap /\ deqTokens \in 0 .. TokenCap
  /\ ppc \in [Producers -> {"idle", "try", "select", "parked", "signal", "send"}]
  /\ need \in [Producers -> Needs \cup {0}]
  /\ owed \in [Producers -> 0 .. Cardinality(Readers)]
  /\ rpc \in [Readers -> {"idle", "try", "select", "parked", "more", "offer"}]
  /\ want \in [Readers -> Nat]
  /\ sweeping \in {"no", "tell", "fill"}
  /\ active \subseteq Readers /\ shut \subseteq Readers
  /\ closed \in BOOLEAN /\ stopped \in BOOLEAN
  /\ stage \in {"open", "flag", "stop", "shut", "clear"}

PlacesOK ==
  /\ placed \subseteq Cursors
  /\ adrift \subseteq placed /\ (sweeping # "tell" => adrift = {})
  /\ crossed \subseteq {r \in Readers : rpc[r] \in {"try", "more", "select", "parked"}}

TypeOK ==
  /\ CountsOK /\ PlacesOK
  /\ ToSet(parkedP) = {p \in Producers : ppc[p] = "parked"}
  /\ ToSet(parkedR) = {r \in Readers : rpc[r] = "parked"}

Init ==
  /\ tail = 0 /\ gone = 0 /\ pos = [c \in Cursors |-> 0]
  /\ placed = {} /\ adrift = {} /\ crossed = {}
  /\ enqTokens = 0 /\ deqTokens = 0
  /\ ppc = [p \in Producers |-> "idle"]
  /\ need = [p \in Producers |-> 0]
  /\ owed = [p \in Producers |-> 0]
  /\ rpc = [r \in Readers |-> "idle"]
  /\ want = [r \in Readers |-> 0]
  /\ parkedP = <<>> /\ parkedR = <<>>
  /\ sweeping = "no"
  /\ active = Readers /\ shut = {}
  /\ closed = FALSE /\ stopped = FALSE /\ stage = "open"

-----------------------------------------------------------------------------
(* Enqueue and its batch and context forms *)

GoP(p, s) == ppc' = [ppc EXCEPT ![p] = s]
ReturnP(p) ==
  /\ GoP(p, "idle")
  /\ need' = [need EXCEPT ![p] = 0]
  /\ owed' = [owed EXCEPT ![p] = 0]

CallEnqueue(p) ==
  /\ ppc[p] = "idle"
  /\ ~closed
  /\ tail < MaxTail
  /\ GoP(p, "try")
  /\ \E n \in Needs : need' = [need EXCEPT ![p] = n]
  /\ UNCHANGED <<data, tokens, owed, readVars, parkedP, parkedR, sweeping, manager, ending>>

(* One turn of the loop, under q.mutex, which a sweep holds while it tells. *)
TryEnqueue(p) ==
  /\ ppc[p] = "try"
  /\ sweeping # "tell"
  /\ \/ closed /\ ReturnP(p) /\ UNCHANGED tail
     \/ /\ ~closed /\ Fits(p)
        /\ tail' = tail + need[p]
        /\ GoP(p, "signal")
        /\ UNCHANGED <<need, owed>>
     \/ /\ ~closed /\ ~Fits(p)
        /\ GoP(p, "select")
        /\ UNCHANGED <<tail, need, owed>>
  /\ UNCHANGED <<gone, pos, places, tokens, readVars, parkedP, parkedR, sweeping, manager, ending>>

(* Mutant: it sleeps without a look at the channels. *)
SelectSpaceBlind(p) ==
  /\ ppc[p] = "select"
  /\ parkedP' = Append(parkedP, p)
  /\ GoP(p, "parked")
  /\ UNCHANGED <<data, tokens, need, owed, readVars, parkedR, sweeping, manager, ending>>

(* select: with several channels ready any of them is taken. *)
SelectSpace(p) ==
  /\ ppc[p] = "select"
  /\ \/ deqTokens > 0 /\ deqTokens' = deqTokens - 1 /\ GoP(p, "try")
        /\ UNCHANGED <<need, owed, parkedP>>
     \/ stopped /\ ReturnP(p) /\ UNCHANGED <<deqTokens, parkedP>>
     \/ /\ deqTokens = 0 /\ ~stopped
        /\ parkedP' = Append(parkedP, p)
        /\ GoP(p, "parked")
        /\ UNCHANGED <<deqTokens, need, owed>>
  /\ UNCHANGED <<data, enqTokens, readVars, parkedR, sweeping, manager, ending>>

(* Mutant: a signal for every item, however few the consumers. *)
CountItems(p) ==
  /\ ppc[p] = "signal"
  /\ IF Depth = 0 THEN ReturnP(p)
     ELSE GoP(p, "send") /\ owed' = [owed EXCEPT ![p] = Depth] /\ UNCHANGED need
  /\ UNCHANGED <<data, tokens, readVars, parkedP, parkedR, sweeping, manager, ending>>

(* Mutant: the item just added is not counted. *)
CountSignalsLate(p) ==
  /\ ppc[p] = "signal"
  /\ LET n == Least(Cardinality(active), Depth - 1) IN
     IF n <= 0 THEN ReturnP(p)
     ELSE GoP(p, "send") /\ owed' = [owed EXCEPT ![p] = n] /\ UNCHANGED need
  /\ UNCHANGED <<data, tokens, readVars, parkedP, parkedR, sweeping, manager, ending>>

(* notifyWaitingConsumers: the consumers are counted, then the items. *)
CountSignals(p) ==
  /\ ppc[p] = "signal"
  /\ LET n == Least(Cardinality(active), Depth) IN
     IF n = 0 THEN ReturnP(p)
     ELSE GoP(p, "send") /\ owed' = [owed EXCEPT ![p] = n] /\ UNCHANGED need
  /\ UNCHANGED <<data, tokens, readVars, parkedP, parkedR, sweeping, manager, ending>>

(* A send that does not block; when it cannot be made, no more are tried. *)
SendSignal(p) ==
  LET sent == parkedR # <<>> \/ enqTokens < TokenCap IN
  /\ ppc[p] = "send"
  /\ IF parkedR # <<>>
       THEN /\ rpc' = [rpc EXCEPT ![Head(parkedR)] = "try"]
            /\ crossed' = crossed \ {Head(parkedR)}
            /\ parkedR' = Tail(parkedR)
            /\ UNCHANGED enqTokens
       ELSE /\ enqTokens' = IF sent THEN enqTokens + 1 ELSE enqTokens
            /\ UNCHANGED <<rpc, crossed, parkedR>>
  /\ IF ~sent \/ owed[p] = 1
       THEN ReturnP(p)
       ELSE owed' = [owed EXCEPT ![p] = @ - 1] /\ UNCHANGED <<ppc, need>>
  /\ UNCHANGED <<data, deqTokens, want, parkedP, sweeping, manager, ending>>

(* EnqueueWithContext: ctx is done while waiting, or before another try. *)
CancelEnqueue(p) ==
  /\ MayCancel
  /\ ppc[p] \in {"try", "select", "parked"}
  /\ ReturnP(p)
  /\ IF ppc[p] = "parked"
       THEN \E i \in DOMAIN parkedP : parkedP[i] = p /\ parkedP' = RemoveAt(parkedP, i)
       ELSE UNCHANGED parkedP
  /\ UNCHANGED <<data, tokens, readVars, parkedR, sweeping, manager, ending>>

-----------------------------------------------------------------------------
(* Read and its batch, predicate and context forms, and NativeChannel *)

GoR(r, s) == rpc' = [rpc EXCEPT ![r] = s]
ReturnR(r) == GoR(r, "idle") /\ want' = [want EXCEPT ![r] = 0]

(* A read that blocks begins at "try", one that does not at "more".  Members *)
(* of a group are refused a predicate.                                       *)
CallRead(r) ==
  /\ rpc[r] = "idle"
  /\ ~stopped
  /\ \E n \in IF r \in Pipes THEN {1} ELSE Wants :
       /\ n # 0 \/ CursorOf[r] \notin Groups
       /\ want' = [want EXCEPT ![r] = n]
  /\ IF r \in Pipes THEN GoR(r, "try") ELSE \E s \in {"try", "more"} : GoR(r, s)
  /\ UNCHANGED <<data, tokens, prodVars, crossed, parkedP, parkedR, sweeping, manager, ending>>

(* An item was read: it is the last one wanted, one more of a batch, not the *)
(* one looked for, or handed to the pipe.                                    *)
Took(r) ==
  \/ want[r] = 1 /\ r \in Pipes /\ GoR(r, "offer") /\ UNCHANGED want
  \/ want[r] = 1 /\ r \notin Pipes /\ ReturnR(r)
  \/ want[r] > 1 /\ GoR(r, "more") /\ want' = [want EXCEPT ![r] = @ - 1]
  \/ want[r] = 0 /\ (ReturnR(r) \/ UNCHANGED <<rpc, want>>)

(* TryRead returned nil: a Read goes to its select, other calls return. *)
WentWithout(r) ==
  IF rpc[r] = "try" THEN GoR(r, "select") /\ UNCHANGED want ELSE ReturnR(r)

(* The item is copied, and a cursor without position placed, under q.mutex. *)
Deliver(r) ==
  /\ ~Barred(r) /\ HasUnread(r)
  /\ sweeping # "tell"
  /\ pos' = [pos EXCEPT ![CursorOf[r]] = Passed(CursorOf[r]) + 1]
  /\ placed' = placed \cup {CursorOf[r]}
  /\ Took(r)
  /\ crossed' = crossed \ {r}
  /\ UNCHANGED adrift

FindNothing(r) ==
  /\ \/ Barred(r)
     \/ ~HasUnread(r) /\ (sweeping # "tell" \/ CursorOf[r] \in placed)
  /\ WentWithout(r)
  /\ crossed' = crossed \ {r}
  /\ UNCHANGED <<pos, places>>

(* The chunk at hand turns out to be pooled: nil, whatever there is to read. *)
(* It is the cursor's, and the position is reset, or one that was the front  *)
(* or the cursor's when a TryRead still running began.  What this one leaves *)
(* behind, the others in TryRead at the same cursor may trip over too.       *)
Miss(r) ==
  LET c == CursorOf[r] IN
  /\ ~Barred(r) /\ HasUnread(r)
  /\ \/ /\ c \in adrift
        /\ placed' = placed \ {c} /\ adrift' = adrift \ {c}
     \/ InTryRead(c) \cap crossed # {} /\ UNCHANGED places
  /\ WentWithout(r)
  /\ crossed' = (crossed \cup InTryRead(c)) \ (IF rpc[r] = "try" THEN {} ELSE {r})
  /\ UNCHANGED pos

TryRead(r) ==
  /\ rpc[r] \in {"try", "more"}
  /\ Deliver(r) \/ FindNothing(r) \/ Miss(r)
  /\ UNCHANGED <<tail, gone, tokens, prodVars, parkedP, parkedR, sweeping, manager, ending>>

(* Mutant: it sleeps without a look at the channels. *)
SelectDataBlind(r) ==
  /\ rpc[r] = "select"
  /\ parkedR' = Append(parkedR, r)
  /\ GoR(r, "parked")
  /\ UNCHANGED <<data, tokens, prodVars, want, crossed, parkedP, sweeping, manager, ending>>

SelectData(r) ==
  /\ rpc[r] = "select"
  /\ \/ /\ enqTokens > 0 /\ enqTokens' = enqTokens - 1
        /\ GoR(r, "try") /\ crossed' = crossed \ {r}
        /\ UNCHANGED <<want, parkedR>>
     \/ /\ stopped
        /\ ReturnR(r) /\ crossed' = crossed \ {r}
        /\ UNCHANGED <<enqTokens, parkedR>>
     \/ /\ enqTokens = 0 /\ ~stopped
        /\ parkedR' = Append(parkedR, r)
        /\ GoR(r, "parked")
        /\ UNCHANGED <<enqTokens, want, crossed>>
  /\ UNCHANGED <<data, deqTokens, prodVars, parkedP, sweeping, manager, ending>>

(* The application takes what NativeChannel offers, some time or never. *)
Receive(r) ==
  /\ rpc[r] = "offer"
  /\ GoR(r, "try")
  /\ UNCHANGED <<data, tokens, prodVars, want, crossed, parkedP, parkedR, sweeping, manager, ending>>

CancelRead(r) ==
  /\ MayCancel
  /\ r \notin Pipes
  /\ rpc[r] \in {"try", "select", "parked", "more"}
  /\ ReturnR(r)
  /\ crossed' = crossed \ {r}
  /\ IF rpc[r] = "parked"
       THEN \E i \in DOMAIN parkedR : parkedR[i] = r /\ parkedR' = RemoveAt(parkedR, i)
       ELSE UNCHANGED parkedR
  /\ UNCHANGED <<data, tokens, prodVars, parkedP, sweeping, manager, ending>>

-----------------------------------------------------------------------------
(* cleanupExpiredItems: the oldest items go and with them the chunks that    *)
(* are empty; then, still under q.mutex, the cursors are told and corrected; *)
(* then dequeueNotify is filled.  The sweeps are the worker's.               *)
(* ForceExpiration makes the same in a goroutine of its caller, which Close  *)
(* does not wait for.                                                        *)

(* Any chunk without an item left may have been removed, all of them if none *)
(* has one: not only the chunks cursors stand in, but those that a TryRead   *)
(* has loaded as the front or copied from a position that others move.       *)
Expire ==
  /\ sweeping = "no"
  /\ stage \in {"open", "flag", "stop"}
  /\ \E n \in gone + 1 .. tail :
       /\ gone' = n
       /\ adrift' \in SUBSET {c \in Cursors : pos[c] <= n /\ (c \in placed \/ InTryRead(c) # {})}
       /\ n = tail => placed \subseteq adrift'
  /\ placed' = placed \cup adrift'
  /\ crossed' = crossed \cup UNION {InTryRead(c) : c \in (Cursors \ placed) \cup Groups}
  /\ sweeping' = "tell"
  /\ UNCHANGED <<tail, pos, tokens, prodVars, rpc, want, parkedP, parkedR, manager, ending>>

(* UpdatePositionAfterExpiration: to the new front, or nowhere. *)
Correct(c) ==
  /\ sweeping = "tell"
  /\ c \in adrift
  /\ adrift' = adrift \ {c}
  /\ placed' = IF gone = tail THEN placed \ {c} ELSE placed
  /\ crossed' = crossed \cup InTryRead(c)
  /\ UNCHANGED <<tail, gone, pos, tokens, prodVars, rpc, want, parkedP, parkedR, sweeping, manager, ending>>

(* All are told and q.mutex is released. *)
EndNotify ==
  /\ sweeping = "tell" /\ adrift = {}
  /\ sweeping' = "fill"
  /\ UNCHANGED <<data, tokens, prodVars, readVars, parkedP, parkedR, manager, ending>>

(* Mutant: one token per sweep, not one per waiting producer. *)
FillOnce ==
  /\ sweeping = "fill"
  /\ sweeping' = "no"
  /\ IF parkedP # <<>>
       THEN GoP(Head(parkedP), "try") /\ parkedP' = Tail(parkedP) /\ UNCHANGED deqTokens
       ELSE deqTokens' = Least(deqTokens + 1, TokenCap) /\ UNCHANGED <<ppc, parkedP>>
  /\ UNCHANGED <<data, enqTokens, need, owed, readVars, parkedR, manager, ending>>

(* Mutant: the send has no default case, so it blocks on a full channel. *)
FillBlocking ==
  /\ sweeping = "fill"
  /\ IF parkedP # <<>>
       THEN GoP(Head(parkedP), "try") /\ parkedP' = Tail(parkedP) /\ UNCHANGED deqTokens
       ELSE deqTokens' = Least(deqTokens + 1, TokenCap) /\ UNCHANGED <<ppc, parkedP>>
  /\ UNCHANGED <<data, enqTokens, need, owed, readVars, parkedR, sweeping, manager, ending>>

(* Sends that do not block, until one cannot be made. *)
FillDequeueNotify ==
  /\ sweeping = "fill"
  /\ IF parkedP # <<>>
       THEN /\ GoP(Head(parkedP), "try")
            /\ parkedP' = Tail(parkedP)
            /\ UNCHANGED <<deqTokens, sweeping>>
       ELSE /\ deqTokens' = Least(deqTokens + 1, TokenCap)
            /\ sweeping' = IF deqTokens < TokenCap THEN "fill" ELSE "no"
            /\ UNCHANGED <<ppc, parkedP>>
  /\ UNCHANGED <<data, enqTokens, need, owed, readVars, parkedR, manager, ending>>

-----------------------------------------------------------------------------
(* RemoveConsumer and Close *)

RemoveConsumer(r) ==
  /\ MayRemove
  /\ r \in active
  /\ active' = active \ {r}
  /\ shut' = shut \cup {r}
  /\ UNCHANGED <<data, tokens, prodVars, readVars, parkedP, parkedR, sweeping, ending>>

SetClosed ==
  /\ MayClose /\ stage = "open"
  /\ closed' = TRUE /\ stage' = "flag"
  /\ UNCHANGED <<data, tokens, prodVars, readVars, parkedP, parkedR, sweeping, manager, stopped>>

(* close(stopChan) wakes everyone parked; all of them return. *)
CloseStopChan ==
  /\ stage = "flag"
  /\ stopped' = TRUE /\ stage' = "stop"
  /\ ppc' = [p \in Producers |-> IF ppc[p] = "parked" THEN "idle" ELSE ppc[p]]
  /\ need' = [p \in Producers |-> IF ppc[p] = "parked" THEN 0 ELSE need[p]]
  /\ rpc' = [r \in Readers |-> IF rpc[r] = "parked" THEN "idle" ELSE rpc[r]]
  /\ want' = [r \in Readers |-> IF rpc[r] = "parked" THEN 0 ELSE want[r]]
  /\ crossed' = {r \in crossed : rpc[r] # "parked"}
  /\ parkedP' = <<>> /\ parkedR' = <<>>
  /\ UNCHANGED <<data, tokens, owed, sweeping, manager, closed>>

(* wg.Wait for the expiration worker, then the consumers are closed. *)
CloseConsumers ==
  /\ stage = "stop" /\ sweeping = "no"
  /\ stage' = "shut" /\ shut' = shut \cup active
  /\ UNCHANGED <<data, tokens, prodVars, readVars, parkedP, parkedR, sweeping, active, closed, stopped>>

ClearData ==
  /\ stage = "shut"
  /\ stage' = "clear" /\ gone' = tail
  /\ UNCHANGED <<tail, pos, places, tokens, prodVars, readVars, parkedP, parkedR, sweeping, manager, closed, stopped>>

-----------------------------------------------------------------------------

ProducerStep(p) == TryEnqueue(p) \/ SelectSpace(p) \/ CountSignals(p) \/ SendSignal(p)
ReaderStep(r)   == TryRead(r) \/ SelectData(r)
SweepStep       == (\E c \in Cursors : Correct(c)) \/ EndNotify \/ FillDequeueNotify
CloseStep       == CloseStopChan \/ CloseConsumers \/ ClearData

Next ==
  \/ \E p \in Producers : CallEnqueue(p) \/ ProducerStep(p) \/ CancelEnqueue(p)
  \/ \E r \in Readers : CallRead(r) \/ ReaderStep(r) \/ Receive(r)
                          \/ CancelRead(r) \/ RemoveConsumer(r)
  \/ Expire \/ SweepStep \/ SetClosed \/ CloseStep

Spec == Init /\ [][Next]_vars

(* Every goroutine that can run does.  Nothing is assumed of when operations *)
(* are called, of cancellation, removal or expiration.                       *)
Fairness ==
  /\ \A p \in Producers : WF_vars(ProducerStep(p))
  /\ \A r \in Readers : WF_vars(ReaderStep(r))
  /\ WF_vars(SweepStep)
  /\ WF_vars(CloseStep)

FairSpec == Spec /\ Fairness

-----------------------------------------------------------------------------
(* Properties *)

(* A goroutine is parked only while there is no token for it to take and     *)
(* stopChan is open (the selects of queue.go:215 and consumer.go:242).       *)
NoTokenWhileParked ==
  /\ parkedR # <<>> => enqTokens = 0
  /\ parkedP # <<>> => deqTokens = 0
  /\ stopped => parkedR = <<>> /\ parkedP = <<>>

OneCursor  == \A r, s \in Readers : CursorOf[r] = CursorOf[s]
Pending(p) == ppc[p] \in {"signal", "send"}

(* When a consumer, or a group, is the only one, its readers do not sleep on *)
(* unread data unless a producer is about to signal (notify.go:21) or a      *)
(* sweep has crossed the last TryRead of one of them: a signal is lost only  *)
(* to readers of other positions, to removed ones, or to a pooled chunk      *)
(* (consumer.go:165, consumer_group.go:114).                                 *)
SignalIsComing ==
  OneCursor /\ shut = {} /\ ~closed /\ (\A r \in Readers : rpc[r] = "parked") /\ (\E r \in Readers : HasUnread(r))
    => crossed # {} \/ \E p \in Producers : Pending(p)

(* When no producer brings more items than another, and there are not more   *)
(* producers than tokens, none sleeps while its items fit but during the     *)
(* sweep that is waking them (queue.go:721).                                 *)
SpaceIsComing ==
  Cardinality(Needs) = 1 /\ Cardinality(Producers) <= TokenCap
    => \A p \in Producers : ppc[p] = "parked" /\ Fits(p) => sweeping # "no"

(* Nobody sleeps on what has already happened. *)
NobodySleepsOn == NoTokenWhileParked /\ SignalIsComing /\ SpaceIsComing

(* Read blocks until data is available (consumer.go:233): a reader parked    *)
(* with data unread is woken, or the data goes.  False of the code, with two *)
(* consumers and with one.                                                   *)
ReadAlwaysWakes ==
  \A r \in Readers :
    rpc[r] = "parked" /\ HasUnread(r) /\ r \notin shut
      ~> rpc[r] # "parked" \/ ~HasUnread(r) \/ r \in shut

(* What is left of it for the one consumer of a queue (notify.go:5): it is   *)
(* so of every reader that does not sleep because a sweep, by removing the   *)
(* chunk under its TryRead, made it return nil.                              *)
ReadWakes ==
  \A r \in Readers :
    rpc[r] = "parked" /\ HasUnread(r) /\ r \notin shut \cup crossed
      ~> rpc[r] # "parked" \/ ~HasUnread(r) \/ r \in shut

(* What the members of a group have not read does not stay unread while all  *)
(* of them are blocked in Read (notify.go:21), none of them because of a     *)
(* sweep as in ReadWakes, unless one is removed: RemoveConsumer does not     *)
(* wake it, and the signal it takes next is lost to the others.              *)
CursorMoves ==
  \A c \in Cursors :
    Passed(c) < tail /\ (\A r \in Readers : CursorOf[r] = c => rpc[r] = "parked" /\ r \notin crossed)
      ~> \/ Passed(c) = tail
         \/ \E r \in Readers : CursorOf[r] = c /\ (rpc[r] # "parked" \/ r \in shut)

(* A producer blocked in Enqueue does not sleep on while there is space for  *)
(* its items (queue.go:178 and :721), if all producers bring as many items   *)
(* and there are not more of them than tokens, as in SpaceIsComing: one that *)
(* cannot use the tokens could take those another is about to look for.      *)
EnqueueWakes ==
  \A p \in Producers :
    ppc[p] = "parked" /\ Fits(p) ~> ppc[p] # "parked" \/ ~Fits(p)

(* Close ends every wait: once stopChan is closed, all calls return          *)
(* (queue.go:645, the stopChan cases of every select), and the goroutine of  *)
(* NativeChannel unless nobody takes what it offers (consumer.go:577).       *)
CloseEndsWaits ==
  stopped ~> /\ \A p \in Producers : ppc[p] = "idle"
             /\ \A r \in Readers : rpc[r] \in {"idle", "offer"}

(* Close itself returns, whatever the others are doing (queue.go:639).       *)
CloseReturns == closed ~> stage = "clear"
===============================================================================
