------------------------------- MODULE Registry -------------------------------
(***************************************************************************)
(* The life of consumers and groups: ConsumerManager's maps and its        *)
(* lock-free snapshot, adding, removing, evicting, and Close, with the     *)
(* mutexes they take: q.mutex, the manager's, a consumer's.                *)
(*                                                                         *)
(* A consumer's or group's mutex is a leaf: nothing is waited for under    *)
(* it.  Its critical sections are single actions, but for the one that     *)
(* tests closed and then sends, which NoSendOnClosed is about.  The        *)
(* positions that a sweep corrects are in Cursor, what it removes is in    *)
(* ChunkStore.                                                             *)
(***************************************************************************)
EXTENDS Integers, FiniteSets

CONSTANTS
  Callers,     \* goroutines of the application
  Worker,      \* the expiration worker
  Consumers,   \* consumers that can ever be made
  Groups,      \* groups that can ever be made
  Names,       \* names groups are asked for by
  Evicts,      \* is ConsumerEvictionTimeout positive?
  None         \* no thread, consumer or group

ASSUME RegistryAssumption ==
  /\ Worker \notin Callers
  /\ None \notin Callers \cup {Worker} \cup Consumers \cup Groups
  /\ Consumers \cap Groups = {}
  /\ Evicts \in BOOLEAN

Threads == Callers \cup {Worker}

VARIABLES
  made,        \* consumers and groups made so far
  groupOf,     \* Consumer.group
  listed,      \* cm.consumers
  named,       \* cm.groups
  active,      \* cm.activeConsumers, read without a lock
  shut,        \* consumers and groups that are closed, with their channel
  recent,      \* consumers that read, or were made, within the timeout
  qWriter, qReaders,     \* who holds q.mutex
  cmWriter, cmReaders,   \* who holds cm.mutex
  cHolder,     \* the sweep that holds a consumer's mutex
  visit,       \* consumers the holder of cm.mutex has still to visit
  stale,       \* consumers whose last read is before CleanInactive's now
  removed,     \* has this CleanInactive removed any?
  left,        \* consumers Close has still to close
  stage,       \* how far Close has come
  late,        \* history: consumers made after Close took its snapshot
  orphans,     \* history: consumers added to a group already closed
  pc, arg      \* where each thread is, and with which consumer or group

mapVars  == <<made, groupOf, listed, named, active>>
lockVars == <<qWriter, qReaders, cmWriter, cmReaders, cHolder>>
scanVars == <<visit, stale, removed>>
endVars  == <<left, stage>>
histVars == <<late, orphans>>
vars == <<mapVars, shut, recent, lockVars, scanVars, endVars, histVars, pc, arg>>

TypeOK ==
  /\ made \subseteq Consumers \cup Groups
  /\ groupOf \in [Consumers -> Groups \cup {None}]
  /\ listed \subseteq made \cap Consumers
  /\ named \in [Names -> Groups \cup {None}]
  /\ active \subseteq made \cap Consumers
  /\ shut \subseteq made
  /\ recent \subseteq Consumers
  /\ qWriter \in Threads \cup {None} /\ qReaders \subseteq Threads
  /\ cmWriter \in Threads \cup {None} /\ cmReaders \subseteq Threads
  /\ qWriter # None => qReaders = {}
  /\ cmWriter # None => cmReaders = {}
  /\ cHolder \in [Consumers -> Threads \cup {None}]
  /\ visit \subseteq Consumers /\ stale \subseteq Consumers /\ left \subseteq Consumers
  /\ removed \in BOOLEAN
  /\ stage \in {"open", "stopped", "shut", "done"}
  /\ late \subseteq Consumers /\ orphans \subseteq Consumers
  /\ pc \in [Threads -> {"idle", "add", "join", "drop", "clean", "look", "evict",
                         "sweep", "tell", "send", "wait", "shut", "clear", "exited"}]
  /\ arg \in [Threads -> Consumers \cup Groups \cup {None}]

Init ==
  /\ made = {} /\ listed = {} /\ active = {} /\ shut = {} /\ recent = {}
  /\ groupOf = [c \in Consumers |-> None]
  /\ named = [n \in Names |-> None]
  /\ qWriter = None /\ qReaders = {} /\ cmWriter = None /\ cmReaders = {}
  /\ cHolder = [c \in Consumers |-> None]
  /\ visit = {} /\ stale = {} /\ removed = FALSE /\ left = {}
  /\ stage = "open"
  /\ late = {} /\ orphans = {}
  /\ pc = [t \in Threads |-> "idle"]
  /\ arg = [t \in Threads |-> None]

-----------------------------------------------------------------------------
(* Mutexes *)

(* RLock. Mutant of QFree: RLock where Lock is needed. *)
QShared  == qWriter = None
CmShared == cmWriter = None
(* Lock *)
QFree    == qWriter = None /\ qReaders = {}
CmFree   == cmWriter = None /\ cmReaders = {}

At(t, s)  == pc[t] = s
Go(t, s)  == pc' = [pc EXCEPT ![t] = s]
With(t, x) == arg' = [arg EXCEPT ![t] = x]
Calls(t)  == t \in Callers /\ At(t, "idle")

(* Mutant: the consumer's mutex is not taken. *)
CanShutAnyway(c) == TRUE
(* Close of a consumer waits for a send in progress under its mutex. *)
CanShut(c) == cHolder[c] = None

-----------------------------------------------------------------------------
(* Adding *)

(* Mutant: the snapshot is not updated. *)
EnlistQuietly(c, g) ==
  /\ made' = made \cup {c}
  /\ groupOf' = [groupOf EXCEPT ![c] = g]
  /\ listed' = listed \cup {c}
  /\ recent' = recent \cup {c}
  /\ late' = IF stage \in {"shut", "done"} THEN late \cup {c} ELSE late
  /\ orphans' = IF g \in shut THEN orphans \cup {c} ELSE orphans
  /\ UNCHANGED <<named, shut, active>>

(* NewConsumer, put in the map and the snapshot; its lastReadTime is now. *)
Enlist(c, g) ==
  /\ made' = made \cup {c}
  /\ groupOf' = [groupOf EXCEPT ![c] = g]
  /\ listed' = listed \cup {c}
  /\ active' = listed \cup {c}
  /\ recent' = recent \cup {c}
  /\ late' = IF stage \in {"shut", "done"} THEN late \cup {c} ELSE late
  /\ orphans' = IF g \in shut THEN orphans \cup {c} ELSE orphans
  /\ UNCHANGED <<named, shut>>

Fresh == Consumers \ made

(* Mutant: cm.mutex is taken before q.mutex. *)
AddConsumerCmFirst(t) ==
  \/ /\ Calls(t) /\ Fresh # {} /\ CmFree
     /\ cmWriter' = t
     /\ Go(t, "add")
     /\ UNCHANGED <<mapVars, shut, recent, qWriter, qReaders, cmReaders, cHolder, scanVars, endVars, histVars, arg>>
  \/ /\ At(t, "add") /\ QShared
     /\ \E c \in Fresh : Enlist(c, None)
     /\ cmWriter' = None
     /\ Go(t, "idle")
     /\ UNCHANGED <<qWriter, qReaders, cmReaders, cHolder, scanVars, endVars, arg>>

(* q.mutex shared, then cm.mutex. *)
AddConsumer(t) ==
  \/ /\ Calls(t) /\ Fresh # {} /\ QShared
     /\ qReaders' = qReaders \cup {t}
     /\ Go(t, "add")
     /\ UNCHANGED <<mapVars, shut, recent, qWriter, cmWriter, cmReaders, cHolder, scanVars, endVars, histVars, arg>>
  \/ /\ At(t, "add") /\ CmFree
     /\ IF Fresh = {} THEN UNCHANGED <<mapVars, shut, recent, histVars>>
        ELSE \E c \in Fresh : Enlist(c, None)
     /\ qReaders' = qReaders \ {t}
     /\ Go(t, "idle")
     /\ UNCHANGED <<qWriter, cmWriter, cmReaders, cHolder, scanVars, endVars, arg>>

(* A group that exists is returned as it is. *)
AddGroup(t) ==
  /\ Calls(t) /\ CmFree
  /\ \E n \in Names : \E g \in Groups \ made :
       /\ named[n] = None
       /\ named' = [named EXCEPT ![n] = g]
       /\ made' = made \cup {g}
  /\ UNCHANGED <<groupOf, listed, active, shut, recent, lockVars, scanVars, endVars, histVars, pc, arg>>

(* ConsumerGroup.AddConsumer: closed is tested with no lock.  The caller may *)
(* still hold a group that was removed.                                      *)
TestGroupOpen(t) ==
  /\ Calls(t)
  /\ \E g \in (made \cap Groups) \ shut : With(t, g)
  /\ Go(t, "join")
  /\ UNCHANGED <<mapVars, shut, recent, lockVars, scanVars, endVars, histVars>>

AddConsumerToGroup(t) ==
  /\ At(t, "join") /\ CmFree
  /\ IF Fresh = {} THEN UNCHANGED <<mapVars, shut, recent, histVars>>
     ELSE \E c \in Fresh : Enlist(c, arg[t])
  /\ Go(t, "idle") /\ With(t, None)
  /\ UNCHANGED <<lockVars, scanVars, endVars>>

-----------------------------------------------------------------------------
(* Removing *)

RemoveConsumer(t) ==
  /\ Calls(t) /\ CmFree
  /\ \E c \in listed :
       /\ CanShut(c)
       /\ shut' = shut \cup {c}
       /\ listed' = listed \ {c}
       /\ active' = listed \ {c}
  /\ UNCHANGED <<made, groupOf, named, recent, lockVars, scanVars, endVars, histVars, pc, arg>>

Members(g) == {c \in listed : groupOf[c] = g}

BeginRemoveGroup(t) ==
  /\ Calls(t) /\ CmFree
  /\ \E n \in Names :
       /\ named[n] # None
       /\ With(t, named[n])
       /\ visit' = Members(named[n])
  /\ cmWriter' = t
  /\ Go(t, "drop")
  /\ UNCHANGED <<mapVars, shut, recent, qWriter, qReaders, cmReaders, cHolder, stale, removed, endVars, histVars>>

(* Mutant: deleted from the map, not closed. *)
UnlistOpen(c) ==
  /\ listed' = listed \ {c}
  /\ UNCHANGED shut

Unlist(c) ==
  /\ shut' = shut \cup {c}
  /\ listed' = listed \ {c}

RemoveMember(t) ==
  /\ At(t, "drop")
  /\ \E c \in visit :
       /\ CanShut(c)
       /\ Unlist(c)
       /\ visit' = visit \ {c}
  /\ UNCHANGED <<made, groupOf, named, active, recent, lockVars, stale, removed, endVars, histVars, pc, arg>>

Forget(G) == named' = [n \in Names |-> IF named[n] \in G THEN None ELSE named[n]]

EndRemoveGroup(t) ==
  /\ At(t, "drop") /\ visit = {}
  /\ shut' = shut \cup {arg[t]}
  /\ Forget({arg[t]})
  /\ active' = listed
  /\ cmWriter' = None
  /\ Go(t, "idle") /\ With(t, None)
  /\ UNCHANGED <<made, groupOf, listed, recent, qWriter, qReaders, cmReaders, cHolder, scanVars, endVars, histVars>>

-----------------------------------------------------------------------------
(* CleanInactive: the application's, or the worker's after each sweep *)

(* A read, or the time since the last one reaching the timeout. *)
Touch(c) ==
  /\ c \in listed \ shut
  /\ c \notin recent \/ c \in stale
  /\ recent' = recent \cup {c}
  /\ stale' = stale \ {c}
  /\ UNCHANGED <<mapVars, shut, lockVars, visit, removed, endVars, histVars, pc, arg>>

Age(c) ==
  /\ c \in listed \cap recent
  /\ recent' = recent \ {c}
  /\ UNCHANGED <<mapVars, shut, lockVars, scanVars, endVars, histVars, pc, arg>>

BeginClean(t) ==
  /\ Calls(t) \/ At(t, "clean") \/ (t = Worker /\ Evicts /\ At(t, "idle"))
  /\ CmFree
  /\ cmWriter' = t
  /\ visit' = listed
  /\ stale' = listed \ recent
  /\ removed' = FALSE
  /\ Go(t, "look")
  /\ UNCHANGED <<mapVars, shut, recent, qWriter, qReaders, cmReaders, cHolder, endVars, histVars, arg>>

(* lastReadTime is read under the consumer's mutex; it is closed after that. *)
LookAt(t) ==
  /\ At(t, "look")
  /\ \E c \in visit :
       /\ CanShut(c)
       /\ visit' = visit \ {c}
       /\ IF c \in stale THEN Go(t, "evict") /\ With(t, c) ELSE UNCHANGED <<pc, arg>>
  /\ UNCHANGED <<mapVars, shut, recent, lockVars, stale, removed, endVars, histVars>>

Evict(t) ==
  /\ At(t, "evict") /\ CanShut(arg[t])
  /\ Unlist(arg[t])
  /\ removed' = TRUE
  /\ Go(t, "look") /\ With(t, None)
  /\ UNCHANGED <<made, groupOf, named, active, recent, lockVars, visit, stale, endVars, histVars>>

(* Mutant: every group is thought deserted. *)
AllNamed == {named[n] : n \in Names} \ {None}

Deserted == {named[n] : n \in Names} \ ({groupOf[c] : c \in listed} \cup {None})

EndClean(t) ==
  /\ At(t, "look") /\ visit = {}
  /\ shut' = shut \cup Deserted
  /\ Forget(Deserted)
  /\ active' = IF removed THEN listed ELSE active
  /\ removed' = FALSE /\ stale' = {}
  /\ cmWriter' = None
  /\ Go(t, "idle")
  /\ UNCHANGED <<made, groupOf, listed, recent, qWriter, qReaders, cmReaders, cHolder, visit, endVars, histVars, arg>>

-----------------------------------------------------------------------------
(* The sweep: the worker's, or ForceExpiration in its caller *)

(* Under q.mutex; what follows happens only if something expired. *)
BeginSweep(t) ==
  /\ At(t, "idle") /\ QFree
  /\ qWriter' = t
  /\ Go(t, "sweep")
  /\ UNCHANGED <<mapVars, shut, recent, qReaders, cmWriter, cmReaders, cHolder, scanVars, endVars, histVars, arg>>

BeginNotify(t) ==
  /\ At(t, "sweep") /\ CmShared
  /\ cmReaders' = cmReaders \cup {t}
  /\ visit' = {c \in listed : groupOf[c] = None}
  /\ Go(t, "tell")
  /\ UNCHANGED <<mapVars, shut, recent, qWriter, qReaders, cmWriter, cHolder, stale, removed, endVars, histVars, arg>>

(* Its position lost nothing, it is closed, or it is to be sent the count. *)
NotifyTest(t) ==
  /\ At(t, "tell")
  /\ \E c \in visit :
       /\ cHolder[c] = None
       /\ visit' = visit \ {c}
       /\ \/ UNCHANGED <<cHolder, pc, arg>>
          \/ /\ c \notin shut
             /\ cHolder' = [cHolder EXCEPT ![c] = t]
             /\ Go(t, "send") /\ With(t, c)
  /\ UNCHANGED <<mapVars, shut, recent, qWriter, qReaders, cmWriter, cmReaders, stale, removed, endVars, histVars>>

NotifySend(t) ==
  /\ At(t, "send")
  /\ cHolder' = [cHolder EXCEPT ![arg[t]] = None]
  /\ Go(t, "tell") /\ With(t, None)
  /\ UNCHANGED <<mapVars, shut, recent, qWriter, qReaders, cmWriter, cmReaders, scanVars, endVars, histVars>>

(* The worker goes on to CleanInactive before it looks at stopChan again. *)
EndSweep(t) ==
  /\ At(t, "tell") /\ visit = {}
  /\ cmReaders' = cmReaders \ {t}
  /\ qWriter' = None
  /\ Go(t, IF t = Worker /\ Evicts THEN "clean" ELSE "idle")
  /\ UNCHANGED <<mapVars, shut, recent, qReaders, cmWriter, cHolder, scanVars, endVars, histVars, arg>>

-----------------------------------------------------------------------------
(* Queue.Close *)

BeginClose(t) ==
  /\ Calls(t)
  /\ stage = "open"
  /\ stage' = "stopped"
  /\ Go(t, "wait")
  /\ UNCHANGED <<mapVars, shut, recent, lockVars, scanVars, left, histVars, arg>>

WorkerExits ==
  /\ At(Worker, "idle")
  /\ stage # "open"
  /\ Go(Worker, "exited")
  /\ UNCHANGED <<mapVars, shut, recent, lockVars, scanVars, endVars, histVars, arg>>

(* wg.Wait, then the snapshot of the consumers. *)
TakeSnapshot(t) ==
  /\ At(t, "wait") /\ At(Worker, "exited")
  /\ left' = active
  /\ stage' = "shut"
  /\ Go(t, "shut")
  /\ UNCHANGED <<mapVars, shut, recent, lockVars, scanVars, histVars, arg>>

(* No lock but the consumer's own: removals and sweeps may be in progress. *)
CloseOne(t) ==
  /\ At(t, "shut")
  /\ \E c \in left :
       /\ CanShut(c)
       /\ shut' = shut \cup {c}
       /\ left' = left \ {c}
  /\ UNCHANGED <<mapVars, recent, lockVars, scanVars, stage, histVars, pc, arg>>

AllClosed(t) ==
  /\ At(t, "shut") /\ left = {}
  /\ Go(t, "clear")
  /\ UNCHANGED <<mapVars, shut, recent, lockVars, scanVars, endVars, histVars, arg>>

ClearData(t) ==
  /\ At(t, "clear") /\ QFree
  /\ stage' = "done"
  /\ Go(t, "idle")
  /\ UNCHANGED <<mapVars, shut, recent, lockVars, scanVars, left, histVars, arg>>

-----------------------------------------------------------------------------

Call(t) ==
  \/ AddGroup(t) \/ TestGroupOpen(t) \/ RemoveConsumer(t)
  \/ BeginRemoveGroup(t) \/ BeginClose(t)

Proceed(t) ==
  \/ AddConsumerToGroup(t)
  \/ RemoveMember(t) \/ EndRemoveGroup(t)
  \/ LookAt(t) \/ Evict(t) \/ EndClean(t)
  \/ BeginNotify(t) \/ NotifyTest(t) \/ NotifySend(t) \/ EndSweep(t)
  \/ TakeSnapshot(t) \/ CloseOne(t) \/ AllClosed(t) \/ ClearData(t)

Next ==
  \/ \E t \in Threads : Call(t) \/ Proceed(t) \/ AddConsumer(t) \/ BeginClean(t) \/ BeginSweep(t)
  \/ \E c \in Consumers : Touch(c) \/ Age(c)
  \/ WorkerExits

Spec == Init /\ [][Next]_vars

(* A goroutine that has begun goes on; one that waits for a mutex gets it,   *)
(* however often others do (sync.Mutex and sync.RWMutex pass a mutex on to   *)
(* those who wait).  The worker's select does not ignore stopChan for ever.  *)
Fairness ==
  /\ \A t \in Threads :
       SF_vars(Proceed(t) \/ (At(t, "add") /\ AddConsumer(t)) \/ (At(t, "clean") /\ BeginClean(t)))
  /\ SF_vars(WorkerExits)

FairSpec == Spec /\ Fairness

-----------------------------------------------------------------------------
(* Properties *)

(* What is read without a lock is what the map holds, whenever nobody is     *)
(* changing it: every operation that changes cm.consumers stores the         *)
(* snapshot again before it gives cm.mutex back (consumer.go:859), which     *)
(* Close (queue.go:649) and notifyWaitingConsumers (notify.go:7) rely on.    *)
SnapshotIsCurrent == cmWriter = None => active = listed

(* No consumer leaves the map open, and Close leaves none open that it could *)
(* know of: after it returned, an open consumer was made after the snapshot  *)
(* was taken (queue.go:649), also if removals and evictions ran meanwhile.   *)
NoneLeftOpen ==
  /\ \A c \in (made \cap Consumers) \ listed : c \in shut
  /\ stage = "done" => \A c \in made \cap Consumers : c \in shut \cup late

(* A listed consumer's group is listed and open, but for a consumer that was *)
(* added to a group already closed (consumer_group.go:54 tests closed before *)
(* consumer.go:723 takes the mutex): RemoveGroup takes all its members and   *)
(* CleanInactive no group that has one (consumer.go:786, :819).              *)
MembersHaveTheirGroup ==
  \A c \in listed \ orphans :
    groupOf[c] # None => groupOf[c] \notin shut /\ \E n \in Names : named[n] = groupOf[c]

(* A count is never sent on a closed channel, which would panic: the test of *)
(* closed and the send are one critical section (consumer.go:495-503), and   *)
(* Close, which takes no lock of the manager, closes under the same mutex    *)
(* (consumer.go:551).                                                        *)
NoSendOnClosed == \A t \in Threads : At(t, "send") => arg[t] \notin shut

(* A thread that has begun an operation, or the worker told to stop, and     *)
(* that finds what its next step needs.                                      *)
Inside(t) == pc[t] \notin {"idle", "exited"}

Ready(t) ==
  \/ pc[t] \in {"add", "join", "clean"} /\ CmFree
  \/ At(t, "sweep") /\ CmShared
  \/ pc[t] \in {"drop", "look", "tell"} /\ (visit = {} \/ \E c \in visit : CanShut(c))
  \/ At(t, "evict") /\ CanShut(arg[t])
  \/ At(t, "shut") /\ (left = {} \/ \E c \in left : CanShut(c))
  \/ At(t, "clear") /\ QFree
  \/ At(t, "wait") /\ At(Worker, "exited")
  \/ At(t, "send")
  \/ t = Worker /\ At(t, "idle") /\ stage # "open"

(* Thread u has the mutex that t asks for, or is what its WaitGroup counts.  *)
WaitsFor(t, u) ==
  \/ pc[t] \in {"add", "join", "clean"} /\ (cmWriter = u \/ u \in cmReaders)
  \/ At(t, "sweep") /\ cmWriter = u
  \/ pc[t] \in {"drop", "look", "tell"} /\ \E c \in visit : cHolder[c] = u
  \/ At(t, "evict") /\ cHolder[arg[t]] = u
  \/ At(t, "shut") /\ \E c \in left : cHolder[c] = u
  \/ At(t, "clear") /\ (qWriter = u \/ u \in qReaders)
  \/ At(t, "wait") /\ u = Worker

(* How far down the hierarchy of the mutexes a thread has come: Close waits  *)
(* for the worker, then asks for q.mutex; then comes cm.mutex, then a        *)
(* consumer's; who has that sends, and asks for nothing.                     *)
Level(t) ==
  IF At(t, "wait") THEN 1
  ELSE IF At(t, "clear") THEN 2
  ELSE IF pc[t] \in {"add", "join", "clean", "sweep"} THEN 3
  ELSE IF pc[t] \in {"drop", "look", "evict", "tell", "shut"} THEN 4
  ELSE 5

(* No thread is stuck: one that cannot go on waits for one further down the  *)
(* order Queue, ConsumerManager, Consumer (docs/adr/0003-lock-hierarchy.md,  *)
(* the comment at consumer.go:740), so that whatever it waits for leads,     *)
(* over at most four others, to a thread that can go on.                     *)
NobodyIsStuck ==
  \A t \in Threads : Inside(t) =>
    \/ Ready(t)
    \/ \E u \in Threads : /\ WaitsFor(t, u) /\ Level(t) < Level(u)
                          /\ Inside(u) \/ Ready(u)

(* No goroutine waits for ever: every operation returns, Close too, with the *)
(* mutexes taken in the order Queue, ConsumerManager, Consumer               *)
(* (docs/adr/0003-lock-hierarchy.md; the comment at consumer.go:740).        *)
OperationsFinish == \A t \in Callers : pc[t] # "idle" ~> pc[t] = "idle"
===============================================================================
