----------------------------- MODULE RegistryProofs -----------------------------
(***************************************************************************)
(* Who holds which mutex is known from where each thread is; from that,    *)
(* that the snapshot, the maps and the channels agree, for any number of   *)
(* callers, consumers, groups and names.                                   *)
(*                                                                         *)
(* RegistryInv is inductive.  Its parts lean on each other: what the       *)
(* holder of cm.mutex has still to visit is listed only because nobody     *)
(* else can unlist, which is so because of where the others are.           *)
(***************************************************************************)
EXTENDS Registry, TLAPS

(* Where a thread is tells which mutexes it holds (consumer.go:741, :744,    *)
(* :778, :801, :495; queue.go:700).                                          *)
Holders ==
  \A t \in Threads :
    /\ qWriter = t <=> pc[t] \in {"sweep", "tell", "send"}
    /\ t \in qReaders <=> pc[t] = "add"
    /\ cmWriter = t <=> pc[t] \in {"drop", "look", "evict"}
    /\ t \in cmReaders <=> pc[t] \in {"tell", "send"}
    /\ \A c \in Consumers : cHolder[c] = t <=> pc[t] = "send" /\ arg[t] = c

(* What a thread works on: a group that was made, or a consumer that is      *)
(* still listed and that its loop has done with.                             *)
Subjects ==
  \A t \in Threads :
    /\ pc[t] \in {"join", "drop"} => arg[t] \in made \cap Groups
    /\ pc[t] = "evict" => arg[t] \in listed \ visit
    /\ pc[t] = "send" => arg[t] \in Consumers

(* Nothing refers to a consumer or group that was never made. *)
MadeOnly ==
  /\ \A c \in made \cap Consumers : groupOf[c] \in made \cup {None}
  /\ \A n \in Names : named[n] \in made \cup {None}
  /\ left \subseteq made

(* A loop over cm.consumers meets only listed ones, to the end of its        *)
(* critical section, and RemoveGroup misses no member.                       *)
Visits ==
  /\ visit \subseteq listed
  /\ cmWriter = None /\ cmReaders = {} => visit = {}
  /\ \A t \in Threads : pc[t] = "drop" => Members(arg[t]) \subseteq visit

(* The snapshot never lacks a listed consumer, and CleanInactive knows       *)
(* whether it has made it differ (consumer.go:833, :859).                    *)
Snapshots ==
  /\ listed \subseteq active
  /\ SnapshotIsCurrent
  /\ \A t \in Threads : pc[t] \in {"look", "evict"} => removed \/ active = listed

(* One goroutine closes the queue, and it is not the worker (queue.go:641). *)
Closing ==
  /\ \A t \in Threads : /\ pc[t] = "wait" => stage = "stopped"
                        /\ pc[t] \in {"shut", "clear"} => stage = "shut"
                        /\ pc[t] = "clear" => left = {}
  /\ \A t, u \in Threads :
       pc[t] \in {"wait", "shut", "clear"} /\ pc[u] \in {"wait", "shut", "clear"} => t = u
  /\ stage = "done" => left = {}
  /\ pc[Worker] # "wait"

(* From the snapshot on, Close has every consumer before it that is open and *)
(* was made before.                                                          *)
Reached ==
  /\ \A c \in (made \cap Consumers) \ listed : c \in shut
  /\ stage \in {"shut", "done"} =>
       \A c \in made \cap Consumers : c \in shut \cup late \cup left

(* An open group has its name, and no listed consumer but an orphan is in a  *)
(* closed one.                                                               *)
Groupings ==
  /\ \A g \in (made \cap Groups) \ shut : \E n \in Names : named[n] = g
  /\ \A c \in listed \ orphans : groupOf[c] \notin shut

RegistryInv ==
  /\ TypeOK /\ Holders /\ Subjects /\ MadeOnly /\ Visits
  /\ Snapshots /\ Closing /\ Reached /\ Groupings /\ NoSendOnClosed

-----------------------------------------------------------------------------
(* The actions by operation *)

Adding(t)   == AddConsumer(t) \/ AddGroup(t) \/ TestGroupOpen(t) \/ AddConsumerToGroup(t)
Removing(t) == RemoveConsumer(t) \/ BeginRemoveGroup(t) \/ RemoveMember(t) \/ EndRemoveGroup(t)
Cleaning(t) == BeginClean(t) \/ LookAt(t) \/ Evict(t) \/ EndClean(t)
Sweeping(t) == BeginSweep(t) \/ BeginNotify(t) \/ NotifyTest(t) \/ NotifySend(t) \/ EndSweep(t)
Ending(t)   == BeginClose(t) \/ TakeSnapshot(t) \/ CloseOne(t) \/ AllClosed(t) \/ ClearData(t)
Lockless    == (\E c \in Consumers : Touch(c) \/ Age(c)) \/ WorkerExits

(* Every step is one of these or a stutter. *)
LEMMA StepsByOperation ==
  ASSUME [Next]_vars
  PROVE  \/ \E t \in Threads :
              Adding(t) \/ Removing(t) \/ Cleaning(t) \/ Sweeping(t) \/ Ending(t)
         \/ Lockless \/ UNCHANGED vars
BY DEF Next, Call, Proceed, Adding, Removing, Cleaning, Sweeping, Ending, Lockless

-----------------------------------------------------------------------------
(* Each part is kept *)

(* The types are kept, and no mutex gets a reader beside a writer. *)
LEMMA TypeKept ==
  ASSUME TypeOK, Holders, Subjects, MadeOnly, Visits, [Next]_vars
  PROVE  TypeOK'
<1> USE RegistryAssumption DEF Threads, At, Go, With, TypeOK, Holders,
        Subjects, MadeOnly, Visits
<1>1. ASSUME NEW t \in Threads, Adding(t)  PROVE TypeOK'
  BY <1>1 DEF Adding, AddConsumer, AddGroup, TestGroupOpen, AddConsumerToGroup,
    Calls, QShared, CmFree, Enlist, Fresh, mapVars, lockVars, scanVars, endVars,
    histVars
<1>2. ASSUME NEW t \in Threads, Removing(t)  PROVE TypeOK'
  <2>1. CASE EndRemoveGroup(t)
    BY <2>1 DEF EndRemoveGroup, Forget, scanVars, endVars, histVars
  <2>2. CASE RemoveConsumer(t) \/ BeginRemoveGroup(t) \/ RemoveMember(t)
    BY <2>2 DEF RemoveConsumer, BeginRemoveGroup, RemoveMember, Calls, CanShut,
      CmFree, Members, Unlist, mapVars, lockVars, scanVars, endVars, histVars
  <2> QED
    BY <1>2, <2>1, <2>2 DEF Removing
<1>3. ASSUME NEW t \in Threads, Cleaning(t)  PROVE TypeOK'
  <2>1. CASE BeginClean(t)
    BY <2>1 DEF BeginClean, Calls, CmFree, mapVars, endVars, histVars
  <2>2. CASE Evict(t)
    BY <2>2 DEF Evict, CanShut, Unlist, lockVars, endVars, histVars
  <2>3. CASE EndClean(t)
    <3>1. /\ UNCHANGED <<made, groupOf, listed, recent, qWriter, qReaders, cmReaders>>
          /\ UNCHANGED <<cHolder, visit, left, stage, late, orphans, arg>>
      BY <2>3 DEF EndClean, endVars, histVars
    <3>2. Deserted \subseteq made /\ shut' = shut \cup Deserted
      BY <2>3 DEF EndClean, Deserted
    <3>3. named' \in [Names -> Groups \cup {None}]
      BY <2>3 DEF EndClean, Forget
    <3>4. /\ active' \in {listed, active} /\ removed' = FALSE /\ stale' = {}
          /\ cmWriter' = None /\ pc' = [pc EXCEPT ![t] = "idle"]
      BY <2>3 DEF EndClean
    <3> QED
      BY <3>1, <3>2, <3>3, <3>4
  <2>4. CASE LookAt(t)
    BY <2>4 DEF LookAt, CanShut, mapVars, lockVars, endVars, histVars
  <2> QED
    BY <1>3, <2>1, <2>2, <2>3, <2>4 DEF Cleaning
<1>4. ASSUME NEW t \in Threads, Sweeping(t)  PROVE TypeOK'
  <2>1. CASE NotifyTest(t)
    BY <2>1 DEF NotifyTest, mapVars, endVars, histVars
  <2>2. CASE NotifySend(t)
    BY <2>2 DEF NotifySend, mapVars, scanVars, endVars, histVars
  <2>3. CASE BeginSweep(t) \/ BeginNotify(t) \/ EndSweep(t)
    BY <2>3 DEF BeginSweep, BeginNotify, EndSweep, QFree, CmShared, mapVars,
      scanVars, endVars, histVars
  <2> QED
    BY <1>4, <2>1, <2>2, <2>3 DEF Sweeping
<1>5. ASSUME NEW t \in Threads, Ending(t)  PROVE TypeOK'
  BY <1>5 DEF Ending, BeginClose, TakeSnapshot, CloseOne, AllClosed, ClearData,
    Calls, CanShut, QFree, mapVars, lockVars, scanVars, endVars, histVars
<1>6. CASE Lockless
  BY <1>6 DEF Lockless, Touch, Age, WorkerExits, mapVars, lockVars, scanVars,
    endVars, histVars
<1>7. CASE UNCHANGED vars
  BY <1>7 DEF vars, mapVars, lockVars, scanVars, endVars, histVars
<1> QED
  BY StepsByOperation, <1>1, <1>2, <1>3, <1>4, <1>5, <1>6, <1>7

(* A mutex is taken when it is free and given back by who holds it           *)
(* (consumer.go:741, :744, :778, :801, :495; queue.go:700).                  *)
LEMMA HoldersKept ==
  ASSUME TypeOK, Holders, Subjects, Visits, [Next]_vars
  PROVE  Holders'
<1> USE RegistryAssumption DEF Threads, At, Go, With, TypeOK, Holders,
        Subjects, Visits
<1>1. ASSUME NEW t \in Threads, Adding(t)  PROVE Holders'
  <2>1. CASE AddConsumer(t)
    BY <2>1 DEF AddConsumer, Calls, QShared, CmFree, Enlist, Fresh, mapVars,
      scanVars, endVars, histVars
  <2>2. CASE AddGroup(t) \/ TestGroupOpen(t) \/ AddConsumerToGroup(t)
    BY <2>2 DEF AddGroup, TestGroupOpen, AddConsumerToGroup, Calls, CmFree, Enlist,
      Fresh, mapVars, lockVars, scanVars, endVars, histVars
  <2> QED
    BY <1>1, <2>1, <2>2 DEF Adding
<1>2. ASSUME NEW t \in Threads, Removing(t)  PROVE Holders'
  <2>1. CASE BeginRemoveGroup(t)
    BY <2>1 DEF BeginRemoveGroup, Calls, CmFree, Members, mapVars, endVars, histVars
  <2>2. CASE EndRemoveGroup(t)
    BY <2>2 DEF EndRemoveGroup, Forget, scanVars, endVars, histVars
  <2>3. CASE RemoveConsumer(t) \/ RemoveMember(t)
    BY <2>3 DEF RemoveConsumer, RemoveMember, Calls, CanShut, CmFree, Unlist,
      lockVars, scanVars, endVars, histVars
  <2> QED
    BY <1>2, <2>1, <2>2, <2>3 DEF Removing
<1>3. ASSUME NEW t \in Threads, Cleaning(t)  PROVE Holders'
  <2>1. CASE BeginClean(t)
    BY <2>1 DEF BeginClean, Calls, CmFree, mapVars, endVars, histVars
  <2>2. CASE EndClean(t)
    BY <2>2 DEF EndClean, Forget, Deserted, endVars, histVars
  <2>3. CASE LookAt(t) \/ Evict(t)
    BY <2>3 DEF LookAt, Evict, CanShut, Unlist, mapVars, lockVars, endVars, histVars
  <2> QED
    BY <1>3, <2>1, <2>2, <2>3 DEF Cleaning
<1>4. ASSUME NEW t \in Threads, Sweeping(t)  PROVE Holders'
  <2>1. CASE BeginSweep(t)
    BY <2>1 DEF BeginSweep, QFree, mapVars, scanVars, endVars, histVars
  <2>2. CASE BeginNotify(t)
    BY <2>2 DEF BeginNotify, CmShared, mapVars, endVars, histVars
  <2>3. CASE NotifyTest(t)
    BY <2>3 DEF NotifyTest, mapVars, endVars, histVars
  <2>4. CASE NotifySend(t)
    BY <2>4 DEF NotifySend, mapVars, scanVars, endVars, histVars
  <2>5. CASE EndSweep(t)
    BY <2>5 DEF EndSweep, mapVars, scanVars, endVars, histVars
  <2> QED
    BY <1>4, <2>1, <2>2, <2>3, <2>4, <2>5 DEF Sweeping
<1>5. ASSUME NEW t \in Threads, Ending(t)  PROVE Holders'
  BY <1>5 DEF Ending, BeginClose, TakeSnapshot, CloseOne, AllClosed, ClearData,
    Calls, CanShut, QFree, mapVars, lockVars, scanVars, endVars, histVars
<1>6. CASE Lockless
  BY <1>6 DEF Lockless, Touch, Age, WorkerExits, mapVars, lockVars, scanVars,
    endVars, histVars
<1>7. CASE UNCHANGED vars
  BY <1>7 DEF vars, mapVars, lockVars, scanVars, endVars, histVars
<1> QED
  BY StepsByOperation, <1>1, <1>2, <1>3, <1>4, <1>5, <1>6, <1>7

(* Nobody unlists what another works on: cm.mutex keeps them out             *)
(* (consumer.go:778, :801, :842).                                            *)
LEMMA SubjectsKept ==
  ASSUME TypeOK, Holders, Subjects, MadeOnly, Visits, [Next]_vars
  PROVE  Subjects'
<1> USE RegistryAssumption DEF Threads, At, Go, With, TypeOK, Holders,
        Subjects, MadeOnly, Visits
<1>1. ASSUME NEW t \in Threads, Adding(t)  PROVE Subjects'
  BY <1>1 DEF Adding, AddConsumer, AddGroup, TestGroupOpen, AddConsumerToGroup,
    Calls, QShared, CmFree, Enlist, Fresh, mapVars, lockVars, scanVars, endVars,
    histVars
<1>2. ASSUME NEW t \in Threads, Removing(t)  PROVE Subjects'
  <2>1. CASE RemoveConsumer(t)
    BY <2>1 DEF RemoveConsumer, Calls, CanShut, CmFree, lockVars, scanVars, endVars,
      histVars
  <2>2. CASE BeginRemoveGroup(t)
    BY <2>2 DEF BeginRemoveGroup, Calls, CmFree, Members, mapVars, endVars, histVars
  <2>3. CASE RemoveMember(t)
    BY <2>3 DEF RemoveMember, CanShut, Unlist, lockVars, endVars, histVars
  <2>4. CASE EndRemoveGroup(t)
    BY <2>4 DEF EndRemoveGroup, Forget, scanVars, endVars, histVars
  <2> QED
    BY <1>2, <2>1, <2>2, <2>3, <2>4 DEF Removing
<1>3. ASSUME NEW t \in Threads, Cleaning(t)  PROVE Subjects'
  <2>1. CASE LookAt(t)
    BY <2>1 DEF LookAt, CanShut, mapVars, lockVars, endVars, histVars
  <2>2. CASE Evict(t)
    BY <2>2 DEF Evict, CanShut, Unlist, lockVars, endVars, histVars
  <2>3. CASE BeginClean(t) \/ EndClean(t)
    BY <2>3 DEF BeginClean, EndClean, Calls, CmFree, Forget, Deserted, mapVars,
      endVars, histVars
  <2> QED
    BY <1>3, <2>1, <2>2, <2>3 DEF Cleaning
<1>4. ASSUME NEW t \in Threads, Sweeping(t)  PROVE Subjects'
  BY <1>4 DEF Sweeping, BeginSweep, BeginNotify, NotifyTest, NotifySend, EndSweep,
    QFree, CmShared, mapVars, scanVars, endVars, histVars
<1>5. ASSUME NEW t \in Threads, Ending(t)  PROVE Subjects'
  BY <1>5 DEF Ending, BeginClose, TakeSnapshot, CloseOne, AllClosed, ClearData,
    Calls, CanShut, QFree, mapVars, lockVars, scanVars, endVars, histVars
<1>6. CASE Lockless
  BY <1>6 DEF Lockless, Touch, Age, WorkerExits, mapVars, lockVars, scanVars,
    endVars, histVars
<1>7. CASE UNCHANGED vars
  BY <1>7 DEF vars, mapVars, lockVars, scanVars, endVars, histVars
<1> QED
  BY StepsByOperation, <1>1, <1>2, <1>3, <1>4, <1>5, <1>6, <1>7

(* References are to what was made. *)
LEMMA MadeOnlyKept ==
  ASSUME TypeOK, Subjects, MadeOnly, [Next]_vars
  PROVE  MadeOnly'
<1> USE RegistryAssumption DEF Threads, At, Go, With, TypeOK, Subjects,
        MadeOnly
<1>1. ASSUME NEW t \in Threads, Adding(t)  PROVE MadeOnly'
  <2>1. CASE AddGroup(t)
    BY <2>1 DEF AddGroup, Calls, CmFree, lockVars, scanVars, endVars, histVars
  <2>2. CASE AddConsumerToGroup(t)
    BY <2>2 DEF AddConsumerToGroup, CmFree, Enlist, Fresh, mapVars, lockVars,
      scanVars, endVars, histVars
  <2>3. CASE AddConsumer(t) \/ TestGroupOpen(t)
    BY <2>3 DEF AddConsumer, TestGroupOpen, Calls, QShared, CmFree, Enlist, Fresh,
      mapVars, lockVars, scanVars, endVars, histVars
  <2> QED
    BY <1>1, <2>1, <2>2, <2>3 DEF Adding
<1>2. ASSUME NEW t \in Threads, Removing(t)  PROVE MadeOnly'
  BY <1>2 DEF Removing, RemoveConsumer, BeginRemoveGroup, RemoveMember,
    EndRemoveGroup, Calls, CanShut, CmFree, Members, Unlist, Forget, mapVars,
    lockVars, scanVars, endVars, histVars
<1>3. ASSUME NEW t \in Threads, Cleaning(t)  PROVE MadeOnly'
  BY <1>3 DEF Cleaning, BeginClean, LookAt, Evict, EndClean, Calls, CanShut, CmFree,
    Unlist, Forget, Deserted, mapVars, lockVars, endVars, histVars
<1>4. ASSUME NEW t \in Threads, Sweeping(t)  PROVE MadeOnly'
  BY <1>4 DEF Sweeping, BeginSweep, BeginNotify, NotifyTest, NotifySend, EndSweep,
    QFree, CmShared, mapVars, scanVars, endVars, histVars
<1>5. ASSUME NEW t \in Threads, Ending(t)  PROVE MadeOnly'
  BY <1>5 DEF Ending, BeginClose, TakeSnapshot, CloseOne, AllClosed, ClearData,
    Calls, CanShut, QFree, mapVars, lockVars, scanVars, endVars, histVars
<1>6. CASE Lockless
  BY <1>6 DEF Lockless, Touch, Age, WorkerExits, mapVars, lockVars, scanVars,
    endVars, histVars
<1>7. CASE UNCHANGED vars
  BY <1>7 DEF vars, mapVars, lockVars, scanVars, endVars, histVars
<1> QED
  BY StepsByOperation, <1>1, <1>2, <1>3, <1>4, <1>5, <1>6, <1>7

(* Under cm.mutex nobody else adds or removes (consumer.go:723, :744). *)
LEMMA VisitsKept ==
  ASSUME TypeOK, Holders, Subjects, Visits, [Next]_vars
  PROVE  Visits'
<1> USE RegistryAssumption DEF Threads, At, Go, With, TypeOK, Holders,
        Subjects, Visits
<1>1. ASSUME NEW t \in Threads, Adding(t)  PROVE Visits'
  <2>1. CASE AddConsumer(t)
    BY <2>1 DEF AddConsumer, Calls, QShared, CmFree, Enlist, Fresh, Members, mapVars,
      scanVars, endVars, histVars
  <2>2. CASE AddConsumerToGroup(t)
    BY <2>2 DEF AddConsumerToGroup, CmFree, Enlist, Fresh, Members, mapVars,
      lockVars, scanVars, endVars, histVars
  <2>3. CASE AddGroup(t) \/ TestGroupOpen(t)
    BY <2>3 DEF AddGroup, TestGroupOpen, Calls, CmFree, Members, mapVars, lockVars,
      scanVars, endVars, histVars
  <2> QED
    BY <1>1, <2>1, <2>2, <2>3 DEF Adding
<1>2. ASSUME NEW t \in Threads, Removing(t)  PROVE Visits'
  <2>1. CASE RemoveConsumer(t)
    BY <2>1 DEF RemoveConsumer, Calls, CanShut, CmFree, Members, lockVars, scanVars,
      endVars, histVars
  <2>2. CASE BeginRemoveGroup(t)
    BY <2>2 DEF BeginRemoveGroup, Calls, CmFree, Members, mapVars, endVars, histVars
  <2>3. CASE RemoveMember(t) \/ EndRemoveGroup(t)
    BY <2>3 DEF RemoveMember, EndRemoveGroup, CanShut, Members, Unlist, Forget,
      lockVars, scanVars, endVars, histVars
  <2> QED
    BY <1>2, <2>1, <2>2, <2>3 DEF Removing
<1>3. ASSUME NEW t \in Threads, Cleaning(t)  PROVE Visits'
  <2>1. CASE Evict(t)
    BY <2>1 DEF Evict, CanShut, Members, Unlist, lockVars, endVars, histVars
  <2>2. CASE BeginClean(t) \/ LookAt(t) \/ EndClean(t)
    BY <2>2 DEF BeginClean, LookAt, EndClean, Calls, CanShut, CmFree, Members,
      Forget, Deserted, mapVars, lockVars, endVars, histVars
  <2> QED
    BY <1>3, <2>1, <2>2 DEF Cleaning
<1>4. ASSUME NEW t \in Threads, Sweeping(t)  PROVE Visits'
  <2>1. CASE BeginNotify(t)
    BY <2>1 DEF BeginNotify, CmShared, Members, mapVars, endVars, histVars
  <2>2. CASE EndSweep(t)
    BY <2>2 DEF EndSweep, Members, mapVars, scanVars, endVars, histVars
  <2>3. CASE BeginSweep(t) \/ NotifyTest(t) \/ NotifySend(t)
    BY <2>3 DEF BeginSweep, NotifyTest, NotifySend, QFree, Members, mapVars,
      scanVars, endVars, histVars
  <2> QED
    BY <1>4, <2>1, <2>2, <2>3 DEF Sweeping
<1>5. ASSUME NEW t \in Threads, Ending(t)  PROVE Visits'
  BY <1>5 DEF Ending, BeginClose, TakeSnapshot, CloseOne, AllClosed, ClearData,
    Calls, CanShut, QFree, Members, mapVars, lockVars, scanVars, endVars, histVars
<1>6. CASE Lockless
  BY <1>6 DEF Lockless, Touch, Age, WorkerExits, Members, mapVars, lockVars,
    scanVars, endVars, histVars
<1>7. CASE UNCHANGED vars
  BY <1>7 DEF vars, mapVars, lockVars, scanVars, endVars, histVars, Members
<1> QED
  BY StepsByOperation, <1>1, <1>2, <1>3, <1>4, <1>5, <1>6, <1>7

(* The snapshot is stored again before cm.mutex is given back                *)
(* (consumer.go:859).                                                        *)
LEMMA SnapshotsKept ==
  ASSUME TypeOK, Holders, Visits, Snapshots, [Next]_vars
  PROVE  Snapshots'
<1> USE RegistryAssumption DEF Threads, At, Go, With, TypeOK, Holders, Visits,
        Snapshots, SnapshotIsCurrent
<1>1. ASSUME NEW t \in Threads, Adding(t)  PROVE Snapshots'
  <2>1. CASE AddConsumer(t)
    <3>1. UNCHANGED <<listed, active>> \/ active' = listed'
      BY <2>1 DEF AddConsumer, Enlist, mapVars
    <3>2. \A u \in Threads : pc'[u] \in {"look", "evict"} => pc[u] = pc'[u] /\ cmWriter = u
      BY <2>1 DEF AddConsumer
    <3>3. UNCHANGED <<cmWriter, removed>> /\ (UNCHANGED <<listed, active>> \/ cmWriter = None)
      BY <2>1 DEF AddConsumer, Enlist, CmFree, mapVars, scanVars
    <3> QED
      BY <3>1, <3>2, <3>3
  <2>2. CASE AddConsumerToGroup(t)
    <3>1. UNCHANGED <<listed, active>> \/ active' = listed'
      BY <2>2 DEF AddConsumerToGroup, Enlist, mapVars
    <3>2. \A u \in Threads : pc'[u] \in {"look", "evict"} => pc[u] = pc'[u] /\ cmWriter = u
      BY <2>2 DEF AddConsumerToGroup
    <3>3. UNCHANGED <<cmWriter, removed>> /\ cmWriter = None
      BY <2>2 DEF AddConsumerToGroup, CmFree, lockVars, scanVars
    <3> QED
      BY <3>1, <3>2, <3>3
  <2>3. CASE AddGroup(t) \/ TestGroupOpen(t)
    BY <2>3 DEF AddGroup, TestGroupOpen, Calls, CmFree, mapVars, lockVars, scanVars,
      endVars, histVars
  <2> QED
    BY <1>1, <2>1, <2>2, <2>3 DEF Adding
<1>2. ASSUME NEW t \in Threads, Removing(t)  PROVE Snapshots'
  <2>1. CASE RemoveConsumer(t)
    BY <2>1 DEF RemoveConsumer, Calls, CanShut, CmFree, lockVars, scanVars, endVars,
      histVars
  <2>2. CASE RemoveMember(t)
    BY <2>2 DEF RemoveMember, CanShut, Unlist, lockVars, endVars, histVars
  <2>3. CASE BeginRemoveGroup(t) \/ EndRemoveGroup(t)
    BY <2>3 DEF BeginRemoveGroup, EndRemoveGroup, Calls, CmFree, Members, Forget,
      mapVars, scanVars, endVars, histVars
  <2> QED
    BY <1>2, <2>1, <2>2, <2>3 DEF Removing
<1>3. ASSUME NEW t \in Threads, Cleaning(t)  PROVE Snapshots'
  <2>1. CASE BeginClean(t)
    BY <2>1 DEF BeginClean, Calls, CmFree, mapVars, endVars, histVars
  <2>2. CASE Evict(t)
    BY <2>2 DEF Evict, CanShut, Unlist, lockVars, endVars, histVars
  <2>3. CASE EndClean(t)
    BY <2>3 DEF EndClean, Forget, Deserted, endVars, histVars
  <2>4. CASE LookAt(t)
    BY <2>4 DEF LookAt, CanShut, mapVars, lockVars, endVars, histVars
  <2> QED
    BY <1>3, <2>1, <2>2, <2>3, <2>4 DEF Cleaning
<1>4. ASSUME NEW t \in Threads, Sweeping(t)  PROVE Snapshots'
  BY <1>4 DEF Sweeping, BeginSweep, BeginNotify, NotifyTest, NotifySend, EndSweep,
    QFree, CmShared, mapVars, scanVars, endVars, histVars
<1>5. ASSUME NEW t \in Threads, Ending(t)  PROVE Snapshots'
  BY <1>5 DEF Ending, BeginClose, TakeSnapshot, CloseOne, AllClosed, ClearData,
    Calls, CanShut, QFree, mapVars, lockVars, scanVars, endVars, histVars
<1>6. CASE Lockless
  BY <1>6 DEF Lockless, Touch, Age, WorkerExits, mapVars, lockVars, scanVars,
    endVars, histVars
<1>7. CASE UNCHANGED vars
  BY <1>7 DEF vars, mapVars, lockVars, scanVars, endVars, histVars
<1> QED
  BY StepsByOperation, <1>1, <1>2, <1>3, <1>4, <1>5, <1>6, <1>7

(* Close goes through its stages once (queue.go:641). *)
LEMMA ClosingKept ==
  ASSUME TypeOK, Closing, [Next]_vars
  PROVE  Closing'
<1> USE RegistryAssumption DEF Threads, At, Go, With, TypeOK, Closing
<1>1. ASSUME NEW t \in Threads, Adding(t)  PROVE Closing'
  BY <1>1 DEF Adding, AddConsumer, AddGroup, TestGroupOpen, AddConsumerToGroup,
    Calls, QShared, CmFree, Enlist, Fresh, mapVars, lockVars, scanVars, endVars,
    histVars
<1>2. ASSUME NEW t \in Threads, Removing(t)  PROVE Closing'
  BY <1>2 DEF Removing, RemoveConsumer, BeginRemoveGroup, RemoveMember,
    EndRemoveGroup, Calls, CanShut, CmFree, Members, Unlist, Forget, mapVars,
    lockVars, scanVars, endVars, histVars
<1>3. ASSUME NEW t \in Threads, Cleaning(t)  PROVE Closing'
  BY <1>3 DEF Cleaning, BeginClean, LookAt, Evict, EndClean, Calls, CanShut, CmFree,
    Unlist, Forget, Deserted, mapVars, lockVars, endVars, histVars
<1>4. ASSUME NEW t \in Threads, Sweeping(t)  PROVE Closing'
  BY <1>4 DEF Sweeping, BeginSweep, BeginNotify, NotifyTest, NotifySend, EndSweep,
    QFree, CmShared, mapVars, scanVars, endVars, histVars
<1>5. ASSUME NEW t \in Threads, Ending(t)  PROVE Closing'
  <2>1. CASE TakeSnapshot(t)
    BY <2>1 DEF TakeSnapshot, mapVars, lockVars, scanVars, histVars
  <2>2. CASE BeginClose(t) \/ CloseOne(t) \/ AllClosed(t) \/ ClearData(t)
    BY <2>2 DEF BeginClose, CloseOne, AllClosed, ClearData, Calls, CanShut, QFree,
      mapVars, lockVars, scanVars, endVars, histVars
  <2> QED
    BY <1>5, <2>1, <2>2 DEF Ending
<1>6. CASE Lockless
  BY <1>6 DEF Lockless, Touch, Age, WorkerExits, mapVars, lockVars, scanVars,
    endVars, histVars
<1>7. CASE UNCHANGED vars
  BY <1>7 DEF vars, mapVars, lockVars, scanVars, endVars, histVars
<1> QED
  BY StepsByOperation, <1>1, <1>2, <1>3, <1>4, <1>5, <1>6, <1>7

(* The snapshot Close takes has all that is listed (queue.go:649). *)
LEMMA ReachedKept ==
  ASSUME TypeOK, Subjects, Visits, Snapshots, Closing, Reached, [Next]_vars
  PROVE  Reached'
<1> USE RegistryAssumption DEF Threads, At, Go, With, TypeOK, Subjects, Visits,
        Snapshots, Closing, Reached
<1>1. ASSUME NEW t \in Threads, Adding(t)  PROVE Reached'
  <2>1. CASE AddConsumer(t)
    BY <2>1 DEF AddConsumer, Calls, QShared, CmFree, Enlist, Fresh, mapVars,
      scanVars, endVars, histVars
  <2>2. CASE AddConsumerToGroup(t)
    BY <2>2 DEF AddConsumerToGroup, CmFree, Enlist, Fresh, mapVars, lockVars,
      scanVars, endVars, histVars
  <2>3. CASE AddGroup(t) \/ TestGroupOpen(t)
    BY <2>3 DEF AddGroup, TestGroupOpen, Calls, CmFree, mapVars, lockVars, scanVars,
      endVars, histVars
  <2> QED
    BY <1>1, <2>1, <2>2, <2>3 DEF Adding
<1>2. ASSUME NEW t \in Threads, Removing(t)  PROVE Reached'
  BY <1>2 DEF Removing, RemoveConsumer, BeginRemoveGroup, RemoveMember,
    EndRemoveGroup, Calls, CanShut, CmFree, Members, Unlist, Forget, mapVars,
    lockVars, scanVars, endVars, histVars
<1>3. ASSUME NEW t \in Threads, Cleaning(t)  PROVE Reached'
  BY <1>3 DEF Cleaning, BeginClean, LookAt, Evict, EndClean, Calls, CanShut, CmFree,
    Unlist, Forget, Deserted, mapVars, lockVars, endVars, histVars
<1>4. ASSUME NEW t \in Threads, Sweeping(t)  PROVE Reached'
  BY <1>4 DEF Sweeping, BeginSweep, BeginNotify, NotifyTest, NotifySend, EndSweep,
    QFree, CmShared, mapVars, scanVars, endVars, histVars
<1>5. ASSUME NEW t \in Threads, Ending(t)  PROVE Reached'
  <2>1. CASE TakeSnapshot(t)
    BY <2>1 DEF TakeSnapshot, mapVars, lockVars, scanVars, histVars
  <2>2. CASE CloseOne(t)
    BY <2>2 DEF CloseOne, CanShut, mapVars, lockVars, scanVars, histVars
  <2>3. CASE BeginClose(t) \/ AllClosed(t) \/ ClearData(t)
    BY <2>3 DEF BeginClose, AllClosed, ClearData, Calls, QFree, mapVars, lockVars,
      scanVars, endVars, histVars
  <2> QED
    BY <1>5, <2>1, <2>2, <2>3 DEF Ending
<1>6. CASE Lockless
  BY <1>6 DEF Lockless, Touch, Age, WorkerExits, mapVars, lockVars, scanVars,
    endVars, histVars
<1>7. CASE UNCHANGED vars
  BY <1>7 DEF vars, mapVars, lockVars, scanVars, endVars, histVars
<1> QED
  BY StepsByOperation, <1>1, <1>2, <1>3, <1>4, <1>5, <1>6, <1>7

(* A group loses its name when it is closed, and it is closed when nobody is *)
(* in it.                                                                    *)
LEMMA GroupingsKept ==
  ASSUME TypeOK, Holders, Subjects, MadeOnly, Visits, Groupings, [Next]_vars
  PROVE  Groupings'
<1> USE RegistryAssumption DEF Threads, At, Go, With, TypeOK, Holders,
        Subjects, MadeOnly, Visits, Groupings
<1>1. ASSUME NEW t \in Threads, Adding(t)  PROVE Groupings'
  <2>1. CASE AddGroup(t)
    BY <2>1 DEF AddGroup, Calls, CmFree, Members, lockVars, scanVars, endVars,
      histVars
  <2>2. CASE AddConsumerToGroup(t)
    BY <2>2 DEF AddConsumerToGroup, CmFree, Enlist, Fresh, Members, mapVars,
      lockVars, scanVars, endVars, histVars
  <2>3. CASE AddConsumer(t) \/ TestGroupOpen(t)
    BY <2>3 DEF AddConsumer, TestGroupOpen, Calls, QShared, CmFree, Enlist, Fresh,
      Members, mapVars, lockVars, scanVars, endVars, histVars
  <2> QED
    BY <1>1, <2>1, <2>2, <2>3 DEF Adding
<1>2. ASSUME NEW t \in Threads, Removing(t)  PROVE Groupings'
  <2>1. CASE EndRemoveGroup(t)
    BY <2>1 DEF EndRemoveGroup, Members, Forget, scanVars, endVars, histVars
  <2>2. CASE RemoveConsumer(t) \/ BeginRemoveGroup(t) \/ RemoveMember(t)
    BY <2>2 DEF RemoveConsumer, BeginRemoveGroup, RemoveMember, Calls, CanShut,
      CmFree, Members, Unlist, mapVars, lockVars, scanVars, endVars, histVars
  <2> QED
    BY <1>2, <2>1, <2>2 DEF Removing
<1>3. ASSUME NEW t \in Threads, Cleaning(t)  PROVE Groupings'
  <2>1. CASE EndClean(t)
    BY <2>1 DEF EndClean, Members, Forget, Deserted, endVars, histVars
  <2>2. CASE BeginClean(t) \/ LookAt(t) \/ Evict(t)
    BY <2>2 DEF BeginClean, LookAt, Evict, Calls, CanShut, CmFree, Members, Unlist,
      mapVars, lockVars, endVars, histVars
  <2> QED
    BY <1>3, <2>1, <2>2 DEF Cleaning
<1>4. ASSUME NEW t \in Threads, Sweeping(t)  PROVE Groupings'
  BY <1>4 DEF Sweeping, BeginSweep, BeginNotify, NotifyTest, NotifySend, EndSweep,
    QFree, CmShared, Members, mapVars, scanVars, endVars, histVars
<1>5. ASSUME NEW t \in Threads, Ending(t)  PROVE Groupings'
  BY <1>5 DEF Ending, BeginClose, TakeSnapshot, CloseOne, AllClosed, ClearData,
    Calls, CanShut, QFree, Members, mapVars, lockVars, scanVars, endVars, histVars
<1>6. CASE Lockless
  BY <1>6 DEF Lockless, Touch, Age, WorkerExits, Members, mapVars, lockVars,
    scanVars, endVars, histVars
<1>7. CASE UNCHANGED vars
  BY <1>7 DEF vars, mapVars, lockVars, scanVars, endVars, histVars, Members
<1> QED
  BY StepsByOperation, <1>1, <1>2, <1>3, <1>4, <1>5, <1>6, <1>7

(* Nobody closes the consumer that a sweep is about to send to               *)
(* (consumer.go:495-503).                                                    *)
LEMMA SendKept ==
  ASSUME TypeOK, Holders, Subjects, Visits, NoSendOnClosed, [Next]_vars
  PROVE  NoSendOnClosed'
<1> USE RegistryAssumption DEF Threads, At, Go, With, TypeOK, Holders,
        Subjects, Visits, NoSendOnClosed
<1>1. ASSUME NEW t \in Threads, Adding(t)  PROVE NoSendOnClosed'
  BY <1>1 DEF Adding, AddConsumer, AddGroup, TestGroupOpen, AddConsumerToGroup,
    Calls, QShared, CmFree, Enlist, Fresh, mapVars, lockVars, scanVars, endVars,
    histVars
<1>2. ASSUME NEW t \in Threads, Removing(t)  PROVE NoSendOnClosed'
  <2>1. CASE RemoveMember(t)
    BY <2>1 DEF RemoveMember, CanShut, Unlist, lockVars, endVars, histVars
  <2>2. CASE EndRemoveGroup(t)
    BY <2>2 DEF EndRemoveGroup, Forget, scanVars, endVars, histVars
  <2>3. CASE RemoveConsumer(t) \/ BeginRemoveGroup(t)
    BY <2>3 DEF RemoveConsumer, BeginRemoveGroup, Calls, CanShut, CmFree, Members,
      mapVars, lockVars, scanVars, endVars, histVars
  <2> QED
    BY <1>2, <2>1, <2>2, <2>3 DEF Removing
<1>3. ASSUME NEW t \in Threads, Cleaning(t)  PROVE NoSendOnClosed'
  <2>1. CASE Evict(t)
    BY <2>1 DEF Evict, CanShut, Unlist, lockVars, endVars, histVars
  <2>2. CASE EndClean(t)
    BY <2>2 DEF EndClean, Forget, Deserted, endVars, histVars
  <2>3. CASE BeginClean(t) \/ LookAt(t)
    BY <2>3 DEF BeginClean, LookAt, Calls, CanShut, CmFree, mapVars, lockVars,
      endVars, histVars
  <2> QED
    BY <1>3, <2>1, <2>2, <2>3 DEF Cleaning
<1>4. ASSUME NEW t \in Threads, Sweeping(t)  PROVE NoSendOnClosed'
  <2>1. CASE NotifyTest(t)
    BY <2>1 DEF NotifyTest, mapVars, endVars, histVars
  <2>2. CASE BeginSweep(t) \/ BeginNotify(t) \/ NotifySend(t) \/ EndSweep(t)
    BY <2>2 DEF BeginSweep, BeginNotify, NotifySend, EndSweep, QFree, CmShared,
      mapVars, scanVars, endVars, histVars
  <2> QED
    BY <1>4, <2>1, <2>2 DEF Sweeping
<1>5. ASSUME NEW t \in Threads, Ending(t)  PROVE NoSendOnClosed'
  <2>1. CASE CloseOne(t)
    BY <2>1 DEF CloseOne, CanShut, mapVars, lockVars, scanVars, histVars
  <2>2. CASE BeginClose(t) \/ TakeSnapshot(t) \/ AllClosed(t) \/ ClearData(t)
    BY <2>2 DEF BeginClose, TakeSnapshot, AllClosed, ClearData, Calls, QFree,
      mapVars, lockVars, scanVars, endVars, histVars
  <2> QED
    BY <1>5, <2>1, <2>2 DEF Ending
<1>6. CASE Lockless
  BY <1>6 DEF Lockless, Touch, Age, WorkerExits, mapVars, lockVars, scanVars,
    endVars, histVars
<1>7. CASE UNCHANGED vars
  BY <1>7 DEF vars, mapVars, lockVars, scanVars, endVars, histVars
<1> QED
  BY StepsByOperation, <1>1, <1>2, <1>3, <1>4, <1>5, <1>6, <1>7

-----------------------------------------------------------------------------
(* All parts together *)

(* Nothing is made, and no mutex is held. *)
LEMMA InitRegistry == Init => RegistryInv
BY RegistryAssumption DEF Init, RegistryInv, Threads, TypeOK, Holders, Subjects, MadeOnly,
   Visits, Members, Snapshots, SnapshotIsCurrent, Closing, Reached, Groupings,
   NoSendOnClosed, At

(* Every step keeps all of it. *)
LEMMA KeepsRegistry == RegistryInv /\ [Next]_vars => RegistryInv'
BY TypeKept, HoldersKept, SubjectsKept, MadeOnlyKept, VisitsKept, SnapshotsKept, ClosingKept,
   ReachedKept, GroupingsKept, SendKept DEF RegistryInv

(* In every behaviour. *)
LEMMA RegistryInvariant == Spec => []RegistryInv
BY InitRegistry, KeepsRegistry, PTL DEF Spec

-----------------------------------------------------------------------------
(* Nobody is stuck *)

(* Who has a consumer's mutex is about to send, and asks for nothing         *)
(* (consumer.go:495-503).                                                    *)
LEMMA SendersGoOn ==
  ASSUME TypeOK, Holders, NEW c \in Consumers, ~CanShut(c)
  PROVE  \E u \in Threads : cHolder[c] = u /\ Ready(u) /\ Inside(u) /\ Level(u) = 5
<1>1. PICK u \in Threads : cHolder[c] = u
  BY DEF TypeOK, CanShut
<1>2. pc[u] = "send"
  BY <1>1 DEF Holders
<1> QED
  BY <1>1, <1>2 DEF Ready, Inside, Level, At

(* Who has cm.mutex asks at most for a consumer's (consumer.go:778, :801,    *)
(* :842, notify.go and consumer.go:869).                                     *)
LEMMA ManagersGoDown ==
  ASSUME TypeOK, Holders, NEW u \in Threads, cmWriter = u \/ u \in cmReaders
  PROVE  Inside(u) /\ Level(u) \in {4, 5}
<1>1. pc[u] \in {"drop", "look", "evict", "tell", "send"}
  BY DEF Holders
<1> QED
  BY <1>1 DEF Inside, Level, At

(* Who has q.mutex asks at most for cm.mutex (consumer.go:741, queue.go:700). *)
LEMMA QueueHoldersGoDown ==
  ASSUME TypeOK, Holders, NEW u \in Threads, qWriter = u \/ u \in qReaders
  PROVE  Inside(u) /\ Level(u) \in {3, 4, 5}
<1>1. pc[u] \in {"sweep", "tell", "send", "add"}
  BY DEF Holders
<1> QED
  BY <1>1 DEF Inside, Level, At

(* So a thread that cannot go on waits for one further down. *)
LEMMA StuckForNothing == RegistryInv => NobodyIsStuck
<1> SUFFICES ASSUME RegistryInv, NEW t \in Threads, Inside(t), ~Ready(t)
             PROVE  \E u \in Threads : /\ WaitsFor(t, u) /\ Level(t) < Level(u)
                                       /\ Inside(u) \/ Ready(u)
  BY DEF NobodyIsStuck
<1>1. TypeOK /\ Holders /\ Subjects /\ Visits /\ Closing
  BY DEF RegistryInv
<1>2. CASE pc[t] \in {"add", "join", "clean", "sweep"}
  <2>1. PICK u \in Threads : (cmWriter = u \/ u \in cmReaders) /\ (At(t, "sweep") => cmWriter = u)
    BY <1>1, <1>2 DEF Ready, CmFree, CmShared, TypeOK, At
  <2>2. Inside(u) /\ Level(u) \in {4, 5}
    BY <1>1, <2>1, ManagersGoDown
  <2>3. Level(t) = 3
    BY <1>2 DEF Level, At
  <2>4. WaitsFor(t, u)
    BY <1>2, <2>1 DEF WaitsFor, At
  <2> QED
    BY <2>2, <2>3, <2>4
<1>3. CASE pc[t] \in {"drop", "look", "evict", "tell", "shut"}
  <2>1. PICK c \in Consumers :
          /\ ~CanShut(c)
          /\ pc[t] \in {"drop", "look", "tell"} => c \in visit
          /\ At(t, "evict") => c = arg[t]
          /\ At(t, "shut") => c \in left
    <3>1. CASE pc[t] \in {"drop", "look", "tell"}
      BY <1>1, <3>1 DEF Ready, At, TypeOK
    <3>2. CASE pc[t] = "evict"
      BY <1>1, <3>2 DEF Ready, At, TypeOK, Subjects
    <3>3. CASE pc[t] = "shut"
      BY <1>1, <3>3 DEF Ready, At, TypeOK
    <3> QED
      BY <1>3, <3>1, <3>2, <3>3
  <2>2. PICK u \in Threads : cHolder[c] = u /\ Ready(u) /\ Inside(u) /\ Level(u) = 5
    BY <1>1, <2>1, SendersGoOn
  <2>3. WaitsFor(t, u)
    BY <1>3, <2>1, <2>2 DEF WaitsFor, At
  <2>4. Level(t) = 4
    BY <1>3 DEF Level, At
  <2> QED
    BY <2>2, <2>3, <2>4
<1>4. CASE pc[t] = "clear"
  <2>1. PICK u \in Threads : qWriter = u \/ u \in qReaders
    BY <1>1, <1>4 DEF Ready, QFree, TypeOK, At
  <2>2. Inside(u) /\ Level(u) \in {3, 4, 5}
    BY <1>1, <2>1, QueueHoldersGoDown
  <2>3. Level(t) = 2 /\ WaitsFor(t, u)
    BY <1>4, <2>1 DEF Level, WaitsFor, At
  <2> QED
    BY <2>2, <2>3
<1>5. CASE pc[t] = "wait"
  <2>1. Worker \in Threads /\ Level(t) = 1 /\ WaitsFor(t, Worker)
    BY <1>5 DEF Threads, Level, WaitsFor, At
  <2>2. pc[Worker] \notin {"wait", "exited"} /\ stage # "open"
    BY <1>1, <1>5 DEF Closing, Ready, At
  <2>3. Level(Worker) \in {2, 3, 4, 5}
    BY <2>2 DEF Level, At
  <2>4. Inside(Worker) \/ Ready(Worker)
    BY <2>2 DEF Inside, Ready, At
  <2> QED
    BY <2>1, <2>3, <2>4
<1> QED
  <2>1. pc[t] # "send"
    BY DEF Ready, At
  <2> QED
    BY <1>1, <1>2, <1>3, <1>4, <1>5, <2>1 DEF TypeOK, Inside

-----------------------------------------------------------------------------
(* The theorems *)

(* The state of the manager, the mutexes and the threads is well typed; no   *)
(* mutex is held by a writer and a reader.                                   *)
THEOREM RegistryTypes == Spec => []TypeOK
<1>1. RegistryInv => TypeOK
  BY DEF RegistryInv
<1> QED
  BY <1>1, RegistryInvariant, PTL

(* What Close and the sweep read without a lock is the map, whenever nobody  *)
(* is changing it (consumer.go:859, queue.go:649, notify.go:7).              *)
THEOREM SnapshotCurrent == Spec => []SnapshotIsCurrent
<1>1. RegistryInv => SnapshotIsCurrent
  BY DEF RegistryInv, Snapshots
<1> QED
  BY <1>1, RegistryInvariant, PTL

(* A sweep never sends on a channel that RemoveConsumer, RemoveGroup,        *)
(* CleanInactive or Close has closed (consumer.go:495-503, :551).            *)
THEOREM SendsAreSafe == Spec => []NoSendOnClosed
<1>1. RegistryInv => NoSendOnClosed
  BY DEF RegistryInv
<1> QED
  BY <1>1, RegistryInvariant, PTL

(* A consumer that left the map is closed, and when Close is done so is      *)
(* every consumer that was made before it took its snapshot (queue.go:649).  *)
THEOREM CloseReachesAll == Spec => []NoneLeftOpen
<1>1. RegistryInv => NoneLeftOpen
  BY DEF RegistryInv, Closing, Reached, NoneLeftOpen
<1> QED
  BY <1>1, RegistryInvariant, PTL

(* A consumer's group is open and has its name as long as the consumer is    *)
(* listed, if it was open when the consumer joined (consumer_group.go:54,    *)
(* consumer.go:786, :819).                                                   *)
THEOREM GroupsKeepMembers == Spec => []MembersHaveTheirGroup
<1>1. RegistryInv => MembersHaveTheirGroup
  BY RegistryAssumption DEF RegistryInv, TypeOK, MadeOnly, Groupings, MembersHaveTheirGroup
<1> QED
  BY <1>1, RegistryInvariant, PTL

(* No operation is stuck, with any number of callers and consumers: what     *)
(* each waits for is held by one that has come further in the order Queue,   *)
(* ConsumerManager, Consumer, and the last of these goes on (consumer.go:740, *)
(* queue.go:645).                                                            *)
THEOREM NobodyStuck == Spec => []NobodyIsStuck
BY StuckForNothing, RegistryInvariant, PTL
===============================================================================
