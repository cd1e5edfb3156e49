---------------------- MODULE PublishPipeline_proofs ----------------------
(***************************************************************************)
(* Proofs about PublishPipeline, for any number of intents, targets,       *)
(* workers and factories, any retry budget and any number of faults.       *)
(***************************************************************************)
EXTENDS PublishPipeline, TLAPS

-----------------------------------------------------------------------------
(* Lemmas about the operators the actions are built from *)

\* The list operations keep a list a bag.
LEMMA BagTypes ==
  ASSUME NEW bag \in [Targets -> Nat], NEW t \in Targets
  PROVE  /\ EmptyBag \in [Targets -> Nat]
         /\ Put(bag, t) \in [Targets -> Nat]
         /\ bag[t] > 0 => Take(bag, t) \in [Targets -> Nat]
         /\ Remove(bag, t) \in [Targets -> Nat]
  BY DEF EmptyBag, Put, Take, Remove

\* A worker that is back in its poll loop is in a well-formed state.
LEMMA FinishTypes ==
  ASSUME WorkerTypes, SnapshotFits, CommandInHand, NEW w \in Workers, Finish(w),
         UNCHANGED scanned
  PROVE  WorkerTypes' /\ SnapshotFits' /\ CommandInHand'
  BY DEF WorkerTypes, SnapshotFits, CommandInHand, Finish, Goto, Steps, Roles,
         PublicationStatus, IntentStatus, Busy

\* The status a target is mirrored to and the one an intent is settled to.
LEMMA OutcomeTypes ==
  ASSUME RowTypes
  PROVE  /\ \A t \in Targets : PublicationOf(t) \in PublicationStatus
         /\ \A i : TallyOf(i) \in {"published", "partial_failed", "failed", "none"}
  BY DEF PublicationOf, TallyOf, RowTypes, PublicationStatus, IntentStatus

\* Where a command goes for the status that was read.
LEMMA AfterReadTypes ==
  ASSUME NEW status
  PROVE  /\ AfterRead(status).step \in {"claim", "sync", "dlq", "lrem"}
         /\ AfterRead(status).role \in {"none", "repeat", "skip"}
  BY DEF AfterRead

-----------------------------------------------------------------------------
(* Well-formedness: types, and what the program counters say of the locals *)

\* The initial state is well-formed.
LEMMA InitWellFormed == Init => WellFormed
<1> SUFFICES ASSUME Init PROVE WellFormed
  OBVIOUS
<1>1. RowTypes
  <2>1. mode \in [Intents -> {"publish_now", "save_for_later", "scheduled"}]
    BY PipelineAssumption DEF PipelineAssumption, Init
  <2>2. intent \in [Intents -> IntentStatus]
    BY DEF Init, IntentStatus
  <2>3. retries \in [Targets -> 0..MaxRetries]
    BY PipelineAssumption DEF PipelineAssumption, Init
  <2> QED
    BY <2>1, <2>2, <2>3 DEF Init, RowTypes, TargetStatus, PublicationStatus
<1>2. ListTypes
  BY DEF Init, ListTypes, EmptyBag
<1>3. WorkerTypes
  BY DEF Init, WorkerTypes, Steps, Roles, IntentStatus, PublicationStatus
<1>4. ServiceTypes /\ WorldTypes /\ SpentTypes
  BY DEF Init, ServiceTypes, WorldTypes, SpentTypes
<1>5. SnapshotFits /\ CommandInHand
  BY DEF Init, SnapshotFits, CommandInHand, Busy
<1> QED
  BY <1>1, <1>2, <1>3, <1>4, <1>5 DEF WellFormed, TypeOK

\* The content factory and the users' requests keep the state well-formed.
LEMMA FactoryWellFormed ==
  ASSUME WellFormed,
         \/ \E i \in Intents : PublishNow(i)
         \/ \E i \in Intents : BecomesDue(i)
         \/ \E i \in Intents : \E past \in BOOLEAN : Reschedule(i, past)
         \/ \E f \in Factories : SelectDue(f)
         \/ \E f \in Factories : \E i \in Intents : DispatchSelected(f, i)
         \/ \E f \in Factories : \E t \in Targets : FlushPush(f, t)
         \/ \E f \in Factories : FlushCommit(f)
         \/ \E f \in Factories : \E old \in SUBSET Targets : FactoryRestart(f, old)
  PROVE  WellFormed'
<1> USE DEF WellFormed, TypeOK
<1>1. ASSUME NEW i \in Intents, PublishNow(i) PROVE WellFormed'
  BY <1>1 DEF PublishNow, Dispatch, TargetsOf, listVars, workerVars, factoryVars, worldVars,
    spentVars, RowTypes, WorkerTypes, SnapshotFits, IntentStatus, TargetStatus,
    PublicationStatus, ListTypes, CommandInHand, Busy, Steps, Roles, ServiceTypes, WorldTypes,
    SpentTypes
<1>2. ASSUME NEW i \in Intents, BecomesDue(i) PROVE WellFormed'
  BY <1>2 DEF BecomesDue, listVars, workerVars, factoryVars, worldVars, spentVars, RowTypes,
    WorkerTypes, SnapshotFits, IntentStatus, TargetStatus, PublicationStatus, ListTypes,
    CommandInHand, Busy, Steps, Roles, ServiceTypes, WorldTypes, SpentTypes
<1>3. ASSUME NEW i \in Intents, NEW past \in BOOLEAN, Reschedule(i, past) PROVE WellFormed'
  BY <1>3 DEF Reschedule, listVars, workerVars, factoryVars, worldVars, RowTypes,
    WorkerTypes, SnapshotFits, IntentStatus, TargetStatus, PublicationStatus, ListTypes,
    CommandInHand, Busy, Steps, Roles, ServiceTypes, WorldTypes, SpentTypes
<1>4. ASSUME NEW f \in Factories, SelectDue(f) PROVE WellFormed'
  BY <1>4 DEF SelectDue, rowVars, listVars, workerVars, worldVars, spentVars, RowTypes,
    WorkerTypes, SnapshotFits, IntentStatus, TargetStatus, PublicationStatus, ListTypes,
    CommandInHand, Busy, Steps, Roles, ServiceTypes, WorldTypes, SpentTypes
<1>5. ASSUME NEW f \in Factories, NEW i \in Intents, DispatchSelected(f, i) PROVE WellFormed'
  <2>1. RowTypes'
    BY <1>5 DEF DispatchSelected, Dispatch, TargetsOf, rowVars, listVars, workerVars,
      worldVars, spentVars, RowTypes, WorkerTypes, SnapshotFits, IntentStatus, TargetStatus,
      PublicationStatus
  <2>2. ListTypes' /\ WorkerTypes' /\ SnapshotFits' /\ WorldTypes' /\ SpentTypes' /\
       CommandInHand'
    BY <1>5 DEF DispatchSelected, rowVars, listVars, workerVars, worldVars, spentVars,
      ListTypes, WorkerTypes, SnapshotFits, WorldTypes, SpentTypes, CommandInHand
  <2>3. ServiceTypes'
    BY <1>5 DEF DispatchSelected, Dispatch, TargetsOf, rowVars, listVars, workerVars,
      worldVars, spentVars, ServiceTypes
  <2> QED BY <2>1, <2>2, <2>3
<1>6. ASSUME NEW f \in Factories, NEW t \in Targets, FlushPush(f, t) PROVE WellFormed'
  BY <1>6 DEF FlushPush, Put, rowVars, workerVars, worldVars, spentVars, RowTypes,
    WorkerTypes, SnapshotFits, IntentStatus, TargetStatus, PublicationStatus, ListTypes,
    CommandInHand, Busy, Steps, Roles, ServiceTypes, WorldTypes, SpentTypes
<1>7. ASSUME NEW f \in Factories, FlushCommit(f) PROVE WellFormed'
  BY <1>7 DEF FlushCommit, listVars, workerVars, worldVars, spentVars, RowTypes,
    WorkerTypes, SnapshotFits, IntentStatus, TargetStatus, PublicationStatus, ListTypes,
    CommandInHand, Busy, Steps, Roles, ServiceTypes, WorldTypes, SpentTypes
<1>8. ASSUME NEW f \in Factories, NEW old \in SUBSET Targets, FactoryRestart(f, old) PROVE WellFormed'
  BY <1>8 DEF FactoryRestart, listVars, workerVars, worldVars, RowTypes, WorkerTypes,
    SnapshotFits, IntentStatus, TargetStatus, PublicationStatus, ListTypes, CommandInHand,
    Busy, Steps, Roles, ServiceTypes, WorldTypes, SpentTypes
<1> QED BY <1>1, <1>2, <1>3, <1>4, <1>5, <1>6, <1>7, <1>8

\* So do the start of a worker and its recovery steps ...
LEMMA RecoveryWellFormed ==
  ASSUME WellFormed, NEW w \in Workers,
         \/ Start(w)
         \/ \E t \in Targets : RecoverTake(w, t)
         \/ RecoverPut(w)
         \/ RecoverDone(w)
         \/ \E old \in SUBSET Targets : RepairStale(w, old)
         \/ RepairIntents(w)
  PROVE  WellFormed'
<1> USE DEF WellFormed, TypeOK
<1>1. CASE Start(w)
  BY <1>1 DEF Start, At, Goto, rowVars, listVars, factoryVars, worldVars, spentVars,
    RowTypes, WorkerTypes, SnapshotFits, IntentStatus, TargetStatus, PublicationStatus,
    ListTypes, CommandInHand, Busy, Steps, Roles, ServiceTypes, WorldTypes, SpentTypes
<1>2. ASSUME NEW t \in Targets, RecoverTake(w, t) PROVE WellFormed'
  <2>1. RowTypes' /\ SnapshotFits' /\ ServiceTypes' /\ WorldTypes' /\ SpentTypes'
    BY <1>2 DEF RecoverTake, rowVars, factoryVars, worldVars, spentVars, restVars, RowTypes,
      SnapshotFits, ServiceTypes, WorldTypes, SpentTypes
  <2>2. ListTypes'
    <3>1. CASE orphans[t] > 0 /\ orphans' = Take(orphans, t) /\ UNCHANGED processing
      BY <1>2, <3>1, BagTypes DEF RecoverTake, ListTypes
    <3>2. ASSUME NEW v \in Workers, processing[v][t] > 0, UNCHANGED orphans,
                   processing' = [processing EXCEPT ![v] = Take(@, t)]
            PROVE  ListTypes'
        <4>1. Take(processing[v], t) \in [Targets -> Nat]
        BY <3>2, BagTypes DEF ListTypes
        <4> QED BY <1>2, <3>2, <4>1 DEF RecoverTake, ListTypes
    <3> QED BY <1>2, <3>1, <3>2 DEF RecoverTake
  <2>3. WorkerTypes'
    BY <1>2 DEF RecoverTake, At, Take, rowVars, factoryVars, worldVars, spentVars, restVars,
      RowTypes, WorkerTypes, Steps, Roles, IntentStatus, PublicationStatus
  <2>4. CommandInHand'
    BY <1>2 DEF RecoverTake, At, Take, rowVars, factoryVars, worldVars, spentVars, restVars,
      WorkerTypes, CommandInHand, Busy, Steps
  <2> QED BY <2>1, <2>2, <2>3, <2>4
<1>3. CASE RecoverPut(w)
  <2>1. RowTypes' /\ SnapshotFits' /\ ServiceTypes' /\ WorldTypes' /\ SpentTypes'
    BY <1>3 DEF RecoverPut, rowVars, factoryVars, worldVars, spentVars, restVars, RowTypes,
      SnapshotFits, ServiceTypes, WorldTypes, SpentTypes
  <2>2. ListTypes'
    BY <1>3, BagTypes DEF RecoverPut, At, rowVars, factoryVars, worldVars, spentVars,
      restVars, ListTypes, CommandInHand, Busy, Steps, WorkerTypes
  <2>3. WorkerTypes'
    BY <1>3 DEF RecoverPut, At, Put, rowVars, factoryVars, worldVars, spentVars, restVars,
      RowTypes, WorkerTypes, Steps, Roles, IntentStatus, PublicationStatus
  <2>4. CommandInHand'
    BY <1>3 DEF RecoverPut, At, Put, rowVars, factoryVars, worldVars, spentVars, restVars,
      WorkerTypes, CommandInHand, Busy, Steps
  <2> QED BY <2>1, <2>2, <2>3, <2>4
<1>4. CASE RecoverDone(w)
  BY <1>4 DEF RecoverDone, At, Goto, EmptyBag, rowVars, listVars, factoryVars, worldVars,
    spentVars, RowTypes, WorkerTypes, SnapshotFits, IntentStatus, TargetStatus,
    PublicationStatus, ListTypes, CommandInHand, Busy, Steps, Roles, ServiceTypes, WorldTypes,
    SpentTypes
<1>5. ASSUME NEW old \in SUBSET Targets, RepairStale(w, old) PROVE WellFormed'
  BY <1>5, PipelineAssumption DEF RepairStale, At, Goto, StaleCandidates, Attempting,
    listVars, factoryVars, worldVars, spentVars, restVars, RowTypes, WorkerTypes,
    SnapshotFits, IntentStatus, TargetStatus, PublicationStatus, ListTypes, CommandInHand,
    Busy, Steps, Roles, ServiceTypes, WorldTypes, SpentTypes, PipelineAssumption
<1>6. CASE RepairIntents(w)
  BY <1>6 DEF RepairIntents, At, Goto, TallyOf, TargetsOf, listVars, factoryVars, worldVars,
    spentVars, restVars, RowTypes, WorkerTypes, SnapshotFits, IntentStatus, TargetStatus,
    PublicationStatus, ListTypes, CommandInHand, Busy, Steps, Roles, ServiceTypes, WorldTypes,
    SpentTypes
<1> QED BY <1>1, <1>2, <1>3, <1>4, <1>5, <1>6

\* ... the attempt on a target, from the command to the outcome ...
LEMMA AttemptWellFormed ==
  ASSUME WellFormed, NEW w \in Workers,
         \/ \E t \in Targets : Receive(w, t)
         \/ Read(w)
         \/ Claim(w)
         \/ PostGoesOut(w)
         \/ AdapterSucceeds(w)
         \/ AdapterFailsEarly(w)
         \/ AdapterFailsLate(w)
         \/ AdapterTimesOut(w)
         \/ Save(w)
         \/ Retry(w)
         \/ Reject(w)
         \/ Catch(w)
  PROVE  WellFormed'
<1> USE DEF WellFormed, TypeOK
<1>1. ASSUME NEW t \in Targets, Receive(w, t) PROVE WellFormed'
  <2>1. RowTypes' /\ ServiceTypes' /\ WorldTypes' /\ SpentTypes'
    BY <1>1 DEF Receive, rowVars, factoryVars, worldVars, spentVars, restVars, RowTypes,
      ServiceTypes, WorldTypes, SpentTypes
  <2>2. ListTypes'
    BY <1>1, BagTypes DEF Receive, At, Goto, rowVars, factoryVars, worldVars, spentVars,
      restVars, ListTypes, CommandInHand, Busy, Steps, WorkerTypes
  <2>3. WorkerTypes'
    BY <1>1 DEF Receive, At, Goto, Put, Take, rowVars, factoryVars, worldVars, spentVars,
      restVars, RowTypes, WorkerTypes, Steps, Roles, IntentStatus, PublicationStatus
  <2>4. SnapshotFits'
    BY <1>1 DEF Receive, At, Goto, Put, Take, rowVars, factoryVars, worldVars, spentVars,
      restVars, RowTypes, WorkerTypes, SnapshotFits, IntentStatus, PublicationStatus
  <2>5. CommandInHand'
    BY <1>1 DEF Receive, At, Goto, Put, Take, rowVars, factoryVars, worldVars, spentVars,
      restVars, WorkerTypes, CommandInHand, Busy, Steps
  <2> QED BY <2>1, <2>2, <2>3, <2>4, <2>5
<1>2. CASE Read(w)
  <2>1. RowTypes' /\ ListTypes' /\ ServiceTypes' /\ WorldTypes' /\ SpentTypes'
    BY <1>2 DEF Read, rowVars, listVars, factoryVars, worldVars, spentVars, restVars,
      RowTypes, ListTypes, ServiceTypes, WorldTypes, SpentTypes
  <2>2. WorkerTypes'
    BY <1>2, AfterReadTypes DEF Read, At, Goto, rowVars, listVars, factoryVars, worldVars,
      spentVars, restVars, RowTypes, WorkerTypes, Steps, Roles, IntentStatus,
      PublicationStatus
  <2>3. SnapshotFits'
    BY <1>2, AfterReadTypes DEF Read, At, Goto, rowVars, listVars, factoryVars, worldVars,
      spentVars, restVars, RowTypes, WorkerTypes, SnapshotFits, IntentStatus,
      PublicationStatus
  <2>4. CommandInHand'
    BY <1>2, AfterReadTypes DEF Read, At, Goto, rowVars, listVars, factoryVars, worldVars,
      spentVars, restVars, WorkerTypes, CommandInHand, Busy, Steps
  <2> QED BY <2>1, <2>2, <2>3, <2>4
<1>3. CASE Claim(w)
  <2>1. RowTypes'
    BY <1>3 DEF Claim, At, Goto, listVars, factoryVars, worldVars, spentVars, restVars,
      RowTypes, WorkerTypes, SnapshotFits, IntentStatus, TargetStatus, PublicationStatus
  <2>2. ListTypes' /\ ServiceTypes' /\ WorldTypes' /\ SpentTypes'
    BY <1>3 DEF Claim, listVars, factoryVars, worldVars, spentVars, restVars, ListTypes,
      ServiceTypes, WorldTypes, SpentTypes
  <2>3. WorkerTypes'
    BY <1>3 DEF Claim, At, Goto, listVars, factoryVars, worldVars, spentVars, restVars,
      RowTypes, WorkerTypes, Steps, Roles, IntentStatus, PublicationStatus
  <2>4. SnapshotFits'
    BY <1>3 DEF Claim, At, Goto, listVars, factoryVars, worldVars, spentVars, restVars,
      RowTypes, WorkerTypes, SnapshotFits, IntentStatus, PublicationStatus
  <2>5. CommandInHand'
    BY <1>3 DEF Claim, At, Goto, listVars, factoryVars, worldVars, spentVars, restVars,
      WorkerTypes, CommandInHand, Busy, Steps
  <2> QED BY <2>1, <2>2, <2>3, <2>4, <2>5
<1>4. CASE PostGoesOut(w)
  <2>1. RowTypes' /\ ListTypes' /\ SnapshotFits' /\ ServiceTypes' /\ SpentTypes' /\
       CommandInHand'
    BY <1>4 DEF PostGoesOut, rowVars, listVars, factoryVars, spentVars, RowTypes, ListTypes,
      SnapshotFits, ServiceTypes, SpentTypes, CommandInHand
  <2>2. WorkerTypes'
    BY <1>4 DEF PostGoesOut, At, rowVars, listVars, factoryVars, spentVars, RowTypes,
      WorkerTypes, Steps, Roles, IntentStatus, PublicationStatus
  <2>3. WorldTypes'
    <3>1. msg[w] \in Targets
      BY <1>4 DEF PostGoesOut, At, CommandInHand, Busy, Steps
    <3> QED BY <1>4, <3>1 DEF PostGoesOut, WorldTypes
  <2> QED BY <2>1, <2>2, <2>3
<1>5. CASE AdapterSucceeds(w)
  BY <1>5 DEF AdapterSucceeds, At, Goto, rowVars, listVars, factoryVars, worldVars,
    spentVars, restVars, RowTypes, WorkerTypes, SnapshotFits, IntentStatus, TargetStatus,
    PublicationStatus, ListTypes, CommandInHand, Busy, Steps, Roles, ServiceTypes, WorldTypes,
    SpentTypes
<1>6. CASE AdapterFailsEarly(w)
  BY <1>6 DEF AdapterFailsEarly, At, Goto, rowVars, listVars, factoryVars, worldVars,
    spentVars, restVars, RowTypes, WorkerTypes, SnapshotFits, IntentStatus, TargetStatus,
    PublicationStatus, ListTypes, CommandInHand, Busy, Steps, Roles, ServiceTypes, WorldTypes,
    SpentTypes
<1>7. CASE AdapterFailsLate(w)
  BY <1>7 DEF AdapterFailsLate, At, Goto, rowVars, listVars, factoryVars, worldVars,
    spentVars, restVars, RowTypes, WorkerTypes, SnapshotFits, IntentStatus, TargetStatus,
    PublicationStatus, ListTypes, CommandInHand, Busy, Steps, Roles, ServiceTypes, WorldTypes,
    SpentTypes
<1>8. CASE AdapterTimesOut(w)
  <2>1. RowTypes' /\ ListTypes' /\ ServiceTypes' /\ SpentTypes'
    BY <1>8 DEF AdapterTimesOut, rowVars, listVars, factoryVars, spentVars, RowTypes,
      ListTypes, ServiceTypes, SpentTypes
  <2>2. WorkerTypes'
    BY <1>8 DEF AdapterTimesOut, At, Goto, rowVars, listVars, factoryVars, spentVars,
      RowTypes, WorkerTypes, Steps, Roles, IntentStatus, PublicationStatus
  <2>3. SnapshotFits'
    BY <1>8 DEF AdapterTimesOut, At, Goto, rowVars, listVars, factoryVars, spentVars,
      RowTypes, WorkerTypes, SnapshotFits, IntentStatus, PublicationStatus
  <2>4. WorldTypes'
    <3>1. msg[w] \in Targets
      BY <1>8 DEF AdapterTimesOut, At, CommandInHand, Busy, Steps
    <3> QED BY <1>8, <3>1 DEF AdapterTimesOut, WorldTypes
  <2>5. CommandInHand'
    BY <1>8 DEF AdapterTimesOut, At, Goto, rowVars, listVars, factoryVars, spentVars,
      WorkerTypes, CommandInHand, Busy, Steps
  <2> QED BY <2>1, <2>2, <2>3, <2>4, <2>5
<1>9. CASE Save(w)
  <2>1. RowTypes'
    BY <1>9 DEF Save, At, Goto, listVars, factoryVars, worldVars, spentVars, restVars,
      RowTypes, WorkerTypes, SnapshotFits, IntentStatus, TargetStatus, PublicationStatus
  <2>2. ListTypes' /\ ServiceTypes' /\ WorldTypes' /\ SpentTypes'
    BY <1>9 DEF Save, listVars, factoryVars, worldVars, spentVars, restVars, ListTypes,
      ServiceTypes, WorldTypes, SpentTypes
  <2>3. WorkerTypes'
    BY <1>9 DEF Save, At, Goto, listVars, factoryVars, worldVars, spentVars, restVars,
      RowTypes, WorkerTypes, Steps, Roles, IntentStatus, PublicationStatus
  <2>4. SnapshotFits'
    BY <1>9 DEF Save, At, Goto, listVars, factoryVars, worldVars, spentVars, restVars,
      RowTypes, WorkerTypes, SnapshotFits, IntentStatus, PublicationStatus
  <2>5. CommandInHand'
    BY <1>9 DEF Save, At, Goto, listVars, factoryVars, worldVars, spentVars, restVars,
      WorkerTypes, CommandInHand, Busy, Steps
  <2> QED BY <2>1, <2>2, <2>3, <2>4, <2>5
<1>10. CASE Retry(w)
  <2>1. RowTypes'
    BY <1>10, PipelineAssumption DEF Retry, At, Goto, listVars, factoryVars, worldVars,
      spentVars, restVars, RowTypes, WorkerTypes, SnapshotFits, IntentStatus, TargetStatus,
      PublicationStatus, PipelineAssumption
  <2>2. ListTypes' /\ ServiceTypes' /\ WorldTypes' /\ SpentTypes'
    BY <1>10 DEF Retry, listVars, factoryVars, worldVars, spentVars, restVars, ListTypes,
      ServiceTypes, WorldTypes, SpentTypes
  <2>3. WorkerTypes'
    BY <1>10 DEF Retry, At, Goto, listVars, factoryVars, worldVars, spentVars, restVars,
      RowTypes, WorkerTypes, Steps, Roles, IntentStatus, PublicationStatus
  <2>4. SnapshotFits'
    BY <1>10 DEF Retry, At, Goto, listVars, factoryVars, worldVars, spentVars, restVars,
      RowTypes, WorkerTypes, SnapshotFits, IntentStatus, PublicationStatus
  <2>5. CommandInHand'
    BY <1>10 DEF Retry, At, Goto, listVars, factoryVars, worldVars, spentVars, restVars,
      WorkerTypes, CommandInHand, Busy, Steps
  <2> QED BY <2>1, <2>2, <2>3, <2>4, <2>5
<1>11. CASE Reject(w)
  <2>1. RowTypes'
    BY <1>11 DEF Reject, Goto, listVars, factoryVars, worldVars, spentVars, restVars,
      RowTypes, WorkerTypes, SnapshotFits, IntentStatus, TargetStatus, PublicationStatus
  <2>2. ListTypes' /\ ServiceTypes' /\ WorldTypes' /\ SpentTypes'
    BY <1>11 DEF Reject, listVars, factoryVars, worldVars, spentVars, restVars, ListTypes,
      ServiceTypes, WorldTypes, SpentTypes
  <2>3. WorkerTypes'
    BY <1>11 DEF Reject, Goto, listVars, factoryVars, worldVars, spentVars, restVars,
      RowTypes, WorkerTypes, Steps, Roles, IntentStatus, PublicationStatus
  <2>4. SnapshotFits'
    BY <1>11 DEF Reject, Goto, listVars, factoryVars, worldVars, spentVars, restVars,
      RowTypes, WorkerTypes, SnapshotFits, IntentStatus, PublicationStatus
  <2>5. CommandInHand'
    BY <1>11 DEF Reject, Goto, listVars, factoryVars, worldVars, spentVars, restVars,
      WorkerTypes, CommandInHand, Busy, Steps
  <2> QED BY <2>1, <2>2, <2>3, <2>4, <2>5
<1>12. CASE Catch(w)
  <2>1. RowTypes' /\ ListTypes' /\ ServiceTypes' /\ WorldTypes' /\ SpentTypes'
    BY <1>12 DEF Catch, rowVars, listVars, factoryVars, worldVars, spentVars, restVars,
      RowTypes, ListTypes, ServiceTypes, WorldTypes, SpentTypes
  <2>2. WorkerTypes'
    BY <1>12 DEF Catch, At, Goto, rowVars, listVars, factoryVars, worldVars, spentVars,
      restVars, RowTypes, WorkerTypes, Steps, Roles, IntentStatus, PublicationStatus
  <2>3. SnapshotFits'
    BY <1>12 DEF Catch, At, Goto, rowVars, listVars, factoryVars, worldVars, spentVars,
      restVars, RowTypes, WorkerTypes, SnapshotFits, IntentStatus, PublicationStatus
  <2>4. CommandInHand'
    BY <1>12 DEF Catch, At, Goto, rowVars, listVars, factoryVars, worldVars, spentVars,
      restVars, WorkerTypes, CommandInHand, Busy, Steps
  <2> QED BY <2>1, <2>2, <2>3, <2>4
<1> QED BY <1>1, <1>2, <1>3, <1>4, <1>5, <1>6, <1>7, <1>8, <1>9, <1>10, <1>11, <1>12

\* ... mirroring the outcome and acknowledging the command ...
LEMMA OutcomeWellFormed ==
  ASSUME WellFormed, NEW w \in Workers,
         \/ Sync(w)
         \/ Mirror(w)
         \/ Tally(w)
         \/ Settle(w)
         \/ PushDlq(w)
         \/ Requeue(w)
         \/ Ack(w)
  PROVE  WellFormed'
<1> USE DEF WellFormed, TypeOK
<1>1. CASE Sync(w)
  <2>1. RowTypes' /\ ListTypes' /\ ServiceTypes' /\ WorldTypes' /\ SpentTypes'
    BY <1>1 DEF Sync, rowVars, listVars, factoryVars, worldVars, spentVars, restVars,
      RowTypes, ListTypes, ServiceTypes, WorldTypes, SpentTypes
  <2>2. WorkerTypes' /\ SnapshotFits'
    <3>1. msg[w] \in Targets
      BY <1>1 DEF Sync, At, CommandInHand, Busy, Steps
    <3>2. PublicationOf(msg[w]) \in PublicationStatus
      BY <3>1, OutcomeTypes
    <3> HIDE DEF PublicationStatus
    <3> QED
      BY <1>1, <3>2 DEF Sync, At, Goto, WorkerTypes, SnapshotFits, Steps, restVars
  <2>3. CommandInHand'
    BY <1>1, OutcomeTypes DEF Sync, At, Goto, rowVars, listVars, factoryVars, worldVars,
      spentVars, restVars, WorkerTypes, CommandInHand, Busy, Steps
  <2> QED BY <2>1, <2>2, <2>3
<1>2. CASE Mirror(w)
  <2>1. RowTypes'
    BY <1>2 DEF Mirror, At, Goto, Acknowledge, listVars, factoryVars, worldVars, spentVars,
      restVars, RowTypes, WorkerTypes, SnapshotFits, IntentStatus, TargetStatus,
      PublicationStatus
  <2>2. ListTypes' /\ ServiceTypes' /\ WorldTypes' /\ SpentTypes'
    BY <1>2 DEF Mirror, listVars, factoryVars, worldVars, spentVars, restVars, ListTypes,
      ServiceTypes, WorldTypes, SpentTypes
  <2>3. WorkerTypes'
    BY <1>2 DEF Mirror, At, Goto, Acknowledge, listVars, factoryVars, worldVars, spentVars,
      restVars, RowTypes, WorkerTypes, Steps, Roles, IntentStatus, PublicationStatus
  <2>4. SnapshotFits'
    BY <1>2 DEF Mirror, At, Goto, Acknowledge, listVars, factoryVars, worldVars, spentVars,
      restVars, RowTypes, WorkerTypes, SnapshotFits, IntentStatus, PublicationStatus
  <2>5. CommandInHand'
    BY <1>2 DEF Mirror, At, Goto, Acknowledge, listVars, factoryVars, worldVars, spentVars,
      restVars, WorkerTypes, CommandInHand, Busy, Steps
  <2> QED BY <2>1, <2>2, <2>3, <2>4, <2>5
<1>3. CASE Tally(w)
  <2>1. RowTypes' /\ ListTypes' /\ ServiceTypes' /\ WorldTypes' /\ SpentTypes'
    BY <1>3 DEF Tally, rowVars, listVars, factoryVars, worldVars, spentVars, restVars,
      RowTypes, ListTypes, ServiceTypes, WorldTypes, SpentTypes
  <2>2. WorkerTypes'
    BY <1>3, OutcomeTypes DEF Tally, At, Goto, rowVars, listVars, factoryVars, worldVars,
      spentVars, restVars, RowTypes, WorkerTypes, Steps, Roles, IntentStatus,
      PublicationStatus
  <2>3. SnapshotFits'
    BY <1>3, OutcomeTypes DEF Tally, At, Goto, rowVars, listVars, factoryVars, worldVars,
      spentVars, restVars, RowTypes, WorkerTypes, SnapshotFits, IntentStatus,
      PublicationStatus
  <2>4. CommandInHand'
    BY <1>3, OutcomeTypes DEF Tally, At, Goto, rowVars, listVars, factoryVars, worldVars,
      spentVars, restVars, WorkerTypes, CommandInHand, Busy, Steps
  <2> QED BY <2>1, <2>2, <2>3, <2>4
<1>4. CASE Settle(w)
  <2>1. RowTypes'
    BY <1>4 DEF Settle, At, Goto, Finish, Acknowledge, listVars, factoryVars, worldVars,
      spentVars, restVars, RowTypes, WorkerTypes, SnapshotFits, IntentStatus, TargetStatus,
      PublicationStatus
  <2>2. ListTypes' /\ ServiceTypes' /\ WorldTypes' /\ SpentTypes'
    BY <1>4 DEF Settle, listVars, factoryVars, worldVars, spentVars, restVars, ListTypes,
      ServiceTypes, WorldTypes, SpentTypes
  <2>3. WorkerTypes' /\ SnapshotFits' /\ CommandInHand'
    <3>1. CASE role[w] = "final"
      BY <1>4, <3>1, FinishTypes DEF Settle, restVars
    <3>2. CASE role[w] # "final"
      BY <1>4, <3>2 DEF Settle, At, Goto, Acknowledge, WorkerTypes, SnapshotFits,
          CommandInHand, Busy, Steps, Roles, PublicationStatus, restVars
    <3> QED BY <3>1, <3>2
  <2> QED BY <2>1, <2>2, <2>3
<1>5. CASE PushDlq(w)
  <2>1. RowTypes' /\ ServiceTypes' /\ WorldTypes' /\ SpentTypes'
    BY <1>5 DEF PushDlq, rowVars, factoryVars, worldVars, spentVars, restVars, RowTypes,
      ServiceTypes, WorldTypes, SpentTypes
  <2>2. ListTypes'
    BY <1>5, BagTypes DEF PushDlq, At, Goto, rowVars, factoryVars, worldVars, spentVars,
      restVars, ListTypes, CommandInHand, Busy, Steps, WorkerTypes
  <2>3. WorkerTypes'
    BY <1>5 DEF PushDlq, At, Goto, rowVars, factoryVars, worldVars, spentVars, restVars,
      RowTypes, WorkerTypes, Steps, Roles, IntentStatus, PublicationStatus
  <2>4. SnapshotFits'
    BY <1>5 DEF PushDlq, At, Goto, rowVars, factoryVars, worldVars, spentVars, restVars,
      RowTypes, WorkerTypes, SnapshotFits, IntentStatus, PublicationStatus
  <2>5. CommandInHand'
    BY <1>5 DEF PushDlq, At, Goto, rowVars, factoryVars, worldVars, spentVars, restVars,
      WorkerTypes, CommandInHand, Busy, Steps
  <2> QED BY <2>1, <2>2, <2>3, <2>4, <2>5
<1>6. CASE Requeue(w)
  <2>1. RowTypes' /\ ServiceTypes' /\ WorldTypes' /\ SpentTypes'
    BY <1>6 DEF Requeue, rowVars, factoryVars, worldVars, spentVars, restVars, RowTypes,
      ServiceTypes, WorldTypes, SpentTypes
  <2>2. ListTypes'
    BY <1>6, BagTypes DEF Requeue, At, Goto, rowVars, factoryVars, worldVars, spentVars,
      restVars, ListTypes, CommandInHand, Busy, Steps, WorkerTypes
  <2>3. WorkerTypes'
    BY <1>6 DEF Requeue, At, Goto, Put, rowVars, factoryVars, worldVars, spentVars,
      restVars, RowTypes, WorkerTypes, Steps, Roles, IntentStatus, PublicationStatus
  <2>4. SnapshotFits'
    BY <1>6 DEF Requeue, At, Goto, Put, rowVars, factoryVars, worldVars, spentVars,
      restVars, RowTypes, WorkerTypes, SnapshotFits, IntentStatus, PublicationStatus
  <2>5. CommandInHand'
    BY <1>6 DEF Requeue, At, Goto, Put, rowVars, factoryVars, worldVars, spentVars,
      restVars, WorkerTypes, CommandInHand, Busy, Steps
  <2> QED BY <2>1, <2>2, <2>3, <2>4, <2>5
<1>7. CASE Ack(w)
  <2>1. RowTypes' /\ ServiceTypes' /\ WorldTypes' /\ SpentTypes'
    BY <1>7 DEF Ack, rowVars, factoryVars, worldVars, spentVars, restVars, RowTypes,
      ServiceTypes, WorldTypes, SpentTypes
  <2>2. ListTypes'
    BY <1>7, BagTypes DEF Ack, At, Goto, Finish, rowVars, factoryVars, worldVars, spentVars,
      restVars, ListTypes, CommandInHand, Busy, Steps, WorkerTypes
  <2>3. WorkerTypes' /\ SnapshotFits' /\ CommandInHand'
    <3>1. CASE role[w] \notin {"success", "reject"}
      BY <1>7, <3>1, FinishTypes DEF Ack, restVars
    <3>2. CASE role[w] \in {"success", "reject"}
      BY <1>7, <3>2 DEF Ack, At, Goto, Acknowledge, WorkerTypes, SnapshotFits,
          CommandInHand, Busy, Steps, Roles, PublicationStatus, restVars
    <3> QED BY <3>1, <3>2
  <2> QED BY <2>1, <2>2, <2>3
<1> QED BY <1>1, <1>2, <1>3, <1>4, <1>5, <1>6, <1>7

\* ... failures of a worker ...
LEMMA FaultWellFormed ==
  ASSUME WellFormed, NEW w \in Workers,
         \/ DbError(w)
         \/ Crash(w)
  PROVE  WellFormed'
<1> USE DEF WellFormed, TypeOK
<1>1. CASE DbError(w)
  <2>1. RowTypes' /\ ListTypes' /\ ServiceTypes' /\ WorldTypes'
    BY <1>1 DEF DbError, rowVars, listVars, factoryVars, worldVars, RowTypes, ListTypes,
      ServiceTypes, WorldTypes
  <2>2. WorkerTypes' /\ SnapshotFits' /\ CommandInHand'
    <3>1. CASE Finish(w)
      BY <1>1, <3>1, FinishTypes DEF DbError
    <3>2. CASE ~Finish(w)
      BY <1>1, <3>2 DEF DbError, Goto, Acknowledge, WorkerTypes, SnapshotFits, CommandInHand,
                       Busy, Steps, Roles, PublicationStatus
    <3> QED BY <3>1, <3>2
  <2>3. SpentTypes'
    BY <1>1 DEF DbError, Goto, Finish, Acknowledge, rowVars, listVars, factoryVars,
      worldVars, SpentTypes
  <2> QED BY <2>1, <2>2, <2>3
<1>2. CASE Crash(w)
  <2>1. RowTypes' /\ ServiceTypes'
    BY <1>2 DEF Crash, rowVars, factoryVars, RowTypes, ServiceTypes
  <2>2. ListTypes'
    <3>1. orphans' \in [Targets -> Nat]
      BY <1>2 DEF Crash, ListTypes
    <3>2. processing' \in [Workers -> [Targets -> Nat]]
      BY <1>2, BagTypes DEF Crash, ListTypes, EmptyBag
    <3> QED BY <1>2, <3>1, <3>2 DEF Crash, ListTypes
  <2>3. WorkerTypes'
      BY <1>2 DEF Crash, At, Goto, WorkerTypes, Steps, Roles, PublicationStatus
  <2>4. SnapshotFits'
    BY <1>2 DEF Crash, At, Goto, EmptyBag, rowVars, factoryVars, RowTypes, WorkerTypes,
      SnapshotFits, IntentStatus, PublicationStatus
  <2>5. WorldTypes'
    <3>1. pc[w] \in {"adapter", "save", "doubt"} => msg[w] \in Targets
      BY DEF CommandInHand, Busy, Steps
    <3>2. abandoned' \in [Targets -> Nat]
      BY <1>2, <3>1 DEF Crash, At, WorldTypes
    <3>3. excuses' \in [Targets -> Nat]
      BY <1>2, <3>1 DEF Crash, WorldTypes
    <3> QED BY <1>2, <3>2, <3>3 DEF Crash, WorldTypes
  <2>6. SpentTypes'
    BY <1>2 DEF Crash, At, Goto, EmptyBag, rowVars, factoryVars, SpentTypes
  <2>7. CommandInHand'
    BY <1>2 DEF Crash, At, Goto, EmptyBag, rowVars, factoryVars, WorkerTypes, CommandInHand,
      Busy, Steps
  <2> QED BY <2>1, <2>2, <2>3, <2>4, <2>5, <2>6, <2>7
<1> QED BY <1>1, <1>2

\* ... and the operator's request, with the late end of an abandoned call.
LEMMA RequestWellFormed ==
  ASSUME WellFormed, NEW t \in Targets,
         \/ \E effect \in BOOLEAN : AbandonedCallEnds(t, effect)
         \/ RetryReset(t)
         \/ RetryPush(t)
         \/ RetryMark(t)
         \/ RetryDies(t)
  PROVE  WellFormed'
<1> USE DEF WellFormed, TypeOK
<1>1. ASSUME NEW effect \in BOOLEAN, AbandonedCallEnds(t, effect) PROVE WellFormed'
  BY <1>1 DEF AbandonedCallEnds, rowVars, listVars, workerVars, factoryVars, spentVars,
    RowTypes, WorkerTypes, SnapshotFits, IntentStatus, TargetStatus, PublicationStatus,
    ListTypes, CommandInHand, Busy, Steps, Roles, ServiceTypes, WorldTypes, SpentTypes
<1>2. CASE RetryReset(t)
  BY <1>2, PipelineAssumption DEF RetryReset, listVars, workerVars, factoryVars, RowTypes,
    WorkerTypes, SnapshotFits, IntentStatus, TargetStatus, PublicationStatus, ListTypes,
    CommandInHand, Busy, Steps, Roles, ServiceTypes, WorldTypes, SpentTypes,
    PipelineAssumption
<1>3. CASE RetryPush(t)
  BY <1>3 DEF RetryPush, Put, rowVars, workerVars, factoryVars, worldVars, spentVars,
    RowTypes, WorkerTypes, SnapshotFits, IntentStatus, TargetStatus, PublicationStatus,
    ListTypes, CommandInHand, Busy, Steps, Roles, ServiceTypes, WorldTypes, SpentTypes
<1>4. CASE RetryMark(t)
  BY <1>4 DEF RetryMark, listVars, workerVars, factoryVars, worldVars, spentVars, RowTypes,
    WorkerTypes, SnapshotFits, IntentStatus, TargetStatus, PublicationStatus, ListTypes,
    CommandInHand, Busy, Steps, Roles, ServiceTypes, WorldTypes, SpentTypes
<1>5. CASE RetryDies(t)
  BY <1>5 DEF RetryDies, rowVars, listVars, workerVars, factoryVars, worldVars, RowTypes,
    WorkerTypes, SnapshotFits, IntentStatus, TargetStatus, PublicationStatus, ListTypes,
    CommandInHand, Busy, Steps, Roles, ServiceTypes, WorldTypes, SpentTypes
<1> QED BY <1>1, <1>2, <1>3, <1>4, <1>5

\* Every step keeps the state well-formed.
LEMMA NextWellFormed == WellFormed /\ [Next]_vars => WellFormed'
<1> SUFFICES ASSUME WellFormed, [Next]_vars PROVE WellFormed'
  OBVIOUS
<1>1. ASSUME NEW f \in Factories, FactoryNext(f) PROVE WellFormed'
  BY <1>1, FactoryWellFormed DEF FactoryNext, Scheduler, Flusher
<1>2. ASSUME NEW w \in Workers, Start(w) \/ Recovery(w) PROVE WellFormed'
  BY <1>2, RecoveryWellFormed DEF Recovery
<1>3. ASSUME NEW w \in Workers, Adapter(w) \/ Processing(w) PROVE WellFormed'
  BY <1>3, AttemptWellFormed, OutcomeWellFormed DEF Adapter, Processing
<1>4. ASSUME NEW t \in Targets, RequestNext(t) PROVE WellFormed'
  BY <1>4, RequestWellFormed DEF RequestNext
<1>5. CASE Environment
  BY <1>5, FactoryWellFormed, RequestWellFormed, FaultWellFormed DEF Environment
<1>6. CASE UNCHANGED vars
  BY <1>6 DEF vars, rowVars, listVars, workerVars, factoryVars, worldVars, spentVars,
    WellFormed, TypeOK, RowTypes, ListTypes, WorkerTypes, ServiceTypes, WorldTypes,
    SpentTypes, SnapshotFits, CommandInHand
<1> QED
  BY <1>1, <1>2, <1>3, <1>4, <1>5, <1>6 DEF Next

\* Type correctness: every reachable state is well-formed.
THEOREM WellFormedness == Spec => []WellFormed
  BY InitWellFormed, NextWellFormed, PTL DEF Spec

-----------------------------------------------------------------------------
(* Frames: steps that have nothing to do with claims *)

\* What claims, posts and outcomes are made of.
claimVars == <<target, retries, pc, msg, posted, posts, abandoned, excuses, dbErrors>>

Bystander ==
  \/ \E i \in Intents : BecomesDue(i) \/ \E past \in BOOLEAN : Reschedule(i, past)
  \/ \E f \in Factories : \/ SelectDue(f) \/ FlushCommit(f)
                          \/ \E t \in Targets : FlushPush(f, t)
                          \/ \E old \in SUBSET Targets : FactoryRestart(f, old)
  \/ \E t \in Targets : RetryPush(t) \/ RetryMark(t) \/ RetryDies(t)

Housekeeping(w) ==
  \/ Start(w) \/ RecoverPut(w) \/ RecoverDone(w) \/ RepairIntents(w)
  \/ \E t \in Targets : RecoverTake(w, t) \/ Receive(w, t)
  \/ Read(w) \/ Sync(w) \/ Mirror(w) \/ Tally(w) \/ Settle(w)
  \/ PushDlq(w) \/ Requeue(w) \/ Ack(w)

\* The content factory's queue work and the operator's pushes touch no claim.
LEMMA BystanderFrame == Bystander => UNCHANGED claimVars
  BY DEF Bystander, claimVars, BecomesDue, Reschedule, SelectDue, FlushPush, FlushCommit,
    FactoryRestart, RetryPush, RetryMark, RetryDies, rowVars, listVars, workerVars,
    factoryVars, worldVars, spentVars

Unclaimed == Steps \ (Claimed \cup {"catch"})

\* A worker that recovers, or that reads, mirrors and acknowledges, has no claim
\* before or after the step and changes no target.
LEMMA HousekeepingFrame ==
  ASSUME WellFormed, OutcomesBacked, NEW w \in Workers, Housekeeping(w)
  PROVE  /\ UNCHANGED <<target, retries, posts, abandoned, excuses, dbErrors>>
         /\ pc[w] \in Unclaimed /\ pc'[w] \in Unclaimed
         /\ posted'[w] => pc'[w] \in Busy \ {"read", "claim"}
         /\ \A v \in Workers \ {w} :
              pc'[v] = pc[v] /\ msg'[v] = msg[v] /\ posted'[v] = posted[v]
<1> DEFINE Goal == /\ UNCHANGED <<target, retries, posts, abandoned, excuses, dbErrors>>
                   /\ pc[w] \in Unclaimed /\ pc'[w] \in Unclaimed
                   /\ posted'[w] => pc'[w] \in Busy \ {"read", "claim"}
                   /\ \A v \in Workers \ {w} :
                        pc'[v] = pc[v] /\ msg'[v] = msg[v] /\ posted'[v] = posted[v]
<1>1. WorkerTypes /\ (posted[w] => pc[w] \in Busy \ {"read", "claim"})
  BY DEF WellFormed, TypeOK, OutcomesBacked
<1>2. CASE Start(w)
  BY <1>1, <1>2 DEF Start, At, Goto, rowVars, listVars, factoryVars, worldVars, spentVars,
    WorkerTypes, Busy, Steps, Claimed, Unclaimed
<1>3. ASSUME NEW t \in Targets, RecoverTake(w, t) PROVE Goal
  BY <1>1, <1>3 DEF RecoverTake, At, rowVars, factoryVars, worldVars, spentVars, restVars,
    WorkerTypes, Busy, Steps, Claimed, Unclaimed
<1>4. CASE RecoverPut(w)
  BY <1>1, <1>4 DEF RecoverPut, At, rowVars, factoryVars, worldVars, spentVars, restVars,
    WorkerTypes, Busy, Steps, Claimed, Unclaimed
<1>5. CASE RecoverDone(w)
  BY <1>1, <1>5 DEF RecoverDone, At, Goto, rowVars, listVars, factoryVars, worldVars,
    spentVars, WorkerTypes, Busy, Steps, Claimed, Unclaimed
<1>6. CASE RepairIntents(w)
  BY <1>1, <1>6 DEF RepairIntents, At, Goto, listVars, factoryVars, worldVars, spentVars,
    restVars, WorkerTypes, Busy, Steps, Claimed, Unclaimed
<1>7. ASSUME NEW t \in Targets, Receive(w, t) PROVE Goal
  BY <1>1, <1>7 DEF Receive, At, Goto, rowVars, factoryVars, worldVars, spentVars, restVars,
    WorkerTypes, Busy, Steps, Claimed, Unclaimed
<1>8. CASE Read(w)
  BY <1>1, <1>8 DEF Read, At, Goto, AfterRead, rowVars, listVars, factoryVars, worldVars,
    spentVars, restVars, WorkerTypes, Busy, Steps, Claimed, Unclaimed
<1>9. CASE Sync(w)
  BY <1>1, <1>9 DEF Sync, At, Goto, rowVars, listVars, factoryVars, worldVars, spentVars,
    restVars, WorkerTypes, Busy, Steps, Claimed, Unclaimed
<1>10. CASE Mirror(w)
  BY <1>1, <1>10 DEF Mirror, At, Goto, Acknowledge, listVars, factoryVars, worldVars,
    spentVars, restVars, WorkerTypes, Busy, Steps, Claimed, Unclaimed
<1>11. CASE Tally(w)
  BY <1>1, <1>11 DEF Tally, At, Goto, rowVars, listVars, factoryVars, worldVars, spentVars,
    restVars, WorkerTypes, Busy, Steps, Claimed, Unclaimed
<1>12. CASE Settle(w)
  BY <1>1, <1>12 DEF Settle, At, Goto, Finish, Acknowledge, listVars, factoryVars,
    worldVars, spentVars, restVars, WorkerTypes, Busy, Steps, Claimed, Unclaimed
<1>13. CASE PushDlq(w)
  BY <1>1, <1>13 DEF PushDlq, At, Goto, rowVars, factoryVars, worldVars, spentVars,
    restVars, WorkerTypes, Busy, Steps, Claimed, Unclaimed
<1>14. CASE Requeue(w)
  BY <1>1, <1>14 DEF Requeue, At, Goto, rowVars, factoryVars, worldVars, spentVars,
    restVars, WorkerTypes, Busy, Steps, Claimed, Unclaimed
<1>15. CASE Ack(w)
  BY <1>1, <1>15 DEF Ack, At, Goto, Finish, rowVars, factoryVars, worldVars, spentVars,
    restVars, WorkerTypes, Busy, Steps, Claimed, Unclaimed
<1> QED
  BY <1>2, <1>3, <1>4, <1>5, <1>6, <1>7, <1>8, <1>9, <1>10, <1>11, <1>12, <1>13, <1>14,
    <1>15 DEF Housekeeping

\* The steps that move a claim or a target.
Moves ==
  \/ \E i \in Intents : PublishNow(i) \/ \E f \in Factories : DispatchSelected(f, i)
  \/ \E w \in Workers :
       \/ \E old \in SUBSET Targets : RepairStale(w, old)
       \/ Claim(w) \/ Save(w) \/ Retry(w) \/ Reject(w) \/ Adapter(w)
       \/ DbError(w) \/ Catch(w) \/ Crash(w)
  \/ \E t \in Targets : RetryReset(t) \/ \E effect \in BOOLEAN : AbandonedCallEnds(t, effect)

\* A step is one of these or one of the few that move claims.
LEMMA StepKinds == Next => Bystander \/ (\E w \in Workers : Housekeeping(w)) \/ Moves
  BY DEF Next, FactoryNext, Scheduler, Flusher, Recovery, Processing, RequestNext,
    Environment, Bystander, Housekeeping, Moves

-----------------------------------------------------------------------------
(* The claim discipline *)

\* Every step keeps the claims exclusive and the outcomes backed.
LEMMA ClaimStep ==
  ASSUME WellFormed, SingleClaimant, OutcomesBacked, PublishedWasPosted, Next
  PROVE  SingleClaimant' /\ OutcomesBacked' /\ PublishedWasPosted'
<1>1. /\ pc \in [Workers -> Steps] /\ msg \in [Workers -> Targets \cup {NoTarget}]
     /\ posted \in [Workers -> BOOLEAN] /\ target \in [Targets -> TargetStatus]
     /\ retries \in [Targets -> 0..MaxRetries] /\ MaxRetries \in Nat
     /\ posts \in [Targets -> Nat] /\ dbErrors \in Nat /\ CommandInHand
  BY PipelineAssumption DEF PipelineAssumption, WellFormed, TypeOK, WorkerTypes, RowTypes,
    WorldTypes, SpentTypes
<1>2. CASE Bystander
  BY <1>2, BystanderFrame DEF claimVars, SingleClaimant, OutcomesBacked, PublishedWasPosted,
    Attempting
<1>3. ASSUME NEW w \in Workers, Housekeeping(w) PROVE SingleClaimant' /\ OutcomesBacked' /\ PublishedWasPosted'
  BY <1>1, <1>3, HousekeepingFrame DEF Unclaimed, SingleClaimant, OutcomesBacked,
    PublishedWasPosted, Attempting, Claimed, Busy, Steps
<1>4. ASSUME NEW i \in Intents, PublishNow(i) PROVE SingleClaimant' /\ OutcomesBacked' /\ PublishedWasPosted'
  BY <1>1, <1>4 DEF PublishNow, Dispatch, listVars, workerVars, factoryVars, worldVars,
    spentVars, SingleClaimant, OutcomesBacked, PublishedWasPosted, Attempting, Claimed,
    CommandInHand, Busy, Steps, TargetStatus
<1>5. ASSUME NEW f \in Factories, NEW i \in Intents, DispatchSelected(f, i) PROVE SingleClaimant' /\ OutcomesBacked' /\ PublishedWasPosted'
  BY <1>1, <1>5 DEF DispatchSelected, Dispatch, rowVars, listVars, workerVars, worldVars,
    spentVars, SingleClaimant, OutcomesBacked, PublishedWasPosted, Attempting, Claimed,
    CommandInHand, Busy, Steps, TargetStatus
<1>6. ASSUME NEW w \in Workers, NEW old \in SUBSET Targets, RepairStale(w, old) PROVE SingleClaimant' /\ OutcomesBacked' /\ PublishedWasPosted'
  BY <1>1, <1>6 DEF RepairStale, At, Goto, StaleCandidates, Attempting, listVars,
    factoryVars, worldVars, spentVars, restVars, SingleClaimant, OutcomesBacked,
    PublishedWasPosted, Claimed, CommandInHand, Busy, Steps, TargetStatus
<1>7. ASSUME NEW w \in Workers, Claim(w) PROVE SingleClaimant' /\ OutcomesBacked' /\ PublishedWasPosted'
  BY <1>1, <1>7 DEF Claim, At, Goto, listVars, factoryVars, worldVars, spentVars, restVars,
    SingleClaimant, OutcomesBacked, PublishedWasPosted, Attempting, Claimed, CommandInHand,
    Busy, Steps, TargetStatus
<1>8. ASSUME NEW w \in Workers, PostGoesOut(w) PROVE SingleClaimant' /\ OutcomesBacked' /\ PublishedWasPosted'
  BY <1>1, <1>8 DEF PostGoesOut, At, rowVars, listVars, factoryVars, spentVars,
    SingleClaimant, OutcomesBacked, PublishedWasPosted, Attempting, Claimed, CommandInHand,
    Busy, Steps, TargetStatus
<1>9. ASSUME NEW w \in Workers, AdapterSucceeds(w) PROVE SingleClaimant' /\ OutcomesBacked' /\ PublishedWasPosted'
  BY <1>1, <1>9 DEF AdapterSucceeds, At, Goto, rowVars, listVars, factoryVars, worldVars,
    spentVars, restVars, SingleClaimant, OutcomesBacked, PublishedWasPosted, Attempting,
    Claimed, CommandInHand, Busy, Steps, TargetStatus
<1>10. ASSUME NEW w \in Workers, AdapterFailsEarly(w) PROVE SingleClaimant' /\ OutcomesBacked' /\ PublishedWasPosted'
  BY <1>1, <1>10 DEF AdapterFailsEarly, At, Goto, rowVars, listVars, factoryVars, worldVars,
    spentVars, restVars, SingleClaimant, OutcomesBacked, PublishedWasPosted, Attempting,
    Claimed, CommandInHand, Busy, Steps, TargetStatus
<1>11. ASSUME NEW w \in Workers, AdapterFailsLate(w) PROVE SingleClaimant' /\ OutcomesBacked' /\ PublishedWasPosted'
  BY <1>1, <1>11 DEF AdapterFailsLate, At, Goto, rowVars, listVars, factoryVars, worldVars,
    spentVars, restVars, SingleClaimant, OutcomesBacked, PublishedWasPosted, Attempting,
    Claimed, CommandInHand, Busy, Steps, TargetStatus
<1>12. ASSUME NEW w \in Workers, AdapterTimesOut(w) PROVE SingleClaimant' /\ OutcomesBacked' /\ PublishedWasPosted'
  BY <1>1, <1>12 DEF AdapterTimesOut, At, Goto, rowVars, listVars, factoryVars, spentVars,
    SingleClaimant, OutcomesBacked, PublishedWasPosted, Attempting, Claimed, CommandInHand,
    Busy, Steps, TargetStatus
<1>13. ASSUME NEW t \in Targets, NEW effect \in BOOLEAN, AbandonedCallEnds(t, effect) PROVE SingleClaimant' /\ OutcomesBacked' /\ PublishedWasPosted'
  BY <1>1, <1>13 DEF AbandonedCallEnds, rowVars, listVars, workerVars, factoryVars,
    spentVars, SingleClaimant, OutcomesBacked, PublishedWasPosted, Attempting, Claimed,
    CommandInHand, Busy, Steps, TargetStatus
<1>14. ASSUME NEW w \in Workers, Save(w) PROVE SingleClaimant' /\ OutcomesBacked' /\ PublishedWasPosted'
  BY <1>1, <1>14 DEF Save, At, Goto, listVars, factoryVars, worldVars, spentVars, restVars,
    SingleClaimant, OutcomesBacked, PublishedWasPosted, Attempting, Claimed, CommandInHand,
    Busy, Steps, TargetStatus
<1>15. ASSUME NEW w \in Workers, Retry(w) PROVE SingleClaimant' /\ OutcomesBacked' /\ PublishedWasPosted'
  BY <1>1, <1>15 DEF Retry, At, Goto, listVars, factoryVars, worldVars, spentVars, restVars,
    SingleClaimant, OutcomesBacked, PublishedWasPosted, Attempting, Claimed, CommandInHand,
    Busy, Steps, TargetStatus
<1>16. ASSUME NEW w \in Workers, Reject(w) PROVE SingleClaimant' /\ OutcomesBacked' /\ PublishedWasPosted'
  BY <1>1, <1>16 DEF Reject, Goto, listVars, factoryVars, worldVars, spentVars, restVars,
    SingleClaimant, OutcomesBacked, PublishedWasPosted, Attempting, Claimed, CommandInHand,
    Busy, Steps, TargetStatus
<1>17. ASSUME NEW w \in Workers, DbError(w) PROVE SingleClaimant' /\ OutcomesBacked' /\ PublishedWasPosted'
  BY <1>1, <1>17 DEF DbError, Goto, Finish, Acknowledge, rowVars, listVars, factoryVars,
    worldVars, SingleClaimant, OutcomesBacked, PublishedWasPosted, Attempting, Claimed,
    CommandInHand, Busy, Steps, TargetStatus
<1>18. ASSUME NEW w \in Workers, Catch(w) PROVE SingleClaimant' /\ OutcomesBacked' /\ PublishedWasPosted'
  BY <1>1, <1>18 DEF Catch, At, Goto, rowVars, listVars, factoryVars, worldVars, spentVars,
    restVars, SingleClaimant, OutcomesBacked, PublishedWasPosted, Attempting, Claimed,
    CommandInHand, Busy, Steps, TargetStatus
<1>19. ASSUME NEW w \in Workers, Crash(w) PROVE SingleClaimant' /\ OutcomesBacked' /\ PublishedWasPosted'
  BY <1>1, <1>19 DEF Crash, At, Goto, rowVars, factoryVars, SingleClaimant, OutcomesBacked,
    PublishedWasPosted, Attempting, Claimed, CommandInHand, Busy, Steps, TargetStatus
<1>20. ASSUME NEW t \in Targets, RetryReset(t) PROVE SingleClaimant' /\ OutcomesBacked' /\ PublishedWasPosted'
  BY <1>1, <1>20 DEF RetryReset, listVars, workerVars, factoryVars, SingleClaimant,
    OutcomesBacked, PublishedWasPosted, Attempting, Claimed, CommandInHand, Busy, Steps,
    TargetStatus
<1> QED
  BY StepKinds, <1>2, <1>3, <1>4, <1>5, <1>6, <1>7, <1>8, <1>9, <1>10, <1>11, <1>12, <1>13,
    <1>14, <1>15, <1>16, <1>17, <1>18, <1>19, <1>20 DEF Moves, Adapter

-----------------------------------------------------------------------------
(* Accounting for posts *)

\* Nothing starts to move for an intent before it is dispatched.
LEMMA QuietStep ==
  ASSUME WellFormed, UndispatchedIsQuiet, Next
  PROVE  UndispatchedIsQuiet'
<1>1. /\ IntentOf \in [Targets -> Intents] /\ NoTarget \notin Targets
     /\ RowTypes /\ ListTypes /\ WorkerTypes /\ ServiceTypes /\ WorldTypes
     /\ dbErrors \in Nat /\ SnapshotFits /\ CommandInHand
  BY PipelineAssumption DEF PipelineAssumption, WellFormed, TypeOK, SpentTypes
<1>2. CASE UNCHANGED <<intent, target, outbox, request, commands, orphans, processing, msg, flushing>>
  BY <1>2 DEF UndispatchedIsQuiet
<1>3. ASSUME NEW w \in Workers,
             Start(w) \/ RecoverDone(w) \/ Read(w) \/ PostGoesOut(w) \/ AdapterSucceeds(w)
               \/ AdapterFailsEarly(w) \/ AdapterFailsLate(w) \/ AdapterTimesOut(w) \/
               Sync(w) \/ Mirror(w) \/ Tally(w) \/ PushDlq(w) \/ Catch(w)
      PROVE  UndispatchedIsQuiet'
  BY <1>2, <1>3 DEF Start, RecoverDone, Read, PostGoesOut, AdapterSucceeds,
    AdapterFailsEarly, AdapterFailsLate, AdapterTimesOut, Sync, Mirror, Tally, PushDlq, Catch,
    rowVars, listVars, factoryVars, worldVars, spentVars, restVars
<1>4. ASSUME NEW i \in Intents, BecomesDue(i) PROVE UndispatchedIsQuiet'
  BY <1>2, <1>4 DEF BecomesDue, listVars, workerVars, factoryVars, worldVars, spentVars
<1>5. ASSUME NEW f \in Factories, SelectDue(f) PROVE UndispatchedIsQuiet'
  BY <1>2, <1>5 DEF SelectDue, rowVars, listVars, workerVars, worldVars, spentVars
<1>6. ASSUME NEW t \in Targets, NEW effect \in BOOLEAN, AbandonedCallEnds(t, effect) PROVE UndispatchedIsQuiet'
  BY <1>2, <1>6 DEF AbandonedCallEnds, rowVars, listVars, workerVars, factoryVars, spentVars
<1>7. ASSUME NEW i \in Intents, PublishNow(i) PROVE UndispatchedIsQuiet'
  BY <1>1, <1>7 DEF PublishNow, Dispatch, listVars, workerVars, factoryVars, worldVars,
    spentVars, UndispatchedIsQuiet, SnapshotFits, CommandInHand, Busy, Steps, RowTypes,
    ListTypes, WorkerTypes, ServiceTypes
<1>8. ASSUME NEW i \in Intents, NEW past \in BOOLEAN, Reschedule(i, past) PROVE UndispatchedIsQuiet'
  BY <1>1, <1>8 DEF Reschedule, listVars, workerVars, factoryVars, worldVars,
    UndispatchedIsQuiet, SnapshotFits, CommandInHand, Busy, Steps, RowTypes, ListTypes,
    WorkerTypes, ServiceTypes
<1>9. ASSUME NEW f \in Factories, NEW i \in Intents, DispatchSelected(f, i) PROVE UndispatchedIsQuiet'
  BY <1>1, <1>9 DEF DispatchSelected, Dispatch, rowVars, listVars, workerVars, worldVars,
    spentVars, UndispatchedIsQuiet, SnapshotFits, CommandInHand, Busy, Steps, RowTypes,
    ListTypes, WorkerTypes, ServiceTypes
<1>10. ASSUME NEW f \in Factories, NEW t \in Targets, FlushPush(f, t) PROVE UndispatchedIsQuiet'
  BY <1>1, <1>10 DEF FlushPush, Put, rowVars, workerVars, worldVars, spentVars,
    UndispatchedIsQuiet, SnapshotFits, CommandInHand, Busy, Steps, RowTypes, ListTypes,
    WorkerTypes, ServiceTypes
<1>11. ASSUME NEW f \in Factories, FlushCommit(f) PROVE UndispatchedIsQuiet'
  BY <1>1, <1>11 DEF FlushCommit, listVars, workerVars, worldVars, spentVars,
    UndispatchedIsQuiet, SnapshotFits, CommandInHand, Busy, Steps, RowTypes, ListTypes,
    WorkerTypes, ServiceTypes
<1>12. ASSUME NEW f \in Factories, NEW old \in SUBSET Targets, FactoryRestart(f, old) PROVE UndispatchedIsQuiet'
  BY <1>1, <1>12 DEF FactoryRestart, listVars, workerVars, worldVars, UndispatchedIsQuiet,
    SnapshotFits, CommandInHand, Busy, Steps, RowTypes, ListTypes, WorkerTypes, ServiceTypes
<1>13. ASSUME NEW w \in Workers, NEW t \in Targets, RecoverTake(w, t) PROVE UndispatchedIsQuiet'
  <2>1. intent[IntentOf[t]] \notin {"draft", "ready"}
    BY <1>1, <1>13 DEF RecoverTake, UndispatchedIsQuiet
  <2>2. \A u \in Targets \ {t} : orphans'[u] = orphans[u]
    BY <1>1, <1>13 DEF RecoverTake, Take, ListTypes
  <2>3. \A u \in Targets \ {t}, v \in Workers : processing'[v][u] = processing[v][u]
    BY <1>1, <1>13 DEF RecoverTake, Take, ListTypes
  <2>4. \A u \in Targets \ {t}, v \in Workers : msg[v] # u => msg'[v] # u
    BY <1>1, <1>13 DEF RecoverTake, WorkerTypes
  <2> QED
    BY <1>13, <2>1, <2>2, <2>3, <2>4 DEF RecoverTake, UndispatchedIsQuiet, rowVars,
      factoryVars, restVars
<1>14. ASSUME NEW w \in Workers, RecoverPut(w) PROVE UndispatchedIsQuiet'
  BY <1>1, <1>14 DEF RecoverPut, At, Put, rowVars, factoryVars, worldVars, spentVars,
    restVars, UndispatchedIsQuiet, SnapshotFits, CommandInHand, Busy, Steps, RowTypes,
    ListTypes, WorkerTypes, ServiceTypes
<1>15. ASSUME NEW w \in Workers, NEW old \in SUBSET Targets, RepairStale(w, old) PROVE UndispatchedIsQuiet'
  BY <1>1, <1>15 DEF RepairStale, At, Goto, StaleCandidates, Attempting, listVars,
    factoryVars, worldVars, spentVars, restVars, UndispatchedIsQuiet, SnapshotFits,
    CommandInHand, Busy, Steps, RowTypes, ListTypes, WorkerTypes, ServiceTypes
<1>16. ASSUME NEW w \in Workers, RepairIntents(w) PROVE UndispatchedIsQuiet'
  <2>1. \A i \in Intents : intent'[i] \in {"draft", "ready"} => intent'[i] = intent[i]
    BY <1>1, <1>16, OutcomeTypes DEF RepairIntents, RowTypes
  <2> QED
    BY <1>1, <1>16, <2>1 DEF RepairIntents, UndispatchedIsQuiet, listVars, restVars,
      factoryVars
<1>17. ASSUME NEW w \in Workers, NEW t \in Targets, Receive(w, t) PROVE UndispatchedIsQuiet'
  BY <1>1, <1>17 DEF Receive, At, Goto, Put, Take, rowVars, factoryVars, worldVars,
    spentVars, restVars, UndispatchedIsQuiet, SnapshotFits, CommandInHand, Busy, Steps,
    RowTypes, ListTypes, WorkerTypes, ServiceTypes
<1>18. ASSUME NEW w \in Workers, Claim(w) PROVE UndispatchedIsQuiet'
  BY <1>1, <1>18 DEF Claim, At, Goto, listVars, factoryVars, worldVars, spentVars, restVars,
    UndispatchedIsQuiet, SnapshotFits, CommandInHand, Busy, Steps, RowTypes, ListTypes,
    WorkerTypes, ServiceTypes
<1>19. ASSUME NEW w \in Workers, Save(w) PROVE UndispatchedIsQuiet'
  BY <1>1, <1>19 DEF Save, At, Goto, listVars, factoryVars, worldVars, spentVars, restVars,
    UndispatchedIsQuiet, SnapshotFits, CommandInHand, Busy, Steps, RowTypes, ListTypes,
    WorkerTypes, ServiceTypes
<1>20. ASSUME NEW w \in Workers, Retry(w) PROVE UndispatchedIsQuiet'
  BY <1>1, <1>20 DEF Retry, At, Goto, listVars, factoryVars, worldVars, spentVars, restVars,
    UndispatchedIsQuiet, SnapshotFits, CommandInHand, Busy, Steps, RowTypes, ListTypes,
    WorkerTypes, ServiceTypes
<1>21. ASSUME NEW w \in Workers, Reject(w) PROVE UndispatchedIsQuiet'
  BY <1>1, <1>21 DEF Reject, Goto, listVars, factoryVars, worldVars, spentVars, restVars,
    UndispatchedIsQuiet, SnapshotFits, CommandInHand, Busy, Steps, RowTypes, ListTypes,
    WorkerTypes, ServiceTypes
<1>22. ASSUME NEW w \in Workers, Settle(w) PROVE UndispatchedIsQuiet'
  <2>1. \A i \in Intents : intent'[i] \in {"draft", "ready"} => intent'[i] = intent[i]
    BY <1>1, <1>22 DEF Settle, At, SnapshotFits, RowTypes
  <2>2. \A t \in Targets, v \in Workers : msg[v] # t => msg'[v] # t
    BY <1>1, <1>22 DEF Settle, Finish, WorkerTypes
  <2> QED
    BY <1>1, <1>22, <2>1, <2>2 DEF Settle, UndispatchedIsQuiet, listVars, restVars,
      factoryVars
<1>23. ASSUME NEW w \in Workers, Requeue(w) PROVE UndispatchedIsQuiet'
  BY <1>1, <1>23 DEF Requeue, At, Goto, Put, rowVars, factoryVars, worldVars, spentVars,
    restVars, UndispatchedIsQuiet, SnapshotFits, CommandInHand, Busy, Steps, RowTypes,
    ListTypes, WorkerTypes, ServiceTypes
<1>24. ASSUME NEW w \in Workers, Ack(w) PROVE UndispatchedIsQuiet'
  BY <1>1, <1>24 DEF Ack, At, Goto, Finish, Take, Remove, rowVars, factoryVars, worldVars,
    spentVars, restVars, UndispatchedIsQuiet, SnapshotFits, CommandInHand, Busy, Steps,
    RowTypes, ListTypes, WorkerTypes, ServiceTypes
<1>25. ASSUME NEW w \in Workers, DbError(w) PROVE UndispatchedIsQuiet'
  BY <1>1, <1>25 DEF DbError, Goto, Finish, Acknowledge, rowVars, listVars, factoryVars,
    worldVars, UndispatchedIsQuiet, SnapshotFits, CommandInHand, Busy, Steps, RowTypes,
    ListTypes, WorkerTypes, ServiceTypes
<1>26. ASSUME NEW w \in Workers, Crash(w) PROVE UndispatchedIsQuiet'
  BY <1>1, <1>26 DEF Crash, At, Goto, EmptyBag, rowVars, factoryVars, UndispatchedIsQuiet,
    SnapshotFits, CommandInHand, Busy, Steps, RowTypes, ListTypes, WorkerTypes, ServiceTypes
<1>27. ASSUME NEW t \in Targets, RetryReset(t) PROVE UndispatchedIsQuiet'
  BY <1>1, <1>27 DEF RetryReset, listVars, workerVars, factoryVars, UndispatchedIsQuiet,
    SnapshotFits, CommandInHand, Busy, Steps, RowTypes, ListTypes, WorkerTypes, ServiceTypes
<1>28. ASSUME NEW t \in Targets, RetryPush(t) PROVE UndispatchedIsQuiet'
  BY <1>1, <1>28 DEF RetryPush, Put, rowVars, workerVars, factoryVars, worldVars, spentVars,
    UndispatchedIsQuiet, SnapshotFits, CommandInHand, Busy, Steps, RowTypes, ListTypes,
    WorkerTypes, ServiceTypes
<1>29. ASSUME NEW t \in Targets, RetryMark(t) PROVE UndispatchedIsQuiet'
  BY <1>1, <1>29 DEF RetryMark, listVars, workerVars, factoryVars, worldVars, spentVars,
    UndispatchedIsQuiet, SnapshotFits, CommandInHand, Busy, Steps, RowTypes, ListTypes,
    WorkerTypes, ServiceTypes
<1>30. ASSUME NEW t \in Targets, RetryDies(t) PROVE UndispatchedIsQuiet'
  BY <1>1, <1>30 DEF RetryDies, rowVars, listVars, workerVars, factoryVars, worldVars,
    UndispatchedIsQuiet, SnapshotFits, CommandInHand, Busy, Steps, RowTypes, ListTypes,
    WorkerTypes, ServiceTypes
<1> QED
  BY <1>3, <1>4, <1>5, <1>6, <1>7, <1>8, <1>9, <1>10, <1>11, <1>12, <1>13, <1>14, <1>15,
    <1>16, <1>17, <1>18, <1>19, <1>20, <1>21, <1>22, <1>23, <1>24, <1>25, <1>26, <1>27,
    <1>28, <1>29, <1>30 DEF Next, FactoryNext, Scheduler, Flusher, Recovery, Adapter, Processing,
    RequestNext, Environment

\* Every step keeps the posts and the calls under way excused.
LEMMA ExcusedStep ==
  ASSUME ClaimInvariant, UndispatchedIsQuiet, PostsExcused, Next
  PROVE  PostsExcused'
<1>1. /\ IntentOf \in [Targets -> Intents] /\ NoTarget \notin Targets
     /\ RowTypes /\ ListTypes /\ WorkerTypes /\ ServiceTypes /\ WorldTypes
     /\ dbErrors \in Nat /\ CommandInHand /\ SingleClaimant /\ OutcomesBacked
  BY PipelineAssumption DEF PipelineAssumption, ClaimInvariant, WellFormed, TypeOK, SpentTypes
<1>2. CASE Bystander
  BY <1>2, BystanderFrame DEF claimVars, PostsExcused, MayHavePosted
<1>3. ASSUME NEW w \in Workers, Housekeeping(w) PROVE PostsExcused'
  <2>1. /\ UNCHANGED <<target, posts, abandoned, excuses, dbErrors>>
        /\ \A t \in Targets : ~MayHavePosted(t)' => ~MayHavePosted(t)
    BY <1>1, <1>3, HousekeepingFrame DEF ClaimInvariant, Unclaimed, MayHavePosted, Claimed
  <2> QED BY <2>1 DEF PostsExcused
<1>4. ASSUME NEW i \in Intents, PublishNow(i) PROVE PostsExcused'
  BY <1>1, <1>4 DEF PublishNow, Dispatch, listVars, workerVars, factoryVars, worldVars,
    spentVars, PostsExcused, MayHavePosted, UndispatchedIsQuiet, OutcomesBacked,
    SingleClaimant, Attempting, Claimed, CommandInHand, Busy, Steps, RowTypes, WorkerTypes,
    WorldTypes, TargetStatus
<1>5. ASSUME NEW f \in Factories, NEW i \in Intents, DispatchSelected(f, i) PROVE PostsExcused'
  BY <1>1, <1>5 DEF DispatchSelected, Dispatch, rowVars, listVars, workerVars, worldVars,
    spentVars, PostsExcused, MayHavePosted, UndispatchedIsQuiet, OutcomesBacked,
    SingleClaimant, Attempting, Claimed, CommandInHand, Busy, Steps, RowTypes, WorkerTypes,
    WorldTypes, TargetStatus
<1>6. ASSUME NEW w \in Workers, NEW old \in SUBSET Targets, RepairStale(w, old) PROVE PostsExcused'
  BY <1>1, <1>6 DEF RepairStale, At, Goto, StaleCandidates, Attempting, listVars,
    factoryVars, worldVars, spentVars, restVars, PostsExcused, MayHavePosted,
    UndispatchedIsQuiet, OutcomesBacked, SingleClaimant, Claimed, CommandInHand, Busy, Steps,
    RowTypes, WorkerTypes, WorldTypes, TargetStatus
<1>7. ASSUME NEW w \in Workers, Claim(w) PROVE PostsExcused'
  <2>1. ~posted[w] /\ msg[w] \in Targets
    BY <1>1, <1>7 DEF Claim, At, OutcomesBacked, CommandInHand, Busy, Steps
  <2>2. \A t \in Targets : ~MayHavePosted(t)' => ~MayHavePosted(t)
    BY <1>1, <1>7, <2>1 DEF Claim, At, Goto, MayHavePosted, RowTypes, WorkerTypes
  <2> QED
    BY <1>7, <2>2 DEF Claim, PostsExcused, restVars, worldVars, spentVars
<1>8. ASSUME NEW w \in Workers, PostGoesOut(w) PROVE PostsExcused'
  BY <1>1, <1>8 DEF PostGoesOut, At, rowVars, listVars, factoryVars, spentVars,
    PostsExcused, MayHavePosted, UndispatchedIsQuiet, OutcomesBacked, SingleClaimant,
    Attempting, Claimed, CommandInHand, Busy, Steps, RowTypes, WorkerTypes, WorldTypes,
    TargetStatus
<1>9. ASSUME NEW w \in Workers, AdapterSucceeds(w) PROVE PostsExcused'
  BY <1>1, <1>9 DEF AdapterSucceeds, At, Goto, rowVars, listVars, factoryVars, worldVars,
    spentVars, restVars, PostsExcused, MayHavePosted, UndispatchedIsQuiet, OutcomesBacked,
    SingleClaimant, Attempting, Claimed, CommandInHand, Busy, Steps, RowTypes, WorkerTypes,
    WorldTypes, TargetStatus
<1>10. ASSUME NEW w \in Workers, AdapterFailsEarly(w) PROVE PostsExcused'
  BY <1>1, <1>10 DEF AdapterFailsEarly, At, Goto, rowVars, listVars, factoryVars, worldVars,
    spentVars, restVars, PostsExcused, MayHavePosted, UndispatchedIsQuiet, OutcomesBacked,
    SingleClaimant, Attempting, Claimed, CommandInHand, Busy, Steps, RowTypes, WorkerTypes,
    WorldTypes, TargetStatus
<1>11. ASSUME NEW w \in Workers, AdapterFailsLate(w) PROVE PostsExcused'
  BY <1>1, <1>11 DEF AdapterFailsLate, At, Goto, rowVars, listVars, factoryVars, worldVars,
    spentVars, restVars, PostsExcused, MayHavePosted, UndispatchedIsQuiet, OutcomesBacked,
    SingleClaimant, Attempting, Claimed, CommandInHand, Busy, Steps, RowTypes, WorkerTypes,
    WorldTypes, TargetStatus
<1>12. ASSUME NEW w \in Workers, AdapterTimesOut(w) PROVE PostsExcused'
  BY <1>1, <1>12 DEF AdapterTimesOut, At, Goto, rowVars, listVars, factoryVars, spentVars,
    PostsExcused, MayHavePosted, UndispatchedIsQuiet, OutcomesBacked, SingleClaimant,
    Attempting, Claimed, CommandInHand, Busy, Steps, RowTypes, WorkerTypes, WorldTypes,
    TargetStatus
<1>13. ASSUME NEW t \in Targets, NEW effect \in BOOLEAN, AbandonedCallEnds(t, effect) PROVE PostsExcused'
  BY <1>1, <1>13 DEF AbandonedCallEnds, rowVars, listVars, workerVars, factoryVars,
    spentVars, PostsExcused, MayHavePosted, UndispatchedIsQuiet, OutcomesBacked,
    SingleClaimant, Attempting, Claimed, CommandInHand, Busy, Steps, RowTypes, WorkerTypes,
    WorldTypes, TargetStatus
<1>14. ASSUME NEW w \in Workers, Save(w) PROVE PostsExcused'
  <2>1. ASSUME dbErrors = 0 PROVE target[msg[w]] = "publishing" /\ msg[w] \in Targets
    BY <1>1, <1>14, <2>1 DEF Save, At, SingleClaimant, Claimed, CommandInHand, Busy, Steps
  <2>2. ASSUME dbErrors = 0, NEW t \in Targets, ~MayHavePosted(t)' PROVE ~MayHavePosted(t)
    BY <1>1, <1>14, <2>1, <2>2 DEF Save, At, Goto, MayHavePosted, RowTypes, WorkerTypes
  <2> QED
    BY <1>14, <2>2 DEF Save, PostsExcused, restVars, worldVars, spentVars
<1>15. ASSUME NEW w \in Workers, Retry(w) PROVE PostsExcused'
  BY <1>1, <1>15 DEF Retry, At, Goto, listVars, factoryVars, worldVars, spentVars, restVars,
    PostsExcused, MayHavePosted, UndispatchedIsQuiet, OutcomesBacked, SingleClaimant,
    Attempting, Claimed, CommandInHand, Busy, Steps, RowTypes, WorkerTypes, WorldTypes,
    TargetStatus
<1>16. ASSUME NEW w \in Workers, Reject(w) PROVE PostsExcused'
  BY <1>1, <1>16 DEF Reject, Goto, listVars, factoryVars, worldVars, spentVars, restVars,
    PostsExcused, MayHavePosted, UndispatchedIsQuiet, OutcomesBacked, SingleClaimant,
    Attempting, Claimed, CommandInHand, Busy, Steps, RowTypes, WorkerTypes, WorldTypes,
    TargetStatus
<1>17. ASSUME NEW w \in Workers, DbError(w) PROVE PostsExcused'
  BY <1>1, <1>17 DEF DbError, Goto, Finish, Acknowledge, rowVars, listVars, factoryVars,
    worldVars, PostsExcused, MayHavePosted, UndispatchedIsQuiet, OutcomesBacked,
    SingleClaimant, Attempting, Claimed, CommandInHand, Busy, Steps, RowTypes, WorkerTypes,
    WorldTypes, TargetStatus
<1>18. ASSUME NEW w \in Workers, Catch(w) PROVE PostsExcused'
  BY <1>1, <1>18 DEF Catch, At, Goto, rowVars, listVars, factoryVars, worldVars, spentVars,
    restVars, PostsExcused, MayHavePosted, UndispatchedIsQuiet, OutcomesBacked,
    SingleClaimant, Attempting, Claimed, CommandInHand, Busy, Steps, RowTypes, WorkerTypes,
    WorldTypes, TargetStatus
<1>19. ASSUME NEW w \in Workers, Crash(w) PROVE PostsExcused'
  <2> SUFFICES ASSUME dbErrors = 0, NEW t \in Targets
               PROVE  /\ posts'[t] + abandoned'[t] <= excuses'[t] + 1
                      /\ ~MayHavePosted(t)' => posts'[t] + abandoned'[t] <= excuses'[t]
    BY <1>19 DEF Crash, PostsExcused
  <2>1. target' = target /\ posts' = posts
    BY <1>19 DEF Crash, rowVars
  <2>2. posts[t] + abandoned[t] <= excuses[t] + 1
    BY DEF PostsExcused
  <2>3. CASE msg[w] = t /\ pc[w] \in {"adapter", "save", "doubt"}
    <3>1. excuses'[t] = excuses[t] + 1
      BY <1>1, <1>19, <2>3 DEF Crash, WorldTypes
    <3>2. CASE At(w, "adapter") /\ ~posted[w]
      <4>1. ~MayHavePosted(t)
        BY <1>1, <2>3, <3>2 DEF MayHavePosted, SingleClaimant, Attempting, Claimed, At
      <4>2. posts[t] + abandoned[t] <= excuses[t] /\ abandoned'[t] = abandoned[t] + 1
        BY <1>1, <1>19, <2>3, <3>2, <4>1 DEF Crash, WorldTypes, PostsExcused
      <4> QED BY <1>1, <2>1, <3>1, <4>2 DEF WorldTypes
    <3>3. CASE ~(At(w, "adapter") /\ ~posted[w])
      BY <1>1, <1>19, <2>1, <2>2, <3>1, <3>3 DEF Crash, WorldTypes
    <3> QED BY <3>2, <3>3
  <2>4. CASE ~(msg[w] = t /\ pc[w] \in {"adapter", "save", "doubt"})
    <3>1. excuses'[t] = excuses[t] /\ abandoned'[t] = abandoned[t]
      BY <1>1, <1>19, <2>4 DEF Crash, At, WorldTypes
    <3>2. ~MayHavePosted(t)' => ~MayHavePosted(t)
      BY <1>1, <1>19, <2>1, <2>4 DEF Crash, Goto, MayHavePosted, WorkerTypes
    <3> QED BY <2>1, <2>2, <3>1, <3>2 DEF PostsExcused
  <2> QED BY <2>3, <2>4
<1>20. ASSUME NEW t \in Targets, RetryReset(t) PROVE PostsExcused'
  BY <1>1, <1>20 DEF RetryReset, listVars, workerVars, factoryVars, PostsExcused,
    MayHavePosted, UndispatchedIsQuiet, OutcomesBacked, SingleClaimant, Attempting, Claimed,
    CommandInHand, Busy, Steps, RowTypes, WorkerTypes, WorldTypes, TargetStatus
<1> QED
  BY StepKinds, <1>2, <1>3, <1>4, <1>5, <1>6, <1>7, <1>8, <1>9, <1>10, <1>11, <1>12, <1>13,
    <1>14, <1>15, <1>16, <1>17, <1>18, <1>19, <1>20 DEF Moves, Adapter

-----------------------------------------------------------------------------
(* The invariant, and the safety properties that follow from it *)

\* The initial state satisfies the invariant.
LEMMA InitInvariant == Init => PublishInvariant
<1> SUFFICES ASSUME Init PROVE PublishInvariant
  OBVIOUS
<1>1. WellFormed
  BY InitWellFormed
<1>2. SingleClaimant /\ OutcomesBacked /\ PublishedWasPosted
  BY DEF Init, SingleClaimant, OutcomesBacked, PublishedWasPosted, Claimed
<1>3. UndispatchedIsQuiet
  BY PipelineAssumption DEF PipelineAssumption, Init, UndispatchedIsQuiet, EmptyBag
<1>4. PostsExcused
  BY DEF Init, PostsExcused
<1> QED
  BY <1>1, <1>2, <1>3, <1>4 DEF PublishInvariant, ClaimInvariant

\* Every step keeps it.
LEMMA NextInvariant == PublishInvariant /\ [Next]_vars => PublishInvariant'
<1> SUFFICES ASSUME PublishInvariant, [Next]_vars PROVE PublishInvariant'
  OBVIOUS
<1> USE DEF PublishInvariant, ClaimInvariant
<1>1. WellFormed'
  BY NextWellFormed
<1>2. CASE Next
  BY <1>1, <1>2, ClaimStep, QuietStep, ExcusedStep
<1>3. CASE UNCHANGED vars
  <2>1. UNCHANGED claimVars
    BY <1>3 DEF vars, claimVars, rowVars, workerVars, worldVars, spentVars
  <2>2. SingleClaimant' /\ OutcomesBacked' /\ PublishedWasPosted'
    BY <2>1 DEF claimVars, SingleClaimant, OutcomesBacked, PublishedWasPosted, Attempting
  <2>3. UndispatchedIsQuiet'
    BY <1>3 DEF vars, rowVars, listVars, workerVars, factoryVars, UndispatchedIsQuiet
  <2>4. PostsExcused'
    BY <2>1 DEF claimVars, PostsExcused, MayHavePosted
  <2> QED BY <1>1, <2>2, <2>3, <2>4
<1> QED BY <1>2, <1>3

\* The inductive invariant: well-formedness, exclusive claims that stand on a
\* "publishing" row, outcomes backed by what happened, quiet before dispatch, and
\* every post but the latest excused.
THEOREM Invariance == Spec => []PublishInvariant
  BY InitInvariant, NextInvariant, PTL DEF Spec

\* No two workers attempt one target at a time (PublishingWorker.js, the claim
\* UPDATE and the stale recovery), whatever is duplicated, lost or restarted, as
\* long as no SQL statement of a worker fails.
THEOREM ClaimsAreExclusive == Spec => []SingleClaimant
<1>1. PublishInvariant => SingleClaimant
  BY DEF PublishInvariant, ClaimInvariant
<1> QED BY <1>1, Invariance, PTL

\* A target recorded as published has a post, whatever fails.
THEOREM NothingPublishedUnposted == Spec => []PublishedWasPosted
<1>1. PublishInvariant => PublishedWasPosted
  BY DEF PublishInvariant, ClaimInvariant
<1> QED BY <1>1, Invariance, PTL

\* A further post needs a process that died in an attempt or an operator who
\* retried an uncertain target.
THEOREM PostsAreAccounted == Spec => []PostsAccounted
<1>1. PublishInvariant => PostsAccounted
  BY DEF PublishInvariant, PostsExcused, PostsAccounted
<1> QED BY <1>1, Invariance, PTL

-----------------------------------------------------------------------------
(* Steps: the retry budget, and the contract *)

\* A target goes from "publishing" to "failed" only with its budget spent.
LEMMA BudgetStep ==
  ASSUME PublishInvariant, Next, dbErrors = 0, NEW t \in Targets,
         target[t] = "publishing", target'[t] = "failed"
  PROVE  retries[t] = MaxRetries
<1>1. /\ target \in [Targets -> TargetStatus] /\ msg \in [Workers -> Targets \cup {NoTarget}]
      /\ retries \in [Targets -> 0..MaxRetries] /\ MaxRetries \in Nat
      /\ SingleClaimant /\ OutcomesBacked /\ CommandInHand
  BY PipelineAssumption DEF PipelineAssumption, PublishInvariant, ClaimInvariant, WellFormed,
    TypeOK, RowTypes, WorkerTypes
<1>2. CASE Bystander
  BY <1>2, BystanderFrame DEF claimVars
<1>3. ASSUME NEW w \in Workers, Housekeeping(w) PROVE FALSE
  BY <1>1, <1>3, HousekeepingFrame DEF PublishInvariant, ClaimInvariant
<1>4. ASSUME NEW w \in Workers, NEW old \in SUBSET Targets, RepairStale(w, old)
      PROVE  retries[t] = MaxRetries
  BY <1>1, <1>4 DEF RepairStale
<1>5. ASSUME NEW w \in Workers, Reject(w) PROVE retries[t] = MaxRetries
  BY <1>1, <1>5 DEF Reject, OutcomesBacked
<1>6. ASSUME NEW w \in Workers, Claim(w) \/ Save(w) \/ Retry(w) PROVE FALSE
  BY <1>1, <1>6 DEF Claim, Save, Retry
<1>7. ASSUME NEW w \in Workers, Adapter(w) \/ DbError(w) \/ Catch(w) \/ Crash(w) PROVE FALSE
  BY <1>7 DEF Adapter, PostGoesOut, AdapterSucceeds, AdapterFailsEarly, AdapterFailsLate,
    AdapterTimesOut, DbError, Catch, Crash, rowVars
<1>8. ASSUME NEW i \in Intents, PublishNow(i) \/ \E f \in Factories : DispatchSelected(f, i)
      PROVE  FALSE
  BY <1>1, <1>8 DEF PublishNow, DispatchSelected, Dispatch, rowVars
<1>9. ASSUME NEW u \in Targets, RetryReset(u) \/ \E effect \in BOOLEAN : AbandonedCallEnds(u, effect)
      PROVE  FALSE
  BY <1>1, <1>9 DEF RetryReset, AbandonedCallEnds, rowVars
<1> QED
  BY StepKinds, <1>2, <1>3, <1>4, <1>5, <1>6, <1>7, <1>8, <1>9 DEF Moves

\* A target fails for good only when its retry budget is spent, as long as no SQL
\* statement of a worker fails.
THEOREM BudgetIsSpent == Spec => BudgetSpentBeforeFailed
<1>1. PublishInvariant /\ [Next]_vars =>
        [dbErrors = 0 => \A t \in Targets :
           target[t] = "publishing" /\ target'[t] = "failed" => retries[t] = MaxRetries]_vars
  BY BudgetStep
<1> QED BY <1>1, Invariance, PTL DEF Spec, BudgetSpentBeforeFailed

\* Every step is a step of the contract for each target, or leaves it alone.
LEMMA StepSimulates ==
  ASSUME PublishInvariant, Next, NEW t \in Targets
  PROVE  Abstract!TargetStep(t)
<1> DEFINE exists == [u \in Targets |-> posts[u] > 0]
<1> USE DEF Abstract!TargetStep, Abstract!Begin, Abstract!Succeed, Abstract!TryAgain,
            Abstract!GiveUp, Abstract!Reopen, Abstract!Appear, Abstract!Stays,
            Abstract!Moves, Abstract!Kept
<1>1. /\ target \in [Targets -> TargetStatus] /\ msg \in [Workers -> Targets \cup {NoTarget}]
      /\ retries \in [Targets -> 0..MaxRetries] /\ MaxRetries \in Nat
      /\ posts \in [Targets -> Nat] /\ posts' \in [Targets -> Nat]
      /\ OutcomesBacked /\ CommandInHand /\ UndispatchedIsQuiet
  BY NextWellFormed, PipelineAssumption DEF PipelineAssumption, PublishInvariant,
    ClaimInvariant, WellFormed, TypeOK, RowTypes, WorkerTypes, WorldTypes
<1>2. CASE target'[t] = target[t] /\ retries'[t] = retries[t] /\ posts'[t] = posts[t]
  BY <1>2
<1>3. CASE Bystander
  BY <1>2, <1>3, BystanderFrame DEF claimVars
<1>4. ASSUME NEW w \in Workers, Housekeeping(w) PROVE Abstract!TargetStep(t)
  BY <1>2, <1>4, HousekeepingFrame DEF PublishInvariant, ClaimInvariant
<1>5. ASSUME NEW i \in Intents, PublishNow(i) \/ \E f \in Factories : DispatchSelected(f, i)
      PROVE  Abstract!TargetStep(t)
  <2>1. target'[t] = target[t] /\ retries' = retries /\ posts' = posts
    BY <1>1, <1>5 DEF PublishNow, DispatchSelected, Dispatch, UndispatchedIsQuiet, rowVars,
      worldVars
  <2> QED BY <1>2, <2>1
<1>6. ASSUME NEW w \in Workers, NEW old \in SUBSET Targets, RepairStale(w, old)
      PROVE  Abstract!TargetStep(t)
  BY <1>1, <1>6 DEF RepairStale, StaleCandidates, restVars, worldVars
<1>7. ASSUME NEW w \in Workers, Claim(w) PROVE Abstract!TargetStep(t)
  BY <1>1, <1>7 DEF Claim, restVars, worldVars
<1>8. ASSUME NEW w \in Workers, Save(w) PROVE Abstract!TargetStep(t)
  BY <1>1, <1>8 DEF Save, At, OutcomesBacked, restVars, worldVars
<1>9. ASSUME NEW w \in Workers, Retry(w) PROVE Abstract!TargetStep(t)
  BY <1>1, <1>9 DEF Retry, restVars, worldVars
<1>10. ASSUME NEW w \in Workers, Reject(w) PROVE Abstract!TargetStep(t)
  BY <1>1, <1>10 DEF Reject, restVars, worldVars
<1>11. ASSUME NEW w \in Workers, PostGoesOut(w) PROVE Abstract!TargetStep(t)
  <2>1. UNCHANGED <<target, retries>>
    BY <1>11 DEF PostGoesOut, rowVars
  <2>2. CASE t = msg[w]
    <3>1. posts'[t] > 0
      BY <1>1, <1>11, <2>2 DEF PostGoesOut
    <3> QED BY <2>1, <3>1
  <2>3. CASE t # msg[w]
    BY <1>1, <1>2, <1>11, <2>1, <2>3 DEF PostGoesOut
  <2> QED BY <2>2, <2>3
<1>12. ASSUME NEW u \in Targets, NEW effect \in BOOLEAN, AbandonedCallEnds(u, effect)
       PROVE  Abstract!TargetStep(t)
  BY <1>1, <1>12 DEF AbandonedCallEnds, rowVars
<1>13. ASSUME NEW w \in Workers,
              \/ AdapterSucceeds(w) \/ AdapterFailsEarly(w) \/ AdapterFailsLate(w)
              \/ AdapterTimesOut(w) \/ DbError(w) \/ Catch(w) \/ Crash(w)
       PROVE  Abstract!TargetStep(t)
  <2>1. UNCHANGED <<target, retries, posts>>
    BY <1>13 DEF AdapterSucceeds, AdapterFailsEarly, AdapterFailsLate, AdapterTimesOut,
      DbError, Catch, Crash, rowVars, restVars, worldVars
  <2> QED BY <1>2, <2>1
<1>14. ASSUME NEW u \in Targets, RetryReset(u) PROVE Abstract!TargetStep(t)
  BY <1>1, <1>14 DEF RetryReset
<1> QED
  BY StepKinds, <1>3, <1>4, <1>5, <1>6, <1>7, <1>8, <1>9, <1>10, <1>11, <1>12, <1>13, <1>14
     DEF Moves, Adapter

\* The pipeline implements the contract on targets, whatever fails: an outcome is
\* recorded only for an attempt, a success only with a post, and only an operator
\* reopens what has failed.
THEOREM ImplementsContract == Spec => ContractHolds
<1>1. Init => Abstract!ContractInit
  <2> SUFFICES ASSUME Init PROVE Abstract!ContractInit
    OBVIOUS
  <2>1. \A t \in Targets : (posts[t] > 0) = FALSE
    BY DEF Init
  <2>2. [t \in Targets |-> posts[t] > 0] = [t \in Targets |-> FALSE]
    BY <2>1, Zenon
  <2> QED BY <2>2 DEF Init, Abstract!ContractInit
<1>2. PublishInvariant /\ [Next]_vars => [Abstract!ContractNext]_(Abstract!contractVars)
  <2> SUFFICES ASSUME PublishInvariant, [Next]_vars
               PROVE  [Abstract!ContractNext]_(Abstract!contractVars)
    OBVIOUS
  <2>1. CASE Next
    BY <2>1, StepSimulates DEF Abstract!ContractNext
  <2>2. CASE UNCHANGED vars
    BY <2>2 DEF vars, rowVars, worldVars, Abstract!contractVars
  <2> QED BY <2>1, <2>2
<1> QED BY <1>1, <1>2, Invariance, PTL DEF Spec, ContractHolds, Abstract!Contract

=============================================================================
