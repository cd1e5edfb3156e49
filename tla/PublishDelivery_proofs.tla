----------------------- MODULE PublishDelivery_proofs -----------------------
(***************************************************************************)
(* Proofs that the pipeline delivers: while no process dies and no SQL     *)
(* statement fails, a dispatched target never waits without a command on   *)
(* its way (NoTargetStranded), and the three tables agree once nobody      *)
(* works on a target (OutcomesAgree).  For any number of intents, targets, *)
(* workers and factories, as in PublishPipeline_proofs.                    *)
(***************************************************************************)
EXTENDS PublishPipeline_proofs

\* What the proofs below use of the types.
DeliveryTypes ==
  /\ IntentOf \in [Targets -> Intents] /\ NoTarget \notin Targets
  /\ intent \in [Intents -> IntentStatus]
  /\ target \in [Targets -> TargetStatus] /\ retries \in [Targets -> 0..MaxRetries]
  /\ outbox \in [Targets -> {"none", "pending", "sent"}]
  /\ publication \in [Targets -> PublicationStatus]
  /\ commands \in [Targets -> Nat] /\ request \in [Targets -> {"idle", "push", "mark"}]
  /\ pc \in [Workers -> Steps] /\ msg \in [Workers -> Targets \cup {NoTarget}]
  /\ snap \in [Workers -> PublicationStatus \cup IntentStatus]
  /\ flushing \in [Factories -> Targets \cup {NoTarget}]
  /\ crashes \in Nat /\ dbErrors \in Nat /\ manuals \in Nat /\ MaxRetries \in Nat
  /\ CommandInHand

\* They are part of well-formedness.
LEMMA HaveTypes == WellFormed => DeliveryTypes
  BY PipelineAssumption DEF PipelineAssumption, DeliveryTypes, WellFormed, TypeOK, SpentTypes,
    RowTypes, ListTypes, WorkerTypes, ServiceTypes

-----------------------------------------------------------------------------
(* Commands are never lost *)

\* The steps in which a worker has a command that it will requeue or try.
Carrying == {"requeue", "read", "claim", "push"}

\* A command of t is in a list or in somebody's hands, outside the outbox.
InHand(t) ==
  \/ commands[t] > 0
  \/ request[t] = "push"
  \/ \E w \in Workers : msg[w] = t /\ pc[w] \in Carrying

\* The row of t was pushed: it is marked sent, or the flusher is about to.
Pushed(t) == outbox[t] = "sent" \/ \E f \in Factories : flushing[f] = t

\* What the outbox has pushed stays in somebody's hands while the target waits for
\* an attempt, and a row that says "publishing" has a worker.
Followed ==
  Faultless => \A t \in Targets :
    /\ Pushed(t) /\ target[t] = "pending" => InHand(t)
    /\ target[t] = "publishing" => \E w \in Workers : Attempting(w, t)

\* The initial state follows every target: none has been pushed.
LEMMA InitFollowed == Init => Followed
  BY PipelineAssumption DEF PipelineAssumption, Init, Followed, Pushed

\* A step of worker w that leaves the rows alone may take a command from its own
\* hands only to put it in the list, and goes on with the attempt it has.
LEMMA WorkerFrame ==
  ASSUME DeliveryTypes, Followed, NEW w \in Workers,
         UNCHANGED <<target, outbox, flushing, request, crashes, dbErrors>>,
         \A t \in Targets : commands[t] > 0 => commands'[t] > 0,
         \A v \in Workers \ {w} : pc'[v] = pc[v] /\ msg'[v] = msg[v],
         pc[w] \in Carrying /\ msg[w] \in Targets =>
           \/ pc'[w] \in Carrying /\ msg'[w] = msg[w]
           \/ commands'[msg[w]] > 0
           \/ target[msg[w]] # "pending",
         pc[w] \in Claimed => pc'[w] \in Claimed /\ msg'[w] = msg[w]
  PROVE  Followed'
<1> SUFFICES ASSUME Faultless', NEW t \in Targets
             PROVE  /\ Pushed(t)' /\ target'[t] = "pending" => InHand(t)'
                    /\ target'[t] = "publishing" => \E v \in Workers : Attempting(v, t)'
  BY DEF Followed
<1>1. Faultless
  BY DEF Faultless
<1>2. ASSUME Pushed(t)', target'[t] = "pending" PROVE InHand(t)'
  <2>1. InHand(t)
    BY <1>1, <1>2 DEF Followed, Pushed
  <2>2. CASE commands[t] > 0 \/ request[t] = "push"
    BY <2>2 DEF InHand
  <2>3. ASSUME NEW v \in Workers, msg[v] = t, pc[v] \in Carrying PROVE InHand(t)'
    BY <1>2, <2>3 DEF InHand
  <2> QED BY <2>1, <2>2, <2>3 DEF InHand
<1>3. ASSUME target'[t] = "publishing" PROVE \E v \in Workers : Attempting(v, t)'
  <2>1. PICK v \in Workers : Attempting(v, t)
    BY <1>1, <1>3 DEF Followed
  <2> QED BY <2>1 DEF Attempting
<1> QED BY <1>2, <1>3

\* Every step keeps it.
LEMMA FollowedStep ==
  ASSUME PublishInvariant, Followed, Next
  PROVE  Followed'
<1>1. DeliveryTypes /\ SingleClaimant /\ OutcomesBacked /\ UndispatchedIsQuiet
  BY HaveTypes DEF PublishInvariant, ClaimInvariant
<1> DEFINE Waits(u) == Pushed(u)' /\ target'[u] = "pending" => InHand(u)'
           Held(u)  == target'[u] = "publishing" => \E v \in Workers : Attempting(v, u)'
<1>2. ASSUME NEW i \in Intents, BecomesDue(i) PROVE Followed'
  BY <1>1, <1>2 DEF BecomesDue, listVars, workerVars, factoryVars, worldVars, spentVars,
    Followed, Faultless, Pushed, InHand, Attempting
<1>3. ASSUME NEW f \in Factories, SelectDue(f) PROVE Followed'
  BY <1>1, <1>3 DEF SelectDue, rowVars, listVars, workerVars, worldVars, spentVars, Followed,
    Faultless, Pushed, InHand, Attempting
<1>4. ASSUME NEW i \in Intents, NEW past \in BOOLEAN, Reschedule(i, past) PROVE Followed'
  BY <1>1, <1>4 DEF Reschedule, listVars, workerVars, factoryVars, worldVars, Followed,
    Faultless, Pushed, InHand, Attempting
<1>5. ASSUME NEW t \in Targets, NEW effect \in BOOLEAN, AbandonedCallEnds(t, effect) PROVE Followed'
  BY <1>1, <1>5 DEF AbandonedCallEnds, rowVars, listVars, workerVars, factoryVars, spentVars,
    Followed, Faultless, Pushed, InHand, Attempting
<1>6. ASSUME NEW w \in Workers, DbError(w) PROVE Followed'
  BY <1>1, <1>6 DEF DbError, DeliveryTypes, Followed, Faultless
<1>7. ASSUME NEW w \in Workers, Crash(w) PROVE Followed'
  BY <1>1, <1>7 DEF Crash, DeliveryTypes, Followed, Faultless
<1>8. ASSUME NEW t \in Targets, RetryDies(t) PROVE Followed'
  BY <1>1, <1>8 DEF RetryDies, DeliveryTypes, Followed, Faultless
<1>9. ASSUME NEW w \in Workers, Start(w) PROVE Followed'
  BY <1>1, <1>9, WorkerFrame DEF Start, At, Goto, rowVars, listVars, factoryVars, worldVars,
    spentVars, DeliveryTypes, CommandInHand, Busy, Steps, Carrying, Claimed
<1>10. ASSUME NEW w \in Workers, NEW t \in Targets, RecoverTake(w, t) PROVE Followed'
  BY <1>1, <1>10, WorkerFrame DEF RecoverTake, At, Take, rowVars, factoryVars, worldVars,
    spentVars, restVars, DeliveryTypes, CommandInHand, Busy, Steps, Carrying, Claimed
<1>11. ASSUME NEW w \in Workers, RecoverPut(w) PROVE Followed'
  BY <1>1, <1>11, WorkerFrame DEF RecoverPut, At, Put, rowVars, factoryVars, worldVars,
    spentVars, restVars, DeliveryTypes, CommandInHand, Busy, Steps, Carrying, Claimed
<1>12. ASSUME NEW w \in Workers, RecoverDone(w) PROVE Followed'
  BY <1>1, <1>12, WorkerFrame DEF RecoverDone, At, Goto, rowVars, listVars, factoryVars,
    worldVars, spentVars, DeliveryTypes, CommandInHand, Busy, Steps, Carrying, Claimed
<1>13. ASSUME NEW w \in Workers, RepairIntents(w) PROVE Followed'
  BY <1>1, <1>13, WorkerFrame DEF RepairIntents, At, Goto, listVars, factoryVars, worldVars,
    spentVars, restVars, DeliveryTypes, CommandInHand, Busy, Steps, Carrying, Claimed
<1>14. ASSUME NEW w \in Workers, Read(w) PROVE Followed'
  BY <1>1, <1>14, WorkerFrame DEF Read, At, Goto, AfterRead, rowVars, listVars, factoryVars,
    worldVars, spentVars, restVars, DeliveryTypes, CommandInHand, Busy, Steps, Carrying,
    Claimed
<1>15. ASSUME NEW w \in Workers, PostGoesOut(w) PROVE Followed'
  BY <1>1, <1>15, WorkerFrame DEF PostGoesOut, At, rowVars, listVars, factoryVars, spentVars,
    DeliveryTypes, CommandInHand, Busy, Steps, Carrying, Claimed
<1>16. ASSUME NEW w \in Workers, AdapterSucceeds(w) PROVE Followed'
  BY <1>1, <1>16, WorkerFrame DEF AdapterSucceeds, At, Goto, rowVars, listVars, factoryVars,
    worldVars, spentVars, restVars, DeliveryTypes, CommandInHand, Busy, Steps, Carrying,
    Claimed
<1>17. ASSUME NEW w \in Workers, AdapterFailsEarly(w) PROVE Followed'
  BY <1>1, <1>17, WorkerFrame DEF AdapterFailsEarly, At, Goto, rowVars, listVars, factoryVars,
    worldVars, spentVars, restVars, DeliveryTypes, CommandInHand, Busy, Steps, Carrying,
    Claimed
<1>18. ASSUME NEW w \in Workers, AdapterFailsLate(w) PROVE Followed'
  BY <1>1, <1>18, WorkerFrame DEF AdapterFailsLate, At, Goto, rowVars, listVars, factoryVars,
    worldVars, spentVars, restVars, DeliveryTypes, CommandInHand, Busy, Steps, Carrying,
    Claimed
<1>19. ASSUME NEW w \in Workers, AdapterTimesOut(w) PROVE Followed'
  BY <1>1, <1>19, WorkerFrame DEF AdapterTimesOut, At, Goto, rowVars, listVars, factoryVars,
    spentVars, DeliveryTypes, CommandInHand, Busy, Steps, Carrying, Claimed
<1>20. ASSUME NEW w \in Workers, Sync(w) PROVE Followed'
  BY <1>1, <1>20, WorkerFrame DEF Sync, At, Goto, rowVars, listVars, factoryVars, worldVars,
    spentVars, restVars, DeliveryTypes, CommandInHand, Busy, Steps, Carrying, Claimed
<1>21. ASSUME NEW w \in Workers, Mirror(w) PROVE Followed'
  BY <1>1, <1>21, WorkerFrame DEF Mirror, At, Goto, Acknowledge, listVars, factoryVars,
    worldVars, spentVars, restVars, DeliveryTypes, CommandInHand, Busy, Steps, Carrying,
    Claimed
<1>22. ASSUME NEW w \in Workers, Tally(w) PROVE Followed'
  BY <1>1, <1>22, WorkerFrame DEF Tally, At, Goto, rowVars, listVars, factoryVars, worldVars,
    spentVars, restVars, DeliveryTypes, CommandInHand, Busy, Steps, Carrying, Claimed
<1>23. ASSUME NEW w \in Workers, Settle(w) PROVE Followed'
  BY <1>1, <1>23, WorkerFrame DEF Settle, At, Goto, Finish, Acknowledge, listVars, factoryVars,
    worldVars, spentVars, restVars, DeliveryTypes, CommandInHand, Busy, Steps, Carrying,
    Claimed
<1>24. ASSUME NEW w \in Workers, PushDlq(w) PROVE Followed'
  BY <1>1, <1>24, WorkerFrame DEF PushDlq, At, Goto, rowVars, factoryVars, worldVars,
    spentVars, restVars, DeliveryTypes, CommandInHand, Busy, Steps, Carrying, Claimed
<1>25. ASSUME NEW w \in Workers, Requeue(w) PROVE Followed'
  BY <1>1, <1>25, WorkerFrame DEF Requeue, At, Goto, Put, rowVars, factoryVars, worldVars,
    spentVars, restVars, DeliveryTypes, CommandInHand, Busy, Steps, Carrying, Claimed
<1>26. ASSUME NEW w \in Workers, Ack(w) PROVE Followed'
  BY <1>1, <1>26, WorkerFrame DEF Ack, At, Goto, Finish, rowVars, factoryVars, worldVars,
    spentVars, restVars, DeliveryTypes, CommandInHand, Busy, Steps, Carrying, Claimed
<1>27. ASSUME NEW w \in Workers, Catch(w) PROVE Followed'
  BY <1>1, <1>27 DEF OutcomesBacked, Catch, At, Goto, rowVars, listVars, factoryVars,
    worldVars, spentVars, restVars, Followed, Faultless
<1>28. ASSUME NEW i \in Intents, PublishNow(i) PROVE Followed'
  <2> SUFFICES ASSUME Faultless', NEW u \in Targets PROVE Waits(u) /\ Held(u)
    BY DEF Followed
  <2>1. Faultless /\ (Pushed(u) /\ target[u] = "pending" => InHand(u))
          /\ (target[u] = "publishing" => \E v \in Workers : Attempting(v, u))
    BY <1>28 DEF PublishNow, spentVars, Dispatch, Faultless, Followed
  <2>2. Waits(u)
    BY <1>1, <1>28, <2>1 DEF PublishNow, Dispatch, listVars, workerVars, factoryVars,
      worldVars, spentVars, DeliveryTypes, Pushed, InHand, Carrying, UndispatchedIsQuiet
  <2>3. Held(u)
    BY <1>1, <1>28, <2>1 DEF PublishNow, Dispatch, listVars, workerVars, factoryVars,
      worldVars, spentVars, DeliveryTypes, Attempting, Claimed, UndispatchedIsQuiet
  <2> QED BY <2>2, <2>3
<1>29. ASSUME NEW f \in Factories, NEW i \in Intents, DispatchSelected(f, i) PROVE Followed'
  <2> SUFFICES ASSUME Faultless', NEW u \in Targets PROVE Waits(u) /\ Held(u)
    BY DEF Followed
  <2>1. Faultless /\ (Pushed(u) /\ target[u] = "pending" => InHand(u))
          /\ (target[u] = "publishing" => \E v \in Workers : Attempting(v, u))
    BY <1>29 DEF DispatchSelected, rowVars, spentVars, Dispatch, Faultless, Followed
  <2>2. Waits(u)
    BY <1>1, <1>29, <2>1 DEF DispatchSelected, Dispatch, rowVars, listVars, workerVars,
      worldVars, spentVars, DeliveryTypes, Pushed, InHand, Carrying, UndispatchedIsQuiet
  <2>3. Held(u)
    BY <1>1, <1>29, <2>1 DEF DispatchSelected, Dispatch, rowVars, listVars, workerVars,
      worldVars, spentVars, DeliveryTypes, Attempting, Claimed, UndispatchedIsQuiet
  <2> QED BY <2>2, <2>3
<1>30. ASSUME NEW f \in Factories, NEW t \in Targets, FlushPush(f, t) PROVE Followed'
  <2> SUFFICES ASSUME Faultless', NEW u \in Targets PROVE Waits(u) /\ Held(u)
    BY DEF Followed
  <2>1. Faultless /\ (Pushed(u) /\ target[u] = "pending" => InHand(u))
          /\ (target[u] = "publishing" => \E v \in Workers : Attempting(v, u))
    BY <1>30 DEF FlushPush, rowVars, spentVars, Faultless, Followed
  <2>2. Waits(u)
    BY <1>1, <1>30, <2>1 DEF FlushPush, Put, rowVars, workerVars, worldVars, spentVars,
      DeliveryTypes, Pushed, InHand, Carrying
  <2>3. Held(u)
    BY <1>1, <1>30, <2>1 DEF FlushPush, Put, rowVars, workerVars, worldVars, spentVars,
      DeliveryTypes, Attempting, Claimed
  <2> QED BY <2>2, <2>3
<1>31. ASSUME NEW f \in Factories, FlushCommit(f) PROVE Followed'
  <2> SUFFICES ASSUME Faultless', NEW u \in Targets PROVE Waits(u) /\ Held(u)
    BY DEF Followed
  <2>1. Faultless /\ (Pushed(u) /\ target[u] = "pending" => InHand(u))
          /\ (target[u] = "publishing" => \E v \in Workers : Attempting(v, u))
    BY <1>31 DEF FlushCommit, spentVars, Faultless, Followed
  <2>2. Waits(u)
    BY <1>1, <1>31, <2>1 DEF FlushCommit, listVars, workerVars, worldVars, spentVars,
      DeliveryTypes, Pushed, InHand, Carrying
  <2>3. Held(u)
    BY <1>1, <1>31, <2>1 DEF FlushCommit, listVars, workerVars, worldVars, spentVars,
      DeliveryTypes, Attempting, Claimed
  <2> QED BY <2>2, <2>3
<1>32. ASSUME NEW f \in Factories, NEW old \in SUBSET Targets, FactoryRestart(f, old) PROVE Followed'
  <2> SUFFICES ASSUME Faultless', NEW u \in Targets PROVE Waits(u) /\ Held(u)
    BY DEF Followed
  <2>1. Faultless /\ (Pushed(u) /\ target[u] = "pending" => InHand(u))
          /\ (target[u] = "publishing" => \E v \in Workers : Attempting(v, u))
    BY <1>32 DEF FactoryRestart, Faultless, Followed
  <2>2. Waits(u)
    BY <1>1, <1>32, <2>1 DEF FactoryRestart, listVars, workerVars, worldVars, DeliveryTypes,
      Pushed, InHand, Carrying
  <2>3. Held(u)
    BY <1>1, <1>32, <2>1 DEF FactoryRestart, listVars, workerVars, worldVars, DeliveryTypes,
      Attempting, Claimed
  <2> QED BY <2>2, <2>3
<1>33. ASSUME NEW t \in Targets, RetryReset(t) PROVE Followed'
  <2> SUFFICES ASSUME Faultless', NEW u \in Targets PROVE Waits(u) /\ Held(u)
    BY DEF Followed
  <2>1. Faultless /\ (Pushed(u) /\ target[u] = "pending" => InHand(u))
          /\ (target[u] = "publishing" => \E v \in Workers : Attempting(v, u))
    BY <1>33 DEF RetryReset, Faultless, Followed
  <2>2. Waits(u)
    BY <1>1, <1>33, <2>1 DEF RetryReset, listVars, workerVars, factoryVars, DeliveryTypes,
      Pushed, InHand, Carrying
  <2>3. Held(u)
    BY <1>1, <1>33, <2>1 DEF RetryReset, listVars, workerVars, factoryVars, DeliveryTypes,
      Attempting, Claimed
  <2> QED BY <2>2, <2>3
<1>34. ASSUME NEW t \in Targets, RetryPush(t) PROVE Followed'
  <2> SUFFICES ASSUME Faultless', NEW u \in Targets PROVE Waits(u) /\ Held(u)
    BY DEF Followed
  <2>1. Faultless /\ (Pushed(u) /\ target[u] = "pending" => InHand(u))
          /\ (target[u] = "publishing" => \E v \in Workers : Attempting(v, u))
    BY <1>34 DEF RetryPush, rowVars, spentVars, Faultless, Followed
  <2>2. Waits(u)
    BY <1>1, <1>34, <2>1 DEF RetryPush, Put, rowVars, workerVars, factoryVars, worldVars,
      spentVars, DeliveryTypes, Pushed, InHand, Carrying
  <2>3. Held(u)
    BY <1>1, <1>34, <2>1 DEF RetryPush, Put, rowVars, workerVars, factoryVars, worldVars,
      spentVars, DeliveryTypes, Attempting, Claimed
  <2> QED BY <2>2, <2>3
<1>35. ASSUME NEW t \in Targets, RetryMark(t) PROVE Followed'
  <2> SUFFICES ASSUME Faultless', NEW u \in Targets PROVE Waits(u) /\ Held(u)
    BY DEF Followed
  <2>1. Faultless /\ (Pushed(u) /\ target[u] = "pending" => InHand(u))
          /\ (target[u] = "publishing" => \E v \in Workers : Attempting(v, u))
    BY <1>35 DEF RetryMark, spentVars, Faultless, Followed
  <2>2. Waits(u)
    BY <1>1, <1>35, <2>1 DEF RetryMark, listVars, workerVars, factoryVars, worldVars,
      spentVars, DeliveryTypes, Pushed, InHand, Carrying
  <2>3. Held(u)
    BY <1>1, <1>35, <2>1 DEF RetryMark, listVars, workerVars, factoryVars, worldVars,
      spentVars, DeliveryTypes, Attempting, Claimed
  <2> QED BY <2>2, <2>3
<1>36. ASSUME NEW w \in Workers, NEW old \in SUBSET Targets, RepairStale(w, old) PROVE Followed'
  <2> SUFFICES ASSUME Faultless', NEW u \in Targets PROVE Waits(u) /\ Held(u)
    BY DEF Followed
  <2>1. Faultless /\ (Pushed(u) /\ target[u] = "pending" => InHand(u))
          /\ (target[u] = "publishing" => \E v \in Workers : Attempting(v, u))
    BY <1>36 DEF RepairStale, spentVars, restVars, Faultless, Followed
  <2>2. Waits(u)
    BY <1>1, <1>36, <2>1 DEF RepairStale, StaleCandidates, At, Goto, listVars, factoryVars,
      worldVars, spentVars, restVars, DeliveryTypes, Pushed, InHand, Carrying, Attempting
  <2>3. Held(u)
    BY <1>1, <1>36, <2>1 DEF RepairStale, StaleCandidates, At, Goto, listVars, factoryVars,
      worldVars, spentVars, restVars, DeliveryTypes, Attempting, Claimed
  <2> QED BY <2>2, <2>3
<1>37. ASSUME NEW w \in Workers, NEW t \in Targets, Receive(w, t) PROVE Followed'
  <2> SUFFICES ASSUME Faultless', NEW u \in Targets PROVE Waits(u) /\ Held(u)
    BY DEF Followed
  <2>1. Faultless /\ (Pushed(u) /\ target[u] = "pending" => InHand(u))
          /\ (target[u] = "publishing" => \E v \in Workers : Attempting(v, u))
    BY <1>37 DEF Receive, rowVars, spentVars, restVars, Faultless, Followed
  <2>2. Waits(u)
    BY <1>1, <1>37, <2>1 DEF Receive, At, Goto, Put, Take, rowVars, factoryVars, worldVars,
      spentVars, restVars, DeliveryTypes, Pushed, InHand, Carrying, Steps
  <2>3. Held(u)
    BY <1>1, <1>37, <2>1 DEF Receive, At, Goto, Put, Take, rowVars, factoryVars, worldVars,
      spentVars, restVars, DeliveryTypes, Attempting, Claimed, Steps
  <2> QED BY <2>2, <2>3
<1>38. ASSUME NEW w \in Workers, Claim(w) PROVE Followed'
  <2> SUFFICES ASSUME Faultless', NEW u \in Targets PROVE Waits(u) /\ Held(u)
    BY DEF Followed
  <2>1. Faultless /\ (Pushed(u) /\ target[u] = "pending" => InHand(u))
          /\ (target[u] = "publishing" => \E v \in Workers : Attempting(v, u))
    BY <1>38 DEF Claim, spentVars, restVars, Faultless, Followed
  <2>2. Waits(u)
    BY <1>1, <1>38, <2>1 DEF Claim, At, Goto, listVars, factoryVars, worldVars, spentVars,
      restVars, DeliveryTypes, Pushed, InHand, Carrying, CommandInHand, Busy, Steps
  <2>3. Held(u)
    BY <1>1, <1>38, <2>1 DEF Claim, At, Goto, listVars, factoryVars, worldVars, spentVars,
      restVars, DeliveryTypes, Attempting, Claimed, Faultless, SingleClaimant, CommandInHand,
      Busy, Steps
  <2> QED BY <2>2, <2>3
<1>39. ASSUME NEW w \in Workers, Save(w) PROVE Followed'
  <2> SUFFICES ASSUME Faultless', NEW u \in Targets PROVE Waits(u) /\ Held(u)
    BY DEF Followed
  <2>1. Faultless /\ (Pushed(u) /\ target[u] = "pending" => InHand(u))
          /\ (target[u] = "publishing" => \E v \in Workers : Attempting(v, u))
    BY <1>39 DEF Save, spentVars, restVars, Faultless, Followed
  <2>2. Waits(u)
    BY <1>1, <1>39, <2>1 DEF Save, At, Goto, listVars, factoryVars, worldVars, spentVars,
      restVars, DeliveryTypes, Pushed, InHand, Carrying, Claimed, Attempting, Faultless,
      SingleClaimant, CommandInHand, Busy, Steps
  <2>3. Held(u)
    BY <1>1, <1>39, <2>1 DEF Save, At, Goto, listVars, factoryVars, worldVars, spentVars,
      restVars, DeliveryTypes, Attempting, Claimed, Faultless, SingleClaimant, CommandInHand,
      Busy, Steps
  <2> QED BY <2>2, <2>3
<1>40. ASSUME NEW w \in Workers, Retry(w) PROVE Followed'
  <2> SUFFICES ASSUME Faultless', NEW u \in Targets PROVE Waits(u) /\ Held(u)
    BY DEF Followed
  <2>1. Faultless /\ (Pushed(u) /\ target[u] = "pending" => InHand(u))
          /\ (target[u] = "publishing" => \E v \in Workers : Attempting(v, u))
    BY <1>40 DEF Retry, spentVars, restVars, Faultless, Followed
  <2>2. Waits(u)
    BY <1>1, <1>40, <2>1 DEF Retry, At, Goto, listVars, factoryVars, worldVars, spentVars,
      restVars, DeliveryTypes, Pushed, InHand, Carrying, Claimed, Attempting, Faultless,
      SingleClaimant, CommandInHand, Busy, Steps
  <2>3. Held(u)
    BY <1>1, <1>40, <2>1 DEF Retry, At, Goto, listVars, factoryVars, worldVars, spentVars,
      restVars, DeliveryTypes, Attempting, Claimed, Faultless, SingleClaimant, CommandInHand,
      Busy, Steps
  <2> QED BY <2>2, <2>3
<1>41. ASSUME NEW w \in Workers, Reject(w) PROVE Followed'
  <2> SUFFICES ASSUME Faultless', NEW u \in Targets PROVE Waits(u) /\ Held(u)
    BY DEF Followed
  <2>1. Faultless /\ (Pushed(u) /\ target[u] = "pending" => InHand(u))
          /\ (target[u] = "publishing" => \E v \in Workers : Attempting(v, u))
    BY <1>41 DEF Reject, spentVars, restVars, Faultless, Followed
  <2>2. Waits(u)
    BY <1>1, <1>41, <2>1 DEF Reject, Goto, listVars, factoryVars, worldVars, spentVars,
      restVars, DeliveryTypes, Pushed, InHand, Carrying, Claimed, Attempting, Faultless,
      SingleClaimant, CommandInHand, Busy, Steps
  <2>3. Held(u)
    BY <1>1, <1>41, <2>1 DEF Reject, Goto, listVars, factoryVars, worldVars, spentVars,
      restVars, DeliveryTypes, Attempting, Claimed, Faultless, SingleClaimant, CommandInHand,
      Busy, Steps
  <2> QED BY <2>2, <2>3
<1> QED
  BY <1>2, <1>3, <1>4, <1>5, <1>6, <1>7, <1>8, <1>9, <1>10, <1>11, <1>12, <1>13, <1>14, <1>15,
    <1>16, <1>17, <1>18, <1>19, <1>20, <1>21, <1>22, <1>23, <1>24, <1>25, <1>26, <1>27, <1>28,
    <1>29, <1>30, <1>31, <1>32, <1>33, <1>34, <1>35, <1>36, <1>37, <1>38, <1>39, <1>40, <1>41
    DEF Next, FactoryNext, Scheduler, Flusher, Recovery, Adapter, Processing, RequestNext,
    Environment

\* The pipeline invariant together with the one on commands is inductive.
LEMMA NextFollowed == PublishInvariant /\ Followed /\ [Next]_vars => Followed'
<1> SUFFICES ASSUME PublishInvariant, Followed, [Next]_vars PROVE Followed'
  OBVIOUS
<1>1. CASE Next
  BY <1>1, FollowedStep
<1>2. CASE UNCHANGED vars
  BY <1>2 DEF vars, rowVars, listVars, workerVars, factoryVars, spentVars, Followed, Faultless,
    Pushed, InHand, Attempting
<1> QED BY <1>1, <1>2

\* The pipeline's targets stay followed.
THEOREM CommandsAreFollowed == Spec => []Followed
  BY InitFollowed, NextFollowed, Invariance, PTL DEF Spec

\* Without deaths of processes and failed statements no target is stranded: the
\* outbox, the list, a worker or the operator's request holds a command of each
\* dispatched target that waits (publish_outbox_worker.py, PublishingWorker.js).
THEOREM NothingStranded == Spec => []NoTargetStranded
<1>1. WellFormed /\ Followed => NoTargetStranded
  <2> SUFFICES ASSUME WellFormed, Followed, Faultless, NEW t \in Targets
               PROVE  /\ outbox[t] # "none" /\ target[t] = "pending" => Carried(t)
                      /\ target[t] = "publishing" => \E w \in Workers : Attempting(w, t)
    BY DEF NoTargetStranded
  <2>1. outbox[t] \in {"none", "pending", "sent"}
    BY DEF WellFormed, TypeOK, RowTypes
  <2> QED
    BY <2>1 DEF Followed, Pushed, InHand, Carrying, Carried
<1> QED BY <1>1, WellFormedness, CommandsAreFollowed, PTL

-----------------------------------------------------------------------------
(* Outcomes are mirrored and tallied *)

\* What the targets are mirrored to, and what the intents' targets add up to.
Outcomes == [t \in Targets |-> PublicationOf(t)]
Sums == [i \in Intents |-> TallyOf(i)]

\* Both depend on the targets' rows alone.
LEMMA OutcomeFrame ==
  UNCHANGED <<target, retries>> => UNCHANGED <<Outcomes, Sums>>
  BY DEF Outcomes, Sums, PublicationOf, TallyOf

\* A target has an outcome when it is terminal, and the targets of an intent add up
\* to something when all of them are.
LEMMA OutcomeFacts ==
  ASSUME DeliveryTypes
  PROVE  /\ \A t \in Targets : Outcomes[t] # "none" <=> target[t] \notin {"pending", "publishing"}
         /\ \A t \in Targets : Sums[IntentOf[t]] # "none" => Outcomes[t] # "none"
         /\ \A t \in Targets : Outcomes[t] = PublicationOf(t)
         /\ \A i \in Intents : Sums[i] = TallyOf(i)
         /\ \A i \in Intents : TargetsOf(i) = {} => Sums[i] = "none"
         /\ \A i \in Intents : Sums[i] \in {"published", "partial_failed", "failed", "none"}
<1>1. \A t \in Targets : PublicationOf(t) # "none" <=> target[t] \notin {"pending", "publishing"}
  BY DEF DeliveryTypes, PublicationOf, TargetStatus
<1>2. ASSUME NEW t \in Targets, TallyOf(IntentOf[t]) # "none"
      PROVE  target[t] \in {"published", "failed", "uncertain"}
  <2>1. t \in TargetsOf(IntentOf[t])
    BY DEF TargetsOf
  <2> QED BY <1>2, <2>1 DEF TallyOf
<1>3. \A i \in Intents : TallyOf(i) \in {"published", "partial_failed", "failed", "none"}
  BY DEF TallyOf
<1>4. \A i \in Intents : TargetsOf(i) = {} => TallyOf(i) = "none"
  BY DEF TallyOf
<1> QED BY <1>1, <1>2, <1>3, <1>4 DEF Outcomes, Sums, DeliveryTypes

\* An open target that changes concerns its own outcome and its own intent only.
LEMMA OutcomeMoves ==
  ASSUME DeliveryTypes, DeliveryTypes', NEW t \in Targets,
         target[t] \in {"pending", "publishing"},
         \A u \in Targets \ {t} : target'[u] = target[u] /\ retries'[u] = retries[u]
  PROVE  /\ Outcomes[t] = "none" /\ Sums[IntentOf[t]] = "none"
         /\ \A u \in Targets \ {t} : Outcomes'[u] = Outcomes[u]
         /\ \A i \in Intents \ {IntentOf[t]} : Sums'[i] = Sums[i]
         /\ target'[t] \in {"pending", "publishing"} =>
              Outcomes'[t] = "none" /\ Sums'[IntentOf[t]] = "none"
<1>1. Outcomes[t] = "none" /\ Sums[IntentOf[t]] = "none"
  BY OutcomeFacts
<1>2. \A u \in Targets \ {t} : Outcomes'[u] = Outcomes[u]
  BY DEF Outcomes, PublicationOf
<1>3. ASSUME NEW i \in Intents \ {IntentOf[t]} PROVE Sums'[i] = Sums[i]
  <2>1. \A u \in TargetsOf(i) : target'[u] = target[u]
    BY <1>3 DEF TargetsOf
  <2>2. TallyOf(i)' = TallyOf(i)
    <3>1. {u \in TargetsOf(i) : target'[u] = "published"} = {u \in TargetsOf(i) : target[u] = "published"}
      BY <2>1
    <3>2. {u \in TargetsOf(i) : target'[u] \in {"failed", "uncertain"}}
            = {u \in TargetsOf(i) : target[u] \in {"failed", "uncertain"}}
      BY <2>1
    <3>3. TargetsOf(i)' = TargetsOf(i)
      BY DEF TargetsOf
    <3> QED BY <3>1, <3>2, <3>3 DEF TallyOf
  <2> QED BY <2>2 DEF Sums
<1>4. ASSUME target'[t] \in {"pending", "publishing"}
      PROVE  Outcomes'[t] = "none" /\ Sums'[IntentOf[t]] = "none"
  <2>1. PublicationOf(t)' = "none"
    BY <1>4 DEF PublicationOf
  <2>2. TallyOf(IntentOf[t])' = "none"
    <3>1. t \in TargetsOf(IntentOf[t])'
      BY DEF TargetsOf
    <3> QED BY <1>4, <3>1 DEF TallyOf
  <2>3. IntentOf[t] \in Intents
    BY DEF DeliveryTypes
  <2> QED BY <2>1, <2>2, <2>3 DEF Outcomes, Sums
<1> QED BY <1>1, <1>2, <1>3, <1>4

\* Nobody has asked for another try, and what a worker read of a target or an intent
\* that has an outcome is still true.
Undisturbed ==
  /\ \A t \in Targets : request[t] = "idle"
  /\ \A w \in Workers :
       /\ pc[w] = "mirror" /\ snap[w] # "none" => snap[w] = Outcomes[msg[w]]
       /\ pc[w] = "settle" /\ snap[w] # "none" => snap[w] = Sums[IntentOf[msg[w]]]

\* The mirror of t is right or a worker is about to write it.
MirrorDue(t) ==
  Outcomes[t] # "none" =>
    \/ publication[t] = Outcomes[t]
    \/ \E w \in Workers : /\ msg[w] = t
                          /\ pc[w] = "sync" \/ (pc[w] = "mirror" /\ snap[w] = Outcomes[t])

\* The status of i is right or a worker is about to write it.
TallyDue(i) ==
  Sums[i] # "none" =>
    \/ intent[i] = Sums[i]
    \/ \E w \in Workers : /\ msg[w] \in Targets /\ IntentOf[msg[w]] = i
                          /\ \/ pc[w] \in {"sync", "tally"}
                             \/ pc[w] = "mirror" /\ snap[w] # "none"
                             \/ pc[w] = "settle" /\ snap[w] = Sums[i]

\* Each outcome is mirrored and tallied, or a worker has still to do it.
Reported ==
  Faultless /\ manuals = 0 =>
    /\ Undisturbed
    /\ \A t \in Targets : MirrorDue(t)
    /\ \A i \in Intents : TallyDue(i)

\* The initial state has no outcomes.
LEMMA InitReported == Init => Reported
<1> SUFFICES ASSUME Init PROVE Reported
  OBVIOUS
<1>1. DeliveryTypes
  BY InitWellFormed, HaveTypes
<1>2. /\ \A t \in Targets : target[t] = "pending" /\ request[t] = "idle"
     /\ \A w \in Workers : pc[w] = "down"
  BY DEF Init
<1>3. /\ \A t \in Targets : Outcomes[t] = "none"
     /\ \A i \in Intents : Sums[i] = "none"
  <2>1. \A t \in Targets : Outcomes[t] = "none"
    BY <1>1, <1>2, OutcomeFacts
  <2>2. ASSUME NEW i \in Intents PROVE Sums[i] = "none"
    <3>1. CASE TargetsOf(i) = {}
      BY <1>1, <3>1, OutcomeFacts
    <3>2. CASE TargetsOf(i) # {}
      <4>1. PICK t \in Targets : IntentOf[t] = i
        BY <3>2 DEF TargetsOf
      <4> QED BY <1>1, <2>1, <4>1, OutcomeFacts
    <3> QED BY <3>1, <3>2
  <2> QED BY <2>1, <2>2
<1> QED BY <1>2, <1>3 DEF Reported, Undisturbed, MirrorDue, TallyDue

\* A step of worker w that writes no row and has nothing to report before or after.
LEMMA SilentFrame ==
  ASSUME Reported, NEW w \in Workers, DeliveryTypes,
         UNCHANGED <<target, retries, request, publication, intent, crashes, dbErrors, manuals>>,
         \A v \in Workers \ {w} : pc'[v] = pc[v] /\ msg'[v] = msg[v] /\ snap'[v] = snap[v],
         pc[w] \notin {"sync", "mirror", "tally", "settle"},
         pc'[w] \notin {"mirror", "settle"}
  PROVE  Reported'
<1>1. UNCHANGED <<Outcomes, Sums>>
  BY OutcomeFrame
<1> SUFFICES ASSUME Faultless', manuals' = 0
             PROVE  Undisturbed' /\ (\A t \in Targets : MirrorDue(t)') /\ (\A i \in Intents : TallyDue(i)')
  BY DEF Reported
<1>2. Undisturbed /\ (\A t \in Targets : MirrorDue(t)) /\ (\A i \in Intents : TallyDue(i))
  BY DEF Reported, Faultless
<1>3. Undisturbed'
  BY <1>1, <1>2 DEF Undisturbed
<1>4. ASSUME NEW t \in Targets PROVE MirrorDue(t)'
  BY <1>1, <1>2 DEF MirrorDue
<1>5. ASSUME NEW i \in Intents PROVE TallyDue(i)'
  BY <1>1, <1>2 DEF TallyDue
<1> QED BY <1>3, <1>4, <1>5

\* Every step keeps it.
LEMMA ReportedStep ==
  ASSUME PublishInvariant, Followed, Reported, Next, DeliveryTypes'
  PROVE  Reported'
<1>1. DeliveryTypes /\ SingleClaimant /\ OutcomesBacked /\ UndispatchedIsQuiet
  BY HaveTypes DEF PublishInvariant, ClaimInvariant
<1> DEFINE Kept == Undisturbed' /\ (\A t \in Targets : MirrorDue(t)') /\ (\A i \in Intents : TallyDue(i)')
           Had == Faultless /\ Undisturbed /\ (\A t \in Targets : MirrorDue(t)) /\ (\A i \in Intents : TallyDue(i))
<1>2. ASSUME NEW i \in Intents, BecomesDue(i) PROVE Reported'
  <2>1. UNCHANGED <<target, retries, request, pc, msg, snap, publication, intent, crashes, dbErrors, manuals>>
    BY <1>2 DEF BecomesDue, listVars, workerVars, factoryVars, worldVars, spentVars
  <2> QED
    BY <2>1, OutcomeFrame DEF Reported, Faultless, Undisturbed, MirrorDue, TallyDue
<1>3. ASSUME NEW f \in Factories, SelectDue(f) PROVE Reported'
  <2>1. UNCHANGED <<target, retries, request, pc, msg, snap, publication, intent, crashes, dbErrors, manuals>>
    BY <1>3 DEF SelectDue, rowVars, listVars, workerVars, worldVars, spentVars
  <2> QED
    BY <2>1, OutcomeFrame DEF Reported, Faultless, Undisturbed, MirrorDue, TallyDue
<1>4. ASSUME NEW f \in Factories, NEW t \in Targets, FlushPush(f, t) PROVE Reported'
  <2>1. UNCHANGED <<target, retries, request, pc, msg, snap, publication, intent, crashes, dbErrors, manuals>>
    BY <1>4 DEF FlushPush, rowVars, workerVars, worldVars, spentVars
  <2> QED
    BY <2>1, OutcomeFrame DEF Reported, Faultless, Undisturbed, MirrorDue, TallyDue
<1>5. ASSUME NEW f \in Factories, FlushCommit(f) PROVE Reported'
  <2>1. UNCHANGED <<target, retries, request, pc, msg, snap, publication, intent, crashes, dbErrors, manuals>>
    BY <1>5 DEF FlushCommit, listVars, workerVars, worldVars, spentVars
  <2> QED
    BY <2>1, OutcomeFrame DEF Reported, Faultless, Undisturbed, MirrorDue, TallyDue
<1>6. ASSUME NEW f \in Factories, NEW old \in SUBSET Targets, FactoryRestart(f, old) PROVE Reported'
  <2>1. UNCHANGED <<target, retries, request, pc, msg, snap, publication, intent, crashes, dbErrors, manuals>>
    BY <1>6 DEF FactoryRestart, listVars, workerVars, worldVars
  <2> QED
    BY <2>1, OutcomeFrame DEF Reported, Faultless, Undisturbed, MirrorDue, TallyDue
<1>7. ASSUME NEW t \in Targets, NEW effect \in BOOLEAN, AbandonedCallEnds(t, effect) PROVE Reported'
  <2>1. UNCHANGED <<target, retries, request, pc, msg, snap, publication, intent, crashes, dbErrors, manuals>>
    BY <1>7 DEF AbandonedCallEnds, rowVars, listVars, workerVars, factoryVars, spentVars
  <2> QED
    BY <2>1, OutcomeFrame DEF Reported, Faultless, Undisturbed, MirrorDue, TallyDue
<1>8. ASSUME NEW w \in Workers, PostGoesOut(w) PROVE Reported'
  <2>1. UNCHANGED <<target, retries, request, pc, msg, snap, publication, intent, crashes, dbErrors, manuals>>
    BY <1>8 DEF PostGoesOut, rowVars, listVars, factoryVars, spentVars
  <2> QED
    BY <2>1, OutcomeFrame DEF Reported, Faultless, Undisturbed, MirrorDue, TallyDue
<1>9. ASSUME NEW w \in Workers, DbError(w) PROVE Reported'
  BY <1>1, <1>9 DEF DbError, DeliveryTypes, Reported, Faultless
<1>10. ASSUME NEW w \in Workers, Crash(w) PROVE Reported'
  BY <1>1, <1>10 DEF Crash, DeliveryTypes, Reported, Faultless
<1>11. ASSUME NEW t \in Targets, RetryDies(t) PROVE Reported'
  BY <1>1, <1>11 DEF RetryDies, DeliveryTypes, Reported, Faultless
<1>12. ASSUME NEW t \in Targets, RetryReset(t) PROVE Reported'
  BY <1>1, <1>12 DEF RetryReset, DeliveryTypes, Reported, Faultless
<1>13. ASSUME NEW t \in Targets, RetryPush(t) PROVE Reported'
  BY <1>1, <1>13 DEF RetryPush, spentVars, Reported, Faultless, Undisturbed
<1>14. ASSUME NEW t \in Targets, RetryMark(t) PROVE Reported'
  BY <1>1, <1>14 DEF RetryMark, spentVars, Reported, Faultless, Undisturbed
<1>15. ASSUME NEW w \in Workers, Start(w) PROVE Reported'
  BY <1>1, <1>15, SilentFrame DEF Start, At, Goto, rowVars, listVars, factoryVars, worldVars,
    spentVars, DeliveryTypes, Steps
<1>16. ASSUME NEW w \in Workers, NEW t \in Targets, RecoverTake(w, t) PROVE Reported'
  BY <1>1, <1>16, SilentFrame DEF RecoverTake, At, rowVars, factoryVars, worldVars, spentVars,
    restVars, DeliveryTypes, Steps
<1>17. ASSUME NEW w \in Workers, RecoverPut(w) PROVE Reported'
  BY <1>1, <1>17, SilentFrame DEF RecoverPut, At, rowVars, factoryVars, worldVars, spentVars,
    restVars, DeliveryTypes, Steps
<1>18. ASSUME NEW w \in Workers, RecoverDone(w) PROVE Reported'
  BY <1>1, <1>18, SilentFrame DEF RecoverDone, At, Goto, rowVars, listVars, factoryVars,
    worldVars, spentVars, DeliveryTypes, Steps
<1>19. ASSUME NEW w \in Workers, NEW t \in Targets, Receive(w, t) PROVE Reported'
  BY <1>1, <1>19, SilentFrame DEF Receive, At, Goto, rowVars, factoryVars, worldVars,
    spentVars, restVars, DeliveryTypes, Steps
<1>20. ASSUME NEW w \in Workers, Read(w) PROVE Reported'
  BY <1>1, <1>20, SilentFrame DEF Read, At, Goto, AfterRead, rowVars, listVars, factoryVars,
    worldVars, spentVars, restVars, DeliveryTypes, Steps
<1>21. ASSUME NEW w \in Workers, AdapterSucceeds(w) PROVE Reported'
  BY <1>1, <1>21, SilentFrame DEF AdapterSucceeds, At, Goto, rowVars, listVars, factoryVars,
    worldVars, spentVars, restVars, DeliveryTypes, Steps
<1>22. ASSUME NEW w \in Workers, AdapterFailsEarly(w) PROVE Reported'
  BY <1>1, <1>22, SilentFrame DEF AdapterFailsEarly, At, Goto, rowVars, listVars, factoryVars,
    worldVars, spentVars, restVars, DeliveryTypes, Steps
<1>23. ASSUME NEW w \in Workers, AdapterFailsLate(w) PROVE Reported'
  BY <1>1, <1>23, SilentFrame DEF AdapterFailsLate, At, Goto, rowVars, listVars, factoryVars,
    worldVars, spentVars, restVars, DeliveryTypes, Steps
<1>24. ASSUME NEW w \in Workers, AdapterTimesOut(w) PROVE Reported'
  BY <1>1, <1>24, SilentFrame DEF AdapterTimesOut, At, Goto, rowVars, listVars, factoryVars,
    spentVars, DeliveryTypes, Steps
<1>25. ASSUME NEW w \in Workers, PushDlq(w) PROVE Reported'
  BY <1>1, <1>25, SilentFrame DEF PushDlq, At, Goto, rowVars, factoryVars, worldVars,
    spentVars, restVars, DeliveryTypes, Steps
<1>26. ASSUME NEW w \in Workers, Requeue(w) PROVE Reported'
  BY <1>1, <1>26, SilentFrame DEF Requeue, At, Goto, rowVars, factoryVars, worldVars,
    spentVars, restVars, DeliveryTypes, Steps
<1>27. ASSUME NEW w \in Workers, Ack(w) PROVE Reported'
  BY <1>1, <1>27, SilentFrame DEF Ack, At, Goto, Finish, rowVars, factoryVars, worldVars,
    spentVars, restVars, DeliveryTypes, Steps
<1>28. ASSUME NEW w \in Workers, Catch(w) PROVE Reported'
  BY <1>1, <1>28 DEF OutcomesBacked, Catch, At, spentVars, restVars, Reported, Faultless
<1>29. ASSUME NEW w \in Workers, NEW old \in SUBSET Targets, RepairStale(w, old) PROVE Reported'
  <2> SUFFICES ASSUME Faultless', manuals' = 0 PROVE Reported'
    BY DEF Reported
  <2>1. StaleCandidates = {}
    BY <1>29 DEF RepairStale, restVars, spentVars, Faultless, Followed, StaleCandidates
  <2>2. target' = target
    BY <1>1, <1>29, <2>1 DEF RepairStale, DeliveryTypes
  <2> QED
    BY <1>1, <1>29, <2>2, SilentFrame DEF RepairStale, At, Goto, listVars, factoryVars,
      worldVars, spentVars, restVars, DeliveryTypes, Steps
<1>30. ASSUME NEW i \in Intents, PublishNow(i) PROVE Reported'
  <2> SUFFICES ASSUME Faultless', manuals' = 0 PROVE Kept
    BY DEF Reported
  <2>1. Had
    BY <1>30 DEF PublishNow, Dispatch, spentVars, Faultless, Reported
  <2>2. target' = target
    BY <1>1, <1>30 DEF PublishNow, Dispatch, rowVars, DeliveryTypes, UndispatchedIsQuiet
  <2>3. /\ UNCHANGED <<retries, request, pc, msg, snap, publication>>
        /\ \A j \in Intents : intent'[j] # intent[j] => j = i /\ intent[i] = "ready" /\ TargetsOf(i) # {}
    BY <1>1, <1>30 DEF PublishNow, Dispatch, listVars, workerVars, factoryVars, worldVars,
      spentVars, DeliveryTypes
  <2>4. \A j \in Intents : intent'[j] # intent[j] => Sums[j] = "none"
    BY <1>1, <2>3, OutcomeFacts DEF UndispatchedIsQuiet, TargetsOf
  <2>5. UNCHANGED <<Outcomes, Sums>>
    BY <2>2, <2>3, OutcomeFrame
  <2> QED
    BY <2>1, <2>3, <2>4, <2>5 DEF Undisturbed, MirrorDue, TallyDue
<1>31. ASSUME NEW f \in Factories, NEW i \in Intents, DispatchSelected(f, i) PROVE Reported'
  <2> SUFFICES ASSUME Faultless', manuals' = 0 PROVE Kept
    BY DEF Reported
  <2>1. Had
    BY <1>31 DEF DispatchSelected, Dispatch, rowVars, spentVars, Faultless, Reported
  <2>2. target' = target
    BY <1>1, <1>31 DEF DispatchSelected, Dispatch, rowVars, DeliveryTypes, UndispatchedIsQuiet
  <2>3. /\ UNCHANGED <<retries, request, pc, msg, snap, publication>>
        /\ \A j \in Intents : intent'[j] # intent[j] => j = i /\ intent[i] = "ready" /\ TargetsOf(i) # {}
    BY <1>1, <1>31 DEF DispatchSelected, Dispatch, rowVars, listVars, workerVars, worldVars,
      spentVars, DeliveryTypes
  <2>4. \A j \in Intents : intent'[j] # intent[j] => Sums[j] = "none"
    BY <1>1, <2>3, OutcomeFacts DEF UndispatchedIsQuiet, TargetsOf
  <2>5. UNCHANGED <<Outcomes, Sums>>
    BY <2>2, <2>3, OutcomeFrame
  <2> QED
    BY <2>1, <2>3, <2>4, <2>5 DEF Undisturbed, MirrorDue, TallyDue
<1>32. ASSUME NEW i \in Intents, NEW past \in BOOLEAN, Reschedule(i, past) PROVE Reported'
  <2> SUFFICES ASSUME Faultless', manuals' = 0 PROVE Kept
    BY DEF Reported
  <2>1. Had
    BY <1>32 DEF Reschedule, Faultless, Reported
  <2>2. /\ UNCHANGED <<target, retries, request, pc, msg, snap, publication>>
        /\ \A j \in Intents : intent'[j] # intent[j] => intent[j] = "draft"
    BY <1>1, <1>32 DEF Reschedule, listVars, workerVars, factoryVars, worldVars, DeliveryTypes
  <2>3. \A j \in Intents : intent'[j] # intent[j] => Sums[j] = "none"
    <3> SUFFICES ASSUME NEW j \in Intents, intent[j] = "draft" PROVE Sums[j] = "none"
      BY <2>2
    <3>1. CASE TargetsOf(j) = {}
      BY <1>1, <3>1, OutcomeFacts
    <3>2. CASE TargetsOf(j) # {}
      <4>1. PICK t \in Targets : IntentOf[t] = j
        BY <3>2 DEF TargetsOf
      <4> QED BY <1>1, <4>1, OutcomeFacts DEF UndispatchedIsQuiet
    <3> QED BY <3>1, <3>2
  <2>4. UNCHANGED <<Outcomes, Sums>>
    BY <2>2, OutcomeFrame
  <2> QED
    BY <2>1, <2>2, <2>3, <2>4 DEF Undisturbed, MirrorDue, TallyDue
<1>33. ASSUME NEW w \in Workers, RepairIntents(w) PROVE Reported'
  <2> SUFFICES ASSUME Faultless', manuals' = 0 PROVE Kept
    BY DEF Reported
  <2>1. Had
    BY <1>33 DEF RepairIntents, spentVars, restVars, Faultless, Reported
  <2>2. UNCHANGED <<Outcomes, Sums>>
    BY <1>33, OutcomeFrame DEF RepairIntents
  <2>3. /\ UNCHANGED <<request, publication, msg, snap>> /\ pc[w] = "orphans" /\ pc'[w] = "idle"
        /\ \A v \in Workers \ {w} : pc'[v] = pc[v]
        /\ \A i \in Intents : intent'[i] = intent[i] \/ intent'[i] = Sums[i]
    BY <1>1, <1>33, OutcomeFacts DEF RepairIntents, At, Goto, listVars, factoryVars, worldVars,
      spentVars, restVars, DeliveryTypes, CommandInHand, Busy, Steps
  <2>4. Undisturbed'
    BY <1>1, <2>1, <2>2, <2>3 DEF Undisturbed, DeliveryTypes
  <2>5. \A t \in Targets : MirrorDue(t)'
    BY <1>1, <2>1, <2>2, <2>3 DEF MirrorDue, DeliveryTypes, Undisturbed
  <2>6. \A i \in Intents : TallyDue(i)'
    BY <1>1, <2>1, <2>2, <2>3 DEF TallyDue, DeliveryTypes, Undisturbed
  <2> QED BY <2>4, <2>5, <2>6
<1>34. ASSUME NEW w \in Workers, Sync(w) PROVE Reported'
  <2> SUFFICES ASSUME Faultless', manuals' = 0 PROVE Kept
    BY DEF Reported
  <2>1. Had
    BY <1>34 DEF Sync, rowVars, spentVars, restVars, Faultless, Reported
  <2>2. UNCHANGED <<Outcomes, Sums>>
    BY <1>34, OutcomeFrame DEF Sync, rowVars
  <2>3. /\ UNCHANGED <<request, publication, intent, msg>> /\ \A v \in Workers \ {w} : pc'[v] = pc[v] /\ msg'[v] = msg[v] /\ snap'[v] = snap[v]
        /\ pc[w] = "sync" /\ pc'[w] = "mirror" /\ msg[w] \in Targets /\ snap'[w] = Outcomes[msg[w]]
    BY <1>1, <1>34, OutcomeFacts DEF Sync, At, Goto, rowVars, listVars, factoryVars, worldVars,
      spentVars, restVars, DeliveryTypes, CommandInHand, Busy, Steps
  <2>4. Undisturbed'
    BY <1>1, <2>1, <2>2, <2>3 DEF Undisturbed, DeliveryTypes
  <2>5. \A t \in Targets : MirrorDue(t)'
    BY <1>1, <2>1, <2>2, <2>3 DEF MirrorDue, DeliveryTypes, Undisturbed
  <2>6. \A i \in Intents : TallyDue(i)'
    BY <1>1, <2>1, <2>2, <2>3, OutcomeFacts DEF TallyDue, DeliveryTypes, Undisturbed
  <2> QED BY <2>4, <2>5, <2>6
<1>35. ASSUME NEW w \in Workers, Mirror(w) PROVE Reported'
  <2> SUFFICES ASSUME Faultless', manuals' = 0 PROVE Kept
    BY DEF Reported
  <2>1. Had
    BY <1>35 DEF Mirror, spentVars, restVars, Faultless, Reported
  <2>2. UNCHANGED <<Outcomes, Sums>>
    BY <1>35, OutcomeFrame DEF Mirror
  <2>3. /\ UNCHANGED <<request, intent, msg>> /\ \A v \in Workers \ {w} : pc'[v] = pc[v] /\ msg'[v] = msg[v] /\ snap'[v] = snap[v]
        /\ pc[w] = "mirror" /\ pc'[w] \in {"dlq", "lrem", "tally"} /\ msg[w] \in Targets
        /\ \A t \in Targets \ {msg[w]} : publication'[t] = publication[t]
        /\ snap[w] = "none" => publication' = publication
        /\ snap[w] # "none" => publication'[msg[w]] = snap[w] /\ pc'[w] = "tally"
    BY <1>1, <1>35, OutcomeFacts DEF Mirror, At, Goto, Acknowledge, listVars, factoryVars,
      worldVars, spentVars, restVars, DeliveryTypes, CommandInHand, Busy, Steps
  <2>4. Undisturbed'
    BY <1>1, <2>1, <2>2, <2>3 DEF Undisturbed, DeliveryTypes
  <2>5. \A t \in Targets : MirrorDue(t)'
    BY <1>1, <2>1, <2>2, <2>3 DEF MirrorDue, DeliveryTypes, Undisturbed
  <2>6. \A i \in Intents : TallyDue(i)'
    BY <1>1, <2>1, <2>2, <2>3 DEF TallyDue, DeliveryTypes, Undisturbed
  <2> QED BY <2>4, <2>5, <2>6
<1>36. ASSUME NEW w \in Workers, Tally(w) PROVE Reported'
  <2> SUFFICES ASSUME Faultless', manuals' = 0 PROVE Kept
    BY DEF Reported
  <2>1. Had
    BY <1>36 DEF Tally, rowVars, spentVars, restVars, Faultless, Reported
  <2>2. UNCHANGED <<Outcomes, Sums>>
    BY <1>36, OutcomeFrame DEF Tally, rowVars
  <2>3. /\ UNCHANGED <<request, publication, intent, msg>> /\ \A v \in Workers \ {w} : pc'[v] = pc[v] /\ msg'[v] = msg[v] /\ snap'[v] = snap[v]
        /\ pc[w] = "tally" /\ pc'[w] = "settle" /\ msg[w] \in Targets /\ snap'[w] = Sums[IntentOf[msg[w]]]
    BY <1>1, <1>36, OutcomeFacts DEF Tally, At, Goto, rowVars, listVars, factoryVars,
      worldVars, spentVars, restVars, DeliveryTypes, CommandInHand, Busy, Steps
  <2>4. Undisturbed'
    BY <1>1, <2>1, <2>2, <2>3 DEF Undisturbed, DeliveryTypes
  <2>5. \A t \in Targets : MirrorDue(t)'
    BY <1>1, <2>1, <2>2, <2>3 DEF MirrorDue, DeliveryTypes, Undisturbed
  <2>6. \A i \in Intents : TallyDue(i)'
    BY <1>1, <2>1, <2>2, <2>3, OutcomeFacts DEF TallyDue, DeliveryTypes, Undisturbed
  <2> QED BY <2>4, <2>5, <2>6
<1>37. ASSUME NEW w \in Workers, Settle(w) PROVE Reported'
  <2> SUFFICES ASSUME Faultless', manuals' = 0 PROVE Kept
    BY DEF Reported
  <2>1. Had
    BY <1>37 DEF Settle, spentVars, restVars, Faultless, Reported
  <2>2. UNCHANGED <<Outcomes, Sums>>
    BY <1>37, OutcomeFrame DEF Settle
  <2>3. /\ UNCHANGED <<request, publication>> /\ \A v \in Workers \ {w} : pc'[v] = pc[v] /\ msg'[v] = msg[v] /\ snap'[v] = snap[v]
        /\ pc[w] = "settle" /\ pc'[w] \in {"dlq", "lrem", "idle"} /\ msg[w] \in Targets
        /\ \A i \in Intents \ {IntentOf[msg[w]]} : intent'[i] = intent[i]
        /\ snap[w] = "none" => intent' = intent
        /\ snap[w] # "none" => intent'[IntentOf[msg[w]]] = snap[w]
    BY <1>1, <1>37, OutcomeFacts DEF Settle, At, Goto, Finish, Acknowledge, listVars,
      factoryVars, worldVars, spentVars, restVars, DeliveryTypes, CommandInHand, Busy, Steps
  <2>4. Undisturbed'
    BY <1>1, <2>1, <2>2, <2>3 DEF Undisturbed, DeliveryTypes
  <2>5. \A t \in Targets : MirrorDue(t)'
    BY <1>1, <2>1, <2>2, <2>3 DEF MirrorDue, DeliveryTypes, Undisturbed
  <2>6. \A i \in Intents : TallyDue(i)'
    BY <1>1, <2>1, <2>2, <2>3 DEF TallyDue, DeliveryTypes, Undisturbed
  <2> QED BY <2>4, <2>5, <2>6
<1>38. ASSUME NEW w \in Workers, Claim(w) PROVE Reported'
  <2> SUFFICES ASSUME Faultless', manuals' = 0 PROVE Kept
    BY DEF Reported
  <2>1. Had
    BY <1>38 DEF Claim, spentVars, restVars, Faultless, Reported
  <2>2. /\ msg[w] \in Targets /\ IntentOf[msg[w]] \in Intents
        /\ UNCHANGED <<request, publication, intent, msg, snap>> /\ \A v \in Workers \ {w} : pc'[v] = pc[v]
        /\ pc[w] = "claim" /\ pc'[w] \in {"adapter", "push"}
        /\ \A u \in Targets \ {msg[w]} : target'[u] = target[u] /\ retries'[u] = retries[u]
    BY <1>1, <1>38 DEF Claim, At, Goto, listVars, factoryVars, worldVars, spentVars, restVars,
      DeliveryTypes, CommandInHand, Busy, Steps
  <2>3. CASE target[msg[w]] # "pending"
    <3>1. target' = target /\ retries' = retries
      BY <1>38, <2>3 DEF Claim, DeliveryTypes
    <3>2. UNCHANGED <<Outcomes, Sums>>
      BY <3>1, OutcomeFrame
    <3> QED
      BY <2>1, <2>2, <3>2 DEF Undisturbed, MirrorDue, TallyDue
  <2>4. CASE target[msg[w]] = "pending"
    <3>1. target'[msg[w]] = "publishing"
      BY <1>1, <1>38, <2>2, <2>4 DEF Claim, DeliveryTypes
    <3>5. /\ Outcomes[msg[w]] = "none" /\ Sums[IntentOf[msg[w]]] = "none"
          /\ \A u \in Targets \ {msg[w]} : Outcomes'[u] = Outcomes[u]
          /\ \A i \in Intents \ {IntentOf[msg[w]]} : Sums'[i] = Sums[i]
          /\ Outcomes'[msg[w]] = "none" /\ Sums'[IntentOf[msg[w]]] = "none"
      BY <1>1, <2>2, <2>4, <3>1, OutcomeMoves
    <3>6. Undisturbed'
      BY <1>1, <2>1, <2>2, <3>5 DEF Undisturbed, DeliveryTypes, CommandInHand, Busy, Steps
    <3>7. \A t \in Targets : MirrorDue(t)'
      BY <1>1, <2>1, <2>2, <3>5, <2>4, <3>1 DEF MirrorDue
    <3>8. \A i \in Intents : TallyDue(i)'
      BY <1>1, <2>1, <2>2, <3>5, <2>4, <3>1 DEF TallyDue
    <3> QED BY <3>6, <3>7, <3>8
  <2> QED BY <2>3, <2>4
<1>39. ASSUME NEW w \in Workers, Save(w) PROVE Reported'
  <2> SUFFICES ASSUME Faultless', manuals' = 0 PROVE Kept
    BY DEF Reported
  <2>1. Had
    BY <1>39 DEF Save, spentVars, restVars, Faultless, Reported
  <2>2. /\ msg[w] \in Targets /\ IntentOf[msg[w]] \in Intents
        /\ UNCHANGED <<request, publication, intent, msg, snap>> /\ \A v \in Workers \ {w} : pc'[v] = pc[v]
        /\ pc[w] = "save" /\ pc'[w] \in {"sync", "lrem"}
        /\ \A u \in Targets \ {msg[w]} : target'[u] = target[u] /\ retries'[u] = retries[u]
    BY <1>1, <1>39 DEF Save, At, Goto, listVars, factoryVars, worldVars, spentVars, restVars,
      DeliveryTypes, CommandInHand, Busy, Steps
  <2>3. target[msg[w]] = "publishing"
    BY <1>1, <1>39, <2>1 DEF Save, At, SingleClaimant, Claimed, Faultless
  <2>4. pc'[w] = "sync"
    BY <1>1, <1>39, <2>3 DEF Save, Goto, DeliveryTypes
  <2>5. /\ Outcomes[msg[w]] = "none" /\ Sums[IntentOf[msg[w]]] = "none"
        /\ \A u \in Targets \ {msg[w]} : Outcomes'[u] = Outcomes[u]
        /\ \A i \in Intents \ {IntentOf[msg[w]]} : Sums'[i] = Sums[i]
    BY <1>1, <2>2, <2>3, <2>4, OutcomeMoves
  <2>6. Undisturbed'
    BY <1>1, <2>1, <2>2, <2>5 DEF Undisturbed, DeliveryTypes, CommandInHand, Busy, Steps
  <2>7. \A t \in Targets : MirrorDue(t)'
    BY <1>1, <2>1, <2>2, <2>5, <2>3, <2>4 DEF MirrorDue
  <2>8. \A i \in Intents : TallyDue(i)'
    BY <1>1, <2>1, <2>2, <2>5, <2>3, <2>4 DEF TallyDue
  <2> QED BY <2>6, <2>7, <2>8
<1>40. ASSUME NEW w \in Workers, Retry(w) PROVE Reported'
  <2> SUFFICES ASSUME Faultless', manuals' = 0 PROVE Kept
    BY DEF Reported
  <2>1. Had
    BY <1>40 DEF Retry, spentVars, restVars, Faultless, Reported
  <2>2. /\ msg[w] \in Targets /\ IntentOf[msg[w]] \in Intents
        /\ UNCHANGED <<request, publication, intent, msg, snap>> /\ \A v \in Workers \ {w} : pc'[v] = pc[v]
        /\ pc[w] = "fail" /\ pc'[w] \in {"push", "reject"}
        /\ \A u \in Targets \ {msg[w]} : target'[u] = target[u] /\ retries'[u] = retries[u]
    BY <1>1, <1>40 DEF Retry, At, Goto, listVars, factoryVars, worldVars, spentVars, restVars,
      DeliveryTypes, CommandInHand, Busy, Steps
  <2>3. target[msg[w]] = "publishing"
    BY <1>1, <1>40, <2>1 DEF Retry, At, SingleClaimant, Claimed, Faultless
  <2>4. target'[msg[w]] \in {"pending", "publishing"}
    BY <1>1, <1>40, <2>3 DEF Retry, DeliveryTypes
  <2>5. /\ Outcomes[msg[w]] = "none" /\ Sums[IntentOf[msg[w]]] = "none"
        /\ \A u \in Targets \ {msg[w]} : Outcomes'[u] = Outcomes[u]
        /\ \A i \in Intents \ {IntentOf[msg[w]]} : Sums'[i] = Sums[i]
        /\ Outcomes'[msg[w]] = "none" /\ Sums'[IntentOf[msg[w]]] = "none"
    BY <1>1, <2>2, <2>3, <2>4, OutcomeMoves
  <2>6. Undisturbed'
    BY <1>1, <2>1, <2>2, <2>5 DEF Undisturbed, DeliveryTypes, CommandInHand, Busy, Steps
  <2>7. \A t \in Targets : MirrorDue(t)'
    BY <1>1, <2>1, <2>2, <2>5, <2>3, <2>4 DEF MirrorDue
  <2>8. \A i \in Intents : TallyDue(i)'
    BY <1>1, <2>1, <2>2, <2>5, <2>3, <2>4 DEF TallyDue
  <2> QED BY <2>6, <2>7, <2>8
<1>41. ASSUME NEW w \in Workers, Reject(w) PROVE Reported'
  <2> SUFFICES ASSUME Faultless', manuals' = 0 PROVE Kept
    BY DEF Reported
  <2>1. Had
    BY <1>41 DEF Reject, spentVars, restVars, Faultless, Reported
  <2>2. /\ msg[w] \in Targets /\ IntentOf[msg[w]] \in Intents
        /\ UNCHANGED <<request, publication, intent, msg, snap>> /\ \A v \in Workers \ {w} : pc'[v] = pc[v]
        /\ pc[w] \in {"reject", "doubt"} /\ pc'[w] = "sync"
        /\ \A u \in Targets \ {msg[w]} : target'[u] = target[u] /\ retries'[u] = retries[u]
    BY <1>1, <1>41 DEF Reject, Goto, listVars, factoryVars, worldVars, spentVars, restVars,
      DeliveryTypes, CommandInHand, Busy, Steps
  <2>3. target[msg[w]] = "publishing"
    BY <1>1, <1>41, <2>1 DEF Reject, At, SingleClaimant, Claimed, Faultless
  <2>4. pc'[w] = "sync"
    BY <2>2
  <2>5. /\ Outcomes[msg[w]] = "none" /\ Sums[IntentOf[msg[w]]] = "none"
        /\ \A u \in Targets \ {msg[w]} : Outcomes'[u] = Outcomes[u]
        /\ \A i \in Intents \ {IntentOf[msg[w]]} : Sums'[i] = Sums[i]
    BY <1>1, <2>2, <2>3, <2>4, OutcomeMoves
  <2>6. Undisturbed'
    BY <1>1, <2>1, <2>2, <2>5 DEF Undisturbed, DeliveryTypes, CommandInHand, Busy, Steps
  <2>7. \A t \in Targets : MirrorDue(t)'
    BY <1>1, <2>1, <2>2, <2>5, <2>3, <2>4 DEF MirrorDue
  <2>8. \A i \in Intents : TallyDue(i)'
    BY <1>1, <2>1, <2>2, <2>5, <2>3, <2>4 DEF TallyDue
  <2> QED BY <2>6, <2>7, <2>8
<1> QED
  BY <1>2, <1>3, <1>4, <1>5, <1>6, <1>7, <1>8, <1>9, <1>10, <1>11, <1>12, <1>13, <1>14, <1>15,
    <1>16, <1>17, <1>18, <1>19, <1>20, <1>21, <1>22, <1>23, <1>24, <1>25, <1>26, <1>27, <1>28,
    <1>29, <1>30, <1>31, <1>32, <1>33, <1>34, <1>35, <1>36, <1>37, <1>38, <1>39, <1>40, <1>41
    DEF Next, FactoryNext, Scheduler, Flusher, Recovery, Adapter, Processing, RequestNext,
    Environment

\* The three invariants together are inductive.
LEMMA NextReported == PublishInvariant /\ Followed /\ Reported /\ [Next]_vars => Reported'
<1> SUFFICES ASSUME PublishInvariant, Followed, Reported, [Next]_vars PROVE Reported'
  OBVIOUS
<1>1. CASE Next
  <2>1. DeliveryTypes'
    <3>1. WellFormed'
      BY NextWellFormed DEF PublishInvariant, ClaimInvariant
    <3> QED BY <3>1, HaveTypes, PTL
  <2> QED BY <1>1, <2>1, ReportedStep
<1>2. CASE UNCHANGED vars
  <2>1. UNCHANGED <<target, retries, request, pc, msg, snap, publication, intent, crashes, dbErrors, manuals>>
    BY <1>2 DEF vars, rowVars, listVars, workerVars, spentVars
  <2> QED
    BY <2>1, OutcomeFrame DEF Reported, Faultless, Undisturbed, MirrorDue, TallyDue
<1> QED BY <1>1, <1>2

\* Without deaths of processes, failed statements and operators' retries, the rows the
\* dashboard shows (publications, publication_intents) are what the targets' rows say as
\* soon as nobody works on them: the two writers of PublishingWorker.js that read first
\* and write later (mirror and tally) never leave a stale answer behind, however many
\* workers finish targets of one intent at the same time.
THEOREM OutcomesEndInAgreement == Spec => []OutcomesAgree
<1>1. WellFormed /\ Reported => OutcomesAgree
  <2> SUFFICES ASSUME WellFormed, Reported, Faultless, manuals = 0
               PROVE  PublicationMirrorsTarget /\ IntentTalliesTargets
    BY DEF OutcomesAgree
  <2>1. DeliveryTypes
    BY HaveTypes
  <2>2. PublicationMirrorsTarget
    BY <2>1, OutcomeFacts DEF PublicationMirrorsTarget, AtRest, Reported, MirrorDue
  <2>3. IntentTalliesTargets
    <3> SUFFICES ASSUME NEW i \in Intents, TallyOf(i) # "none", \A t \in TargetsOf(i) : AtRest(t)
                 PROVE  intent[i] = TallyOf(i)
      BY DEF IntentTalliesTargets
    <3>1. \A w \in Workers : ~(msg[w] \in Targets /\ IntentOf[msg[w]] = i)
      BY DEF AtRest, TargetsOf
    <3> QED BY <2>1, <3>1, OutcomeFacts DEF Reported, TallyDue
  <2> QED BY <2>2, <2>3
<1>2. Init => PublishInvariant /\ Followed /\ Reported
  BY InitInvariant, InitFollowed, InitReported
<1>3. PublishInvariant /\ Followed /\ Reported /\ [Next]_vars =>
        (PublishInvariant /\ Followed /\ Reported)'
  BY NextInvariant, NextFollowed, NextReported
<1>4. PublishInvariant => WellFormed
  BY DEF PublishInvariant, ClaimInvariant
<1> QED BY <1>1, <1>2, <1>3, <1>4, PTL DEF Spec

=============================================================================
