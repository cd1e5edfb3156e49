------------------------- MODULE GenerationJob_proofs -------------------------
(***************************************************************************)
(* Proofs about a generation job, for any number of tasks, processes,      *)
(* scenes, requests, retries and restarts: the exclusion of pipelines per  *)
(* process; where one process serves the job, that a cancelled job is left *)
(* alone, that no step stays running without a pipeline and that exports   *)
(* are accounted for; and that a job completes with its output.            *)
(***************************************************************************)
EXTENDS GenerationJob, FiniteSetTheorems, TLAPS

JobType == [status : JobStatuses, mode : AllModes, output : {"none", "ok"},
            ctrl : [StepIds -> Controls]]
SceneType == [status : SceneStatuses, start : Urls, end : Urls, video : {"none", "ok"}]
ReqType == [id : Nat, op : AllOperations, step : StepIds, ctrl : [StepIds -> Controls]]

-----------------------------------------------------------------------------
(* Types *)

\* The records the steps store.
LEMMA RecordTypes ==
  /\ DefaultControl \in [StepIds -> Controls]
  /\ NoScene \in SceneType /\ FreshScene \in SceneType
  /\ \A mode \in AllModes : ScenesOf(mode) \in [Scenes -> SceneType]
  /\ Idle \in TaskType
  /\ \A kind \in {"none", "pipeline", "from", "scene"}, arg \in 0..5 \cup Scenes :
       Scheduled(kind, arg) \in TaskType
<1>1. DefaultControl \in [StepIds -> Controls]
  BY DEF DefaultControl, Controls
<1>2. NoScene \in SceneType /\ FreshScene \in SceneType
  BY DEF NoScene, FreshScene, SceneType, SceneStatuses, Urls
<1>3. \A mode \in AllModes : ScenesOf(mode) \in [Scenes -> SceneType]
  BY <1>2 DEF ScenesOf
<1>4. Idle \in TaskType
  BY <1>1 DEF Idle, TaskType, TaskPcs, Outside, Rows
<1>5. \A kind \in {"none", "pipeline", "from", "scene"}, arg \in 0..5 \cup Scenes :
        Scheduled(kind, arg) \in TaskType
  BY <1>4 DEF Scheduled, TaskType, TaskPcs, Outside
<1> QED BY <1>1, <1>2, <1>3, <1>4, <1>5

\* The record of task t is replaced by another of the right type.
LEMMA TaskTyped ==
  ASSUME TypeOK, NEW t \in Tasks, NEW task \in TaskType, tasks' = [tasks EXCEPT ![t] = task]
  PROVE  tasks' \in [Tasks -> TaskType]
  BY DEF TypeOK

LEMMA GotoTyped ==
  ASSUME TypeOK, NEW t \in Tasks, NEW pc \in TaskPcs, Goto(t, pc)
  PROVE  tasks' \in [Tasks -> TaskType]
  BY DEF TypeOK, Goto, TaskType

LEMMA CheckedTyped ==
  ASSUME TypeOK, NEW t \in Tasks, NEW pc \in TaskPcs
  PROVE  Checked(t, pc) \in TaskType
<1>1. tasks[t] \in TaskType /\ job.ctrl \in [StepIds -> Controls]
  BY DEF TypeOK
<1> QED BY <1>1 DEF Checked, TaskType

\* The fields a step writes beside the place.
LEMMA StepEdit ==
  ASSUME NEW task \in TaskType, NEW pc \in TaskPcs, NEW step \in 0..5
  PROVE  [task EXCEPT !.pc = pc, !.step = step] \in TaskType
  BY DEF TaskType

LEMMA CurEdit ==
  ASSUME NEW task \in TaskType, NEW pc \in TaskPcs, NEW cur \in Nat
  PROVE  [task EXCEPT !.pc = pc, !.cur = cur] \in TaskType
  BY DEF TaskType

LEMMA CtrlEdit ==
  ASSUME NEW task \in TaskType, NEW step \in 0..5, NEW ctrl \in [StepIds -> Controls]
  PROVE  [task EXCEPT !.step = step, !.ctrl = ctrl] \in TaskType
  BY DEF TaskType

LEMMA EndEdit ==
  ASSUME NEW task \in TaskType, NEW pc \in TaskPcs, NEW ctrl \in [StepIds -> Controls]
  PROVE  [task EXCEPT !.ctrl = ctrl, !.pc = pc] \in TaskType
  BY DEF TaskType

LEMMA StartEdit ==
  ASSUME NEW task \in TaskType, NEW pc \in TaskPcs, NEW ctrl \in [StepIds -> Controls],
         NEW cur \in Nat, NEW tries \in 0..2, NEW rows \in [Scenes -> Rows]
  PROVE  [task EXCEPT !.pc = pc,
        !.ctrl = ctrl, !.cur = cur, !.tries = tries, !.rows = rows] \in TaskType
  BY DEF TaskType

\* Every step keeps the types.
LEMMA TypeStep ==
  ASSUME TypeOK, Next
  PROVE  TypeOK'
<1>1. /\ TypeOK /\ job \in JobType /\ steps \in [StepIds -> StepStatuses]
     /\ scenes \in [Scenes -> SceneType] /\ tasks \in [Tasks -> TaskType]
     /\ active \subseteq Replicas /\ reqs \subseteq ReqType
     /\ nreq \in Nat /\ claims \in Nat /\ exports \in Nat /\ crashes \in Nat
  BY DEF TypeOK, JobType, SceneType, ReqType
<1>2. SUFFICES /\ job' \in JobType /\ steps' \in [StepIds -> StepStatuses]
              /\ scenes' \in [Scenes -> SceneType] /\ tasks' \in [Tasks -> TaskType]
              /\ active' \subseteq Replicas /\ reqs' \subseteq ReqType
              /\ nreq' \in Nat /\ claims' \in Nat /\ exports' \in Nat /\ crashes' \in Nat
  BY DEF TypeOK, JobType, SceneType, ReqType
<1> DEFINE Typed == /\ job' \in JobType /\ steps' \in [StepIds -> StepStatuses]
                    /\ scenes' \in [Scenes -> SceneType] /\ tasks' \in [Tasks -> TaskType]
                    /\ active' \subseteq Replicas /\ reqs' \subseteq ReqType
                    /\ nreq' \in Nat /\ claims' \in Nat /\ exports' \in Nat /\ crashes' \in Nat
<1>3. ASSUME NEW m \in Modes, CreateJob(m) PROVE Typed
  <2>1. job' \in JobType
    BY <1>1, <1>3, ModesAssumption DEF CreateJob, JobType, JobStatuses, DefaultControl,
      Controls
  <2>2. steps' \in [StepIds -> StepStatuses]
    BY <1>1, <1>3 DEF CreateJob, StepStatuses
  <2>3. scenes' \in [Scenes -> SceneType]
    BY <1>1, <1>3, ModesAssumption, RecordTypes DEF CreateJob
  <2> QED
    BY <1>1, <1>3, <2>1, <2>2, <2>3 DEF CreateJob, counters
<1>4. ASSUME NEW op \in Operations, NEW k \in StepIds, ReadForRequest(op, k) PROVE Typed
  <2>1. reqs' \subseteq ReqType
    BY <1>1, <1>4, OperationsAssumption DEF ReadForRequest, ReqType, JobType
  <2>2. nreq' \in Nat
    BY <1>1, <1>4 DEF ReadForRequest
  <2> QED
    BY <1>1, <1>4, <2>1, <2>2 DEF ReadForRequest, counters
<1>5. ASSUME CancelJob PROVE Typed
  <2>1. job' \in JobType
    <3>1. [job EXCEPT !.status = "cancelling"] \in JobType
      BY <1>1, <1>5 DEF JobStatuses, JobType
    <3> QED
      BY <1>1, <1>5, <3>1 DEF CancelJob
  <2> QED
    BY <1>1, <1>5, <2>1 DEF CancelJob, counters
<1>6. ASSUME NEW t \in Tasks, NEW k \in StepIds, RetryStep(t, k) PROVE Typed
  <2>1. job' \in JobType
    <3>1. [job EXCEPT !.status = "running"] \in JobType
      BY <1>1, <1>6 DEF JobStatuses, JobType
    <3> QED
      BY <1>1, <1>6, <3>1 DEF RetryStep, Claim
  <2>2. tasks' \in [Tasks -> TaskType]
    BY <1>1, <1>6, RecordTypes DEF RetryStep, Claim, StepIds
  <2>3. claims' \in Nat
    BY <1>1, <1>6 DEF RetryStep, Claim
  <2> QED
    BY <1>1, <1>6, <2>1, <2>2, <2>3 DEF RetryStep, Claim, counters
<1>7. ASSUME NEW t \in Tasks, NEW s \in Scenes, RetryScene(t, s) PROVE Typed
  <2>1. job' \in JobType
    <3>1. [job EXCEPT !.status = "running"] \in JobType
      BY <1>1, <1>7 DEF JobStatuses, JobType
    <3> QED
      BY <1>1, <1>7, <3>1 DEF RetryScene, Claim
  <2>2. tasks' \in [Tasks -> TaskType]
    BY <1>1, <1>7, RecordTypes DEF RetryScene, Claim
  <2>3. claims' \in Nat
    BY <1>1, <1>7 DEF RetryScene, Claim
  <2> QED
    BY <1>1, <1>7, <2>1, <2>2, <2>3 DEF RetryScene, Claim, counters
<1>8. ASSUME NEW r \in reqs, MarkReady(r) PROVE Typed
  <2>1. job' \in JobType
    <3>1. [job EXCEPT !.status = "ready"] \in JobType
      BY <1>1, <1>8 DEF JobStatuses, JobType
    <3> QED
      BY <1>1, <1>8, <3>1 DEF MarkReady
  <2>2. reqs' \subseteq ReqType
    BY <1>1, <1>8 DEF MarkReady, Writes
  <2> QED
    BY <1>1, <1>8, <2>1, <2>2 DEF MarkReady, Writes, counters
<1>9. ASSUME NEW r \in reqs, DeleteJob(r) PROVE Typed
  <2>1. job' \in JobType
    <3>1. [job EXCEPT !.status = "deleted"] \in JobType
      BY <1>1, <1>9 DEF JobStatuses, JobType
    <3> QED
      BY <1>1, <1>9, <3>1 DEF DeleteJob
  <2>2. reqs' \subseteq ReqType
    BY <1>1, <1>9 DEF DeleteJob, Writes
  <2> QED
    BY <1>1, <1>9, <2>1, <2>2 DEF DeleteJob, Writes, counters
<1>10. ASSUME NEW r \in reqs, CancelStep(r) PROVE Typed
  <2>1. job' \in JobType
    <3>1. [job EXCEPT !.ctrl = [r.ctrl EXCEPT ![r.step] = "cancelling"]] \in JobType
      BY <1>1, <1>10 DEF JobStatuses, ReqType, Controls, JobType
    <3> QED
      BY <1>1, <1>10, <3>1 DEF CancelStep
  <2>2. reqs' \subseteq ReqType
    BY <1>1, <1>10 DEF CancelStep, Writes
  <2> QED
    BY <1>1, <1>10, <2>1, <2>2 DEF CancelStep, Writes, counters
<1>11. ASSUME NEW r \in reqs, Simulate(r) PROVE Typed
  <2>1. job' \in JobType
    <3>1. [job EXCEPT !.status = "completed", !.output = "ok",
          !.ctrl = [k \in StepIds |-> "completed"]] \in JobType
      BY <1>1, <1>11 DEF JobStatuses, Controls, JobType
    <3> QED
      BY <1>1, <1>11, <3>1 DEF Simulate
  <2>2. steps' \in [StepIds -> StepStatuses]
    BY <1>1, <1>11 DEF Simulate, StepStatuses
  <2>3. scenes' \in [Scenes -> SceneType]
    <3>1. \A s \in Scenes :
          [scenes[s] EXCEPT !.status = "completed", !.video = IF s = 1 THEN "ok" ELSE scenes[s].video] \in SceneType
      BY <1>1 DEF SceneType, SceneStatuses
    <3>2. [NoScene EXCEPT !.status = "completed", !.video = "ok"] \in SceneType
      BY RecordTypes DEF SceneType, SceneStatuses
    <3> QED BY <1>11, <3>1, <3>2, RecordTypes DEF Simulate
  <2>4. reqs' \subseteq ReqType
    BY <1>1, <1>11 DEF Simulate, Writes
  <2> QED
    BY <1>1, <1>11, <2>1, <2>2, <2>3, <2>4 DEF Simulate, Writes, counters
<1>12. ASSUME NEW r \in reqs, RequestFails(r) PROVE Typed
  <2>1. reqs' \subseteq ReqType
    BY <1>1, <1>12 DEF RequestFails
  <2> QED
    BY <1>1, <1>12, <2>1 DEF RequestFails, Writes, counters
<1>13. ASSUME NEW r \in reqs, NEW t \in Tasks, Launch(r, t) PROVE Typed
  <2>1. job' \in JobType
    <3>1. [job EXCEPT !.status = "running"] \in JobType
      BY <1>1, <1>13 DEF JobStatuses, JobType
    <3> QED
      BY <1>1, <1>13, <3>1 DEF Launch
  <2>2. tasks' \in [Tasks -> TaskType]
    BY <1>1, <1>13, RecordTypes DEF Launch
  <2>3. reqs' \subseteq ReqType
    BY <1>1, <1>13 DEF Launch, Writes
  <2> QED
    BY <1>1, <1>13, <2>1, <2>2, <2>3 DEF Launch, Writes, counters
<1>14. ASSUME NEW t \in Tasks, TryBegin(t) PROVE Typed
  <2>1. tasks' \in [Tasks -> TaskType]
    BY <1>1, <1>14, GotoTyped DEF TryBegin, TaskPcs
  <2>2. active' \subseteq Replicas
    BY <1>1, <1>14, ReplicaAssumption DEF TryBegin
  <2> QED
    BY <1>1, <1>14, <2>1, <2>2 DEF TryBegin, counters
<1>15. ASSUME NEW t \in Tasks, SkipDuplicate(t) PROVE Typed
  <2>1. tasks' \in [Tasks -> TaskType]
    BY <1>1, <1>15, RecordTypes DEF SkipDuplicate
  <2> QED
    BY <1>1, <1>15, <2>1 DEF SkipDuplicate, counters
<1>16. ASSUME NEW t \in Tasks, EndExclusive(t) PROVE Typed
  <2>1. tasks' \in [Tasks -> TaskType]
    BY <1>1, <1>16, RecordTypes DEF EndExclusive
  <2>2. active' \subseteq Replicas
    BY <1>1, <1>16 DEF EndExclusive
  <2> QED
    BY <1>1, <1>16, <2>1, <2>2 DEF EndExclusive, counters
<1>17. ASSUME NEW t \in Tasks, Gone(t) PROVE Typed
  <2>1. tasks' \in [Tasks -> TaskType]
    BY <1>1, <1>17, GotoTyped DEF Gone, TaskPcs, JobChecks
  <2> QED
    BY <1>1, <1>17, <2>1 DEF Gone, counters
<1>18. ASSUME NEW t \in Tasks, Load(t) PROVE Typed
  <2>1. job' \in JobType
    <3>1. [job EXCEPT !.status = "cancelled"] \in JobType
      BY <1>1, <1>18 DEF JobStatuses, JobType
    <3> QED
      BY <1>1, <1>18, <3>1 DEF Load
  <2>2. tasks' \in [Tasks -> TaskType]
    <3>0. tasks[t] \in TaskType /\ job.ctrl \in [StepIds -> Controls]
      BY <1>1 DEF JobType
    <3>1. [tasks[t] EXCEPT !.pc = "loaded", !.ctrl = job.ctrl] \in TaskType
      BY <3>0 DEF TaskType, TaskPcs, JobChecks
    <3> QED BY <1>1, <1>18, <3>1, GotoTyped DEF Load, TaskPcs
  <2> QED
    BY <1>1, <1>18, <2>1, <2>2 DEF Load, counters
<1>19. ASSUME NEW t \in Tasks, ResetStepsFrom(t) PROVE Typed
  <2>1. job' \in JobType
    <3>1. steps' \in [StepIds -> Controls]
      BY <1>19 DEF ResetStepsFrom, Controls
    <3>2. [job EXCEPT !.status = "running", !.output = "none", !.ctrl = steps'] \in JobType
      BY <1>1, <3>1 DEF JobType, JobStatuses
    <3> QED BY <1>19, <3>2 DEF ResetStepsFrom
  <2>2. steps' \in [StepIds -> StepStatuses]
    BY <1>1, <1>19 DEF ResetStepsFrom, StepStatuses
  <2>3. scenes' \in [Scenes -> SceneType]
    <3>1. \A s \in Scenes :
          [scenes[s] EXCEPT !.video = "none", !.status = IF HasImage(s) THEN "completed" ELSE "pending"] \in SceneType
      BY <1>1 DEF SceneType, SceneStatuses
    <3> QED BY <1>1, <1>19, <3>1, RecordTypes DEF ResetStepsFrom
  <2>4. tasks' \in [Tasks -> TaskType]
    BY <1>1, <1>19, GotoTyped DEF ResetStepsFrom, TaskPcs, JobChecks
  <2> QED
    BY <1>1, <1>19, <2>1, <2>2, <2>3, <2>4 DEF ResetStepsFrom, counters
<1>20. ASSUME NEW t \in Tasks, FinalizeCancelled(t) PROVE Typed
  <2>1. job' \in JobType
    <3>1. [job EXCEPT !.status = "cancelled", !.ctrl = [k \in StepIds |-> "cancelled"]] \in JobType
      BY <1>1, <1>20 DEF JobStatuses, Controls, JobType
    <3> QED
      BY <1>1, <1>20, <3>1 DEF FinalizeCancelled
  <2>2. steps' \in [StepIds -> StepStatuses]
    BY <1>1, <1>20 DEF FinalizeCancelled, StepStatuses
  <2>3. tasks' \in [Tasks -> TaskType]
    BY <1>1, <1>20, GotoTyped DEF FinalizeCancelled, TaskPcs, JobChecks
  <2> QED
    BY <1>1, <1>20, <2>1, <2>2, <2>3 DEF FinalizeCancelled, counters
<1>21. ASSUME NEW t \in Tasks, StopStep(t) PROVE Typed
  <2>1. job' \in JobType
    <3>1. [job EXCEPT !.ctrl = [job.ctrl EXCEPT ![tasks[t].step] = "cancelled"]] \in JobType
      BY <1>1, <1>21 DEF JobStatuses, JobType, Controls
    <3> QED
      BY <1>1, <1>21, <3>1 DEF StopStep
  <2>2. steps' \in [StepIds -> StepStatuses]
    BY <1>1, <1>21 DEF StopStep, StepStatuses
  <2>3. tasks' \in [Tasks -> TaskType]
    BY <1>1, <1>21, GotoTyped DEF StopStep, TaskPcs, JobChecks
  <2> QED
    BY <1>1, <1>21, <2>1, <2>2, <2>3 DEF StopStep, counters
<1>22. ASSUME NEW t \in Tasks, StepFailed(t) PROVE Typed
  <2>1. job' \in JobType
    <3>1. [job EXCEPT !.ctrl = [tasks[t].ctrl EXCEPT ![tasks[t].step] = "pending"]] \in JobType
      BY <1>1, <1>22 DEF JobStatuses, TaskType, Controls, JobType
    <3> QED
      BY <1>1, <1>22, <3>1 DEF StepFailed
  <2>2. steps' \in [StepIds -> StepStatuses]
    BY <1>1, <1>22 DEF StepFailed, StepStatuses
  <2>3. tasks' \in [Tasks -> TaskType]
    <3>0. tasks[t] \in TaskType /\ job'.ctrl \in [StepIds -> Controls]
      BY <1>1, <1>22, <2>1 DEF JobType
    <3>1. [tasks[t] EXCEPT !.pc = "error", !.ctrl = job'.ctrl] \in TaskType
      BY <1>22, <3>0 DEF TaskType, TaskPcs, JobChecks
    <3> QED
      BY <1>1, <1>22, <3>1 DEF StepFailed
  <2> QED
    BY <1>1, <1>22, <2>1, <2>2, <2>3 DEF StepFailed, counters
<1>23. ASSUME NEW t \in Tasks, PipelineError(t) PROVE Typed
  <2>1. job' \in JobType
    <3>1. [job EXCEPT !.status = IF MediaDelivered THEN "completed" ELSE "failed"] \in JobType
      BY <1>1, <1>23 DEF JobStatuses, JobType
    <3> QED
      BY <1>1, <1>23, <3>1 DEF PipelineError
  <2>2. tasks' \in [Tasks -> TaskType]
    BY <1>1, <1>23, GotoTyped DEF PipelineError, TaskPcs, JobChecks
  <2> QED
    BY <1>1, <1>23, <2>1, <2>2 DEF PipelineError, counters
<1>24. ASSUME NEW t \in Tasks, Finish(t) PROVE Typed
  <2>1. job' \in JobType
    <3>1. \A output \in {"none", "ok"} :
          [job EXCEPT !.status = "completed", !.output = output] \in JobType
      BY <1>1 DEF JobType, JobStatuses
    <3>2. job.output \in {"none", "ok"}
      BY <1>1 DEF JobType
    <3> QED BY <1>1, <1>24, <3>1, <3>2 DEF Finish
  <2>2. tasks' \in [Tasks -> TaskType]
    BY <1>1, <1>24, GotoTyped DEF Finish, TaskPcs, JobChecks
  <2> QED
    BY <1>1, <1>24, <2>1, <2>2 DEF Finish, counters
<1>25. ASSUME NEW t \in Tasks, Loaded(t) PROVE Typed
  <2>1. tasks' \in [Tasks -> TaskType]
    <3>0. tasks[t] \in TaskType
      BY <1>1
    <3>1. "next" \in TaskPcs /\ 0 \in 0..5
      BY <1>25, <3>0 DEF TaskPcs, JobChecks
    <3>2. [tasks[t] EXCEPT !.pc = "next", !.step = 0] \in TaskType
      BY <3>0, <3>1, StepEdit, Zenon
    <3> QED
      BY <1>1, <1>25, <3>2 DEF Loaded
  <2> QED
    BY <1>1, <1>25, <2>1 DEF Loaded, counters
<1>26. ASSUME NEW t \in Tasks, SkipCompleted(t) PROVE Typed
  <2>1. job' \in JobType
    <3>1. [job EXCEPT !.ctrl = [job.ctrl EXCEPT ![tasks[t].step + 1] = "completed"]] \in JobType
      BY <1>1, <1>26 DEF JobStatuses, JobType, Controls
    <3> QED
      BY <1>1, <1>26, <3>1 DEF SkipCompleted
  <2>2. tasks' \in [Tasks -> TaskType]
    <3>0. tasks[t] \in TaskType
      BY <1>1
    <3>3. job'.ctrl \in [StepIds -> Controls]
      BY <2>1 DEF JobType
    <3>1. tasks[t].step + 1 \in 0..5
      BY <1>26, <3>0 DEF TaskType, StepIds, SkipCompleted
    <3>2. [tasks[t] EXCEPT !.step = tasks[t].step + 1, !.ctrl = job'.ctrl] \in TaskType
      BY <3>0, <3>1, <3>3, CtrlEdit, Zenon
    <3> QED
      BY <1>1, <1>26, <3>2 DEF SkipCompleted
  <2> QED
    BY <1>1, <1>26, <2>1, <2>2 DEF SkipCompleted, counters
<1>27. ASSUME NEW t \in Tasks, EnterStep(t) PROVE Typed
  <2>1. tasks' \in [Tasks -> TaskType]
    <3>0. tasks[t] \in TaskType
      BY <1>1
    <3>1. "check" \in TaskPcs /\ tasks[t].step + 1 \in 0..5
      BY <1>27, <3>0 DEF TaskType, StepIds, EnterStep, TaskPcs, JobChecks
    <3>2. [tasks[t] EXCEPT !.pc = "check", !.step = tasks[t].step + 1] \in TaskType
      BY <3>0, <3>1, StepEdit, Zenon
    <3> QED
      BY <1>1, <1>27, <3>2 DEF EnterStep
  <2> QED
    BY <1>1, <1>27, <2>1 DEF EnterStep, counters
<1>28. ASSUME NEW t \in Tasks, CheckStep(t) PROVE Typed
  <2>1. tasks' \in [Tasks -> TaskType]
    BY <1>1, <1>28, CheckedTyped, TaskTyped DEF CheckStep, TaskPcs, JobChecks
  <2> QED
    BY <1>1, <1>28, <2>1 DEF CheckStep, counters
<1>29. ASSUME NEW t \in Tasks, StartStep(t) PROVE Typed
  <2>1. job' \in JobType
    <3>1. [job EXCEPT !.ctrl = [tasks[t].ctrl EXCEPT ![tasks[t].step] = "running"]] \in JobType
      BY <1>1, <1>29 DEF JobStatuses, TaskType, Controls, JobType
    <3> QED
      BY <1>1, <1>29, <3>1 DEF StartStep
  <2>2. steps' \in [StepIds -> StepStatuses]
    BY <1>1, <1>29 DEF StartStep, StepStatuses
  <2>3. tasks' \in [Tasks -> TaskType]
    <3>0. tasks[t] \in TaskType
      BY <1>1
    <3>1. Body(tasks[t].step, job.mode) \in TaskPcs
      BY DEF Body, TaskPcs, JobChecks
    <3>2. job'.ctrl \in [StepIds -> Controls] /\ [s \in Scenes |-> "none"] \in [Scenes -> Rows]
      BY <2>1 DEF JobType, Rows
    <3>4. 1 \in Nat /\ 0 \in 0..2
      OBVIOUS
    <3>3. [tasks[t] EXCEPT !.pc = Body(tasks[t].step, job.mode),
          !.ctrl = job'.ctrl, !.cur = 1, !.tries = 0,
                           !.rows = [s \in Scenes |-> "none"]] \in TaskType
      BY <3>0, <3>1, <3>2, <3>4, StartEdit, Zenon
    <3> QED BY <1>1, <1>29, <3>3 DEF StartStep
  <2> QED
    BY <1>1, <1>29, <2>1, <2>2, <2>3 DEF StartStep, counters
<1>30. ASSUME NEW t \in Tasks, StepDone(t) PROVE Typed
  <2>1. job' \in JobType
    <3>1. [job EXCEPT !.ctrl = [tasks[t].ctrl EXCEPT ![tasks[t].step] = "completed"]] \in JobType
      BY <1>1, <1>30 DEF JobStatuses, TaskType, Controls, JobType
    <3> QED
      BY <1>1, <1>30, <3>1 DEF StepDone
  <2>2. steps' \in [StepIds -> StepStatuses]
    BY <1>1, <1>30 DEF StepDone, StepStatuses
  <2>3. tasks' \in [Tasks -> TaskType]
    <3>0. tasks[t] \in TaskType /\ job'.ctrl \in [StepIds -> Controls]
      BY <1>1, <1>30, <2>1 DEF JobType
    <3>1. [tasks[t] EXCEPT !.pc = "next", !.ctrl = job'.ctrl] \in TaskType
      BY <1>30, <3>0 DEF TaskType, TaskPcs, JobChecks
    <3> QED
      BY <1>1, <1>30, <3>1 DEF StepDone
  <2> QED
    BY <1>1, <1>30, <2>1, <2>2, <2>3 DEF StepDone, counters
<1>31. ASSUME NEW t \in Tasks, PlanScenes(t) PROVE Typed
  <2>1. tasks' \in [Tasks -> TaskType]
    BY <1>1, <1>31, CheckedTyped, TaskTyped DEF PlanScenes, TaskPcs, JobChecks
  <2> QED
    BY <1>1, <1>31, <2>1 DEF PlanScenes, counters
<1>32. ASSUME NEW t \in Tasks, StorePlan(t) PROVE Typed
  <2>1. scenes' \in [Scenes -> SceneType]
    BY <1>1, <1>32, RecordTypes DEF StorePlan, JobType
  <2>2. tasks' \in [Tasks -> TaskType]
    BY <1>1, <1>32, CheckedTyped, TaskTyped DEF StorePlan, TaskPcs, JobChecks
  <2> QED
    BY <1>1, <1>32, <2>1, <2>2 DEF StorePlan, counters
<1>33. ASSUME NEW t \in Tasks, NoScenes(t) PROVE Typed
  <2>1. tasks' \in [Tasks -> TaskType]
    BY <1>1, <1>33, GotoTyped DEF NoScenes, TaskPcs, JobChecks
  <2> QED
    BY <1>1, <1>33, <2>1 DEF NoScenes, counters
<1>34. ASSUME NEW t \in Tasks, ImageScene(t) PROVE Typed
  <2>1. scenes' \in [Scenes -> SceneType]
    <3>1. [scenes[tasks[t].cur] EXCEPT !.status = "running"] \in SceneType
      BY <1>1, <1>34 DEF SceneStatuses, Live, ImageScene, SceneType
    <3> QED
      BY <1>1, <1>34, <3>1 DEF ImageScene
  <2>2. tasks' \in [Tasks -> TaskType]
    BY <1>1, <1>34, CheckedTyped, TaskTyped DEF ImageScene, TaskPcs, JobChecks
  <2> QED
    BY <1>1, <1>34, <2>1, <2>2 DEF ImageScene, counters
<1>35. ASSUME NEW t \in Tasks, FirstKeyframe(t) PROVE Typed
  <2>1. tasks' \in [Tasks -> TaskType]
    BY <1>1, <1>35, CheckedTyped, TaskTyped DEF FirstKeyframe, TaskPcs, JobChecks
  <2> QED
    BY <1>1, <1>35, <2>1 DEF FirstKeyframe, counters
<1>36. ASSUME NEW t \in Tasks, SecondKeyframe(t) PROVE Typed
  <2>1. tasks' \in [Tasks -> TaskType]
    BY <1>1, <1>36, CheckedTyped, TaskTyped DEF SecondKeyframe, TaskPcs, JobChecks
  <2> QED
    BY <1>1, <1>36, <2>1 DEF SecondKeyframe, counters
<1>37. ASSUME NEW t \in Tasks, KeyframesDone(t) PROVE Typed
  <2>1. scenes' \in [Scenes -> SceneType]
    <3>1. \A s \in Scenes, a, b \in Urls, status \in SceneStatuses :
          [scenes[s] EXCEPT !.start = a, !.end = b, !.status = status] \in SceneType
      BY <1>1 DEF SceneType
    <3>2. PICK a, b \in Urls, status \in SceneStatuses :
            scenes' = [scenes EXCEPT ![tasks[t].cur] = [@ EXCEPT !.start = a, !.end = b, !.status = status]]
      BY <1>37 DEF KeyframesDone, SceneStatuses
    <3> QED BY <1>1, <3>1, <3>2
  <2>2. tasks' \in [Tasks -> TaskType]
    <3>0. tasks[t] \in TaskType
      BY <1>1
    <3>1. "image" \in TaskPcs /\ tasks[t].cur + 1 \in Nat
      BY <1>37, <3>0 DEF TaskType, StepIds, KeyframesDone, TaskPcs, JobChecks
    <3>2. [tasks[t] EXCEPT !.pc = "image", !.cur = tasks[t].cur + 1] \in TaskType
      BY <3>0, <3>1, CurEdit, Zenon
    <3> QED
      BY <1>1, <1>37, <3>2 DEF KeyframesDone
  <2> QED
    BY <1>1, <1>37, <2>1, <2>2 DEF KeyframesDone, counters
<1>38. ASSUME NEW t \in Tasks, ImagesDone(t) PROVE Typed
  <2>1. tasks' \in [Tasks -> TaskType]
    <3>0. tasks[t] \in TaskType /\ job.ctrl \in [StepIds -> Controls]
      BY <1>1 DEF JobType
    <3>1. "done" \in TaskPcs /\ "stepFailed" \in TaskPcs
      BY DEF TaskPcs
    <3>2. /\ [tasks[t] EXCEPT !.ctrl = job.ctrl, !.pc = "done"] \in TaskType
          /\ [tasks[t] EXCEPT !.ctrl = job.ctrl, !.pc = "stepFailed"] \in TaskType
      BY <3>0, <3>1, EndEdit, Zenon
    <3> QED BY <1>1, <1>38, <3>2 DEF ImagesDone
  <2> QED
    BY <1>1, <1>38, <2>1 DEF ImagesDone, counters
<1>39. ASSUME NEW t \in Tasks, PhotoStart(t) PROVE Typed
  <2>1. scenes' \in [Scenes -> SceneType]
    <3>0. scenes[1] \in SceneType
      BY <1>1, BoundsAssumption DEF Scenes
    <3>1. [scenes[1] EXCEPT !.status = "running"] \in SceneType
      BY <3>0 DEF SceneType, SceneStatuses
    <3> QED
      BY <1>1, <1>39, <3>1 DEF PhotoStart
  <2>2. tasks' \in [Tasks -> TaskType]
    BY <1>1, <1>39, CheckedTyped, TaskTyped DEF PhotoStart, TaskPcs, JobChecks
  <2> QED
    BY <1>1, <1>39, <2>1, <2>2 DEF PhotoStart, counters
<1>40. ASSUME NEW t \in Tasks, PhotoDone(t) PROVE Typed
  <2>1. job' \in JobType
    <3>1. [job EXCEPT !.output = "ok"] \in JobType
      BY <1>1, <1>40 DEF JobStatuses, JobType
    <3> QED
      BY <1>1, <1>40, <3>1 DEF PhotoDone
  <2>2. scenes' \in [Scenes -> SceneType]
    <3>0. scenes[1] \in SceneType
      BY <1>1, BoundsAssumption DEF Scenes
    <3>1. [scenes[1] EXCEPT !.status = "completed", !.start = "ok"] \in SceneType /\
          [scenes[1] EXCEPT !.status = "failed"] \in SceneType
      BY <3>0 DEF SceneType, SceneStatuses, Urls
    <3> QED BY <1>1, <1>40, <3>1 DEF PhotoDone
  <2>3. tasks' \in [Tasks -> TaskType]
    BY <1>1, <1>40, GotoTyped DEF PhotoDone, TaskPcs, JobChecks
  <2> QED
    BY <1>1, <1>40, <2>1, <2>2, <2>3 DEF PhotoDone, counters
<1>41. ASSUME NEW t \in Tasks, VideoStart(t) PROVE Typed
  <2>1. tasks' \in [Tasks -> TaskType]
    <3>0. Checked(t, "clips") \in TaskType
      BY <1>1, CheckedTyped DEF TaskPcs
    <3>1. \A rows \in [Scenes -> Rows] : [Checked(t, "clips") EXCEPT !.rows = rows] \in TaskType
      BY <3>0 DEF TaskType
    <3>2. [s \in Scenes |-> CASE s \notin Live -> "none"
                               [] s \in Live /\ scenes[s].status = "completed" -> "called"
                               [] OTHER -> "ineligible"] \in [Scenes -> Rows]
      BY DEF Rows
    <3> QED BY <1>1, <1>41, <3>1, <3>2 DEF VideoStart
  <2> QED
    BY <1>1, <1>41, <2>1 DEF VideoStart, counters
<1>42. ASSUME NEW t \in Tasks, NEW s \in Scenes, VideoReturned(t, s) PROVE Typed
  <2>1. tasks' \in [Tasks -> TaskType]
    <3>1. \A row \in Rows : [tasks[t] EXCEPT !.rows = [tasks[t].rows EXCEPT ![s] = row]] \in TaskType
      BY <1>1 DEF TaskType
    <3>2. PICK row \in Rows : tasks' = [tasks EXCEPT ![t].rows[s] = row]
      BY <1>42 DEF VideoReturned, Rows
    <3> QED BY <1>1, <3>1, <3>2
  <2> QED
    BY <1>1, <1>42, <2>1 DEF VideoReturned, counters
<1>43. ASSUME NEW t \in Tasks, VideosReturned(t) PROVE Typed
  <2>1. job' \in JobType
    <3>1. [job EXCEPT !.ctrl = [job.ctrl EXCEPT ![VideoGeneration] = "cancelled"]] \in JobType
      BY <1>1, <1>43 DEF JobStatuses, JobType, Controls
    <3> QED
      BY <1>1, <1>43, <3>1 DEF VideosReturned
  <2>2. steps' \in [StepIds -> StepStatuses]
    BY <1>1, <1>43 DEF VideosReturned, StepStatuses
  <2>3. tasks' \in [Tasks -> TaskType]
    BY <1>1, <1>43, CheckedTyped, TaskTyped, GotoTyped DEF VideosReturned, TaskPcs, JobChecks
  <2> QED
    BY <1>1, <1>43, <2>1, <2>2, <2>3 DEF VideosReturned, counters
<1>44. ASSUME NEW t \in Tasks, VideoApply(t) PROVE Typed
  <2>1. job' \in JobType
    <3>1. [job EXCEPT !.status = "cancelled", !.ctrl = [k \in StepIds |-> "cancelled"]] \in JobType
      BY <1>1, <1>44 DEF JobStatuses, Controls, JobType
    <3> QED
      BY <1>1, <1>44, <3>1 DEF VideoApply
  <2>2. steps' \in [StepIds -> StepStatuses]
    BY <1>1, <1>44 DEF VideoApply, StepStatuses
  <2>3. scenes' \in [Scenes -> SceneType]
    <3>1. \A s \in Scenes :
          [scenes[s] EXCEPT !.video = "ok"] \in SceneType /\ [scenes[s] EXCEPT !.status = "failed"] \in SceneType
      BY <1>1 DEF SceneType, SceneStatuses
    <3> QED BY <1>1, <1>44, <3>1 DEF VideoApply, Live
  <2>4. tasks' \in [Tasks -> TaskType]
    <3>1. [tasks[t] EXCEPT !.cur = tasks[t].cur + 1] \in TaskType
      BY <1>1 DEF TaskType
    <3> QED BY <1>1, <1>44, <3>1, GotoTyped DEF VideoApply, TaskPcs
  <2> QED
    BY <1>1, <1>44, <2>1, <2>2, <2>3, <2>4 DEF VideoApply, counters
<1>45. ASSUME NEW t \in Tasks, VideosDone(t) PROVE Typed
  <2>1. tasks' \in [Tasks -> TaskType]
    <3>0. tasks[t] \in TaskType /\ job.ctrl \in [StepIds -> Controls]
      BY <1>1 DEF JobType
    <3>1. "done" \in TaskPcs /\ "stepFailed" \in TaskPcs
      BY DEF TaskPcs
    <3>2. /\ [tasks[t] EXCEPT !.ctrl = job.ctrl, !.pc = "done"] \in TaskType
          /\ [tasks[t] EXCEPT !.ctrl = job.ctrl, !.pc = "stepFailed"] \in TaskType
      BY <3>0, <3>1, EndEdit, Zenon
    <3> QED BY <1>1, <1>45, <3>2 DEF VideosDone
  <2> QED
    BY <1>1, <1>45, <2>1 DEF VideosDone, counters
<1>46. ASSUME NEW t \in Tasks, SeedanceClip(t) PROVE Typed
  <2>1. job' \in JobType
    <3>1. [job EXCEPT !.output = "ok"] \in JobType
      BY <1>1, <1>46 DEF JobStatuses, JobType
    <3> QED
      BY <1>1, <1>46, <3>1 DEF SeedanceClip
  <2>2. tasks' \in [Tasks -> TaskType]
    <3>1. tasks[t].tries < 2 => [tasks[t] EXCEPT !.tries = tasks[t].tries + 1] \in TaskType
      BY <1>1 DEF TaskType
    <3> QED BY <1>1, <1>46, <3>1, GotoTyped DEF SeedanceClip, ClipFails, TaskPcs
  <2> QED
    BY <1>1, <1>46, <2>1, <2>2 DEF SeedanceClip, counters
<1>47. ASSUME NEW t \in Tasks, AiliveClip(t) PROVE Typed
  <2>1. job' \in JobType
    <3>1. [job EXCEPT !.output = "ok"] \in JobType
      BY <1>1, <1>47 DEF JobStatuses, JobType
    <3> QED
      BY <1>1, <1>47, <3>1 DEF AiliveClip
  <2>2. scenes' \in [Scenes -> SceneType]
    <3>0. scenes[1] \in SceneType
      BY <1>1, BoundsAssumption DEF Scenes
    <3>1. [scenes[1] EXCEPT !.video = "ok"] \in SceneType
      BY <3>0 DEF SceneType, SceneStatuses
    <3> QED
      BY <1>1, <1>47, <3>1 DEF AiliveClip
  <2>3. tasks' \in [Tasks -> TaskType]
    <3>1. tasks[t].tries < 2 => [tasks[t] EXCEPT !.tries = tasks[t].tries + 1] \in TaskType
      BY <1>1 DEF TaskType
    <3> QED BY <1>1, <1>47, <3>1, GotoTyped DEF AiliveClip, ClipFails, TaskPcs
  <2> QED
    BY <1>1, <1>47, <2>1, <2>2, <2>3 DEF AiliveClip, counters
<1>48. ASSUME NEW t \in Tasks, AssemblyStart(t) PROVE Typed
  <2>1. job' \in JobType
    <3>1. [job EXCEPT !.output = "ok"] \in JobType
      BY <1>1, <1>48 DEF JobStatuses, JobType
    <3> QED
      BY <1>1, <1>48, <3>1 DEF AssemblyStart
  <2>2. scenes' \in [Scenes -> SceneType]
    <3>1. \A s \in Scenes : [scenes[s] EXCEPT !.status = "failed"] \in SceneType
      BY <1>1 DEF SceneType, SceneStatuses
    <3> QED BY <1>1, <1>48, <3>1 DEF AssemblyStart
  <2>3. tasks' \in [Tasks -> TaskType]
    BY <1>1, <1>48, CheckedTyped, TaskTyped DEF AssemblyStart, TaskPcs, JobChecks, Raised
  <2> QED
    BY <1>1, <1>48, <2>1, <2>2, <2>3 DEF AssemblyStart, counters
<1>49. ASSUME NEW t \in Tasks, Concat(t) PROVE Typed
  <2>1. job' \in JobType
    <3>1. [job EXCEPT !.output = "ok"] \in JobType
      BY <1>1, <1>49 DEF JobStatuses, JobType
    <3> QED
      BY <1>1, <1>49, <3>1 DEF Concat
  <2>2. tasks' \in [Tasks -> TaskType]
    BY <1>1, <1>49, CheckedTyped, TaskTyped DEF Concat, TaskPcs, JobChecks
  <2> QED
    BY <1>1, <1>49, <2>1, <2>2 DEF Concat, counters
<1>50. ASSUME NEW t \in Tasks, DistributionStart(t) PROVE Typed
  <2>1. tasks' \in [Tasks -> TaskType]
    BY <1>1, <1>50, CheckedTyped, TaskTyped DEF DistributionStart, TaskPcs, JobChecks, Raised
  <2> QED
    BY <1>1, <1>50, <2>1 DEF DistributionStart, counters
<1>51. ASSUME NEW t \in Tasks, PushExport(t) PROVE Typed
  <2>1. tasks' \in [Tasks -> TaskType]
    BY <1>1, <1>51, CheckedTyped, TaskTyped DEF PushExport, TaskPcs, JobChecks
  <2>2. exports' \in Nat
    BY <1>1, <1>51 DEF PushExport
  <2> QED
    BY <1>1, <1>51, <2>1, <2>2 DEF PushExport, counters
<1>52. ASSUME NEW t \in Tasks, RetryReset(t) PROVE Typed
  <2>1. job' \in JobType
    <3>1. [job EXCEPT !.status = "running"] \in JobType
      BY <1>1, <1>52 DEF JobStatuses, JobType
    <3> QED
      BY <1>1, <1>52, <3>1 DEF RetryReset
  <2>2. scenes' \in [Scenes -> SceneType]
    BY <1>1, <1>52, RecordTypes DEF RetryReset, Live
  <2>3. tasks' \in [Tasks -> TaskType]
    BY <1>1, <1>52, GotoTyped DEF RetryReset, TaskPcs, JobChecks
  <2> QED
    BY <1>1, <1>52, <2>1, <2>2, <2>3 DEF RetryReset, counters
<1>53. ASSUME NEW t \in Tasks, RetrySteps(t) PROVE Typed
  <2>1. steps' \in [StepIds -> StepStatuses]
    BY <1>1, <1>53 DEF RetrySteps, StepStatuses
  <2>2. tasks' \in [Tasks -> TaskType]
    BY <1>1, <1>53, GotoTyped DEF RetrySteps, TaskPcs, JobChecks
  <2> QED
    BY <1>1, <1>53, <2>1, <2>2 DEF RetrySteps, counters
<1>54. ASSUME NEW t \in Tasks, RetryMedia(t) PROVE Typed
  <2>1. scenes' \in [Scenes -> SceneType]
    <3>1. \A a, b \in Urls, video \in {"none", "ok"}, status \in {"completed", "failed"} :
            [status |-> status, start |-> a, end |-> b, video |-> video] \in SceneType
      BY DEF SceneType, SceneStatuses
    <3>2. PICK a, b \in Urls, video \in {"none", "ok"}, status \in {"completed", "failed"} :
            scenes' = [scenes EXCEPT ![tasks[t].arg] =
                         [status |-> status, start |-> a, end |-> b, video |-> video]]
      BY <1>54 DEF RetryMedia
    <3> QED BY <1>1, <3>1, <3>2
  <2>2. tasks' \in [Tasks -> TaskType]
    BY <1>1, <1>54, GotoTyped DEF RetryMedia, TaskPcs, JobChecks
  <2> QED
    BY <1>1, <1>54, <2>1, <2>2 DEF RetryMedia, counters
<1>55. ASSUME NEW t \in Tasks, RetryFinish(t) PROVE Typed
  <2>1. steps' \in [StepIds -> StepStatuses]
    BY <1>1, <1>55 DEF RetryFinish, StepStatuses
  <2>2. tasks' \in [Tasks -> TaskType]
    <3>0. tasks[t] \in TaskType
      BY <1>1
    <3>1. "assembly" \in TaskPcs /\ Assembly \in 0..5
      BY <1>55, <3>0 DEF TaskPcs, JobChecks, Assembly
    <3>2. [tasks[t] EXCEPT !.pc = "assembly", !.step = Assembly] \in TaskType
      BY <3>0, <3>1, StepEdit, Zenon
    <3> QED
      BY <1>1, <1>55, <3>2 DEF RetryFinish
  <2> QED
    BY <1>1, <1>55, <2>1, <2>2 DEF RetryFinish, counters
<1>56. ASSUME NEW t \in Tasks, RetryDone(t) PROVE Typed
  <2>1. job' \in JobType
    <3>1. [job EXCEPT !.status = "completed"] \in JobType
      BY <1>1, <1>56 DEF JobStatuses, JobType
    <3> QED
      BY <1>1, <1>56, <3>1 DEF RetryDone
  <2>2. steps' \in [StepIds -> StepStatuses]
    BY <1>1, <1>56 DEF RetryDone, StepStatuses
  <2>3. tasks' \in [Tasks -> TaskType]
    <3>0. tasks[t] \in TaskType /\ job.ctrl \in [StepIds -> Controls]
      BY <1>1 DEF JobType
    <3>2. "distribution" \in TaskPcs /\ Distribution \in 0..5
      BY DEF TaskPcs, JobChecks, Distribution
    <3>1. [tasks[t] EXCEPT !.pc = "distribution", !.step = Distribution] \in TaskType
      BY <3>0, <3>2, StepEdit, Zenon
    <3> QED BY <1>1, <1>56, <3>1, GotoTyped DEF RetryDone, TaskPcs
  <2> QED
    BY <1>1, <1>56, <2>1, <2>2, <2>3 DEF RetryDone, counters
<1>57. ASSUME NEW t \in Tasks, RetryFailed(t) PROVE Typed
  <2>1. job' \in JobType
    <3>1. [job EXCEPT !.status = "failed"] \in JobType
      BY <1>1, <1>57 DEF JobStatuses, JobType
    <3> QED
      BY <1>1, <1>57, <3>1 DEF RetryFailed
  <2>2. tasks' \in [Tasks -> TaskType]
    BY <1>1, <1>57, GotoTyped DEF RetryFailed, TaskPcs, JobChecks
  <2> QED
    BY <1>1, <1>57, <2>1, <2>2 DEF RetryFailed, counters
<1>58. ASSUME NEW r \in Replicas, Crash(r) PROVE Typed
  <2>1. tasks' \in [Tasks -> TaskType]
    BY <1>1, <1>58, RecordTypes DEF Crash
  <2>2. active' \subseteq Replicas
    BY <1>1, <1>58 DEF Crash
  <2>3. reqs' \subseteq ReqType
    BY <1>1, <1>58 DEF Crash
  <2>4. crashes' \in Nat
    BY <1>1, <1>58 DEF Crash
  <2> QED
    BY <1>1, <1>58, <2>1, <2>2, <2>3, <2>4 DEF Crash, counters
<1> QED
  BY <1>3, <1>4, <1>5, <1>6, <1>7, <1>8, <1>9, <1>10, <1>11, <1>12, <1>13, <1>14, <1>15, <1>16,
    <1>17, <1>18, <1>19, <1>20, <1>21, <1>22, <1>23, <1>24, <1>25, <1>26, <1>27, <1>28, <1>29,
    <1>30, <1>31, <1>32, <1>33, <1>34, <1>35, <1>36, <1>37, <1>38, <1>39, <1>40, <1>41, <1>42,
    <1>43, <1>44, <1>45, <1>46, <1>47, <1>48, <1>49, <1>50, <1>51, <1>52, <1>53, <1>54, <1>55,
    <1>56, <1>57, <1>58 DEF Next, RequestStep, RequestEnd, TaskStep, Supervise, RunStep,
    MakeImages, MakeVideos, Deliver, RedoScene

\* Every reachable state has the types.
LEMMA InitTypes == Init => TypeOK
<1> SUFFICES ASSUME Init PROVE TypeOK
  OBVIOUS
<1>1. job \in JobType
  BY RecordTypes DEF Init, JobType, JobStatuses, AllModes
<1>2. scenes \in [Scenes -> SceneType] /\ tasks \in [Tasks -> TaskType]
  BY RecordTypes DEF Init
<1> QED BY <1>1, <1>2 DEF Init, TypeOK, JobType, SceneType, StepStatuses

\* A step that changes nothing keeps the types.
LEMMA StutterTypes == TypeOK /\ UNCHANGED vars => TypeOK'
  BY DEF vars, TypeOK

-----------------------------------------------------------------------------
(* What a step of a pipeline may do *)

\* Places of a task in a step whose row says running, outside the retry of a scene.
InStep == {"plan", "planned", "image", "first", "second", "keyframes", "photo", "photoCall",
           "video", "clips", "apply", "clip", "assembly", "concat", "distribution", "push",
           "done", "stepFailed"}

\* Task t has set step k running and has yet to close it.
Works(t, k) ==
  \/ /\ tasks[t].kind # "scene"
     /\ tasks[t].step = k
     /\ tasks[t].pc \in InStep
  \/ /\ tasks[t].kind = "scene"
     /\ k = ImageGeneration
     /\ tasks[t].pc \in {"retryMedia", "retryFinish"}

\* The retry of a scene has places of its own, and videos belong to their step.
Fits(t) ==
  /\ tasks[t].kind = "scene" =>
       tasks[t].pc \in {"queued", "retryReset", "retrySteps", "retryMedia", "retryFinish", "assembly",
                        "concat", "distribution", "push", "done", "retryFailed", "release"}
  /\ tasks[t].pc \in {"retryReset", "retrySteps", "retryMedia", "retryFinish"} => tasks[t].kind = "scene"
  /\ tasks[t].pc \in {"video", "clips", "apply"} => tasks[t].step = VideoGeneration

\* Where a task may be when the job is cancelled.
Ending == Outside \cup {"release", "load", "reset", "retryReset", "retryFailed"}

\* Task t goes to one of the places, and no other task moves.
Moves(t, places, step) ==
  /\ tasks'[t].pc \in places
  /\ tasks'[t].kind = tasks[t].kind
  /\ tasks'[t].step = step
  /\ \A u \in Tasks \ {t} : tasks'[u] = tasks[u]

\* A step inside a pipeline: it keeps its turn, closes what it leaves (unless the row is gone, or
\* another process has cancelled it), and of a cancelled job makes no more than an end.
Work(t) ==
  /\ active' = active /\ crashes' = crashes
  /\ Inside(t) /\ Inside(t)'
  /\ \A u \in Tasks \ {t} : tasks'[u] = tasks[u]
  /\ Fits(t)'
  /\ \A k \in StepIds : steps'[k] = "running" =>
       /\ steps[k] = "running" \/ Works(t, k)'
       /\ Works(t, k) => Works(t, k)' \/ job.status \in {"deleted", "cancelled"}
  /\ job'.status = "cancelled" =>
       tasks'[t].pc \in Ending \/ (job.status = "cancelled" /\ tasks[t].pc \notin Ending)
  /\ job.status = "deleted" => job'.status = "deleted"

LEMMA GotoMoves ==
  ASSUME TypeOK, NEW t \in Tasks, NEW pc, Goto(t, pc)
  PROVE  Moves(t, {pc}, tasks[t].step)
  BY DEF TypeOK, TaskType, Goto, Moves

LEMMA CheckedMoves ==
  ASSUME TypeOK, NEW t \in Tasks, NEW pc, tasks' = [tasks EXCEPT ![t] = Checked(t, pc)]
  PROVE  Moves(t, {pc}, tasks[t].step)
  BY DEF TypeOK, TaskType, Checked, Moves

\* Every step of a task but its turn at the registry is such a step.
LEMMA WorkSteps ==
  ASSUME TypeOK, NEW t \in Tasks, Fits(t),
         TaskStep(t), ~TryBegin(t), ~SkipDuplicate(t), ~EndExclusive(t)
  PROVE  Work(t)
<1>1. /\ job \in JobType /\ steps \in [StepIds -> StepStatuses]
      /\ tasks \in [Tasks -> TaskType] /\ tasks[t] \in TaskType
  BY DEF TypeOK, JobType
<1>2. ASSUME Gone(t) PROVE Work(t)
  <2>1. Moves(t, {"release"}, tasks[t].step)
    BY <1>1, <1>2, GotoMoves DEF Gone, Moves
  <2> QED
    BY <1>1, <1>2, <2>1 DEF Work, Moves, Gone, At, Inside, Outside, Ending, Fits, Works,
      InStep, JobType, counters
<1>3. ASSUME Load(t) PROVE Work(t)
  <2>1. CASE job.status = "running"
    <3>1. Moves(t, {"loaded"}, tasks[t].step)
      BY <1>1, <1>3, <2>1 DEF Load, Moves, TaskType, At
    <3> QED
      BY <1>1, <1>3, <2>1, <3>1 DEF Work, Moves, Load, At, Inside, Outside, Ending, Fits,
        Works, InStep, JobType, counters
  <2>2. CASE job.status = "cancelling"
    <3>1. Moves(t, {"release"}, tasks[t].step)
      BY <1>1, <1>3, <2>2, GotoMoves DEF Load
    <3> QED
      BY <1>1, <1>3, <2>2, <3>1 DEF Work, Moves, Load, At, Inside, Outside, Ending, Fits,
        Works, InStep, JobType, counters
  <2>3. CASE job.status \notin {"running", "cancelling"}
    <3>1. Moves(t, {"release"}, tasks[t].step)
      BY <1>1, <1>3, <2>3, GotoMoves DEF Load
    <3> QED
      BY <1>1, <1>3, <2>3, <3>1 DEF Work, Moves, Load, At, Inside, Outside, Ending, Fits,
        Works, InStep, JobType, counters
  <2> QED
    BY <1>3, <2>1, <2>2, <2>3 DEF Load
<1>4. ASSUME ResetStepsFrom(t) PROVE Work(t)
  <2>1. Moves(t, {"load"}, tasks[t].step)
    BY <1>1, <1>4, GotoMoves DEF ResetStepsFrom, Moves
  <2> QED
    BY <1>1, <1>4, <2>1 DEF Work, Moves, ResetStepsFrom, At, Inside, Outside, Ending, Fits,
      Works, InStep, JobType, counters
<1>5. ASSUME FinalizeCancelled(t) PROVE Work(t)
  <2>1. Moves(t, {"retryFailed", "release"}, tasks[t].step)
    BY <1>1, <1>5, GotoMoves DEF FinalizeCancelled, Moves
  <2> QED
    BY <1>1, <1>5, <2>1 DEF Work, Moves, FinalizeCancelled, At, Inside, Outside, Ending, Fits,
      Works, InStep, JobType, counters, JobChecks
<1>6. ASSUME StopStep(t) PROVE Work(t)
  <2>1. CASE tasks[t].pc = "check"
    <3>1. Moves(t, {"error"}, tasks[t].step)
      BY <1>1, <1>6, <2>1, GotoMoves DEF StopStep
    <3> QED
      BY <1>1, <1>6, <2>1, <3>1 DEF Work, Moves, StopStep, At, Inside, Outside, Ending, Fits,
        Works, InStep, JobType, counters
  <2>2. CASE tasks[t].pc # "check" /\ tasks[t].kind = "scene"
    <3>1. Moves(t, {"retryFailed"}, tasks[t].step)
      BY <1>1, <1>6, <2>2, GotoMoves DEF StopStep
    <3> QED
      BY <1>1, <1>6, <2>2, <3>1 DEF Work, Moves, StopStep, At, Inside, Outside, Ending, Fits,
        Works, InStep, JobType, counters, StepChecks, JobChecks
  <2>3. CASE tasks[t].pc # "check" /\ tasks[t].kind # "scene"
    <3>1. Moves(t, {"release"}, tasks[t].step)
      BY <1>1, <1>6, <2>3, GotoMoves DEF StopStep
    <3> QED
      BY <1>1, <1>6, <2>3, <3>1 DEF Work, Moves, StopStep, At, Inside, Outside, Ending, Fits,
        Works, InStep, JobType, counters, StepChecks, JobChecks
  <2> QED
    BY <1>6, <2>1, <2>2, <2>3 DEF StopStep, StepChecks, JobChecks
<1>7. ASSUME StepFailed(t) PROVE Work(t)
  <2>1. Moves(t, {"error"}, tasks[t].step)
    BY <1>1, <1>7 DEF StepFailed, Moves, TaskType, At
  <2> QED
    BY <1>1, <1>7, <2>1 DEF Work, Moves, StepFailed, At, Inside, Outside, Ending, Fits, Works,
      InStep, JobType, counters
<1>8. ASSUME PipelineError(t) PROVE Work(t)
  <2>1. Moves(t, {"release"}, tasks[t].step)
    BY <1>1, <1>8, GotoMoves DEF PipelineError, Moves
  <2> QED
    BY <1>1, <1>8, <2>1 DEF Work, Moves, PipelineError, At, Inside, Outside, Ending, Fits,
      Works, InStep, JobType, counters
<1>9. ASSUME Finish(t) PROVE Work(t)
  <2>1. Moves(t, {"release", "error"}, tasks[t].step)
    BY <1>1, <1>9, GotoMoves DEF Finish, Moves
  <2> QED
    BY <1>1, <1>9, <2>1 DEF Work, Moves, Finish, At, Inside, Outside, Ending, Fits, Works,
      InStep, JobType, counters
<1>10. ASSUME Loaded(t) PROVE Work(t)
  <2>1. Moves(t, {"next"}, 0)
    BY <1>1, <1>10 DEF Loaded, Moves, TaskType, At
  <2> QED
    BY <1>1, <1>10, <2>1 DEF Work, Moves, Loaded, At, Inside, Outside, Ending, Fits, Works,
      InStep, JobType, counters
<1>11. ASSUME SkipCompleted(t) PROVE Work(t)
  <2>1. Moves(t, {"next"}, tasks[t].step + 1)
    BY <1>1, <1>11 DEF SkipCompleted, Moves, TaskType, At
  <2> QED
    BY <1>1, <1>11, <2>1 DEF Work, Moves, SkipCompleted, At, Inside, Outside, Ending, Fits,
      Works, InStep, JobType, counters
<1>12. ASSUME EnterStep(t) PROVE Work(t)
  <2>1. Moves(t, {"check"}, tasks[t].step + 1)
    BY <1>1, <1>12 DEF EnterStep, Moves, TaskType, At
  <2> QED
    BY <1>1, <1>12, <2>1 DEF Work, Moves, EnterStep, At, Inside, Outside, Ending, Fits, Works,
      InStep, JobType, counters
<1>13. ASSUME CheckStep(t) PROVE Work(t)
  <2>1. Moves(t, {"start"}, tasks[t].step)
    BY <1>1, <1>13, CheckedMoves DEF CheckStep, Moves
  <2> QED
    BY <1>1, <1>13, <2>1 DEF Work, Moves, CheckStep, Passes, At, Inside, Outside, Ending, Fits,
      Works, InStep, JobType, counters
<1>14. ASSUME StartStep(t) PROVE Work(t)
  <2>1. Moves(t, {Body(tasks[t].step, job.mode)}, tasks[t].step)
    BY <1>1, <1>14 DEF StartStep, Moves, TaskType, At
  <2>2. /\ tasks'[t].pc \in InStep
        /\ tasks'[t].pc \in {"video", "clips", "apply"} => tasks[t].step = VideoGeneration
    BY <2>1 DEF Moves, Body, InStep
  <2>3. tasks'[t].pc \notin {"retrySteps", "retryMedia", "retryFinish"} \cup Outside
    BY <2>2 DEF InStep, Outside
  <2> QED
    BY <1>1, <1>14, <2>1, <2>2, <2>3 DEF Work, Moves, StartStep, At, Inside, Outside, Ending,
      Fits, Works, JobType, counters, InStep
<1>15. ASSUME StepDone(t) PROVE Work(t)
  <2>1. Moves(t, {"next"}, tasks[t].step)
    BY <1>1, <1>15 DEF StepDone, Moves, TaskType, At
  <2> QED
    BY <1>1, <1>15, <2>1 DEF Work, Moves, StepDone, At, Inside, Outside, Ending, Fits, Works,
      InStep, JobType, counters
<1>16. ASSUME PlanScenes(t) PROVE Work(t)
  <2>1. Moves(t, {"done", "planned", "stepFailed"}, tasks[t].step)
    BY <1>1, <1>16, CheckedMoves DEF PlanScenes, Moves
  <2> QED
    BY <1>1, <1>16, <2>1 DEF Work, Moves, PlanScenes, Passes, At, Inside, Outside, Ending,
      Fits, Works, InStep, JobType, counters
<1>17. ASSUME StorePlan(t) PROVE Work(t)
  <2>1. Moves(t, {"done"}, tasks[t].step)
    BY <1>1, <1>17, CheckedMoves DEF StorePlan, Moves
  <2> QED
    BY <1>1, <1>17, <2>1 DEF Work, Moves, StorePlan, Passes, At, Inside, Outside, Ending, Fits,
      Works, InStep, JobType, counters
<1>18. ASSUME NoScenes(t) PROVE Work(t)
  <2>1. Moves(t, {"stepFailed"}, tasks[t].step)
    BY <1>1, <1>18, GotoMoves DEF NoScenes, Moves
  <2> QED
    BY <1>1, <1>18, <2>1 DEF Work, Moves, NoScenes, At, Inside, Outside, Ending, Fits, Works,
      InStep, JobType, counters
<1>19. ASSUME ImageScene(t) PROVE Work(t)
  <2>1. Moves(t, {"first"}, tasks[t].step)
    BY <1>1, <1>19, CheckedMoves DEF ImageScene, Moves
  <2> QED
    BY <1>1, <1>19, <2>1 DEF Work, Moves, ImageScene, Passes, At, Inside, Outside, Ending,
      Fits, Works, InStep, JobType, counters
<1>20. ASSUME FirstKeyframe(t) PROVE Work(t)
  <2>1. Moves(t, {"second"}, tasks[t].step)
    BY <1>1, <1>20, CheckedMoves DEF FirstKeyframe, Moves
  <2> QED
    BY <1>1, <1>20, <2>1 DEF Work, Moves, FirstKeyframe, Passes, At, Inside, Outside, Ending,
      Fits, Works, InStep, JobType, counters
<1>21. ASSUME SecondKeyframe(t) PROVE Work(t)
  <2>1. Moves(t, {"keyframes"}, tasks[t].step)
    BY <1>1, <1>21, CheckedMoves DEF SecondKeyframe, Moves
  <2> QED
    BY <1>1, <1>21, <2>1 DEF Work, Moves, SecondKeyframe, Passes, At, Inside, Outside, Ending,
      Fits, Works, InStep, JobType, counters
<1>22. ASSUME KeyframesDone(t) PROVE Work(t)
  <2>1. Moves(t, {"image"}, tasks[t].step)
    BY <1>1, <1>22 DEF KeyframesDone, Moves, TaskType, At
  <2> QED
    BY <1>1, <1>22, <2>1 DEF Work, Moves, KeyframesDone, At, Inside, Outside, Ending, Fits,
      Works, InStep, JobType, counters
<1>23. ASSUME ImagesDone(t) PROVE Work(t)
  <2>1. Moves(t, {"done", "stepFailed"}, tasks[t].step)
    BY <1>1, <1>23 DEF ImagesDone, Moves, TaskType, At
  <2> QED
    BY <1>1, <1>23, <2>1 DEF Work, Moves, ImagesDone, At, Inside, Outside, Ending, Fits, Works,
      InStep, JobType, counters
<1>24. ASSUME PhotoStart(t) PROVE Work(t)
  <2>1. Moves(t, {"photoCall"}, tasks[t].step)
    BY <1>1, <1>24, CheckedMoves DEF PhotoStart, Moves
  <2> QED
    BY <1>1, <1>24, <2>1 DEF Work, Moves, PhotoStart, Passes, At, Inside, Outside, Ending,
      Fits, Works, InStep, JobType, counters
<1>25. ASSUME PhotoDone(t) PROVE Work(t)
  <2>1. Moves(t, {"done", "stepFailed"}, tasks[t].step)
    BY <1>1, <1>25, GotoMoves DEF PhotoDone, Moves
  <2> QED
    BY <1>1, <1>25, <2>1 DEF Work, Moves, PhotoDone, At, Inside, Outside, Ending, Fits, Works,
      InStep, JobType, counters
<1>26. ASSUME VideoStart(t) PROVE Work(t)
  <2>1. Moves(t, {"clips"}, tasks[t].step)
    BY <1>1, <1>26 DEF VideoStart, Moves, TaskType, At, Checked
  <2> QED
    BY <1>1, <1>26, <2>1 DEF Work, Moves, VideoStart, Passes, At, Inside, Outside, Ending,
      Fits, Works, InStep, JobType, counters
<1>27. ASSUME NEW s \in Scenes, VideoReturned(t, s) PROVE Work(t)
  <2>1. Moves(t, {"clips"}, tasks[t].step)
    BY <1>1, <1>27 DEF VideoReturned, Moves, TaskType, At
  <2> QED
    BY <1>1, <1>27, <2>1 DEF Work, Moves, VideoReturned, At, Inside, Outside, Ending, Fits,
      Works, InStep, JobType, counters
<1>28. ASSUME VideosReturned(t) PROVE Work(t)
  <2>1. CASE Stopping(t)
    <3>1. Moves(t, {"release"}, tasks[t].step)
      BY <1>1, <1>28, <2>1, GotoMoves DEF VideosReturned
    <3> QED
      BY <1>1, <1>28, <2>1, <3>1 DEF Work, Moves, VideosReturned, At, Inside, Outside, Ending,
        Fits, Works, InStep, JobType, counters
  <2>2. CASE ~Stopping(t)
    <3>1. Moves(t, {"apply"}, tasks[t].step)
      BY <1>1, <1>28, <2>2, CheckedMoves DEF VideosReturned
    <3> QED
      BY <1>1, <1>28, <2>2, <3>1 DEF Work, Moves, VideosReturned, At, Inside, Outside, Ending,
        Fits, Works, InStep, JobType, counters
  <2> QED
    BY <1>28, <2>1, <2>2 DEF VideosReturned
<1>29. ASSUME VideoApply(t) PROVE Work(t)
  <2>1. CASE job.status \notin {"cancelling", "cancelled"} /\
        tasks[t].rows[tasks[t].cur] \notin {"cancelled", "cancelledWithUrl"}
    <3>1. Moves(t, {"apply"}, tasks[t].step)
      BY <1>1, <1>29, <2>1 DEF VideoApply, Moves, TaskType, At
    <3> QED
      BY <1>1, <1>29, <2>1, <3>1 DEF Work, Moves, VideoApply, At, Inside, Outside, Ending,
        Fits, Works, InStep, JobType, counters
  <2>2. CASE job.status = "cancelled"
    <3>1. Moves(t, {"release"}, tasks[t].step)
      BY <1>1, <1>29, <2>2, GotoMoves DEF VideoApply
    <3> QED
      BY <1>1, <1>29, <2>2, <3>1 DEF Work, Moves, VideoApply, At, Inside, Outside, Ending,
        Fits, Works, InStep, JobType, counters
  <2>3. CASE job.status = "cancelling" \/ (job.status # "cancelled" /\
        tasks[t].rows[tasks[t].cur] \in {"cancelled", "cancelledWithUrl"})
    <3>1. Moves(t, {"release"}, tasks[t].step)
      BY <1>1, <1>29, <2>3, GotoMoves DEF VideoApply
    <3> QED
      BY <1>1, <1>29, <2>3, <3>1 DEF Work, Moves, VideoApply, At, Inside, Outside, Ending,
        Fits, Works, InStep, JobType, counters
  <2> QED
    BY <1>29, <2>1, <2>2, <2>3 DEF VideoApply
<1>30. ASSUME VideosDone(t) PROVE Work(t)
  <2>1. Moves(t, {"done", "stepFailed"}, tasks[t].step)
    BY <1>1, <1>30 DEF VideosDone, Moves, TaskType, At
  <2> QED
    BY <1>1, <1>30, <2>1 DEF Work, Moves, VideosDone, At, Inside, Outside, Ending, Fits, Works,
      InStep, JobType, counters
<1>31. ASSUME SeedanceClip(t) PROVE Work(t)
  <2>1. Moves(t, {"clip", "done", "stepFailed"}, tasks[t].step)
    BY <1>1, <1>31, GotoMoves DEF SeedanceClip, Moves, TaskType, At, ClipFails
  <2> QED
    BY <1>1, <1>31, <2>1 DEF Work, Moves, SeedanceClip, At, Inside, Outside, Ending, Fits,
      Works, InStep, JobType, counters
<1>32. ASSUME AiliveClip(t) PROVE Work(t)
  <2>1. Moves(t, {"clip", "done", "stepFailed"}, tasks[t].step)
    BY <1>1, <1>32, GotoMoves DEF AiliveClip, Moves, TaskType, At, ClipFails
  <2> QED
    BY <1>1, <1>32, <2>1 DEF Work, Moves, AiliveClip, At, Inside, Outside, Ending, Fits, Works,
      InStep, JobType, counters
<1>33. ASSUME AssemblyStart(t) PROVE Work(t)
  <2>1. Moves(t, {Raised(t), "done", "concat"}, tasks[t].step)
    BY <1>1, <1>33, CheckedMoves DEF AssemblyStart, Moves
  <2> QED
    BY <1>1, <1>33, <2>1 DEF Work, Moves, AssemblyStart, Passes, At, Inside, Outside, Ending,
      Fits, Works, InStep, JobType, counters, Raised
<1>34. ASSUME Concat(t) PROVE Work(t)
  <2>1. Moves(t, {"done"}, tasks[t].step)
    BY <1>1, <1>34, CheckedMoves DEF Concat, Moves
  <2> QED
    BY <1>1, <1>34, <2>1 DEF Work, Moves, Concat, Passes, At, Inside, Outside, Ending, Fits,
      Works, InStep, JobType, counters
<1>35. ASSUME DistributionStart(t) PROVE Work(t)
  <2>1. Moves(t, {Raised(t), "done", "push"}, tasks[t].step)
    BY <1>1, <1>35, CheckedMoves DEF DistributionStart, Moves
  <2> QED
    BY <1>1, <1>35, <2>1 DEF Work, Moves, DistributionStart, Passes, At, Inside, Outside,
      Ending, Fits, Works, InStep, JobType, counters, Raised
<1>36. ASSUME PushExport(t) PROVE Work(t)
  <2>1. Moves(t, {"done"}, tasks[t].step)
    BY <1>1, <1>36, CheckedMoves DEF PushExport, Moves
  <2> QED
    BY <1>1, <1>36, <2>1 DEF Work, Moves, PushExport, Passes, At, Inside, Outside, Ending,
      Fits, Works, InStep, JobType, counters
<1>37. ASSUME RetryReset(t) PROVE Work(t)
  <2>1. CASE tasks[t].arg \in Live
    <3>1. Moves(t, {"retrySteps"}, tasks[t].step)
      BY <1>1, <1>37, <2>1, GotoMoves DEF RetryReset
    <3> QED
      BY <1>1, <1>37, <2>1, <3>1 DEF Work, Moves, RetryReset, At, Inside, Outside, Ending,
        Fits, Works, InStep, JobType, counters
  <2>2. CASE tasks[t].arg \notin Live
    <3>1. Moves(t, {"release"}, tasks[t].step)
      BY <1>1, <1>37, <2>2, GotoMoves DEF RetryReset
    <3> QED
      BY <1>1, <1>37, <2>2, <3>1 DEF Work, Moves, RetryReset, At, Inside, Outside, Ending,
        Fits, Works, InStep, JobType, counters
  <2> QED
    BY <1>37, <2>1, <2>2 DEF RetryReset
<1>38. ASSUME RetrySteps(t) PROVE Work(t)
  <2>1. Moves(t, {"retryMedia"}, tasks[t].step)
    BY <1>1, <1>38, GotoMoves DEF RetrySteps, Moves
  <2> QED
    BY <1>1, <1>38, <2>1 DEF Work, Moves, RetrySteps, At, Inside, Outside, Ending, Fits, Works,
      InStep, JobType, counters
<1>39. ASSUME RetryMedia(t) PROVE Work(t)
  <2>1. Moves(t, {"retryFinish"}, tasks[t].step)
    BY <1>1, <1>39, GotoMoves DEF RetryMedia, Moves
  <2> QED
    BY <1>1, <1>39, <2>1 DEF Work, Moves, RetryMedia, At, Inside, Outside, Ending, Fits, Works,
      InStep, JobType, counters
<1>40. ASSUME RetryFinish(t) PROVE Work(t)
  <2>1. Moves(t, {"assembly"}, Assembly)
    BY <1>1, <1>40 DEF RetryFinish, Moves, TaskType, At
  <2> QED
    BY <1>1, <1>40, <2>1 DEF Work, Moves, RetryFinish, At, Inside, Outside, Ending, Fits,
      Works, InStep, JobType, counters
<1>41. ASSUME RetryDone(t) PROVE Work(t)
  <2>1. Moves(t, {"distribution"}, Distribution) \/ Moves(t, {"release"}, tasks[t].step)
    BY <1>1, <1>41, GotoMoves DEF RetryDone, Moves, TaskType, At
  <2> QED
    BY <1>1, <1>41, <2>1 DEF Work, Moves, RetryDone, At, Inside, Outside, Ending, Fits, Works,
      InStep, JobType, counters
<1>42. ASSUME RetryFailed(t) PROVE Work(t)
  <2>1. Moves(t, {"release"}, tasks[t].step)
    BY <1>1, <1>42, GotoMoves DEF RetryFailed, Moves
  <2> QED
    BY <1>1, <1>42, <2>1 DEF Work, Moves, RetryFailed, At, Inside, Outside, Ending, Fits,
      Works, InStep, JobType, counters
<1> QED
  BY <1>2, <1>3, <1>4, <1>5, <1>6, <1>7, <1>8, <1>9, <1>10, <1>11, <1>12, <1>13, <1>14, <1>15,
    <1>16, <1>17, <1>18, <1>19, <1>20, <1>21, <1>22, <1>23, <1>24, <1>25, <1>26, <1>27, <1>28,
    <1>29, <1>30, <1>31, <1>32, <1>33, <1>34, <1>35, <1>36, <1>37, <1>38, <1>39, <1>40, <1>41,
    <1>42 DEF TaskStep, Supervise, RunStep, MakeImages, MakeVideos, Deliver, RedoScene

-----------------------------------------------------------------------------
(* The inductive invariant *)

\* One process serves the job (docker-compose.yml).
OneProcess == \A r, s \in Replicas : r = s

\* A step row that says running has a task that will close it.
Attended ==
  job.status # "deleted" /\ crashes = 0 =>
    \A k \in StepIds : steps[k] = "running" => \E t \in Tasks : Works(t, k)

PipelinesFit == \A t \in Tasks : Fits(t)

JobInvariant == TypeOK /\ OnePipeline /\ PipelinesFit /\ (OneProcess => CancelledIsIdle /\ Attended)

\* Before the job is created there is nothing to attend to.
LEMMA InitJob == Init => JobInvariant
<1> SUFFICES ASSUME Init PROVE JobInvariant
  OBVIOUS
<1>1. TypeOK
  BY InitTypes
<1>2. \A t \in Tasks : tasks[t].pc = "idle" /\ tasks[t].kind = "none"
  BY DEF Init, Idle
<1> QED
  BY <1>1, <1>2 DEF Init, JobInvariant, OnePipeline, PipelinesFit, Fits, CancelledIsIdle, Attended, Inside,
    Outside

\* Two tasks inside are one, where there is one process.
LEMMA OneInside ==
  ASSUME OnePipeline, OneProcess, NEW t \in Tasks, NEW u \in Tasks, Inside(t), Inside(u)
  PROVE  t = u
  BY ReplicaAssumption DEF OnePipeline, OneProcess

\* The work of a pipeline, as WorkSteps describes it, keeps the invariant.
LEMMA WorkKeeps ==
  ASSUME JobInvariant, TypeOK', NEW t \in Tasks, Work(t)
  PROVE  JobInvariant'
<1>0. /\ active' = active /\ crashes' = crashes /\ Inside(t) /\ Inside(t)'
      /\ \A u \in Tasks \ {t} : tasks'[u] = tasks[u]
  BY DEF Work
<1>1. \A u \in Tasks : Inside(u)' <=> Inside(u)
  BY <1>0 DEF Inside
<1>2. OnePipeline'
  BY <1>0, <1>1 DEF JobInvariant, OnePipeline
<1>3. PipelinesFit'
  BY <1>0 DEF JobInvariant, PipelinesFit, Work, Fits
<1>4. ASSUME OneProcess PROVE CancelledIsIdle'
  <2> SUFFICES ASSUME job'.status = "cancelled", NEW u \in Tasks
               PROVE  tasks'[u].pc \in Ending
    BY DEF CancelledIsIdle, Ending
  <2>1. CASE u = t
    BY <1>4, <2>1 DEF JobInvariant, CancelledIsIdle, Work, Ending
  <2>2. CASE u # t
    <3>1. ~Inside(u)
      BY <1>0, <1>4, <2>2, OneInside DEF JobInvariant
    <3> QED BY <1>0, <2>2, <3>1 DEF Inside, Ending
  <2> QED BY <2>1, <2>2
<1>5. ASSUME OneProcess PROVE Attended'
  <2> SUFFICES ASSUME job'.status # "deleted", crashes' = 0, NEW k \in StepIds, steps'[k] = "running"
               PROVE  \E u \in Tasks : Works(u, k)'
    BY DEF Attended
  <2>1. CASE Works(t, k)'
    BY <2>1
  <2>2. CASE ~Works(t, k)'
    <3>1. steps[k] = "running" /\ job.status # "deleted" /\ crashes = 0
      BY <1>0, <2>2 DEF Work
    <3>2. PICK u \in Tasks : Works(u, k)
      BY <1>5, <3>1 DEF JobInvariant, Attended
    <3>3. Inside(u) /\ tasks[u].pc \notin Ending
      BY <3>2 DEF Works, InStep, Inside, Outside, Ending
    <3>4. u = t
      BY <1>0, <1>5, <3>3, OneInside DEF JobInvariant
    <3>5. job.status = "cancelled"
      BY <2>2, <3>1, <3>2, <3>4 DEF Work
    <3> QED BY <1>5, <3>3, <3>5 DEF JobInvariant, CancelledIsIdle, Ending
  <2> QED BY <2>1, <2>2
<1> QED BY <1>2, <1>3, <1>4, <1>5 DEF JobInvariant

\* A task takes its turn, or is turned away.
LEMMA TurnKeeps ==
  ASSUME JobInvariant, TypeOK', NEW t \in Tasks,
         TryBegin(t) \/ SkipDuplicate(t) \/ EndExclusive(t)
  PROVE  JobInvariant'
<1>1. tasks \in [Tasks -> TaskType] /\ tasks[t] \in TaskType
  BY DEF JobInvariant, TypeOK
<1>2. /\ job' = job /\ steps' = steps /\ crashes' = crashes
      /\ \A u \in Tasks \ {t} : tasks'[u] = tasks[u]
  BY <1>1 DEF TryBegin, SkipDuplicate, EndExclusive, Goto, counters
<1>3. \A u \in Tasks \ {t} : Inside(u)' <=> Inside(u)
  BY <1>2 DEF Inside
<1>4. tasks'[t].pc \in Ending /\ Fits(t)'
  <2>1. CASE TryBegin(t)
    <3>1. Moves(t, {CASE tasks[t].kind = "from" -> "reset" [] tasks[t].kind = "scene" -> "retryReset"
                      [] OTHER -> "load"}, tasks[t].step)
      BY <2>1, GotoMoves DEF TryBegin, JobInvariant
    <3> QED BY <3>1 DEF Moves, Fits, Ending
  <2>2. CASE SkipDuplicate(t) \/ EndExclusive(t)
    BY <1>1, <2>2 DEF SkipDuplicate, EndExclusive, Idle, Ending, Outside, Fits
  <2> QED BY <2>1, <2>2
<1>5. OnePipeline'
  <2>1. CASE TryBegin(t)
    <3>1. Inside(t)' /\ ~Inside(t) /\ active' = active \cup {ReplicaOf[t]} /\ ReplicaOf[t] \notin active
      BY <1>1, <2>1 DEF TryBegin, Inside, Outside, Goto, TaskType
    <3> QED BY <1>3, <3>1, ReplicaAssumption DEF JobInvariant, OnePipeline
  <2>2. CASE SkipDuplicate(t)
    <3>1. ~Inside(t)' /\ ~Inside(t) /\ active' = active
      BY <1>1, <2>2 DEF SkipDuplicate, Inside, Outside, Idle
    <3> QED BY <1>3, <3>1 DEF JobInvariant, OnePipeline
  <2>3. CASE EndExclusive(t)
    <3>1. ~Inside(t)' /\ Inside(t) /\ active' = active \ {ReplicaOf[t]}
      BY <1>1, <2>3 DEF EndExclusive, Inside, Outside, Idle
    <3> QED BY <1>3, <3>1, ReplicaAssumption DEF JobInvariant, OnePipeline
  <2> QED BY <2>1, <2>2, <2>3
<1>6. PipelinesFit'
  BY <1>2, <1>4 DEF JobInvariant, PipelinesFit, Fits
<1>7. CancelledIsIdle => CancelledIsIdle'
  BY <1>2, <1>4 DEF CancelledIsIdle, Ending
<1>8. \A k \in StepIds : ~Works(t, k)
  BY DEF Works, InStep, TryBegin, SkipDuplicate, EndExclusive
<1>9. Attended => Attended'
  <2> SUFFICES ASSUME Attended, job.status # "deleted", crashes = 0, NEW k \in StepIds, steps[k] = "running"
               PROVE  \E u \in Tasks : Works(u, k)'
    BY <1>2 DEF Attended
  <2>1. PICK u \in Tasks : Works(u, k)
    BY DEF Attended
  <2> QED BY <1>2, <1>8, <2>1 DEF Works
<1> QED BY <1>5, <1>6, <1>7, <1>9 DEF JobInvariant

\* A request starts no step and cancels no job; a claim and a launch queue an idle task.
Requested ==
  /\ active' = active /\ crashes' = crashes
  /\ \A k \in StepIds : steps'[k] = "running" => steps[k] = "running"
  /\ job'.status = "cancelled" => job.status = "cancelled"
  /\ job.status = "deleted" => job'.status = "deleted"
  /\ \A t \in Tasks : tasks'[t] = tasks[t]
                      \/ /\ tasks[t].pc = "idle"
                         /\ tasks'[t].pc = "queued"

\* Every request is of this kind.
LEMMA RequestSteps ==
  ASSUME TypeOK, RequestStep \/ RequestEnd
  PROVE  Requested
<1>1. /\ job \in JobType /\ steps \in [StepIds -> StepStatuses] /\ tasks \in [Tasks -> TaskType]
  BY DEF TypeOK, JobType
<1>2. \A kind, arg : Scheduled(kind, arg).pc = "queued"
  BY DEF Scheduled, Idle
<1>3. ASSUME NEW m \in Modes, CreateJob(m) PROVE Requested
  BY <1>1, <1>3 DEF CreateJob, Requested, counters
<1>4. ASSUME NEW op \in Operations, NEW k \in StepIds, ReadForRequest(op, k) PROVE Requested
  BY <1>1, <1>4 DEF ReadForRequest, Requested
<1>5. ASSUME CancelJob PROVE Requested
  BY <1>1, <1>5 DEF CancelJob, Requested, JobType, counters
<1>6. ASSUME NEW t \in Tasks, NEW kind, NEW arg, Claim(t, kind, arg) PROVE Requested
  BY <1>1, <1>2, <1>6 DEF Claim, Requested, JobType
<1>7. ASSUME NEW r \in reqs, MarkReady(r) PROVE Requested
  BY <1>1, <1>7 DEF MarkReady, Writes, Requested, JobType, counters
<1>8. ASSUME NEW r \in reqs, DeleteJob(r) PROVE Requested
  BY <1>1, <1>8 DEF DeleteJob, Writes, Requested, JobType, counters
<1>9. ASSUME NEW r \in reqs, CancelStep(r) PROVE Requested
  BY <1>1, <1>9 DEF CancelStep, Writes, Requested, JobType, counters
<1>10. ASSUME NEW r \in reqs, Simulate(r) PROVE Requested
  BY <1>1, <1>10 DEF Simulate, Writes, Requested, JobType, counters
<1>11. ASSUME NEW r \in reqs, RequestFails(r) PROVE Requested
  BY <1>1, <1>11 DEF RequestFails, Requested, counters
<1>12. ASSUME NEW r \in reqs, NEW t \in Tasks, Launch(r, t) PROVE Requested
  BY <1>1, <1>2, <1>12 DEF Launch, Writes, Requested, JobType, counters
<1> QED
  BY <1>3, <1>4, <1>5, <1>6, <1>7, <1>8, <1>9, <1>10, <1>11, <1>12
    DEF RequestStep, RequestEnd, RetryStep, RetryScene

\* A request puts a task into the queue, where every place fits, or leaves it alone.
LEMMA QueuedFits ==
  ASSUME TypeOK, RequestStep \/ RequestEnd, NEW t \in Tasks, Fits(t)
  PROVE  Fits(t)'
<1>1. tasks'[t] = tasks[t] \/ tasks'[t].pc = "queued"
  BY RequestSteps DEF Requested
<1> QED BY <1>1 DEF Fits

\* So do the requests.
LEMMA RequestKeeps ==
  ASSUME JobInvariant, TypeOK', RequestStep \/ RequestEnd
  PROVE  JobInvariant'
<1>1. Requested
  BY RequestSteps DEF JobInvariant
<1>2. \A t \in Tasks : /\ Inside(t)' <=> Inside(t)
                       /\ \A k \in StepIds : Works(t, k) => Works(t, k)'
  BY <1>1 DEF Requested, Inside, Outside, Works, InStep
<1>3. OnePipeline'
  BY <1>1, <1>2 DEF JobInvariant, OnePipeline, Requested
<1>4. PipelinesFit'
  BY QueuedFits DEF JobInvariant, PipelinesFit
<1>5. CancelledIsIdle => CancelledIsIdle'
  BY <1>1 DEF CancelledIsIdle, Requested, Outside
<1>6. Attended => Attended'
  BY <1>1, <1>2 DEF Attended, Requested
<1> QED BY <1>3, <1>4, <1>5, <1>6 DEF JobInvariant

\* A restart leaves nothing of the process's pipelines.
LEMMA CrashKeeps ==
  ASSUME JobInvariant, TypeOK', NEW r \in Replicas, Crash(r)
  PROVE  JobInvariant'
<1>1. \A t \in Tasks : tasks'[t] = IF ReplicaOf[t] = r THEN Idle ELSE tasks[t]
  BY DEF Crash
<1>2. \A t \in Tasks : Inside(t)' <=> Inside(t) /\ ReplicaOf[t] # r
  BY <1>1 DEF Inside, Outside, Idle
<1>3. OnePipeline'
  BY <1>2 DEF JobInvariant, OnePipeline, Crash
<1>4. PipelinesFit'
  BY <1>1 DEF JobInvariant, PipelinesFit, Fits, Idle
<1>5. CancelledIsIdle => CancelledIsIdle'
  BY <1>1 DEF CancelledIsIdle, Crash, Idle, Outside
<1>6. crashes' # 0
  BY DEF Crash, JobInvariant, TypeOK
<1> QED BY <1>3, <1>4, <1>5, <1>6 DEF JobInvariant, Attended

\* So each step of the specification keeps the invariant.
LEMMA NextJob == JobInvariant /\ [Next]_vars => JobInvariant'
<1> SUFFICES ASSUME JobInvariant, [Next]_vars PROVE JobInvariant'
  OBVIOUS
<1>1. TypeOK'
  BY TypeStep, StutterTypes DEF JobInvariant
<1>2. ASSUME NEW t \in Tasks, TaskStep(t), ~TryBegin(t), ~SkipDuplicate(t), ~EndExclusive(t)
      PROVE  JobInvariant'
  BY <1>1, <1>2, WorkSteps, WorkKeeps DEF JobInvariant, PipelinesFit
<1>3. ASSUME NEW t \in Tasks, TaskStep(t) PROVE JobInvariant'
  BY <1>1, <1>2, <1>3, TurnKeeps
<1>4. CASE UNCHANGED vars
  BY <1>1, <1>4 DEF vars, JobInvariant, OnePipeline, PipelinesFit, Fits, CancelledIsIdle, Attended, Works,
    Inside
<1> QED BY <1>1, <1>3, <1>4, RequestKeeps, CrashKeeps DEF Next

\* What JobInvariant says holds throughout.
LEMMA JobInvariance == Spec => []JobInvariant
  BY InitJob, NextJob, PTL DEF Spec

-----------------------------------------------------------------------------
(* Theorems: exclusion, cancellation, open steps *)

\* A process never runs two pipelines of a job, and its registry says whether it runs one, whatever
\* is launched, retried, cancelled, deleted or restarted (try_begin_exclusive_job_pipeline,
\* end_exclusive_job_pipeline).
THEOREM PipelinesExclude == Spec => []GenerationInvariant
<1>1. JobInvariant => GenerationInvariant
  BY DEF JobInvariant, GenerationInvariant
<1> QED BY <1>1, JobInvariance, PTL

\* With one process, nobody generates for a cancelled job (_finalize_job_cancelled and the checks
\* between the calls of a pipeline): with two, the other process may go on.
THEOREM CancelledRests == Spec => [](OneProcess => CancelledIsIdle)
<1>1. JobInvariant => (OneProcess => CancelledIsIdle)
  BY DEF JobInvariant
<1> QED BY <1>1, JobInvariance, PTL

\* With one process that is not restarted, no step stays running without a pipeline: each way out of
\* _execute_pipeline, of a cancelled or a failed step and of the retry of a scene closes the rows it
\* has opened.
THEOREM StepsAreClosed == Spec => [](OneProcess => NoOrphanStep)
<1>1. ASSUME JobInvariant, OneProcess PROVE NoOrphanStep
  <2> SUFFICES ASSUME job.status # "deleted", crashes = 0, active = {}, NEW k \in StepIds,
                      steps[k] = "running"
               PROVE  FALSE
    BY DEF NoOrphanStep
  <2>1. PICK t \in Tasks : Works(t, k)
    BY <1>1 DEF JobInvariant, Attended
  <2>2. Inside(t)
    BY <2>1 DEF Works, InStep, Inside, Outside
  <2> QED BY <1>1, <2>2, ReplicaAssumption DEF JobInvariant, OnePipeline
<1>2. JobInvariant => (OneProcess => NoOrphanStep)
  BY <1>1
<1> QED BY <1>2, JobInvariance, PTL

-----------------------------------------------------------------------------
(* What leaves a pipeline: the output of a completed job, the exports, the images *)

\* The task goes from one of the places to another, and no other task moves.
Goes(t, from, to, step) == tasks[t].pc \in from /\ Moves(t, to, step)

\* From where an action takes a task, and where to.
LEMMA ActionMoves ==
  ASSUME TypeOK, NEW t \in Tasks
  PROVE
    /\ Gone(t) => Goes(t, TaskPcs \ Outside, {"release"}, tasks[t].step)
    /\ Load(t) => Goes(t, {"load"}, {"loaded", "release"}, tasks[t].step)
    /\ ResetStepsFrom(t) => Goes(t, {"reset"}, {"load"}, tasks[t].step)
    /\ FinalizeCancelled(t) => Goes(t, JobChecks, {"retryFailed", "release"}, tasks[t].step)
    /\ StopStep(t) => Goes(t, StepChecks, {"error", "retryFailed", "release"}, tasks[t].step)
    /\ StepFailed(t) => Goes(t, {"stepFailed"}, {"error"}, tasks[t].step)
    /\ PipelineError(t) => Goes(t, {"error"}, {"release"}, tasks[t].step)
    /\ Finish(t) => Goes(t, {"next"}, {"release", "error"}, tasks[t].step)
    /\ Loaded(t) => Goes(t, {"loaded"}, {"next"}, 0)
    /\ SkipCompleted(t) => Goes(t, {"next"}, {"next"}, tasks[t].step + 1)
    /\ EnterStep(t) => Goes(t, {"next"}, {"check"}, tasks[t].step + 1)
    /\ CheckStep(t) => Goes(t, {"check"}, {"start"}, tasks[t].step)
    /\ StartStep(t) => Goes(t, {"start"}, {Body(tasks[t].step, job.mode)}, tasks[t].step)
    /\ StepDone(t) => Goes(t, {"done"}, {"next"}, tasks[t].step)
    /\ PlanScenes(t) => Goes(t, {"plan"}, {"done", "planned", "stepFailed"}, tasks[t].step)
    /\ StorePlan(t) => Goes(t, {"planned"}, {"done"}, tasks[t].step)
    /\ NoScenes(t) => Goes(t, {"image", "photo", "video", "clip"}, {"stepFailed"}, tasks[t].step)
    /\ ImageScene(t) => Goes(t, {"image"}, {"first"}, tasks[t].step)
    /\ FirstKeyframe(t) => Goes(t, {"first"}, {"second"}, tasks[t].step)
    /\ SecondKeyframe(t) => Goes(t, {"second"}, {"keyframes"}, tasks[t].step)
    /\ KeyframesDone(t) => Goes(t, {"keyframes"}, {"image"}, tasks[t].step)
    /\ ImagesDone(t) => Goes(t, {"image"}, {"done", "stepFailed"}, tasks[t].step)
    /\ PhotoStart(t) => Goes(t, {"photo"}, {"photoCall"}, tasks[t].step)
    /\ PhotoDone(t) => Goes(t, {"photoCall"}, {"done", "stepFailed"}, tasks[t].step)
    /\ VideoStart(t) => Goes(t, {"video"}, {"clips"}, tasks[t].step)
    /\ (\E s \in Scenes : VideoReturned(t, s)) => Goes(t, {"clips"}, {"clips"}, tasks[t].step)
    /\ VideosReturned(t) => Goes(t, {"clips"}, {"release", "apply"}, tasks[t].step)
    /\ VideoApply(t) => Goes(t, {"apply"}, {"release", "apply"}, tasks[t].step)
    /\ VideosDone(t) => Goes(t, {"apply"}, {"done", "stepFailed"}, tasks[t].step)
    /\ SeedanceClip(t) => Goes(t, {"clip"}, {"done", "clip", "stepFailed"}, tasks[t].step)
    /\ AiliveClip(t) => Goes(t, {"clip"}, {"done", "clip", "stepFailed"}, tasks[t].step)
    /\ AssemblyStart(t) => Goes(t, {"assembly"}, {Raised(t), "done", "concat"}, tasks[t].step)
    /\ Concat(t) => Goes(t, {"concat"}, {"done"}, tasks[t].step)
    /\ DistributionStart(t) => Goes(t, {"distribution"}, {"done", Raised(t), "push"}, tasks[t].step)
    /\ PushExport(t) => Goes(t, {"push"}, {"done"}, tasks[t].step)
    /\ RetryReset(t) => Goes(t, {"retryReset"}, {"retrySteps", "release"}, tasks[t].step)
    /\ RetrySteps(t) => Goes(t, {"retrySteps"}, {"retryMedia"}, tasks[t].step)
    /\ RetryMedia(t) => Goes(t, {"retryMedia"}, {"retryFinish"}, tasks[t].step)
    /\ RetryFinish(t) => Goes(t, {"retryFinish"}, {"assembly"}, Assembly)
    /\ RetryDone(t) => Goes(t, {"done"}, {"distribution"}, Distribution) \/ Goes(t, {"done"}, {"release"}, tasks[t].step)
    /\ RetryFailed(t) => Goes(t, {"retryFailed"}, {"release"}, tasks[t].step)
<1>0. tasks \in [Tasks -> TaskType] /\ tasks[t] \in TaskType
  BY DEF TypeOK
<1>1. ASSUME Gone(t) PROVE Goes(t, TaskPcs \ Outside, {"release"}, tasks[t].step)
  BY <1>0, <1>1, GotoMoves DEF Gone, At, Goes, Moves, Inside, TaskType
<1>2. ASSUME Load(t) PROVE Goes(t, {"load"}, {"loaded", "release"}, tasks[t].step)
  <2>1. CASE job.status = "running"
    BY <1>0, <1>2, <2>1 DEF Load, At, Goes, Moves, TaskType
  <2>2. CASE job.status # "running"
    BY <1>0, <1>2, <2>2, GotoMoves DEF Load, At, Goes, Moves
  <2> QED BY <2>1, <2>2
<1>3. ASSUME ResetStepsFrom(t) PROVE Goes(t, {"reset"}, {"load"}, tasks[t].step)
  BY <1>0, <1>3, GotoMoves DEF ResetStepsFrom, At, Goes, Moves
<1>4. ASSUME FinalizeCancelled(t) PROVE Goes(t, JobChecks, {"retryFailed", "release"}, tasks[t].step)
  BY <1>0, <1>4, GotoMoves DEF FinalizeCancelled, At, Goes, Moves, JobChecks, StepChecks
<1>5. ASSUME StopStep(t) PROVE Goes(t, StepChecks, {"error", "retryFailed", "release"}, tasks[t].step)
  BY <1>0, <1>5, GotoMoves DEF StopStep, At, Goes, Moves, JobChecks, StepChecks
<1>6. ASSUME StepFailed(t) PROVE Goes(t, {"stepFailed"}, {"error"}, tasks[t].step)
  BY <1>0, <1>6 DEF StepFailed, At, Goes, Moves, TaskType
<1>7. ASSUME PipelineError(t) PROVE Goes(t, {"error"}, {"release"}, tasks[t].step)
  BY <1>0, <1>7, GotoMoves DEF PipelineError, At, Goes, Moves
<1>8. ASSUME Finish(t) PROVE Goes(t, {"next"}, {"release", "error"}, tasks[t].step)
  BY <1>0, <1>8, GotoMoves DEF Finish, At, Goes, Moves
<1>9. ASSUME Loaded(t) PROVE Goes(t, {"loaded"}, {"next"}, 0)
  BY <1>0, <1>9 DEF Loaded, At, Goes, Moves, TaskType
<1>10. ASSUME SkipCompleted(t) PROVE Goes(t, {"next"}, {"next"}, tasks[t].step + 1)
  BY <1>0, <1>10 DEF SkipCompleted, At, Goes, Moves, TaskType
<1>11. ASSUME EnterStep(t) PROVE Goes(t, {"next"}, {"check"}, tasks[t].step + 1)
  BY <1>0, <1>11 DEF EnterStep, At, Goes, Moves, TaskType
<1>12. ASSUME CheckStep(t) PROVE Goes(t, {"check"}, {"start"}, tasks[t].step)
  BY <1>0, <1>12, CheckedMoves DEF CheckStep, At, Goes, Passes, Moves
<1>13. ASSUME StartStep(t) PROVE Goes(t, {"start"}, {Body(tasks[t].step, job.mode)}, tasks[t].step)
  BY <1>0, <1>13 DEF StartStep, At, Goes, Moves, TaskType
<1>14. ASSUME StepDone(t) PROVE Goes(t, {"done"}, {"next"}, tasks[t].step)
  BY <1>0, <1>14 DEF StepDone, At, Goes, Moves, TaskType
<1>15. ASSUME PlanScenes(t) PROVE Goes(t, {"plan"}, {"done", "planned", "stepFailed"}, tasks[t].step)
  BY <1>0, <1>15, CheckedMoves DEF PlanScenes, At, Goes, Passes, Moves
<1>16. ASSUME StorePlan(t) PROVE Goes(t, {"planned"}, {"done"}, tasks[t].step)
  BY <1>0, <1>16, CheckedMoves DEF StorePlan, At, Goes, Passes, Moves
<1>17. ASSUME NoScenes(t) PROVE Goes(t, {"image", "photo", "video", "clip"}, {"stepFailed"}, tasks[t].step)
  BY <1>0, <1>17, GotoMoves DEF NoScenes, At, Goes, Moves
<1>18. ASSUME ImageScene(t) PROVE Goes(t, {"image"}, {"first"}, tasks[t].step)
  BY <1>0, <1>18, CheckedMoves DEF ImageScene, At, Goes, Passes, Moves
<1>19. ASSUME FirstKeyframe(t) PROVE Goes(t, {"first"}, {"second"}, tasks[t].step)
  BY <1>0, <1>19, CheckedMoves DEF FirstKeyframe, At, Goes, Passes, Moves
<1>20. ASSUME SecondKeyframe(t) PROVE Goes(t, {"second"}, {"keyframes"}, tasks[t].step)
  BY <1>0, <1>20, CheckedMoves DEF SecondKeyframe, At, Goes, Passes, Moves
<1>21. ASSUME KeyframesDone(t) PROVE Goes(t, {"keyframes"}, {"image"}, tasks[t].step)
  BY <1>0, <1>21 DEF KeyframesDone, At, Goes, Moves, TaskType
<1>22. ASSUME ImagesDone(t) PROVE Goes(t, {"image"}, {"done", "stepFailed"}, tasks[t].step)
  BY <1>0, <1>22 DEF ImagesDone, At, Goes, Moves, TaskType
<1>23. ASSUME PhotoStart(t) PROVE Goes(t, {"photo"}, {"photoCall"}, tasks[t].step)
  BY <1>0, <1>23, CheckedMoves DEF PhotoStart, At, Goes, Passes, Moves
<1>24. ASSUME PhotoDone(t) PROVE Goes(t, {"photoCall"}, {"done", "stepFailed"}, tasks[t].step)
  BY <1>0, <1>24, GotoMoves DEF PhotoDone, At, Goes, Moves
<1>25. ASSUME VideoStart(t) PROVE Goes(t, {"video"}, {"clips"}, tasks[t].step)
  BY <1>0, <1>25 DEF VideoStart, At, Goes, Moves, TaskType, Checked, Passes
<1>26. ASSUME NEW s \in Scenes, VideoReturned(t, s) PROVE Goes(t, {"clips"}, {"clips"}, tasks[t].step)
  BY <1>0, <1>26 DEF VideoReturned, At, Goes, Moves, TaskType
<1>27. ASSUME VideosReturned(t) PROVE Goes(t, {"clips"}, {"release", "apply"}, tasks[t].step)
  BY <1>0, <1>27, GotoMoves, CheckedMoves DEF VideosReturned, At, Goes, Passes, Moves
<1>28. ASSUME VideoApply(t) PROVE Goes(t, {"apply"}, {"release", "apply"}, tasks[t].step)
  BY <1>0, <1>28, GotoMoves DEF VideoApply, At, Goes, Moves, TaskType
<1>29. ASSUME VideosDone(t) PROVE Goes(t, {"apply"}, {"done", "stepFailed"}, tasks[t].step)
  BY <1>0, <1>29 DEF VideosDone, At, Goes, Moves, TaskType
<1>30. ASSUME SeedanceClip(t) PROVE Goes(t, {"clip"}, {"done", "clip", "stepFailed"}, tasks[t].step)
  BY <1>0, <1>30, GotoMoves DEF SeedanceClip, At, Goes, Moves, TaskType, ClipFails
<1>31. ASSUME AiliveClip(t) PROVE Goes(t, {"clip"}, {"done", "clip", "stepFailed"}, tasks[t].step)
  BY <1>0, <1>31, GotoMoves DEF AiliveClip, At, Goes, Moves, TaskType, ClipFails
<1>32. ASSUME AssemblyStart(t) PROVE Goes(t, {"assembly"}, {Raised(t), "done", "concat"}, tasks[t].step)
  BY <1>0, <1>32, CheckedMoves DEF AssemblyStart, At, Goes, Passes, Moves
<1>33. ASSUME Concat(t) PROVE Goes(t, {"concat"}, {"done"}, tasks[t].step)
  BY <1>0, <1>33, CheckedMoves DEF Concat, At, Goes, Passes, Moves
<1>34. ASSUME DistributionStart(t) PROVE Goes(t, {"distribution"}, {"done", Raised(t), "push"}, tasks[t].step)
  BY <1>0, <1>34, CheckedMoves DEF DistributionStart, At, Goes, Passes, Moves
<1>35. ASSUME PushExport(t) PROVE Goes(t, {"push"}, {"done"}, tasks[t].step)
  BY <1>0, <1>35, CheckedMoves DEF PushExport, At, Goes, Passes, Moves
<1>36. ASSUME RetryReset(t) PROVE Goes(t, {"retryReset"}, {"retrySteps", "release"}, tasks[t].step)
  BY <1>0, <1>36, GotoMoves DEF RetryReset, At, Goes, Moves
<1>37. ASSUME RetrySteps(t) PROVE Goes(t, {"retrySteps"}, {"retryMedia"}, tasks[t].step)
  BY <1>0, <1>37, GotoMoves DEF RetrySteps, At, Goes, Moves
<1>38. ASSUME RetryMedia(t) PROVE Goes(t, {"retryMedia"}, {"retryFinish"}, tasks[t].step)
  BY <1>0, <1>38, GotoMoves DEF RetryMedia, At, Goes, Moves
<1>39. ASSUME RetryFinish(t) PROVE Goes(t, {"retryFinish"}, {"assembly"}, Assembly)
  BY <1>0, <1>39 DEF RetryFinish, At, Goes, Moves, TaskType
<1>40. ASSUME RetryDone(t) PROVE Goes(t, {"done"}, {"distribution"}, Distribution) \/ Goes(t, {"done"}, {"release"}, tasks[t].step)
  BY <1>0, <1>40 DEF RetryDone, At, Goes, Moves, TaskType, Goto
<1>41. ASSUME RetryFailed(t) PROVE Goes(t, {"retryFailed"}, {"release"}, tasks[t].step)
  BY <1>0, <1>41, GotoMoves DEF RetryFailed, At, Goes, Moves
<1> QED BY <1>1, <1>2, <1>3, <1>4, <1>5, <1>6, <1>7, <1>8, <1>9, <1>10, <1>11, <1>12, <1>13, <1>14, <1>15, <1>16, <1>17, <1>18, <1>19, <1>20, <1>21, <1>22, <1>23, <1>24, <1>25, <1>26, <1>27, <1>28, <1>29, <1>30, <1>31, <1>32, <1>33, <1>34, <1>35, <1>36, <1>37, <1>38, <1>39, <1>40, <1>41

-----------------------------------------------------------------------------
(* Outputs *)

\* What a step of a task, its turn included, leaves alone, and that nothing brings a row back
\* that is not there.
Rest(t) ==
  /\ job'.mode = job.mode
  /\ job.status = "deleted" => job'.status = "deleted"
  /\ job'.status = "none" => job.status = "none"
  /\ claims' = claims /\ reqs' = reqs /\ crashes' = crashes
  /\ \A u \in Tasks \ {t} : tasks'[u] = tasks[u]

\* Every step of a task does.
LEMMA RestStays ==
  ASSUME TypeOK, NEW t \in Tasks, TaskStep(t)
  PROVE  Rest(t)
<1>0. job \in JobType /\ tasks \in [Tasks -> TaskType]
  BY DEF TypeOK, JobType
<1>1. ASSUME TryBegin(t) \/ SkipDuplicate(t) \/ EndExclusive(t) PROVE Rest(t)
  BY <1>0, <1>1 DEF TryBegin, SkipDuplicate, EndExclusive, Goto, Rest, counters
<1>2. ASSUME Gone(t) PROVE Rest(t)
  BY <1>0, <1>2 DEF Gone, Rest, JobType, At, Goto, Passes, ClipFails, counters
<1>3. ASSUME Load(t) PROVE Rest(t)
  BY <1>0, <1>3 DEF Load, Rest, JobType, At, Goto, Passes, ClipFails, counters
<1>4. ASSUME ResetStepsFrom(t) PROVE Rest(t)
  BY <1>0, <1>4 DEF ResetStepsFrom, Rest, JobType, At, Goto, Passes, ClipFails, counters
<1>5. ASSUME FinalizeCancelled(t) PROVE Rest(t)
  BY <1>0, <1>5 DEF FinalizeCancelled, Rest, JobType, At, Goto, Passes, ClipFails, counters
<1>6. ASSUME StopStep(t) PROVE Rest(t)
  BY <1>0, <1>6 DEF StopStep, Rest, JobType, At, Goto, Passes, ClipFails, counters
<1>7. ASSUME StepFailed(t) PROVE Rest(t)
  BY <1>0, <1>7 DEF StepFailed, Rest, JobType, At, Goto, Passes, ClipFails, counters
<1>8. ASSUME PipelineError(t) PROVE Rest(t)
  BY <1>0, <1>8 DEF PipelineError, Rest, JobType, At, Goto, Passes, ClipFails, counters
<1>9. ASSUME Finish(t) PROVE Rest(t)
  BY <1>0, <1>9 DEF Finish, Rest, JobType, At, Goto, Passes, ClipFails, counters
<1>10. ASSUME Loaded(t) PROVE Rest(t)
  BY <1>0, <1>10 DEF Loaded, Rest, JobType, At, Goto, Passes, ClipFails, counters
<1>11. ASSUME SkipCompleted(t) PROVE Rest(t)
  BY <1>0, <1>11 DEF SkipCompleted, Rest, JobType, At, Goto, Passes, ClipFails, counters
<1>12. ASSUME EnterStep(t) PROVE Rest(t)
  BY <1>0, <1>12 DEF EnterStep, Rest, JobType, At, Goto, Passes, ClipFails, counters
<1>13. ASSUME CheckStep(t) PROVE Rest(t)
  BY <1>0, <1>13 DEF CheckStep, Rest, JobType, At, Goto, Passes, ClipFails, counters
<1>14. ASSUME StartStep(t) PROVE Rest(t)
  BY <1>0, <1>14 DEF StartStep, Rest, JobType, At, Goto, Passes, ClipFails, counters
<1>15. ASSUME StepDone(t) PROVE Rest(t)
  BY <1>0, <1>15 DEF StepDone, Rest, JobType, At, Goto, Passes, ClipFails, counters
<1>16. ASSUME PlanScenes(t) PROVE Rest(t)
  BY <1>0, <1>16 DEF PlanScenes, Rest, JobType, At, Goto, Passes, ClipFails, counters
<1>17. ASSUME StorePlan(t) PROVE Rest(t)
  BY <1>0, <1>17 DEF StorePlan, Rest, JobType, At, Goto, Passes, ClipFails, counters
<1>18. ASSUME NoScenes(t) PROVE Rest(t)
  BY <1>0, <1>18 DEF NoScenes, Rest, JobType, At, Goto, Passes, ClipFails, counters
<1>19. ASSUME ImageScene(t) PROVE Rest(t)
  BY <1>0, <1>19 DEF ImageScene, Rest, JobType, At, Goto, Passes, ClipFails, counters
<1>20. ASSUME FirstKeyframe(t) PROVE Rest(t)
  BY <1>0, <1>20 DEF FirstKeyframe, Rest, JobType, At, Goto, Passes, ClipFails, counters
<1>21. ASSUME SecondKeyframe(t) PROVE Rest(t)
  BY <1>0, <1>21 DEF SecondKeyframe, Rest, JobType, At, Goto, Passes, ClipFails, counters
<1>22. ASSUME KeyframesDone(t) PROVE Rest(t)
  BY <1>0, <1>22 DEF KeyframesDone, Rest, JobType, At, Goto, Passes, ClipFails, counters
<1>23. ASSUME ImagesDone(t) PROVE Rest(t)
  BY <1>0, <1>23 DEF ImagesDone, Rest, JobType, At, Goto, Passes, ClipFails, counters
<1>24. ASSUME PhotoStart(t) PROVE Rest(t)
  BY <1>0, <1>24 DEF PhotoStart, Rest, JobType, At, Goto, Passes, ClipFails, counters
<1>25. ASSUME PhotoDone(t) PROVE Rest(t)
  BY <1>0, <1>25 DEF PhotoDone, Rest, JobType, At, Goto, Passes, ClipFails, counters
<1>26. ASSUME VideoStart(t) PROVE Rest(t)
  BY <1>0, <1>26 DEF VideoStart, Rest, JobType, At, Goto, Passes, ClipFails, counters
<1>27. ASSUME NEW s \in Scenes, VideoReturned(t, s) PROVE Rest(t)
  BY <1>0, <1>27 DEF VideoReturned, Rest, JobType, At, Goto, Passes, ClipFails, counters
<1>28. ASSUME VideosReturned(t) PROVE Rest(t)
  BY <1>0, <1>28 DEF VideosReturned, Rest, JobType, At, Goto, Passes, ClipFails, counters
<1>29. ASSUME VideoApply(t) PROVE Rest(t)
  BY <1>0, <1>29 DEF VideoApply, Rest, JobType, At, Goto, Passes, ClipFails, counters
<1>30. ASSUME VideosDone(t) PROVE Rest(t)
  BY <1>0, <1>30 DEF VideosDone, Rest, JobType, At, Goto, Passes, ClipFails, counters
<1>31. ASSUME SeedanceClip(t) PROVE Rest(t)
  BY <1>0, <1>31 DEF SeedanceClip, Rest, JobType, At, Goto, Passes, ClipFails, counters
<1>32. ASSUME AiliveClip(t) PROVE Rest(t)
  BY <1>0, <1>32 DEF AiliveClip, Rest, JobType, At, Goto, Passes, ClipFails, counters
<1>33. ASSUME AssemblyStart(t) PROVE Rest(t)
  BY <1>0, <1>33 DEF AssemblyStart, Rest, JobType, At, Goto, Passes, ClipFails, counters
<1>34. ASSUME Concat(t) PROVE Rest(t)
  BY <1>0, <1>34 DEF Concat, Rest, JobType, At, Goto, Passes, ClipFails, counters
<1>35. ASSUME DistributionStart(t) PROVE Rest(t)
  BY <1>0, <1>35 DEF DistributionStart, Rest, JobType, At, Goto, Passes, ClipFails, counters
<1>36. ASSUME PushExport(t) PROVE Rest(t)
  BY <1>0, <1>36 DEF PushExport, Rest, JobType, At, Goto, Passes, ClipFails, counters
<1>37. ASSUME RetryReset(t) PROVE Rest(t)
  BY <1>0, <1>37 DEF RetryReset, Rest, JobType, At, Goto, Passes, ClipFails, counters
<1>38. ASSUME RetrySteps(t) PROVE Rest(t)
  BY <1>0, <1>38 DEF RetrySteps, Rest, JobType, At, Goto, Passes, ClipFails, counters
<1>39. ASSUME RetryMedia(t) PROVE Rest(t)
  BY <1>0, <1>39 DEF RetryMedia, Rest, JobType, At, Goto, Passes, ClipFails, counters
<1>40. ASSUME RetryFinish(t) PROVE Rest(t)
  BY <1>0, <1>40 DEF RetryFinish, Rest, JobType, At, Goto, Passes, ClipFails, counters
<1>41. ASSUME RetryDone(t) PROVE Rest(t)
  BY <1>0, <1>41 DEF RetryDone, Rest, JobType, At, Goto, Passes, ClipFails, counters
<1>42. ASSUME RetryFailed(t) PROVE Rest(t)
  BY <1>0, <1>42 DEF RetryFailed, Rest, JobType, At, Goto, Passes, ClipFails, counters
<1> QED BY <1>1, <1>2, <1>3, <1>4, <1>5, <1>6, <1>7, <1>8, <1>9, <1>10, <1>11, <1>12, <1>13, <1>14,
     <1>15, <1>16, <1>17, <1>18, <1>19, <1>20, <1>21, <1>22, <1>23, <1>24, <1>25, <1>26, <1>27,
     <1>28, <1>29, <1>30, <1>31, <1>32, <1>33, <1>34, <1>35, <1>36, <1>37, <1>38, <1>39, <1>40,
     <1>41, <1>42
     DEF TaskStep, Supervise, RunStep, MakeImages, MakeVideos, Deliver, RedoScene

\* The place of a task fits its step and the mode of the job.
PlacedAt(task, mode) ==
  /\ task.pc \in {"plan", "planned"} => task.step = SceneGeneration
  /\ task.pc \in {"image", "first", "second", "keyframes"} => task.step = ImageGeneration /\ mode = "scene_based"
  /\ task.pc \in {"photo", "photoCall"} => task.step = ImageGeneration /\ mode = "single_image"
  /\ task.pc \in {"video", "clips", "apply"} => task.step = VideoGeneration /\ mode = "scene_based"
  /\ task.pc = "clip" => task.step = VideoGeneration /\ mode \notin {"scene_based", "single_image"}
  /\ task.pc \in {"assembly", "concat"} => task.step = Assembly /\ (task.kind # "scene" => mode = "scene_based")
  /\ task.pc \in {"distribution", "push"} => task.step = Distribution
  /\ task.pc \in {"check", "start", "done", "stepFailed"} => task.step \in StepIds
  /\ task.pc = "reset" => task.kind = "from"

\* A step goes to a place that fits.
LEMMA PlacesFit ==
  ASSUME TypeOK, NEW t \in Tasks, Fits(t), PlacedAt(tasks[t], job.mode), TaskStep(t)
  PROVE  PlacedAt(tasks'[t], job.mode)
<1>0. tasks \in [Tasks -> TaskType] /\ tasks[t] \in TaskType
  BY DEF TypeOK
<1> DEFINE Fine == PlacedAt(tasks'[t], job.mode)
<1>1. ASSUME TryBegin(t) PROVE Fine
  <2>1. Moves(t, {CASE tasks[t].kind = "from" -> "reset" [] tasks[t].kind = "scene" -> "retryReset"
                    [] OTHER -> "load"}, tasks[t].step)
    BY <1>1, GotoMoves DEF TryBegin
  <2> QED BY <2>1 DEF Moves, PlacedAt
<1>2. ASSUME SkipDuplicate(t) \/ EndExclusive(t) PROVE Fine
  BY <1>0, <1>2 DEF SkipDuplicate, EndExclusive, Idle, PlacedAt
<1> USE DEF Goes, Moves, PlacedAt, Fits, TaskType, TaskPcs, JobChecks, StepChecks, Outside,
            SceneGeneration, ImageGeneration, VideoGeneration, Assembly, Distribution, StepIds
<1>3. ASSUME Gone(t) PROVE Fine
  <2>1. Goes(t, TaskPcs \ Outside, {"release"}, tasks[t].step)
    BY <1>3, ActionMoves
  <2> QED BY <1>0, <1>3, <2>1
<1>4. ASSUME Load(t) PROVE Fine
  <2>1. Goes(t, {"load"}, {"loaded", "release"}, tasks[t].step)
    BY <1>4, ActionMoves
  <2> QED BY <1>0, <1>4, <2>1
<1>5. ASSUME ResetStepsFrom(t) PROVE Fine
  <2>1. Goes(t, {"reset"}, {"load"}, tasks[t].step)
    BY <1>5, ActionMoves
  <2> QED BY <1>0, <1>5, <2>1
<1>6. ASSUME FinalizeCancelled(t) PROVE Fine
  <2>1. Goes(t, JobChecks, {"retryFailed", "release"}, tasks[t].step)
    BY <1>6, ActionMoves
  <2> QED BY <1>0, <1>6, <2>1
<1>7. ASSUME StopStep(t) PROVE Fine
  <2>1. Goes(t, StepChecks, {"error", "retryFailed", "release"}, tasks[t].step)
    BY <1>7, ActionMoves
  <2> QED BY <1>0, <1>7, <2>1
<1>8. ASSUME StepFailed(t) PROVE Fine
  <2>1. Goes(t, {"stepFailed"}, {"error"}, tasks[t].step)
    BY <1>8, ActionMoves
  <2> QED BY <1>0, <1>8, <2>1
<1>9. ASSUME PipelineError(t) PROVE Fine
  <2>1. Goes(t, {"error"}, {"release"}, tasks[t].step)
    BY <1>9, ActionMoves
  <2> QED BY <1>0, <1>9, <2>1
<1>10. ASSUME Finish(t) PROVE Fine
  <2>1. Goes(t, {"next"}, {"release", "error"}, tasks[t].step)
    BY <1>10, ActionMoves
  <2> QED BY <1>0, <1>10, <2>1
<1>11. ASSUME Loaded(t) PROVE Fine
  <2>1. Goes(t, {"loaded"}, {"next"}, 0)
    BY <1>11, ActionMoves
  <2> QED BY <1>0, <1>11, <2>1
<1>12. ASSUME SkipCompleted(t) PROVE Fine
  <2>1. Goes(t, {"next"}, {"next"}, tasks[t].step + 1)
    BY <1>12, ActionMoves
  <2> QED BY <1>0, <1>12, <2>1
<1>13. ASSUME EnterStep(t) PROVE Fine
  <2>1. Goes(t, {"next"}, {"check"}, tasks[t].step + 1)
    BY <1>13, ActionMoves
  <2> QED BY <1>0, <1>13, <2>1 DEF EnterStep
<1>14. ASSUME CheckStep(t) PROVE Fine
  <2>1. Goes(t, {"check"}, {"start"}, tasks[t].step)
    BY <1>14, ActionMoves
  <2> QED BY <1>0, <1>14, <2>1
<1>15. ASSUME StartStep(t) PROVE Fine
  <2>1. Goes(t, {"start"}, {Body(tasks[t].step, job.mode)}, tasks[t].step)
    BY <1>15, ActionMoves
  <2> QED BY <1>0, <1>15, <2>1 DEF Body
<1>16. ASSUME StepDone(t) PROVE Fine
  <2>1. Goes(t, {"done"}, {"next"}, tasks[t].step)
    BY <1>16, ActionMoves
  <2> QED BY <1>0, <1>16, <2>1
<1>17. ASSUME PlanScenes(t) PROVE Fine
  <2>1. Goes(t, {"plan"}, {"done", "planned", "stepFailed"}, tasks[t].step)
    BY <1>17, ActionMoves
  <2> QED BY <1>0, <1>17, <2>1
<1>18. ASSUME StorePlan(t) PROVE Fine
  <2>1. Goes(t, {"planned"}, {"done"}, tasks[t].step)
    BY <1>18, ActionMoves
  <2> QED BY <1>0, <1>18, <2>1
<1>19. ASSUME NoScenes(t) PROVE Fine
  <2>1. Goes(t, {"image", "photo", "video", "clip"}, {"stepFailed"}, tasks[t].step)
    BY <1>19, ActionMoves
  <2> QED BY <1>0, <1>19, <2>1
<1>20. ASSUME ImageScene(t) PROVE Fine
  <2>1. Goes(t, {"image"}, {"first"}, tasks[t].step)
    BY <1>20, ActionMoves
  <2> QED BY <1>0, <1>20, <2>1
<1>21. ASSUME FirstKeyframe(t) PROVE Fine
  <2>1. Goes(t, {"first"}, {"second"}, tasks[t].step)
    BY <1>21, ActionMoves
  <2> QED BY <1>0, <1>21, <2>1
<1>22. ASSUME SecondKeyframe(t) PROVE Fine
  <2>1. Goes(t, {"second"}, {"keyframes"}, tasks[t].step)
    BY <1>22, ActionMoves
  <2> QED BY <1>0, <1>22, <2>1
<1>23. ASSUME KeyframesDone(t) PROVE Fine
  <2>1. Goes(t, {"keyframes"}, {"image"}, tasks[t].step)
    BY <1>23, ActionMoves
  <2> QED BY <1>0, <1>23, <2>1
<1>24. ASSUME ImagesDone(t) PROVE Fine
  <2>1. Goes(t, {"image"}, {"done", "stepFailed"}, tasks[t].step)
    BY <1>24, ActionMoves
  <2> QED BY <1>0, <1>24, <2>1
<1>25. ASSUME PhotoStart(t) PROVE Fine
  <2>1. Goes(t, {"photo"}, {"photoCall"}, tasks[t].step)
    BY <1>25, ActionMoves
  <2> QED BY <1>0, <1>25, <2>1
<1>26. ASSUME PhotoDone(t) PROVE Fine
  <2>1. Goes(t, {"photoCall"}, {"done", "stepFailed"}, tasks[t].step)
    BY <1>26, ActionMoves
  <2> QED BY <1>0, <1>26, <2>1
<1>27. ASSUME VideoStart(t) PROVE Fine
  <2>1. Goes(t, {"video"}, {"clips"}, tasks[t].step)
    BY <1>27, ActionMoves
  <2> QED BY <1>0, <1>27, <2>1
<1>28. ASSUME NEW s \in Scenes, VideoReturned(t, s) PROVE Fine
  <2>1. Goes(t, {"clips"}, {"clips"}, tasks[t].step)
    BY <1>28, ActionMoves
  <2> QED BY <1>0, <1>28, <2>1
<1>29. ASSUME VideosReturned(t) PROVE Fine
  <2>1. Goes(t, {"clips"}, {"release", "apply"}, tasks[t].step)
    BY <1>29, ActionMoves
  <2> QED BY <1>0, <1>29, <2>1
<1>30. ASSUME VideoApply(t) PROVE Fine
  <2>1. Goes(t, {"apply"}, {"release", "apply"}, tasks[t].step)
    BY <1>30, ActionMoves
  <2> QED BY <1>0, <1>30, <2>1
<1>31. ASSUME VideosDone(t) PROVE Fine
  <2>1. Goes(t, {"apply"}, {"done", "stepFailed"}, tasks[t].step)
    BY <1>31, ActionMoves
  <2> QED BY <1>0, <1>31, <2>1
<1>32. ASSUME SeedanceClip(t) PROVE Fine
  <2>1. Goes(t, {"clip"}, {"done", "clip", "stepFailed"}, tasks[t].step)
    BY <1>32, ActionMoves
  <2> QED BY <1>0, <1>32, <2>1
<1>33. ASSUME AiliveClip(t) PROVE Fine
  <2>1. Goes(t, {"clip"}, {"done", "clip", "stepFailed"}, tasks[t].step)
    BY <1>33, ActionMoves
  <2> QED BY <1>0, <1>33, <2>1
<1>34. ASSUME AssemblyStart(t) PROVE Fine
  <2>1. Goes(t, {"assembly"}, {Raised(t), "done", "concat"}, tasks[t].step)
    BY <1>34, ActionMoves
  <2> QED BY <1>0, <1>34, <2>1 DEF Raised
<1>35. ASSUME Concat(t) PROVE Fine
  <2>1. Goes(t, {"concat"}, {"done"}, tasks[t].step)
    BY <1>35, ActionMoves
  <2> QED BY <1>0, <1>35, <2>1
<1>36. ASSUME DistributionStart(t) PROVE Fine
  <2>1. Goes(t, {"distribution"}, {"done", Raised(t), "push"}, tasks[t].step)
    BY <1>36, ActionMoves
  <2> QED BY <1>0, <1>36, <2>1 DEF Raised
<1>37. ASSUME PushExport(t) PROVE Fine
  <2>1. Goes(t, {"push"}, {"done"}, tasks[t].step)
    BY <1>37, ActionMoves
  <2> QED BY <1>0, <1>37, <2>1
<1>38. ASSUME RetryReset(t) PROVE Fine
  <2>1. Goes(t, {"retryReset"}, {"retrySteps", "release"}, tasks[t].step)
    BY <1>38, ActionMoves
  <2> QED BY <1>0, <1>38, <2>1
<1>39. ASSUME RetrySteps(t) PROVE Fine
  <2>1. Goes(t, {"retrySteps"}, {"retryMedia"}, tasks[t].step)
    BY <1>39, ActionMoves
  <2> QED BY <1>0, <1>39, <2>1
<1>40. ASSUME RetryMedia(t) PROVE Fine
  <2>1. Goes(t, {"retryMedia"}, {"retryFinish"}, tasks[t].step)
    BY <1>40, ActionMoves
  <2> QED BY <1>0, <1>40, <2>1
<1>41. ASSUME RetryFinish(t) PROVE Fine
  <2>1. Goes(t, {"retryFinish"}, {"assembly"}, Assembly)
    BY <1>41, ActionMoves
  <2> QED BY <1>0, <1>41, <2>1
<1>42. ASSUME RetryDone(t) PROVE Fine
  <2>1. Goes(t, {"done"}, {"distribution"}, Distribution) \/ Goes(t, {"done"}, {"release"}, tasks[t].step)
    BY <1>42, ActionMoves
  <2> QED BY <1>0, <1>42, <2>1
<1>43. ASSUME RetryFailed(t) PROVE Fine
  <2>1. Goes(t, {"retryFailed"}, {"release"}, tasks[t].step)
    BY <1>43, ActionMoves
  <2> QED BY <1>0, <1>43, <2>1
<1> QED BY <1>1, <1>2, <1>3, <1>4, <1>5, <1>6, <1>7, <1>8, <1>9, <1>10, <1>11, <1>12, <1>13, <1>14,
     <1>15, <1>16, <1>17, <1>18, <1>19, <1>20, <1>21, <1>22, <1>23, <1>24, <1>25, <1>26, <1>27,
     <1>28, <1>29, <1>30, <1>31, <1>32, <1>33, <1>34, <1>35, <1>36, <1>37, <1>38, <1>39, <1>40,
     <1>41, <1>42, <1>43
     DEF TaskStep, Supervise, RunStep, MakeImages, MakeVideos, Deliver, RedoScene

\* The step that makes the output of a job of the mode.
OutStep(mode) == CASE mode = "scene_based" -> Assembly
                   [] mode = "single_image" -> ImageGeneration
                   [] OTHER -> VideoGeneration

\* The task has done that step, or goes on behind it.
PastAt(task, mode) ==
  \/ task.pc = "next" /\ task.step >= OutStep(mode)
  \/ task.pc \in InStep \cup {"check", "start"} /\ task.step > OutStep(mode)
  \/ task.pc = "done" /\ task.step = OutStep(mode)

\* That step is skipped in no mode.
LEMMA OutStepRuns ==
  ASSUME NEW mode \in AllModes
  PROVE  OutStep(mode) \in 2..4 /\ Body(OutStep(mode), mode) # "done"
BY DEF AllModes, OutStep, Body, SceneGeneration, ImageGeneration, VideoGeneration, Assembly

\* What a step of a pipeline that is no retry does to the output: nothing is done, passed over or
\* completed on the way to the end of the job unless the output is there.
Delivers(t) ==
  LET out == OutStep(job.mode) IN
  /\ job.output = "ok" => job'.output = "ok"
  /\ steps'[out] = "completed" => steps[out] = "completed" \/ job'.output = "ok" \/ PastAt(tasks[t], job.mode)
  /\ PastAt(tasks'[t], job.mode) =>
       PastAt(tasks[t], job.mode) \/ steps[out] = "completed" \/ job'.output = "ok"
  /\ job'.status = "completed" =>
       job.status = "completed" \/ PastAt(tasks[t], job.mode) \/ job'.output = "ok"

\* Every step of one is of this kind.
LEMMA DeliverySteps ==
  ASSUME TypeOK, NEW t \in Tasks, Fits(t), PlacedAt(tasks[t], job.mode), tasks[t].kind \notin {"from", "scene"},
         TaskStep(t)
  PROVE  Delivers(t)
<1>0. /\ tasks \in [Tasks -> TaskType] /\ tasks[t] \in TaskType /\ tasks[t].step \in 0..5
      /\ job \in JobType /\ job.mode \in AllModes /\ steps \in [StepIds -> StepStatuses]
  BY DEF TypeOK, JobType, TaskType
<1>1. OutStep(job.mode) \in 2..4 /\ Body(OutStep(job.mode), job.mode) # "done"
  BY <1>0, OutStepRuns
<1>2. ASSUME TryBegin(t) PROVE Delivers(t)
  <2>1. tasks'[t].pc \in {"reset", "retryReset", "load"}
    BY <1>0, <1>2 DEF TryBegin, Goto, TaskType
  <2> QED BY <1>0, <1>2, <2>1 DEF TryBegin, Delivers, PastAt, InStep
<1>3. ASSUME SkipDuplicate(t) \/ EndExclusive(t) PROVE Delivers(t)
  BY <1>0, <1>3 DEF SkipDuplicate, EndExclusive, Idle, Delivers, PastAt, InStep
<1> USE DEF At, Passes, Goes, Moves, PlacedAt, Fits, PastAt, InStep, Delivers, JobType, TaskPcs,
            JobChecks, StepChecks, Outside, SceneGeneration, ImageGeneration, VideoGeneration, Assembly,
            Distribution, StepIds
<1>4. ASSUME Gone(t) PROVE Delivers(t)
  <2>1. Goes(t, TaskPcs \ Outside, {"release"}, tasks[t].step)
    BY <1>4, ActionMoves
  <2> QED BY <1>0, <1>1, <1>4, <2>1 DEF Gone
<1>5. ASSUME Load(t) PROVE Delivers(t)
  <2>1. Goes(t, {"load"}, {"loaded", "release"}, tasks[t].step)
    BY <1>5, ActionMoves
  <2> QED BY <1>0, <1>1, <1>5, <2>1 DEF Load
<1>6. ASSUME ResetStepsFrom(t) PROVE Delivers(t)
  <2>1. Goes(t, {"reset"}, {"load"}, tasks[t].step)
    BY <1>6, ActionMoves
  <2> QED BY <1>0, <1>1, <1>6, <2>1 DEF ResetStepsFrom
<1>7. ASSUME FinalizeCancelled(t) PROVE Delivers(t)
  <2>1. Goes(t, JobChecks, {"retryFailed", "release"}, tasks[t].step)
    BY <1>7, ActionMoves
  <2> QED BY <1>0, <1>1, <1>7, <2>1 DEF FinalizeCancelled
<1>8. ASSUME StopStep(t) PROVE Delivers(t)
  <2>1. Goes(t, StepChecks, {"error", "retryFailed", "release"}, tasks[t].step)
    BY <1>8, ActionMoves
  <2> QED BY <1>0, <1>1, <1>8, <2>1 DEF StopStep
<1>9. ASSUME StepFailed(t) PROVE Delivers(t)
  <2>1. Goes(t, {"stepFailed"}, {"error"}, tasks[t].step)
    BY <1>9, ActionMoves
  <2> QED BY <1>0, <1>1, <1>9, <2>1 DEF StepFailed
<1>10. ASSUME PipelineError(t) PROVE Delivers(t)
  <2>1. Goes(t, {"error"}, {"release"}, tasks[t].step)
    BY <1>10, ActionMoves
  <2> QED BY <1>0, <1>1, <1>10, <2>1 DEF PipelineError, MediaDelivered, MediaStep, OutStep
<1>11. ASSUME Finish(t) PROVE Delivers(t)
  <2>1. Goes(t, {"next"}, {"release", "error"}, tasks[t].step)
    BY <1>11, ActionMoves
  <2>2. PastAt(tasks[t], job.mode)
    BY <1>0, <1>1, <1>11 DEF Finish, At, PastAt, Distribution
  <2>3. steps' = steps /\ (job.output = "ok" => job'.output = "ok")
    BY <1>0, <1>11 DEF Finish, JobType
  <2> QED BY <2>2, <2>3 DEF Delivers
<1>12. ASSUME Loaded(t) PROVE Delivers(t)
  <2>1. Goes(t, {"loaded"}, {"next"}, 0)
    BY <1>12, ActionMoves
  <2> QED BY <1>0, <1>1, <1>12, <2>1 DEF Loaded
<1>13. ASSUME SkipCompleted(t) PROVE Delivers(t)
  <2>1. Goes(t, {"next"}, {"next"}, tasks[t].step + 1)
    BY <1>13, ActionMoves
  <2> QED BY <1>0, <1>1, <1>13, <2>1 DEF SkipCompleted
<1>14. ASSUME EnterStep(t) PROVE Delivers(t)
  <2>1. Goes(t, {"next"}, {"check"}, tasks[t].step + 1)
    BY <1>14, ActionMoves
  <2> QED BY <1>0, <1>1, <1>14, <2>1 DEF EnterStep
<1>15. ASSUME CheckStep(t) PROVE Delivers(t)
  <2>1. Goes(t, {"check"}, {"start"}, tasks[t].step)
    BY <1>15, ActionMoves
  <2> QED BY <1>0, <1>1, <1>15, <2>1 DEF CheckStep
<1>16. ASSUME StartStep(t) PROVE Delivers(t)
  <2>1. Goes(t, {"start"}, {Body(tasks[t].step, job.mode)}, tasks[t].step)
    BY <1>16, ActionMoves
  <2>2. Body(tasks[t].step, job.mode) # "next"
    BY <1>0 DEF Body
  <2>3. tasks[t].pc = "start" /\ Body(tasks[t].step, job.mode) = "done" => tasks[t].step # OutStep(job.mode)
    BY <1>1
  <2>4. job'.output = job.output /\ job'.status = job.status
    BY <1>0, <1>16 DEF StartStep, JobType
  <2>5. steps'[OutStep(job.mode)] = "completed" => steps[OutStep(job.mode)] = "completed"
    BY <1>0, <1>1, <1>16 DEF StartStep
  <2> QED BY <1>0, <1>1, <2>1, <2>2, <2>3, <2>4, <2>5
<1>17. ASSUME StepDone(t) PROVE Delivers(t)
  <2>1. Goes(t, {"done"}, {"next"}, tasks[t].step)
    BY <1>17, ActionMoves
  <2> QED BY <1>0, <1>1, <1>17, <2>1 DEF StepDone
<1>18. ASSUME PlanScenes(t) PROVE Delivers(t)
  <2>1. Goes(t, {"plan"}, {"done", "planned", "stepFailed"}, tasks[t].step)
    BY <1>18, ActionMoves
  <2> QED BY <1>0, <1>1, <1>18, <2>1 DEF PlanScenes
<1>19. ASSUME StorePlan(t) PROVE Delivers(t)
  <2>1. Goes(t, {"planned"}, {"done"}, tasks[t].step)
    BY <1>19, ActionMoves
  <2> QED BY <1>0, <1>1, <1>19, <2>1 DEF StorePlan
<1>20. ASSUME NoScenes(t) PROVE Delivers(t)
  <2>1. Goes(t, {"image", "photo", "video", "clip"}, {"stepFailed"}, tasks[t].step)
    BY <1>20, ActionMoves
  <2> QED BY <1>0, <1>1, <1>20, <2>1 DEF NoScenes
<1>21. ASSUME ImageScene(t) PROVE Delivers(t)
  <2>1. Goes(t, {"image"}, {"first"}, tasks[t].step)
    BY <1>21, ActionMoves
  <2> QED BY <1>0, <1>1, <1>21, <2>1 DEF ImageScene
<1>22. ASSUME FirstKeyframe(t) PROVE Delivers(t)
  <2>1. Goes(t, {"first"}, {"second"}, tasks[t].step)
    BY <1>22, ActionMoves
  <2> QED BY <1>0, <1>1, <1>22, <2>1 DEF FirstKeyframe
<1>23. ASSUME SecondKeyframe(t) PROVE Delivers(t)
  <2>1. Goes(t, {"second"}, {"keyframes"}, tasks[t].step)
    BY <1>23, ActionMoves
  <2> QED BY <1>0, <1>1, <1>23, <2>1 DEF SecondKeyframe
<1>24. ASSUME KeyframesDone(t) PROVE Delivers(t)
  <2>1. Goes(t, {"keyframes"}, {"image"}, tasks[t].step)
    BY <1>24, ActionMoves
  <2> QED BY <1>0, <1>1, <1>24, <2>1 DEF KeyframesDone
<1>25. ASSUME ImagesDone(t) PROVE Delivers(t)
  <2>1. Goes(t, {"image"}, {"done", "stepFailed"}, tasks[t].step)
    BY <1>25, ActionMoves
  <2> QED BY <1>0, <1>1, <1>25, <2>1 DEF ImagesDone, OutStep
<1>26. ASSUME PhotoStart(t) PROVE Delivers(t)
  <2>1. Goes(t, {"photo"}, {"photoCall"}, tasks[t].step)
    BY <1>26, ActionMoves
  <2> QED BY <1>0, <1>1, <1>26, <2>1 DEF PhotoStart
<1>27. ASSUME PhotoDone(t) PROVE Delivers(t)
  <2>1. Goes(t, {"photoCall"}, {"done", "stepFailed"}, tasks[t].step)
    BY <1>27, ActionMoves
  <2>2. CASE job'.output = "ok"
    BY <2>2 DEF Delivers
  <2>3. CASE job'.output # "ok"
    <3>1. job' = job /\ steps' = steps /\ tasks'[t].pc \in {"stepFailed"}
      BY <1>0, <1>27, <2>1, <2>3 DEF PhotoDone, JobType, Goes, Moves, Goto, TaskType
    <3>2. tasks'[t].step = ImageGeneration /\ OutStep(job.mode) = ImageGeneration
      BY <1>0, <2>1 DEF Goes, Moves, PlacedAt, OutStep, AllModes
    <3> QED BY <1>0, <1>1, <3>1, <3>2 DEF Delivers, PastAt, InStep
  <2> QED BY <2>2, <2>3
<1>28. ASSUME VideoStart(t) PROVE Delivers(t)
  <2>1. Goes(t, {"video"}, {"clips"}, tasks[t].step)
    BY <1>28, ActionMoves
  <2> QED BY <1>0, <1>1, <1>28, <2>1 DEF VideoStart
<1>29. ASSUME NEW s \in Scenes, VideoReturned(t, s) PROVE Delivers(t)
  <2>1. Goes(t, {"clips"}, {"clips"}, tasks[t].step)
    BY <1>29, ActionMoves
  <2> QED BY <1>0, <1>1, <1>29, <2>1 DEF VideoReturned
<1>30. ASSUME VideosReturned(t) PROVE Delivers(t)
  <2>1. Goes(t, {"clips"}, {"release", "apply"}, tasks[t].step)
    BY <1>30, ActionMoves
  <2> QED BY <1>0, <1>1, <1>30, <2>1 DEF VideosReturned
<1>31. ASSUME VideoApply(t) PROVE Delivers(t)
  <2>1. Goes(t, {"apply"}, {"release", "apply"}, tasks[t].step)
    BY <1>31, ActionMoves
  <2>2. tasks'[t].step = VideoGeneration /\ OutStep(job.mode) = Assembly
    BY <1>0, <2>1 DEF Goes, Moves, PlacedAt, OutStep
  <2>3. job'.output = job.output /\ job'.status \in {job.status, "cancelled"}
    BY <1>0, <1>31 DEF VideoApply, JobType
  <2>4. steps'[Assembly] = steps[Assembly]
    BY <1>0, <1>31 DEF VideoApply, Assembly, VideoGeneration, StepIds
  <2> QED BY <2>1, <2>2, <2>3, <2>4
<1>32. ASSUME VideosDone(t) PROVE Delivers(t)
  <2>1. Goes(t, {"apply"}, {"done", "stepFailed"}, tasks[t].step)
    BY <1>32, ActionMoves
  <2> QED BY <1>0, <1>1, <1>32, <2>1 DEF VideosDone, OutStep
<1>33. ASSUME SeedanceClip(t) PROVE Delivers(t)
  <2>1. Goes(t, {"clip"}, {"done", "clip", "stepFailed"}, tasks[t].step)
    BY <1>33, ActionMoves
  <2>2. CASE job'.output = "ok"
    BY <2>2 DEF Delivers
  <2>3. CASE job'.output # "ok"
    <3>1. job' = job /\ steps' = steps /\ tasks'[t].pc \in {"clip", "stepFailed"}
      BY <1>0, <1>33, <2>1, <2>3 DEF SeedanceClip, JobType, Goes, Moves, Goto, TaskType, ClipFails
    <3>2. tasks'[t].step = VideoGeneration /\ OutStep(job.mode) = VideoGeneration
      BY <1>0, <2>1 DEF Goes, Moves, PlacedAt, OutStep, AllModes
    <3> QED BY <1>0, <1>1, <3>1, <3>2 DEF Delivers, PastAt, InStep
  <2> QED BY <2>2, <2>3
<1>34. ASSUME AiliveClip(t) PROVE Delivers(t)
  <2>1. Goes(t, {"clip"}, {"done", "clip", "stepFailed"}, tasks[t].step)
    BY <1>34, ActionMoves
  <2>2. CASE job'.output = "ok"
    BY <2>2 DEF Delivers
  <2>3. CASE job'.output # "ok"
    <3>1. job' = job /\ steps' = steps /\ tasks'[t].pc \in {"clip", "stepFailed"}
      BY <1>0, <1>34, <2>1, <2>3 DEF AiliveClip, JobType, Goes, Moves, Goto, TaskType, ClipFails
    <3>2. tasks'[t].step = VideoGeneration /\ OutStep(job.mode) = VideoGeneration
      BY <1>0, <2>1 DEF Goes, Moves, PlacedAt, OutStep, AllModes
    <3> QED BY <1>0, <1>1, <3>1, <3>2 DEF Delivers, PastAt, InStep
  <2> QED BY <2>2, <2>3
<1>35. ASSUME AssemblyStart(t) PROVE Delivers(t)
  <2>1. Goes(t, {"assembly"}, {Raised(t), "done", "concat"}, tasks[t].step)
    BY <1>35, ActionMoves
  <2>2. CASE job'.output = "ok"
    BY <2>2 DEF Delivers
  <2>3. CASE job'.output # "ok"
    <3>1. job' = job /\ steps' = steps /\ tasks'[t].pc \in {"concat", "stepFailed"}
      <4>1. job' = job /\ steps' = steps
        BY <1>0, <1>35, <2>3 DEF AssemblyStart, JobType
      <4>2. \E pc \in {"concat", "stepFailed"} : tasks' = [tasks EXCEPT ![t] = Checked(t, pc)]
        BY <1>0, <1>35, <2>3 DEF AssemblyStart, Raised, JobType
      <4>3. tasks'[t].pc \in {"concat", "stepFailed"}
        BY <4>2, CheckedMoves DEF Moves
      <4> QED BY <4>1, <4>3
    <3>2. tasks'[t].step = Assembly /\ OutStep(job.mode) = Assembly
      BY <1>0, <2>1 DEF Goes, Moves, PlacedAt, OutStep, AllModes
    <3> QED BY <1>0, <1>1, <3>1, <3>2 DEF Delivers, PastAt, InStep
  <2> QED BY <2>2, <2>3
<1>36. ASSUME Concat(t) PROVE Delivers(t)
  <2>1. Goes(t, {"concat"}, {"done"}, tasks[t].step)
    BY <1>36, ActionMoves
  <2> QED BY <1>0, <1>1, <1>36, <2>1 DEF Concat
<1>37. ASSUME DistributionStart(t) PROVE Delivers(t)
  <2>1. Goes(t, {"distribution"}, {"done", Raised(t), "push"}, tasks[t].step)
    BY <1>37, ActionMoves
  <2> QED BY <1>0, <1>1, <1>37, <2>1 DEF DistributionStart
<1>38. ASSUME PushExport(t) PROVE Delivers(t)
  <2>1. Goes(t, {"push"}, {"done"}, tasks[t].step)
    BY <1>38, ActionMoves
  <2> QED BY <1>0, <1>1, <1>38, <2>1 DEF PushExport
<1>39. ASSUME RetryReset(t) PROVE Delivers(t)
  <2>1. Goes(t, {"retryReset"}, {"retrySteps", "release"}, tasks[t].step)
    BY <1>39, ActionMoves
  <2> QED BY <1>0, <1>1, <1>39, <2>1 DEF RetryReset
<1>40. ASSUME RetrySteps(t) PROVE Delivers(t)
  <2>1. Goes(t, {"retrySteps"}, {"retryMedia"}, tasks[t].step)
    BY <1>40, ActionMoves
  <2> QED BY <1>0, <1>1, <1>40, <2>1 DEF RetrySteps
<1>41. ASSUME RetryMedia(t) PROVE Delivers(t)
  <2>1. Goes(t, {"retryMedia"}, {"retryFinish"}, tasks[t].step)
    BY <1>41, ActionMoves
  <2> QED BY <1>0, <1>1, <1>41, <2>1 DEF RetryMedia
<1>42. ASSUME RetryFinish(t) PROVE Delivers(t)
  <2>1. Goes(t, {"retryFinish"}, {"assembly"}, Assembly)
    BY <1>42, ActionMoves
  <2> QED BY <1>0, <1>1, <1>42, <2>1 DEF RetryFinish
<1>43. ASSUME RetryDone(t) PROVE Delivers(t)
  <2>1. Goes(t, {"done"}, {"distribution"}, Distribution) \/ Goes(t, {"done"}, {"release"}, tasks[t].step)
    BY <1>43, ActionMoves
  <2> QED BY <1>0, <1>1, <1>43, <2>1 DEF RetryDone
<1>44. ASSUME RetryFailed(t) PROVE Delivers(t)
  <2>1. Goes(t, {"retryFailed"}, {"release"}, tasks[t].step)
    BY <1>44, ActionMoves
  <2> QED BY <1>0, <1>1, <1>44, <2>1 DEF RetryFailed
<1> QED BY <1>2, <1>3, <1>4, <1>5, <1>6, <1>7, <1>8, <1>9, <1>10, <1>11, <1>12, <1>13, <1>14, <1>15,
     <1>16, <1>17, <1>18, <1>19, <1>20, <1>21, <1>22, <1>23, <1>24, <1>25, <1>26, <1>27, <1>28,
     <1>29, <1>30, <1>31, <1>32, <1>33, <1>34, <1>35, <1>36, <1>37, <1>38, <1>39, <1>40, <1>41,
     <1>42, <1>43, <1>44
     DEF TaskStep, Supervise, RunStep, MakeImages, MakeVideos, Deliver, RedoScene

\* A task that is there has been started, and keeps its kind until it is gone.
LEMMA KindStays ==
  ASSUME TypeOK, NEW t \in Tasks, TaskStep(t)
  PROVE  tasks[t].pc # "idle" /\ tasks'[t].kind \in {tasks[t].kind, "none"}
<1>0. tasks \in [Tasks -> TaskType]
  BY DEF TypeOK
<1>1. ASSUME NEW from, NEW to, NEW step, Goes(t, from, to, step), "idle" \notin from
      PROVE  tasks[t].pc # "idle" /\ tasks'[t].kind = tasks[t].kind
  BY <1>1 DEF Goes, Moves
<1>2. ASSUME TryBegin(t) PROVE tasks[t].pc # "idle" /\ tasks'[t].kind = tasks[t].kind
  BY <1>0, <1>2 DEF TryBegin, Goto, TaskType
<1>3. ASSUME SkipDuplicate(t) \/ EndExclusive(t) PROVE tasks[t].pc # "idle" /\ tasks'[t].kind = "none"
  BY <1>0, <1>3 DEF SkipDuplicate, EndExclusive, Idle
<1>4. "idle" \notin TaskPcs \ Outside /\ "idle" \notin JobChecks /\ "idle" \notin StepChecks
  BY DEF Outside, JobChecks, StepChecks
<1> QED
  BY <1>1, <1>2, <1>3, <1>4, ActionMoves
    DEF TaskStep, Supervise, RunStep, MakeImages, MakeVideos, Deliver, RedoScene

\* Places fit, retries are counted, nothing happens before the job is created, and requests are among
\* those that users send.
Placed == \A t \in Tasks : PlacedAt(tasks[t], job.mode)
Unclaimed == claims = 0 => \A t \in Tasks : tasks[t].kind \in {"none", "pipeline"}
Fresh ==
  job.status = "none" =>
    /\ \A t \in Tasks : tasks[t].pc = "idle"
    /\ reqs = {}
    /\ \A k \in StepIds : steps[k] = "pending"
Allowed == \A r \in reqs : r.op \in Operations

\* Whoever is past the step that makes the output has it.
Delivered ==
  claims = 0 =>
    /\ steps[OutStep(job.mode)] = "completed" => job.output = "ok"
    /\ \A t \in Tasks : PastAt(tasks[t], job.mode) => job.output = "ok"
    /\ job.status = "completed" => job.output = "ok"

DeliveryInvariant == Placed /\ Unclaimed /\ Fresh /\ Allowed /\ Delivered

\* A job starts with nothing in place.
LEMMA InitDelivery == Init => DeliveryInvariant
<1> SUFFICES ASSUME Init PROVE DeliveryInvariant
  OBVIOUS
<1>1. \A t \in Tasks : tasks[t].pc = "idle" /\ tasks[t].kind = "none"
  BY DEF Init, Idle
<1>2. OutStep(job.mode) \in StepIds
  BY OutStepRuns DEF Init, AllModes, StepIds
<1> QED
  BY <1>1, <1>2 DEF Init, DeliveryInvariant, Placed, PlacedAt, Unclaimed, Fresh, Allowed, Delivered, PastAt,
    InStep

\* What a request does to a job that exists: without a retry, the output stays and nothing is
\* completed without it.
Serves ==
  /\ job.status # "none" /\ job'.status # "none" /\ job'.mode = job.mode
  /\ Allowed'
  /\ \A t \in Tasks : \/ tasks'[t] = tasks[t]
                      \/ tasks'[t].pc = "queued" /\ (claims' = 0 => tasks'[t].kind = "pipeline")
  /\ claims' = 0 =>
       /\ claims = 0
       /\ job.output = "ok" => job'.output = "ok"
       /\ \/ job'.output = "ok"
          \/ steps' = steps /\ (job'.status = "completed" => job.status = "completed")

\* Every request does.
LEMMA RequestsServe ==
  ASSUME TypeOK, Fresh, Allowed, RequestStep \/ RequestEnd, \A m \in Modes : ~CreateJob(m)
  PROVE  Serves
<1>0. /\ job \in JobType /\ tasks \in [Tasks -> TaskType] /\ claims \in Nat
      /\ \A r \in reqs : job.status # "none"
  BY DEF TypeOK, JobType, Fresh
<1>1. \A kind, arg : Scheduled(kind, arg).pc = "queued" /\ Scheduled(kind, arg).kind = kind
  BY DEF Scheduled, Idle
<1>2. ASSUME NEW op \in Operations, NEW k \in StepIds, ReadForRequest(op, k) PROVE Serves
  <2>1. job.status # "none"
    BY <1>2 DEF ReadForRequest, Admits
  <2> QED BY <1>2, <2>1 DEF ReadForRequest, Serves, Allowed
<1>3. ASSUME CancelJob PROVE Serves
  BY <1>0, <1>3 DEF CancelJob, Serves, Allowed, JobType, counters
<1>4. ASSUME NEW t \in Tasks, NEW kind, NEW arg, Claim(t, kind, arg) PROVE Serves
  BY <1>0, <1>1, <1>4 DEF Claim, Serves, Allowed, JobType
<1>5. ASSUME NEW r \in reqs, MarkReady(r) \/ DeleteJob(r) \/ CancelStep(r) \/ RequestFails(r) PROVE Serves
  BY <1>0, <1>5
     DEF MarkReady, DeleteJob, CancelStep, RequestFails, Writes, Serves, Allowed, JobType, counters
<1>6. ASSUME NEW r \in reqs, Simulate(r) PROVE Serves
  BY <1>0, <1>6 DEF Simulate, Writes, Serves, Allowed, JobType, counters
<1>7. ASSUME NEW r \in reqs, NEW t \in Tasks, Launch(r, t) PROVE Serves
  BY <1>0, <1>1, <1>7 DEF Launch, Writes, Serves, Allowed, JobType, counters
<1> QED
  BY <1>2, <1>3, <1>4, <1>5, <1>6, <1>7 DEF RequestStep, RequestEnd, RetryStep, RetryScene

\* Each step of the specification keeps the whole of it.
LEMMA DeliveryStep ==
  ASSUME JobInvariant, DeliveryInvariant, [Next]_vars
  PROVE  DeliveryInvariant'
<1>0. /\ TypeOK /\ job \in JobType /\ job.mode \in AllModes /\ tasks \in [Tasks -> TaskType]
      /\ steps \in [StepIds -> StepStatuses] /\ claims \in Nat
      /\ \A t \in Tasks : Fits(t)
  BY DEF JobInvariant, TypeOK, JobType, PipelinesFit
<1>1. /\ Placed /\ Unclaimed /\ Fresh /\ Allowed /\ Delivered
      /\ OutStep(job.mode) \in StepIds \ {SceneGeneration}
  BY <1>0, OutStepRuns DEF DeliveryInvariant, StepIds, SceneGeneration
<1>2. ASSUME NEW m \in Modes, CreateJob(m) PROVE DeliveryInvariant'
  <2>1. \A t \in Tasks : tasks'[t].pc = "idle" /\ tasks'[t] = tasks[t]
    BY <1>1, <1>2 DEF CreateJob, Fresh
  <2>2. job'.status = "draft" /\ job'.mode = m /\ reqs' = reqs /\ claims' = claims
    BY <1>2 DEF CreateJob, counters
  <2>3. OutStep(m) \in StepIds \ {SceneGeneration}
    BY ModesAssumption, OutStepRuns DEF StepIds, SceneGeneration
  <2>4. steps'[OutStep(m)] = "pending"
    BY <1>0, <1>1, <1>2, <2>3 DEF CreateJob, Fresh
  <2> QED
    BY <1>1, <2>1, <2>2, <2>4
      DEF DeliveryInvariant, Placed, PlacedAt, Unclaimed, Fresh, Allowed, Delivered, PastAt, InStep
<1>3. ASSUME Serves PROVE DeliveryInvariant'
  <2>1. Placed'
    BY <1>1, <1>3 DEF Serves, Placed, PlacedAt
  <2>2. Unclaimed' /\ Fresh' /\ Allowed'
    BY <1>1, <1>3 DEF Serves, Unclaimed, Fresh
  <2>3. \A t \in Tasks : PastAt(tasks'[t], job.mode) => PastAt(tasks[t], job.mode)
    BY <1>3 DEF Serves, PastAt, InStep
  <2>4. Delivered'
    BY <1>1, <1>3, <2>3 DEF Serves, Delivered
  <2> QED BY <2>1, <2>2, <2>4 DEF DeliveryInvariant
<1>4. ASSUME NEW t \in Tasks, TaskStep(t) PROVE DeliveryInvariant'
  <2>1. Rest(t)
    BY <1>0, <1>4, RestStays
  <2>2. tasks[t].pc # "idle" /\ tasks'[t].kind \in {tasks[t].kind, "none"}
    BY <1>0, <1>4, KindStays
  <2>3. PlacedAt(tasks'[t], job.mode)
    BY <1>0, <1>1, <1>4, PlacesFit DEF Placed
  <2>4. Placed'
    BY <1>1, <2>1, <2>3 DEF Rest, Placed
  <2>5. Unclaimed' /\ Fresh' /\ Allowed'
    BY <1>1, <2>1, <2>2 DEF Rest, Unclaimed, Fresh, Allowed
  <2>6. ASSUME claims = 0 PROVE Delivers(t)
    BY <1>0, <1>1, <1>4, <2>6, DeliverySteps DEF Unclaimed, Placed
  <2>7. Delivered'
    <3> SUFFICES ASSUME claims = 0 PROVE Delivered'
      BY <2>1 DEF Rest, Delivered
    <3>1. Delivers(t)
      BY <2>6
    <3>2. steps[OutStep(job.mode)] = "completed" \/ PastAt(tasks[t], job.mode) \/ job.status = "completed"
            => job'.output = "ok"
      BY <1>1, <3>1 DEF Delivered, Delivers
    <3> QED BY <1>1, <2>1, <3>1, <3>2 DEF Rest, Delivers, Delivered
  <2> QED BY <2>4, <2>5, <2>7 DEF DeliveryInvariant
<1>5. ASSUME NEW r \in Replicas, Crash(r) PROVE DeliveryInvariant'
  <2>1. \A t \in Tasks : tasks'[t] = tasks[t] \/ tasks'[t] = Idle
    BY <1>5 DEF Crash
  <2>2. job' = job /\ steps' = steps /\ claims' = claims /\ reqs' \subseteq reqs
    BY <1>5 DEF Crash
  <2>3. ~PastAt(Idle, job.mode) /\ PlacedAt(Idle, job.mode) /\ Idle.pc = "idle" /\ Idle.kind = "none"
    BY DEF Idle, PastAt, PlacedAt, InStep
  <2>4. Placed' /\ Unclaimed' /\ Fresh' /\ Allowed'
    BY <1>1, <2>1, <2>2, <2>3 DEF Placed, Unclaimed, Fresh, Allowed
  <2>5. Delivered'
    BY <1>1, <2>1, <2>2, <2>3 DEF Delivered
  <2> QED BY <2>4, <2>5 DEF DeliveryInvariant
<1>6. CASE UNCHANGED vars
  BY <1>1, <1>6 DEF vars, DeliveryInvariant, Placed, Unclaimed, Fresh, Allowed, Delivered
<1> QED BY <1>0, <1>1, <1>2, <1>3, <1>4, <1>5, <1>6, RequestsServe DEF Next

\* So what DeliveryInvariant says holds throughout.
LEMMA DeliveryKept == Spec => []DeliveryInvariant
BY JobInvariance, InitDelivery, DeliveryStep, PTL DEF Spec

\* A job that completes without a retry has its output, for any number of processes, launches,
\* cancellations and restarts: no step is passed over, skipped or called done on the way to the end
\* unless the one that makes the output was done (_execute_pipeline, _step_assembly).
THEOREM OutputDelivered == Spec => []LaunchDelivers
<1>1. DeliveryInvariant => LaunchDelivers
  BY DEF DeliveryInvariant, Delivered, LaunchDelivers
<1> QED BY <1>1, DeliveryKept, PTL

\* No ERROR string counts as an image of the scene.
Clean(scene) == scene.status \in {"completed", "partial"} => "error" \notin {scene.start, scene.end}

\* The scenes that are made, and those a step marks.
LEMMA CleanEdits ==
  ASSUME NEW scene \in SceneType
  PROVE  /\ Clean(NoScene) /\ Clean(FreshScene)
         /\ \A status \in {"running", "failed"} : Clean([scene EXCEPT !.status = status])
         /\ Clean(scene) => Clean([scene EXCEPT !.video = "ok"])
BY DEF Clean, NoScene, FreshScene, SceneType

\* The scenes of a plan have no images yet.
LEMMA CleanPlan ==
  ASSUME NEW mode
  PROVE  \A s \in Scenes : Clean(ScenesOf(mode)[s])
BY CleanEdits, RecordTypes DEF ScenesOf

\* No step of a storyboard's pipeline, unless it is a retry, counts an ERROR string as an image.
LEMMA CleanSteps ==
  ASSUME TypeOK, NEW t \in Tasks, Fits(t), PlacedAt(tasks[t], job.mode), tasks[t].kind \notin {"from", "scene"},
         job.mode = "scene_based", \A s \in Scenes : Clean(scenes[s]), TaskStep(t)
  PROVE  \A s \in Scenes : Clean(scenes'[s])
<1>0. scenes \in [Scenes -> SceneType] /\ Scenes \subseteq Nat
  BY DEF TypeOK, SceneType, Scenes
<1> DEFINE AllClean == \A s \in Scenes : Clean(scenes'[s])
<1>1. ASSUME scenes' = scenes PROVE AllClean
  BY <1>1
<1>2. ASSUME NEW k \in Scenes, NEW scene, Clean(scene), scenes' = [scenes EXCEPT ![k] = scene] PROVE AllClean
  BY <1>0, <1>2
<1>3. ASSUME TryBegin(t) \/ SkipDuplicate(t) \/ EndExclusive(t) PROVE AllClean
  BY <1>1, <1>3 DEF TryBegin, SkipDuplicate, EndExclusive
<1>4. ASSUME ResetStepsFrom(t) PROVE AllClean
  BY <1>4 DEF ResetStepsFrom, At, Fits, PlacedAt
<1>5. ASSUME StorePlan(t) PROVE AllClean
  BY <1>5, CleanPlan DEF StorePlan
<1>6. ASSUME ImageScene(t) PROVE AllClean
  <2>1. tasks[t].cur \in Scenes
    BY <1>6 DEF ImageScene, Live
  <2>2. scenes' = [scenes EXCEPT ![tasks[t].cur] = [scenes[tasks[t].cur] EXCEPT !.status = "running"]]
    BY <1>0, <1>6, <2>1 DEF ImageScene
  <2> QED BY <1>0, <1>2, <2>1, <2>2, CleanEdits
<1>7. ASSUME KeyframesDone(t) PROVE AllClean
  <2> DEFINE s == tasks[t].cur
  <2>1. CASE s \in Scenes
    <3>1. PICK a, b \in Urls :
            scenes' = [scenes EXCEPT ![s] =
              [scenes[s] EXCEPT !.start = a, !.end = b,
                        !.status = IF a = "ok" /\ b = "ok" THEN "completed"
                                   ELSE IF "error" \notin {a, b} /\ "ok" \in {a, b} THEN "partial"
                                   ELSE "failed"]]
      BY <1>0, <1>7, <2>1 DEF KeyframesDone
    <3>2. Clean([scenes[s] EXCEPT !.start = a, !.end = b,
                        !.status = IF a = "ok" /\ b = "ok" THEN "completed"
                                   ELSE IF "error" \notin {a, b} /\ "ok" \in {a, b} THEN "partial"
                                   ELSE "failed"])
      BY <1>0, <2>1 DEF SceneType, Clean
    <3> QED BY <1>2, <2>1, <3>1, <3>2
  <2>2. CASE s \notin Scenes
    BY <1>0, <1>7, <2>2 DEF KeyframesDone
  <2> QED BY <2>1, <2>2
<1>8. ASSUME PhotoStart(t) PROVE AllClean
  BY <1>8 DEF PhotoStart, At, Passes, PlacedAt
<1>9. ASSUME PhotoDone(t) PROVE AllClean
  BY <1>9 DEF PhotoDone, At, Passes, PlacedAt
<1>10. ASSUME VideoApply(t) PROVE AllClean
  <2> DEFINE s == tasks[t].cur
  <2>1. s \in Scenes
    BY <1>10 DEF VideoApply, Live
  <2>2. \/ scenes' = scenes
        \/ scenes' = [scenes EXCEPT ![s] = [scenes[s] EXCEPT !.video = "ok"]]
        \/ scenes' = [scenes EXCEPT ![s] = [scenes[s] EXCEPT !.status = "failed"]]
    BY <1>0, <1>10, <2>1 DEF VideoApply
  <2> QED BY <1>0, <1>1, <1>2, <2>1, <2>2, CleanEdits
<1>11. ASSUME AiliveClip(t) PROVE AllClean
  BY <1>11 DEF AiliveClip
<1>12. ASSUME AssemblyStart(t) PROVE AllClean
  <2>1. \A s \in Scenes : scenes'[s] = scenes[s] \/ scenes'[s] = [scenes[s] EXCEPT !.status = "failed"]
    BY <1>12 DEF AssemblyStart
  <2> QED BY <1>0, <2>1, CleanEdits
<1>13. ASSUME RetryReset(t) PROVE AllClean
  BY <1>13 DEF RetryReset, At, Fits, PlacedAt
<1>14. ASSUME RetryMedia(t) PROVE AllClean
  BY <1>14 DEF RetryMedia, At, Fits, PlacedAt
<1>15. ASSUME Gone(t) PROVE AllClean
  BY <1>1, <1>15 DEF Gone
<1>16. ASSUME Load(t) PROVE AllClean
  BY <1>1, <1>16 DEF Load
<1>17. ASSUME FinalizeCancelled(t) PROVE AllClean
  BY <1>1, <1>17 DEF FinalizeCancelled
<1>18. ASSUME StopStep(t) PROVE AllClean
  BY <1>1, <1>18 DEF StopStep
<1>19. ASSUME StepFailed(t) PROVE AllClean
  BY <1>1, <1>19 DEF StepFailed
<1>20. ASSUME PipelineError(t) PROVE AllClean
  BY <1>1, <1>20 DEF PipelineError
<1>21. ASSUME Finish(t) PROVE AllClean
  BY <1>1, <1>21 DEF Finish
<1>22. ASSUME Loaded(t) PROVE AllClean
  BY <1>1, <1>22 DEF Loaded
<1>23. ASSUME SkipCompleted(t) PROVE AllClean
  BY <1>1, <1>23 DEF SkipCompleted
<1>24. ASSUME EnterStep(t) PROVE AllClean
  BY <1>1, <1>24 DEF EnterStep
<1>25. ASSUME CheckStep(t) PROVE AllClean
  BY <1>1, <1>25 DEF CheckStep
<1>26. ASSUME StartStep(t) PROVE AllClean
  BY <1>1, <1>26 DEF StartStep
<1>27. ASSUME StepDone(t) PROVE AllClean
  BY <1>1, <1>27 DEF StepDone
<1>28. ASSUME PlanScenes(t) PROVE AllClean
  BY <1>1, <1>28 DEF PlanScenes
<1>29. ASSUME NoScenes(t) PROVE AllClean
  BY <1>1, <1>29 DEF NoScenes
<1>30. ASSUME FirstKeyframe(t) PROVE AllClean
  BY <1>1, <1>30 DEF FirstKeyframe
<1>31. ASSUME SecondKeyframe(t) PROVE AllClean
  BY <1>1, <1>31 DEF SecondKeyframe
<1>32. ASSUME ImagesDone(t) PROVE AllClean
  BY <1>1, <1>32 DEF ImagesDone
<1>33. ASSUME VideoStart(t) PROVE AllClean
  BY <1>1, <1>33 DEF VideoStart
<1>34. ASSUME NEW s \in Scenes, VideoReturned(t, s) PROVE AllClean
  BY <1>1, <1>34 DEF VideoReturned
<1>35. ASSUME VideosReturned(t) PROVE AllClean
  BY <1>1, <1>35 DEF VideosReturned
<1>36. ASSUME VideosDone(t) PROVE AllClean
  BY <1>1, <1>36 DEF VideosDone
<1>37. ASSUME SeedanceClip(t) PROVE AllClean
  BY <1>1, <1>37 DEF SeedanceClip
<1>38. ASSUME Concat(t) PROVE AllClean
  BY <1>1, <1>38 DEF Concat
<1>39. ASSUME DistributionStart(t) PROVE AllClean
  BY <1>1, <1>39 DEF DistributionStart
<1>40. ASSUME PushExport(t) PROVE AllClean
  BY <1>1, <1>40 DEF PushExport
<1>41. ASSUME RetrySteps(t) PROVE AllClean
  BY <1>1, <1>41 DEF RetrySteps
<1>42. ASSUME RetryFinish(t) PROVE AllClean
  BY <1>1, <1>42 DEF RetryFinish
<1>43. ASSUME RetryDone(t) PROVE AllClean
  BY <1>1, <1>43 DEF RetryDone
<1>44. ASSUME RetryFailed(t) PROVE AllClean
  BY <1>1, <1>44 DEF RetryFailed
<1> QED BY <1>3, <1>4, <1>5, <1>6, <1>7, <1>8, <1>9, <1>10, <1>11, <1>12, <1>13, <1>14, <1>15,
     <1>16, <1>17, <1>18, <1>19, <1>20, <1>21, <1>22, <1>23, <1>24, <1>25, <1>26, <1>27, <1>28,
     <1>29, <1>30, <1>31, <1>32, <1>33, <1>34, <1>35, <1>36, <1>37, <1>38, <1>39, <1>40, <1>41,
     <1>42, <1>43, <1>44
     DEF TaskStep, Supervise, RunStep, MakeImages, MakeVideos, Deliver, RedoScene

\* The storyboard of a job that was not retried is clean.
Storyboard == claims = 0 /\ job.mode = "scene_based" => \A s \in Scenes : Clean(scenes[s])

\* Steps keep it: what could spoil it is a retry, or POST /simulate-queue.
LEMMA StoryboardKept ==
  ASSUME "simulate" \notin Operations, JobInvariant, DeliveryInvariant, Storyboard, [Next]_vars
  PROVE  Storyboard'
<1>0. TypeOK /\ claims \in Nat /\ Unclaimed /\ Allowed /\ Fresh /\ Placed /\ \A t \in Tasks : Fits(t)
  BY DEF JobInvariant, TypeOK, PipelinesFit, DeliveryInvariant
<1>1. ASSUME NEW m \in Modes, CreateJob(m) PROVE Storyboard'
  BY <1>1, CleanPlan DEF CreateJob, Storyboard
<1>2. ASSUME RequestStep \/ RequestEnd, \A m \in Modes : ~CreateJob(m) PROVE Storyboard'
  <2>1. scenes' = scenes
    BY <1>0, <1>2
     
         DEF RequestStep, RequestEnd, ReadForRequest, CancelJob, RetryStep, RetryScene, Claim,
             MarkReady, DeleteJob,
        CancelStep, Simulate, RequestFails, Launch, Writes, Allowed
  <2>2. job'.mode = job.mode /\ (claims' = 0 => claims = 0)
    BY <1>0, <1>2, RequestsServe DEF Serves
  <2> QED BY <2>1, <2>2 DEF Storyboard
<1>3. ASSUME NEW t \in Tasks, TaskStep(t) PROVE Storyboard'
  <2>1. job'.mode = job.mode /\ claims' = claims
    BY <1>0, <1>3, RestStays DEF Rest
  <2> QED BY <1>0, <1>3, <2>1, CleanSteps DEF Storyboard, Unclaimed, Placed
<1>4. ASSUME NEW r \in Replicas, Crash(r) PROVE Storyboard'
  BY <1>4 DEF Crash, Storyboard
<1>5. CASE UNCHANGED vars
  BY <1>5 DEF vars, Storyboard
<1> QED BY <1>1, <1>2, <1>3, <1>4, <1>5 DEF Next

\* A retry that has yet to open the distribution step, or to push by itself.
Holds(task) ==
  \/ task.kind = "from" /\ task.pc \in {"queued", "reset"}
  \/ /\ task.kind = "scene"
     /\ \/ task.pc \in {"queued", "retryReset", "retrySteps", "retryMedia", "retryFinish", "assembly", "concat",
                        "distribution", "push"}
        \/ task.pc = "done" /\ task.step = Assembly

\* A pipeline in the distribution step that has yet to push, and one that has left its body.
Brings(task) ==
  task.kind # "scene" /\ task.step = Distribution /\ task.pc \in (InStep \ {"done"}) \cup {"check", "start"}
Spent(task) == task.kind # "scene" /\ task.step = Distribution /\ task.pc = "done"

Holders == {t \in Tasks : Holds(tasks[t])}

\* The distribution step may still push on behalf of the launch or of a reset, as far as task t is
\* concerned.
OpenTo(t) ==
  /\ job.status # "deleted"
  /\ ~Spent(tasks[t])
  /\ steps[Distribution] # "completed" \/ Brings(tasks[t])

\* What a step of a task other than its push does: it opens the distribution step only in return for
\* the retry it stands for.
Ships(t) ==
  /\ exports' = exports
  /\ Holds(tasks'[t]) => Holds(tasks[t])
  /\ OpenTo(t)' => OpenTo(t) \/ (Holds(tasks[t]) /\ ~Holds(tasks'[t]))

\* Every step but the push is of this kind.
LEMMA ShippingSteps ==
  ASSUME TypeOK, NEW t \in Tasks, Fits(t), PlacedAt(tasks[t], job.mode), TaskStep(t), ~PushExport(t)
  PROVE  Ships(t)
<1>0. /\ tasks \in [Tasks -> TaskType] /\ tasks[t] \in TaskType /\ tasks[t].step \in 0..5
      /\ job \in JobType /\ steps \in [StepIds -> StepStatuses]
  BY DEF TypeOK, JobType, TaskType
<1>1. ASSUME TryBegin(t) PROVE Ships(t)
  <2>1. Moves(t, {CASE tasks[t].kind = "from" -> "reset" [] tasks[t].kind = "scene" -> "retryReset"
                    [] OTHER -> "load"}, tasks[t].step)
    BY <1>1, GotoMoves DEF TryBegin
  <2> QED BY <1>0, <1>1, <2>1 DEF TryBegin, Moves, Ships, OpenTo, Holds, Brings, Spent, InStep
<1>2. ASSUME SkipDuplicate(t) \/ EndExclusive(t) PROVE Ships(t)
  BY <1>0, <1>2 DEF SkipDuplicate, EndExclusive, Idle, Ships, OpenTo, Holds, Brings, Spent, InStep
<1> USE DEF At, Passes, Goes, Moves, PlacedAt, Fits, Ships, OpenTo, Holds, Brings, Spent, InStep,
            JobType, JobChecks, StepChecks, Outside, SceneGeneration, ImageGeneration, VideoGeneration,
            Assembly, Distribution, StepIds
<1>3. ASSUME Gone(t) PROVE Ships(t)
  <2>1. Goes(t, TaskPcs \ Outside, {"release"}, tasks[t].step)
    BY <1>3, ActionMoves
  <2> QED BY <1>0, <1>3, <2>1 DEF Gone
<1>4. ASSUME Load(t) PROVE Ships(t)
  <2>1. Goes(t, {"load"}, {"loaded", "release"}, tasks[t].step)
    BY <1>4, ActionMoves
  <2> QED BY <1>0, <1>4, <2>1 DEF Load
<1>5. ASSUME ResetStepsFrom(t) PROVE Ships(t)
  <2>1. Goes(t, {"reset"}, {"load"}, tasks[t].step)
    BY <1>5, ActionMoves
  <2> QED BY <1>0, <1>5, <2>1 DEF ResetStepsFrom
<1>6. ASSUME FinalizeCancelled(t) PROVE Ships(t)
  <2>1. Goes(t, JobChecks, {"retryFailed", "release"}, tasks[t].step)
    BY <1>6, ActionMoves
  <2> QED BY <1>0, <1>6, <2>1 DEF FinalizeCancelled
<1>7. ASSUME StopStep(t) PROVE Ships(t)
  <2>1. Goes(t, StepChecks, {"error", "retryFailed", "release"}, tasks[t].step)
    BY <1>7, ActionMoves
  <2> QED BY <1>0, <1>7, <2>1 DEF StopStep
<1>8. ASSUME StepFailed(t) PROVE Ships(t)
  <2>1. Goes(t, {"stepFailed"}, {"error"}, tasks[t].step)
    BY <1>8, ActionMoves
  <2> QED BY <1>0, <1>8, <2>1 DEF StepFailed
<1>9. ASSUME PipelineError(t) PROVE Ships(t)
  <2>1. Goes(t, {"error"}, {"release"}, tasks[t].step)
    BY <1>9, ActionMoves
  <2> QED BY <1>0, <1>9, <2>1 DEF PipelineError
<1>10. ASSUME Finish(t) PROVE Ships(t)
  <2>1. Goes(t, {"next"}, {"release", "error"}, tasks[t].step)
    BY <1>10, ActionMoves
  <2> QED BY <1>0, <1>10, <2>1 DEF Finish
<1>11. ASSUME Loaded(t) PROVE Ships(t)
  <2>1. Goes(t, {"loaded"}, {"next"}, 0)
    BY <1>11, ActionMoves
  <2> QED BY <1>0, <1>11, <2>1 DEF Loaded
<1>12. ASSUME SkipCompleted(t) PROVE Ships(t)
  <2>1. Goes(t, {"next"}, {"next"}, tasks[t].step + 1)
    BY <1>12, ActionMoves
  <2> QED BY <1>0, <1>12, <2>1 DEF SkipCompleted
<1>13. ASSUME EnterStep(t) PROVE Ships(t)
  <2>1. Goes(t, {"next"}, {"check"}, tasks[t].step + 1)
    BY <1>13, ActionMoves
  <2> QED BY <1>0, <1>13, <2>1 DEF EnterStep
<1>14. ASSUME CheckStep(t) PROVE Ships(t)
  <2>1. Goes(t, {"check"}, {"start"}, tasks[t].step)
    BY <1>14, ActionMoves
  <2> QED BY <1>0, <1>14, <2>1 DEF CheckStep
<1>15. ASSUME StartStep(t) PROVE Ships(t)
  <2>1. Goes(t, {"start"}, {Body(tasks[t].step, job.mode)}, tasks[t].step)
    BY <1>15, ActionMoves
  <2>2. /\ exports' = exports /\ job.status # "deleted" /\ tasks[t].kind # "scene"
        /\ tasks[t].step # Distribution => steps'[Distribution] = steps[Distribution]
    BY <1>0, <1>15 DEF StartStep, At, Fits, Distribution, StepIds
  <2>3. tasks'[t].step = tasks[t].step /\ tasks'[t].kind = tasks[t].kind /\ tasks[t].pc = "start"
    BY <2>1 DEF Goes, Moves
  <2>4. ~Holds(tasks'[t]) 
    <3>1. Body(tasks[t].step, job.mode) \notin {"queued", "reset"}
      BY DEF Body
    <3> QED BY <2>1, <2>2, <3>1 DEF Goes, Moves, Holds
  <2> QED BY <2>2, <2>3, <2>4
<1>16. ASSUME StepDone(t) PROVE Ships(t)
  <2>1. Goes(t, {"done"}, {"next"}, tasks[t].step)
    BY <1>16, ActionMoves
  <2> QED BY <1>0, <1>16, <2>1 DEF StepDone
<1>17. ASSUME PlanScenes(t) PROVE Ships(t)
  <2>1. Goes(t, {"plan"}, {"done", "planned", "stepFailed"}, tasks[t].step)
    BY <1>17, ActionMoves
  <2> QED BY <1>0, <1>17, <2>1 DEF PlanScenes
<1>18. ASSUME StorePlan(t) PROVE Ships(t)
  <2>1. Goes(t, {"planned"}, {"done"}, tasks[t].step)
    BY <1>18, ActionMoves
  <2> QED BY <1>0, <1>18, <2>1 DEF StorePlan
<1>19. ASSUME NoScenes(t) PROVE Ships(t)
  <2>1. Goes(t, {"image", "photo", "video", "clip"}, {"stepFailed"}, tasks[t].step)
    BY <1>19, ActionMoves
  <2> QED BY <1>0, <1>19, <2>1 DEF NoScenes
<1>20. ASSUME ImageScene(t) PROVE Ships(t)
  <2>1. Goes(t, {"image"}, {"first"}, tasks[t].step)
    BY <1>20, ActionMoves
  <2> QED BY <1>0, <1>20, <2>1 DEF ImageScene
<1>21. ASSUME FirstKeyframe(t) PROVE Ships(t)
  <2>1. Goes(t, {"first"}, {"second"}, tasks[t].step)
    BY <1>21, ActionMoves
  <2> QED BY <1>0, <1>21, <2>1 DEF FirstKeyframe
<1>22. ASSUME SecondKeyframe(t) PROVE Ships(t)
  <2>1. Goes(t, {"second"}, {"keyframes"}, tasks[t].step)
    BY <1>22, ActionMoves
  <2> QED BY <1>0, <1>22, <2>1 DEF SecondKeyframe
<1>23. ASSUME KeyframesDone(t) PROVE Ships(t)
  <2>1. Goes(t, {"keyframes"}, {"image"}, tasks[t].step)
    BY <1>23, ActionMoves
  <2> QED BY <1>0, <1>23, <2>1 DEF KeyframesDone
<1>24. ASSUME ImagesDone(t) PROVE Ships(t)
  <2>1. Goes(t, {"image"}, {"done", "stepFailed"}, tasks[t].step)
    BY <1>24, ActionMoves
  <2> QED BY <1>0, <1>24, <2>1 DEF ImagesDone
<1>25. ASSUME PhotoStart(t) PROVE Ships(t)
  <2>1. Goes(t, {"photo"}, {"photoCall"}, tasks[t].step)
    BY <1>25, ActionMoves
  <2> QED BY <1>0, <1>25, <2>1 DEF PhotoStart
<1>26. ASSUME PhotoDone(t) PROVE Ships(t)
  <2>1. Goes(t, {"photoCall"}, {"done", "stepFailed"}, tasks[t].step)
    BY <1>26, ActionMoves
  <2> QED BY <1>0, <1>26, <2>1 DEF PhotoDone
<1>27. ASSUME VideoStart(t) PROVE Ships(t)
  <2>1. Goes(t, {"video"}, {"clips"}, tasks[t].step)
    BY <1>27, ActionMoves
  <2> QED BY <1>0, <1>27, <2>1 DEF VideoStart
<1>28. ASSUME NEW s \in Scenes, VideoReturned(t, s) PROVE Ships(t)
  <2>1. Goes(t, {"clips"}, {"clips"}, tasks[t].step)
    BY <1>28, ActionMoves
  <2> QED BY <1>0, <1>28, <2>1 DEF VideoReturned
<1>29. ASSUME VideosReturned(t) PROVE Ships(t)
  <2>1. Goes(t, {"clips"}, {"release", "apply"}, tasks[t].step)
    BY <1>29, ActionMoves
  <2> QED BY <1>0, <1>29, <2>1 DEF VideosReturned
<1>30. ASSUME VideoApply(t) PROVE Ships(t)
  <2>1. Goes(t, {"apply"}, {"release", "apply"}, tasks[t].step)
    BY <1>30, ActionMoves
  <2> QED BY <1>0, <1>30, <2>1 DEF VideoApply
<1>31. ASSUME VideosDone(t) PROVE Ships(t)
  <2>1. Goes(t, {"apply"}, {"done", "stepFailed"}, tasks[t].step)
    BY <1>31, ActionMoves
  <2> QED BY <1>0, <1>31, <2>1 DEF VideosDone
<1>32. ASSUME SeedanceClip(t) PROVE Ships(t)
  <2>1. Goes(t, {"clip"}, {"done", "clip", "stepFailed"}, tasks[t].step)
    BY <1>32, ActionMoves
  <2> QED BY <1>0, <1>32, <2>1 DEF SeedanceClip
<1>33. ASSUME AiliveClip(t) PROVE Ships(t)
  <2>1. Goes(t, {"clip"}, {"done", "clip", "stepFailed"}, tasks[t].step)
    BY <1>33, ActionMoves
  <2> QED BY <1>0, <1>33, <2>1 DEF AiliveClip
<1>34. ASSUME AssemblyStart(t) PROVE Ships(t)
  <2>1. Goes(t, {"assembly"}, {Raised(t), "done", "concat"}, tasks[t].step)
    BY <1>34, ActionMoves
  <2> QED BY <1>0, <1>34, <2>1 DEF AssemblyStart, Raised
<1>35. ASSUME Concat(t) PROVE Ships(t)
  <2>1. Goes(t, {"concat"}, {"done"}, tasks[t].step)
    BY <1>35, ActionMoves
  <2> QED BY <1>0, <1>35, <2>1 DEF Concat
<1>36. ASSUME DistributionStart(t) PROVE Ships(t)
  <2>1. Goes(t, {"distribution"}, {"done", Raised(t), "push"}, tasks[t].step)
    BY <1>36, ActionMoves
  <2> QED BY <1>0, <1>36, <2>1 DEF DistributionStart, Raised
<1>37. ASSUME RetryReset(t) PROVE Ships(t)
  <2>1. Goes(t, {"retryReset"}, {"retrySteps", "release"}, tasks[t].step)
    BY <1>37, ActionMoves
  <2> QED BY <1>0, <1>37, <2>1 DEF RetryReset
<1>38. ASSUME RetrySteps(t) PROVE Ships(t)
  <2>1. Goes(t, {"retrySteps"}, {"retryMedia"}, tasks[t].step)
    BY <1>38, ActionMoves
  <2> QED BY <1>0, <1>38, <2>1 DEF RetrySteps
<1>39. ASSUME RetryMedia(t) PROVE Ships(t)
  <2>1. Goes(t, {"retryMedia"}, {"retryFinish"}, tasks[t].step)
    BY <1>39, ActionMoves
  <2> QED BY <1>0, <1>39, <2>1 DEF RetryMedia
<1>40. ASSUME RetryFinish(t) PROVE Ships(t)
  <2>1. Goes(t, {"retryFinish"}, {"assembly"}, Assembly)
    BY <1>40, ActionMoves
  <2> QED BY <1>0, <1>40, <2>1 DEF RetryFinish
<1>41. ASSUME RetryDone(t) PROVE Ships(t)
  <2>1. Goes(t, {"done"}, {"distribution"}, Distribution) \/ Goes(t, {"done"}, {"release"}, tasks[t].step)
    BY <1>41, ActionMoves
  <2>2. exports' = exports /\ Holds(tasks[t]) = (tasks[t].step = Assembly)
    BY <1>0, <1>41 DEF RetryDone, At, Holds
  <2>3. CASE tasks[t].step = Assembly
    <3>1. tasks'[t].kind = "scene" /\ tasks'[t].pc = "distribution" /\ job' = job
      BY <1>0, <1>41, <2>3 DEF RetryDone, TaskType
    <3>2. steps'[Distribution] = steps[Distribution]
      BY <1>0, <1>41, <2>3 DEF RetryDone, Assembly, Distribution, StepIds
    <3> QED BY <1>0, <1>41, <2>2, <2>3, <3>1, <3>2 DEF RetryDone, At, Ships, OpenTo, Spent, Brings
  <2>4. CASE tasks[t].step # Assembly
    <3>1. tasks'[t].kind = "scene" /\ tasks'[t].pc = "release" /\ job.status # "deleted"
      BY <1>0, <1>41, <2>4 DEF RetryDone, TaskType, Goto, At
    <3>2. steps'[Distribution] # "completed" => steps[Distribution] # "completed"
      BY <1>0, <1>41, <2>4 DEF RetryDone, Distribution, StepIds
    <3> QED BY <1>0, <1>41, <2>2, <2>4, <3>1, <3>2 DEF RetryDone, At, Ships, OpenTo, Spent, Brings, Holds
  <2> QED BY <2>3, <2>4
<1>42. ASSUME RetryFailed(t) PROVE Ships(t)
  <2>1. Goes(t, {"retryFailed"}, {"release"}, tasks[t].step)
    BY <1>42, ActionMoves
  <2> QED BY <1>0, <1>42, <2>1 DEF RetryFailed
<1> QED BY <1>1, <1>2, <1>3, <1>4, <1>5, <1>6, <1>7, <1>8, <1>9, <1>10, <1>11, <1>12, <1>13, <1>14,
     <1>15, <1>16, <1>17, <1>18, <1>19, <1>20, <1>21, <1>22, <1>23, <1>24, <1>25, <1>26, <1>27,
     <1>28, <1>29, <1>30, <1>31, <1>32, <1>33, <1>34, <1>35, <1>36, <1>37, <1>38, <1>39, <1>40,
     <1>41, <1>42
     DEF TaskStep, Supervise, RunStep, MakeImages, MakeVideos, Deliver, RedoScene

\* The distribution step may still push without a retry.
Open ==
  /\ job.status # "deleted"
  /\ \A t \in Tasks : ~Spent(tasks[t])
  /\ steps[Distribution] # "completed" \/ \E t \in Tasks : Brings(tasks[t])

\* Each export was let through by the launch or by a retry: what is open and what retries still hold
\* is counted against what is left.
Exported ==
  crashes = 0 =>
    /\ IsFiniteSet(Holders)
    /\ exports + (IF Open THEN 1 ELSE 0) + Cardinality(Holders) <= 1 + claims

\* Nothing is opened, and no retry is added.
LEMMA ExportsFollow ==
  ASSUME Exported, exports \in Nat, claims \in Nat, crashes' = crashes, exports' = exports, claims' = claims,
         Holders' \subseteq Holders, Open' => Open \/ \E t \in Holders : t \notin Holders'
  PROVE  Exported'
<1> SUFFICES ASSUME crashes = 0 PROVE /\ IsFiniteSet(Holders')
                                      /\ exports + (IF Open' THEN 1 ELSE 0) + Cardinality(Holders') <= 1 + claims
  BY DEF Exported
<1>1. IsFiniteSet(Holders) /\ exports + (IF Open THEN 1 ELSE 0) + Cardinality(Holders) <= 1 + claims
  BY DEF Exported
<1>2. IsFiniteSet(Holders') /\ Cardinality(Holders') <= Cardinality(Holders)
  BY <1>1, FS_Subset
<1>3. Cardinality(Holders) \in Nat /\ Cardinality(Holders') \in Nat
  BY <1>1, <1>2, FS_CardinalityType
<1>4. CASE Open' => Open
  BY <1>1, <1>2, <1>3, <1>4
<1>5. CASE ~(Open' => Open)
  <2>1. PICK t \in Holders : t \notin Holders'
    BY <1>5
  <2>2. IsFiniteSet(Holders \ {t}) /\ Cardinality(Holders \ {t}) = Cardinality(Holders) - 1
    BY <1>1, <2>1, FS_RemoveElement
  <2>3. Cardinality(Holders') <= Cardinality(Holders) - 1
    BY <2>1, <2>2, FS_Subset, Holders' \subseteq Holders \ {t}
  <2> QED BY <1>1, <1>2, <1>3, <1>5, <2>3
<1> QED BY <1>4, <1>5

\* An export uses what was open, or the retry that pushes.
LEMMA ExportCounted ==
  ASSUME Exported, exports \in Nat, claims \in Nat, crashes' = crashes, exports' = exports + 1, claims' = claims,
         Holders' \subseteq Holders,
         \/ Open /\ ~Open'
         \/ (Open' => Open) /\ \E t \in Holders : t \notin Holders'
  PROVE  Exported'
<1> SUFFICES ASSUME crashes = 0 PROVE /\ IsFiniteSet(Holders')
                                      /\ exports + 1 + (IF Open' THEN 1 ELSE 0) + Cardinality(Holders') <= 1 + claims
  BY DEF Exported
<1>1. IsFiniteSet(Holders) /\ exports + (IF Open THEN 1 ELSE 0) + Cardinality(Holders) <= 1 + claims
  BY DEF Exported
<1>2. IsFiniteSet(Holders') /\ Cardinality(Holders') <= Cardinality(Holders)
  BY <1>1, FS_Subset
<1>3. Cardinality(Holders) \in Nat /\ Cardinality(Holders') \in Nat
  BY <1>1, <1>2, FS_CardinalityType
<1>4. CASE Open /\ ~Open'
  BY <1>1, <1>2, <1>3, <1>4
<1>5. CASE (Open' => Open) /\ \E t \in Holders : t \notin Holders'
  <2>1. PICK t \in Holders : t \notin Holders'
    BY <1>5
  <2>2. IsFiniteSet(Holders \ {t}) /\ Cardinality(Holders \ {t}) = Cardinality(Holders) - 1
    BY <1>1, <2>1, FS_RemoveElement
  <2>3. Cardinality(Holders') <= Cardinality(Holders) - 1
    BY <2>1, <2>2, FS_Subset, Holders' \subseteq Holders \ {t}
  <2> QED BY <1>1, <1>2, <1>3, <1>5, <2>3
<1> QED BY <1>4, <1>5

\* A retry that is accepted adds itself.
LEMMA RetryCounted ==
  ASSUME Exported, exports \in Nat, claims \in Nat, crashes' = crashes, exports' = exports, claims' = claims + 1,
         NEW t \in Tasks, Holders' \subseteq Holders \cup {t}, Open' => Open
  PROVE  Exported'
<1> SUFFICES ASSUME crashes = 0 PROVE /\ IsFiniteSet(Holders')
                                      /\ exports + (IF Open' THEN 1 ELSE 0) + Cardinality(Holders') <= 1 + (claims + 1)
  BY DEF Exported
<1>1. IsFiniteSet(Holders) /\ exports + (IF Open THEN 1 ELSE 0) + Cardinality(Holders) <= 1 + claims
  BY DEF Exported
<1>2. /\ IsFiniteSet(Holders \cup {t}) /\ Cardinality(Holders) \in Nat
      /\ Cardinality(Holders \cup {t}) \in {Cardinality(Holders), Cardinality(Holders) + 1}
  BY <1>1, FS_AddElement, FS_CardinalityType
<1>3. IsFiniteSet(Holders') /\ Cardinality(Holders') <= Cardinality(Holders \cup {t})
  BY <1>2, FS_Subset
<1>4. Cardinality(Holders') \in Nat
  BY <1>3, FS_CardinalityType
<1> QED BY <1>1, <1>2, <1>3, <1>4

\* Whoever holds the distribution step runs a pipeline.
LEMMA DistributionInside ==
  ASSUME NEW t \in Tasks, Spent(tasks[t]) \/ Brings(tasks[t])
  PROVE  Inside(t)
BY DEF Spent, Brings, InStep, Inside, Outside

\* With one process, the distribution step is open to the task that runs a pipeline or to nobody.
LEMMA OpenToOne ==
  ASSUME OnePipeline, OneProcess, NEW t \in Tasks, Inside(t)
  PROVE  /\ Open <=> OpenTo(t)
         /\ \A u \in Tasks \ {t} : ~Spent(tasks[u]) /\ ~Brings(tasks[u])
<1>1. \A u \in Tasks \ {t} : ~Spent(tasks[u]) /\ ~Brings(tasks[u])
  BY DistributionInside, OneInside
<1> QED BY <1>1 DEF Open, OpenTo

\* A task that runs no pipeline only takes its turn at the registry.
LEMMA OutsideSteps ==
  ASSUME TypeOK, NEW t \in Tasks, TaskStep(t), ~Inside(t)
  PROVE  TryBegin(t) \/ SkipDuplicate(t)
<1>1. ASSUME NEW from, NEW to, NEW step, Goes(t, from, to, step), "idle" \notin from, "queued" \notin from
      PROVE  FALSE
  BY <1>1 DEF Goes, Inside, Outside
<1>2. ~EndExclusive(t)
  BY DEF EndExclusive, Inside, Outside
<1>3. /\ "idle" \notin TaskPcs \ Outside /\ "idle" \notin JobChecks /\ "idle" \notin StepChecks
      /\ "queued" \notin TaskPcs \ Outside /\ "queued" \notin JobChecks /\ "queued" \notin StepChecks
  BY DEF Outside, JobChecks, StepChecks
<1> QED
  BY <1>1, <1>2, <1>3, ActionMoves
    DEF TaskStep, Supervise, RunStep, MakeImages, MakeVideos, Deliver, RedoScene

\* The accounts under a step of a task ...
LEMMA PipelineExports ==
  ASSUME JobInvariant, OneProcess, Placed, Exported, NEW t \in Tasks, TaskStep(t)
  PROVE  Exported'
<1>0. /\ TypeOK /\ OnePipeline /\ tasks \in [Tasks -> TaskType] /\ exports \in Nat /\ claims \in Nat
      /\ Fits(t) /\ PlacedAt(tasks[t], job.mode)
  BY DEF JobInvariant, TypeOK, PipelinesFit, Placed
<1>1. Rest(t)
  BY <1>0, RestStays
<1>2. CASE PushExport(t)
  <2>1. Goes(t, {"push"}, {"done"}, tasks[t].step)
    BY <1>0, <1>2, ActionMoves
  <2>2. /\ tasks[t].pc = "push" /\ tasks[t].step = Distribution /\ tasks'[t].pc = "done"
        /\ tasks'[t].step = Distribution /\ tasks'[t].kind = tasks[t].kind
        /\ \A u \in Tasks \ {t} : tasks'[u] = tasks[u]
    BY <1>0, <2>1 DEF Goes, Moves, PlacedAt
  <2>3. /\ exports' = exports + 1 /\ steps' = steps /\ job' = job /\ job.status # "deleted"
        /\ crashes' = crashes /\ claims' = claims
    BY <1>2 DEF PushExport, Passes, At, counters
  <2>4. Inside(t)
    BY <2>2 DEF Inside, Outside
  <2>5. /\ Open <=> OpenTo(t)
        /\ \A u \in Tasks \ {t} : ~Spent(tasks[u]) /\ ~Brings(tasks[u])
    BY <1>0, <2>4, OpenToOne
  <2>6. ~Holds(tasks'[t]) /\ Holders' \subseteq Holders
    BY <2>2 DEF Holds, Holders, Assembly, Distribution
  <2>7. CASE tasks[t].kind = "scene"
    <3>1. t \in Holders /\ t \notin Holders'
      BY <2>2, <2>6, <2>7 DEF Holders, Holds
    <3>2. ~Spent(tasks'[t]) /\ ~Brings(tasks'[t]) /\ ~Spent(tasks[t])
      BY <2>2, <2>7 DEF Spent, Brings
    <3>3. Open' => Open
      BY <2>2, <2>3, <2>5, <3>2 DEF Open
    <3> QED BY <1>0, <2>3, <2>6, <3>1, <3>3, ExportCounted
  <2>8. CASE tasks[t].kind # "scene"
    <3>1. Spent(tasks'[t]) /\ ~Spent(tasks[t]) /\ Brings(tasks[t])
      BY <2>2, <2>8 DEF Spent, Brings, InStep
    <3>2. Open /\ ~Open'
      BY <2>3, <2>5, <3>1 DEF Open, OpenTo
    <3> QED BY <1>0, <2>3, <2>6, <3>2, ExportCounted
  <2> QED BY <2>7, <2>8
<1>3. CASE ~PushExport(t)
  <2>1. Ships(t)
    BY <1>0, <1>3, ShippingSteps
  <2>2. Holders' \subseteq Holders /\ (Holds(tasks[t]) /\ ~Holds(tasks'[t]) => t \in Holders /\ t \notin Holders')
    BY <1>1, <2>1 DEF Rest, Ships, Holders
  <2>3. CASE Inside(t)
    <3>1. /\ Open <=> OpenTo(t)
          /\ \A u \in Tasks \ {t} : ~Spent(tasks[u]) /\ ~Brings(tasks[u])
      BY <1>0, <2>3, OpenToOne
    <3>2. Open' <=> OpenTo(t)'
      BY <1>1, <3>1 DEF Rest, Open, OpenTo
    <3> QED BY <1>0, <1>1, <2>1, <2>2, <3>1, <3>2, ExportsFollow DEF Rest, Ships
  <2>4. CASE ~Inside(t)
    <3>1. TryBegin(t) \/ SkipDuplicate(t)
      BY <1>0, <2>4, OutsideSteps
    <3>2. /\ job' = job /\ steps' = steps
          /\ tasks'[t].pc \in {"reset", "retryReset", "load", "idle"}
      BY <1>0, <3>1 DEF TryBegin, SkipDuplicate, Idle, Goto, TaskType
    <3>3. /\ ~Spent(tasks'[t]) /\ ~Brings(tasks'[t])
          /\ ~Spent(tasks[t]) /\ ~Brings(tasks[t])
      BY <2>4, <3>2 DEF Spent, Brings, InStep, Inside, Outside
    <3>4. Open' => Open
      BY <1>1, <3>2, <3>3 DEF Rest, Open
    <3> QED BY <1>0, <1>1, <2>1, <2>2, <3>4, ExportsFollow DEF Rest, Ships
  <2> QED BY <2>3, <2>4
<1> QED BY <1>2, <1>3

\* ... and under a request.
LEMMA RequestExports ==
  ASSUME TypeOK, Fresh, Exported, RequestStep \/ RequestEnd
  PROVE  Exported'
<1>0. /\ job \in JobType /\ tasks \in [Tasks -> TaskType] /\ exports \in Nat /\ claims \in Nat
      /\ steps \in [StepIds -> StepStatuses]
      /\ \A r \in reqs : job.status # "none"
  BY DEF TypeOK, JobType, Fresh
<1>1. \A kind, arg : Scheduled(kind, arg).pc = "queued" /\ Scheduled(kind, arg).kind = kind
  BY DEF Scheduled, Idle
<1>2. ASSUME NEW m \in Modes, CreateJob(m) PROVE Exported'
  <2>1. /\ tasks' = tasks /\ exports' = exports /\ claims' = claims /\ crashes' = crashes
        /\ job.status = "none"
    BY <1>2 DEF CreateJob, counters
  <2>2. Open
    BY <2>1 DEF Open, Fresh, Spent, Distribution, StepIds
  <2> QED BY <1>0, <2>1, <2>2, ExportsFollow DEF Holders
<1>3. ASSUME tasks' = tasks, steps' = steps, job'.status # "deleted" => job.status # "deleted",
             exports' = exports, claims' = claims, crashes' = crashes
      PROVE  Exported'
  BY <1>0, <1>3, ExportsFollow DEF Open, Holders
<1>4. ASSUME NEW op \in Operations, NEW k \in StepIds, ReadForRequest(op, k) PROVE Exported'
  BY <1>3, <1>4 DEF ReadForRequest
<1>5. ASSUME CancelJob PROVE Exported'
  BY <1>0, <1>3, <1>5 DEF CancelJob, JobType, counters
<1>6. ASSUME NEW t \in Tasks, NEW kind, NEW arg, Claim(t, kind, arg) PROVE Exported'
  <2>1. /\ exports' = exports /\ claims' = claims + 1 /\ crashes' = crashes /\ steps' = steps
        /\ job.status # "deleted" /\ tasks[t].pc = "idle" /\ tasks'[t].pc = "queued"
        /\ \A u \in Tasks \ {t} : tasks'[u] = tasks[u]
    BY <1>0, <1>1, <1>6 DEF Claim
  <2>2. Holders' \subseteq Holders \cup {t}
    BY <2>1 DEF Holders
  <2>3. /\ ~Spent(tasks'[t]) /\ ~Brings(tasks'[t])
        /\ ~Spent(tasks[t]) /\ ~Brings(tasks[t])
    BY <2>1 DEF Spent, Brings, InStep
  <2>4. Open' => Open
    BY <2>1, <2>3 DEF Open
  <2> QED BY <1>0, <2>1, <2>2, <2>4, RetryCounted
<1>7. ASSUME NEW r \in reqs, MarkReady(r) \/ DeleteJob(r) \/ CancelStep(r) \/ RequestFails(r) PROVE Exported'
  <2>1. /\ tasks' = tasks /\ steps' = steps /\ exports' = exports /\ claims' = claims /\ crashes' = crashes
        /\ job'.status # "deleted" => job.status # "deleted"
    BY <1>0, <1>7 DEF MarkReady, DeleteJob, CancelStep, RequestFails, Writes, JobType, counters
  <2> QED BY <1>3, <2>1
<1>8. ASSUME NEW r \in reqs, Simulate(r) PROVE Exported'
  <2>1. /\ tasks' = tasks /\ exports' = exports /\ claims' = claims /\ crashes' = crashes
        /\ steps' = [k \in StepIds |-> "completed"]
    BY <1>8 DEF Simulate, counters
  <2>2. steps'[Distribution] = "completed"
    BY <2>1 DEF Distribution, StepIds
  <2>3. job.status # "deleted"
    BY <1>8 DEF Simulate, Writes
  <2>4. Open' => Open
    BY <2>1, <2>2, <2>3 DEF Open
  <2> QED BY <1>0, <2>1, <2>4, ExportsFollow DEF Holders
<1>9. ASSUME NEW r \in reqs, NEW t \in Tasks, Launch(r, t) PROVE Exported'
  <2>1. /\ exports' = exports /\ claims' = claims /\ crashes' = crashes /\ steps' = steps
        /\ job.status # "deleted" /\ tasks[t].pc = "idle" /\ tasks'[t].pc = "queued" /\ tasks'[t].kind = "pipeline"
        /\ \A u \in Tasks \ {t} : tasks'[u] = tasks[u]
    BY <1>0, <1>1, <1>9 DEF Launch, Writes, counters
  <2>2. ~Holds(tasks'[t]) /\ Holders' \subseteq Holders
    BY <2>1 DEF Holders, Holds
  <2>3. /\ ~Spent(tasks'[t]) /\ ~Brings(tasks'[t])
        /\ ~Spent(tasks[t]) /\ ~Brings(tasks[t])
    BY <2>1 DEF Spent, Brings, InStep
  <2>4. Open' => Open
    BY <2>1, <2>3 DEF Open
  <2> QED BY <1>0, <2>1, <2>2, <2>4, ExportsFollow
<1> QED
  BY <1>2, <1>4, <1>5, <1>6, <1>7, <1>8, <1>9 DEF RequestStep, RequestEnd, RetryStep, RetryScene

\* The accounts of a job that one process serves.
LEMMA ExportsKept == Spec => [](OneProcess => Exported)
<1>1. Init => Exported
  <2> SUFFICES ASSUME Init PROVE Exported
    OBVIOUS
  <2>1. \A t \in Tasks : ~Holds(tasks[t])
    BY DEF Init, Idle, Holds
  <2>2. Holders = {}
    BY <2>1 DEF Holders
  <2> QED BY <2>2, FS_EmptySet DEF Init, Exported
<1>2. ASSUME JobInvariant, DeliveryInvariant, OneProcess => Exported, [Next]_vars
      PROVE  (OneProcess => Exported)'
  <2> SUFFICES ASSUME OneProcess PROVE Exported'
    BY DEF OneProcess
  <2>0. Exported
    BY <1>2
  <2>1. TypeOK /\ Fresh /\ Placed
    BY <1>2 DEF JobInvariant, DeliveryInvariant
  <2>2. ASSUME NEW r \in Replicas, Crash(r) PROVE Exported'
    BY <2>1, <2>2 DEF Crash, Exported, TypeOK
  <2>3. CASE UNCHANGED vars
    BY <2>0, <2>3 DEF vars, Exported, Holders, Open
  <2> QED BY <1>2, <2>0, <2>1, <2>2, <2>3, PipelineExports, RequestExports DEF Next
<1> QED BY <1>1, <1>2, JobInvariance, DeliveryKept, PTL DEF Spec

\* What leaves the pipeline is accounted for. Where one process serves the job there is one export,
\* and one more per accepted retry, as long as the process is not restarted. Where
\* POST /simulate-queue, which marks every scene completed, is not used, no ERROR string counts as an
\* image, in any number of processes. With both, and the output of a completed job, OutputsAccounted.
THEOREM OutputsKept ==
  Spec => [](/\ OneProcess => ExportsAccounted
             /\ "simulate" \notin Operations => ErrorsAreNotImages
             /\ OneProcess /\ "simulate" \notin Operations => OutputsAccounted)
<1>1. Init => Storyboard
  <2> SUFFICES ASSUME Init PROVE Storyboard
    OBVIOUS
  <2>1. \A s \in Scenes : Clean(scenes[s])
    BY DEF Init, Clean, NoScene
  <2> QED BY <2>1 DEF Init, Storyboard, Idle
<1>2. ASSUME JobInvariant, DeliveryInvariant, "simulate" \notin Operations => Storyboard, [Next]_vars
      PROVE  ("simulate" \notin Operations => Storyboard)'
  BY <1>2, StoryboardKept
<1>3. Spec => []("simulate" \notin Operations => Storyboard)
  BY <1>1, <1>2, JobInvariance, DeliveryKept, PTL DEF Spec
<1>4. ASSUME JobInvariant, DeliveryInvariant, Exported PROVE ExportsAccounted
  <2> SUFFICES ASSUME crashes = 0 PROVE exports <= 1 + claims
    BY DEF ExportsAccounted
  <2>1. exports + (IF Open THEN 1 ELSE 0) + Cardinality(Holders) <= 1 + claims /\ Cardinality(Holders) \in Nat
    BY <1>4, FS_CardinalityType DEF Exported
  <2> QED BY <1>4, <2>1 DEF JobInvariant, TypeOK
<1>5. DeliveryInvariant => LaunchDelivers
  BY DEF DeliveryInvariant, Delivered, LaunchDelivers
<1>6. Storyboard => ErrorsAreNotImages
  BY DEF Storyboard, Clean, ErrorsAreNotImages
<1>7. JobInvariant /\ DeliveryInvariant /\ (OneProcess => Exported) /\ ("simulate" \notin Operations => Storyboard)
        => /\ OneProcess => ExportsAccounted
           /\ "simulate" \notin Operations => ErrorsAreNotImages
           /\ OneProcess /\ "simulate" \notin Operations => OutputsAccounted
  BY <1>4, <1>5, <1>6 DEF OutputsAccounted
<1> QED BY <1>3, <1>7, JobInvariance, DeliveryKept, ExportsKept, PTL

=============================================================================
