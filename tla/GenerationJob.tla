----------------------------- MODULE GenerationJob -----------------------------
(***************************************************************************)
(* One generation job of the content factory: the row the API and the      *)
(* in-process pipeline share, its five steps and its scenes.               *)
(*                                                                         *)
(* A request either changes the row in one SQL statement (cancel, the      *)
(* claim of a retry) or reads it, decides, and writes what it decided in a *)
(* later transaction (launch, ready, cancel-step, delete, simulate): the   *)
(* latter are two actions, and `reqs' holds what they read.  A pipeline is *)
(* a background task of the same process; it holds a session whose copy of *)
(* step_control (field ctrl of the task) it writes back as a whole.        *)
(*                                                                         *)
(* Abstractions: a URL is "none", "ok" or "error" (the provider's ERROR    *)
(* string, which the code stores like a URL); progress numbers, logs,      *)
(* prompts and captions are left out; settings have their defaults         *)
(* (GENERATION_DEMO_MODE off, MIN_VIDEO_SUCCESS_RATIO 1, the concat        *)
(* fallback and PROMOTE_FIRST_CLIP on).                                    *)
(***************************************************************************)
EXTENDS Integers, FiniteSets

CONSTANTS
  Tasks,              \* background tasks that may exist at the same time
  Replicas,           \* processes of the content factory
  ReplicaOf,          \* the process a task belongs to
  Modes,              \* execution modes jobs are created with
  NumScenes,          \* scenes of a scene_based job
  LegacyDistribution, \* GENERATION_DISTRIBUTION_MODE = legacy_queue
  Operations,         \* requests users send
  MaxRequests,        \* bound: read-then-write requests
  MaxClaims,          \* bound: accepted retries
  MaxCrashes          \* bound: restarts of the content factory

AllModes == {"scene_based", "single_image", "multi_scene_single_video", "ailiveai_single_video"}

AllOperations ==
  {"launch", "ready", "cancel", "cancel-step", "retry-step", "retry-scene", "delete", "simulate"}

ASSUME ModesAssumption == Modes \subseteq AllModes
ASSUME OperationsAssumption == Operations \subseteq AllOperations
ASSUME ReplicaAssumption == ReplicaOf \in [Tasks -> Replicas]
ASSUME BoundsAssumption ==
  /\ NumScenes \in Nat \ {0}
  /\ LegacyDistribution \in BOOLEAN
  /\ MaxRequests \in Nat /\ MaxClaims \in Nat /\ MaxCrashes \in Nat

VARIABLES
  job,      \* the generation_jobs row: status, mode, output_url, step_control
  steps,    \* status of the five generation_steps rows
  scenes,   \* the generation_scenes rows
  tasks,    \* background tasks of the process
  active,   \* replicas whose _pipeline_active holds the job's id
  reqs,     \* read-then-write requests between their read and their write
  nreq,     \* read-then-write requests so far
  claims,   \* retries accepted so far
  exports,  \* packets of the job pushed to content:ready
  crashes   \* restarts so far

vars == <<job, steps, scenes, tasks, active, reqs, nreq, claims, exports, crashes>>
counters == <<nreq, claims, crashes>>

\* PIPELINE_STEPS, by their order.
SceneGeneration == 1
ImageGeneration == 2
VideoGeneration == 3
Assembly == 4
Distribution == 5
StepIds == 1..5

Scenes == 1..NumScenes

Urls == {"none", "ok", "error"}
JobStatuses == {"none", "draft", "ready", "running", "cancelling", "cancelled",
                "completed", "failed", "deleted"}
StepStatuses == {"pending", "running", "completed", "failed", "cancelled"}
Controls == {"pending", "running", "cancelling", "cancelled", "completed"}
SceneStatuses == {"none", "pending", "running", "partial", "completed", "failed"}

DefaultControl == [k \in StepIds |-> "pending"]

NoScene == [status |-> "none", start |-> "none", end |-> "none", video |-> "none"]
FreshScene == [NoScene EXCEPT !.status = "pending"]

\* Motion, Bolt and Photo jobs have one scene.
SceneCount(mode) == IF mode = "scene_based" THEN NumScenes ELSE 1

ScenesOf(mode) == [s \in Scenes |-> IF s <= SceneCount(mode) THEN FreshScene ELSE NoScene]

Live == {s \in Scenes : scenes[s].status # "none"}

HasImage(s) == scenes[s].start # "none" \/ scenes[s].end # "none"

WithVideo == {s \in Live : scenes[s].video = "ok"}

\* _generation_media_delivered: the media step finished and the job has its URL.
MediaStep(mode) == IF mode = "single_image" THEN ImageGeneration ELSE VideoGeneration

MediaDelivered == job.output = "ok" /\ steps[MediaStep(job.mode)] = "completed"

-----------------------------------------------------------------------------
(* Background tasks.                                                       *)

\* A task that waits for its turn, and one that runs a pipeline.
Outside == {"idle", "queued"}

Idle == [pc |-> "idle", kind |-> "none", arg |-> 0, step |-> 0, cur |-> 0, tries |-> 0,
         ctrl |-> DefaultControl, rows |-> [s \in Scenes |-> "none"]]

Scheduled(kind, arg) == [Idle EXCEPT !.pc = "queued", !.kind = kind, !.arg = arg]

Inside(t) == tasks[t].pc \notin Outside

At(t, pc) == tasks[t].pc = pc /\ job.status # "deleted"

Goto(t, pc) == tasks' = [tasks EXCEPT ![t].pc = pc]

\* Points where the pipeline reads the row to see whether the user stopped it.
JobChecks == {"loaded", "check", "plan", "planned", "image", "first", "second", "photo",
              "video", "assembly", "concat", "distribution", "push"}
StepChecks == JobChecks \ {"loaded"}

Stopping(t) == job.ctrl[tasks[t].step] \in {"cancelling", "cancelled"}

\* The check at pc finds nothing to stop for; the session now holds the row's step_control.
Passes(t, pc) == At(t, pc) /\ job.status # "cancelling" /\ ~Stopping(t)

\* The task after a check it passed.
Checked(t, pc) == [tasks[t] EXCEPT !.pc = pc, !.ctrl = job.ctrl]

\* A step body raises: the exception reaches the handler of the step, or of the scene retry.
Raised(t) == IF tasks[t].kind = "scene" THEN "retryFailed" ELSE "stepFailed"

Init ==
  /\ job = [status |-> "none", mode |-> "scene_based", output |-> "none", ctrl |-> DefaultControl]
  /\ steps = [k \in StepIds |-> "pending"]
  /\ scenes = [s \in Scenes |-> NoScene]
  /\ tasks = [t \in Tasks |-> Idle]
  /\ active = {}
  /\ reqs = {}
  /\ nreq = 0 /\ claims = 0 /\ exports = 0 /\ crashes = 0

-----------------------------------------------------------------------------
(* Requests.                                                               *)

\* POST /generation-jobs: the job, its steps and the draft scenes, in one transaction.
CreateJob(mode) ==
  /\ job.status = "none"
  /\ job' = [status |-> "draft", mode |-> mode, output |-> "none",
             ctrl |-> [DefaultControl EXCEPT ![SceneGeneration] = "completed"]]
  /\ steps' = [steps EXCEPT ![SceneGeneration] = "completed"]
  /\ scenes' = ScenesOf(mode)
  /\ UNCHANGED <<tasks, active, reqs, exports, counters>>

\* The read half of a request: what the row must look like for the request to go on.
Admits(op, k) ==
  CASE op = "launch"      -> job.status \in {"draft", "ready"}
    [] op = "ready"       -> job.status = "draft"
    [] op = "delete"      -> job.status \notin {"none", "running", "cancelling"}
    [] op = "simulate"    -> job.status \notin {"none", "running", "cancelling"}
    [] op = "cancel-step" -> /\ job.status = "running"
                             /\ job.ctrl[k] \notin {"cancelling", "cancelled"}
                             /\ steps[k] = "running" \/ job.ctrl[k] = "running"
    [] OTHER              -> FALSE

ReadForRequest(op, k) ==
  /\ op \in Operations
  /\ nreq < MaxRequests
  /\ job.status # "deleted"
  /\ op # "cancel-step" => k = SceneGeneration
  /\ Admits(op, k)
  /\ reqs' = reqs \cup {[id |-> nreq, op |-> op, step |-> k, ctrl |-> job.ctrl]}
  /\ nreq' = nreq + 1
  /\ UNCHANGED <<job, steps, scenes, tasks, active, exports, claims, crashes>>

\* The row is gone: the UPDATE of the request matches nothing and the request fails.
RequestFails(r) ==
  /\ job.status = "deleted"
  /\ reqs' = reqs \ {r}
  /\ UNCHANGED <<job, steps, scenes, tasks, active, exports, counters>>

Writes(r, op) == r.op = op /\ job.status # "deleted" /\ reqs' = reqs \ {r}

\* POST /launch commits running and adds the pipeline as a background task.
Launch(r, t) ==
  /\ Writes(r, "launch")
  /\ tasks[t].pc = "idle"
  /\ job' = [job EXCEPT !.status = "running"]
  /\ tasks' = [tasks EXCEPT ![t] = Scheduled("pipeline", 0)]
  /\ UNCHANGED <<steps, scenes, active, exports, counters>>

MarkReady(r) ==
  /\ Writes(r, "ready")
  /\ job' = [job EXCEPT !.status = "ready"]
  /\ UNCHANGED <<steps, scenes, tasks, active, exports, counters>>

\* DELETE cascades to the steps and the scenes.
DeleteJob(r) ==
  /\ Writes(r, "delete")
  /\ job' = [job EXCEPT !.status = "deleted"]
  /\ UNCHANGED <<steps, scenes, tasks, active, exports, counters>>

\* POST /cancel-step writes the step_control it read, with its step cancelling.
CancelStep(r) ==
  /\ Writes(r, "cancel-step")
  /\ job' = [job EXCEPT !.ctrl = [r.ctrl EXCEPT ![r.step] = "cancelling"]]
  /\ UNCHANGED <<steps, scenes, tasks, active, exports, counters>>

\* POST /simulate-queue completes the job with a sample video.
Simulate(r) ==
  /\ Writes(r, "simulate")
  /\ job' = [job EXCEPT !.status = "completed", !.output = "ok",
                        !.ctrl = [k \in StepIds |-> "completed"]]
  /\ steps' = [k \in StepIds |-> "completed"]
  /\ scenes' = [s \in Scenes |->
       IF s \in Live
       THEN [scenes[s] EXCEPT !.status = "completed",
                              !.video = IF s = 1 THEN "ok" ELSE @]
       ELSE IF s = 1 /\ Live = {} THEN [NoScene EXCEPT !.status = "completed", !.video = "ok"]
       ELSE NoScene]
  /\ UNCHANGED <<tasks, active, exports, counters>>

\* POST /cancel: one UPDATE of a running row.
CancelJob ==
  /\ "cancel" \in Operations
  /\ job.status = "running"
  /\ job' = [job EXCEPT !.status = "cancelling"]
  /\ UNCHANGED <<steps, scenes, tasks, active, reqs, exports, counters>>

\* _claim_job_for_pipeline_retry: a finished row becomes running, and a task is scheduled.
Claim(t, kind, arg) ==
  /\ claims < MaxClaims
  /\ job.status \in {"failed", "completed"}
  /\ tasks[t].pc = "idle"
  /\ job' = [job EXCEPT !.status = "running"]
  /\ tasks' = [tasks EXCEPT ![t] = Scheduled(kind, arg)]
  /\ claims' = claims + 1
  /\ UNCHANGED <<steps, scenes, active, reqs, exports, nreq, crashes>>

RetryStep(t, k) ==
  /\ "retry-step" \in Operations
  /\ job.ctrl[k] # "cancelling"
  /\ Claim(t, "from", k)

RetryScene(t, s) ==
  /\ "retry-scene" \in Operations
  /\ s \in Live
  /\ Claim(t, "scene", s)

-----------------------------------------------------------------------------
(* The registry, the load and the outer handler of a pipeline.             *)

\* (Mutant: the id is added to the registry without a look at it.)
TryBeginUnchecked(t) ==
  /\ tasks[t].pc = "queued"
  /\ active' = active \cup {ReplicaOf[t]}
  /\ Goto(t, "load")
  /\ UNCHANGED <<job, steps, scenes, reqs, exports, counters>>

\* try_begin_exclusive_job_pipeline
TryBegin(t) ==
  /\ tasks[t].pc = "queued"
  /\ ReplicaOf[t] \notin active
  /\ active' = active \cup {ReplicaOf[t]}
  /\ Goto(t, CASE tasks[t].kind = "from" -> "reset"
               [] tasks[t].kind = "scene" -> "retryReset"
               [] OTHER -> "load")
  /\ UNCHANGED <<job, steps, scenes, reqs, exports, counters>>

\* A pipeline of the job is in flight: the task returns at once.
SkipDuplicate(t) ==
  /\ tasks[t].pc = "queued"
  /\ ReplicaOf[t] \in active
  /\ tasks' = [tasks EXCEPT ![t] = Idle]
  /\ UNCHANGED <<job, steps, scenes, active, reqs, exports, counters>>

\* end_exclusive_job_pipeline, after the summary.
EndExclusive(t) ==
  /\ tasks[t].pc = "release"
  /\ active' = active \ {ReplicaOf[t]}
  /\ tasks' = [tasks EXCEPT ![t] = Idle]
  /\ UNCHANGED <<job, steps, scenes, reqs, exports, counters>>

\* The row was deleted under the task: its next statement fails and nothing is written.
Gone(t) ==
  /\ job.status = "deleted"
  /\ Inside(t)
  /\ tasks[t].pc # "release"
  /\ Goto(t, "release")
  /\ UNCHANGED <<job, steps, scenes, active, reqs, exports, counters>>


\* _execute_pipeline reads the job: a stale cancel is finalised, any other status but running aborts.
Load(t) ==
  /\ At(t, "load")
  /\ \/ /\ job.status = "running"
        /\ tasks' = [tasks EXCEPT ![t].pc = "loaded", ![t].ctrl = job.ctrl]
        /\ UNCHANGED job
     \/ /\ job.status = "cancelling"
        /\ job' = [job EXCEPT !.status = "cancelled"]
        /\ Goto(t, "release")
     \/ /\ job.status \notin {"running", "cancelling"}
        /\ Goto(t, "release")
        /\ UNCHANGED job
  /\ UNCHANGED <<steps, scenes, active, reqs, exports, counters>>

\* reset_steps_from: the steps before from are completed, the others pending again; the row,
\* whatever its status has become since the claim, is running.
ResetStepsFrom(t) ==
  LET from == tasks[t].arg IN
  /\ At(t, "reset")
  /\ steps' = [k \in StepIds |-> IF k < from THEN "completed" ELSE "pending"]
  /\ job' = [job EXCEPT !.status = "running", !.output = "none", !.ctrl = steps']
  /\ scenes' = CASE from = SceneGeneration -> [s \in Scenes |-> NoScene]
                 [] from = ImageGeneration -> [s \in Scenes |-> IF s \in Live THEN FreshScene ELSE NoScene]
                 [] from = VideoGeneration ->
                      [s \in Scenes |->
                         IF s \in Live
                         THEN [scenes[s] EXCEPT !.video = "none",
                                 !.status = IF HasImage(s) THEN "completed" ELSE "pending"]
                         ELSE NoScene]
                 [] OTHER -> scenes
  /\ Goto(t, "load")
  /\ UNCHANGED <<active, reqs, exports, counters>>

\* (Mutant: the job is finalised and the pipeline goes on.)
FinalizeAndContinue(t) ==
  /\ \E pc \in StepChecks : At(t, pc)
  /\ job.status = "cancelling"
  /\ job' = [job EXCEPT !.status = "cancelled", !.ctrl = [k \in StepIds |-> "cancelled"]]
  /\ Goto(t, "done")
  /\ UNCHANGED <<steps, scenes, active, reqs, exports, counters>>

\* (Mutant: the step's row is left as it is.)
FinalizeJobOnly(t) ==
  /\ \E pc \in JobChecks : At(t, pc)
  /\ job.status = "cancelling"
  /\ job' = [job EXCEPT !.status = "cancelled", !.ctrl = [k \in StepIds |-> "cancelled"]]
  /\ Goto(t, IF tasks[t].kind = "scene" THEN "retryFailed" ELSE "release")
  /\ UNCHANGED <<steps, scenes, active, reqs, exports, counters>>

\* _finalize_job_cancelled, reached from a check that reads cancelling.
FinalizeCancelled(t) ==
  /\ \E pc \in JobChecks : At(t, pc)
  /\ job.status = "cancelling"
  /\ job' = [job EXCEPT !.status = "cancelled", !.ctrl = [k \in StepIds |-> "cancelled"]]
  /\ steps' = [k \in StepIds |-> IF k = tasks[t].step /\ steps[k] \in {"running", "pending"}
                                 THEN "cancelled" ELSE steps[k]]
  /\ Goto(t, IF tasks[t].kind = "scene" THEN "retryFailed" ELSE "release")
  /\ UNCHANGED <<scenes, active, reqs, exports, counters>>

\* _abort_if_step_cancelling and the StepCancelled handler: the step stops, the pipeline returns,
\* and the row keeps its status.  Before the step has started nothing catches StepCancelled.
StopStep(t) ==
  LET k == tasks[t].step IN
  /\ \E pc \in StepChecks : At(t, pc)
  /\ job.status # "cancelling"
  /\ Stopping(t)
  /\ job' = [job EXCEPT !.ctrl[k] = "cancelled"]
  /\ \/ /\ tasks[t].pc = "check"
        /\ Goto(t, "error")
        /\ UNCHANGED steps
     \/ /\ tasks[t].pc # "check" /\ tasks[t].kind = "scene"
        /\ Goto(t, "retryFailed")
        /\ UNCHANGED steps
     \/ /\ tasks[t].pc # "check" /\ tasks[t].kind # "scene"
        /\ steps' = [steps EXCEPT ![k] = "cancelled"]
        /\ Goto(t, "release")
  /\ UNCHANGED <<scenes, active, reqs, exports, counters>>

\* The step's except branch, which re-raises.
StepFailed(t) ==
  /\ At(t, "stepFailed")
  /\ steps' = [steps EXCEPT ![tasks[t].step] = "failed"]
  /\ job' = [job EXCEPT !.ctrl = [tasks[t].ctrl EXCEPT ![tasks[t].step] = "pending"]]
  /\ tasks' = [tasks EXCEPT ![t].pc = "error", ![t].ctrl = job'.ctrl]
  /\ UNCHANGED <<scenes, active, reqs, exports, counters>>

\* The outer except: with the media delivered the job is completed all the same.
PipelineError(t) ==
  /\ At(t, "error")
  /\ job' = IF job.status = "cancelled" THEN job
            ELSE [job EXCEPT !.status = IF MediaDelivered THEN "completed" ELSE "failed"]
  /\ Goto(t, "release")
  /\ UNCHANGED <<steps, scenes, active, reqs, exports, counters>>

-----------------------------------------------------------------------------
(* The steps.                                                              *)

\* The check before the loop, then the first step that is not completed.
Loaded(t) ==
  /\ At(t, "loaded")
  /\ job.status # "cancelling"
  /\ tasks' = [tasks EXCEPT ![t].pc = "next", ![t].step = 0]
  /\ UNCHANGED <<job, steps, scenes, active, reqs, exports, counters>>

\* A completed step is passed over; its step_control is brought in line.
SkipCompleted(t) ==
  LET k == tasks[t].step + 1 IN
  /\ At(t, "next")
  /\ k \in StepIds
  /\ steps[k] = "completed"
  /\ job' = [job EXCEPT !.ctrl[k] = "completed"]
  /\ tasks' = [tasks EXCEPT ![t].step = k, ![t].ctrl = job'.ctrl]
  /\ UNCHANGED <<steps, scenes, active, reqs, exports, counters>>

EnterStep(t) ==
  LET k == tasks[t].step + 1 IN
  /\ At(t, "next")
  /\ k \in StepIds
  /\ steps[k] # "completed"
  /\ tasks' = [tasks EXCEPT ![t].pc = "check", ![t].step = k]
  /\ UNCHANGED <<job, steps, scenes, active, reqs, exports, counters>>

CheckStep(t) ==
  /\ Passes(t, "check")
  /\ tasks' = [tasks EXCEPT ![t] = Checked(t, "start")]
  /\ UNCHANGED <<job, steps, scenes, active, reqs, exports, counters>>

\* The body a step runs in each mode; "done" where the mode skips the step.
Body(k, mode) ==
  CASE k = SceneGeneration -> "plan"
    [] k = ImageGeneration -> CASE mode = "scene_based" -> "image"
                                [] mode = "single_image" -> "photo"
                                [] OTHER -> "done"
    [] k = VideoGeneration -> CASE mode = "scene_based" -> "video"
                                [] mode = "single_image" -> "done"
                                [] OTHER -> "clip"
    [] k = Assembly        -> IF mode = "scene_based" THEN "assembly" ELSE "done"
    [] OTHER               -> "distribution"

StartStep(t) ==
  LET k == tasks[t].step IN
  /\ At(t, "start")
  /\ steps' = [steps EXCEPT ![k] = "running"]
  /\ job' = [job EXCEPT !.ctrl = [tasks[t].ctrl EXCEPT ![k] = "running"]]
  /\ tasks' = [tasks EXCEPT ![t].pc = Body(k, job.mode), ![t].ctrl = job'.ctrl,
                            ![t].cur = 1, ![t].tries = 0, ![t].rows = [s \in Scenes |-> "none"]]
  /\ UNCHANGED <<scenes, active, reqs, exports, counters>>

\* The step's success: its row, and the session's whole step_control with the step completed.
StepDone(t) ==
  LET k == tasks[t].step IN
  /\ At(t, "done")
  /\ tasks[t].kind # "scene"
  /\ steps' = [steps EXCEPT ![k] = "completed"]
  /\ job' = [job EXCEPT !.ctrl = [tasks[t].ctrl EXCEPT ![k] = "completed"]]
  /\ tasks' = [tasks EXCEPT ![t].pc = "next", ![t].ctrl = job'.ctrl]
  /\ UNCHANGED <<scenes, active, reqs, exports, counters>>

\* scene_generation: scenes that exist are kept, else a plan is asked for.
PlanScenes(t) ==
  /\ Passes(t, "plan")
  /\ \E pc \in (IF Live # {} THEN {"done"} ELSE {"planned", "stepFailed"}) :
        tasks' = [tasks EXCEPT ![t] = Checked(t, pc)]
  /\ UNCHANGED <<job, steps, scenes, active, reqs, exports, counters>>

\* The plan has arrived and the user has not stopped the step: the scenes are inserted.
StorePlan(t) ==
  /\ Passes(t, "planned")
  /\ scenes' = ScenesOf(job.mode)
  /\ tasks' = [tasks EXCEPT ![t] = Checked(t, "done")]
  /\ UNCHANGED <<job, steps, active, reqs, exports, counters>>

\* image_generation of a storyboard: scene by scene, two keyframes each.
ImageScene(t) ==
  LET s == tasks[t].cur IN
  /\ Passes(t, "image")
  /\ s \in Live
  /\ scenes' = [scenes EXCEPT ![s].status = "running"]
  /\ tasks' = [tasks EXCEPT ![t] = Checked(t, "first")]
  /\ UNCHANGED <<job, steps, active, reqs, exports, counters>>

FirstKeyframe(t) ==
  /\ Passes(t, "first")
  /\ tasks' = [tasks EXCEPT ![t] = Checked(t, "second")]
  /\ UNCHANGED <<job, steps, scenes, active, reqs, exports, counters>>

SecondKeyframe(t) ==
  /\ Passes(t, "second")
  /\ tasks' = [tasks EXCEPT ![t] = Checked(t, "keyframes")]
  /\ UNCHANGED <<job, steps, scenes, active, reqs, exports, counters>>

\* (Mutant: any keyframe makes the scene partial.)
KeyframesAnyUrl(t) ==
  LET s == tasks[t].cur IN
  /\ At(t, "keyframes")
  /\ \E a, b \in Urls :
       scenes' = [scenes EXCEPT ![s] =
         [@ EXCEPT !.start = a, !.end = b,
                   !.status = CASE a = "ok" /\ b = "ok" -> "completed"
                                [] a = "none" /\ b = "none" -> "failed"
                                [] OTHER -> "partial"]]
  /\ tasks' = [tasks EXCEPT ![t].pc = "image", ![t].cur = s + 1]
  /\ UNCHANGED <<job, steps, active, reqs, exports, counters>>

\* The keyframes are in: both, one or none is usable.  An exception of the first call leaves no URL.
KeyframesDone(t) ==
  LET s == tasks[t].cur IN
  /\ At(t, "keyframes")
  /\ \E a, b \in Urls :
       scenes' = [scenes EXCEPT ![s] =
         [@ EXCEPT !.start = a, !.end = b,
                   !.status = IF a = "ok" /\ b = "ok" THEN "completed"
                              ELSE IF "error" \notin {a, b} /\ "ok" \in {a, b} THEN "partial"
                              ELSE "failed"]]
  /\ tasks' = [tasks EXCEPT ![t].pc = "image", ![t].cur = s + 1]
  /\ UNCHANGED <<job, steps, active, reqs, exports, counters>>

\* No scene with a usable keyframe fails the step.
ImagesDone(t) ==
  /\ At(t, "image")
  /\ tasks[t].cur \notin Live
  /\ tasks' = [tasks EXCEPT ![t].ctrl = job.ctrl,
                 ![t].pc = IF \E s \in Live : scenes[s].status \in {"completed", "partial"}
                           THEN "done" ELSE "stepFailed"]
  /\ UNCHANGED <<job, steps, scenes, active, reqs, exports, counters>>

\* image_generation of a photo: one image, which is the job's output.
PhotoStart(t) ==
  /\ Passes(t, "photo")
  /\ Live # {}
  /\ scenes' = [scenes EXCEPT ![1].status = "running"]
  /\ tasks' = [tasks EXCEPT ![t] = Checked(t, "photoCall")]
  /\ UNCHANGED <<job, steps, active, reqs, exports, counters>>

PhotoDone(t) ==
  /\ At(t, "photoCall")
  /\ \/ /\ scenes' = [scenes EXCEPT ![1].status = "completed", ![1].start = "ok"]
        /\ job' = [job EXCEPT !.output = "ok"]
        /\ Goto(t, "done")
     \/ /\ scenes' = [scenes EXCEPT ![1].status = "failed"]
        /\ Goto(t, "stepFailed")
        /\ UNCHANGED job
  /\ UNCHANGED <<steps, active, reqs, exports, counters>>

\* video_generation of a storyboard: a provider task for every scene whose images are complete.
VideoStart(t) ==
  /\ Passes(t, "video")
  /\ tasks' = [tasks EXCEPT ![t] = [Checked(t, "clips") EXCEPT !.rows =
       [s \in Scenes |-> CASE s \notin Live -> "none"
                           [] s \in Live /\ scenes[s].status = "completed" -> "called"
                           [] OTHER -> "ineligible"]]]
  /\ UNCHANGED <<job, steps, scenes, active, reqs, exports, counters>>

\* A provider task ends, in any order; the row notes whether the user stopped the job or the step.
VideoReturned(t, s) ==
  /\ At(t, "clips")
  /\ tasks[t].rows[s] = "called"
  /\ \E url \in BOOLEAN :
       tasks' = [tasks EXCEPT ![t].rows[s] =
         CASE job.status = "cancelling" /\ url -> "cancelledWithUrl"
           [] job.status = "cancelling" /\ ~url -> "cancelled"
           [] job.status # "cancelling" /\ Stopping(t) -> "stopped"
           [] OTHER -> IF url THEN "url" ELSE "failed"]
  /\ UNCHANGED <<job, steps, scenes, active, reqs, exports, counters>>

\* All rows are in: a stopped step ends here.
VideosReturned(t) ==
  /\ At(t, "clips")
  /\ \A s \in Scenes : tasks[t].rows[s] # "called"
  /\ IF Stopping(t)
     THEN /\ job' = [job EXCEPT !.ctrl[VideoGeneration] = "cancelled"]
          /\ steps' = [steps EXCEPT ![VideoGeneration] = "cancelled"]
          /\ Goto(t, "release")
     ELSE /\ tasks' = [tasks EXCEPT ![t] = Checked(t, "apply")]
          /\ UNCHANGED <<job, steps>>
  /\ UNCHANGED <<scenes, active, reqs, exports, counters>>

\* The rows are stored one scene at a time, and each time the job's status is read again.
VideoApply(t) ==
  LET s == tasks[t].cur  row == tasks[t].rows[s]  old == scenes[s].status IN
  /\ At(t, "apply")
  /\ s \in Live
  /\ \/ /\ job.status = "cancelled"
        /\ Goto(t, "release")
        /\ UNCHANGED <<job, steps, scenes>>
     \/ /\ job.status = "cancelling" \/ (job.status # "cancelled" /\ row \in {"cancelled", "cancelledWithUrl"})
        /\ scenes' = IF job.status # "cancelling" /\ row = "cancelledWithUrl"
                     THEN [scenes EXCEPT ![s].video = "ok"] ELSE scenes
        /\ job' = [job EXCEPT !.status = "cancelled", !.ctrl = [k \in StepIds |-> "cancelled"]]
        /\ steps' = [steps EXCEPT ![VideoGeneration] = "cancelled"]
        /\ Goto(t, "release")
     \/ /\ job.status \notin {"cancelling", "cancelled"}
        /\ row \notin {"cancelled", "cancelledWithUrl"}
        /\ scenes' = CASE row = "url" -> [scenes EXCEPT ![s].video = "ok"]
                       [] row = "stopped" -> scenes
                       [] OTHER -> [scenes EXCEPT ![s].status = "failed"]
        /\ tasks' = [tasks EXCEPT ![t].cur = s + 1]
        /\ UNCHANGED <<job, steps>>
  /\ UNCHANGED <<active, reqs, exports, counters>>

\* Every scene needs its video.
VideosDone(t) ==
  /\ At(t, "apply")
  /\ tasks[t].cur \notin Live
  /\ tasks' = [tasks EXCEPT ![t].ctrl = job.ctrl,
                 ![t].pc = IF WithVideo = Live /\ Live # {} THEN "done" ELSE "stepFailed"]
  /\ UNCHANGED <<job, steps, scenes, active, reqs, exports, counters>>

\* A single clip has up to three provider tasks, but none after a local timeout; the user is not
\* looked for in between.
ClipFails(t) ==
  \/ /\ tasks[t].tries < 2
     /\ tasks' = [tasks EXCEPT ![t].tries = @ + 1]
  \/ Goto(t, "stepFailed")

\* video_generation of a multi-scene video: the clip is the job's output.
SeedanceClip(t) ==
  /\ At(t, "clip")
  /\ job.mode = "multi_scene_single_video"
  /\ Live # {}
  /\ \/ /\ job' = [job EXCEPT !.output = "ok"]
        /\ Goto(t, "done")
     \/ /\ ClipFails(t)
        /\ UNCHANGED job
  /\ UNCHANGED <<steps, scenes, active, reqs, exports, counters>>

\* video_generation of an AILIVEAI video: the first scene gets the clip too.
AiliveClip(t) ==
  /\ At(t, "clip")
  /\ job.mode = "ailiveai_single_video"
  /\ Live # {}
  /\ \/ /\ job' = [job EXCEPT !.output = "ok"]
        /\ scenes' = [scenes EXCEPT ![1].video = "ok"]
        /\ Goto(t, "done")
     \/ /\ ClipFails(t)
        /\ UNCHANGED <<job, scenes>>
  /\ UNCHANGED <<steps, active, reqs, exports, counters>>

\* A media step of a job without scenes raises.
NoScenes(t) ==
  /\ \E pc \in {"image", "photo", "video", "clip"} : At(t, pc)
  /\ Live = {}
  /\ Goto(t, "stepFailed")
  /\ UNCHANGED <<job, steps, scenes, active, reqs, exports, counters>>

\* assembly: a scene with its keyframes but no video is failed; one clip is the output as it is.
AssemblyStart(t) ==
  /\ Passes(t, "assembly")
  /\ scenes' = [s \in Scenes |->
       IF s \in Live /\ scenes[s].status = "completed" /\ scenes[s].start # "none"
          /\ scenes[s].end # "none" /\ scenes[s].video = "none"
       THEN [scenes[s] EXCEPT !.status = "failed"] ELSE scenes[s]]
  /\ \/ /\ WithVideo = {}
        /\ tasks' = [tasks EXCEPT ![t] = Checked(t, Raised(t))]
        /\ UNCHANGED job
     \/ /\ Cardinality(WithVideo) = 1
        /\ job' = [job EXCEPT !.output = "ok"]
        /\ tasks' = [tasks EXCEPT ![t] = Checked(t, "done")]
     \/ /\ Cardinality(WithVideo) > 1
        /\ tasks' = [tasks EXCEPT ![t] = Checked(t, "concat")]
        /\ UNCHANGED job
  /\ UNCHANGED <<steps, active, reqs, exports, counters>>

\* Merged or not, the first clip is promoted to the output.
Concat(t) ==
  /\ Passes(t, "concat")
  /\ job' = [job EXCEPT !.output = "ok"]
  /\ tasks' = [tasks EXCEPT ![t] = Checked(t, "done")]
  /\ UNCHANGED <<steps, scenes, active, reqs, exports, counters>>

\* distribution: skipped unless the legacy queue is configured; a video job needs its output.
DistributionStart(t) ==
  /\ Passes(t, "distribution")
  /\ tasks' = [tasks EXCEPT ![t] = Checked(t,
       CASE ~LegacyDistribution -> "done"
         [] LegacyDistribution /\ job.mode # "single_image" /\ job.output = "none" -> Raised(t)
         [] OTHER -> "push")]
  /\ UNCHANGED <<job, steps, scenes, active, reqs, exports, counters>>

PushExport(t) ==
  /\ Passes(t, "push")
  /\ exports' = exports + 1
  /\ tasks' = [tasks EXCEPT ![t] = Checked(t, "done")]
  /\ UNCHANGED <<job, steps, scenes, active, reqs, counters>>

\* After the last step: a missing output is taken from the scenes, the assets are registered and
\* the row is completed.  A failing statement rolls the transaction back.
Finish(t) ==
  /\ At(t, "next")
  /\ tasks[t].step = Distribution
  /\ \/ /\ job' = [job EXCEPT !.status = "completed",
                     !.output = IF \/ WithVideo # {}
                                   \/ job.mode = "single_image" /\ \E s \in Live : scenes[s].start = "ok"
                                THEN "ok" ELSE @]
        /\ Goto(t, "release")
     \/ /\ Goto(t, "error")
        /\ UNCHANGED job
  /\ UNCHANGED <<steps, scenes, active, reqs, exports, counters>>

-----------------------------------------------------------------------------
(* The retry of one scene, in four sessions.                               *)

RetryReset(t) ==
  /\ At(t, "retryReset")
  /\ IF tasks[t].arg \in Live
     THEN /\ scenes' = [scenes EXCEPT ![tasks[t].arg] = FreshScene]
          /\ job' = [job EXCEPT !.status = "running"]
          /\ Goto(t, "retrySteps")
     ELSE Goto(t, "release") /\ UNCHANGED <<job, scenes>>
  /\ UNCHANGED <<steps, active, reqs, exports, counters>>

RetrySteps(t) ==
  /\ At(t, "retrySteps")
  /\ steps' = [steps EXCEPT ![ImageGeneration] = "running", ![VideoGeneration] = "pending"]
  /\ Goto(t, "retryMedia")
  /\ UNCHANGED <<job, scenes, active, reqs, exports, counters>>

\* Images and a video, without a look at the job; what the images are is not checked.
RetryMedia(t) ==
  LET s == tasks[t].arg IN
  /\ At(t, "retryMedia")
  /\ \E a, b \in Urls, video \in {"none", "ok"} :
       scenes' = [scenes EXCEPT ![s] =
         [status |-> IF video = "ok" THEN "completed" ELSE "failed",
          start |-> a, end |-> b, video |-> video]]
  /\ Goto(t, "retryFinish")
  /\ UNCHANGED <<job, steps, active, reqs, exports, counters>>

\* The media steps are completed whatever came of the media; assembly runs in every mode.
RetryFinish(t) ==
  /\ At(t, "retryFinish")
  /\ steps' = [steps EXCEPT ![ImageGeneration] = "completed", ![VideoGeneration] = "completed"]
  /\ tasks' = [tasks EXCEPT ![t].pc = "assembly", ![t].step = Assembly]
  /\ UNCHANGED <<job, scenes, active, reqs, exports, counters>>

\* The end of assembly and distribution of a scene retry.
RetryDone(t) ==
  LET k == tasks[t].step IN
  /\ At(t, "done")
  /\ tasks[t].kind = "scene"
  /\ steps' = [steps EXCEPT ![k] = "completed"]
  /\ IF k = Assembly
     THEN /\ tasks' = [tasks EXCEPT ![t].pc = "distribution", ![t].step = Distribution]
          /\ UNCHANGED job
     ELSE /\ job' = [job EXCEPT !.status = "completed"]
          /\ Goto(t, "release")
  /\ UNCHANGED <<scenes, active, reqs, exports, counters>>

\* Its except branch, which a cancellation reaches too.
RetryFailed(t) ==
  /\ At(t, "retryFailed")
  /\ job' = [job EXCEPT !.status = "failed"]
  /\ Goto(t, "release")
  /\ UNCHANGED <<steps, scenes, active, reqs, exports, counters>>

-----------------------------------------------------------------------------
\* A process is restarted: its tasks, its registry and the requests it was answering are gone.
Crash(r) ==
  /\ crashes < MaxCrashes
  /\ crashes' = crashes + 1
  /\ tasks' = [t \in Tasks |-> IF ReplicaOf[t] = r THEN Idle ELSE tasks[t]]
  /\ active' = active \ {r}
  /\ reqs' \in SUBSET reqs
  /\ UNCHANGED <<job, steps, scenes, nreq, claims, exports>>

RequestStep ==
  \/ \E m \in Modes : CreateJob(m)
  \/ \E op \in Operations, k \in StepIds : ReadForRequest(op, k)
  \/ CancelJob
  \/ \E t \in Tasks, k \in StepIds : RetryStep(t, k)
  \/ \E t \in Tasks, s \in Scenes : RetryScene(t, s)

\* Requests under way are answered.
RequestEnd ==
  \E r \in reqs : \/ MarkReady(r) \/ DeleteJob(r) \/ CancelStep(r) \/ Simulate(r) \/ RequestFails(r)
                  \/ \E t \in Tasks : Launch(r, t)

Supervise(t) == TryBegin(t) \/ SkipDuplicate(t) \/ EndExclusive(t) \/ Gone(t) \/ Load(t)
                \/ ResetStepsFrom(t) \/ FinalizeCancelled(t) \/ StopStep(t) \/ StepFailed(t)
                \/ PipelineError(t) \/ Finish(t)

RunStep(t) == Loaded(t) \/ SkipCompleted(t) \/ EnterStep(t) \/ CheckStep(t) \/ StartStep(t)
              \/ StepDone(t) \/ PlanScenes(t) \/ StorePlan(t) \/ NoScenes(t)

MakeImages(t) == ImageScene(t) \/ FirstKeyframe(t) \/ SecondKeyframe(t) \/ KeyframesDone(t)
                 \/ ImagesDone(t) \/ PhotoStart(t) \/ PhotoDone(t)

MakeVideos(t) == VideoStart(t) \/ (\E s \in Scenes : VideoReturned(t, s)) \/ VideosReturned(t)
                 \/ VideoApply(t) \/ VideosDone(t) \/ SeedanceClip(t) \/ AiliveClip(t)

Deliver(t) == AssemblyStart(t) \/ Concat(t) \/ DistributionStart(t) \/ PushExport(t)

RedoScene(t) == RetryReset(t) \/ RetrySteps(t) \/ RetryMedia(t) \/ RetryFinish(t) \/ RetryDone(t)
                \/ RetryFailed(t)

TaskStep(t) == Supervise(t) \/ RunStep(t) \/ MakeImages(t) \/ MakeVideos(t) \/ Deliver(t) \/ RedoScene(t)

Next == RequestStep \/ RequestEnd \/ (\E t \in Tasks : TaskStep(t)) \/ (\E r \in Replicas : Crash(r))

Spec == Init /\ [][Next]_vars

\* The event loop of the process keeps running its tasks and its request handlers, and every
\* provider call ends (each poll loop has a limit).  Nothing obliges a user to send a request.
Fairness == WF_vars(RequestEnd) /\ \A t \in Tasks : WF_vars(TaskStep(t))

FairSpec == Spec /\ Fairness

-----------------------------------------------------------------------------
(* Properties.                                                             *)

TaskPcs == Outside \cup JobChecks \cup
  {"load", "next", "start", "done", "keyframes", "photoCall", "clips", "apply", "clip", "release",
   "error", "stepFailed", "reset", "retryReset", "retrySteps", "retryMedia", "retryFinish",
   "retryFailed"}

Rows == {"none", "ineligible", "called", "url", "failed", "cancelled", "cancelledWithUrl", "stopped"}

TaskType ==
  [pc : TaskPcs, kind : {"none", "pipeline", "from", "scene"}, arg : 0..5 \cup Scenes,
   step : 0..5, cur : Nat, tries : 0..2, ctrl : [StepIds -> Controls], rows : [Scenes -> Rows]]

TypeOK ==
  /\ job \in [status : JobStatuses, mode : AllModes, output : {"none", "ok"},
             ctrl : [StepIds -> Controls]]
  /\ steps \in [StepIds -> StepStatuses]
  /\ scenes \in [Scenes -> [status : SceneStatuses, start : Urls, end : Urls, video : {"none", "ok"}]]
  /\ tasks \in [Tasks -> TaskType]
  /\ active \subseteq Replicas
  /\ reqs \subseteq [id : Nat, op : AllOperations, step : StepIds, ctrl : [StepIds -> Controls]]
  /\ nreq \in Nat /\ claims \in Nat /\ exports \in Nat /\ crashes \in Nat

\* At most one task of a process runs a pipeline of the job, and the registry of the process says
\* whether one does.
OnePipeline ==
  /\ \A r \in Replicas : r \in active <=> \E t \in Tasks : ReplicaOf[t] = r /\ Inside(t)
  /\ \A t, u \in Tasks : Inside(t) /\ Inside(u) /\ ReplicaOf[t] = ReplicaOf[u] => t = u

\* TypeOK and the exclusion of pipelines: launches sent twice, retries and restarts never make
\* two tasks of a process work on one job (try_begin_exclusive_job_pipeline).
GenerationInvariant == TypeOK /\ OnePipeline

\* With one process, nobody generates for a job that is cancelled: the task that finds the cancellation is the one
\* that writes it, and it goes on to nothing but its end (_finalize_job_cancelled).
CancelledIsIdle ==
  job.status = "cancelled" =>
    \A t \in Tasks : tasks[t].pc \in
      Outside \cup {"release", "load", "reset", "retryReset", "retryFailed"}

\* A step row says running only while a pipeline works on the job: every way out of a pipeline,
\* cancellation and failure included, has closed the step it was in.  A restart is the exception.
NoOrphanStep ==
  job.status # "deleted" /\ crashes = 0 /\ active = {} => \A k \in StepIds : steps[k] # "running"

\* The legacy queue gets a job once, and once more for each accepted retry, however often the job
\* is launched (the steps that are completed are passed over).
ExportsAccounted == crashes = 0 => exports <= 1 + claims

\* A job that completes without a retry has its output: a launch never completes on nothing.
LaunchDelivers == job.status = "completed" /\ claims = 0 => job.output = "ok"

\* No scene is completed in a running job whose keyframes the provider refused: an ERROR string
\* stored in place of a URL never counts as an image of a storyboard scene that was not retried.
ErrorsAreNotImages ==
  \A s \in Scenes :
    claims = 0 /\ job.mode = "scene_based" /\ scenes[s].status \in {"completed", "partial"}
      => "error" \notin {scenes[s].start, scenes[s].end}

\* What leaves the pipeline: exports, the output of a completed job, images.
OutputsAccounted == ExportsAccounted /\ LaunchDelivers /\ ErrorsAreNotImages

\* A task that is scheduled or in flight, and one that will write nothing more of the row.
Leaving(t) == tasks[t].pc = "release" \/ (tasks[t].pc = "retryReset" /\ tasks[t].arg \notin Live)
TaskWorks(t) == tasks[t].pc # "idle" /\ ~Leaving(t)

\* A task accepted after the last write of the pipeline in flight and before end_exclusive: if it
\* looks at the registry now, it returns as a duplicate and nobody is left to end the job.
AcceptedTooLate ==
  \E t, u \in Tasks : tasks[t].pc = "queued" /\ Leaving(u) /\ ReplicaOf[t] = ReplicaOf[u]


=============================================================================
