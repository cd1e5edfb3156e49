--------------------------- MODULE PublishPipeline ---------------------------
(***************************************************************************)
(* The publish-intent pipeline: an intent with one target per account is   *)
(* dispatched into a transactional outbox, the outbox is flushed into the  *)
(* Redis list publish:commands, and distribution-engine workers move each  *)
(* command to a processing list of their own, claim the target row, call   *)
(* the Instagram adapter and write the outcome back.  Two services run it: *)
(* the content factory (dispatch, scheduler, outbox flusher) and the       *)
(* distribution engine (workers and the manual-retry endpoint), several    *)
(* processes each.                                                         *)
(*                                                                         *)
(* A command is identified with its target: an intent is dispatched once,  *)
(* so a target has one payload.  The Redis lists are bags, because no      *)
(* property here depends on their order.  One action is one SQL statement, *)
(* one transaction or one Redis command.                                   *)
(***************************************************************************)
EXTENDS Naturals, FiniteSets

CONSTANTS
  Intents,              \* publication_intents rows
  Targets,              \* publication_targets rows
  IntentOf,             \* the intent a target belongs to
  Workers,              \* distribution-engine processes
  Factories,            \* content-factory processes
  NoTarget,             \* not a target: "no command in hand"
  Modes,                \* modes intents may be created with
  MaxRetries,           \* publication_targets.max_retries
  MaxCrashes,           \* bounds of the exploration: worker or request deaths,
  MaxDbErrors,          \*   failing SQL statements,
  MaxRestarts,          \*   content-factory restarts,
  MaxManuals,           \*   operator retries,
  MaxReschedules        \*   reschedule requests

ASSUME PipelineAssumption ==
  /\ IntentOf \in [Targets -> Intents]
  /\ NoTarget \notin Targets
  /\ Modes \subseteq {"publish_now", "save_for_later", "scheduled"}
  /\ MaxRetries \in Nat
  /\ {MaxCrashes, MaxDbErrors, MaxRestarts, MaxManuals, MaxReschedules} \subseteq Nat

VARIABLES
  \* PostgreSQL rows
  intent,       \* publication_intents.status
  mode,         \* publication_intents.mode
  due,          \* scheduled_for <= NOW()
  target,       \* publication_targets.status
  retries,      \* publication_targets.retry_count
  outbox,       \* publish_outbox.status, "none" before dispatch
  publication,  \* status of the publications row mirroring a target
  \* Redis lists
  commands,     \* publish:commands
  processing,   \* publish:processing:{workerId} of each live worker
  orphans,      \* the processing lists of dead workers
  dlq,          \* targets with an envelope in publish:failed
  \* distribution-engine processes: where each is in processPublishCommand
  pc, msg, role, posted, snap,
  scanned,      \* the recovery scan of a worker has seen every orphaned list
  \* content-factory processes: row pushed but not committed, due intents selected
  flushing, batch,
  \* POST /publications/:id/retry in flight, per target
  request,
  \* Instagram and the history of what excuses a further post
  posts, abandoned, excuses,
  \* what was spent of each bound
  crashes, dbErrors, restarts, manuals, reschedules

rowVars     == <<intent, mode, due, target, retries, outbox, publication>>
listVars    == <<commands, processing, orphans, dlq>>
workerVars  == <<pc, msg, role, posted, snap, scanned>>
factoryVars == <<flushing, batch>>
worldVars   == <<posts, abandoned, excuses>>
spentVars   == <<crashes, dbErrors, restarts, manuals, reschedules>>
\* What a worker leaves alone while it processes a command.
restVars    == <<scanned, factoryVars, request, worldVars, spentVars>>
vars == <<rowVars, listVars, workerVars, factoryVars, request, worldVars, spentVars>>

IntentStatus == {"draft", "ready", "queued", "published", "partial_failed", "failed"}
TargetStatus == {"pending", "publishing", "published", "failed", "uncertain"}
PublicationStatus == {"none", "published", "failed", "permanently_failed", "retrying"}

\* The statements of the worker, in program order, named for what they do.
Steps == {"down", "requeue", "stale", "orphans", "idle", "read", "claim", "adapter",
          "save", "fail", "reject", "doubt", "sync", "mirror", "tally", "settle",
          "dlq", "push", "lrem", "catch"}

\* Which branch of processPublishCommand a worker is finishing.
Roles == {"none", "skip", "repeat", "success", "reject", "final"}

\* The worker holds the claim: it moved its target to "publishing" and has not
\* written an outcome yet.
Claimed == {"adapter", "save", "fail", "reject", "doubt"}

RowTypes ==
  /\ intent \in [Intents -> IntentStatus]
  /\ mode \in [Intents -> {"publish_now", "save_for_later", "scheduled"}]
  /\ due \in [Intents -> BOOLEAN]
  /\ target \in [Targets -> TargetStatus]
  /\ retries \in [Targets -> 0..MaxRetries]
  /\ outbox \in [Targets -> {"none", "pending", "sent"}]
  /\ publication \in [Targets -> PublicationStatus]

ListTypes ==
  /\ commands \in [Targets -> Nat]
  /\ processing \in [Workers -> [Targets -> Nat]]
  /\ orphans \in [Targets -> Nat]
  /\ dlq \in SUBSET Targets

WorkerTypes ==
  /\ pc \in [Workers -> Steps]
  /\ msg \in [Workers -> Targets \cup {NoTarget}]
  /\ role \in [Workers -> Roles]
  /\ posted \in [Workers -> BOOLEAN]
  /\ snap \in [Workers -> PublicationStatus \cup IntentStatus]
  /\ scanned \in [Workers -> BOOLEAN]

ServiceTypes ==
  /\ flushing \in [Factories -> Targets \cup {NoTarget}]
  /\ batch \in [Factories -> SUBSET Intents]
  /\ request \in [Targets -> {"idle", "push", "mark"}]

WorldTypes ==
  /\ posts \in [Targets -> Nat]
  /\ abandoned \in [Targets -> Nat]
  /\ excuses \in [Targets -> Nat]

SpentTypes == {crashes, dbErrors, restarts, manuals, reschedules} \subseteq Nat

TypeOK ==
  RowTypes /\ ListTypes /\ WorkerTypes /\ ServiceTypes /\ WorldTypes /\ SpentTypes

-----------------------------------------------------------------------------
(* Helpers *)

EmptyBag     == [t \in Targets |-> 0]
Put(bag, t)  == [bag EXCEPT ![t] = @ + 1]
Take(bag, t) == [bag EXCEPT ![t] = @ - 1]

\* LREM key 1 payload: nothing happens when the payload is not there.
Remove(bag, t) == IF bag[t] > 0 THEN Take(bag, t) ELSE bag

TargetsOf(i) == {t \in Targets : IntentOf[t] = i}

\* The publications status a terminal target is mirrored to, "none" otherwise.
PublicationOf(t) ==
  CASE target[t] = "published" -> "published"
    [] target[t] = "uncertain" -> "failed"
    [] target[t] = "failed" /\ retries[t] >= MaxRetries -> "permanently_failed"
    [] target[t] = "failed" /\ retries[t] < MaxRetries -> "failed"
    [] OTHER -> "none"

\* The intent status the targets add up to, "none" while one of them is open.
TallyOf(i) ==
  LET all == TargetsOf(i)
      ok  == {t \in all : target[t] = "published"}
      bad == {t \in all : target[t] \in {"failed", "uncertain"}}
  IN  IF all = {} \/ ok \cup bad # all THEN "none"
      ELSE IF ok = all THEN "published"
      ELSE IF bad = all THEN "failed"
      ELSE "partial_failed"

\* Worker w is in the middle of an attempt on target t.
Attempting(w, t) == pc[w] \in Claimed /\ msg[w] = t

Init ==
  /\ mode \in [Intents -> Modes]
  /\ intent = [i \in Intents |-> IF mode[i] = "save_for_later" THEN "draft" ELSE "ready"]
  /\ due = [i \in Intents |-> FALSE]
  /\ target = [t \in Targets |-> "pending"]
  /\ retries = [t \in Targets |-> 0]
  /\ outbox = [t \in Targets |-> "none"]
  /\ publication = [t \in Targets |-> "none"]
  /\ commands = EmptyBag
  /\ processing = [w \in Workers |-> EmptyBag]
  /\ orphans = EmptyBag
  /\ dlq = {}
  /\ pc = [w \in Workers |-> "down"]
  /\ msg = [w \in Workers |-> NoTarget]
  /\ role = [w \in Workers |-> "none"]
  /\ posted = [w \in Workers |-> FALSE]
  /\ snap = [w \in Workers |-> "none"]
  /\ scanned = [w \in Workers |-> FALSE]
  /\ flushing = [f \in Factories |-> NoTarget]
  /\ batch = [f \in Factories |-> {}]
  /\ request = [t \in Targets |-> "idle"]
  /\ posts = [t \in Targets |-> 0]
  /\ abandoned = [t \in Targets |-> 0]
  /\ excuses = [t \in Targets |-> 0]
  /\ crashes = 0
  /\ dbErrors = 0
  /\ restarts = 0
  /\ manuals = 0
  /\ reschedules = 0

-----------------------------------------------------------------------------
(* Content factory: dispatch, schedule, outbox *)

\* The dispatch transaction, on the row lock of the intent.
Dispatch(i) ==
  /\ intent[i] = "ready"
  /\ TargetsOf(i) # {}
  /\ intent' = [intent EXCEPT ![i] = "queued"]
  /\ target' = [t \in Targets |->
                  IF IntentOf[t] = i /\ target[t] \in {"pending", "failed", "uncertain"}
                  THEN "pending" ELSE target[t]]
  /\ outbox' = [t \in Targets |-> IF IntentOf[t] = i THEN "pending" ELSE outbox[t]]
  /\ UNCHANGED <<mode, due, retries, publication>>

\* POST /publication-intents/:id/dispatch
PublishNow(i) ==
  /\ Dispatch(i)
  /\ UNCHANGED <<listVars, workerVars, factoryVars, request, worldVars, spentVars>>

\* scheduled_for is reached.
BecomesDue(i) ==
  /\ mode[i] = "scheduled" /\ ~due[i]
  /\ due' = [due EXCEPT ![i] = TRUE]
  /\ UNCHANGED <<intent, mode, target, retries, outbox, publication, listVars, workerVars,
                 factoryVars, request, worldVars, spentVars>>

\* The scheduler reads the due intents in a session of its own ...
SelectDue(f) ==
  LET found == {i \in Intents : mode[i] = "scheduled" /\ intent[i] = "ready" /\ due[i]}
  IN  /\ batch[f] = {} /\ found # {}
      /\ batch' = [batch EXCEPT ![f] = found]
      /\ UNCHANGED <<rowVars, listVars, workerVars, flushing, request, worldVars, spentVars>>

\* ... and dispatches each of them in another one, or is refused: the intent is
\* not "ready" any more, or its asset or an account does not pass the checks.
DispatchSelected(f, i) ==
  /\ i \in batch[f]
  /\ batch' = [batch EXCEPT ![f] = @ \ {i}]
  /\ Dispatch(i) \/ UNCHANGED rowVars
  /\ UNCHANGED <<listVars, workerVars, flushing, request, worldVars, spentVars>>

\* PATCH of the schedule: the new time is in the future or already past.
Reschedule(i, past) ==
  /\ reschedules < MaxReschedules
  /\ intent[i] \notin {"queued", "published", "partial_failed"}
  /\ mode' = [mode EXCEPT ![i] = "scheduled"]
  /\ due' = [due EXCEPT ![i] = past]
  /\ intent' = [intent EXCEPT ![i] = IF @ = "draft" THEN "ready" ELSE @]
  /\ reschedules' = reschedules + 1
  /\ UNCHANGED <<target, retries, outbox, publication, listVars, workerVars, factoryVars,
                 request, worldVars, crashes, dbErrors, restarts, manuals>>

\* (Mutant: the row is marked although the LPUSH did not happen.)
FlushPushLost(f, t) ==
  /\ flushing[f] = NoTarget /\ outbox[t] = "pending"
  /\ \A g \in Factories : flushing[g] # t
  /\ flushing' = [flushing EXCEPT ![f] = t]
  /\ UNCHANGED <<rowVars, listVars, workerVars, batch, request, worldVars, spentVars>>

\* One flusher transaction: lock a pending row nobody else has locked, LPUSH ...
FlushPush(f, t) ==
  /\ flushing[f] = NoTarget
  /\ outbox[t] = "pending"
  /\ \A g \in Factories : flushing[g] # t
  /\ flushing' = [flushing EXCEPT ![f] = t]
  /\ commands' = Put(commands, t)
  /\ UNCHANGED <<rowVars, processing, orphans, dlq, workerVars, batch, request, worldVars,
                 spentVars>>

\* ... mark it sent and commit.
FlushCommit(f) ==
  /\ flushing[f] # NoTarget
  /\ outbox' = [outbox EXCEPT ![flushing[f]] = "sent"]
  /\ flushing' = [flushing EXCEPT ![f] = NoTarget]
  /\ UNCHANGED <<intent, mode, due, target, retries, publication, listVars, workerVars, batch,
                 request, worldVars, spentVars>>

\* A content-factory process dies, its open transaction rolled back, and its
\* successor returns sent rows it takes for lost to "pending": any of them may
\* be old enough.
FactoryRestart(f, old) ==
  /\ restarts < MaxRestarts
  /\ restarts' = restarts + 1
  /\ flushing' = [flushing EXCEPT ![f] = NoTarget]
  /\ batch' = [batch EXCEPT ![f] = {}]
  /\ \A t \in old : outbox[t] = "sent" /\ target[t] = "pending" /\ retries[t] = 0
  /\ outbox' = [t \in Targets |-> IF t \in old THEN "pending" ELSE outbox[t]]
  /\ UNCHANGED <<intent, mode, due, target, retries, publication, listVars, workerVars,
                 request, worldVars, crashes, dbErrors, manuals, reschedules>>

-----------------------------------------------------------------------------
(* Distribution engine: start of a worker and its recovery steps *)

At(w, step)   == pc[w] = step
Goto(w, step) == pc' = [pc EXCEPT ![w] = step]

\* Back to the poll loop with nothing in hand.
Finish(w) ==
  /\ Goto(w, "idle")
  /\ msg' = [msg EXCEPT ![w] = NoTarget]
  /\ role' = [role EXCEPT ![w] = "none"]
  /\ posted' = [posted EXCEPT ![w] = FALSE]
  /\ snap' = [snap EXCEPT ![w] = "none"]

\* The process comes up, and SCAN collects the processing lists there are.
Start(w) ==
  /\ At(w, "down")
  /\ Goto(w, "requeue")
  /\ scanned' = [scanned EXCEPT ![w] = TRUE]
  /\ UNCHANGED <<rowVars, listVars, msg, role, posted, snap, factoryVars, request, worldVars,
                 spentVars>>

\* RPOP from one of the publish:processing:* lists: those of dead workers, and
\* those of the other live ones, which the scan matches as well ...
RecoverTake(w, t) ==
  /\ At(w, "requeue") /\ msg[w] = NoTarget
  /\ \/ /\ orphans[t] > 0
        /\ orphans' = Take(orphans, t)
        /\ UNCHANGED processing
     \/ \E v \in Workers :
          /\ processing[v][t] > 0
          /\ processing' = [processing EXCEPT ![v] = Take(@, t)]
          /\ UNCHANGED orphans
  /\ msg' = [msg EXCEPT ![w] = t]
  /\ UNCHANGED <<rowVars, commands, dlq, pc, role, posted, snap, restVars>>

\* ... and LPUSH of what was popped.
RecoverPut(w) ==
  /\ At(w, "requeue") /\ msg[w] # NoTarget
  /\ commands' = Put(commands, msg[w])
  /\ msg' = [msg EXCEPT ![w] = NoTarget]
  /\ UNCHANGED <<rowVars, processing, orphans, dlq, pc, role, posted, snap, restVars>>

\* The lists collected are empty.  One orphaned since the scan may be left over.
RecoverDone(w) ==
  /\ At(w, "requeue") /\ msg[w] = NoTarget
  /\ scanned[w] => orphans = EmptyBag
  /\ Goto(w, "stale")
  /\ scanned' = [scanned EXCEPT ![w] = FALSE]
  /\ UNCHANGED <<rowVars, listVars, msg, role, posted, snap, factoryVars, request, worldVars,
                 spentVars>>

\* Rows "publishing" for longer than the stale timeout.  An attempt is cut off
\* by the adapter timeout, which is well below it, so no live attempt is that
\* old; any row without one may be.
StaleCandidates ==
  {t \in Targets : /\ target[t] = "publishing"
                   /\ \A v \in Workers : ~Attempting(v, t)}

\* (Mutant: the budget compared one too early.)
RepairStaleEarly(w, old) ==
  /\ At(w, "stale")
  /\ old \subseteq StaleCandidates
  /\ target' = [t \in Targets |->
                  IF t \notin old THEN target[t]
                  ELSE IF retries[t] + 1 < MaxRetries THEN "pending" ELSE "failed"]
  /\ Goto(w, "orphans")
  /\ UNCHANGED <<intent, mode, due, retries, outbox, publication, listVars, msg, role, posted,
                 snap, restVars>>

\* recoverStalePublishingTargets: the rows are freed or failed.  No command is
\* pushed for them and the publications row is left alone.
RepairStale(w, old) ==
  /\ At(w, "stale")
  /\ old \subseteq StaleCandidates
  /\ target' = [t \in Targets |->
                  IF t \notin old THEN target[t]
                  ELSE IF retries[t] < MaxRetries THEN "pending" ELSE "failed"]
  /\ Goto(w, "orphans")
  /\ UNCHANGED <<intent, mode, due, retries, outbox, publication, listVars, msg, role, posted,
                 snap, restVars>>

\* recoverOrphanQueuedPublicationIntents: one UPDATE over all queued intents.
RepairIntents(w) ==
  /\ At(w, "orphans")
  /\ intent' = [i \in Intents |->
                  IF intent[i] = "queued" /\ TallyOf(i) # "none" THEN TallyOf(i) ELSE intent[i]]
  /\ Goto(w, "idle")
  /\ UNCHANGED <<mode, due, target, retries, outbox, publication, listVars, msg, role, posted,
                 snap, restVars>>

-----------------------------------------------------------------------------
(* Distribution engine: processPublishCommand *)

\* BRPOPLPUSH.  The poll loop is re-armed only when the command is finished, so
\* a worker has one command in hand whatever MAX_PUBLISH_CONCURRENT says.
Receive(w, t) ==
  /\ At(w, "idle")
  /\ commands[t] > 0
  /\ commands' = Take(commands, t)
  /\ processing' = [processing EXCEPT ![w] = Put(@, t)]
  /\ msg' = [msg EXCEPT ![w] = t]
  /\ Goto(w, "read")
  /\ UNCHANGED <<rowVars, orphans, dlq, role, posted, snap, restVars>>

\* SELECT status: where a command for each status goes.
AfterRead(status) ==
  CASE status = "pending"   -> [step |-> "claim", role |-> "none"]
    [] status = "published" -> [step |-> "sync",  role |-> "repeat"]
    [] status = "failed"    -> [step |-> "dlq",   role |-> "skip"]
    [] OTHER                -> [step |-> "lrem",  role |-> "skip"]

Read(w) ==
  /\ At(w, "read")
  /\ Goto(w, AfterRead(target[msg[w]]).step)
  /\ role' = [role EXCEPT ![w] = AfterRead(target[msg[w]]).role]
  /\ UNCHANGED <<rowVars, listVars, msg, posted, snap, restVars>>

\* (Mutant: the claim without its WHERE status = 'pending'.)
ClaimUnguarded(w) ==
  /\ At(w, "claim")
  /\ target' = [target EXCEPT ![msg[w]] = "publishing"]
  /\ Goto(w, "adapter")
  /\ UNCHANGED <<intent, mode, due, retries, outbox, publication, listVars, msg, role, posted,
                 snap, restVars>>

\* UPDATE ... SET status = 'publishing' WHERE status = 'pending'
Claim(w) ==
  /\ At(w, "claim")
  /\ \/ /\ target[msg[w]] = "pending"
        /\ target' = [target EXCEPT ![msg[w]] = "publishing"]
        /\ Goto(w, "adapter")
        /\ UNCHANGED role
     \/ /\ target[msg[w]] # "pending"
        /\ Goto(w, "push")
        /\ role' = [role EXCEPT ![w] = "skip"]
        /\ UNCHANGED target
  /\ UNCHANGED <<intent, mode, due, retries, outbox, publication, listVars, msg, posted, snap,
                 restVars>>

\* The adapter call: token, container, wait for the container, media_publish.
\* media_publish takes effect at Instagram.
PostGoesOut(w) ==
  /\ At(w, "adapter") /\ ~posted[w]
  /\ posts' = [posts EXCEPT ![msg[w]] = @ + 1]
  /\ posted' = [posted EXCEPT ![w] = TRUE]
  /\ UNCHANGED <<rowVars, listVars, pc, msg, role, snap, scanned, factoryVars, request,
                 abandoned, excuses, spentVars>>

\* (Mutant: result.success is not looked at.)
AdapterAlwaysSucceeds(w) ==
  /\ At(w, "adapter")
  /\ Goto(w, "save")
  /\ UNCHANGED <<rowVars, listVars, msg, role, posted, snap, restVars>>

AdapterSucceeds(w) ==
  /\ At(w, "adapter") /\ posted[w]
  /\ Goto(w, "save")
  /\ UNCHANGED <<rowVars, listVars, msg, role, posted, snap, restVars>>

\* A failure before the container is waited for: safe to retry.
AdapterFailsEarly(w) ==
  /\ At(w, "adapter") /\ ~posted[w]
  /\ Goto(w, "fail")
  /\ UNCHANGED <<rowVars, listVars, msg, role, posted, snap, restVars>>

\* A failure in wait_container or publish_container, where the post may exist.
AdapterFailsLate(w) ==
  /\ At(w, "adapter")
  /\ Goto(w, "doubt")
  /\ UNCHANGED <<rowVars, listVars, msg, role, posted, snap, restVars>>

\* (Mutant: a timeout is retried like any other failure.)
AdapterTimeoutRetried(w) ==
  /\ At(w, "adapter") /\ ~posted[w]
  /\ Goto(w, "fail")
  /\ abandoned' = [abandoned EXCEPT ![msg[w]] = @ + 1]
  /\ UNCHANGED <<rowVars, listVars, msg, role, posted, snap, scanned, factoryVars, request,
                 posts, excuses, spentVars>>

\* PUBLISH_EXECUTION_TIMEOUT wins the race and nothing cancels the call, or the
\* media_publish request times out while Instagram still acts on it.
AdapterTimesOut(w) ==
  /\ At(w, "adapter") /\ ~posted[w]
  /\ Goto(w, "doubt")
  /\ abandoned' = [abandoned EXCEPT ![msg[w]] = @ + 1]
  /\ UNCHANGED <<rowVars, listVars, msg, role, posted, snap, scanned, factoryVars, request,
                 posts, excuses, spentVars>>

\* A call nobody waits for reaches Instagram after all, or ends without effect.
AbandonedCallEnds(t, effect) ==
  /\ abandoned[t] > 0
  /\ abandoned' = [abandoned EXCEPT ![t] = @ - 1]
  /\ posts' = IF effect THEN [posts EXCEPT ![t] = @ + 1] ELSE posts
  /\ UNCHANGED <<rowVars, listVars, workerVars, factoryVars, request, excuses, spentVars>>

\* (Mutant: the outcome without its WHERE status = 'publishing'.)
SaveUnguarded(w) ==
  /\ At(w, "save")
  /\ target' = [target EXCEPT ![msg[w]] = "published"]
  /\ Goto(w, "sync")
  /\ role' = [role EXCEPT ![w] = "success"]
  /\ UNCHANGED <<intent, mode, due, retries, outbox, publication, listVars, msg, posted, snap,
                 restVars>>

\* UPDATE ... SET status = 'published' WHERE status = 'publishing'
Save(w) ==
  /\ At(w, "save")
  /\ IF target[msg[w]] = "publishing"
     THEN /\ target' = [target EXCEPT ![msg[w]] = "published"]
          /\ Goto(w, "sync")
          /\ role' = [role EXCEPT ![w] = "success"]
     ELSE /\ Goto(w, "lrem")
          /\ role' = [role EXCEPT ![w] = "skip"]
          /\ UNCHANGED target
  /\ UNCHANGED <<intent, mode, due, retries, outbox, publication, listVars, msg, posted, snap,
                 restVars>>

\* (Mutant: the retry without its LPUSH.)
RetryUnqueued(w) ==
  /\ At(w, "fail") /\ target[msg[w]] = "publishing" /\ retries[msg[w]] < MaxRetries
  /\ retries' = [retries EXCEPT ![msg[w]] = @ + 1]
  /\ target' = [target EXCEPT ![msg[w]] = "pending"]
  /\ Goto(w, "lrem")
  /\ role' = [role EXCEPT ![w] = "skip"]
  /\ UNCHANGED <<intent, mode, due, outbox, publication, listVars, msg, posted, snap, restVars>>

\* (Mutant: a failure that may be retried is not.)
RetryRefused(w) ==
  /\ At(w, "fail")
  /\ Goto(w, "reject")
  /\ UNCHANGED <<rowVars, listVars, msg, role, posted, snap, restVars>>

\* handlePublishFailure, a retry is allowed: back to "pending" while the budget lasts.
Retry(w) ==
  LET t == msg[w] IN
  /\ At(w, "fail")
  /\ \/ /\ target[t] = "publishing" /\ retries[t] < MaxRetries
        /\ retries' = [retries EXCEPT ![t] = @ + 1]
        /\ target' = [target EXCEPT ![t] = "pending"]
        /\ Goto(w, "push")
        /\ role' = [role EXCEPT ![w] = "skip"]
     \/ /\ ~(target[t] = "publishing" /\ retries[t] < MaxRetries)
        /\ Goto(w, "reject")
        /\ UNCHANGED <<target, retries, role>>
  /\ UNCHANGED <<intent, mode, due, outbox, publication, listVars, msg, posted, snap, restVars>>

\* handlePublishFailure, no retry: "failed", or "uncertain" when the post may exist.
Reject(w) ==
  /\ pc[w] \in {"reject", "doubt"}
  /\ target' = [target EXCEPT ![msg[w]] =
                  IF @ # "publishing" THEN @
                  ELSE IF pc[w] = "doubt" THEN "uncertain" ELSE "failed"]
  /\ Goto(w, "sync")
  /\ role' = [role EXCEPT ![w] = "reject"]
  /\ UNCHANGED <<intent, mode, due, retries, outbox, publication, listVars, msg, posted, snap,
                 restVars>>

-----------------------------------------------------------------------------
(* Distribution engine: mirroring the outcome, acknowledging the command *)

\* (Mutant: only successes are mirrored.)
SyncPublishedOnly(w) ==
  /\ At(w, "sync")
  /\ snap' = [snap EXCEPT ![w] = IF target[msg[w]] = "published" THEN "published" ELSE "none"]
  /\ Goto(w, "mirror")
  /\ UNCHANGED <<rowVars, listVars, msg, role, posted, restVars>>

\* syncPublicationRowForIntentTarget reads the target row ...
Sync(w) ==
  /\ At(w, "sync")
  /\ snap' = [snap EXCEPT ![w] = PublicationOf(msg[w])]
  /\ Goto(w, "mirror")
  /\ UNCHANGED <<rowVars, listVars, msg, role, posted, restVars>>

\* The first step after the outcome is mirrored and tallied.
Acknowledge(w) == IF role[w] = "reject" THEN "dlq" ELSE "lrem"

\* ... and writes its mirror, unless the row read was not terminal.
Mirror(w) ==
  /\ At(w, "mirror")
  /\ IF snap[w] = "none"
     THEN Goto(w, Acknowledge(w)) /\ UNCHANGED publication
     ELSE Goto(w, "tally") /\ publication' = [publication EXCEPT ![msg[w]] = snap[w]]
  /\ snap' = [snap EXCEPT ![w] = "none"]
  /\ UNCHANGED <<intent, mode, due, target, retries, outbox, listVars, msg, role, posted,
                 restVars>>

\* aggregatePublicationIntentStatus counts the targets ...
Tally(w) ==
  /\ At(w, "tally")
  /\ snap' = [snap EXCEPT ![w] = TallyOf(IntentOf[msg[w]])]
  /\ Goto(w, "settle")
  /\ UNCHANGED <<rowVars, listVars, msg, role, posted, restVars>>

\* ... and writes what they add up to, whatever the intent is by then.
Settle(w) ==
  /\ At(w, "settle")
  /\ intent' = IF snap[w] = "none" THEN intent
               ELSE [intent EXCEPT ![IntentOf[msg[w]]] = snap[w]]
  /\ IF role[w] = "final"
     THEN Finish(w)
     ELSE /\ Goto(w, Acknowledge(w))
          /\ snap' = [snap EXCEPT ![w] = "none"]
          /\ UNCHANGED <<msg, role, posted>>
  /\ UNCHANGED <<mode, due, target, retries, outbox, publication, listVars, restVars>>

PushDlq(w) ==
  /\ At(w, "dlq")
  /\ dlq' = dlq \cup {msg[w]}
  /\ Goto(w, "lrem")
  /\ UNCHANGED <<rowVars, commands, processing, orphans, msg, role, posted, snap, restVars>>

\* LPUSH of the same command, before it is removed from the processing list.
Requeue(w) ==
  /\ At(w, "push")
  /\ commands' = Put(commands, msg[w])
  /\ Goto(w, "lrem")
  /\ UNCHANGED <<rowVars, processing, orphans, dlq, msg, role, posted, snap, restVars>>

\* LREM; an outcome written by this worker is tallied once more afterwards.
Ack(w) ==
  /\ At(w, "lrem")
  /\ processing' = [processing EXCEPT ![w] = Remove(@, msg[w])]
  /\ IF role[w] \in {"success", "reject"}
     THEN /\ Goto(w, "tally")
          /\ role' = [role EXCEPT ![w] = "final"]
          /\ UNCHANGED <<msg, posted, snap>>
     ELSE Finish(w)
  /\ UNCHANGED <<rowVars, commands, orphans, dlq, restVars>>

-----------------------------------------------------------------------------
(* Distribution engine: failures *)

\* A SQL statement throws.  In handlePublishFailure its own handler pushes the
\* command back; elsewhere in processPublishCommand the outer handler looks at
\* the row first (the adapter step includes the SELECT that follows the claim).
\* An aggregation error is logged and swallowed, and so is one of the recovery.
DbError(w) ==
  /\ dbErrors < MaxDbErrors
  /\ dbErrors' = dbErrors + 1
  /\ \/ /\ \/ pc[w] \in {"read", "claim", "save"}
           \/ pc[w] = "adapter" /\ ~posted[w]
           \/ pc[w] \in {"sync", "mirror"} /\ role[w] # "reject"
        /\ Goto(w, "catch")
        /\ UNCHANGED <<msg, role, posted, snap>>
     \/ /\ \/ pc[w] \in {"fail", "reject", "doubt", "catch"}
           \/ pc[w] \in {"sync", "mirror"} /\ role[w] = "reject"
        /\ Goto(w, "push")
        /\ role' = [role EXCEPT ![w] = "skip"]
        /\ snap' = [snap EXCEPT ![w] = "none"]
        /\ UNCHANGED <<msg, posted>>
     \/ /\ pc[w] \in {"tally", "settle"} /\ role[w] # "final"
        /\ Goto(w, Acknowledge(w))
        /\ snap' = [snap EXCEPT ![w] = "none"]
        /\ UNCHANGED <<msg, role, posted>>
     \/ /\ \/ pc[w] \in {"tally", "settle"} /\ role[w] = "final"
           \/ pc[w] \in {"stale", "orphans"}
        /\ Finish(w)
  /\ UNCHANGED <<rowVars, listVars, scanned, factoryVars, request, worldVars, crashes, restarts,
                 manuals, reschedules>>

\* The outer handler: a row found "publishing" goes through handlePublishFailure
\* with a retry allowed, whoever holds its claim.
Catch(w) ==
  /\ At(w, "catch")
  /\ snap' = [snap EXCEPT ![w] = "none"]
  /\ IF target[msg[w]] = "publishing"
     THEN Goto(w, "fail") /\ UNCHANGED role
     ELSE Goto(w, "push") /\ role' = [role EXCEPT ![w] = "skip"]
  /\ UNCHANGED <<rowVars, listVars, msg, posted, restVars>>

\* The process dies.  Its processing list stays in Redis under a key no process
\* will use again; an adapter request may still be on its way.
Crash(w) ==
  LET t == msg[w] IN
  /\ crashes < MaxCrashes
  /\ ~At(w, "down")
  /\ crashes' = crashes + 1
  /\ Goto(w, "down")
  /\ msg' = [msg EXCEPT ![w] = NoTarget]
  /\ role' = [role EXCEPT ![w] = "none"]
  /\ posted' = [posted EXCEPT ![w] = FALSE]
  /\ snap' = [snap EXCEPT ![w] = "none"]
  /\ orphans' = [u \in Targets |-> orphans[u] + processing[w][u]]
  /\ processing' = [processing EXCEPT ![w] = EmptyBag]
  /\ scanned' = [v \in Workers |-> scanned[v] /\ v # w /\ processing[w] = EmptyBag]
  /\ abandoned' = IF At(w, "adapter") /\ ~posted[w]
                  THEN [abandoned EXCEPT ![t] = @ + 1] ELSE abandoned
  /\ excuses' = IF pc[w] \in {"adapter", "save", "doubt"}
                THEN [excuses EXCEPT ![t] = @ + 1] ELSE excuses
  /\ UNCHANGED <<rowVars, commands, dlq, factoryVars, request, posts, dbErrors, restarts,
                 manuals, reschedules>>

-----------------------------------------------------------------------------
(* Distribution engine: POST /publications/:id/retry *)

\* (Mutant: the push is skipped.)
RetryResetUnpushed(t) ==
  /\ manuals < MaxManuals
  /\ request[t] = "idle"
  /\ publication[t] \in {"failed", "permanently_failed", "retrying"}
  /\ outbox[t] # "none"
  /\ target[t] \in {"failed", "uncertain"}
  /\ manuals' = manuals + 1
  /\ target' = [target EXCEPT ![t] = "pending"]
  /\ retries' = [retries EXCEPT ![t] = 0]
  /\ excuses' = IF target[t] = "uncertain" THEN [excuses EXCEPT ![t] = @ + 1] ELSE excuses
  /\ request' = [request EXCEPT ![t] = "mark"]
  /\ UNCHANGED <<intent, mode, due, outbox, publication, listVars, workerVars, factoryVars,
                 posts, abandoned, crashes, dbErrors, restarts, reschedules>>

\* The operator's request frees a failed or uncertain target ...
RetryReset(t) ==
  /\ manuals < MaxManuals
  /\ request[t] = "idle"
  /\ publication[t] \in {"failed", "permanently_failed", "retrying"}
  /\ outbox[t] # "none"
  /\ target[t] \in {"failed", "uncertain"}
  /\ manuals' = manuals + 1
  /\ target' = [target EXCEPT ![t] = "pending"]
  /\ retries' = [retries EXCEPT ![t] = 0]
  /\ excuses' = IF target[t] = "uncertain" THEN [excuses EXCEPT ![t] = @ + 1] ELSE excuses
  /\ request' = [request EXCEPT ![t] = "push"]
  /\ UNCHANGED <<intent, mode, due, outbox, publication, listVars, workerVars, factoryVars,
                 posts, abandoned, crashes, dbErrors, restarts, reschedules>>

\* ... pushes the outbox payload ...
RetryPush(t) ==
  /\ request[t] = "push"
  /\ commands' = Put(commands, t)
  /\ request' = [request EXCEPT ![t] = "mark"]
  /\ UNCHANGED <<rowVars, processing, orphans, dlq, workerVars, factoryVars, worldVars,
                 spentVars>>

\* ... and marks the publications row, whatever it is by then.
RetryMark(t) ==
  /\ request[t] = "mark"
  /\ publication' = [publication EXCEPT ![t] = "retrying"]
  /\ request' = [request EXCEPT ![t] = "idle"]
  /\ UNCHANGED <<intent, mode, due, target, retries, outbox, listVars, workerVars, factoryVars,
                 worldVars, spentVars>>

\* The process serving the request dies, or Redis or PostgreSQL refuses the next
\* call.  There are as many of these as requests.
RetryDies(t) ==
  /\ request[t] # "idle"
  /\ crashes' = crashes + 1
  /\ request' = [request EXCEPT ![t] = "idle"]
  /\ UNCHANGED <<rowVars, listVars, workerVars, factoryVars, worldVars, dbErrors, restarts,
                 manuals, reschedules>>

-----------------------------------------------------------------------------
(* The specification *)

\* Two tasks of a content-factory process.
Scheduler(f) == SelectDue(f) \/ \E i \in Intents : DispatchSelected(f, i)
Flusher(f)   == FlushCommit(f) \/ \E t \in Targets : FlushPush(f, t)

FactoryNext(f) == Scheduler(f) \/ Flusher(f)

Recovery(w) ==
  \/ \E t \in Targets : RecoverTake(w, t)
  \/ RecoverPut(w)
  \/ RecoverDone(w)
  \/ \E old \in SUBSET Targets : RepairStale(w, old)
  \/ RepairIntents(w)

Adapter(w) ==
  \/ PostGoesOut(w)
  \/ AdapterSucceeds(w)
  \/ AdapterFailsEarly(w)
  \/ AdapterFailsLate(w)
  \/ AdapterTimesOut(w)

Processing(w) ==
  \/ \E t \in Targets : Receive(w, t)
  \/ Read(w)
  \/ Claim(w)
  \/ Save(w)
  \/ Retry(w)
  \/ Reject(w)
  \/ Sync(w)
  \/ Mirror(w)
  \/ Tally(w)
  \/ Settle(w)
  \/ PushDlq(w)
  \/ Requeue(w)
  \/ Ack(w)
  \/ Catch(w)

RequestNext(t) == RetryPush(t) \/ RetryMark(t)

\* What users, operators, Instagram and failures do, never obliged to.
Environment ==
  \/ \E i \in Intents :
       \/ PublishNow(i)
       \/ BecomesDue(i)
       \/ \E past \in BOOLEAN : Reschedule(i, past)
  \/ \E f \in Factories, old \in SUBSET Targets : FactoryRestart(f, old)
  \/ \E t \in Targets :
       \/ \E effect \in BOOLEAN : AbandonedCallEnds(t, effect)
       \/ RetryReset(t)
       \/ RetryDies(t)
  \/ \E w \in Workers : DbError(w) \/ Crash(w)

Next ==
  \/ \E f \in Factories : FactoryNext(f)
  \/ \E w \in Workers : Start(w) \/ Recovery(w) \/ Adapter(w) \/ Processing(w)
  \/ \E t \in Targets : RequestNext(t)
  \/ Environment

Spec == Init /\ [][Next]_vars

\* Processes that are up keep taking steps: every loop of both services is
\* re-armed after each round, the adapter call is cut off by its timeout, and
\* the container runtime starts a dead worker again.
Fairness ==
  /\ \A f \in Factories : WF_vars(Scheduler(f)) /\ WF_vars(Flusher(f))
  /\ \A w \in Workers : WF_vars(Start(w) \/ Recovery(w) \/ Adapter(w) \/ Processing(w))
  /\ \A t \in Targets : WF_vars(RequestNext(t))

FairSpec == Spec /\ Fairness

-----------------------------------------------------------------------------
(* Properties *)

\* A worker that processes a command has one in hand.
Busy == Steps \ {"down", "requeue", "stale", "orphans", "idle"}
CommandInHand == \A w \in Workers : pc[w] \in Busy => msg[w] \in Targets

\* What a worker read for the row it is about to write.
SnapshotFits ==
  \A w \in Workers :
    /\ pc[w] = "mirror" => snap[w] \in PublicationStatus
    /\ pc[w] = "settle" => snap[w] \in {"published", "partial_failed", "failed", "none"}

WellFormed == TypeOK /\ SnapshotFits /\ CommandInHand

Faultless == crashes = 0 /\ dbErrors = 0

\* Two workers never hold the claim of one target, and a claim always stands on
\* a row that says "publishing": duplicated commands (a crash between the push
\* and the commit of the flusher), the recovery scan of another worker and stale
\* recovery cannot start a second attempt while one is under way.  Not so once a
\* SQL statement has failed: the outer handler of processPublishCommand treats
\* any "publishing" row as its own.
SingleClaimant ==
  dbErrors = 0 =>
    \A w \in Workers : pc[w] \in Claimed =>
      /\ target[msg[w]] = "publishing"
      /\ \A v \in Workers \ {w} : ~Attempting(v, msg[w])

\* Every post beyond the first is accounted for: there is at most one more than
\* the attempts a process died in and the uncertain targets an operator retried.
\* Retries, duplicated commands and late answers of abandoned calls never post a
\* second time on their own.
PostsAccounted ==
  dbErrors = 0 => \A t \in Targets : posts[t] + abandoned[t] <= excuses[t] + 1

\* A target nobody retries by hand is posted once, also across retries and restarts.
NoDuplicatePost ==
  manuals = 0 => \A t \in Targets : posts[t] <= 1

\* A target is only recorded as published when the post exists.
PublishedWasPosted ==
  \A t \in Targets : target[t] = "published" => posts[t] > 0

\* What a worker that is about to record a success, or a failure, relies on.
OutcomesBacked ==
  \A w \in Workers :
    /\ pc[w] = "save" \/ (pc[w] = "adapter" /\ posted[w]) => posts[msg[w]] > 0
    /\ dbErrors = 0 /\ pc[w] = "reject" => retries[msg[w]] = MaxRetries
    /\ posted[w] => pc[w] \in Busy \ {"read", "claim"}
    /\ pc[w] = "catch" => dbErrors > 0

\* The claim discipline and what it rests on, an inductive invariant.
ClaimInvariant ==
  WellFormed /\ SingleClaimant /\ OutcomesBacked /\ PublishedWasPosted

\* Nothing of an intent that was not dispatched is in flight anywhere.
UndispatchedIsQuiet ==
  \A t \in Targets : intent[IntentOf[t]] \in {"draft", "ready"} =>
    /\ target[t] = "pending" /\ outbox[t] = "none" /\ request[t] = "idle"
    /\ commands[t] = 0 /\ orphans[t] = 0
    /\ \A w \in Workers : processing[w][t] = 0 /\ msg[w] # t
    /\ \A f \in Factories : flushing[f] # t

\* The post of the latest attempt on t may exist.
MayHavePosted(t) ==
  \/ target[t] \in {"published", "uncertain"}
  \/ \E w \in Workers : /\ msg[w] = t
                        /\ pc[w] \in {"save", "doubt"} \/ (pc[w] = "adapter" /\ posted[w])

\* Every earlier post, and every call still under way, is excused.
PostsExcused ==
  dbErrors = 0 => \A t \in Targets :
    /\ posts[t] + abandoned[t] <= excuses[t] + 1
    /\ ~MayHavePosted(t) => posts[t] + abandoned[t] <= excuses[t]

\* The inductive invariant of the pipeline: exclusive claims of the workers, outcomes
\* that are backed by what happened at Instagram, nothing in flight for an intent the
\* dispatcher has not queued, and an excuse for every post but the latest.
PublishInvariant == ClaimInvariant /\ UndispatchedIsQuiet /\ PostsExcused

\* Somebody still carries a command of t, or will push one.
Carried(t) ==
  \/ outbox[t] = "pending"
  \/ commands[t] > 0
  \/ request[t] = "push"
  \/ \E w \in Workers : msg[w] = t /\ pc[w] \in {"requeue", "read", "claim", "push"}

\* While no process dies and no statement fails, a dispatched target that waits
\* for an attempt has a command on its way, and one being published has a worker.
NoTargetStranded ==
  Faultless => \A t \in Targets :
    /\ outbox[t] # "none" /\ target[t] = "pending" => Carried(t)
    /\ target[t] = "publishing" => \E w \in Workers : Attempting(w, t)

\* Nobody is working on t or about to.
AtRest(t) ==
  /\ request[t] = "idle"
  /\ \A w \in Workers : msg[w] # t

\* The publications row the dashboard shows mirrors the outcome of a target at rest.
PublicationMirrorsTarget ==
  \A t \in Targets : AtRest(t) /\ PublicationOf(t) # "none" =>
    publication[t] = PublicationOf(t)

\* The status of an intent is what its targets add up to once they are at rest.
IntentTalliesTargets ==
  \A i \in Intents : TallyOf(i) # "none" /\ (\A t \in TargetsOf(i) : AtRest(t)) =>
    intent[i] = TallyOf(i)

\* The outcome is mirrored and tallied in every run without faults and without
\* an operator's retry: workers that finish targets of one intent at the same
\* time leave the right intent status behind.
OutcomesAgree ==
  Faultless /\ manuals = 0 => PublicationMirrorsTarget /\ IntentTalliesTargets

\* A target fails for good only when its retry budget is spent: not because two
\* workers count one failure twice, nor because a restart interrupts an attempt.
\* (After a failed SQL statement it may: the outer handler acts on a claim that
\* may be another worker's by then.)
BudgetSpentBeforeFailed ==
  [][dbErrors = 0 => \A t \in Targets :
       target[t] = "publishing" /\ target'[t] = "failed" => retries[t] = MaxRetries]_vars

\* A dispatched intent reaches an outcome.
DispatchedSettles ==
  \A i \in Intents :
    intent[i] = "queued" ~> intent[i] \in {"published", "partial_failed", "failed"}

Abstract == INSTANCE PublishContract WITH exists <- [t \in Targets |-> posts[t] > 0]

\* The pipeline implements the contract on targets: whatever is duplicated, lost or
\* restarted, each row goes through the attempts and outcomes PublishContract allows.
ContractHolds == Abstract!Contract

=============================================================================
