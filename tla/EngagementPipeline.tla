-------------------------- MODULE EngagementPipeline --------------------------
(***************************************************************************)
(* Engagement intents (likes, replies, messages) of one account: the       *)
(* intent row, its outbox row, the list engagement:commands, the workers   *)
(* of the distribution engine and the safety guard they ask.               *)
(*                                                                         *)
(* Both services dispatch.  The distribution engine pushes the command     *)
(* itself after its transaction; the content factory leaves the row to its *)
(* flusher, and reads the columns of the intent one place off, so that its *)
(* command carries the target type where the action belongs (payload       *)
(* "garbled").  A worker does one command at a time: its poll loop is      *)
(* re-armed in the finally of the command.  What it holds is also in its   *)
(* processing list, whose key is a new random one in every process, so     *)
(* that what a dead process held is never found again.                     *)
(*                                                                         *)
(* Abstractions: an intent has one action on one target; the status and    *)
(* the daily limit are read together; modes that only pretend to act       *)
(* (dry run, simulated likes) are off.                                     *)
(***************************************************************************)
EXTENDS Integers, FiniteSets

CONSTANTS
  Engagements,      \* engagement intents; an intent stands for its idempotency key
  Targets,      \* comments and users that are acted on
  TargetOf,     \* the target of an intent
  Timed,    \* intents created with a scheduled_for in the future
  NoCommand,    \* in the hands of a worker that has none
  Workers,      \* processes of the distribution engine
  Limit,        \* the daily limit of the account for the action
  MaxFaults     \* bound: lost answers, failing statements and deaths of processes

ASSUME EngagementAssumption ==
  /\ IsFiniteSet(Workers) /\ Workers # {}
  /\ NoCommand \notin Engagements
  /\ Timed \subseteq Engagements
  /\ TargetOf \in [Engagements -> Targets]
  /\ Limit \in Nat \ {0}
  /\ MaxFaults \in Nat

VARIABLES
  rowOf,      \* engagement_intents.status
  due,         \* intents whose scheduled_for is unset or has passed
  outbox,      \* engagement_outbox.status
  payload,     \* what the outbox row and the commands of the intent carry
  commands,    \* copies of the intent's command in engagement:commands
  worker,      \* where each worker is, with which command
  dispatching, \* how far a dispatch request of the distribution engine is
  flushing,    \* outbox rows the flusher's open transaction holds
  deleting,    \* intents a delete request has read
  dlq,         \* intents with an entry in engagement:failed
  blocked,     \* the account is banned, suspended, resting, in cooldown or shadowbanned
  cooldown,    \* targets with a row in action_cooldowns that has not expired
  count,       \* daily_action_counts.count of today
  today,       \* actions Instagram has seen today
  acts,        \* actions Instagram has seen, by intent
  pushed,      \* pushes of a dispatch or of the flusher, by intent
  excuses,     \* actions whose success the worker did not get to record, by intent
  unrecorded,  \* actions that never reach the daily count
  unanswered, dbErrors, died  \* faults so far, by kind

rowVars == <<rowOf, due, outbox, payload>>
requestVars == <<dispatching, flushing, deleting>>
safetyVars == <<blocked, cooldown, count>>
worldVars == <<today, acts, excuses, unrecorded>>
spentVars == <<unanswered, dbErrors, died>>
engagementVars == <<rowVars, commands, worker, requestVars, dlq, safetyVars, worldVars, pushed, spentVars>>

IntentStatus == {"none", "ready", "queued", "processing", "completed", "failed", "deleted"}

Final == {"completed", "failed", "deleted"}

Exists(i) == rowOf[i] \notin {"none", "deleted"}

Resting == [pc |-> "idle", intent |-> NoCommand, retry |-> TRUE]

ActorAt(w, pc) == worker[w].pc = pc

Faultable == unanswered + dbErrors + died < MaxFaults

MoveTo(w, pc) == worker' = [worker EXCEPT ![w].pc = pc]

Mine(w) == worker[w].intent

EngagementInit ==
  /\ rowOf = [i \in Engagements |-> "none"]
  /\ due = Engagements \ Timed
  /\ outbox = [i \in Engagements |-> "none"]
  /\ payload = [i \in Engagements |-> "none"]
  /\ commands = [i \in Engagements |-> 0]
  /\ worker = [w \in Workers |-> Resting]
  /\ dispatching = [i \in Engagements |-> "no"]
  /\ flushing = {} /\ deleting = {} /\ dlq = {}
  /\ blocked = FALSE
  /\ cooldown = {}
  /\ count = 0 /\ today = 0
  /\ acts = [i \in Engagements |-> 0]
  /\ pushed = [i \in Engagements |-> 0]
  /\ excuses = [i \in Engagements |-> 0]
  /\ unrecorded = 0 /\ unanswered = 0 /\ dbErrors = 0 /\ died = 0

-----------------------------------------------------------------------------
(* Creation, dispatch and deletion.                                        *)

\* POST /engagement/intents: a second request with the key is answered with the first one's row.
Create(i) ==
  /\ rowOf[i] = "none"
  /\ rowOf' = [rowOf EXCEPT ![i] = "ready"]
  /\ UNCHANGED <<due, outbox, payload, commands, worker, requestVars, dlq, safetyVars, worldVars,
                 pushed, spentVars>>

BecomesDue(i) ==
  /\ due' = due \cup {i}
  /\ due' # due
  /\ UNCHANGED <<rowOf, outbox, payload, commands, worker, requestVars, dlq, safetyVars,
                 worldVars, pushed, spentVars>>

\* The transaction of a dispatch: the outbox row is pending and the intent queued.
Enqueue(i, carries) ==
  /\ rowOf[i] = "ready"
  /\ rowOf' = [rowOf EXCEPT ![i] = "queued"]
  /\ outbox' = [outbox EXCEPT ![i] = "pending"]
  /\ payload' = [payload EXCEPT ![i] = carries]

\* dispatch_engagement_intent of the content factory: refused before the schedule.
FactoryDispatch(i) ==
  /\ i \in due
  /\ Enqueue(i, "garbled")
  /\ UNCHANGED <<due, commands, worker, requestVars, dlq, safetyVars, worldVars, pushed, spentVars>>

\* POST /engagement/intents/:id/dispatch of the distribution engine: does not look at the schedule,
\* and pushes the command after its COMMIT.
RouterDispatch(i) ==
  /\ Enqueue(i, "good")
  /\ dispatching' = [dispatching EXCEPT ![i] = "push"]
  /\ UNCHANGED <<due, commands, worker, flushing, deleting, dlq, safetyVars, worldVars, pushed,
                 spentVars>>

Push(i) ==
  /\ commands' = [commands EXCEPT ![i] = @ + 1]
  /\ pushed' = [pushed EXCEPT ![i] = @ + 1]

\* (Mutant: the command is left to the flusher, and the row is marked all the same.)
RouterPushSkipped(i) ==
  /\ dispatching[i] = "push"
  /\ dispatching' = [dispatching EXCEPT ![i] = "mark"]
  /\ UNCHANGED <<rowVars, commands, pushed, worker, flushing, deleting, dlq, safetyVars, worldVars,
                 spentVars>>

RouterPush(i) ==
  /\ dispatching[i] = "push"
  /\ Push(i)
  /\ dispatching' = [dispatching EXCEPT ![i] = "mark"]
  /\ UNCHANGED <<rowVars, worker, flushing, deleting, dlq, safetyVars, worldVars, spentVars>>

\* The request waits for a flush of the row; a row that is gone stays gone.
RouterMark(i) ==
  /\ dispatching[i] = "mark"
  /\ i \notin flushing
  /\ outbox' = [outbox EXCEPT ![i] = IF @ = "none" THEN @ ELSE "sent"]
  /\ dispatching' = [dispatching EXCEPT ![i] = "no"]
  /\ UNCHANGED <<rowOf, due, payload, commands, worker, flushing, deleting, dlq, safetyVars,
                 worldVars, pushed, spentVars>>

\* Redis refuses, or the process dies: what is left of the request is not done.
RouterDies(i) ==
  /\ Faultable
  /\ died' = died + 1
  /\ dispatching[i] # "no"
  /\ dispatching' = [dispatching EXCEPT ![i] = "no"]
  /\ UNCHANGED <<rowVars, commands, worker, flushing, deleting, dlq, safetyVars, worldVars, pushed,
                 unanswered, dbErrors>>

\* _flush_one_batch: a pending row of a queued intent that is due is locked and pushed ...
FlushPush(i) ==
  /\ outbox[i] = "pending" /\ rowOf[i] = "queued" /\ i \in due
  /\ i \notin flushing
  /\ Push(i)
  /\ flushing' = flushing \cup {i}
  /\ UNCHANGED <<rowVars, worker, dispatching, deleting, dlq, safetyVars, worldVars, spentVars>>

\* ... and marked when the transaction commits.
FlushCommit(i) ==
  /\ i \in flushing
  /\ outbox' = [outbox EXCEPT ![i] = "sent"]
  /\ flushing' = flushing \ {i}
  /\ UNCHANGED <<rowOf, due, payload, commands, worker, dispatching, deleting, dlq, safetyVars,
                 worldVars, pushed, spentVars>>

FlushDies(i) ==
  /\ Faultable
  /\ died' = died + 1
  /\ i \in flushing
  /\ flushing' = flushing \ {i}
  /\ UNCHANGED <<rowVars, commands, worker, dispatching, deleting, dlq, safetyVars, worldVars,
                 pushed, unanswered, dbErrors>>

\* DELETE /engagement/intents/:id reads the status ...
DeleteRead(i) ==
  /\ Exists(i)
  /\ rowOf[i] \notin {"queued", "processing"}
  /\ deleting' = deleting \cup {i}
  /\ UNCHANGED <<rowVars, commands, worker, dispatching, flushing, dlq, safetyVars, worldVars,
                 pushed, spentVars>>

\* ... and deletes the row, and with it the outbox row, whatever the status has become.
DeleteWrite(i) ==
  /\ i \in deleting
  /\ i \notin flushing
  /\ deleting' = deleting \ {i}
  /\ rowOf' = [rowOf EXCEPT ![i] = "deleted"]
  /\ outbox' = [outbox EXCEPT ![i] = "none"]
  /\ UNCHANGED <<due, payload, commands, worker, dispatching, flushing, dlq, safetyVars, worldVars,
                 pushed, spentVars>>

-----------------------------------------------------------------------------
(* A worker.                                                               *)

\* BRPOPLPUSH into the processing list of the process.
ReadCommand(w, i) ==
  /\ ActorAt(w, "idle")
  /\ commands[i] > 0
  /\ commands' = [commands EXCEPT ![i] = @ - 1]
  /\ worker' = [worker EXCEPT ![w] = [pc |-> "mark", intent |-> i, retry |-> TRUE]]
  /\ UNCHANGED <<rowVars, requestVars, dlq, safetyVars, worldVars, pushed, spentVars>>

\* A queued intent is processing; the worker goes on even if no row was hit.
Mark(w) ==
  /\ ActorAt(w, "mark")
  /\ rowOf' = [rowOf EXCEPT ![Mine(w)] = IF @ = "queued" THEN "processing" ELSE @]
  /\ MoveTo(w, "limit")
  /\ UNCHANGED <<due, outbox, payload, commands, requestVars, dlq, safetyVars, worldVars, pushed,
                 spentVars>>

\* preActionValidation: the account may act and has not reached its daily limit ...
CheckLimit(w) ==
  /\ ActorAt(w, "limit")
  /\ MoveTo(w, IF blocked \/ count >= Limit THEN "fail" ELSE "cooldown")
  /\ UNCHANGED <<rowVars, commands, requestVars, dlq, safetyVars, worldVars, pushed, spentVars>>

\* ... and the target is not in cooldown.  A garbled command asks about another target.
CheckCooldown(w) ==
  /\ ActorAt(w, "cooldown")
  /\ MoveTo(w, IF payload[Mine(w)] = "good" /\ TargetOf[Mine(w)] \in cooldown THEN "fail" ELSE "act")
  /\ UNCHANGED <<rowVars, commands, requestVars, dlq, safetyVars, worldVars, pushed, spentVars>>

\* Instagram, or the emulator, does what the command says.
Performed(i) ==
  /\ payload[i] = "good"
  /\ acts' = [acts EXCEPT ![i] = @ + 1]
  /\ today' = today + 1

\* (Mutant: the action is not recorded.)
ActUnrecorded(w) ==
  /\ ActorAt(w, "act")
  /\ Performed(Mine(w))
  /\ MoveTo(w, "cool")
  /\ UNCHANGED <<rowVars, commands, requestVars, dlq, safetyVars, excuses, unrecorded, pushed,
                 spentVars>>

ActSucceeds(w) ==
  /\ ActorAt(w, "act")
  /\ Performed(Mine(w))
  /\ MoveTo(w, "record")
  /\ UNCHANGED <<rowVars, commands, requestVars, dlq, safetyVars, excuses, unrecorded, pushed,
                 spentVars>>

\* (Mutant: the result is not looked at.)
ActAnyResult(w) ==
  /\ ActorAt(w, "act")
  /\ MoveTo(w, "record")
  /\ UNCHANGED <<rowVars, commands, requestVars, dlq, safetyVars, worldVars, pushed, spentVars>>

\* A refusal is final when Instagram answers below 500 or no device can do it; an unsupported
\* action, which is what a garbled command asks for, counts as retryable.
ActFails(w) ==
  /\ ActorAt(w, "act")
  /\ \E retry \in (IF payload[Mine(w)] = "good" THEN BOOLEAN ELSE {TRUE}) :
       worker' = [worker EXCEPT ![w].pc = "fail", ![w].retry = retry]
  /\ UNCHANGED <<rowVars, commands, requestVars, dlq, safetyVars, worldVars, pushed, spentVars>>

\* The action went through, but its answer is late, lost, or has no id: a retryable failure.
ActLost(w) ==
  /\ ActorAt(w, "act")
  /\ Faultable
  /\ unanswered' = unanswered + 1
  /\ Performed(Mine(w))
  /\ excuses' = [excuses EXCEPT ![Mine(w)] = @ + 1]
  /\ unrecorded' = unrecorded + 1
  /\ MoveTo(w, "fail")
  /\ UNCHANGED <<rowVars, commands, requestVars, dlq, safetyVars, pushed, dbErrors, died>>

\* recordAction counts the action; an error of its statements is swallowed.
Record(w) ==
  /\ ActorAt(w, "record")
  /\ \/ /\ count' = count + 1
        /\ UNCHANGED <<unrecorded, dbErrors>>
     \/ /\ Faultable
        /\ dbErrors' = dbErrors + 1
        /\ unrecorded' = unrecorded + 1
        /\ UNCHANGED count
  /\ MoveTo(w, "cool")
  /\ UNCHANGED <<rowVars, commands, requestVars, dlq, blocked, cooldown, today, acts, excuses,
                 pushed, unanswered, died>>

\* setCooldown replaces the cooldown of the target; an error of its statements is swallowed and
\* may leave the target without one.
SetCooldown(w) ==
  /\ ActorAt(w, "cool")
  /\ \/ /\ cooldown' = cooldown \cup {TargetOf[Mine(w)]}
        /\ UNCHANGED dbErrors
     \/ /\ Faultable
        /\ dbErrors' = dbErrors + 1
        /\ cooldown' \in {cooldown, cooldown \ {TargetOf[Mine(w)]}}
  /\ MoveTo(w, "complete")
  /\ UNCHANGED <<rowVars, commands, requestVars, dlq, blocked, count, worldVars, pushed, unanswered,
                 died>>

SetStatus(i, status) == rowOf' = [rowOf EXCEPT ![i] = IF Exists(i) THEN status ELSE @]

Complete(w) ==
  /\ ActorAt(w, "complete")
  /\ SetStatus(Mine(w), "completed")
  /\ MoveTo(w, "lrem")
  /\ UNCHANGED <<due, outbox, payload, commands, requestVars, dlq, safetyVars, worldVars, pushed,
                 spentVars>>

\* The catch branch writes failed over any status ...
Fail(w) ==
  /\ ActorAt(w, "fail")
  /\ SetStatus(Mine(w), "failed")
  /\ MoveTo(w, "requeue")
  /\ UNCHANGED <<due, outbox, payload, commands, requestVars, dlq, safetyVars, worldVars, pushed,
                 spentVars>>

\* (Mutant: a final failure is reported nowhere.)
RequeueOrDrop(w) ==
  /\ ActorAt(w, "requeue")
  /\ commands' = [commands EXCEPT ![Mine(w)] = IF worker[w].retry THEN @ + 1 ELSE @]
  /\ MoveTo(w, "lrem")
  /\ UNCHANGED <<rowVars, dlq, requestVars, safetyVars, worldVars, pushed, spentVars>>

\* ... and a retryable command goes back to the list at once, however often it has been there.
Requeue(w) ==
  /\ ActorAt(w, "requeue")
  /\ IF worker[w].retry
     THEN /\ commands' = [commands EXCEPT ![Mine(w)] = @ + 1]
          /\ UNCHANGED dlq
     ELSE /\ dlq' = dlq \cup {Mine(w)}
          /\ UNCHANGED commands
  /\ MoveTo(w, "lrem")
  /\ UNCHANGED <<rowVars, requestVars, safetyVars, worldVars, pushed, spentVars>>

\* The finally branch takes the command from the processing list.
Release(w) ==
  /\ ActorAt(w, "lrem")
  /\ worker' = [worker EXCEPT ![w] = Resting]
  /\ UNCHANGED <<rowVars, commands, requestVars, dlq, safetyVars, worldVars, pushed, spentVars>>

\* A statement throws: into the catch branch, or out of it and into finally.
DbError(w) ==
  /\ Faultable
  /\ dbErrors' = dbErrors + 1
  /\ \/ /\ worker[w].pc \in {"mark", "limit", "cooldown", "cool", "complete"}
        /\ worker' = [worker EXCEPT ![w].pc = "fail", ![w].retry = TRUE]
        /\ excuses' = IF worker[w].pc \in {"cool", "complete"}
                      THEN [excuses EXCEPT ![Mine(w)] = @ + 1] ELSE excuses
     \/ /\ worker[w].pc \in {"fail", "requeue"}
        /\ MoveTo(w, "lrem")
        /\ UNCHANGED excuses
  /\ UNCHANGED <<rowVars, commands, requestVars, dlq, safetyVars, today, acts, unrecorded, pushed,
                 unanswered, died>>

\* The process dies.  Its successor has another processing list, which is empty.
WorkerDies(w) ==
  /\ Faultable
  /\ died' = died + 1
  /\ ~ActorAt(w, "idle")
  /\ worker' = [worker EXCEPT ![w] = Resting]
  /\ unrecorded' = IF ActorAt(w, "record") THEN unrecorded + 1 ELSE unrecorded
  /\ UNCHANGED <<rowVars, commands, requestVars, dlq, safetyVars, today, acts, excuses, pushed,
                 unanswered, dbErrors>>

-----------------------------------------------------------------------------
(* The account, the clock, and the system.                                 *)

\* emergencyStop, triggerCooldown, a ban; resumeAccount.
SetBlocked(b) ==
  /\ blocked # b
  /\ blocked' = b
  /\ UNCHANGED <<rowVars, commands, worker, requestVars, dlq, cooldown, count, worldVars, pushed,
                 spentVars>>

CooldownEnds(x) ==
  /\ x \in cooldown
  /\ cooldown' = cooldown \ {x}
  /\ UNCHANGED <<rowVars, commands, worker, requestVars, dlq, blocked, count, worldVars, pushed,
                 spentVars>>

\* The count of another date is another row.
NewDay ==
  /\ count + today > 0
  /\ count' = 0 /\ today' = 0
  /\ UNCHANGED <<rowVars, commands, worker, requestVars, dlq, blocked, cooldown, acts, excuses,
                 unrecorded, pushed, spentVars>>

UserStep(i) == Create(i) \/ FactoryDispatch(i) \/ RouterDispatch(i) \/ DeleteRead(i)

FinishRequest(i) == RouterPush(i) \/ RouterMark(i) \/ DeleteWrite(i)

Flush(i) == FlushPush(i) \/ FlushCommit(i)

Act(w) == ActSucceeds(w) \/ ActFails(w) \/ ActLost(w)

WorkerStep(w) ==
  \/ \E i \in Engagements : ReadCommand(w, i)
  \/ Mark(w) \/ CheckLimit(w) \/ CheckCooldown(w) \/ Act(w) \/ Record(w) \/ SetCooldown(w)
  \/ Complete(w) \/ Fail(w) \/ Requeue(w) \/ Release(w)

Environment ==
  \/ \E i \in Engagements : BecomesDue(i) \/ RouterDies(i) \/ FlushDies(i)
  \/ \E w \in Workers : DbError(w) \/ WorkerDies(w)
  \/ \E b \in BOOLEAN : SetBlocked(b)
  \/ \E x \in Targets : CooldownEnds(x)
  \/ NewDay

EngagementNext ==
  \/ \E i \in Engagements : UserStep(i) \/ FinishRequest(i) \/ Flush(i)
  \/ \E w \in Workers : WorkerStep(w)
  \/ Environment

EngagementSpec == EngagementInit /\ [][EngagementNext]_engagementVars

\* The flusher and the poll loops run until they are told to stop, every provider call has a
\* timeout, and requests are answered.  Lists are served in order: a command that waits is
\* received although others go back to the list behind it.
EngagementFairness ==
  /\ \A i \in Engagements : WF_engagementVars(FinishRequest(i)) /\ WF_engagementVars(Flush(i))
  /\ \A w \in Workers : WF_engagementVars(WorkerStep(w))
  /\ \A i \in Engagements : SF_engagementVars(\E w \in Workers : ReadCommand(w, i))

EngagementFairSpec == EngagementSpec /\ EngagementFairness

-----------------------------------------------------------------------------
(* Properties.                                                             *)

WorkerPcs == {"idle", "mark", "limit", "cooldown", "act", "record", "cool", "complete", "fail",
              "requeue", "lrem"}

WorkersTyped ==
  /\ worker \in [Workers -> [pc : WorkerPcs, intent : Engagements \cup {NoCommand}, retry : BOOLEAN]]
  /\ \A w \in Workers : ActorAt(w, "idle") \/ Mine(w) \in Engagements

EngagementTypeOK ==
  /\ rowOf \in [Engagements -> IntentStatus]
  /\ due \subseteq Engagements
  /\ outbox \in [Engagements -> {"none", "pending", "sent"}]
  /\ payload \in [Engagements -> {"none", "good", "garbled"}]
  /\ commands \in [Engagements -> Nat]
  /\ WorkersTyped
  /\ dispatching \in [Engagements -> {"no", "push", "mark"}]
  /\ flushing \subseteq Engagements /\ deleting \subseteq Engagements /\ dlq \subseteq Engagements
  /\ blocked \in BOOLEAN /\ cooldown \subseteq Targets
  /\ count \in Nat /\ today \in Nat /\ unrecorded \in Nat
  /\ acts \in [Engagements -> Nat] /\ pushed \in [Engagements -> Nat] /\ excuses \in [Engagements -> Nat]
  /\ unanswered \in Nat /\ dbErrors \in Nat /\ died \in Nat

\* Workers between the limit check and the record of their action, and those of them that have
\* acted.
Window == {w \in Workers : worker[w].pc \in {"cooldown", "act", "record"}}
Unwritten == {w \in Workers : ActorAt(w, "record")}

\* The count may pass the limit by as many workers as can be past the check at a time, less one.
CountBounded == count + Cardinality(Window) <= Limit + Cardinality(Workers) - 1

\* What happened today is in the count, about to be, or excused.
TodayCounted == today <= count + Cardinality(Unwritten) + unrecorded

\* Types, and the two facts that bound how far checkDailyLimit, which reads the count that
\* recordAction writes later, can be overrun by workers of one account.
EngagementInvariant == EngagementTypeOK /\ CountBounded /\ TodayCounted

\* Workers that check the daily limit at the same time overrun it by less than their number,
\* apart from actions whose record failed.
LimitOverrunBounded == today <= Limit + Cardinality(Workers) - 1 + unrecorded

\* An intent that says completed was carried out: no failure, requeue or duplicate makes it so.
CompletedWasDone == \A i \in Engagements : rowOf[i] = "completed" => acts[i] > 0

\* An action is carried out once for every push of a dispatch or a flush, and again only for one
\* whose success was not recorded: requeues and guards add none.
RepeatsAccounted == \A i \in Engagements : acts[i] <= pushed[i] + excuses[i]

\* What Instagram saw agrees with the rows and the pushes.
ActsAccounted == CompletedWasDone /\ RepeatsAccounted

Carried(i) ==
  \/ commands[i] > 0 \/ outbox[i] = "pending" \/ dispatching[i] = "push"
  \/ \E w \in Workers : Mine(w) = i /\ ~ActorAt(w, "lrem")

\* Without faults, an intent that was dispatched and is not done is on its way to a worker or has
\* been reported in engagement:failed, whatever its duplicates have done to its row.
NoIntentVanishes ==
  died = 0 /\ dbErrors = 0 =>
    \A i \in Engagements : rowOf[i] \in {"queued", "processing", "failed"} => Carried(i) \/ i \in dlq

\* A due intent that is queued gets an outcome, if no process dies and no statement fails.
QueuedSettles ==
  \A i \in Engagements :
    rowOf[i] = "queued" /\ i \in due ~> rowOf[i] \in Final \/ died + dbErrors > 0

=============================================================================
