----------------------- MODULE EngagementPipeline_proofs -----------------------
(***************************************************************************)
(* By how much workers of one account overrun its daily limit, for any     *)
(* number of intents, targets and workers and any limit.                   *)
(*                                                                         *)
(* The limit is read before an action and counted after it.  What can pass *)
(* the check meanwhile is the set of workers between the two, and it never *)
(* has more than all workers: a worker enters it under the limit and       *)
(* leaves it either without an action or with one that is counted.         *)
(***************************************************************************)
EXTENDS EngagementPipeline, FiniteSetTheorems, TLAPS

\* The workers that are at one of some places.
At(pcs) == {w \in Workers : worker[w].pc \in pcs}

PastCheck == {"cooldown", "act", "record"}

\* A step of one worker to one place, as the rest of the proof needs it.
Moved(w, pc) ==
  /\ WorkersTyped'
  /\ worker'[w].pc = pc
  /\ \A v \in Workers \ {w} : worker'[v] = worker[v]

-----------------------------------------------------------------------------
(* Where the workers are.                                                  *)

\* A worker with a command that goes on to another place still has it.
LEMMA MoveTyped ==
  ASSUME WorkersTyped, NEW w \in Workers, ~ActorAt(w, "idle"), NEW pc \in WorkerPcs \ {"idle"}, MoveTo(w, pc)
  PROVE  Moved(w, pc) /\ Mine(w)' = Mine(w)
<1>1. [worker[w] EXCEPT !.pc = pc] \in [pc : WorkerPcs, intent : Engagements \cup {NoCommand}, retry : BOOLEAN]
  BY DEF WorkersTyped
<1>2. worker' \in [Workers -> [pc : WorkerPcs, intent : Engagements \cup {NoCommand}, retry : BOOLEAN]]
  BY <1>1 DEF WorkersTyped, MoveTo
<1>3. worker'[w].pc = pc /\ worker'[w].intent = worker[w].intent /\ \A v \in Workers \ {w} : worker'[v] = worker[v]
  BY DEF WorkersTyped, MoveTo
<1> QED BY <1>2, <1>3 DEF Moved, WorkersTyped, ActorAt, Mine

\* A failure is noted with whether it may be tried again.
LEMMA FailTyped ==
  ASSUME WorkersTyped, NEW w \in Workers, ~ActorAt(w, "idle"), NEW again \in BOOLEAN,
         worker' = [worker EXCEPT ![w].pc = "fail", ![w].retry = again]
  PROVE  Moved(w, "fail") /\ Mine(w)' = Mine(w)
<1>1. [worker[w] EXCEPT !.pc = "fail", !.retry = again]
        \in [pc : WorkerPcs, intent : Engagements \cup {NoCommand}, retry : BOOLEAN]
  BY DEF WorkersTyped, WorkerPcs
<1>2. worker' \in [Workers -> [pc : WorkerPcs, intent : Engagements \cup {NoCommand}, retry : BOOLEAN]]
  BY <1>1 DEF WorkersTyped
<1>3. worker'[w].pc = "fail" /\ worker'[w].intent = worker[w].intent /\ \A v \in Workers \ {w} : worker'[v] = worker[v]
  BY DEF WorkersTyped
<1> QED BY <1>2, <1>3 DEF Moved, WorkersTyped, ActorAt, Mine

\* A worker takes a command, or is done with one.
LEMMA TakeTyped ==
  ASSUME WorkersTyped, NEW w \in Workers,
         \/ worker' = [worker EXCEPT ![w] = Resting]
         \/ \E i \in Engagements : worker' = [worker EXCEPT ![w] = [pc |-> "mark", intent |-> i, retry |-> TRUE]]
  PROVE  Moved(w, worker'[w].pc) /\ worker'[w].pc \in {"idle", "mark"}
<1>1. CASE worker' = [worker EXCEPT ![w] = Resting]
  BY <1>1 DEF WorkersTyped, WorkerPcs, Resting, Moved, ActorAt, Mine
<1>2. ASSUME NEW i \in Engagements, worker' = [worker EXCEPT ![w] = [pc |-> "mark", intent |-> i, retry |-> TRUE]]
      PROVE  Moved(w, "mark") /\ worker'[w].pc = "mark"
  BY <1>2 DEF WorkersTyped, WorkerPcs, Moved, ActorAt, Mine
<1> QED BY <1>1, <1>2

\* The size of a set of workers, before and after one of them has moved.
LEMMA SetSizes ==
  ASSUME EngagementTypeOK, NEW pcs
  PROVE  /\ Cardinality(At(pcs)) \in Nat /\ IsFiniteSet(At(pcs))
         /\ Cardinality(At(pcs)) <= Cardinality(Workers) /\ Cardinality(Workers) \in Nat
         /\ \A w \in Workers : At(pcs) \ {w} # At(pcs) => Cardinality(At(pcs)) > 0
<1>1. IsFiniteSet(Workers)
  BY EngagementAssumption DEF EngagementAssumption
<1>2. At(pcs) \in SUBSET Workers
  BY DEF At
<1>3. /\ Cardinality(At(pcs)) \in Nat /\ IsFiniteSet(At(pcs))
      /\ Cardinality(At(pcs)) <= Cardinality(Workers) /\ Cardinality(Workers) \in Nat
  BY <1>1, <1>2, FS_Subset, FS_CardinalityType
<1>4. Cardinality(At(pcs)) = 0 => At(pcs) = {}
  BY <1>3, FS_EmptySet
<1> QED BY <1>3, <1>4

LEMMA MovedSizes ==
  ASSUME EngagementTypeOK, NEW w \in Workers, NEW pc, Moved(w, pc), NEW pcs
  PROVE  Cardinality(At(pcs)') =
           CASE worker[w].pc \in pcs /\ pc \notin pcs -> Cardinality(At(pcs)) - 1
             [] worker[w].pc \notin pcs /\ pc \in pcs -> Cardinality(At(pcs)) + 1
             [] OTHER -> Cardinality(At(pcs))
<1>1. IsFiniteSet(At(pcs))
  BY SetSizes
<1>2. CASE pc \in pcs
  <2>1. At(pcs)' = At(pcs) \cup {w}
    BY <1>2 DEF At, Moved
  <2>2. w \in At(pcs) <=> worker[w].pc \in pcs
    BY DEF At
  <2> QED BY <1>1, <1>2, <2>1, <2>2, FS_AddElement
<1>3. CASE pc \notin pcs
  <2>1. At(pcs)' = At(pcs) \ {w}
    BY <1>3 DEF At, Moved
  <2>2. w \in At(pcs) <=> worker[w].pc \in pcs
    BY DEF At
  <2> QED BY <1>1, <1>3, <2>1, <2>2, FS_RemoveElement
<1> QED BY <1>2, <1>3

LEMMA WindowSets == Window = At(PastCheck) /\ Unwritten = At({"record"})
  BY DEF Window, Unwritten, At, PastCheck, ActorAt

-----------------------------------------------------------------------------
(* What a step does to the two sums.                                       *)

\* A step that moves no worker and counts nothing.
LEMMA StillCounts ==
  ASSUME EngagementInvariant, UNCHANGED <<worker, count, today, unrecorded>>
  PROVE  WorkersTyped' /\ CountBounded' /\ TodayCounted'
  BY DEF EngagementInvariant, EngagementTypeOK, WorkersTyped, CountBounded, TodayCounted, Window, Unwritten,
    ActorAt, Mine

\* A step of a worker: whoever joins the sets is paid for by the limit or by the action.
LEMMA WorkerCounts ==
  ASSUME EngagementInvariant, NEW w \in Workers, NEW pc, Moved(w, pc),
         \/ /\ pc \notin PastCheck /\ worker[w].pc # "record"
            /\ UNCHANGED <<count, today, unrecorded>>
         \/ /\ worker[w].pc = "limit" /\ pc = "cooldown" /\ count < Limit
            /\ UNCHANGED <<count, today, unrecorded>>
         \/ /\ worker[w].pc = "cooldown" /\ pc = "act"
            /\ UNCHANGED <<count, today, unrecorded>>
         \/ /\ worker[w].pc = "act" /\ pc = "record" /\ today' = today + 1
            /\ UNCHANGED <<count, unrecorded>>
         \/ /\ worker[w].pc = "act" /\ pc = "fail" /\ today' = today + 1 /\ unrecorded' = unrecorded + 1
            /\ UNCHANGED count
         \/ /\ worker[w].pc = "record" /\ pc = "cool" /\ count' = count + 1
            /\ UNCHANGED <<today, unrecorded>>
         \/ /\ worker[w].pc = "record" /\ pc \notin PastCheck /\ unrecorded' = unrecorded + 1
            /\ UNCHANGED <<count, today>>
  PROVE  CountBounded' /\ TodayCounted'
<1> DEFINE W == Cardinality(At(PastCheck))
           U == Cardinality(At({"record"}))
<1> USE DEF EngagementInvariant
<1>1. W \in Nat /\ U \in Nat /\ W <= Cardinality(Workers) /\ Cardinality(Workers) \in Nat
  BY SetSizes
<1>2. /\ count \in Nat /\ today \in Nat /\ unrecorded \in Nat /\ Limit \in Nat
      /\ count + W <= Limit + Cardinality(Workers) - 1
      /\ today <= count + U + unrecorded
  BY WindowSets, EngagementAssumption DEF EngagementAssumption, EngagementTypeOK, CountBounded, TodayCounted
<1>3. W' = CASE worker[w].pc \in PastCheck /\ pc \notin PastCheck -> W - 1
             [] worker[w].pc \notin PastCheck /\ pc \in PastCheck -> W + 1
             [] OTHER -> W
  BY MovedSizes
<1>4. U' = CASE worker[w].pc = "record" /\ pc # "record" -> U - 1
             [] worker[w].pc # "record" /\ pc = "record" -> U + 1
             [] OTHER -> U
  BY MovedSizes
<1>5. W' <= Cardinality(Workers)
  <2>1. IsFiniteSet(Workers) /\ At(PastCheck)' \in SUBSET Workers
    BY EngagementAssumption DEF EngagementAssumption, At
  <2> QED BY <2>1, FS_Subset
<1>6. CountBounded' <=> count' + W' <= Limit + Cardinality(Workers) - 1
  BY WindowSets DEF CountBounded, Window, At, PastCheck
<1>7. TodayCounted' <=> today' <= count' + U' + unrecorded'
  BY WindowSets DEF TodayCounted, Unwritten, At, ActorAt
<1> HIDE DEF W, U
<1> QED BY <1>1, <1>2, <1>3, <1>4, <1>5, <1>6, <1>7 DEF PastCheck

-----------------------------------------------------------------------------
\* Nothing has been dispatched.
LEMMA EngagementInitInduction == EngagementInit => EngagementInvariant
<1> SUFFICES ASSUME EngagementInit PROVE EngagementInvariant
  OBVIOUS
<1> USE EngagementAssumption DEF EngagementAssumption
<1>1. EngagementTypeOK
  BY DEF EngagementInit, EngagementTypeOK, WorkersTyped, IntentStatus, Resting, WorkerPcs, ActorAt
<1>2. Window = {} /\ Unwritten = {}
  BY DEF EngagementInit, Window, Unwritten, Resting, ActorAt
<1>3. Cardinality(Workers) \in Nat /\ Cardinality(Workers) # 0 /\ Cardinality({}) = 0
  BY FS_CardinalityType, FS_EmptySet
<1> QED
  BY <1>1, <1>2, <1>3 DEF EngagementInit, EngagementInvariant, CountBounded, TodayCounted

\* Requests, the flusher, and what happens around them.
LEMMA RequestInduction ==
  ASSUME EngagementInvariant,
         \/ \E i \in Engagements :
               \/ UserStep(i) \/ FinishRequest(i) \/ Flush(i)
               \/ BecomesDue(i) \/ RouterDies(i) \/ FlushDies(i)
         \/ \E b \in BOOLEAN : SetBlocked(b)
         \/ \E x \in Targets : CooldownEnds(x)
  PROVE  EngagementInvariant'
<1> USE DEF EngagementInvariant, EngagementTypeOK, rowVars, requestVars, safetyVars, worldVars, spentVars
<1>1. ASSUME NEW i \in Engagements, UserStep(i) PROVE EngagementInvariant'
  <2>1. CASE Create(i)
    BY <2>1, StillCounts DEF Create, IntentStatus
  <2>2. CASE FactoryDispatch(i)
    BY <2>2, StillCounts DEF FactoryDispatch, Enqueue, IntentStatus
  <2>3. CASE RouterDispatch(i)
    BY <2>3, StillCounts DEF RouterDispatch, Enqueue, IntentStatus
  <2>4. CASE DeleteRead(i)
    BY <2>4, StillCounts DEF DeleteRead
  <2> QED BY <1>1, <2>1, <2>2, <2>3, <2>4 DEF UserStep
<1>2. ASSUME NEW i \in Engagements, FinishRequest(i) PROVE EngagementInvariant'
  <2>1. CASE RouterPush(i)
    BY <2>1, StillCounts DEF RouterPush, Push
  <2>2. CASE RouterMark(i)
    BY <2>2, StillCounts DEF RouterMark
  <2>3. CASE DeleteWrite(i)
    BY <2>3, StillCounts DEF DeleteWrite, IntentStatus
  <2> QED BY <1>2, <2>1, <2>2, <2>3 DEF FinishRequest
<1>3. ASSUME NEW i \in Engagements, Flush(i) PROVE EngagementInvariant'
  <2>1. CASE FlushPush(i)
    BY <2>1, StillCounts DEF FlushPush, Push
  <2>2. CASE FlushCommit(i)
    BY <2>2, StillCounts DEF FlushCommit
  <2> QED BY <1>3, <2>1, <2>2 DEF Flush
<1>4. ASSUME NEW i \in Engagements, BecomesDue(i) \/ RouterDies(i) \/ FlushDies(i) PROVE EngagementInvariant'
  BY <1>4, StillCounts DEF BecomesDue, RouterDies, FlushDies
<1>5. ASSUME NEW b \in BOOLEAN, SetBlocked(b) PROVE EngagementInvariant'
  BY <1>5, StillCounts DEF SetBlocked
<1>6. ASSUME NEW x \in Targets, CooldownEnds(x) PROVE EngagementInvariant'
  BY <1>6, StillCounts DEF CooldownEnds
<1> QED BY <1>1, <1>2, <1>3, <1>4, <1>5, <1>6

\* A new day starts from nothing: whoever is between check and record then fits under any limit.
LEMMA DayInduction ==
  ASSUME EngagementInvariant, NewDay
  PROVE  EngagementInvariant'
<1> USE DEF EngagementInvariant, NewDay, rowVars, requestVars, spentVars
<1>1. EngagementTypeOK'
  BY DEF EngagementTypeOK, WorkersTyped, ActorAt, Mine
<1>2. /\ Cardinality(At(PastCheck)) \in Nat /\ Cardinality(At({"record"})) \in Nat
      /\ Cardinality(At(PastCheck)) <= Cardinality(Workers) /\ Cardinality(Workers) \in Nat
  BY SetSizes
<1>3. Window' = At(PastCheck) /\ Unwritten' = At({"record"})
  BY WindowSets DEF Window, Unwritten, ActorAt
<1>4. Limit \in Nat /\ Limit >= 1 /\ unrecorded \in Nat
  BY EngagementAssumption DEF EngagementAssumption, EngagementTypeOK
<1> QED BY <1>1, <1>2, <1>3, <1>4 DEF CountBounded, TodayCounted

\* The steps of a worker up to its action.
LEMMA CheckInduction ==
  ASSUME EngagementInvariant, NEW w \in Workers,
         \/ \E i \in Engagements : ReadCommand(w, i)
         \/ Mark(w) \/ CheckLimit(w) \/ CheckCooldown(w)
  PROVE  EngagementInvariant'
<1> USE DEF EngagementInvariant, rowVars, requestVars, safetyVars, worldVars, spentVars
<1>0. WorkersTyped
  BY DEF EngagementTypeOK
<1>1. ASSUME NEW i \in Engagements, ReadCommand(w, i) PROVE EngagementInvariant'
  <2>1. Moved(w, worker'[w].pc) /\ worker'[w].pc \in {"idle", "mark"}
    BY <1>0, <1>1, TakeTyped DEF ReadCommand
  <2>2. CountBounded' /\ TodayCounted'
    BY <1>1, <2>1, WorkerCounts DEF ReadCommand, ActorAt, PastCheck
  <2> QED BY <1>1, <2>1, <2>2 DEF ReadCommand, Moved, EngagementTypeOK
<1>2. CASE Mark(w)
  <2>1. Moved(w, "limit")
    BY <1>0, <1>2, MoveTyped DEF Mark, ActorAt, WorkerPcs
  <2>2. CountBounded' /\ TodayCounted'
    BY <1>2, <2>1, WorkerCounts DEF Mark, ActorAt, PastCheck
  <2> QED BY <1>2, <2>1, <2>2 DEF Mark, Moved, EngagementTypeOK, IntentStatus
<1>3. CASE CheckLimit(w)
  <2>1. ASSUME NEW pc \in {"fail", "cooldown"}, MoveTo(w, pc), pc = "cooldown" => count < Limit
        PROVE  EngagementInvariant'
    <3>1. Moved(w, pc)
      BY <1>0, <1>3, <2>1, MoveTyped DEF CheckLimit, ActorAt, WorkerPcs
    <3>2. CountBounded' /\ TodayCounted'
      BY <1>3, <2>1, <3>1, WorkerCounts DEF CheckLimit, ActorAt, PastCheck
    <3> QED BY <1>3, <3>1, <3>2 DEF CheckLimit, Moved, EngagementTypeOK
  <2>2. CASE blocked \/ count >= Limit
    BY <1>3, <2>1, <2>2 DEF CheckLimit
  <2>3. CASE ~(blocked \/ count >= Limit)
    <3>1. count < Limit
      BY <2>3, EngagementAssumption DEF EngagementAssumption, EngagementTypeOK
    <3> QED BY <1>3, <2>1, <2>3, <3>1 DEF CheckLimit
  <2> QED BY <2>2, <2>3
<1>4. CASE CheckCooldown(w)
  <2>1. ASSUME NEW pc \in {"fail", "act"}, MoveTo(w, pc)
        PROVE  EngagementInvariant'
    <3>1. Moved(w, pc)
      BY <1>0, <1>4, <2>1, MoveTyped DEF CheckCooldown, ActorAt, WorkerPcs
    <3>2. CountBounded' /\ TodayCounted'
      BY <1>4, <2>1, <3>1, WorkerCounts DEF CheckCooldown, ActorAt, PastCheck
    <3> QED BY <1>4, <3>1, <3>2 DEF CheckCooldown, Moved, EngagementTypeOK
  <2> QED BY <1>4, <2>1 DEF CheckCooldown
<1> QED BY <1>1, <1>2, <1>3, <1>4

\* The action, and the record of one that succeeded.
LEMMA ActInduction ==
  ASSUME EngagementInvariant, NEW w \in Workers, Act(w) \/ Record(w)
  PROVE  EngagementInvariant'
<1> USE DEF EngagementInvariant, rowVars, requestVars, safetyVars, worldVars, spentVars
<1>0. WorkersTyped
  BY DEF EngagementTypeOK
<1>1. CASE ActSucceeds(w)
  <2>1. Moved(w, "record")
    BY <1>0, <1>1, MoveTyped DEF ActSucceeds, ActorAt, WorkerPcs
  <2>2. CountBounded' /\ TodayCounted'
    BY <1>1, <2>1, WorkerCounts DEF ActSucceeds, Performed, ActorAt
  <2>3. Mine(w) \in Engagements
    BY <1>0, <1>1 DEF WorkersTyped, ActSucceeds, ActorAt
  <2>4. acts' \in [Engagements -> Nat] /\ excuses' \in [Engagements -> Nat]
    BY <1>1, <2>3 DEF ActSucceeds, Performed, EngagementTypeOK
  <2> QED BY <1>1, <2>1, <2>2, <2>4 DEF ActSucceeds, Performed, Moved, EngagementTypeOK
<1>2. CASE ActFails(w)
  <2>1. PICK again \in BOOLEAN : worker' = [worker EXCEPT ![w].pc = "fail", ![w].retry = again]
    BY <1>2 DEF ActFails
  <2>2. Moved(w, "fail")
    BY <1>0, <1>2, <2>1, FailTyped DEF ActFails, ActorAt
  <2>3. CountBounded' /\ TodayCounted'
    BY <1>2, <2>2, WorkerCounts DEF ActFails, ActorAt, PastCheck
  <2> QED BY <1>2, <2>2, <2>3 DEF ActFails, Moved, EngagementTypeOK
<1>3. CASE ActLost(w)
  <2>1. Moved(w, "fail")
    BY <1>0, <1>3, MoveTyped DEF ActLost, ActorAt, WorkerPcs
  <2>2. CountBounded' /\ TodayCounted'
    BY <1>3, <2>1, WorkerCounts DEF ActLost, Performed, ActorAt
  <2>3. Mine(w) \in Engagements
    BY <1>0, <1>3 DEF WorkersTyped, ActLost, ActorAt
  <2>4. acts' \in [Engagements -> Nat] /\ excuses' \in [Engagements -> Nat]
    BY <1>3, <2>3 DEF ActLost, Performed, EngagementTypeOK
  <2> QED BY <1>3, <2>1, <2>2, <2>4 DEF ActLost, Performed, Moved, EngagementTypeOK
<1>4. CASE Record(w)
  <2>1. Moved(w, "cool")
    BY <1>0, <1>4, MoveTyped DEF Record, ActorAt, WorkerPcs
  <2>2. CountBounded' /\ TodayCounted'
    BY <1>4, <2>1, WorkerCounts DEF Record, ActorAt, PastCheck
  <2> QED BY <1>4, <2>1, <2>2 DEF Record, Moved, EngagementTypeOK
<1> QED BY <1>1, <1>2, <1>3, <1>4 DEF Act

\* What follows: the cooldown, the row, the requeue, the end.
LEMMA AfterInduction ==
  ASSUME EngagementInvariant, NEW w \in Workers,
         SetCooldown(w) \/ Complete(w) \/ Fail(w) \/ Requeue(w) \/ Release(w)
  PROVE  EngagementInvariant'
<1> USE DEF EngagementInvariant, rowVars, requestVars, safetyVars, worldVars, spentVars
<1>0. WorkersTyped
  BY DEF EngagementTypeOK
<1>1. CASE SetCooldown(w)
  <2>1. Moved(w, "complete")
    BY <1>0, <1>1, MoveTyped DEF SetCooldown, ActorAt, WorkerPcs
  <2>2. CountBounded' /\ TodayCounted'
    BY <1>1, <2>1, WorkerCounts DEF SetCooldown, ActorAt, PastCheck
  <2>3. Mine(w) \in Engagements /\ TargetOf[Mine(w)] \in Targets
    BY <1>0, <1>1, EngagementAssumption DEF EngagementAssumption, WorkersTyped, SetCooldown, ActorAt
  <2> QED BY <1>1, <2>1, <2>2, <2>3 DEF SetCooldown, Moved, EngagementTypeOK
<1>2. CASE Complete(w) \/ Fail(w)
  <2>1. PICK pc \in {"lrem", "requeue"} : MoveTo(w, pc)
    BY <1>2 DEF Complete, Fail
  <2>2. Moved(w, pc)
    BY <1>0, <1>2, <2>1, MoveTyped DEF Complete, Fail, ActorAt, WorkerPcs
  <2>3. CountBounded' /\ TodayCounted'
    BY <1>2, <2>2, WorkerCounts DEF Complete, Fail, ActorAt, PastCheck
  <2> QED BY <1>2, <2>2, <2>3 DEF Complete, Fail, SetStatus, Moved, EngagementTypeOK, IntentStatus
<1>3. CASE Requeue(w)
  <2>1. Moved(w, "lrem")
    BY <1>0, <1>3, MoveTyped DEF Requeue, ActorAt, WorkerPcs
  <2>2. CountBounded' /\ TodayCounted'
    BY <1>3, <2>1, WorkerCounts DEF Requeue, ActorAt, PastCheck
  <2>3. Mine(w) \in Engagements
    BY <1>0, <1>3 DEF WorkersTyped, Requeue, ActorAt
  <2> QED BY <1>3, <2>1, <2>2, <2>3 DEF Requeue, Moved, EngagementTypeOK
<1>4. CASE Release(w)
  <2>1. Moved(w, worker'[w].pc) /\ worker'[w].pc \in {"idle", "mark"}
    BY <1>0, <1>4, TakeTyped DEF Release
  <2>2. CountBounded' /\ TodayCounted'
    BY <1>4, <2>1, WorkerCounts DEF Release, ActorAt, PastCheck
  <2> QED BY <1>4, <2>1, <2>2 DEF Release, Moved, EngagementTypeOK
<1> QED BY <1>1, <1>2, <1>3, <1>4

\* A statement throws, or a process dies.
LEMMA FaultInduction ==
  ASSUME EngagementInvariant, NEW w \in Workers, DbError(w) \/ WorkerDies(w)
  PROVE  EngagementInvariant'
<1> USE DEF EngagementInvariant, rowVars, requestVars, safetyVars, worldVars, spentVars
<1>0. WorkersTyped
  BY DEF EngagementTypeOK
<1>1. CASE DbError(w)
  <2>1. ~ActorAt(w, "idle") /\ worker[w].pc # "record"
    BY <1>1 DEF DbError, ActorAt
  <2>2. PICK pc \in {"fail", "lrem"} : Moved(w, pc)
    <3>1. CASE worker' = [worker EXCEPT ![w].pc = "fail", ![w].retry = TRUE]
      BY <1>0, <2>1, <3>1, FailTyped
    <3>2. CASE MoveTo(w, "lrem")
      BY <1>0, <2>1, <3>2, MoveTyped DEF WorkerPcs
    <3> QED BY <1>1, <3>1, <3>2 DEF DbError
  <2>3. CountBounded' /\ TodayCounted'
    BY <1>1, <2>1, <2>2, WorkerCounts DEF DbError, PastCheck
  <2> QED BY <1>1, <2>2, <2>3 DEF DbError, Moved, EngagementTypeOK
<1>2. CASE WorkerDies(w)
  <2>1. Moved(w, worker'[w].pc) /\ worker'[w].pc \in {"idle", "mark"}
    BY <1>0, <1>2, TakeTyped DEF WorkerDies
  <2>2. CountBounded' /\ TodayCounted'
    BY <1>2, <2>1, WorkerCounts DEF WorkerDies, ActorAt, PastCheck
  <2> QED BY <1>2, <2>1, <2>2 DEF WorkerDies, Moved, EngagementTypeOK
<1> QED BY <1>1, <1>2

-----------------------------------------------------------------------------
\* The daily count passes the limit by less than the number of workers, and what Instagram saw is
\* counted, about to be, or excused (preActionValidation and recordAction).
THEOREM EngagementKept == EngagementSpec => []EngagementInvariant
<1>1. ASSUME EngagementInvariant, [EngagementNext]_engagementVars PROVE EngagementInvariant'
  <2>1. CASE UNCHANGED engagementVars
    BY <1>1, <2>1 DEF engagementVars, rowVars, requestVars, safetyVars, worldVars, spentVars,
      EngagementInvariant, EngagementTypeOK, WorkersTyped, CountBounded, TodayCounted, Window, Unwritten,
      ActorAt, Mine
  <2>2. ASSUME NEW w \in Workers, WorkerStep(w) PROVE EngagementInvariant'
    BY <1>1, <2>2, CheckInduction, ActInduction, AfterInduction DEF WorkerStep
  <2>3. CASE Environment
    BY <1>1, <2>3, RequestInduction, FaultInduction, DayInduction DEF Environment
  <2> QED BY <1>1, <2>1, <2>2, <2>3, RequestInduction DEF EngagementNext
<1> QED BY <1>1, EngagementInitInduction, PTL DEF EngagementSpec

\* What Instagram sees in a day overruns the limit by less than the number of workers, apart from
\* actions that never reach the count: lost answers, failing records, deaths in between.
THEOREM LimitOverrun == EngagementSpec => []LimitOverrunBounded
<1>1. EngagementInvariant => LimitOverrunBounded
  <2> SUFFICES ASSUME EngagementInvariant PROVE LimitOverrunBounded
    OBVIOUS
  <2>1. IsFiniteSet(Window) /\ Unwritten \in SUBSET Window
    BY SetSizes, WindowSets DEF Window, Unwritten, ActorAt, EngagementInvariant
  <2>2. Cardinality(Unwritten) <= Cardinality(Window) /\ Cardinality(Window) \in Nat /\ Cardinality(Unwritten) \in Nat
    BY <2>1, FS_Subset, FS_CardinalityType
  <2>3. Cardinality(Workers) \in Nat /\ Limit \in Nat
    BY EngagementAssumption, FS_CardinalityType DEF EngagementAssumption
  <2> QED
    BY <2>2, <2>3 DEF EngagementInvariant, EngagementTypeOK, CountBounded, TodayCounted, LimitOverrunBounded
<1> QED BY <1>1, EngagementKept, PTL

-----------------------------------------------------------------------------
(* What was done, and for which push.                                      *)

\* A worker that may still do what its command says, or put the command back.
Pending == {"mark", "limit", "cooldown", "act", "fail", "requeue"}
Owes(w, i) == worker[w].intent = i /\ worker[w].pc \in Pending
Owing(i) == {w \in Workers : Owes(w, i)}

\* Each push is for one action: done, on its way, or lost with a final failure or a process.
Balance(i) == acts[i] + commands[i] + Cardinality(Owing(i)) <= pushed[i] + excuses[i]

\* A worker that has seen the answer of its action has done it.
AnswerSeen == \A w \in Workers : worker[w].pc \in {"record", "cool", "complete"} => acts[Mine(w)] > 0

ActsInduction == (\A i \in Engagements : Balance(i)) /\ AnswerSeen /\ CompletedWasDone

LEMMA OwingSizes ==
  ASSUME EngagementTypeOK, NEW w \in Workers, \A v \in Workers \ {w} : worker'[v] = worker[v], NEW i
  PROVE  /\ Cardinality(Owing(i)) \in Nat
         /\ Cardinality(Owing(i)') =
              CASE Owes(w, i) /\ ~Owes(w, i)' -> Cardinality(Owing(i)) - 1
                [] ~Owes(w, i) /\ Owes(w, i)' -> Cardinality(Owing(i)) + 1
                [] OTHER -> Cardinality(Owing(i))
<1>1. IsFiniteSet(Owing(i)) /\ Cardinality(Owing(i)) \in Nat
  <2>1. IsFiniteSet(Workers) /\ Owing(i) \in SUBSET Workers
    BY EngagementAssumption DEF EngagementAssumption, Owing
  <2> QED BY <2>1, FS_Subset, FS_CardinalityType
<1>2. w \in Owing(i) <=> Owes(w, i)
  BY DEF Owing
<1>3. CASE Owes(w, i)'
  <2>1. Owing(i)' = Owing(i) \cup {w}
    BY <1>3 DEF Owing, Owes
  <2> QED BY <1>1, <1>2, <1>3, <2>1, FS_AddElement
<1>4. CASE ~Owes(w, i)'
  <2>1. Owing(i)' = Owing(i) \ {w}
    BY <1>4 DEF Owing, Owes
  <2> QED BY <1>1, <1>2, <1>4, <2>1, FS_RemoveElement
<1> QED BY <1>3, <1>4

\* The ways in which a step of a worker keeps the balance of an intent.
LEMMA BalanceKept ==
  ASSUME EngagementTypeOK, EngagementTypeOK', NEW w \in Workers, \A v \in Workers \ {w} : worker'[v] = worker[v],
         NEW i \in Engagements, Balance(i), pushed'[i] = pushed[i],
         \/ /\ Owes(w, i)' => Owes(w, i)
            /\ acts'[i] = acts[i] /\ commands'[i] = commands[i] /\ excuses'[i] >= excuses[i]
         \/ /\ Owes(w, i) /\ ~Owes(w, i)'
            /\ acts'[i] + commands'[i] = acts[i] + commands[i] + 1 /\ excuses'[i] = excuses[i]
         \/ acts'[i] = acts[i] /\ commands'[i] = commands[i] - 1 /\ excuses'[i] = excuses[i]
         \/ /\ Owes(w, i)' => Owes(w, i)
            /\ acts'[i] = acts[i] + 1 /\ commands'[i] = commands[i] /\ excuses'[i] = excuses[i] + 1
         \/ acts'[i] = acts[i] /\ commands'[i] = commands[i] /\ excuses'[i] = excuses[i] + 1
  PROVE  Balance(i)'
<1> DEFINE n == Cardinality(Owing(i))
<1>1. /\ n \in Nat
      /\ n' = CASE Owes(w, i) /\ ~Owes(w, i)' -> n - 1
                [] ~Owes(w, i) /\ Owes(w, i)' -> n + 1
                [] OTHER -> n
  BY OwingSizes
<1>2. /\ {acts[i], commands[i], pushed[i], excuses[i]} \subseteq Nat
      /\ {acts'[i], commands'[i], excuses'[i]} \subseteq Nat
  BY DEF EngagementTypeOK
<1>3. acts[i] + commands[i] + n <= pushed[i] + excuses[i]
  BY DEF Balance
<1>4. Balance(i)' <=> acts'[i] + commands'[i] + n' <= pushed'[i] + excuses'[i]
  BY DEF Balance
<1> HIDE DEF n
<1> QED BY <1>1, <1>2, <1>3, <1>4

\* A worker that goes on without acting, and neither puts a command back nor is excused.
LEMMA PlainActs ==
  ASSUME EngagementTypeOK, EngagementTypeOK', ActsInduction, NEW w \in Workers, NEW pc, Moved(w, pc),
         Mine(w)' = Mine(w) \/ pc = "idle",
         pc \in Pending => worker[w].pc \in Pending,
         pc \in {"record", "cool", "complete"} => worker[w].pc \in {"record", "cool", "complete"},
         UNCHANGED <<acts, commands, pushed, excuses>>,
         \A i \in Engagements :
            rowOf'[i] = "completed" => rowOf[i] = "completed" \/ (i = Mine(w) /\ worker[w].pc = "complete")
  PROVE  ActsInduction'
<1>1. ASSUME NEW i \in Engagements PROVE Balance(i)'
  <2>1. Owes(w, i)' => Owes(w, i)
    BY DEF Owes, Moved, Mine, Pending
  <2>2. excuses[i] \in Nat
    BY DEF EngagementTypeOK
  <2> QED BY <2>1, <2>2, BalanceKept DEF ActsInduction, Moved
<1>2. AnswerSeen'
  BY DEF ActsInduction, AnswerSeen, Moved, Mine
<1>3. CompletedWasDone'
  BY DEF ActsInduction, AnswerSeen, CompletedWasDone
<1> QED BY <1>1, <1>2, <1>3 DEF ActsInduction

\* A worker takes a command, and looks whether it may act.
LEMMA CheckActs ==
  ASSUME EngagementTypeOK, EngagementTypeOK', ActsInduction, NEW w \in Workers,
         \/ \E i \in Engagements : ReadCommand(w, i)
         \/ Mark(w) \/ CheckLimit(w) \/ CheckCooldown(w) \/ ActFails(w)
  PROVE  ActsInduction'
<1> USE DEF rowVars, requestVars, safetyVars, worldVars, spentVars
<1>0. WorkersTyped
  BY DEF EngagementTypeOK
<1>1. ASSUME NEW c \in Engagements, ReadCommand(w, c) PROVE ActsInduction'
  <2>1. /\ \A v \in Workers \ {w} : worker'[v] = worker[v]
        /\ worker'[w].pc = "mark" /\ worker'[w].intent = c
        /\ worker[w].pc = "idle" /\ commands' = [commands EXCEPT ![c] = @ - 1]
        /\ UNCHANGED <<acts, pushed, excuses, rowOf>>
    BY <1>0, <1>1 DEF ReadCommand, WorkersTyped, ActorAt
  <2>2. ASSUME NEW i \in Engagements PROVE Balance(i)'
    <3>1. CASE i = c
      <4>1. commands'[i] = commands[i] - 1
        BY <2>1, <3>1 DEF EngagementTypeOK
      <4> QED BY <2>1, <4>1, BalanceKept DEF ActsInduction
    <3>2. CASE i # c
      <4>1. commands'[i] = commands[i] /\ ~Owes(w, i)' /\ excuses[i] \in Nat
        BY <2>1, <3>2 DEF EngagementTypeOK, Owes
      <4> QED BY <2>1, <4>1, BalanceKept DEF ActsInduction
    <3> QED BY <3>1, <3>2
  <2>3. AnswerSeen' /\ CompletedWasDone'
    BY <2>1 DEF ActsInduction, AnswerSeen, CompletedWasDone, Mine
  <2> QED BY <2>2, <2>3 DEF ActsInduction
<1>2. CASE Mark(w)
  <2>1. Moved(w, "limit") /\ Mine(w)' = Mine(w)
    BY <1>0, <1>2, MoveTyped DEF Mark, ActorAt, WorkerPcs
  <2>2. \A i \in Engagements : rowOf'[i] = "completed" => rowOf[i] = "completed"
    BY <1>2 DEF Mark, EngagementTypeOK
  <2> QED BY <1>2, <2>1, <2>2, PlainActs DEF Mark, ActorAt, Pending
<1>3. CASE CheckLimit(w) \/ CheckCooldown(w)
  <2>1. PICK pc \in {"fail", "cooldown", "act"} : MoveTo(w, pc)
    BY <1>3 DEF CheckLimit, CheckCooldown
  <2>2. Moved(w, pc) /\ Mine(w)' = Mine(w)
    BY <1>0, <1>3, <2>1, MoveTyped DEF CheckLimit, CheckCooldown, ActorAt, WorkerPcs
  <2> QED BY <1>3, <2>2, PlainActs DEF CheckLimit, CheckCooldown, ActorAt, Pending
<1>4. CASE ActFails(w)
  <2>1. PICK again \in BOOLEAN : worker' = [worker EXCEPT ![w].pc = "fail", ![w].retry = again]
    BY <1>4 DEF ActFails
  <2>2. Moved(w, "fail") /\ Mine(w)' = Mine(w)
    BY <1>0, <1>4, <2>1, FailTyped DEF ActFails, ActorAt
  <2> QED BY <1>4, <2>2, PlainActs DEF ActFails, ActorAt, Pending
<1> QED BY <1>1, <1>2, <1>3, <1>4

\* An action is one for the command the worker holds, or one whose success it does not learn of.
LEMMA DoneActs ==
  ASSUME EngagementTypeOK, EngagementTypeOK', ActsInduction, NEW w \in Workers, ActSucceeds(w) \/ ActLost(w)
  PROVE  ActsInduction'
<1> USE DEF rowVars, requestVars, safetyVars, worldVars, spentVars
<1>0. WorkersTyped /\ Mine(w) \in Engagements
  BY DEF EngagementTypeOK, WorkersTyped, ActSucceeds, ActLost, ActorAt
<1>1. PICK pc \in {"record", "fail"} : /\ Moved(w, pc) /\ Mine(w)' = Mine(w)
                                       /\ ActSucceeds(w) => pc = "record"
                                       /\ ActLost(w) => pc = "fail"
  <2>1. CASE ActSucceeds(w)
    <3>1. Moved(w, "record") /\ Mine(w)' = Mine(w)
      BY <1>0, <2>1, MoveTyped DEF ActSucceeds, ActorAt, WorkerPcs
    <3>2. ~ActLost(w)
      BY <2>1, <3>1, <1>0 DEF ActLost, MoveTo, Moved, WorkersTyped
    <3> QED BY <3>1, <3>2
  <2>2. CASE ActLost(w)
    <3>1. Moved(w, "fail") /\ Mine(w)' = Mine(w)
      BY <1>0, <2>2, MoveTyped DEF ActLost, ActorAt, WorkerPcs
    <3>2. ~ActSucceeds(w)
      BY <2>2, <3>1, <1>0 DEF ActSucceeds, MoveTo, Moved, WorkersTyped
    <3> QED BY <3>1, <3>2
  <2> QED BY <2>1, <2>2
<1>2. /\ worker[w].pc = "act" /\ acts' = [acts EXCEPT ![Mine(w)] = @ + 1]
      /\ UNCHANGED <<rowOf, commands, pushed>>
  BY DEF ActSucceeds, ActLost, Performed, ActorAt
<1>3. ASSUME NEW i \in Engagements PROVE Balance(i)'
  <2>1. CASE i # Mine(w)
    <3>1. acts'[i] = acts[i] /\ excuses'[i] = excuses[i] /\ excuses[i] \in Nat /\ ~Owes(w, i)'
      BY <1>0, <1>1, <1>2, <2>1 DEF ActSucceeds, ActLost, EngagementTypeOK, Owes, Mine
    <3> QED BY <1>1, <1>2, <3>1, BalanceKept DEF ActsInduction, Moved
  <2>2. CASE i = Mine(w) /\ ActSucceeds(w)
    <3>1. /\ acts'[i] = acts[i] + 1 /\ excuses'[i] = excuses[i] /\ Owes(w, i) /\ ~Owes(w, i)'
          /\ acts[i] \in Nat /\ commands[i] \in Nat
      BY <1>0, <1>1, <1>2, <2>2 DEF ActSucceeds, EngagementTypeOK, Owes, Mine, Pending, Moved
    <3>2. acts'[i] + commands'[i] = acts[i] + commands[i] + 1
      BY <1>2, <3>1
    <3> QED BY <1>1, <1>2, <3>1, <3>2, BalanceKept DEF ActsInduction, Moved
  <2>3. CASE i = Mine(w) /\ ActLost(w)
    <3>1. /\ acts'[i] = acts[i] + 1 /\ excuses'[i] = excuses[i] + 1 /\ Owes(w, i)
      BY <1>0, <1>1, <1>2, <2>3 DEF ActLost, EngagementTypeOK, Owes, Mine, Pending
    <3> QED BY <1>1, <1>2, <3>1, BalanceKept DEF ActsInduction, Moved
  <2> QED BY <2>1, <2>2, <2>3
<1>4. \A i \in Engagements : acts[i] > 0 => acts'[i] > 0
  BY <1>2 DEF EngagementTypeOK
<1>5. acts'[Mine(w)] > 0
  BY <1>0, <1>2 DEF EngagementTypeOK
<1>6. AnswerSeen' /\ CompletedWasDone'
  <2>1. \A v \in Workers : worker[v].pc \in {"record", "cool", "complete"} => Mine(v) \in Engagements
    BY <1>0 DEF WorkersTyped, ActorAt
  <2> QED BY <1>1, <1>2, <1>4, <1>5, <2>1 DEF ActsInduction, AnswerSeen, CompletedWasDone, Moved, Mine
<1> QED BY <1>3, <1>6 DEF ActsInduction

\* What follows an action: a requeue puts back what the worker takes from its own hands.
LEMMA AfterActs ==
  ASSUME EngagementTypeOK, EngagementTypeOK', ActsInduction, NEW w \in Workers,
         Record(w) \/ SetCooldown(w) \/ Complete(w) \/ Fail(w) \/ Requeue(w) \/ Release(w)
  PROVE  ActsInduction'
<1> USE DEF rowVars, requestVars, safetyVars, worldVars, spentVars
<1>0. WorkersTyped
  BY DEF EngagementTypeOK
<1>1. CASE Record(w) \/ SetCooldown(w)
  <2>1. PICK pc \in {"cool", "complete"} : MoveTo(w, pc)
    BY <1>1 DEF Record, SetCooldown
  <2>2. Moved(w, pc) /\ Mine(w)' = Mine(w)
    BY <1>0, <1>1, <2>1, MoveTyped DEF Record, SetCooldown, ActorAt, WorkerPcs
  <2> QED BY <1>1, <2>2, PlainActs DEF Record, SetCooldown, ActorAt, Pending
<1>2. CASE Complete(w)
  <2>1. Moved(w, "lrem") /\ Mine(w)' = Mine(w)
    BY <1>0, <1>2, MoveTyped DEF Complete, ActorAt, WorkerPcs
  <2>2. \A i \in Engagements : rowOf'[i] = "completed" => rowOf[i] = "completed" \/ i = Mine(w)
    BY <1>2 DEF Complete, SetStatus, EngagementTypeOK
  <2> QED BY <1>2, <2>1, <2>2, PlainActs DEF Complete, ActorAt, Pending
<1>3. CASE Fail(w)
  <2>1. Moved(w, "requeue") /\ Mine(w)' = Mine(w)
    BY <1>0, <1>3, MoveTyped DEF Fail, ActorAt, WorkerPcs
  <2>2. \A i \in Engagements : rowOf'[i] = "completed" => rowOf[i] = "completed"
    BY <1>3 DEF Fail, SetStatus, EngagementTypeOK
  <2> QED BY <1>3, <2>1, <2>2, PlainActs DEF Fail, ActorAt, Pending
<1>4. CASE Requeue(w)
  <2>1. Moved(w, "lrem") /\ Mine(w)' = Mine(w) /\ UNCHANGED <<rowOf, acts, pushed, excuses>>
    BY <1>0, <1>4, MoveTyped DEF Requeue, ActorAt, WorkerPcs
  <2>2. CASE UNCHANGED commands
    BY <2>1, <2>2, PlainActs DEF Pending
  <2>3. CASE commands' = [commands EXCEPT ![Mine(w)] = @ + 1]
    <3>1. ASSUME NEW i \in Engagements PROVE Balance(i)'
      <4>1. ~Owes(w, i)'
        BY <2>1 DEF Owes, Moved, Pending
      <4>2. CASE i # Mine(w)
        <5>1. commands'[i] = commands[i] /\ excuses[i] \in Nat
          BY <2>3, <4>2 DEF EngagementTypeOK
        <5> QED BY <2>1, <4>1, <5>1, BalanceKept DEF ActsInduction, Moved
      <4>3. CASE i = Mine(w)
        <5>1. Owes(w, i) /\ acts'[i] + commands'[i] = acts[i] + commands[i] + 1
          BY <1>4, <2>1, <2>3, <4>3 DEF EngagementTypeOK, Owes, Mine, Requeue, ActorAt, Pending
        <5> QED BY <2>1, <4>1, <5>1, BalanceKept DEF ActsInduction, Moved
      <4> QED BY <4>2, <4>3
    <3>2. AnswerSeen' /\ CompletedWasDone'
      BY <2>1 DEF ActsInduction, AnswerSeen, CompletedWasDone, Moved, Mine
    <3> QED BY <3>1, <3>2 DEF ActsInduction
  <2> QED BY <1>4, <2>2, <2>3 DEF Requeue
<1>5. CASE Release(w)
  <2>1. worker' = [worker EXCEPT ![w] = Resting] /\ worker'[w].pc = "idle"
    BY <1>0, <1>5 DEF Release, WorkersTyped, Resting
  <2>2. Moved(w, "idle")
    BY <1>0, <2>1, TakeTyped
  <2> QED BY <1>5, <2>2, PlainActs DEF Release, Pending
<1> QED BY <1>1, <1>2, <1>3, <1>4, <1>5

\* Deaths lose commands, errors repeat them: an action that is not yet recorded excuses its repetition.
LEMMA FaultActs ==
  ASSUME EngagementTypeOK, EngagementTypeOK', ActsInduction, NEW w \in Workers, DbError(w) \/ WorkerDies(w)
  PROVE  ActsInduction'
<1> USE DEF rowVars, requestVars, safetyVars, worldVars, spentVars
<1>0. WorkersTyped
  BY DEF EngagementTypeOK
<1>1. CASE WorkerDies(w)
  <2>1. worker' = [worker EXCEPT ![w] = Resting] /\ worker'[w].pc = "idle"
    BY <1>0, <1>1 DEF WorkerDies, WorkersTyped, Resting
  <2>2. Moved(w, "idle")
    BY <1>0, <2>1, TakeTyped
  <2> QED BY <1>1, <2>2, PlainActs DEF WorkerDies, Pending
<1>2. ASSUME worker[w].pc \in {"mark", "limit", "cooldown"}, UNCHANGED <<rowOf, acts, commands, pushed, excuses>>,
             worker' = [worker EXCEPT ![w].pc = "fail", ![w].retry = TRUE]
      PROVE  ActsInduction'
  <2>1. Moved(w, "fail") /\ Mine(w)' = Mine(w)
    BY <1>0, <1>2, FailTyped DEF ActorAt
  <2> QED BY <1>2, <2>1, PlainActs DEF Pending
<1>3. ASSUME worker[w].pc \in {"fail", "requeue"}, UNCHANGED <<rowOf, acts, commands, pushed, excuses>>,
             MoveTo(w, "lrem")
      PROVE  ActsInduction'
  <2>1. Moved(w, "lrem") /\ Mine(w)' = Mine(w)
    BY <1>0, <1>3, MoveTyped DEF ActorAt, WorkerPcs
  <2> QED BY <1>3, <2>1, PlainActs DEF Pending
<1>4. ASSUME worker[w].pc \in {"cool", "complete"}, UNCHANGED <<rowOf, acts, commands, pushed>>,
             worker' = [worker EXCEPT ![w].pc = "fail", ![w].retry = TRUE],
             excuses' = [excuses EXCEPT ![Mine(w)] = @ + 1]
      PROVE  ActsInduction'
  <2>1. Moved(w, "fail") /\ Mine(w)' = Mine(w)
    BY <1>0, <1>4, FailTyped DEF ActorAt
  <2>2. ASSUME NEW i \in Engagements PROVE Balance(i)'
    <3>1. CASE i # Mine(w)
      <4>1. excuses'[i] = excuses[i] /\ excuses[i] \in Nat
        BY <1>4, <3>1 DEF EngagementTypeOK
      <4>2. ~Owes(w, i)'
        BY <2>1, <3>1 DEF Owes, Mine
      <4>3. /\ acts'[i] = acts[i] /\ commands'[i] = commands[i] /\ pushed'[i] = pushed[i]
            /\ excuses'[i] >= excuses[i] /\ Balance(i)
        BY <1>4, <4>1 DEF ActsInduction
      <4>4. \A v \in Workers \ {w} : worker'[v] = worker[v]
        BY <2>1 DEF Moved
      <4> QED BY <4>2, <4>3, <4>4, BalanceKept
    <3>2. CASE i = Mine(w)
      <4>1. excuses'[i] = excuses[i] + 1
        BY <1>4, <3>2 DEF EngagementTypeOK
      <4> QED BY <1>4, <2>1, <4>1, BalanceKept DEF ActsInduction, Moved
    <3> QED BY <3>1, <3>2
  <2>3. AnswerSeen' /\ CompletedWasDone'
    BY <1>4, <2>1 DEF ActsInduction, AnswerSeen, CompletedWasDone, Moved, Mine
  <2> QED BY <2>2, <2>3 DEF ActsInduction
<1>5. CASE DbError(w)
  BY <1>2, <1>3, <1>4, <1>5 DEF DbError
<1> QED BY <1>1, <1>5

\* Requests, the flusher and the environment push, but do nothing themselves.
LEMMA RequestActs ==
  ASSUME EngagementTypeOK, EngagementTypeOK', ActsInduction,
         \/ \E i \in Engagements :
               \/ UserStep(i) \/ FinishRequest(i) \/ Flush(i)
               \/ BecomesDue(i) \/ RouterDies(i) \/ FlushDies(i)
         \/ \E b \in BOOLEAN : SetBlocked(b)
         \/ \E x \in Targets : CooldownEnds(x)
         \/ NewDay
  PROVE  ActsInduction'
<1> USE DEF rowVars, requestVars, safetyVars, worldVars, spentVars
<1>1. UNCHANGED <<worker, acts, excuses>>
  BY DEF UserStep, Create, FactoryDispatch, RouterDispatch, DeleteRead, FinishRequest, RouterPush, RouterMark,
    DeleteWrite, Flush, FlushPush, FlushCommit, BecomesDue, RouterDies, FlushDies, SetBlocked, CooldownEnds, NewDay
<1>2. UNCHANGED <<commands, pushed>> \/ \E i \in Engagements : Push(i)
  BY DEF UserStep, Create, FactoryDispatch, RouterDispatch, DeleteRead, FinishRequest, RouterPush, RouterMark,
    DeleteWrite, Flush, FlushPush, FlushCommit, BecomesDue, RouterDies, FlushDies, SetBlocked, CooldownEnds, NewDay
<1>3. \A i \in Engagements : rowOf'[i] = "completed" => rowOf[i] = "completed"
  BY DEF EngagementTypeOK, UserStep, Create, FactoryDispatch, RouterDispatch, Enqueue, DeleteRead, FinishRequest,
    RouterPush, RouterMark, DeleteWrite, Flush, FlushPush, FlushCommit, BecomesDue, RouterDies, FlushDies,
    SetBlocked, CooldownEnds, NewDay
<1>4. ASSUME NEW i \in Engagements PROVE Balance(i)'
  <2>1. Cardinality(Owing(i)') = Cardinality(Owing(i)) /\ Cardinality(Owing(i)) \in Nat
    <3>1. Owing(i)' = Owing(i)
      BY <1>1 DEF Owing, Owes
    <3>2. IsFiniteSet(Workers) /\ Owing(i) \in SUBSET Workers
      BY EngagementAssumption DEF EngagementAssumption, Owing
    <3> QED BY <3>1, <3>2, FS_Subset, FS_CardinalityType
  <2>2. \/ commands'[i] = commands[i] /\ pushed'[i] = pushed[i]
        \/ commands'[i] = commands[i] + 1 /\ pushed'[i] = pushed[i] + 1
    BY <1>2 DEF Push, EngagementTypeOK
  <2>3. {acts[i], commands[i], pushed[i], excuses[i]} \subseteq Nat /\ acts'[i] = acts[i] /\ excuses'[i] = excuses[i]
    BY <1>1 DEF EngagementTypeOK
  <2> QED BY <2>1, <2>2, <2>3 DEF ActsInduction, Balance
<1>5. AnswerSeen' /\ CompletedWasDone'
  BY <1>1, <1>3 DEF ActsInduction, AnswerSeen, CompletedWasDone, Mine
<1> QED BY <1>4, <1>5 DEF ActsInduction

LEMMA ActsInitInduction == EngagementInit => ActsInduction
<1> SUFFICES ASSUME EngagementInit PROVE ActsInduction
  OBVIOUS
<1>1. ASSUME NEW i \in Engagements PROVE Balance(i)
  <2>1. Owing(i) = {}
    BY DEF EngagementInit, Owing, Owes, Resting, Pending
  <2>2. Cardinality(Owing(i)) = 0 /\ acts[i] = 0 /\ commands[i] = 0 /\ pushed[i] = 0 /\ excuses[i] = 0
    BY <2>1, FS_EmptySet DEF EngagementInit
  <2> QED BY <2>2 DEF Balance
<1>2. AnswerSeen /\ CompletedWasDone
  BY DEF EngagementInit, AnswerSeen, CompletedWasDone, Resting
<1> QED BY <1>1, <1>2 DEF ActsInduction

\* An intent that says completed was carried out, and is carried out again only for another push or
\* for an action whose success was not recorded (EngagementWorker.processCommand).
THEOREM ActsKept == EngagementSpec => []ActsAccounted
<1>1. ASSUME EngagementTypeOK, EngagementTypeOK', ActsInduction, [EngagementNext]_engagementVars
      PROVE  ActsInduction'
  <2>1. CASE UNCHANGED engagementVars
    BY <1>1, <2>1 DEF engagementVars, rowVars, requestVars, safetyVars, worldVars, spentVars, ActsInduction,
      Balance, AnswerSeen, CompletedWasDone, Owing, Owes, Mine
  <2>2. ASSUME NEW w \in Workers, WorkerStep(w) PROVE ActsInduction'
    BY <1>1, <2>2, CheckActs, DoneActs, AfterActs DEF WorkerStep, Act
  <2>3. CASE Environment
    BY <1>1, <2>3, RequestActs, FaultActs DEF Environment
  <2> QED BY <1>1, <2>1, <2>2, <2>3, RequestActs DEF EngagementNext
<1>2. ASSUME EngagementTypeOK, ActsInduction PROVE ActsAccounted
  <2>1. ASSUME NEW i \in Engagements PROVE acts[i] <= pushed[i] + excuses[i]
    <3>1. IsFiniteSet(Workers) /\ Owing(i) \in SUBSET Workers
      BY EngagementAssumption DEF EngagementAssumption, Owing
    <3>2. Cardinality(Owing(i)) \in Nat
      BY <3>1, FS_Subset, FS_CardinalityType
    <3>3. acts[i] + commands[i] + Cardinality(Owing(i)) <= pushed[i] + excuses[i]
      BY <1>2 DEF ActsInduction, Balance
    <3>4. {acts[i], commands[i], pushed[i], excuses[i]} \subseteq Nat
      BY <1>2 DEF EngagementTypeOK
    <3> QED BY <3>2, <3>3, <3>4
  <2> QED BY <1>2, <2>1 DEF ActsInduction, ActsAccounted, RepeatsAccounted
<1>3. EngagementInvariant => EngagementTypeOK
  BY DEF EngagementInvariant
<1> QED BY <1>1, <1>2, <1>3, EngagementKept, ActsInitInduction, PTL DEF EngagementSpec

-----------------------------------------------------------------------------
(* Where an intent is that was dispatched and is not done.                 *)

Open == {"queued", "processing", "failed"}

Held(i) == commands[i] > 0 \/ \E w \in Workers : worker[w].intent = i /\ worker[w].pc # "lrem"

\* Until the first push the dispatch or the flusher has it; from then on the list or a worker, and
\* the mark that ends the dispatch, or the flush, takes nothing away.
Followed(i) ==
  /\ rowOf[i] \in {"none", "ready"} => dispatching[i] = "no" /\ i \notin flushing
  /\ \/ rowOf[i] \in Open => Held(i) \/ i \in dlq
     \/ dispatching[i] = "push"
     \/ outbox[i] = "pending" /\ i \notin flushing /\ dispatching[i] # "mark"

FollowInduction ==
  /\ \A w \in Workers : worker[w].pc = "idle" => worker[w].intent = NoCommand
  /\ died = 0 /\ dbErrors = 0 => \A i \in Engagements : Followed(i)

\* A step of a worker that keeps hold of what it has, lets go of a finished intent, or hands on.
LEMMA FollowedWorker ==
  ASSUME EngagementTypeOK, EngagementTypeOK', FollowInduction, NEW w \in Workers,
         died' = 0 /\ dbErrors' = 0 => died = 0 /\ dbErrors = 0,
         \A v \in Workers \ {w} : worker'[v] = worker[v],
         worker'[w].pc = "idle" => worker'[w].intent = NoCommand,
         UNCHANGED <<outbox, dispatching, flushing>>, dlq \subseteq dlq',
         \A i \in Engagements :
            /\ rowOf'[i] \in {"none", "ready"} => rowOf[i] = rowOf'[i]
            /\ i # worker[w].intent => (rowOf'[i] \in Open => rowOf[i] \in Open)
            /\ commands'[i] < commands[i] => worker'[w].intent = i /\ worker'[w].pc # "lrem",
         worker[w].intent \in Engagements =>
            \/ worker'[w].intent = worker[w].intent /\ worker'[w].pc # "lrem"
            \/ worker[w].pc = "lrem" /\ (rowOf'[worker[w].intent] \in Open => rowOf[worker[w].intent] \in Open)
            \/ rowOf'[worker[w].intent] \notin Open
            \/ commands'[worker[w].intent] > 0
            \/ worker[w].intent \in dlq'
  PROVE  FollowInduction'
<1> SUFFICES ASSUME died' = 0, dbErrors' = 0, NEW i \in Engagements PROVE Followed(i)'
  BY DEF FollowInduction
<1>1. Followed(i)
  BY DEF FollowInduction
<1>2. commands[i] \in Nat /\ commands'[i] \in Nat
  BY DEF EngagementTypeOK
<1>3. CASE i # worker[w].intent
  <2>1. Held(i) => Held(i)'
    <3>1. ASSUME NEW v \in Workers, worker[v].intent = i, worker[v].pc # "lrem" PROVE Held(i)'
      BY <1>3, <3>1 DEF Held
    <3>2. ASSUME commands[i] > 0 PROVE Held(i)'
      BY <1>2, <3>2 DEF Held
    <3> QED BY <3>1, <3>2 DEF Held
  <2> QED BY <1>1, <1>3, <2>1 DEF Followed
<1>4. CASE i = worker[w].intent
  <2>1. CASE worker'[w].intent = i /\ worker'[w].pc # "lrem"
    BY <1>1, <2>1 DEF Followed, Held
  <2>2. CASE worker[w].pc = "lrem" /\ (rowOf'[i] \in Open => rowOf[i] \in Open)
    <3>1. Held(i) => Held(i)'
      <4>1. ASSUME NEW v \in Workers, worker[v].intent = i, worker[v].pc # "lrem" PROVE Held(i)'
        BY <2>2, <4>1 DEF Held
      <4>2. ASSUME commands[i] > 0 PROVE Held(i)'
        BY <1>2, <4>2 DEF Held
      <4> QED BY <4>1, <4>2 DEF Held
    <3> QED BY <1>1, <2>2, <3>1 DEF Followed
  <2>3. CASE rowOf'[i] \notin Open \/ commands'[i] > 0 \/ i \in dlq'
    BY <1>1, <2>3 DEF Followed, Held
  <2> QED BY <1>4, <2>1, <2>2, <2>3
<1> QED BY <1>3, <1>4

LEMMA FollowInit == EngagementInit => FollowInduction
  BY DEF EngagementInit, FollowInduction, Followed, Open, Resting

\* The steps of a worker.
LEMMA WorkerFollows ==
  ASSUME EngagementTypeOK, EngagementTypeOK', FollowInduction, NEW w \in Workers, WorkerStep(w)
  PROVE  FollowInduction'
<1> USE DEF rowVars, requestVars, safetyVars, worldVars, spentVars
<1>0. WorkersTyped /\ (worker[w].pc # "idle" => worker[w].intent \in Engagements)
  BY DEF EngagementTypeOK, WorkersTyped, ActorAt, Mine
<1>a. died \in Nat /\ dbErrors \in Nat
  BY DEF EngagementTypeOK
<1>1. ASSUME NEW c \in Engagements, ReadCommand(w, c) PROVE FollowInduction'
  <2>1. /\ \A v \in Workers \ {w} : worker'[v] = worker[v]
        /\ worker'[w].intent = c /\ worker'[w].pc = "mark"
        /\ \A i \in Engagements : i # c => commands'[i] = commands[i]
    BY <1>0, <1>1 DEF ReadCommand, WorkersTyped, EngagementTypeOK
  <2>2. worker[w].intent \notin Engagements
    BY <1>1, EngagementAssumption DEF EngagementAssumption, FollowInduction, ReadCommand, ActorAt
  <2>3. \A i \in Engagements : commands'[i] < commands[i] => i = c
    BY <2>1 DEF EngagementTypeOK
  <2>4. UNCHANGED <<rowOf, outbox, dispatching, flushing, dlq, died, dbErrors>>
    BY <1>1 DEF ReadCommand
  <2>5. \A i \in Engagements :
           /\ rowOf'[i] \in {"none", "ready"} => rowOf[i] = rowOf'[i]
           /\ i # worker[w].intent => (rowOf'[i] \in Open => rowOf[i] \in Open)
           /\ commands'[i] < commands[i] => worker'[w].intent = i /\ worker'[w].pc # "lrem"
    BY <2>1, <2>3, <2>4
  <2>6. dlq \subseteq dlq' /\ (died' = 0 /\ dbErrors' = 0 => died = 0 /\ dbErrors = 0)
    BY <2>4
  <2>7. worker'[w].pc = "idle" => worker'[w].intent = NoCommand
    BY <2>1
  <2> QED BY <2>1, <2>2, <2>4, <2>5, <2>6, <2>7, FollowedWorker
<1>2. CASE Mark(w)
  <2>1. Moved(w, "limit") /\ Mine(w)' = Mine(w)
    BY <1>0, <1>2, MoveTyped DEF Mark, ActorAt, WorkerPcs
  <2>2. \A i \in Engagements : rowOf'[i] = rowOf[i] \/ (rowOf[i] = "queued" /\ rowOf'[i] = "processing")
    BY <1>2 DEF Mark, EngagementTypeOK
  <2>3. commands' = commands /\ commands \in [Engagements -> Nat]
    BY <1>2 DEF Mark, EngagementTypeOK
  <2> QED BY <1>2, <2>1, <2>2, <2>3, FollowedWorker DEF Mark, Moved, Mine, Open
<1>3. CASE CheckLimit(w) \/ CheckCooldown(w) \/ Act(w)
  <2>1. /\ worker[w].pc \in {"limit", "cooldown", "act"}
        /\ UNCHANGED <<rowOf, commands, outbox, dispatching, flushing, dlq, died, dbErrors>>
    BY <1>3 DEF CheckLimit, CheckCooldown, Act, ActSucceeds, ActFails, ActLost, ActorAt
  <2>2. PICK pc \in {"cooldown", "act", "fail", "record"} : Moved(w, pc) /\ Mine(w)' = Mine(w)
    <3>1. CASE ActFails(w)
      <4>1. PICK again \in BOOLEAN : worker' = [worker EXCEPT ![w].pc = "fail", ![w].retry = again]
        BY <3>1 DEF ActFails
      <4> QED BY <1>0, <2>1, <4>1, FailTyped DEF ActorAt
    <3>2. CASE CheckLimit(w) \/ CheckCooldown(w) \/ ActSucceeds(w) \/ ActLost(w)
      <4>1. PICK pc \in {"cooldown", "act", "fail", "record"} : MoveTo(w, pc)
        BY <3>2 DEF CheckLimit, CheckCooldown, ActSucceeds, ActLost
      <4> QED BY <1>0, <2>1, <4>1, MoveTyped DEF ActorAt, WorkerPcs
    <3> QED BY <1>3, <3>1, <3>2 DEF Act
  <2>3. commands \in [Engagements -> Nat]
    BY DEF EngagementTypeOK
  <2> QED BY <1>0, <2>1, <2>2, <2>3, FollowedWorker DEF Moved, Mine
<1>4. CASE Record(w) \/ SetCooldown(w)
  <2>1. /\ worker[w].pc \in {"record", "cool"}
        /\ UNCHANGED <<rowOf, commands, outbox, dispatching, flushing, dlq, died>>
        /\ dbErrors' = dbErrors \/ dbErrors' = dbErrors + 1
    BY <1>4 DEF Record, SetCooldown, ActorAt
  <2>2. PICK pc \in {"cool", "complete"} : MoveTo(w, pc)
    BY <1>4 DEF Record, SetCooldown
  <2>3. Moved(w, pc) /\ Mine(w)' = Mine(w)
    BY <1>0, <2>1, <2>2, MoveTyped DEF ActorAt, WorkerPcs
  <2>4. commands \in [Engagements -> Nat]
    BY DEF EngagementTypeOK
  <2>5. died' = 0 /\ dbErrors' = 0 => died = 0 /\ dbErrors = 0
    BY <1>a, <2>1
  <2> QED BY <1>0, <2>1, <2>3, <2>4, <2>5, FollowedWorker DEF Moved, Mine
<1>5. CASE Complete(w)
  <2>1. Moved(w, "lrem") /\ Mine(w)' = Mine(w) /\ worker[w].pc = "complete"
    BY <1>0, <1>5, MoveTyped DEF Complete, ActorAt, WorkerPcs
  <2>2. /\ \A i \in Engagements : i # Mine(w) => rowOf'[i] = rowOf[i]
        /\ rowOf'[Mine(w)] \in {"completed", "none", "deleted"}
        /\ rowOf'[Mine(w)] = "none" => rowOf[Mine(w)] = "none"
    BY <1>0, <1>5, <2>1 DEF Complete, SetStatus, EngagementTypeOK, Exists, Mine
  <2>3. UNCHANGED <<commands, outbox, dispatching, flushing, dlq, died, dbErrors>> /\ commands \in [Engagements -> Nat]
    BY <1>5 DEF Complete, EngagementTypeOK
  <2> QED BY <2>1, <2>2, <2>3, FollowedWorker DEF Moved, Mine, Open
<1>6. CASE Fail(w)
  <2>1. Moved(w, "requeue") /\ Mine(w)' = Mine(w) /\ worker[w].pc = "fail"
    BY <1>0, <1>6, MoveTyped DEF Fail, ActorAt, WorkerPcs
  <2>2. \A i \in Engagements : \/ rowOf'[i] = rowOf[i]
                               \/ i = Mine(w) /\ rowOf'[i] = "failed"
    BY <1>0, <1>6, <2>1 DEF Fail, SetStatus, EngagementTypeOK, Exists, Mine
  <2>3. UNCHANGED <<commands, outbox, dispatching, flushing, dlq, died, dbErrors>> /\ commands \in [Engagements -> Nat]
    BY <1>6 DEF Fail, EngagementTypeOK
  <2> QED BY <2>1, <2>2, <2>3, FollowedWorker DEF Moved, Mine, Open
<1>7. CASE Requeue(w)
  <2>1. Moved(w, "lrem") /\ Mine(w)' = Mine(w) /\ worker[w].pc = "requeue" /\ Mine(w) \in Engagements
    BY <1>0, <1>7, MoveTyped DEF Requeue, ActorAt, WorkerPcs, Mine
  <2>2. /\ \A i \in Engagements : ~(commands'[i] < commands[i])
        /\ commands'[Mine(w)] > 0 \/ Mine(w) \in dlq'
        /\ dlq \subseteq dlq'
    BY <1>7, <2>1 DEF Requeue, EngagementTypeOK
  <2>3. UNCHANGED <<rowOf, outbox, dispatching, flushing, died, dbErrors>>
    BY <1>7 DEF Requeue
  <2> QED BY <2>1, <2>2, <2>3, FollowedWorker DEF Moved, Mine
<1>8. CASE Release(w)
  <2>1. /\ \A v \in Workers \ {w} : worker'[v] = worker[v]
        /\ worker'[w].intent = NoCommand /\ worker[w].pc = "lrem"
    BY <1>0, <1>8 DEF Release, WorkersTyped, Resting, ActorAt
  <2>2. /\ UNCHANGED <<rowOf, commands, outbox, dispatching, flushing, dlq, died, dbErrors>>
        /\ commands \in [Engagements -> Nat]
    BY <1>8 DEF Release, EngagementTypeOK
  <2> QED BY <2>1, <2>2, FollowedWorker
<1> QED BY <1>1, <1>2, <1>3, <1>4, <1>5, <1>6, <1>7, <1>8 DEF WorkerStep

\* A step that touches no worker: what it does to one intent.
LEMMA FollowedRequest ==
  ASSUME EngagementTypeOK, FollowInduction, UNCHANGED <<worker, dlq>>,
         died' = 0 /\ dbErrors' = 0 => died = 0 /\ dbErrors = 0,
         \A i \in Engagements :
            \/ Followed(i)'
            \/ /\ rowOf'[i] = rowOf[i] /\ outbox'[i] = outbox[i] /\ dispatching'[i] = dispatching[i]
               /\ i \in flushing' <=> i \in flushing
               /\ commands'[i] = commands[i]
            \/ died' # 0
  PROVE  FollowInduction'
<1> SUFFICES ASSUME died' = 0, dbErrors' = 0, NEW i \in Engagements PROVE Followed(i)'
  BY DEF FollowInduction
<1>1. Followed(i)
  BY DEF FollowInduction
<1>2. CASE /\ rowOf'[i] = rowOf[i] /\ outbox'[i] = outbox[i] /\ dispatching'[i] = dispatching[i]
           /\ i \in flushing' <=> i \in flushing
           /\ commands'[i] = commands[i]
  BY <1>1, <1>2 DEF Followed, Held
<1> QED BY <1>2

LEMMA RequestFollows ==
  ASSUME EngagementTypeOK, EngagementTypeOK', FollowInduction,
         \E i \in Engagements : UserStep(i) \/ FinishRequest(i) \/ Flush(i)
  PROVE  FollowInduction'
<1> USE DEF rowVars, requestVars, safetyVars, worldVars, spentVars
<1> PICK c \in Engagements : UserStep(c) \/ FinishRequest(c) \/ Flush(c)
  OBVIOUS
<1>1. UNCHANGED <<worker, dlq, died, dbErrors>>
  BY DEF UserStep, Create, FactoryDispatch, RouterDispatch, DeleteRead, FinishRequest, RouterPush, RouterMark,
    DeleteWrite, Flush, FlushPush, FlushCommit
<1>2. ASSUME NEW i \in Engagements, i # c
      PROVE  /\ rowOf'[i] = rowOf[i] /\ outbox'[i] = outbox[i] /\ dispatching'[i] = dispatching[i]
             /\ i \in flushing' <=> i \in flushing
             /\ commands'[i] = commands[i]
  BY <1>2 DEF EngagementTypeOK, UserStep, Create, FactoryDispatch, RouterDispatch, Enqueue, DeleteRead, FinishRequest,
    RouterPush, RouterMark, DeleteWrite, Flush, FlushPush, FlushCommit, Push
<1>3. ASSUME died = 0, dbErrors = 0 PROVE Followed(c)'
  <2>1. Followed(c)
    BY <1>3 DEF FollowInduction
  <2>2. Held(c) <=> commands[c] > 0 \/ \E w \in Workers : worker'[w].intent = c /\ worker'[w].pc # "lrem"
    BY <1>1 DEF Held
  <2>3. CASE Create(c)
    BY <2>1, <2>3 DEF Create, Followed, Open, EngagementTypeOK
  <2>4. CASE FactoryDispatch(c)
    BY <2>1, <2>4 DEF FactoryDispatch, Enqueue, Followed, EngagementTypeOK
  <2>5. CASE RouterDispatch(c)
    BY <2>1, <2>5 DEF RouterDispatch, Enqueue, Followed, EngagementTypeOK
  <2>6. CASE DeleteRead(c)
    BY <2>1, <2>6 DEF DeleteRead, Followed, Held
  <2>7. CASE RouterPush(c)
    <3>1. commands'[c] > 0 /\ dispatching'[c] = "mark" /\ rowOf'[c] \notin {"none", "ready"}
      BY <2>1, <2>7 DEF RouterPush, Push, Followed, EngagementTypeOK
    <3> QED BY <3>1 DEF Followed, Held
  <2>8. CASE RouterMark(c)
    BY <2>1, <2>8 DEF RouterMark, Followed, Held, EngagementTypeOK
  <2>9. CASE DeleteWrite(c)
    BY <2>1, <2>9 DEF DeleteWrite, Followed, Open, EngagementTypeOK
  <2>10. CASE FlushPush(c)
    <3>1. commands'[c] > 0 /\ rowOf'[c] \notin {"none", "ready"}
      BY <2>1, <2>10 DEF FlushPush, Push, Followed, EngagementTypeOK
    <3> QED BY <3>1 DEF Followed, Held
  <2>11. CASE FlushCommit(c)
    BY <2>1, <2>11 DEF FlushCommit, Followed, Held, EngagementTypeOK
  <2> QED
    BY <2>3, <2>4, <2>5, <2>6, <2>7, <2>8, <2>9, <2>10, <2>11 DEF UserStep, FinishRequest, Flush
<1> QED
  <2>1. CASE died = 0 /\ dbErrors = 0
    BY <1>1, <1>2, <1>3, <2>1, FollowedRequest
  <2>2. CASE ~(died = 0 /\ dbErrors = 0)
    BY <1>1, <2>2 DEF FollowInduction
  <2> QED BY <2>1, <2>2

LEMMA EnvironmentFollows ==
  ASSUME EngagementTypeOK, EngagementTypeOK', FollowInduction, Environment
  PROVE  FollowInduction'
<1> USE DEF rowVars, requestVars, safetyVars, worldVars, spentVars
<1>0. WorkersTyped /\ died \in Nat /\ dbErrors \in Nat
  BY DEF EngagementTypeOK
<1>1. ASSUME NEW w \in Workers, DbError(w) \/ WorkerDies(w) PROVE FollowInduction'
  <2>1. died' # 0 \/ dbErrors' # 0
    BY <1>0, <1>1 DEF DbError, WorkerDies
  <2>2. \A v \in Workers : worker'[v].pc = "idle" => worker'[v].intent = NoCommand
    BY <1>0, <1>1 DEF DbError, WorkerDies, FollowInduction, WorkersTyped, Resting, MoveTo
  <2> QED BY <2>1, <2>2 DEF FollowInduction
<1>2. ASSUME NEW i \in Engagements, RouterDies(i) \/ FlushDies(i) PROVE FollowInduction'
  BY <1>0, <1>2 DEF RouterDies, FlushDies, FollowInduction
<1>3. ASSUME \/ \E i \in Engagements : BecomesDue(i)
             \/ \E b \in BOOLEAN : SetBlocked(b)
             \/ \E x \in Targets : CooldownEnds(x)
             \/ NewDay
      PROVE  FollowInduction'
  <2>1. UNCHANGED <<rowOf, outbox, commands, worker, dispatching, flushing, dlq, died, dbErrors>>
    BY <1>3 DEF BecomesDue, SetBlocked, CooldownEnds, NewDay
  <2> QED BY <2>1 DEF FollowInduction, Followed, Held
<1> QED BY <1>1, <1>2, <1>3 DEF Environment

\* Without faults, what was dispatched and is not done is with the dispatch, the flusher, the list or
\* a worker, or reported in engagement:failed (the outbox, the requeue and the dead letters).
THEOREM IntentsKept == EngagementSpec => []NoIntentVanishes
<1>1. ASSUME EngagementTypeOK, EngagementTypeOK', FollowInduction, [EngagementNext]_engagementVars
      PROVE  FollowInduction'
  <2>1. CASE UNCHANGED engagementVars
    BY <1>1, <2>1 DEF engagementVars, rowVars, requestVars, safetyVars, worldVars, spentVars,
      FollowInduction, Followed, Held
  <2> QED
    BY <1>1, <2>1, WorkerFollows, RequestFollows, EnvironmentFollows DEF EngagementNext
<1>2. ASSUME EngagementTypeOK, FollowInduction PROVE NoIntentVanishes
  <2>1. ASSUME NEW i \in Engagements, Held(i) PROVE Carried(i)
    BY <2>1 DEF Held, Carried, Mine, ActorAt
  <2> QED BY <1>2, <2>1 DEF FollowInduction, Followed, NoIntentVanishes, Carried, Open
<1>3. EngagementInvariant => EngagementTypeOK
  BY DEF EngagementInvariant
<1> QED BY <1>1, <1>2, <1>3, EngagementKept, FollowInit, PTL DEF EngagementSpec
=============================================================================
