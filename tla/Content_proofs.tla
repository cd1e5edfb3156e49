--------------------------- MODULE Content_proofs ---------------------------
(***************************************************************************)
(* The making of content, for any number of calendar rows, requests,       *)
(* retries and models: the deprecated calendar's generation, the requests  *)
(* for images and videos, and the requests for texts.                      *)
(***************************************************************************)
EXTENDS ContentCalendar, MediaProviders, TextProviders, SequenceTheorems, FiniteSetTheorems, TLAPS

-----------------------------------------------------------------------------
(***************************************************************************)
(* ContentCalendar. Whether a row leaves 'pending' hangs on the copy of    *)
(* the status the session keeps: a write it leaves out, because the copy   *)
(* has the value already, must not be one that was needed. The induction   *)
(* therefore follows the copy from the first read to the last write. It is *)
(* stated row by row, as every step but a restart and an edit is of one    *)
(* row.                                                                    *)
(***************************************************************************)

AtWork == {"text", "visual", "store", "push"}

RowFine(p) ==
  \* A row that does not exist yet has no task, and no packet.
  /\ rows[p].status = "none" => writers[p].pc = "none"
  /\ writers[p].pc \in {"none", "load"} => pushed[p] = 0 /\ unheard[p] = 0
  \* A task that has not ended knows the outcome of all its pushes.
  /\ writers[p].pc # "over" => pushed[p] = unheard[p]
  /\ pushed[p] <= 1 + unheard[p]
  \* What the session's copy says of a row nobody has touched.
  /\ touches = 0 /\ writers[p].pc = "load" => rows[p].status = "pending"
  /\ touches = 0 /\ writers[p].pc \in AtWork =>
        /\ writers[p].known = "pending" \/ rows[p].status # "pending"
        /\ writers[p].pc = "push" => rows[p].status # "pending"
  /\ rows[p].status = "pending" /\ ~rows[p].job /\ touches = 0 /\ restarts = 0 =>
        writers[p].pc \in {"load", "text", "visual", "store"}

CalendarInduction ==
  /\ CalendarTyped /\ touches \in Nat /\ restarts \in Nat
  /\ \A p \in CalendarRows : RowFine(p)

-----------------------------------------------------------------------------
\* The empty calendar.
LEMMA CalendarInitInduction == CalendarInit => CalendarInduction
  BY CalendarAssumption DEF CalendarAssumption, CalendarInit, CalendarInduction, CalendarTyped,
    RowFine, WriterPcs, Stored, AtWork, RowRecords, WriterRecords

\* The records of one row and of one task.
LEMMA RecordsTyped ==
  ASSUME CalendarInduction, NEW p \in CalendarRows
  PROVE  rows[p] \in RowRecords /\ writers[p] \in WriterRecords
  BY DEF CalendarInduction, CalendarTyped

\* What a step does to one row says nothing of the others.
LEMMA OneRow ==
  ASSUME CalendarInduction, NEW p \in CalendarRows, CalendarTyped', UNCHANGED bounds, RowFine(p)',
         \A q \in CalendarRows \ {p} :
            /\ rows'[q] = rows[q] /\ writers'[q] = writers[q]
            /\ pushed'[q] = pushed[q] /\ unheard'[q] = unheard[q]
  PROVE  CalendarInduction'
  BY DEF CalendarInduction, RowFine, bounds

\* A request that makes a row and its task.
LEMMA GenerateInduction ==
  ASSUME CalendarInduction, NEW p \in CalendarRows, GenerateContent(p)
  PROVE  CalendarInduction'
<1>1. CalendarTyped'
  <2>1. rows[p] \in RowRecords /\ writers[p] \in WriterRecords
    BY DEF CalendarInduction, CalendarTyped
  <2>2. [status |-> "pending", text |-> "placeholder", visual |-> "none", job |-> FALSE] \in RowRecords
    BY DEF RowRecords, Stored
  <2>3. [writers[p] EXCEPT !.pc = "load"] \in WriterRecords
    BY <2>1 DEF WriterRecords, WriterPcs
  <2> QED BY <2>2, <2>3 DEF CalendarInduction, GenerateContent, CalendarTyped
<1>2. RowFine(p)'
  BY DEF CalendarInduction, GenerateContent, CalendarTyped, RowFine, AtWork, bounds
<1> QED BY <1>1, <1>2, OneRow DEF CalendarInduction, GenerateContent, CalendarTyped

\* The end of a round that failed, in whichever step it did.
LEMMA RoundInduction ==
  ASSUME CalendarInduction, NEW p \in CalendarRows, writers[p].pc \in {"text", "push"}, NextRound(p),
         UNCHANGED <<taken, bounds>>,
         \/ UNCHANGED <<pushed, unheard>>
         \/ /\ pushed' = [pushed EXCEPT ![p] = @ + 1]
            /\ unheard' = [unheard EXCEPT ![p] = @ + 1]
  PROVE  CalendarInduction'
<1>1. PICK pc \in WriterPcs, round \in 1..MaxRounds, status \in Stored \cup {"none", "deleted"} :
         /\ writers' = [writers EXCEPT ![p].pc = pc, ![p].round = round]
         /\ rows' = [rows EXCEPT ![p].status = status]
         /\ \/ pc = "text" /\ status = rows[p].status
            \/ pc = "over" /\ status = rows[p].status /\ ~Exists(p)
            \/ /\ pc = "failed" /\ Exists(p)
               /\ status = IF writers[p].known # "failed" THEN "failed" ELSE rows[p].status
  <2> /\ writers \in [CalendarRows -> WriterRecords] /\ rows \in [CalendarRows -> RowRecords]
      /\ rows[p] \in RowRecords /\ writers[p] \in WriterRecords
    BY RecordsTyped DEF CalendarInduction, CalendarTyped
  <2> USE DEF RowRecords, WriterRecords
  <2>1. CASE writers[p].round < MaxRounds
    <3>1. writers' = [writers EXCEPT ![p].pc = "text", ![p].round = writers[p].round + 1] /\ rows' = rows
      BY <2>1 DEF NextRound
    <3>2. rows' = [rows EXCEPT ![p].status = rows[p].status]
      BY <3>1
    <3>3. writers[p].round + 1 \in 1..MaxRounds
      BY <2>1, CalendarAssumption DEF CalendarAssumption
    <3> QED BY <3>1, <3>2, <3>3 DEF WriterPcs
  <2>2. CASE ~(writers[p].round < MaxRounds) /\ Exists(p)
    <3>1. /\ writers' = [writers EXCEPT ![p].pc = "failed"]
          /\ rows' = [rows EXCEPT ![p].status = IF writers[p].known # "failed" THEN "failed" ELSE rows[p].status]
      BY <2>2 DEF NextRound
    <3>2. writers' = [writers EXCEPT ![p].pc = "failed", ![p].round = writers[p].round]
      BY <3>1
    <3> QED BY <2>2, <3>1, <3>2 DEF WriterPcs, Stored
  <2>3. CASE ~(writers[p].round < MaxRounds) /\ ~Exists(p)
    <3>1. /\ writers' = [writers EXCEPT ![p].pc = "over"]
          /\ rows' = [rows EXCEPT ![p].status = rows[p].status]
      BY <2>3 DEF NextRound
    <3>2. writers' = [writers EXCEPT ![p].pc = "over", ![p].round = writers[p].round]
      BY <3>1
    <3> QED BY <2>3, <3>1, <3>2 DEF WriterPcs
  <2> QED BY <2>1, <2>2, <2>3
<1>2. CalendarTyped'
  <2>1. [rows[p] EXCEPT !.status = status] \in RowRecords
    BY RecordsTyped DEF RowRecords
  <2>2. [writers[p] EXCEPT !.pc = pc, !.round = round] \in WriterRecords
    BY RecordsTyped DEF WriterRecords
  <2>3. rows' \in [CalendarRows -> RowRecords] /\ writers' \in [CalendarRows -> WriterRecords]
    BY <1>1, <2>1, <2>2 DEF CalendarInduction, CalendarTyped
  <2> QED BY <2>3 DEF CalendarInduction, CalendarTyped
<1>3. RowFine(p)'
  BY <1>1 DEF CalendarInduction, CalendarTyped, RowFine, AtWork, Exists, Stored, bounds
<1> QED BY <1>1, <1>2, <1>3, OneRow DEF CalendarInduction, CalendarTyped

\* The steps of a background task.
LEMMA WriterInduction ==
  ASSUME CalendarInduction, NEW p \in CalendarRows, WriterStep(p)
  PROVE  CalendarInduction'
<1>1. CASE WriterLoads(p)
  <2>1. PICK pc \in {"text", "over"} :
           /\ writers' = [writers EXCEPT ![p].pc = pc, ![p].known = rows[p].status]
           /\ pc = "over" <=> ~Exists(p)
    <3>1. CASE Exists(p)
      <4>1. writers' = [writers EXCEPT ![p].pc = "text", ![p].known = rows[p].status]
        BY <1>1, <3>1 DEF WriterLoads
      <4> QED BY <3>1, <4>1
    <3>2. CASE ~Exists(p)
      <4>1. writers' = [writers EXCEPT ![p].pc = "over", ![p].known = rows[p].status]
        BY <1>1, <3>2 DEF WriterLoads
      <4> QED BY <3>2, <4>1
    <3> QED BY <3>1, <3>2
  <2>2. CalendarTyped'
    <3>1. [writers[p] EXCEPT !.pc = pc, !.known = rows[p].status] \in WriterRecords
      BY RecordsTyped DEF WriterRecords, RowRecords, WriterPcs
    <3> QED BY <1>1, <2>1, <3>1 DEF CalendarInduction, WriterLoads, CalendarTyped
  <2>3. RowFine(p)'
    BY <1>1, <2>1 DEF CalendarInduction, WriterLoads, WriterAt, CalendarTyped, RowFine, AtWork, Exists,
      Stored, bounds
  <2> QED BY <1>1, <2>1, <2>2, <2>3, OneRow DEF CalendarInduction, CalendarTyped, WriterLoads
<1>2. CASE WriterTexts(p)
  <2>1. ASSUME writers' = [writers EXCEPT ![p].pc = "visual"], UNCHANGED <<rows, pushed, taken, unheard, bounds>>
        PROVE  CalendarInduction'
    <3>1. CalendarTyped'
      <4>1. [writers[p] EXCEPT !.pc = "visual"] \in WriterRecords
        BY RecordsTyped DEF WriterRecords, WriterPcs
      <4> QED BY <2>1, <4>1 DEF CalendarInduction, CalendarTyped
    <3>2. RowFine(p)'
      BY <1>2, <2>1 DEF CalendarInduction, WriterTexts, WriterAt, CalendarTyped, RowFine, AtWork, bounds
    <3> QED BY <2>1, <3>1, <3>2, OneRow DEF CalendarInduction, CalendarTyped
  <2>2. ASSUME writers[p].round < MaxRounds, writers' = [writers EXCEPT ![p].round = @ + 1],
               UNCHANGED <<rows, pushed, taken, unheard, bounds>>
        PROVE  CalendarInduction'
    <3>1. CalendarTyped'
      <4>1. [writers[p] EXCEPT !.round = @ + 1] \in WriterRecords
        BY <2>2, RecordsTyped, CalendarAssumption DEF WriterRecords, CalendarAssumption
      <4> QED BY <2>2, <4>1 DEF CalendarInduction, CalendarTyped
    <3>2. RowFine(p)'
      BY <2>2 DEF CalendarInduction, CalendarTyped, RowFine, bounds
    <3> QED BY <2>2, <3>1, <3>2, OneRow DEF CalendarInduction, CalendarTyped
  <2>3. ASSUME NextRound(p), UNCHANGED <<pushed, taken, unheard, bounds>>
        PROVE  CalendarInduction'
    BY <1>2, <2>3, RoundInduction DEF WriterTexts, WriterAt
  <2> QED BY <1>2, <2>1, <2>2, <2>3 DEF WriterTexts
<1>3. CASE WriterVisual(p)
  <2>1. CalendarTyped'
    <3>1. ASSUME NEW v \in {"none", "url", "credits"}
          PROVE  [writers[p] EXCEPT !.pc = "store", !.visual = v] \in WriterRecords
      BY RecordsTyped DEF WriterRecords, WriterPcs
    <3> QED BY <1>3, <3>1 DEF CalendarInduction, WriterVisual, CalendarTyped
  <2>2. RowFine(p)'
    BY <1>3 DEF CalendarInduction, WriterVisual, WriterAt, CalendarTyped, RowFine, AtWork, bounds
  <2> QED BY <1>3, <2>1, <2>2, OneRow DEF CalendarInduction, CalendarTyped, WriterVisual
<1>4. CASE WriterStores(p)
  <2>1. CASE Exists(p)
    <3>1. PICK status \in Stored :
             /\ status = IF writers[p].known = "queued" THEN rows[p].status ELSE "queued"
             /\ rows' = [rows EXCEPT ![p].status = status, ![p].text = "generated",
                                     ![p].visual = writers[p].visual]
             /\ writers' = [writers EXCEPT ![p].pc = "push", ![p].known = status]
      <4> DEFINE next == IF writers[p].known = "queued" THEN rows[p].status ELSE "queued"
      <4>1. next \in Stored
        BY <2>1 DEF Exists, Stored
      <4>2. /\ rows' = [rows EXCEPT ![p].status = next, ![p].text = "generated", ![p].visual = writers[p].visual]
            /\ writers' = [writers EXCEPT ![p].pc = "push", ![p].known = next]
        BY <1>4, <2>1 DEF WriterStores
      <4> QED BY <4>1, <4>2
    <3>2. CalendarTyped'
      <4>1. [rows[p] EXCEPT !.status = status, !.text = "generated", !.visual = writers[p].visual] \in RowRecords
        BY RecordsTyped DEF RowRecords, WriterRecords
      <4>2. [writers[p] EXCEPT !.pc = "push", !.known = status] \in WriterRecords
        BY RecordsTyped DEF WriterRecords, WriterPcs
      <4> QED BY <1>4, <3>1, <4>1, <4>2 DEF CalendarInduction, WriterStores, CalendarTyped
    <3>3. RowFine(p)'
      <4>1. /\ writers'[p].pc = "push" /\ writers'[p].known = status /\ rows'[p].status = status
            /\ writers[p].pc = "store" /\ UNCHANGED <<pushed, unheard, touches, restarts>>
        BY <1>4, <3>1, RecordsTyped DEF CalendarInduction, CalendarTyped, RowRecords, WriterRecords,
          WriterStores, WriterAt, bounds
      <4>2. touches = 0 => status # "pending"
        BY <3>1, <4>1 DEF CalendarInduction, RowFine, AtWork
      <4> QED BY <4>1, <4>2 DEF CalendarInduction, CalendarTyped, RowFine, AtWork, Stored
    <3> QED BY <1>4, <3>1, <3>2, <3>3, OneRow DEF CalendarInduction, CalendarTyped, WriterStores
  <2>2. CASE ~Exists(p)
    <3>1. writers' = [writers EXCEPT ![p].pc = "over"] /\ UNCHANGED <<rows, pushed, taken, unheard, bounds>>
      BY <1>4, <2>2 DEF WriterStores
    <3>2. CalendarTyped'
      <4>1. [writers[p] EXCEPT !.pc = "over"] \in WriterRecords
        BY RecordsTyped DEF WriterRecords, WriterPcs
      <4> QED BY <3>1, <4>1 DEF CalendarInduction, CalendarTyped
    <3>3. RowFine(p)'
      BY <1>4, <2>2, <3>1 DEF CalendarInduction, WriterStores, WriterAt, CalendarTyped, RowFine, AtWork,
        Exists, Stored, bounds
    <3> QED BY <3>1, <3>2, <3>3, OneRow DEF CalendarInduction, CalendarTyped
  <2> QED BY <2>1, <2>2
<1>5. CASE WriterPushes(p)
  <2>1. ASSUME Delivered(p), writers' = [writers EXCEPT ![p].pc = "over"], UNCHANGED <<rows, taken, unheard, bounds>>
        PROVE  CalendarInduction'
    <3>1. CalendarTyped'
      <4>1. [writers[p] EXCEPT !.pc = "over"] \in WriterRecords
        BY RecordsTyped DEF WriterRecords, WriterPcs
      <4> QED BY <2>1, <4>1 DEF CalendarInduction, Delivered, CalendarTyped
    <3>2. RowFine(p)'
      BY <1>5, <2>1 DEF CalendarInduction, WriterPushes, Delivered, WriterAt, CalendarTyped, RowFine, AtWork, bounds
    <3> QED BY <2>1, <3>1, <3>2, OneRow DEF CalendarInduction, CalendarTyped, Delivered
  <2>2. ASSUME NextRound(p), UNCHANGED <<taken, bounds>>,
               \/ UNCHANGED <<pushed, unheard>>
               \/ Delivered(p) /\ unheard' = [unheard EXCEPT ![p] = @ + 1]
        PROVE  CalendarInduction'
    BY <1>5, <2>2, RoundInduction DEF WriterPushes, Delivered, WriterAt
  <2> QED BY <1>5, <2>1, <2>2 DEF WriterPushes
<1> QED BY <1>1, <1>2, <1>3, <1>4, <1>5 DEF WriterStep

\* The distribution engine ends a packet.
LEMMA FinishedInduction ==
  ASSUME CalendarInduction, NEW p \in CalendarRows, PacketFinished(p)
  PROVE  CalendarInduction'
<1>1. PICK status \in Stored \cup {"none", "deleted"} :
         /\ rows' = [rows EXCEPT ![p].status = status]
         /\ Exists(p) => status \in {"published", "failed"}
         /\ ~Exists(p) => status = rows[p].status
  <2>1. PICK s \in {"published", "failed"} : rows' = [rows EXCEPT ![p].status = IF Exists(p) THEN s ELSE @]
    BY DEF PacketFinished
  <2>2. CASE Exists(p)
    BY <2>1, <2>2 DEF Stored
  <2>3. CASE ~Exists(p)
    BY <2>1, <2>3, RecordsTyped DEF RowRecords
  <2> QED BY <2>2, <2>3
<1>2. CalendarTyped'
  <2>1. [rows[p] EXCEPT !.status = status] \in RowRecords
    BY RecordsTyped DEF RowRecords
  <2> QED BY <1>1, <2>1 DEF CalendarInduction, PacketFinished, CalendarTyped
<1>3. RowFine(p)'
  BY <1>1 DEF CalendarInduction, PacketFinished, CalendarTyped, RowFine, AtWork, Exists, Stored, bounds
<1> QED BY <1>1, <1>2, <1>3, OneRow DEF CalendarInduction, CalendarTyped, PacketFinished

\* The dashboard's requests and the jobs, after which the row is no longer as the task left it.
LEMMA TouchInduction ==
  ASSUME CalendarInduction, NEW p \in CalendarRows,
         PatchContent(p) \/ UpdateStatus(p) \/ DeleteContent(p) \/ UpsertFromJob(p)
  PROVE  CalendarInduction'
<1>1. touches' = touches + 1 /\ UNCHANGED <<writers, pushed, taken, unheard, restarts>>
  BY DEF PatchContent, UpdateStatus, DeleteContent, UpsertFromJob, Touch
<1>2. CalendarTyped'
  <2>1. PICK row \in RowRecords : rows' = [rows EXCEPT ![p] = row]
    BY RecordsTyped DEF PatchContent, UpdateStatus, DeleteContent, UpsertFromJob, RowRecords, Stored
  <2> QED BY <1>1, <2>1 DEF CalendarInduction, CalendarTyped
<1>3. \A q \in CalendarRows : rows'[q].status = "none" => rows[q].status = "none"
  <2>1. CASE PatchContent(p)
    BY <2>1 DEF CalendarInduction, PatchContent, CalendarTyped
  <2>2. CASE UpdateStatus(p)
    BY <2>2 DEF CalendarInduction, UpdateStatus, CalendarTyped, Stored
  <2>3. CASE DeleteContent(p)
    BY <2>3 DEF CalendarInduction, DeleteContent, CalendarTyped
  <2>4. CASE UpsertFromJob(p)
    BY <2>4 DEF CalendarInduction, UpsertFromJob, CalendarTyped
  <2> QED BY <2>1, <2>2, <2>3, <2>4
<1> QED BY <1>1, <1>2, <1>3 DEF CalendarInduction, RowFine

\* A restart ends the tasks that are under way.
LEMMA RestartInduction ==
  ASSUME CalendarInduction, FactoryRestarts
  PROVE  CalendarInduction'
<1>1. \A q \in CalendarRows :
         \/ writers'[q] = writers[q]
         \/ writers'[q] = [writers[q] EXCEPT !.pc = "over"] /\ writers[q].pc \notin {"none", "failed"}
  BY DEF FactoryRestarts
<1>2. CalendarTyped'
  <2>1. ASSUME NEW q \in CalendarRows PROVE [writers[q] EXCEPT !.pc = "over"] \in WriterRecords
    BY RecordsTyped DEF WriterRecords, WriterPcs
  <2> QED BY <2>1 DEF CalendarInduction, FactoryRestarts, CalendarTyped
<1>3. \A q \in CalendarRows : RowFine(q)'
  BY <1>1 DEF CalendarInduction, FactoryRestarts, CalendarTyped, RowFine, AtWork
<1> QED BY <1>2, <1>3 DEF CalendarInduction, FactoryRestarts

\* Packets are pushed once and once more for each lost answer, and a generated row nobody touched
\* leaves 'pending', for any number of rows and rounds (generate_single_content).
THEOREM CalendarKept == CalendarSpec => []CalendarInvariant
<1>1. ASSUME CalendarInduction, [CalendarNext]_calendarVars PROVE CalendarInduction'
  <2>1. CASE UNCHANGED calendarVars
    BY <1>1, <2>1 DEF calendarVars, CalendarInduction, CalendarTyped, RowFine
  <2> QED
    BY <1>1, <2>1, GenerateInduction, WriterInduction, FinishedInduction, TouchInduction,
      RestartInduction DEF CalendarNext
<1>2. CalendarInduction => CalendarInvariant
  BY DEF CalendarInduction, CalendarInvariant, RowFine, PushesAccounted, NothingLeftPending, WriterAt, AtWork
<1> QED
  BY <1>1, <1>2, CalendarInitInduction, PTL DEF CalendarSpec

-----------------------------------------------------------------------------
(***************************************************************************)
(* MediaProviders. The bill of a request has an entry for every task paid  *)
(* for, with what became of it. The induction bounds the entries by the    *)
(* cycle the request is in, and ties the last one to the poll loop: it     *)
(* alone is held, and its polls are the loop's.                            *)
(***************************************************************************)

Whys == {"refused", "timeout", "broken", "empty", "failed"}
CallRecords ==
    [kind : MediaKinds, source : BOOLEAN, pc : {"image", "create", "poll", "over"},
     cycle : 1..(MaxAttempts + MaxAgain + 1), tries : 1..MaxCreates, polls : 0..PollLimit,
     first : 0..PollLimit, images : 0..MaxAttempts,
     result : {"none", "url", "credits", "failed"}, why : {"none"} \cup Whys]
Notes == {"other", "processing", "empty"}
Bill == [state : {"working", "empty", "done", "failed"},
         left : {"held", "lost", "timeout", "broken", "empty", "ended", "used"}, seen : Seq(Notes)]

Cycles(kind) == CASE kind = "clip" -> MaxAgain + 1 [] kind = "photo" -> 1 [] OTHER -> MaxAttempts
PerCycle(kind) == IF kind = "clip" THEN MaxCreates ELSE 1

\* Where the call is in its loops.
CallFits ==
    /\ call \in CallRecords
    /\ call.pc = "image" => call.kind = "ailive"
    /\ call.cycle <= Cycles(call.kind)
    /\ call.kind # "clip" => call.tries = 1
    /\ call.kind # "ailive" => call.images = 0
    /\ call.images + (IF call.pc = "image" THEN 1 ELSE 0) <= call.cycle
    /\ call.pc \in {"image", "create"} => call.polls = 0 /\ call.first = 0
    /\ call.result = "none" <=> call.pc # "over"

\* What the cycles before this one and the tries of this one can have cost.
Earlier == PerCycle(call.kind) * (call.cycle - 1)
Budgeted ==
    Last <= Earlier + (call.tries - 1)
              + (IF call.pc \in {"poll", "over"} THEN 1 ELSE 0)

BillsFit ==
    /\ call.pc = "poll" \/ call.result = "url" => Last >= 1
    /\ \A i \in 1..Last :
          /\ bills[i].left = "held" <=> call.pc = "poll" /\ i = Last
          /\ bills[i].left = "used" <=> call.result = "url" /\ i = Last
          /\ call.kind \in ByStep /\ bills[i].left = "timeout" => i = Last /\ call.pc = "over"

\* Each cycle of a Kie video but the present one gave up one task at most.
GivenUp == Left("timeout") \cup Left("empty")
GivenUpBounded ==
    call.kind = "clip" => Cardinality(GivenUp) <= call.cycle - 1 + (IF call.pc = "over" THEN 1 ELSE 0)

\* `first' is the first poll of the wait for URLs that nothing interrupted since.
WaitOf(seen, polls, first) ==
    /\ Len(seen) = polls
    /\ first \in 0..polls
    /\ \A i \in 1..polls :
          seen[i] = "empty" /\ (\A k \in i..polls : seen[k] # "processing") => first # 0 /\ first <= i
    /\ first # 0 => /\ seen[first] = "empty"
                    /\ \A k \in first..polls : seen[k] # "processing"
WaitFits == call.kind = "clip" /\ call.pc = "poll" => WaitOf(bills[Last].seen, call.polls, call.first)

MediaInduction ==
    /\ CallFits /\ bills \in Seq(Bill)
    /\ Budgeted /\ BillsFit /\ GivenUpBounded /\ WaitFits /\ PatienceKept

-----------------------------------------------------------------------------
\* A new task is the last of the bill.
LEMMA BillAppended ==
  ASSUME bills \in Seq(Bill), NEW b \in Bill, bills' = Append(bills, b)
  PROVE  /\ bills' \in Seq(Bill) /\ Last \in Nat /\ Last' = Last + 1
         /\ \A i \in 1..Last : bills'[i] = bills[i]
         /\ bills'[Last + 1] = b
BY AppendProperties, LenProperties DEF Last

\* An answer changes the last task of the bill only.
LEMMA BillChanged ==
  ASSUME bills \in Seq(Bill), NEW b \in Bill, Last >= 1, bills' = [bills EXCEPT ![Last] = b]
  PROVE  /\ bills' \in Seq(Bill) /\ Last \in Nat /\ Last' = Last /\ Last \in 1..Last
         /\ \A i \in 1..Last : i # Last => bills'[i] = bills[i]
         /\ bills'[Last] = b
<1>1. Last \in Nat /\ Last \in 1..Len(bills)
  BY LenProperties DEF Last
<1> QED BY <1>1, ExceptSeq DEF Last

\* The tasks given up are finitely many.
LEMMA GivenUpFinite ==
  ASSUME bills \in Seq(Bill)
  PROVE  IsFiniteSet(GivenUp) /\ Cardinality(GivenUp) \in Nat
<1>1. Last \in Nat /\ GivenUp \in SUBSET (1..Last)
  BY LenProperties DEF Last, GivenUp, Left
<1>2. IsFiniteSet(1..Last)
  BY <1>1, FS_Interval
<1>3. IsFiniteSet(GivenUp)
  BY <1>1, <1>2, FS_Subset
<1> QED BY <1>3, FS_CardinalityType

\* Another cycle has the budget of one more.
LEMMA BudgetGrows ==
  ASSUME CallFits
  PROVE  /\ PerCycle(call.kind) \in Nat \ {0} /\ Earlier \in Nat
         /\ call'.kind = call.kind /\ call'.cycle = call.cycle => Earlier' = Earlier
         /\ call'.kind = call.kind /\ call'.cycle = call.cycle + 1 => Earlier' = Earlier + PerCycle(call.kind)
<1> DEFINE m == PerCycle(call.kind)
           c == call.cycle
<1>1. m \in Nat \ {0} /\ c \in Nat \ {0}
  BY MediaAssumption DEF PerCycle, MediaAssumption, CallFits, CallRecords
<1>2. Earlier = m * (c - 1)
  BY DEF Earlier
<1>3. call'.kind = call.kind => Earlier' = m * (call'.cycle - 1)
  BY DEF Earlier, PerCycle
<1> HIDE DEF m, c
<1>4. m * (c - 1) \in Nat
  <2>1. \A x, y \in Nat : x * y \in Nat
    OBVIOUS
  <2>2. c - 1 \in Nat /\ m \in Nat
    BY <1>1
  <2> QED BY <2>1, <2>2
<1>5. m * ((c + 1) - 1) = m * (c - 1) + m
  <2>1. m \in Int /\ c \in Int
    BY <1>1
  <2>2. \A x, y \in Int : x * ((y + 1) - 1) = x * (y - 1) + x
    OBVIOUS
  <2> QED BY <2>1, <2>2
<1> QED BY <1>1, <1>2, <1>3, <1>4, <1>5 DEF m, c

-----------------------------------------------------------------------------
\* Nothing is billed at the start.
LEMMA MediaInitInduction == MediaInit => MediaInduction
<1> SUFFICES ASSUME MediaInit PROVE MediaInduction
  OBVIOUS
<1>1. bills = <<>> /\ Last = 0 /\ bills \in Seq(Bill)
  BY EmptySeq DEF MediaInit, Last
<1>2. PICK kind \in MediaKinds, source \in BOOLEAN :
        call = [kind |-> kind, source |-> source, pc |-> Beginning(kind, source), cycle |-> 1, tries |-> 1,
                polls |-> 0, first |-> 0, images |-> 0, result |-> "none", why |-> "none"]
  BY DEF MediaInit
<1>3. Beginning(kind, source) \in {"image", "create"} /\ (Beginning(kind, source) = "image" => kind = "ailive")
  BY DEF Beginning
<1>4. CallFits
  <2>1. call \in CallRecords
    BY <1>2, <1>3, MediaAssumption DEF CallRecords, MediaAssumption
  <2>2. 1 <= Cycles(kind)
    BY MediaAssumption DEF Cycles, MediaAssumption
  <2> QED BY <1>2, <1>3, <2>1, <2>2 DEF CallFits
<1>5. Budgeted
  BY <1>1, <1>2, <1>3, <1>4, BudgetGrows DEF Budgeted
<1>6. BillsFit /\ WaitFits /\ PatienceKept
  BY <1>1, <1>2, <1>3 DEF BillsFit, WaitFits, PatienceKept
<1>7. GivenUpBounded
  <2>1. GivenUp = {}
    BY <1>1 DEF GivenUp, Left
  <2> QED BY <1>2, <1>3, <2>1, FS_EmptySet DEF GivenUpBounded
<1> QED BY <1>1, <1>4, <1>5, <1>6, <1>7 DEF MediaInduction

\* The end of a cycle: the call is over or begins another one.
LEMMA CycleEnded ==
  ASSUME CallFits, NEW why \in Whys, EndCycle(why), call.pc # "over"
  PROVE  /\ CallFits' /\ call'.kind = call.kind /\ call'.result # "url"
         /\ \/ call'.pc = "over" /\ call'.cycle = call.cycle /\ call'.tries = call.tries
            \/ /\ Again(why) /\ call'.pc \in {"image", "create"}
               /\ call'.cycle = call.cycle + 1 /\ call'.tries = 1
<1> USE MediaAssumption DEF MediaAssumption
<1>1. CASE Again(why)
  <2>1. call' = Fresh
    BY <1>1 DEF EndCycle
  <2>2. Beginning(call.kind, call.source) \in {"image", "create"}
        /\ (Beginning(call.kind, call.source) = "image" => call.kind = "ailive")
    BY DEF Beginning
  <2>3. call.cycle + 1 <= Cycles(call.kind) /\ call.cycle + 1 \in 1..(MaxAttempts + MaxAgain + 1)
    BY <1>1 DEF Again, Cycles, CallFits, CallRecords, ByStep
  <2>4. /\ call'.kind = call.kind /\ call'.pc = Beginning(call.kind, call.source) /\ call'.cycle = call.cycle + 1
        /\ call'.tries = 1 /\ call'.polls = 0 /\ call'.first = 0 /\ call'.images = call.images
        /\ call'.result = call.result
    BY <2>1 DEF Fresh, CallFits, CallRecords
  <2>6. call' \in CallRecords
    <3> DEFINE c == call.cycle + 1
    <3>1. 1 \in 1..MaxCreates /\ 0 \in 0..PollLimit /\ c \in 1..(MaxAttempts + MaxAgain + 1)
          /\ Beginning(call.kind, call.source) \in {"image", "create", "poll", "over"}
      BY <2>2, <2>3
    <3>2. call' = [call EXCEPT !.pc = Beginning(call.kind, call.source), !.cycle = c, !.tries = 1,
                               !.polls = 0, !.first = 0]
      BY <2>1 DEF Fresh
    <3> HIDE DEF c
    <3> QED BY <3>1, <3>2 DEF CallFits, CallRecords
  <2>5. call.images \in Nat /\ call.cycle \in Nat /\ call.images <= call.cycle
    BY DEF CallFits, CallRecords
  <2> QED BY <1>1, <2>2, <2>3, <2>4, <2>5, <2>6 DEF CallFits
<1>2. CASE ~Again(why)
  <2>1. /\ call' = [call EXCEPT !.pc = "over", !.result = "failed", !.why = why]
    BY <1>2 DEF EndCycle
  <2>2. /\ call'.kind = call.kind /\ call'.pc = "over" /\ call'.cycle = call.cycle /\ call'.result = "failed"
        /\ call'.tries = call.tries /\ call'.images = call.images /\ call' \in CallRecords
    BY <2>1 DEF CallFits, CallRecords
  <2>3. call.images \in Nat /\ call.cycle \in Nat /\ call.images <= call.cycle
    BY DEF CallFits, CallRecords
  <2> QED BY <2>2, <2>3 DEF CallFits
<1> QED BY <1>1, <1>2

\* A bill is added by the creation, or none is.
LEMMA CreatedInduction ==
  ASSUME MediaInduction, NEW b \in Bill, call.pc \in {"image", "create"},
         bills' = bills \/ bills' = Append(bills, b),
         CallFits', call'.kind = call.kind,
         b.left \in {"held", "lost", "used"}, b.seen = <<>>,
         b.left = "held" \/ b.left = "used" => bills' = Append(bills, b),
         call'.pc = "poll" <=> b.left = "held",
         call'.result = "url" <=> b.left = "used",
         \/ /\ call'.cycle = call.cycle
            /\ \/ call'.tries = call.tries /\ (call'.pc \in {"poll", "over"} \/ bills' = bills)
               \/ call'.tries = call.tries + 1
         \/ call'.cycle = call.cycle + 1 /\ call'.tries = 1 /\ call'.pc \notin {"poll", "over"},
         call'.pc = "poll" => call'.polls = 0 /\ call'.first = 0
  PROVE  MediaInduction'
<1> USE DEF MediaInduction
<1>1. /\ bills' \in Seq(Bill) /\ Last \in Nat /\ (Last' = Last \/ (Last' = Last + 1 /\ bills'[Last + 1] = b))
      /\ b.left \in {"held", "used"} => Last' = Last + 1
      /\ bills' = bills => Last' = Last
      /\ \A i \in 1..Last : bills'[i] = bills[i]
  <2>1. CASE bills' = bills
    BY <2>1, LenProperties DEF Last
  <2>2. CASE bills' = Append(bills, b)
    BY <2>2, BillAppended, AppendProperties DEF Last
  <2> QED BY <2>1, <2>2
<1>2. Budgeted'
  <2>1. /\ call.cycle \in Nat /\ call.cycle >= 1 /\ call.tries \in Nat /\ call.tries >= 1
        /\ call.tries <= PerCycle(call.kind) /\ call'.tries \in Nat
    BY MediaAssumption DEF CallFits, CallRecords, PerCycle, MediaAssumption
  <2>2. /\ Earlier \in Nat /\ PerCycle(call.kind) \in Nat
        /\ call'.cycle = call.cycle => Earlier' = Earlier
        /\ call'.cycle = call.cycle + 1 => Earlier' = Earlier + PerCycle(call.kind)
    BY BudgetGrows
  <2>3. Last <= Earlier + (call.tries - 1)
    BY <1>1, <2>1, <2>2 DEF Budgeted
  <2>4. Last' \in Nat /\ Last' <= Last + 1 /\ (bills' = bills => Last' = Last)
    BY <1>1
  <2>5. Last' <= Earlier' + (call'.tries - 1) + (IF call'.pc \in {"poll", "over"} THEN 1 ELSE 0)
    <3>1. CASE call'.cycle = call.cycle /\ call'.tries = call.tries /\ (call'.pc \in {"poll", "over"} \/ bills' = bills)
      BY <1>1, <2>1, <2>2, <2>3, <2>4, <3>1
    <3>2. CASE call'.cycle = call.cycle /\ call'.tries = call.tries + 1
      BY <1>1, <2>1, <2>2, <2>3, <2>4, <3>2
    <3>3. CASE call'.cycle = call.cycle + 1 /\ call'.tries = 1 /\ call'.pc \notin {"poll", "over"}
      BY <1>1, <2>1, <2>2, <2>3, <2>4, <3>3
    <3> QED BY <3>1, <3>2, <3>3
  <2> QED BY <2>5 DEF Budgeted, Last
<1>3. \A i \in 1..Last : bills[i].left \notin {"held", "used"}
                         /\ (call.kind \in ByStep => bills[i].left # "timeout")
  BY DEF BillsFit, CallFits
<1>4. BillsFit'
  <2> SUFFICES /\ call'.pc = "poll" \/ call'.result = "url" => Last' >= 1
               /\ \A i \in 1..Last' :
                    /\ bills'[i].left = "held" <=> call'.pc = "poll" /\ i = Last'
                    /\ bills'[i].left = "used" <=> call'.result = "url" /\ i = Last'
                    /\ call'.kind \in ByStep /\ bills'[i].left = "timeout" => i = Last' /\ call'.pc = "over"
    BY DEF BillsFit, Last
  <2>1. call'.pc = "poll" \/ call'.result = "url" => Last' >= 1
    BY <1>1
  <2>2. ASSUME NEW i \in 1..Last'
        PROVE  /\ bills'[i].left = "held" <=> call'.pc = "poll" /\ i = Last'
               /\ bills'[i].left = "used" <=> call'.result = "url" /\ i = Last'
               /\ call'.kind \in ByStep /\ bills'[i].left = "timeout" => i = Last' /\ call'.pc = "over"
    <3>1. CASE i \in 1..Last
      <4>1. bills'[i] = bills[i] /\ i <= Last
        BY <1>1, <3>1
      <4>2. b.left \in {"held", "used"} => i # Last'
        BY <1>1, <4>1
      <4> QED BY <1>3, <3>1, <4>1, <4>2
    <3>2. CASE i \notin 1..Last
      <4>1. i = Last + 1 /\ Last' = Last + 1 /\ bills'[i] = b
        BY <1>1, <2>2, <3>2
      <4> QED BY <4>1
    <3> QED BY <3>1, <3>2
  <2> QED BY <2>1, <2>2
<1>5. GivenUpBounded'
  <2>1. GivenUp' = GivenUp
    <3>1. \A i \in 1..Last' : i \in 1..Last \/ (i = Last + 1 /\ bills'[i] = b)
      BY <1>1
    <3>2. \A i \in 1..Last : i \in 1..Last'
      BY <1>1
    <3>3. GivenUp' = {i \in 1..Last' : bills'[i].left \in {"timeout", "empty"}}
      BY DEF GivenUp, Left, Last
    <3>4. GivenUp = {i \in 1..Last : bills[i].left \in {"timeout", "empty"}}
      BY DEF GivenUp, Left
    <3> QED BY <1>1, <3>1, <3>2, <3>3, <3>4
  <2>2. Cardinality(GivenUp) \in Nat /\ call.cycle \in Nat /\ call'.cycle >= call.cycle
    BY GivenUpFinite DEF CallFits, CallRecords
  <2> QED BY <2>1, <2>2 DEF GivenUpBounded
<1>6. WaitFits'
  <2> SUFFICES ASSUME call'.pc = "poll" PROVE WaitFits'
    BY DEF WaitFits
  <2>1. bills'[Last'].seen = <<>>
    BY <1>1
  <2> QED BY <2>1 DEF WaitFits, WaitOf, Last
<1>7. PatienceKept'
  <2> SUFFICES ASSUME call'.kind = "clip", NEW i \in 1..Last'
      PROVE  /\ bills'[i].left = "empty" => Waited(bills'[i].seen)
             /\ bills'[i].left = "timeout" => Len(bills'[i].seen) = PollLimit
             /\ bills'[i].left = "held" => ~Waited(bills'[i].seen)
    BY DEF PatienceKept, Waited, Last
  <2>1. CASE i \in 1..Last
    BY <1>1, <2>1 DEF PatienceKept
  <2>2. CASE i \notin 1..Last
    <3>1. bills'[i] = b
      BY <1>1, <2>2
    <3>2. ~Waited(<<>>)
      BY DEF Waited
    <3> QED BY <3>1, <3>2
  <2> QED BY <2>1, <2>2
<1> QED BY <1>1, <1>2, <1>4, <1>5, <1>6, <1>7

\* The poll loop changes what it knows of the task it holds, and may leave it.
LEMMA PolledInduction ==
  ASSUME MediaInduction, NEW b \in Bill, call.pc = "poll", bills' = [bills EXCEPT ![Last] = b],
         CallFits', call'.kind = call.kind,
         b.left # "lost",
         call'.pc = "poll" <=> b.left = "held",
         call'.result = "url" <=> b.left = "used",
         call.kind \in ByStep /\ b.left = "timeout" => call'.pc = "over",
         \/ /\ call'.pc \in {"poll", "over"} /\ call'.cycle = call.cycle /\ call'.tries = call.tries
         \/ /\ call'.pc \in {"image", "create"} /\ call'.cycle = call.cycle + 1 /\ call'.tries = 1,
         call.kind = "clip" => /\ b.left = "empty" => Waited(b.seen)
                               /\ b.left = "timeout" => Len(b.seen) = PollLimit
                               /\ b.left = "held" => ~Waited(b.seen),
         WaitFits'
  PROVE  MediaInduction'
<1> USE DEF MediaInduction
<1>0. Last >= 1 /\ bills[Last].left = "held"
  <2>1. Last >= 1 /\ Last \in Nat
    BY LenProperties DEF BillsFit, Last
  <2> QED BY <2>1 DEF BillsFit
<1>1. /\ bills' \in Seq(Bill) /\ Last \in Nat /\ Last' = Last /\ Last \in 1..Last
      /\ \A i \in 1..Last : i # Last => bills'[i] = bills[i]
      /\ bills'[Last] = b
  BY <1>0, BillChanged
<1>2. Budgeted'
  <2>1. /\ call.cycle \in Nat /\ call.tries \in Nat /\ call.tries >= 1 /\ call.tries <= PerCycle(call.kind)
    BY MediaAssumption DEF CallFits, CallRecords, PerCycle, MediaAssumption
  <2>2. /\ Earlier \in Nat /\ PerCycle(call.kind) \in Nat
        /\ call'.cycle = call.cycle => Earlier' = Earlier
        /\ call'.cycle = call.cycle + 1 => Earlier' = Earlier + PerCycle(call.kind)
    BY BudgetGrows
  <2>3. Last <= Earlier + (call.tries - 1) + 1
    BY <2>1, <2>2 DEF Budgeted
  <2>4. Last' <= Earlier' + (call'.tries - 1) + (IF call'.pc \in {"poll", "over"} THEN 1 ELSE 0)
    <3>1. CASE call'.pc \in {"poll", "over"} /\ call'.cycle = call.cycle /\ call'.tries = call.tries
      BY <1>1, <2>1, <2>2, <2>3, <3>1
    <3>2. CASE call'.pc \in {"image", "create"} /\ call'.cycle = call.cycle + 1 /\ call'.tries = 1
      BY <1>1, <2>1, <2>2, <2>3, <3>2
    <3> QED BY <3>1, <3>2
  <2> QED BY <2>4 DEF Budgeted, Last
<1>3. \A i \in 1..Last : i # Last => /\ bills[i].left \notin {"held", "used"}
                                     /\ call.kind \in ByStep => bills[i].left # "timeout"
  BY DEF BillsFit, CallFits
<1>4. BillsFit'
  <2> SUFFICES ASSUME NEW i \in 1..Last
               PROVE  /\ bills'[i].left = "held" <=> call'.pc = "poll" /\ i = Last
                      /\ bills'[i].left = "used" <=> call'.result = "url" /\ i = Last
                      /\ call'.kind \in ByStep /\ bills'[i].left = "timeout" => i = Last /\ call'.pc = "over"
    BY <1>0, <1>1 DEF BillsFit, Last
  <2>1. CASE i = Last
    BY <1>1, <2>1
  <2>2. CASE i # Last
    BY <1>1, <1>3, <2>2
  <2> QED BY <2>1, <2>2
<1>5. GivenUpBounded'
  <2> SUFFICES ASSUME call.kind = "clip"
               PROVE  Cardinality(GivenUp') <= call'.cycle - 1 + (IF call'.pc = "over" THEN 1 ELSE 0)
    BY DEF GivenUpBounded
  <2>1. /\ GivenUp' = {i \in 1..Last : bills'[i].left \in {"timeout", "empty"}}
        /\ GivenUp = {i \in 1..Last : bills[i].left \in {"timeout", "empty"}}
    BY <1>1 DEF GivenUp, Left, Last
  <2>2. GivenUp' \in {GivenUp, GivenUp \cup {Last}} /\ (b.left \notin {"timeout", "empty"} => GivenUp' = GivenUp)
    BY <1>0, <1>1, <2>1
  <2>3. Cardinality(GivenUp') \in Nat /\ Cardinality(GivenUp) \in Nat
        /\ Cardinality(GivenUp') <= Cardinality(GivenUp) + 1
        /\ (b.left \notin {"timeout", "empty"} => Cardinality(GivenUp') = Cardinality(GivenUp))
    <3>1. IsFiniteSet(GivenUp) /\ Cardinality(GivenUp) \in Nat
      BY GivenUpFinite
    <3>2. Cardinality(GivenUp \cup {Last}) = IF Last \in GivenUp THEN Cardinality(GivenUp) ELSE Cardinality(GivenUp) + 1
      BY <3>1, FS_AddElement
    <3>3. CASE GivenUp' = GivenUp
      BY <3>1, <3>3
    <3>4. CASE GivenUp' # GivenUp
      <4>1. GivenUp' = GivenUp \cup {Last} /\ b.left \in {"timeout", "empty"}
        BY <2>2, <3>4
      <4>2. Cardinality(GivenUp') = Cardinality(GivenUp) \/ Cardinality(GivenUp') = Cardinality(GivenUp) + 1
        BY <3>2, <4>1
      <4> QED BY <3>1, <4>1, <4>2
    <3> QED BY <3>3, <3>4
  <2>4. call.cycle \in Nat /\ Cardinality(GivenUp) <= call.cycle - 1
    BY <2>3 DEF GivenUpBounded, CallFits, CallRecords
  <2>5. call'.pc = "poll" => Cardinality(GivenUp') = Cardinality(GivenUp)
    BY <2>3
  <2> QED BY <2>3, <2>4, <2>5
<1>6. PatienceKept'
  <2> SUFFICES ASSUME call.kind = "clip", NEW i \in 1..Last
      PROVE  /\ bills'[i].left = "empty" => Waited(bills'[i].seen)
             /\ bills'[i].left = "timeout" => Len(bills'[i].seen) = PollLimit
             /\ bills'[i].left = "held" => ~Waited(bills'[i].seen)
    BY <1>1 DEF PatienceKept, Waited, Last
  <2>1. CASE i = Last
    BY <1>1, <2>1
  <2>2. CASE i # Last
    BY <1>1, <2>2 DEF PatienceKept
  <2> QED BY <2>1, <2>2
<1> QED BY <1>1, <1>2, <1>4, <1>5, <1>6

\* Where the wait for URLs begins after another poll.
WaitFrom(what, first, polls) ==
    IF what = "processing" THEN 0 ELSE IF what = "empty" /\ first = 0 THEN polls + 1 ELSE first

\* Another poll in the wait for URLs: a success goes on with it or begins it, "processing" ends it.
LEMMA PollNoted ==
  ASSUME NEW seen \in Seq(Notes), NEW polls \in Nat, NEW first \in Nat, NEW what \in Notes,
         WaitOf(seen, polls, first)
  PROVE  /\ WaitOf(Append(seen, what), polls + 1, WaitFrom(what, first, polls))
         /\ Waited(Append(seen, what))
               <=> (what = "empty" /\ (polls + 1) - WaitFrom(what, first, polls) >= SuccessWait)
<1> DEFINE f == WaitFrom(what, first, polls)
           s == Append(seen, what)
           n == polls + 1
<1>1. /\ s \in Seq(Notes) /\ Len(s) = n /\ \A i \in 1..polls : s[i] = seen[i]
      /\ s[n] = what
  BY AppendProperties DEF WaitOf
<1>2. /\ what = "processing" => f = 0
      /\ what = "empty" /\ first = 0 => f = n
      /\ what = "empty" /\ first # 0 => f = first
      /\ what = "other" => f = first
  BY DEF WaitFrom
<1>3. f \in 0..n /\ n \in Nat /\ n >= 1
  BY <1>2 DEF WaitOf, Notes
<1> HIDE DEF f, s
<1>4. ASSUME NEW i \in 1..n, s[i] = "empty", \A k \in i..n : s[k] # "processing"
      PROVE  f # 0 /\ f <= i
  <2>1. what # "processing"
    BY <1>1, <1>3, <1>4
  <2>2. CASE i = n
    BY <1>1, <1>2, <1>3, <1>4, <2>2
  <2>3. CASE i # n
    <3>1. i \in 1..polls /\ \A k \in i..polls : k \in 1..polls /\ k \in i..n
      BY <2>3
    <3>2. seen[i] = "empty" /\ \A k \in i..polls : seen[k] # "processing"
      BY <1>1, <1>4, <3>1
    <3>3. first # 0 /\ first <= i
      BY <3>1, <3>2 DEF WaitOf
    <3> QED BY <1>2, <2>1, <3>3 DEF Notes
  <2> QED BY <2>2, <2>3
<1>5. ASSUME f # 0 PROVE s[f] = "empty" /\ \A k \in f..n : s[k] # "processing"
  <2>1. what # "processing"
    BY <1>2, <1>5
  <2>2. CASE f = n
    BY <1>1, <1>2, <1>3, <2>1, <2>2 DEF WaitOf, Notes
  <2>3. CASE f # n
    <3>1. f = first /\ first \in 1..polls /\ \A k \in f..n : k = n \/ (k \in first..polls /\ k \in 1..polls)
      BY <1>2, <1>3, <1>5, <2>1, <2>3 DEF Notes
    <3> QED BY <1>1, <1>5, <2>1, <3>1 DEF WaitOf
  <2> QED BY <2>2, <2>3
<1>6. WaitOf(s, n, f)
  BY <1>1, <1>3, <1>4, <1>5 DEF WaitOf
<1>7. Waited(s) <=> (what = "empty" /\ n - f >= SuccessWait)
  <2>1. ASSUME Waited(s) PROVE what = "empty" /\ n - f >= SuccessWait
    <3>1. PICK i \in 1..n : /\ n - i >= SuccessWait /\ s[i] = "empty" /\ s[n] = "empty"
                            /\ \A k \in i..n : s[k] # "processing"
      BY <1>1, <2>1 DEF Waited
    <3>2. f <= i
      BY <1>4, <3>1
    <3> QED BY <1>1, <1>3, <3>1, <3>2, MediaAssumption DEF MediaAssumption
  <2>2. ASSUME what = "empty", n - f >= SuccessWait PROVE Waited(s)
    <3>1. f # 0
      BY <1>2, <1>3, <2>2
    <3>2. f \in 1..n
      BY <1>3, <3>1
    <3> QED BY <1>1, <1>5, <2>2, <3>1, <3>2 DEF Waited
  <2> QED BY <2>1, <2>2
<1> QED BY <1>6, <1>7 DEF f, s

\* The task the poll loop holds.
LEMMA TaskHeld ==
  ASSUME MediaInduction, call.pc = "poll"
  PROVE  /\ Last >= 1 /\ Last \in Nat /\ bills[Last] \in Bill /\ bills[Last].left = "held"
         /\ call.kind = "clip" => /\ ~Waited(bills[Last].seen) /\ bills[Last].seen \in Seq(Notes)
                                  /\ WaitOf(bills[Last].seen, call.polls, call.first)
         /\ call.polls \in Nat /\ call.first \in Nat /\ call.polls <= PollLimit
<1> USE DEF MediaInduction
<1>1. Last >= 1 /\ Last \in Nat /\ Last \in 1..Last
  BY LenProperties DEF BillsFit, Last
<1>2. bills[Last] \in Bill
  BY <1>1, ElementOfSeq DEF Last
<1>3. bills[Last].left = "held"
  BY <1>1 DEF BillsFit
<1> QED BY <1>1, <1>2, <1>3, MediaAssumption DEF PatienceKept, WaitFits, CallFits, CallRecords, Bill, MediaAssumption

\* A new task is an entry of the bill.
LEMMA TaskIsBill ==
  /\ Task("held") \in Bill /\ Task("lost") \in Bill /\ [Task("used") EXCEPT !.state = "done"] \in Bill
  /\ Task("held").left = "held" /\ Task("held").seen = <<>> /\ Task("lost").left = "lost" /\ Task("lost").seen = <<>>
  /\ [Task("used") EXCEPT !.state = "done"].left = "used" /\ [Task("used") EXCEPT !.state = "done"].seen = <<>>
<1>1. <<>> \in Seq(Notes)
  BY EmptySeq
<1> QED BY <1>1 DEF Task, Bill

\* The handing over of a result ends the call.
LEMMA HandedOver ==
  ASSUME CallFits, NEW url \in {"url", "credits"}, HandOver(url), call.pc # "over"
  PROVE  /\ CallFits' /\ call'.kind = call.kind /\ call'.result = url /\ call'.pc = "over"
         /\ call'.cycle = call.cycle /\ call'.tries = call.tries
<1>1. call' = [call EXCEPT !.pc = "over", !.result = url]
  BY DEF HandOver
<1>2. /\ call' \in CallRecords /\ call'.kind = call.kind /\ call'.result = url /\ call'.pc = "over"
      /\ call'.cycle = call.cycle /\ call'.tries = call.tries /\ call'.images = call.images
  BY <1>1 DEF CallFits, CallRecords
<1>3. call.images \in Nat /\ call.cycle \in Nat /\ call.images <= call.cycle
  BY DEF CallFits, CallRecords
<1> QED BY <1>2, <1>3 DEF CallFits

\* The portrait and the creation.
LEMMA CreateInduction ==
  ASSUME MediaInduction,
         SourceImage \/ CreateAccepted \/ CreateAnswered \/ CreateRetried \/ CreateFailed \/ NoCredits
  PROVE  MediaInduction'
<1>t. CallFits /\ call \in CallRecords /\ (call.pc # "over" => call.result = "none")
  BY DEF MediaInduction, CallFits
<1>1. CASE SourceImage
  <2>1. CASE call' = [call EXCEPT !.pc = "create", !.images = @ + 1]
    <3>1. call.pc = "image" /\ bills' = bills
      BY <1>1 DEF SourceImage
    <3>2. call.kind = "ailive" /\ call.images + 1 <= call.cycle /\ call.cycle <= MaxAttempts /\ call.images \in Nat
          /\ call.cycle \in Nat
      BY <3>1, <1>t DEF CallFits, CallRecords, Cycles
    <3>3. call.images + 1 \in 0..MaxAttempts
      BY <3>2, MediaAssumption DEF MediaAssumption
    <3>4. /\ call' \in CallRecords /\ call'.kind = call.kind /\ call'.pc = "create" /\ call'.images = call.images + 1
          /\ call'.cycle = call.cycle /\ call'.tries = call.tries /\ call'.result = call.result
          /\ call'.polls = call.polls /\ call'.first = call.first
      BY <1>t, <2>1, <3>3 DEF CallRecords
    <3>5. CallFits'
      BY <1>t, <3>1, <3>2, <3>4 DEF CallFits
    <3> QED BY <1>t, <3>1, <3>4, <3>5, TaskIsBill, CreatedInduction
  <2>2. ASSUME NEW why \in {"refused", "timeout"}, EndCycle(why) PROVE MediaInduction'
    <3>1. call.pc = "image" /\ bills' = bills
      BY <1>1 DEF SourceImage
    <3>2. why \in Whys
      BY DEF Whys
    <3> QED BY <1>t, <2>2, <3>1, <3>2, CycleEnded, TaskIsBill, CreatedInduction
  <2> QED BY <1>1, <2>1, <2>2 DEF SourceImage
<1>2. CASE CreateAccepted
  <2>1. call.pc = "create" /\ bills' = Append(bills, Task("held")) /\ call' = [call EXCEPT !.pc = "poll"]
    BY <1>2 DEF CreateAccepted
  <2>2. /\ call' \in CallRecords /\ call'.kind = call.kind /\ call'.pc = "poll" /\ call'.images = call.images
        /\ call'.cycle = call.cycle /\ call'.tries = call.tries /\ call'.result = call.result
        /\ call'.polls = call.polls /\ call'.first = call.first
    BY <1>t, <2>1 DEF CallRecords
  <2>3. CallFits' /\ call.polls = 0 /\ call.first = 0
    BY <1>t, <2>1, <2>2 DEF CallFits
  <2> QED BY <1>t, <2>1, <2>2, <2>3, TaskIsBill, CreatedInduction
<1>3. CASE CreateAnswered
  <2>1. call.pc = "create" /\ bills' = Append(bills, [Task("used") EXCEPT !.state = "done"]) /\ HandOver("url")
    BY <1>3 DEF CreateAnswered
  <2> QED BY <1>t, <2>1, HandedOver, TaskIsBill, CreatedInduction
<1>4. CASE CreateRetried
  <2>1. /\ call.pc = "create" /\ call.kind = "clip" /\ call.tries < MaxCreates
        /\ call' = [call EXCEPT !.tries = @ + 1]
        /\ (bills' = bills \/ bills' = Append(bills, Task("lost")))
    BY <1>4 DEF CreateRetried, PerhapsBilled
  <2>2. call.tries + 1 \in 1..MaxCreates
    BY <1>t, <2>1, MediaAssumption DEF CallRecords, MediaAssumption
  <2>3. /\ call' \in CallRecords /\ call'.kind = call.kind /\ call'.pc = "create" /\ call'.images = call.images
        /\ call'.cycle = call.cycle /\ call'.tries = call.tries + 1 /\ call'.result = call.result
        /\ call'.polls = call.polls /\ call'.first = call.first
    BY <1>t, <2>1, <2>2 DEF CallRecords
  <2>4. CallFits'
    BY <1>t, <2>1, <2>3 DEF CallFits
  <2> QED BY <1>t, <2>1, <2>3, <2>4, TaskIsBill, CreatedInduction
<1>5. CASE CreateFailed
  <2>1. PICK why \in {"refused", "timeout"} : EndCycle(why) /\ (why = "timeout" => call.kind \in ByStep)
    BY <1>5 DEF CreateFailed
  <2>2. /\ call.pc = "create" /\ (bills' = bills \/ bills' = Append(bills, Task("lost")))
    BY <1>5 DEF CreateFailed, PerhapsBilled
  <2>3. why \in Whys
    BY DEF Whys
  <2>4. /\ CallFits' /\ call'.kind = call.kind /\ call'.result # "url"
        /\ \/ call'.pc = "over" /\ call'.cycle = call.cycle /\ call'.tries = call.tries
           \/ call'.pc \in {"image", "create"} /\ call'.cycle = call.cycle + 1 /\ call'.tries = 1
    BY <1>t, <2>1, <2>2, <2>3, CycleEnded
  <2> QED BY <2>2, <2>4, TaskIsBill, CreatedInduction
<1>6. CASE NoCredits
  <2>1. call.pc = "create" /\ bills' = bills /\ HandOver("credits")
    BY <1>6 DEF NoCredits
  <2> QED BY <1>t, <2>1, HandedOver, TaskIsBill, CreatedInduction
<1> QED BY <1>1, <1>2, <1>3, <1>4, <1>5, <1>6

\* A poll that goes on: what it saw is noted for a Kie video.
LEMMA PollGoesOn ==
  ASSUME MediaInduction, Polling, NEW what \in Notes,
         Note(what) \/ (call.kind = "ailive" /\ UNCHANGED bills),
         NEW f \in Nat, call' = [Asked EXCEPT !.first = f],
         call.kind # "clip" => f = call.first,
         call.kind = "clip" => f = WaitFrom(what, call.first, call.polls),
         call.kind = "clip" /\ what = "empty" => (call.polls + 1) - f < SuccessWait
  PROVE  MediaInduction'
<1>t. CallFits /\ call \in CallRecords /\ call.pc = "poll" /\ call.polls < PollLimit /\ call.result = "none"
      /\ bills \in Seq(Bill)
  BY DEF MediaInduction, CallFits, Polling
<1>h. /\ Last >= 1 /\ Last \in Nat /\ bills[Last] \in Bill /\ bills[Last].left = "held"
      /\ call.kind = "clip" => /\ ~Waited(bills[Last].seen) /\ bills[Last].seen \in Seq(Notes)
                               /\ WaitOf(bills[Last].seen, call.polls, call.first)
      /\ call.polls \in Nat /\ call.first \in Nat /\ call.polls <= PollLimit
  BY <1>t, TaskHeld
<1>1. call.polls + 1 \in 0..PollLimit
  BY <1>t, <1>h, MediaAssumption DEF MediaAssumption
<1>2. call.kind = "clip" => /\ WaitOf(Append(bills[Last].seen, what), call.polls + 1, f)
                           /\ ~Waited(Append(bills[Last].seen, what))
  <2> SUFFICES ASSUME call.kind = "clip"
               PROVE  WaitOf(Append(bills[Last].seen, what), call.polls + 1, f) /\ ~Waited(Append(bills[Last].seen, what))
    OBVIOUS
  <2>1. /\ WaitOf(Append(bills[Last].seen, what), call.polls + 1, f)
        /\ Waited(Append(bills[Last].seen, what)) <=> what = "empty" /\ (call.polls + 1) - f >= SuccessWait
    BY <1>h, PollNoted
  <2>2. what = "empty" => ~((call.polls + 1) - f >= SuccessWait)
    BY <1>h, MediaAssumption DEF MediaAssumption
  <2> QED BY <2>1, <2>2
<1>3. f \in 0..PollLimit
  BY <1>1, <1>2, <1>h, <1>t, MediaAssumption DEF WaitOf, CallRecords, MediaAssumption
<1>4. /\ call' \in CallRecords /\ call'.kind = call.kind /\ call'.pc = "poll" /\ call'.images = call.images
      /\ call'.cycle = call.cycle /\ call'.tries = call.tries /\ call'.result = call.result
      /\ call'.polls = call.polls + 1 /\ call'.first = f
  BY <1>t, <1>1, <1>3 DEF Asked, CallRecords
<1>5. CallFits'
  BY <1>t, <1>4 DEF CallFits
<1> DEFINE b == IF call.kind = "clip" THEN [bills[Last] EXCEPT !.seen = Append(@, what)] ELSE bills[Last]
<1>6. b \in Bill /\ b.left = "held" /\ (call.kind = "clip" => b.seen = Append(bills[Last].seen, what))
  BY <1>h, AppendProperties DEF Bill
<1>7. bills' = [bills EXCEPT ![Last] = b]
  <2>1. Last \in 1..Len(bills) /\ bills \in [1..Len(bills) -> Bill]
    BY <1>h, <1>t, LenProperties DEF Last
  <2>2. bills = [bills EXCEPT ![Last] = bills[Last]]
    BY <2>1
  <2>3. CASE call.kind = "clip"
    BY <2>3 DEF Note
  <2>4. CASE call.kind # "clip"
    BY <2>2, <2>4 DEF Note
  <2> QED BY <2>3, <2>4
<1> HIDE DEF b
<1>8. bills'[Last'] = b
  BY <1>6, <1>7, <1>h, <1>t, BillChanged
<1>9. WaitFits'
  <2>1. call.kind = "clip" => WaitOf(bills'[Last'].seen, call'.polls, call'.first)
    BY <1>2, <1>4, <1>6, <1>8
  <2> QED BY <1>4, <2>1 DEF WaitFits, WaitOf, Last
<1> QED BY <1>2, <1>4, <1>5, <1>6, <1>7, <1>9, <1>t, PolledInduction

\* The poll loop leaves its task: the end of the cycle, or the delivery.
LEMMA LeftInduction ==
  ASSUME MediaInduction, call.pc = "poll", NEW b \in Bill, bills' = [bills EXCEPT ![Last] = b],
         b.left \in {"timeout", "broken", "empty", "ended", "used"},
         \/ b.left = "used" /\ HandOver("url")
         \/ /\ b.left # "used"
            /\ \E why \in Whys : EndCycle(why) /\ (b.left = "timeout" => why = "timeout"),
         call.kind = "clip" => /\ b.left = "empty" => Waited(b.seen)
                               /\ b.left = "timeout" => Len(b.seen) = PollLimit
  PROVE  MediaInduction'
<1>t. CallFits /\ bills \in Seq(Bill)
  BY DEF MediaInduction
<1>1. CASE b.left = "used" /\ HandOver("url")
  <2>1. /\ CallFits' /\ call'.kind = call.kind /\ call'.result = "url" /\ call'.pc = "over"
        /\ call'.cycle = call.cycle /\ call'.tries = call.tries
    BY <1>t, <1>1, HandedOver
  <2>2. WaitFits'
    BY <2>1 DEF WaitFits
  <2> QED BY <1>1, <2>1, <2>2, PolledInduction
<1>2. ASSUME b.left # "used", NEW why \in Whys, EndCycle(why), b.left = "timeout" => why = "timeout"
      PROVE  MediaInduction'
  <2>1. /\ CallFits' /\ call'.kind = call.kind /\ call'.result # "url"
        /\ \/ call'.pc = "over" /\ call'.cycle = call.cycle /\ call'.tries = call.tries
           \/ /\ Again(why) /\ call'.pc \in {"image", "create"}
              /\ call'.cycle = call.cycle + 1 /\ call'.tries = 1
    BY <1>t, <1>2, CycleEnded
  <2>2. WaitFits'
    BY <2>1 DEF WaitFits
  <2>3. call.kind \in ByStep /\ b.left = "timeout" => call'.pc = "over"
    BY <1>2, <2>1 DEF Again, ByStep
  <2> QED BY <1>2, <2>1, <2>2, <2>3, PolledInduction
<1> QED BY <1>1, <1>2

\* The poll loop.
LEMMA PollInduction ==
  ASSUME MediaInduction,
         \/ TaskMoves \/ PollTroubled \/ PollBroken \/ PollWorking \/ PollEmpty \/ PollDone \/ PollFailed
         \/ PollsExhausted
  PROVE  MediaInduction'
<1>p. call.pc = "poll"
  BY DEF TaskMoves, PollTroubled, PollBroken, PollWorking, PollEmpty, PollDone, PollFailed, PollsExhausted, Polling
<1>t. CallFits /\ call \in CallRecords /\ bills \in Seq(Bill)
  BY DEF MediaInduction, CallFits
<1>h. /\ Last >= 1 /\ Last \in Nat /\ bills[Last] \in Bill /\ bills[Last].left = "held"
      /\ call.kind = "clip" => /\ ~Waited(bills[Last].seen) /\ bills[Last].seen \in Seq(Notes)
                               /\ WaitOf(bills[Last].seen, call.polls, call.first)
      /\ call.polls \in Nat /\ call.first \in Nat /\ call.polls <= PollLimit
  BY <1>p, TaskHeld
<1>a. Asked = [Asked EXCEPT !.first = call.first] /\ call.first \in Nat
  BY <1>t, <1>h DEF Asked, CallRecords
<1>l. ASSUME NEW left \in {"timeout", "broken", "empty", "ended", "used"}
      PROVE  /\ [bills[Last] EXCEPT !.left = left] \in Bill
             /\ [bills[Last] EXCEPT !.left = left].left = left
             /\ [bills[Last] EXCEPT !.left = left].seen = bills[Last].seen
             /\ Leave(left) => bills' = [bills EXCEPT ![Last] = [bills[Last] EXCEPT !.left = left]]
  BY <1>h DEF Bill, Leave
<1>w. /\ "refused" \in Whys /\ "timeout" \in Whys /\ "broken" \in Whys /\ "empty" \in Whys /\ "failed" \in Whys
      /\ "other" \in Notes /\ "processing" \in Notes /\ "empty" \in Notes
  BY DEF Whys, Notes
<1>1. CASE TaskMoves
  <2>1. PICK st \in {"working", "empty", "done", "failed"} : bills' = [bills EXCEPT ![Last].state = st]
    <3>1. bills[Last].state \in {"working", "empty", "done", "failed"}
      BY <1>h DEF Bill
    <3>2. Moves[bills[Last].state] \subseteq {"working", "empty", "done", "failed"}
      BY <3>1 DEF Moves
    <3> QED BY <1>1, <3>2 DEF TaskMoves
  <2> DEFINE b == [bills[Last] EXCEPT !.state = st]
  <2>2. b \in Bill /\ b.left = "held" /\ b.seen = bills[Last].seen /\ bills' = [bills EXCEPT ![Last] = b]
        /\ UNCHANGED call
    BY <1>1, <1>h, <2>1 DEF Bill, TaskMoves
  <2> HIDE DEF b
  <2>3. Last' = Last /\ bills'[Last] = b
    BY <1>h, <1>t, <2>2, BillChanged
  <2>4. WaitFits'
    <3>1. call.kind = "clip" => WaitOf(bills'[Last'].seen, call.polls, call.first)
      BY <1>h, <2>2, <2>3
    <3> QED BY <2>2, <3>1 DEF WaitFits, WaitOf, Last
  <2>6. CallFits'
    BY <1>t, <2>2 DEF CallFits
  <2>5. call.result # "url"
    BY <1>p, <1>t DEF CallFits
  <2> QED BY <1>h, <1>p, <2>2, <2>4, <2>5, <2>6, PolledInduction
<1>2. CASE PollTroubled
  <2>1. Polling /\ call' = Asked /\ Note("other")
    BY <1>2 DEF PollTroubled
  <2>2. WaitFrom("other", call.first, call.polls) = call.first
    BY DEF WaitFrom
  <2> QED BY <1>a, <1>w, <2>1, <2>2, PollGoesOn
<1>3. CASE PollBroken
  <2>1. call.kind # "clip" /\ Leave("broken") /\ EndCycle("broken")
    BY <1>3 DEF PollBroken, ByStep
  <2> QED BY <1>l, <1>p, <1>w, <2>1, LeftInduction
<1>4. CASE PollWorking
  <2>1. PICK what \in {"processing", "other"} :
           /\ call' = IF call.kind = "clip" /\ what = "processing" THEN [Asked EXCEPT !.first = 0] ELSE Asked
           /\ Note(what)
    BY <1>4 DEF PollWorking
  <2>2. Polling /\ what \in Notes
    BY <1>4, <1>w DEF PollWorking
  <2>f. what # "empty" /\ WaitFrom(what, call.first, call.polls) = IF what = "processing" THEN 0 ELSE call.first
    BY DEF WaitFrom
  <2>3. CASE call.kind = "clip" /\ what = "processing"
    BY <2>1, <2>2, <2>3, <2>f, PollGoesOn
  <2>4. CASE ~(call.kind = "clip" /\ what = "processing")
    BY <1>a, <2>1, <2>2, <2>4, <2>f, PollGoesOn
  <2> QED BY <2>3, <2>4
<1>5. CASE PollEmpty
  <2> DEFINE polls == call.polls + 1
             first == IF call.first = 0 THEN polls ELSE call.first
  <2>1. Polling /\ first \in Nat
    BY <1>5, <1>h DEF PollEmpty
  <2>f. WaitFrom("empty", call.first, call.polls) = first
    <3>1. "empty" # "processing"
      OBVIOUS
    <3>2. CASE call.first = 0
      BY <3>1, <3>2 DEF WaitFrom
    <3>3. CASE call.first # 0
      BY <3>1, <3>3 DEF WaitFrom
    <3> QED BY <3>2, <3>3
  <2>2. CASE call.kind = "ailive"
    <3>1. call' = Asked /\ UNCHANGED bills
      BY <1>5, <2>2 DEF PollEmpty
    <3> QED BY <1>a, <1>w, <2>1, <2>2, <3>1, PollGoesOn
  <2>3. CASE call.kind = "clip" /\ polls - first < SuccessWait
    <3>1. call' = [Asked EXCEPT !.first = first] /\ Note("empty")
      BY <1>5, <2>3 DEF PollEmpty
    <3>2. call.kind = "clip" /\ (call.polls + 1) - first < SuccessWait
      BY <2>3
    <3> HIDE DEF first
    <3>3. first = WaitFrom("empty", call.first, call.polls)
      BY <2>f
    <3> QED BY <1>w, <2>1, <3>1, <3>2, <3>3, PollGoesOn
  <2>4. CASE call.kind = "clip" /\ ~(polls - first < SuccessWait)
    <3>1. /\ EndCycle("empty")
          /\ bills' = [bills EXCEPT ![Last].left = "empty", ![Last].seen = Append(@, "empty")]
      BY <1>5, <2>4 DEF PollEmpty
    <3> DEFINE b == [bills[Last] EXCEPT !.left = "empty", !.seen = Append(@, "empty")]
    <3>2. Last \in 1..Len(bills) /\ bills \in [1..Len(bills) -> Bill]
      BY <1>h, <1>t, LenProperties DEF Last
    <3>3. bills' = [bills EXCEPT ![Last] = b]
      BY <1>h, <3>1, <3>2 DEF Bill
    <3>4. b \in Bill /\ b.left = "empty" /\ b.seen = Append(bills[Last].seen, "empty")
      BY <1>h, <1>w, <2>4, AppendProperties DEF Bill
    <3>5. Waited(Append(bills[Last].seen, "empty"))
      <4>1. polls - first >= SuccessWait
        BY <1>h, <2>1, <2>4, MediaAssumption DEF MediaAssumption
      <4>2. Waited(Append(bills[Last].seen, "empty")) <=>
              "empty" = "empty" /\ (call.polls + 1) - WaitFrom("empty", call.first, call.polls) >= SuccessWait
        BY <1>h, <1>w, <2>4, PollNoted
      <4>3. (call.polls + 1) - first >= SuccessWait
        BY <4>1
      <4> HIDE DEF first
      <4> QED BY <2>f, <4>2, <4>3
    <3> HIDE DEF b
    <3> QED BY <1>p, <1>w, <3>1, <3>3, <3>4, <3>5, LeftInduction
  <2>5. CASE call.kind \notin {"clip", "ailive"}
    <3>1. EndCycle("empty") /\ Leave("empty")
      BY <1>5, <2>5 DEF PollEmpty
    <3> QED BY <1>l, <1>p, <1>w, <2>5, <3>1, LeftInduction
  <2> QED BY <2>2, <2>3, <2>4, <2>5
<1>6. CASE PollDone
  <2>1. HandOver("url") /\ Leave("used")
    BY <1>6 DEF PollDone
  <2> QED BY <1>l, <1>p, <2>1, LeftInduction
<1>7. CASE PollFailed
  <2>1. CASE call.kind = "ailive"
    <3>1. Polling /\ call' = Asked /\ UNCHANGED bills
      BY <1>7, <2>1 DEF PollFailed
    <3> QED BY <1>a, <1>w, <2>1, <3>1, PollGoesOn
  <2>2. CASE call.kind # "ailive"
    <3>1. EndCycle("failed") /\ Leave("ended")
      BY <1>7, <2>2 DEF PollFailed
    <3> QED BY <1>l, <1>p, <1>w, <3>1, LeftInduction
  <2> QED BY <2>1, <2>2
<1>8. CASE PollsExhausted
  <2>1. call.polls = PollLimit /\ EndCycle("timeout") /\ Leave("timeout")
    BY <1>8 DEF PollsExhausted
  <2>2. call.kind = "clip" => Len(bills[Last].seen) = PollLimit
    BY <1>h, <2>1 DEF WaitOf
  <2> QED BY <1>l, <1>p, <1>w, <2>1, <2>2, LeftInduction
<1> QED BY <1>1, <1>2, <1>3, <1>4, <1>5, <1>6, <1>7, <1>8

-----------------------------------------------------------------------------
\* Of every request: it costs no more tasks than its loops allow, the poll loop holds the last one only,
\* and a video that was paid for is given up only after its time.
THEOREM MediaKept == MediaSpec => []MediaInvariant
<1>1. ASSUME MediaInduction, [MediaNext]_mediaVars PROVE MediaInduction'
  <2>1. CASE MediaNext
    BY <1>1, <2>1, CreateInduction, PollInduction DEF MediaNext
  <2>2. CASE UNCHANGED mediaVars
    BY <1>1, <2>2 DEF mediaVars, MediaInduction, CallFits, Budgeted, Earlier, BillsFit, GivenUpBounded, GivenUp, Left,
          WaitFits, WaitOf, PatienceKept, Waited, Last
  <2> QED BY <1>1, <2>1, <2>2
<1>2. MediaInduction => MediaInvariant
  <2> SUFFICES ASSUME MediaInduction PROVE MediaInvariant
    OBVIOUS
  <2> USE DEF MediaInduction
  <2>t. /\ call \in CallRecords /\ Last \in Nat /\ call.kind \in {"clip", "photo", "seedance", "ailive"}
        /\ call.cycle \in Nat /\ call.cycle >= 1 /\ call.tries \in Nat /\ call.tries >= 1 /\ call.images \in Nat
        /\ call.tries <= PerCycle(call.kind) /\ call.cycle <= Cycles(call.kind)
    <3>1. Last \in Nat
      BY LenProperties DEF Last
    <3>2. call \in CallRecords /\ call.cycle <= Cycles(call.kind) /\ (call.kind # "clip" => call.tries = 1)
      BY DEF CallFits
    <3>3. /\ call.kind \in MediaKinds /\ call.cycle \in 1..(MaxAttempts + MaxAgain + 1)
          /\ call.tries \in 1..MaxCreates /\ call.images \in 0..MaxAttempts
      BY <3>2 DEF CallRecords
    <3>4. call.tries <= PerCycle(call.kind)
      BY <3>2, <3>3, MediaAssumption DEF PerCycle, MediaAssumption
    <3>5. call.kind \in {"clip", "photo", "seedance", "ailive"}
      BY <3>3, MediaAssumption DEF MediaAssumption
    <3>6. MaxAttempts + MaxAgain + 1 \in Nat /\ MaxCreates \in Nat /\ MaxAttempts \in Nat
      BY MediaAssumption DEF MediaAssumption
    <3> QED BY <3>1, <3>2, <3>3, <3>4, <3>5, <3>6
  <2>1. MediaTyped
    BY DEF MediaTyped, CallFits, CallRecords, Whys, Bill, Notes
  <2>2. Last <= SpendLimit[call.kind]
    <3>1. Last <= PerCycle(call.kind) * Cycles(call.kind)
      <4>1. Earlier \in Nat /\ PerCycle(call.kind) \in Nat \ {0}
        BY BudgetGrows
      <4>2. Last <= Earlier + PerCycle(call.kind)
        BY <2>t, <4>1 DEF Budgeted
      <4> DEFINE m == PerCycle(call.kind)
                 c == call.cycle
                 k == Cycles(call.kind)
      <4>3. Earlier = m * (c - 1)
        BY DEF Earlier
      <4>4. m \in Nat /\ c \in Nat /\ k \in Nat /\ c <= k
        BY <2>t, <4>1, MediaAssumption DEF Cycles, MediaAssumption
      <4> HIDE DEF m, c, k
      <4>5. m * (c - 1) + m <= m * k
        <5>1. \A x, y, z \in Int : x >= 0 /\ y <= z => x * (y - 1) + x <= x * z
          OBVIOUS
        <5>2. m \in Int /\ c \in Int /\ k \in Int /\ m >= 0
          BY <4>4
        <5> QED BY <4>4, <5>1, <5>2
      <4>6. m * k \in Nat
        <5>1. \A x, y \in Nat : x * y \in Nat
          OBVIOUS
        <5> QED BY <4>4, <5>1
      <4>7. Last <= m * (c - 1) + m
        BY <4>2, <4>3 DEF m
      <4>8. m * (c - 1) \in Nat /\ m \in Nat
        BY <4>1, <4>3, <4>4
      <4>9. Last <= m * k
        BY <2>t, <4>5, <4>6, <4>7, <4>8
      <4> QED BY <4>9 DEF m, k
    <3>2. PerCycle(call.kind) * Cycles(call.kind) = SpendLimit[call.kind]
      <4>1. CASE call.kind = "clip"
        BY <4>1 DEF PerCycle, Cycles, SpendLimit
      <4>2. CASE call.kind = "photo"
        BY <4>2 DEF PerCycle, Cycles, SpendLimit
      <4>3. CASE call.kind \in {"seedance", "ailive"}
        BY <4>3, MediaAssumption DEF PerCycle, Cycles, SpendLimit, MediaAssumption
      <4> QED BY <2>t, <4>1, <4>2, <4>3
    <3> QED BY <3>1, <3>2
  <2>3. call.images <= MaxAttempts
    BY <2>t DEF CallRecords
  <2>4. Left("held") = IF call.pc = "poll" THEN {Last} ELSE {}
    BY <2>t DEF BillsFit, Left
  <2>5. Left("used") = IF call.result = "url" THEN {Last} ELSE {}
    BY <2>t DEF BillsFit, Left
  <2>6. call.kind \in ByStep => Left("timeout") \subseteq {Last} /\ (Left("timeout") # {} => call.pc = "over")
    BY <2>t DEF BillsFit, Left
  <2>7. call.kind = "clip" => Cardinality(Left("timeout") \cup Left("empty")) <= MaxAgain + 1
    <3> SUFFICES ASSUME call.kind = "clip" PROVE Cardinality(GivenUp) <= MaxAgain + 1
      BY DEF GivenUp
    <3>1. Cardinality(GivenUp) <= call.cycle - 1 + (IF call.pc = "over" THEN 1 ELSE 0)
      BY DEF GivenUpBounded
    <3>2. Cardinality(GivenUp) \in Nat
      BY GivenUpFinite
    <3>3. call.cycle <= MaxAgain + 1
      BY <2>t DEF Cycles
    <3> QED BY <2>t, <3>1, <3>2, <3>3, MediaAssumption DEF MediaAssumption
  <2> QED BY <2>1, <2>2, <2>3, <2>4, <2>5, <2>6, <2>7 DEF MediaInvariant, SpendExplained
<1> QED BY <1>1, <1>2, MediaInitInduction, PTL DEF MediaSpec

-----------------------------------------------------------------------------
(***************************************************************************)
(* TextProviders. How often a model has been asked follows from where the  *)
(* request stands: those before it in the plan have had all their tries,   *)
(* the one it is at as many as it counts, those behind it none.            *)
(***************************************************************************)

TextRecords ==
  [kind : TextKinds, op : TextOps, provider : TextProvidersUsed, from : TextProvidersUsed,
   gemini : BOOLEAN, synthetic : BOOLEAN, wanted : {1, 7}, try : Nat, model : 1..NumModels,
   asked : [TextOps -> [TextProvidersUsed -> Nat]], quota : [TextOps -> Nat], credit : BOOLEAN,
   texts : [TextOps -> TextProvidersUsed \cup {"none"}], scenes : 0..8,
   result : {"none", "ok", "static", "synthetic", "failed"}]

\* The order in which a request comes to an operation and a provider: a draft that falls back with
\* its caption goes back to the plan, but of the other provider.
Stage(op, provider) ==
  IF provider = "anthropic"
  THEN CASE op = "persona" -> 1 [] op = "plan" -> 3 [] OTHER -> 4
  ELSE CASE op = "persona" -> 2 [] op = "plan" -> 5 [] OTHER -> 6

LoopedReply(t) == t.op = "reply" /\ t.provider = "gemini"

AsksOf(op) == IF op = "reply" THEN 3 * NumModels ELSE Tries

\* What is true of a request between two answers, whatever it does next.
Sound(t) ==
  /\ t \in TextRecords
  /\ t.kind = "draft" \/ t.op # "persona"
  /\ t.kind = "draft" => t.op \in {"persona", "plan", "caption"}
  /\ t.from = "gemini" => t.provider = "gemini"
  /\ t.from = "anthropic" /\ t.provider = "gemini" => t.credit
  /\ \A o \in TextOps, p \in TextProvidersUsed : t.asked[o][p] <= AsksOf(o)
  /\ \A o \in TextOps, p \in TextProvidersUsed :
        Stage(o, p) > Stage(t.op, t.provider) => t.asked[o][p] = 0
  /\ \A o \in TextOps : t.from = "anthropic" /\ t.asked[o]["gemini"] > 0 => t.credit
  /\ \A o \in TextOps : t.quota[o] # 0 => t.asked[o]["gemini"] = t.quota[o]
  /\ ~LoopedReply(t) => t.model = 1
  /\ t.kind = "draft" /\ t.op = "caption" => t.texts["plan"] = t.provider
  /\ t.texts["plan"] # "none" => t.scenes \in {1} \cup 6..8

\* A request that is not over: how often it has asked what it asks now.
Ready(t) ==
  /\ IF LoopedReply(t)
     THEN /\ t.try \in {1, 2}
          /\ t.asked["reply"]["gemini"] <= 3 * (t.model - 1) + (IF t.try = 1 THEN 0 ELSE 2)
     ELSE /\ t.try \in 1..Tries /\ t.asked[t.op][t.provider] = t.try - 1
          /\ t.op = "reply" => t.try = 1
  /\ t.provider = "gemini" => t.quota[t.op] = 0

\* A request that is over.
Over(t) ==
  /\ t.try \in 1..(IF Tries > 2 THEN Tries ELSE 2)
  /\ t.kind = "draft" /\ t.result = "ok" => t.texts["plan"] = t.texts["caption"]

Fits(t) == Sound(t) /\ (IF t.result = "none" THEN Ready(t) ELSE Over(t))

TextInduction == Fits(text)

-----------------------------------------------------------------------------
\* What the updates of the record do.
LEMMA Counted ==
  ASSUME NEW t \in TextRecords
  PROVE  /\ Count(t) \in TextRecords
         /\ \A o \in TextOps, p \in TextProvidersUsed :
               Count(t).asked[o][p] = IF o = t.op /\ p = t.provider THEN t.asked[o][p] + 1 ELSE t.asked[o][p]
         /\ Count(t).kind = t.kind /\ Count(t).op = t.op /\ Count(t).provider = t.provider
         /\ Count(t).from = t.from /\ Count(t).gemini = t.gemini /\ Count(t).synthetic = t.synthetic
         /\ Count(t).wanted = t.wanted /\ Count(t).try = t.try /\ Count(t).model = t.model
         /\ Count(t).quota = t.quota /\ Count(t).credit = t.credit /\ Count(t).texts = t.texts
         /\ Count(t).scenes = t.scenes /\ Count(t).result = t.result
<1> DEFINE c == [t.asked EXCEPT ![t.op][t.provider] = @ + 1]
<1>1. t.asked \in [TextOps -> [TextProvidersUsed -> Nat]] /\ t.op \in TextOps /\ t.provider \in TextProvidersUsed
  BY DEF TextRecords
<1>2. /\ c \in [TextOps -> [TextProvidersUsed -> Nat]]
      /\ \A o \in TextOps, p \in TextProvidersUsed :
            c[o][p] = IF o = t.op /\ p = t.provider THEN t.asked[o][p] + 1 ELSE t.asked[o][p]
  BY <1>1
<1>3. Count(t) = [t EXCEPT !.asked = c]
  BY DEF Count, TextRecords
<1> HIDE DEF c
<1>4. Count(t).asked = c
  BY <1>3 DEF TextRecords
<1>5. Count(t) \in TextRecords
  BY <1>2, <1>3 DEF TextRecords
<1>6. \A o \in TextOps, p \in TextProvidersUsed :
         Count(t).asked[o][p] = IF o = t.op /\ p = t.provider THEN t.asked[o][p] + 1 ELSE t.asked[o][p]
  BY <1>2, <1>4
<1> QED BY <1>3, <1>5, <1>6 DEF TextRecords

\* Keeping a text changes the text of the operation and nothing else.
LEMMA TextKept ==
  ASSUME NEW t \in TextRecords
  PROVE  /\ Kept(t) \in TextRecords
         /\ Kept(t).texts[t.op] = t.provider
         /\ \A o \in TextOps \ {t.op} : Kept(t).texts[o] = t.texts[o]
         /\ Kept(t).kind = t.kind /\ Kept(t).op = t.op /\ Kept(t).provider = t.provider
         /\ Kept(t).from = t.from /\ Kept(t).gemini = t.gemini /\ Kept(t).synthetic = t.synthetic
         /\ Kept(t).wanted = t.wanted /\ Kept(t).try = t.try /\ Kept(t).model = t.model
         /\ Kept(t).quota = t.quota /\ Kept(t).credit = t.credit /\ Kept(t).asked = t.asked
         /\ Kept(t).scenes = t.scenes /\ Kept(t).result = t.result
<1> DEFINE k == [t.texts EXCEPT ![t.op] = t.provider]
<1>1. /\ t.texts \in [TextOps -> TextProvidersUsed \cup {"none"}]
      /\ t.op \in TextOps /\ t.provider \in TextProvidersUsed
  BY DEF TextRecords
<1>2. /\ k \in [TextOps -> TextProvidersUsed \cup {"none"}] /\ k[t.op] = t.provider
      /\ \A o \in TextOps \ {t.op} : k[o] = t.texts[o]
  BY <1>1
<1>3. Kept(t) = [t EXCEPT !.texts = k]
  BY DEF Kept, TextRecords
<1> HIDE DEF k
<1> QED BY <1>2, <1>3 DEF TextRecords

\* A request that turns to an operation and a provider it has not come to yet begins it anew.
LEMMA Turned ==
  ASSUME NEW t, Sound(t), t.result = "none", ~LoopedReply(t), NEW op \in TextOps, NEW provider \in TextProvidersUsed,
         Stage(op, provider) > Stage(t.op, t.provider),
         t.kind = "draft" => op \in {"persona", "plan", "caption"}, t.kind = "draft" \/ op # "persona",
         t.from = "gemini" => provider = "gemini", t.from = "anthropic" /\ provider = "gemini" => t.credit,
         t.kind = "draft" /\ op = "caption" => t.texts["plan"] = provider
  PROVE  Fits(Go(t, op, provider))
<1> DEFINE g == Go(t, op, provider)
<1>1. /\ g \in TextRecords /\ g.op = op /\ g.provider = provider /\ g.try = 1
      /\ g.kind = t.kind /\ g.from = t.from /\ g.model = t.model /\ g.asked = t.asked /\ g.quota = t.quota
      /\ g.credit = t.credit /\ g.texts = t.texts /\ g.scenes = t.scenes /\ g.result = "none"
  BY DEF Go, Sound, TextRecords
<1>2. t.model = 1 /\ t.asked[op][provider] = 0
  BY DEF Sound
<1>3. provider = "gemini" => t.quota[op] = 0
  BY <1>2 DEF Sound
<1> HIDE DEF g
<1>4. \A o \in TextOps, p \in TextProvidersUsed : Stage(o, p) > Stage(op, provider) => g.asked[o][p] = 0
  <2>1. \A o \in TextOps, p \in TextProvidersUsed : Stage(o, p) \in Int
    BY DEF Stage
  <2>2. t.op \in TextOps /\ t.provider \in TextProvidersUsed
    BY DEF Sound, TextRecords
  <2>3. \A o \in TextOps, p \in TextProvidersUsed :
           Stage(o, p) > Stage(op, provider) => Stage(o, p) > Stage(t.op, t.provider)
    BY <2>1, <2>2
  <2> QED BY <1>1, <2>3 DEF Sound
<1>5. Sound(g)
  BY <1>1, <1>2, <1>4 DEF Sound
<1>6. Ready(g)
  <2>1. LoopedReply(g) => g.asked["reply"]["gemini"] = 0 /\ 3 * (g.model - 1) = 0
    BY <1>1, <1>2 DEF LoopedReply
  <2>2. Tries \in Nat /\ Tries >= 1
    BY TextAssumption DEF TextAssumption
  <2>3. CASE LoopedReply(g)
    BY <1>1, <1>2, <1>3, <2>1, <2>3 DEF Ready
  <2>4. CASE ~LoopedReply(g)
    <3>1. g.try \in 1..Tries /\ g.asked[g.op][g.provider] = g.try - 1
      BY <1>1, <1>2, <2>2
    <3> QED BY <1>1, <1>3, <2>4, <3>1 DEF Ready
  <2> QED BY <2>3, <2>4
<1> QED BY <1>1, <1>5, <1>6 DEF Fits, g

\* One more answer counts against what the request asks now.
LEMMA CountSound ==
  ASSUME NEW t, Sound(t), t.asked[t.op][t.provider] < AsksOf(t.op), t.provider = "gemini" => t.quota[t.op] = 0
  PROVE  Sound(Count(t))
<1> DEFINE c == Count(t)
<1>1. t \in TextRecords /\ t.op \in TextOps /\ t.provider \in TextProvidersUsed
  BY DEF Sound, TextRecords
<1>2. /\ c \in TextRecords
      /\ \A o \in TextOps, p \in TextProvidersUsed :
            c.asked[o][p] = IF o = t.op /\ p = t.provider THEN t.asked[o][p] + 1 ELSE t.asked[o][p]
      /\ c.kind = t.kind /\ c.op = t.op /\ c.provider = t.provider /\ c.from = t.from /\ c.model = t.model
      /\ c.quota = t.quota /\ c.credit = t.credit /\ c.texts = t.texts /\ c.scenes = t.scenes
  BY <1>1, Counted
<1> HIDE DEF c
<1>3. \A o \in TextOps : AsksOf(o) \in Int
  BY TextAssumption DEF AsksOf, TextAssumption
<1>4. \A o \in TextOps, p \in TextProvidersUsed : t.asked[o][p] \in Nat /\ t.quota[o] \in Nat
  BY <1>1 DEF TextRecords
<1>5. \A o \in TextOps, p \in TextProvidersUsed : c.asked[o][p] <= AsksOf(o)
  BY <1>1, <1>2, <1>3, <1>4 DEF Sound
<1>6. \A o \in TextOps, p \in TextProvidersUsed : Stage(o, p) > Stage(c.op, c.provider) => c.asked[o][p] = 0
  <2>1. ~(Stage(t.op, t.provider) > Stage(t.op, t.provider))
    BY <1>1 DEF Stage
  <2> QED BY <1>2, <2>1 DEF Sound
<1>g. "gemini" \in TextProvidersUsed /\ "anthropic" \in TextProvidersUsed
  BY DEF TextProvidersUsed
<1>7. \A o \in TextOps : c.from = "anthropic" /\ c.asked[o]["gemini"] > 0 => c.credit
  BY <1>1, <1>2, <1>g DEF Sound
<1>8. \A o \in TextOps : c.quota[o] # 0 => c.asked[o]["gemini"] = c.quota[o]
  BY <1>1, <1>2, <1>g DEF Sound
<1>9. LoopedReply(c) <=> LoopedReply(t)
  BY <1>2 DEF LoopedReply
<1> QED BY <1>2, <1>5, <1>6, <1>7, <1>8, <1>9 DEF Sound, c

\* Keeping a text other than the plan, and keeping a plan of one or six to eight scenes.
LEMMA KeptSound ==
  ASSUME NEW t, Sound(t)
  PROVE  /\ t.op # "plan" => Sound(Kept(t))
         /\ \A n \in {1} \cup 6..8 : t.op = "plan" => Sound([Kept(t) EXCEPT !.scenes = n])
<1> DEFINE k == Kept(t)
<1>1. t \in TextRecords /\ "plan" \in TextOps
  BY DEF Sound, TextRecords, TextOps
<1>2. /\ k \in TextRecords /\ k.texts[t.op] = t.provider /\ \A o \in TextOps \ {t.op} : k.texts[o] = t.texts[o]
      /\ k.kind = t.kind /\ k.op = t.op /\ k.provider = t.provider /\ k.from = t.from /\ k.model = t.model
      /\ k.quota = t.quota /\ k.credit = t.credit /\ k.asked = t.asked /\ k.scenes = t.scenes
  BY <1>1, TextKept
<1> HIDE DEF k
<1>3. t.op # "plan" => Sound(k)
  BY <1>1, <1>2 DEF Sound, LoopedReply
<1>4. ASSUME NEW n \in {1} \cup 6..8, t.op = "plan" PROVE Sound([k EXCEPT !.scenes = n])
  <2> DEFINE e == [k EXCEPT !.scenes = n]
  <2>1. /\ e \in TextRecords /\ e.texts = k.texts /\ e.scenes = n
        /\ e.kind = t.kind /\ e.op = t.op /\ e.provider = t.provider /\ e.from = t.from /\ e.model = t.model
        /\ e.quota = t.quota /\ e.credit = t.credit /\ e.asked = t.asked
    <3>1. n \in 0..8
      OBVIOUS
    <3>2. e \in TextRecords
      BY <1>2, <3>1 DEF TextRecords
    <3> QED BY <1>2, <3>2 DEF TextRecords
  <2> HIDE DEF e
  <2>2. Sound(e)
    BY <1>4, <2>1 DEF Sound, LoopedReply
  <2> QED BY <2>2 DEF e
<1> QED BY <1>3, <1>4 DEF k

\* A request that ends as it is, perhaps with the scenes of a template.
LEMMA Ended ==
  ASSUME NEW t, Sound(t), t.try \in 1..(IF Tries > 2 THEN Tries ELSE 2),
         NEW result \in {"ok", "static", "synthetic", "failed"},
         t.kind = "draft" /\ result = "ok" => t.texts["plan"] = t.texts["caption"]
  PROVE  /\ Fits([t EXCEPT !.result = result])
         /\ result # "ok" => Fits([t EXCEPT !.result = result, !.scenes = t.wanted])
<1>1. t \in TextRecords /\ t.wanted \in {1, 7}
  BY DEF Sound, TextRecords
<1>2. ASSUME NEW e, \/ e = [t EXCEPT !.result = result]
                    \/ e = [t EXCEPT !.result = result, !.scenes = t.wanted]
      PROVE  Fits(e)
  <2>1. /\ e \in TextRecords /\ e.texts = t.texts /\ e.scenes \in {t.scenes, t.wanted} /\ e.result = result
        /\ e.kind = t.kind /\ e.op = t.op /\ e.provider = t.provider /\ e.from = t.from /\ e.model = t.model
        /\ e.quota = t.quota /\ e.credit = t.credit /\ e.asked = t.asked /\ e.try = t.try
    <3>1. t.scenes \in 0..8 /\ t.wanted \in 0..8 /\ result \in {"none", "ok", "static", "synthetic", "failed"}
      BY <1>1 DEF TextRecords
    <3>2. CASE e = [t EXCEPT !.result = result]
      <4>1. e \in TextRecords
        BY <1>1, <3>1, <3>2 DEF TextRecords
      <4> QED BY <1>1, <3>2, <4>1 DEF TextRecords
    <3>3. CASE e = [t EXCEPT !.result = result, !.scenes = t.wanted]
      <4>1. e \in TextRecords
        BY <1>1, <3>1, <3>3 DEF TextRecords
      <4> QED BY <1>1, <3>3, <4>1 DEF TextRecords
    <3> QED BY <1>2, <3>2, <3>3
  <2>2. Sound(e)
    <3>1. e.texts["plan"] # "none" => e.scenes \in {1} \cup 6..8
      BY <1>1, <2>1 DEF Sound
    <3> QED BY <2>1, <3>1 DEF Sound, LoopedReply
  <2>3. Over(e)
    BY <2>1 DEF Over
  <2> QED BY <2>1, <2>2, <2>3 DEF Fits
<1> QED BY <1>2

\* The number of the try, and of the model, is no part of what is always true.
Tried(t, n, m) == [t EXCEPT !.try = n, !.model = m]

\* Another try, or the next model of a reply, changes nothing else.
LEMMA TrySet ==
  ASSUME NEW t, Sound(t), NEW n \in Nat, NEW m \in 1..NumModels, m = t.model \/ LoopedReply(t)
  PROVE  /\ Sound(Tried(t, n, m)) /\ Tried(t, n, m).try = n /\ Tried(t, n, m).model = m
         /\ Tried(t, n, m).op = t.op /\ Tried(t, n, m).provider = t.provider
         /\ Tried(t, n, m).asked = t.asked /\ Tried(t, n, m).quota = t.quota
         /\ Tried(t, n, m).result = t.result
<1> DEFINE e == Tried(t, n, m)
<1>1. t \in TextRecords
  BY DEF Sound
<1>2. e \in TextRecords
  BY <1>1 DEF TextRecords, Tried
<1>3. /\ e.try = n /\ e.model = m /\ e.texts = t.texts /\ e.scenes = t.scenes /\ e.result = t.result
      /\ e.kind = t.kind /\ e.op = t.op /\ e.provider = t.provider /\ e.from = t.from
      /\ e.quota = t.quota /\ e.credit = t.credit /\ e.asked = t.asked
  BY <1>1 DEF TextRecords, Tried
<1> HIDE DEF e
<1>4. Sound(e)
  BY <1>2, <1>3 DEF Sound, LoopedReply
<1> QED BY <1>3, <1>4 DEF e

\* What a refusal leaves behind: the balance is known to be exhausted, or the quota.
LEMMA RefusalSound ==
  ASSUME NEW c, Sound(c), NEW a \in {"transient", "malformed", "credit", "rate", "quota"}
  PROVE  LET e == Refused(c, a)
         IN  /\ Sound(e) /\ (a = "credit" => e.credit)
             /\ e.try = c.try /\ e.model = c.model /\ e.texts = c.texts /\ e.scenes = c.scenes
             /\ e.result = c.result /\ e.kind = c.kind /\ e.op = c.op /\ e.provider = c.provider
             /\ e.from = c.from /\ e.asked = c.asked /\ e.wanted = c.wanted /\ e.gemini = c.gemini
<1> DEFINE q == [c.quota EXCEPT ![c.op] = IF a = "quota" THEN c.asked[c.op]["gemini"] ELSE @]
           credit == c.credit \/ a = "credit"
           e == Refused(c, a)
<1>1. c \in TextRecords /\ c.op \in TextOps /\ c.quota \in [TextOps -> Nat] /\ c.credit \in BOOLEAN
      /\ "gemini" \in TextProvidersUsed /\ c.asked[c.op]["gemini"] \in Nat
  BY DEF Sound, TextRecords, TextProvidersUsed
<1>2. /\ q \in [TextOps -> Nat]
      /\ \A o \in TextOps : q[o] \in {c.quota[o], c.asked[o]["gemini"]}
  BY <1>1
<1>3. e = [c EXCEPT !.credit = credit, !.quota = q]
  BY <1>1 DEF Refused, TextRecords
<1>4. credit \in BOOLEAN /\ (c.credit => credit) /\ (a = "credit" => credit)
  BY <1>1
<1> HIDE DEF q, credit, e
<1>5. e \in TextRecords
  BY <1>1, <1>2, <1>3, <1>4 DEF TextRecords
<1>6. /\ e.try = c.try /\ e.model = c.model /\ e.texts = c.texts /\ e.scenes = c.scenes
      /\ e.result = c.result /\ e.kind = c.kind /\ e.op = c.op /\ e.provider = c.provider
      /\ e.from = c.from /\ e.asked = c.asked /\ e.wanted = c.wanted /\ e.gemini = c.gemini
      /\ e.credit = credit /\ e.quota = q
  BY <1>1, <1>3 DEF TextRecords
<1>7. \A o \in TextOps : e.quota[o] # 0 => e.asked[o]["gemini"] = e.quota[o]
  BY <1>2, <1>6 DEF Sound
<1>8. Sound(e)
  BY <1>4, <1>5, <1>6, <1>7 DEF Sound, LoopedReply
<1> QED BY <1>4, <1>6, <1>8 DEF e

-----------------------------------------------------------------------------
\* What is asked may be asked once more.
LEMMA AskedAnew ==
  ASSUME TextInduction, Working, ~LoopedReply(text)
  PROVE  /\ Sound(text) /\ text.try \in 1..Tries
         /\ Sound(Count(text)) /\ Count(text).asked[text.op][text.provider] = text.try
         /\ text.op \in TextOps /\ text.provider \in TextProvidersUsed /\ text \in TextRecords
         /\ text.try \in 1..(IF Tries > 2 THEN Tries ELSE 2)
         /\ text.provider = "gemini" => text.quota[text.op] = 0
<1>1. Sound(text) /\ Ready(text)
  BY DEF TextInduction, Fits, Working
<1>2. text \in TextRecords /\ text.op \in TextOps /\ text.provider \in TextProvidersUsed
  BY <1>1 DEF Sound, TextRecords
<1>3. /\ text.try \in 1..Tries /\ text.asked[text.op][text.provider] = text.try - 1
      /\ text.provider = "gemini" => text.quota[text.op] = 0
  BY <1>1 DEF Ready
<1>4. Tries \in Nat /\ NumModels \in Nat /\ NumModels >= 1
  BY TextAssumption DEF TextAssumption
<1>5. text.asked[text.op][text.provider] < AsksOf(text.op)
  <2>1. CASE text.op = "reply"
    <3>1. text.try = 1 /\ AsksOf(text.op) = 3 * NumModels
      BY <1>1, <2>1 DEF Ready, AsksOf
    <3> QED BY <1>3, <1>4, <3>1
  <2>2. CASE text.op # "reply"
    BY <1>3, <1>4, <2>2 DEF AsksOf
  <2> QED BY <2>1, <2>2
<1>6. Sound(Count(text))
  BY <1>1, <1>3, <1>5, CountSound
<1>7. Count(text).asked[text.op][text.provider] = text.try
  BY <1>2, <1>3, <1>4, Counted
<1> QED BY <1>1, <1>2, <1>3, <1>4, <1>6, <1>7

\* A refusal that is tried again.
LEMMA AskAgainInduction == ASSUME TextInduction, AskAgain PROVE TextInduction'
<1>1. Working /\ ~LoopedReply(text) /\ text.try < Tries
  BY DEF AskAgain, LoopedReply
<1>2. PICK a \in Answers(text.provider) :
         /\ Retried(text.op, text.provider, a)
         /\ text' = NextTry(text, a)
  BY DEF AskAgain
<1>3. a # "quota" /\ text.op # "reply"
  <2>1. text.provider \in {"anthropic", "gemini"}
    BY <1>1, AskedAnew DEF TextProvidersUsed
  <2> QED BY <1>1, <1>2, <2>1 DEF Retried, LoopedReply
<1> DEFINE c == Count(text)
<1>4. /\ c.try = text.try /\ c.op = text.op /\ c.provider = text.provider /\ c.model = text.model
      /\ c.quota = text.quota /\ c.result = text.result /\ c \in TextRecords
  BY <1>1, AskedAnew, Counted
<1>5. text' = [c EXCEPT !.try = text.try + 1]
  <2>1. text' = [c EXCEPT !.try = c.try + 1]
    BY <1>2, <1>3 DEF NextTry
  <2> QED BY <1>4, <2>1
<1>6. Sound(c) /\ c.asked[c.op][c.provider] = text.try /\ text.try \in 1..Tries /\ Tries \in Nat
      /\ (text.provider = "gemini" => text.quota[text.op] = 0)
  BY <1>1, <1>4, AskedAnew, TextAssumption DEF TextAssumption
<1> HIDE DEF c
<1>7. text.try + 1 \in Nat /\ c.model \in 1..NumModels
  BY <1>4, <1>6 DEF TextRecords
<1>8. text' = Tried(c, text.try + 1, c.model)
  BY <1>4, <1>5 DEF TextRecords, Tried
<1>9. /\ Sound(text') /\ text'.try = text.try + 1
      /\ text'.op = c.op /\ text'.provider = c.provider /\ text'.asked = c.asked /\ text'.quota = c.quota
      /\ text'.result = c.result
  BY <1>4, <1>6, <1>7, <1>8, TrySet
<1>10. text'.try \in 1..Tries /\ text'.asked[text'.op][text'.provider] = text'.try - 1
  BY <1>1, <1>6, <1>9
<1>11. ~LoopedReply(text') /\ text'.op # "reply"
  BY <1>1, <1>3, <1>4, <1>9 DEF LoopedReply
<1>12. text'.provider = "gemini" => text'.quota[text'.op] = 0
  BY <1>4, <1>6, <1>9
<1>13. Ready(text')
  BY <1>10, <1>11, <1>12 DEF Ready
<1>14. text'.result = "none"
  BY <1>1, <1>4, <1>9 DEF Working
<1> QED BY <1>9, <1>13, <1>14 DEF TextInduction, Fits

\* An answer of the model.
LEMMA AnsweredInduction == ASSUME TextInduction, Answered PROVE TextInduction'
<1>1. Working /\ ~LoopedReply(text)
  BY DEF Answered, LoopedReply
<1> DEFINE c == Count(text)
           k == Kept(c)
<1>2. /\ c \in TextRecords /\ c.try = text.try /\ c.op = text.op /\ c.provider = text.provider /\ c.model = text.model
      /\ c.result = "none" /\ c.kind = text.kind /\ c.from = text.from /\ c.texts = text.texts /\ c.wanted = text.wanted
  BY <1>1, AskedAnew, Counted DEF Working
<1>3. Sound(c) /\ c.try \in 1..(IF Tries > 2 THEN Tries ELSE 2)
  BY <1>1, <1>2, AskedAnew
<1>4. /\ k \in TextRecords /\ k.texts[c.op] = c.provider /\ k.op = c.op /\ k.provider = c.provider /\ k.kind = c.kind
      /\ k.try = c.try /\ k.result = c.result /\ k.from = c.from /\ k.credit = c.credit /\ k.wanted = c.wanted
      /\ \A o \in TextOps \ {c.op} : k.texts[o] = c.texts[o]
  BY <1>2, TextKept
<1>5. k.op # "plan" => Sound(k)
  BY <1>3, <1>4, KeptSound
<1>6. \A n \in {1} \cup 6..8 : k.op = "plan" => Sound([k EXCEPT !.scenes = n])
  BY <1>3, <1>4, KeptSound
<1>7. /\ k.op = "persona" => text' = Go(k, "plan", k.from)
      /\ k.op = "plan" => \E n \in PlanSizes(k.wanted) :
                             text' = IF k.kind = "draft" THEN [Go(k, "caption", k.provider) EXCEPT !.scenes = n]
                                                         ELSE [k EXCEPT !.scenes = n, !.result = "ok"]
      /\ k.op \notin {"persona", "plan"} => text' = [k EXCEPT !.result = "ok"]
  BY DEF Answered
<1>8. ~LoopedReply(k) /\ k.op \in TextOps /\ k.provider \in TextProvidersUsed /\ k.from \in TextProvidersUsed
  BY <1>1, <1>2, <1>4 DEF LoopedReply, TextRecords
<1>o. /\ "persona" \in TextOps /\ "plan" \in TextOps /\ "caption" \in TextOps
      /\ TextProvidersUsed = {"anthropic", "gemini"}
  BY DEF TextOps, TextProvidersUsed
<1> HIDE DEF c, k
<1>9. CASE k.op = "persona"
  <2>1. Sound(k) /\ text' = Go(k, "plan", k.from) /\ k.kind = "draft"
    BY <1>5, <1>7, <1>9 DEF Sound
  <2>2. Stage("plan", k.from) > Stage(k.op, k.provider)
    BY <1>8, <1>9, <1>o DEF Stage
  <2>3. k.from = "anthropic" => k.from # "gemini"
    OBVIOUS
  <2>4. Fits(Go(k, "plan", k.from))
    BY <1>2, <1>4, <1>8, <1>o, <2>1, <2>2, <2>3, Turned
  <2> QED BY <2>1, <2>4 DEF TextInduction
<1>10. CASE k.op = "plan"
  <2>1. PICK n \in PlanSizes(k.wanted) :
           text' = IF k.kind = "draft" THEN [Go(k, "caption", k.provider) EXCEPT !.scenes = n]
                                       ELSE [k EXCEPT !.scenes = n, !.result = "ok"]
    BY <1>7, <1>10
  <2>2. n \in {1} \cup 6..8 /\ n \in Nat
    BY DEF PlanSizes
  <2> DEFINE e == [k EXCEPT !.scenes = n]
  <2>3. Sound(e)
    BY <1>6, <1>10, <2>2
  <2>4. /\ e.texts = k.texts /\ e.op = k.op /\ e.provider = k.provider /\ e.kind = k.kind /\ e.try = k.try
        /\ e.result = k.result /\ e.from = k.from /\ e.credit = k.credit /\ e.scenes = n
    BY <1>4 DEF TextRecords
  <2>5. CASE k.kind = "draft"
    <3>1. text' = Go(e, "caption", k.provider)
      BY <1>4, <2>1, <2>5 DEF Go, TextRecords
    <3> HIDE DEF e
    <3>2. Stage("caption", e.provider) > Stage(e.op, e.provider)
      BY <1>8, <1>10, <1>o, <2>4 DEF Stage
    <3>3. ~LoopedReply(e) /\ e.op = "plan" /\ e.texts["plan"] = e.provider /\ e.result = "none"
      BY <1>2, <1>4, <1>8, <1>10, <2>4 DEF LoopedReply
    <3>4. /\ e.from = "gemini" => e.provider = "gemini"
          /\ e.from = "anthropic" /\ e.provider = "gemini" => e.credit
      BY <2>3 DEF Sound
    <3>5. Fits(Go(e, "caption", e.provider))
      BY <1>8, <1>o, <2>3, <2>4, <3>2, <3>3, <3>4, Turned
    <3> QED BY <2>4, <3>1, <3>5 DEF TextInduction
  <2>6. CASE k.kind # "draft"
    <3>1. text' = [e EXCEPT !.result = "ok"]
      BY <1>4, <2>1, <2>6 DEF TextRecords
    <3> HIDE DEF e
    <3>2. Fits([e EXCEPT !.result = "ok"])
      BY <1>3, <1>4, <2>3, <2>4, <2>6, Ended
    <3> QED BY <3>1, <3>2 DEF TextInduction
  <2> QED BY <2>5, <2>6
<1>11. CASE k.op \notin {"persona", "plan"}
  <2>1. Sound(k) /\ text' = [k EXCEPT !.result = "ok"]
    BY <1>5, <1>7, <1>11
  <2>2. k.kind = "draft" => k.texts["plan"] = k.texts["caption"]
    <3>1. k.kind = "draft" => k.op = "caption" /\ k.texts["plan"] = k.provider
      BY <1>11, <2>1 DEF Sound
    <3> QED BY <1>4, <3>1
  <2>3. Fits([k EXCEPT !.result = "ok"])
    BY <1>3, <1>4, <2>1, <2>2, Ended
  <2> QED BY <2>1, <2>3 DEF TextInduction
<1> QED BY <1>9, <1>10, <1>11

\* A refusal that is not tried again.
LEMMA FailedInduction == ASSUME TextInduction, Failed PROVE TextInduction'
<1>1. Working /\ ~LoopedReply(text)
  BY DEF Failed, LoopedReply
<1> DEFINE c == Count(text)
<1>2. PICK a \in Answers(text.provider) :
         text' = IF FallsBack(Refused(c, a), a) THEN FallBack(Refused(c, a)) ELSE GiveUp(Refused(c, a), a)
  BY DEF Failed
<1>3. a \in {"transient", "malformed", "credit", "rate", "quota"}
  BY <1>2 DEF Answers
<1>4. /\ c \in TextRecords /\ c.try = text.try /\ c.op = text.op /\ c.provider = text.provider
      /\ c.result = "none" /\ Sound(c) /\ c.try \in 1..(IF Tries > 2 THEN Tries ELSE 2)
  BY <1>1, AskedAnew, Counted DEF Working
<1> DEFINE t == Refused(c, a)
<1> HIDE DEF c
<1>5. /\ Sound(t) /\ (a = "credit" => t.credit) /\ t.try = c.try /\ t.result = c.result
      /\ t.op = c.op /\ t.provider = c.provider
  BY <1>3, <1>4, RefusalSound
<1>6. text' = IF FallsBack(t, a) THEN FallBack(t) ELSE GiveUp(t, a)
  BY <1>2
<1> HIDE DEF t
<1>7. ~LoopedReply(t) /\ t.op \in TextOps /\ t.provider \in TextProvidersUsed /\ t.from \in TextProvidersUsed
  BY <1>1, <1>4, <1>5 DEF LoopedReply, Sound, TextRecords
<1>o. /\ "persona" \in TextOps /\ "plan" \in TextOps /\ "caption" \in TextOps
      /\ TextProvidersUsed = {"anthropic", "gemini"}
  BY DEF TextOps, TextProvidersUsed
<1>8. CASE FallsBack(t, a)
  <2>1. t.provider = "anthropic" /\ a = "credit" /\ text' = FallBack(t)
    BY <1>6, <1>8 DEF FallsBack
  <2> DEFINE op == IF t.kind = "draft" /\ t.op = "caption" THEN "plan" ELSE t.op
  <2>2. op \in TextOps /\ Stage(op, "gemini") > Stage(t.op, t.provider)
    BY <1>7, <1>o, <2>1 DEF Stage
  <2>3. /\ t.kind = "draft" => op \in {"persona", "plan", "caption"}
        /\ t.kind = "draft" \/ op # "persona"
        /\ ~(t.kind = "draft" /\ op = "caption")
    BY <1>5 DEF Sound
  <2>4. text' = Go(t, op, "gemini")
    BY <2>1 DEF FallBack
  <2> HIDE DEF op
  <2>5. Fits(Go(t, op, "gemini"))
    BY <1>4, <1>5, <1>7, <1>o, <2>1, <2>2, <2>3, Turned
  <2> QED BY <2>4, <2>5 DEF TextInduction
<1>9. CASE ~FallsBack(t, a)
  <2>1. text' = GiveUp(t, a)
    BY <1>6, <1>9
  <2>2. CASE t.op = "persona" /\ t.from = "gemini"
    <3>2. t.provider = "gemini" /\ t.kind = "draft"
      BY <1>5, <2>2 DEF Sound
    <3>1. GiveUp(t, a) = Go(t, "plan", "gemini")
      BY <2>2, <3>2 DEF GiveUp, Synthetic
    <3>3. Stage("plan", "gemini") > Stage(t.op, t.provider)
      BY <2>2, <3>2 DEF Stage
    <3>4. t.from # "anthropic"
      BY <2>2
    <3>5. Fits(Go(t, "plan", "gemini"))
      BY <1>4, <1>5, <1>7, <1>o, <3>2, <3>3, <3>4, Turned
    <3> QED BY <2>1, <3>1, <3>5 DEF TextInduction
  <2>3. CASE ~(t.op = "persona" /\ t.from = "gemini")
    <3>1. \/ GiveUp(t, a) = [t EXCEPT !.result = "static"]
          \/ GiveUp(t, a) = [t EXCEPT !.result = "synthetic", !.scenes = t.wanted]
          \/ GiveUp(t, a) = [t EXCEPT !.result = "failed"]
      BY <2>3 DEF GiveUp
    <3>2. /\ Fits([t EXCEPT !.result = "static"]) /\ Fits([t EXCEPT !.result = "failed"])
          /\ Fits([t EXCEPT !.result = "synthetic", !.scenes = t.wanted])
      BY <1>4, <1>5, Ended
    <3> QED BY <2>1, <3>1, <3>2 DEF TextInduction
  <2> QED BY <2>2, <2>3
<1> QED BY <1>8, <1>9

-----------------------------------------------------------------------------
\* What a worker of Gemini's replies does with an answer.
LEMMA ReplyGoesOn ==
  ASSUME NEW t, Sound(t), LoopedReply(t), t.result = "none", t.try \in {1, 2}, t.quota["reply"] = 0,
         t.asked["reply"]["gemini"] <= 3 * t.model
  PROVE  /\ Fits([Kept(t) EXCEPT !.result = "ok"])
         /\ Fits(NextModel(t))
         /\ t.asked["reply"]["gemini"] <= 3 * (t.model - 1) + 2 => Fits([t EXCEPT !.try = 2])
<1>1. /\ t \in TextRecords /\ t.op = "reply" /\ t.provider = "gemini" /\ t.kind # "draft" /\ t.model \in 1..NumModels
      /\ NumModels \in Nat /\ t.model \in Nat /\ t.model >= 1 /\ t.asked["reply"]["gemini"] \in Nat
  BY TextAssumption DEF Sound, TextRecords, LoopedReply, TextAssumption, TextOps, TextProvidersUsed
<1>2. t.try \in 1..(IF Tries > 2 THEN Tries ELSE 2)
  BY TextAssumption DEF TextAssumption
<1>3. Fits([Kept(t) EXCEPT !.result = "ok"])
  <2>1. Sound(Kept(t)) /\ Kept(t).try = t.try /\ Kept(t).kind = t.kind
    BY <1>1, KeptSound, TextKept
  <2> DEFINE k == Kept(t)
  <2> HIDE DEF k
  <2>2. Sound(k) /\ k.try \in 1..(IF Tries > 2 THEN Tries ELSE 2) /\ k.kind # "draft"
    BY <1>1, <1>2, <2>1 DEF k
  <2>3. Fits([k EXCEPT !.result = "ok"])
    BY <2>2, Ended
  <2> QED BY <2>3 DEF k
<1>4. ASSUME NEW n \in {1, 2}, NEW m \in 1..NumModels,
             t.asked["reply"]["gemini"] <= 3 * (m - 1) + (IF n = 1 THEN 0 ELSE 2)
      PROVE  Fits(Tried(t, n, m))
  <2> DEFINE e == Tried(t, n, m)
  <2>1. /\ Sound(e) /\ e.try = n /\ e.model = m /\ e.op = t.op /\ e.provider = t.provider
        /\ e.asked = t.asked /\ e.quota = t.quota /\ e.result = t.result
    BY TrySet
  <2> HIDE DEF e
  <2>2. LoopedReply(e) /\ e.quota[e.op] = 0
    BY <1>1, <2>1 DEF LoopedReply
  <2>3. Ready(e)
    BY <1>4, <2>1, <2>2 DEF Ready
  <2> QED BY <2>1, <2>3 DEF Fits, e
<1>5. Fits(NextModel(t))
  <2>1. CASE t.model < NumModels
    <3>1. NextModel(t) = Tried(t, 1, t.model + 1)
      BY <1>1, <2>1 DEF NextModel, Tried, TextRecords
    <3>2. t.model + 1 \in 1..NumModels /\ t.asked["reply"]["gemini"] <= 3 * ((t.model + 1) - 1) + 0
      BY <1>1, <2>1
    <3> QED BY <1>4, <3>1, <3>2
  <2>2. CASE ~(t.model < NumModels)
    <3>1. NextModel(t) = [t EXCEPT !.result = "failed"]
      BY <2>2 DEF NextModel
    <3> QED BY <1>1, <1>2, <3>1, Ended
  <2> QED BY <2>1, <2>2
<1>6. t.asked["reply"]["gemini"] <= 3 * (t.model - 1) + 2 => Fits([t EXCEPT !.try = 2])
  <2>1. [t EXCEPT !.try = 2] = Tried(t, 2, t.model)
    BY <1>1 DEF Tried, TextRecords
  <2> QED BY <1>1, <1>4, <2>1
<1> QED BY <1>3, <1>5, <1>6

\* The steps of a reply of Gemini, which loops over its models.
LEMMA ReplyInduction ==
  ASSUME TextInduction, ReplyTruncated \/ ReplyPlain \/ Reply \/ ReplyFailed
  PROVE  TextInduction'
<1> DEFINE c == Count(text)
           cc == Count(Count(text))
<1>1. Replying /\ Sound(text) /\ Ready(text) /\ LoopedReply(text) /\ text.result = "none"
  BY DEF ReplyTruncated, ReplyPlain, Reply, ReplyFailed, Replying, Working, TextInduction, Fits, LoopedReply
<1>2. /\ text \in TextRecords /\ text.op = "reply" /\ text.provider = "gemini" /\ text.model \in 1..NumModels
      /\ NumModels \in Nat /\ text.model \in Nat /\ text.model >= 1 /\ text.try \in {1, 2}
      /\ text.quota["reply"] = 0 /\ text.asked["reply"]["gemini"] \in Nat
      /\ text.asked["reply"]["gemini"] <= 3 * (text.model - 1) + (IF text.try = 1 THEN 0 ELSE 2)
      /\ AsksOf("reply") = 3 * NumModels /\ "reply" \in TextOps /\ "gemini" \in TextProvidersUsed
  BY <1>1, TextAssumption
     DEF Sound, Ready, TextRecords, LoopedReply, TextAssumption, TextOps, TextProvidersUsed, AsksOf
<1>3. /\ Sound(c) /\ LoopedReply(c) /\ c.result = "none" /\ c.try = text.try /\ c.quota["reply"] = 0
      /\ c.op = "reply" /\ c.provider = "gemini" /\ c.model = text.model /\ c \in TextRecords
      /\ c.asked["reply"]["gemini"] = text.asked["reply"]["gemini"] + 1
  <2>1. Sound(c)
    BY <1>1, <1>2, CountSound
  <2> QED BY <1>1, <1>2, <2>1, Counted DEF LoopedReply
<1>4. /\ Fits([Kept(c) EXCEPT !.result = "ok"]) /\ Fits(NextModel(c))
      /\ text.try = 1 => Fits([c EXCEPT !.try = 2])
  <2>1. c.try \in {1, 2} /\ c.asked["reply"]["gemini"] <= 3 * c.model
    BY <1>2, <1>3
  <2>2. text.try = 1 => c.asked["reply"]["gemini"] <= 3 * (c.model - 1) + 2
    BY <1>2, <1>3
  <2> HIDE DEF c
  <2> QED BY <1>3, <2>1, <2>2, ReplyGoesOn
<1>5. text.try = 1 => /\ Fits([Kept(cc) EXCEPT !.result = "ok"]) /\ Fits(NextModel(cc))
                      /\ Fits([cc EXCEPT !.try = 2])
  <2> SUFFICES ASSUME text.try = 1
               PROVE  /\ Fits([Kept(cc) EXCEPT !.result = "ok"]) /\ Fits(NextModel(cc))
                      /\ Fits([cc EXCEPT !.try = 2])
    OBVIOUS
  <2>1. Sound(Count(c))
    <3>1. c.asked["reply"]["gemini"] < AsksOf("reply")
      BY <1>2, <1>3
    <3> HIDE DEF c
    <3> QED BY <1>3, <3>1, CountSound
  <2>2. /\ Sound(cc) /\ LoopedReply(cc) /\ cc.result = "none" /\ cc.try = text.try /\ cc.quota["reply"] = 0
        /\ cc.model = text.model
        /\ cc.asked["reply"]["gemini"] = text.asked["reply"]["gemini"] + 2
    <3>1. cc = Count(c)
      OBVIOUS
    <3> HIDE DEF c, cc
    <3>2. cc.asked["reply"]["gemini"] = c.asked["reply"]["gemini"] + 1
      BY <1>2, <1>3, <3>1, Counted
    <3> QED BY <1>2, <1>3, <2>1, <3>1, <3>2, Counted DEF LoopedReply
  <2>3. cc.try \in {1, 2} /\ cc.asked["reply"]["gemini"] <= 3 * cc.model
        /\ cc.asked["reply"]["gemini"] <= 3 * (cc.model - 1) + 2
    BY <1>2, <2>2
  <2> HIDE DEF cc
  <2> QED BY <2>2, <2>3, ReplyGoesOn
<1>6. CASE ReplyTruncated
  BY <1>4, <1>6 DEF ReplyTruncated, TextInduction
<1>7. CASE ReplyPlain
  <2>1. text.try = 1 /\ text' \in {[cc EXCEPT !.try = 2], [Kept(cc) EXCEPT !.result = "ok"]}
    BY <1>7 DEF ReplyPlain
  <2> QED BY <1>5, <2>1 DEF TextInduction
<1>8. CASE Reply
  BY <1>4, <1>8 DEF Reply, TextInduction
<1>9. CASE ReplyFailed
  <2>1. text' = NextModel(c) \/ (text.try = 1 /\ text' = NextModel(cc))
    BY <1>9 DEF ReplyFailed
  <2> QED BY <1>4, <1>5, <2>1 DEF TextInduction
<1> QED BY <1>6, <1>7, <1>8, <1>9

\* Every request for texts: it asks no model more often than it may, turns to the other provider only
\* when the balance is exhausted, and a draft's plan and caption are one model's.
THEOREM TextsKept == TextSpec => []TextInvariant
<1> USE TextAssumption DEF TextAssumption
<1>1. TextInit => TextInduction
  <2> SUFFICES ASSUME TextInit PROVE TextInduction
    OBVIOUS
  <2>1. PICK kind \in TextKinds, from \in TextProvidersUsed, gemini, synthetic \in BOOLEAN, wanted \in {1, 7} :
        \E op \in FirstOps(kind) :
           /\ from = "gemini" => gemini
           /\ op = "persona" => wanted = 1
           /\ text = [kind |-> kind, op |-> op, provider |-> from, from |-> from, gemini |-> gemini,
                      synthetic |-> synthetic, wanted |-> wanted, try |-> 1, model |-> 1,
                      asked |-> [o \in TextOps |-> [p \in TextProvidersUsed |-> 0]],
                      quota |-> [o \in TextOps |-> 0], credit |-> FALSE,
                      texts |-> NoText, scenes |-> 0, result |-> "none"]
    BY DEF TextInit
  <2>2. PICK op \in FirstOps(kind) :
           text = [kind |-> kind, op |-> op, provider |-> from, from |-> from, gemini |-> gemini,
                      synthetic |-> synthetic, wanted |-> wanted, try |-> 1, model |-> 1,
                      asked |-> [o \in TextOps |-> [p \in TextProvidersUsed |-> 0]],
                      quota |-> [o \in TextOps |-> 0], credit |-> FALSE,
                      texts |-> NoText, scenes |-> 0, result |-> "none"]
    BY <2>1
  <2>3. kind \in {"draft", "preview", "caption", "topics", "reply"}
    BY <2>1
  <2>4. /\ op \in TextOps /\ (kind = "draft" \/ op # "persona")
        /\ kind = "draft" => op \in {"persona", "plan"}
    BY <2>2, <2>3 DEF FirstOps, TextOps
  <2>5. NoText \in [TextOps -> TextProvidersUsed \cup {"none"}] /\ NoText["plan"] = "none"
    BY DEF NoText, TextOps
  <2>6. 1 \in 1..NumModels /\ 1 \in 1..Tries
    OBVIOUS
  <2>7. text \in TextRecords
    BY <2>1, <2>2, <2>4, <2>5, <2>6 DEF TextRecords
  <2>8. /\ text.kind = kind /\ text.op = op /\ text.provider = from /\ text.from = from /\ text.try = 1
        /\ text.model = 1 /\ text.texts = NoText /\ text.result = "none"
        /\ \A o \in TextOps, p \in TextProvidersUsed : text.asked[o][p] = 0
        /\ \A o \in TextOps : text.quota[o] = 0
        /\ text.asked[op][from] = 0 /\ text.asked["reply"]["gemini"] = 0
    BY <2>1, <2>2, <2>4 DEF TextOps, TextProvidersUsed
  <2>9. \A o \in TextOps : AsksOf(o) \in Nat /\ ~(text.asked[o]["gemini"] > 0)
    BY <2>8 DEF AsksOf, TextProvidersUsed
  <2>10. Sound(text)
    BY <2>1, <2>4, <2>5, <2>7, <2>8, <2>9 DEF Sound
  <2>11. Ready(text)
    BY <2>4, <2>6, <2>8 DEF Ready
  <2> QED BY <2>8, <2>10, <2>11 DEF TextInduction, Fits
<1>2. TextInduction /\ [TextNext]_textVars => TextInduction'
  <2> SUFFICES ASSUME TextInduction, [TextNext]_textVars PROVE TextInduction'
    OBVIOUS
  <2>1. CASE TextNext
    BY <2>1, AskAgainInduction, AnsweredInduction, FailedInduction, ReplyInduction DEF TextNext
  <2>2. CASE UNCHANGED textVars
    BY <2>2 DEF textVars, TextInduction
  <2> QED BY <2>1, <2>2
<1>3. TextInduction => TextInvariant
  <2> SUFFICES ASSUME TextInduction PROVE TextInvariant
    OBVIOUS
  <2>1. Sound(text) /\ text \in TextRecords /\ text.op \in TextOps /\ text.result \in {"none", "ok", "static", "synthetic", "failed"}
    BY DEF TextInduction, Fits, Sound, TextRecords
  <2>2. text.try \in 1..(IF Tries > 2 THEN Tries ELSE 2)
    <3>1. CASE text.result = "none"
      BY <3>1 DEF TextInduction, Fits, Ready
    <3>2. CASE text.result # "none"
      BY <3>2 DEF TextInduction, Fits, Over
    <3> QED BY <3>1, <3>2
  <2>3. TextTyped
    BY <2>1, <2>2 DEF TextTyped, TextRecords
  <2>4. RequestsSpared
    BY <2>1 DEF RequestsSpared, Sound, Asks, AsksOf
  <2>5. FallbackExplained
    BY <2>1 DEF FallbackExplained, Sound
  <2>6. OneVoice
    <3>1. text.kind = "draft" /\ text.result = "ok" => text.texts["plan"] = text.texts["caption"]
      BY DEF TextInduction, Fits, Over
    <3> QED BY <2>1, <3>1 DEF OneVoice, Sound
  <2> QED BY <2>3, <2>4, <2>5, <2>6 DEF TextInvariant
<1> QED BY <1>1, <1>2, <1>3, PTL DEF TextSpec
=============================================================================
