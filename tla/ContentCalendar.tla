--------------------------- MODULE ContentCalendar ---------------------------
(***************************************************************************)
(* The rows of content_packets: the deprecated generation in the           *)
(* background (POST /content/generate, its bulk and A/B forms), the edits  *)
(* of the calendar, and the row a finished generation job writes.          *)
(*                                                                         *)
(* A writer is the background task of one row.  It keeps a session from    *)
(* its first read to its end, so an UPDATE has the columns whose value     *)
(* differs from the session's copy (`known' is that copy of the status).   *)
(*                                                                         *)
(* A text is "placeholder", "generated" or "edited"; a visual is "none",   *)
(* "url" or the provider's error string "credits".  Database errors other  *)
(* than a missing row are left out.                                        *)
(***************************************************************************)
EXTENDS Integers, FiniteSets

CONSTANTS
  CalendarRows,   \* ids of content_packets
  MaxRounds,      \* max_attempts of the background task
  MaxPushFaults,  \* bound: pushes whose answer is lost
  MaxTouches,     \* bound: edits, deletions and jobs that finish
  MaxRestarts     \* bound: restarts of the content factory

ASSUME CalendarAssumption ==
  MaxRounds \in Nat \ {0} /\ MaxPushFaults \in Nat /\ MaxTouches \in Nat /\ MaxRestarts \in Nat

VARIABLES
  rows,      \* content_packets
  writers,   \* the background task of each row
  pushed,    \* packets of the row pushed to content:ready
  taken,     \* of them, those the distribution engine has finished
  unheard,   \* of them, those whose answer was lost
  touches, restarts

calendarVars == <<rows, writers, pushed, taken, unheard, touches, restarts>>
bounds == <<touches, restarts>>

Stored == {"pending", "queued", "published", "failed"}

CalendarInit ==
  /\ rows = [p \in CalendarRows |-> [status |-> "none", text |-> "none", visual |-> "none", job |-> FALSE]]
  /\ writers = [p \in CalendarRows |-> [pc |-> "none", round |-> 1, known |-> "none", visual |-> "none"]]
  /\ pushed = [p \in CalendarRows |-> 0]
  /\ taken = [p \in CalendarRows |-> 0]
  /\ unheard = [p \in CalendarRows |-> 0]
  /\ touches = 0 /\ restarts = 0

Exists(p) == rows[p].status \in Stored

\* One request of each endpoint makes one row or several: each has a task of its own.
GenerateContent(p) ==
  /\ rows[p].status = "none"
  /\ rows' = [rows EXCEPT ![p] = [status |-> "pending", text |-> "placeholder", visual |-> "none", job |-> FALSE]]
  /\ writers' = [writers EXCEPT ![p].pc = "load"]
  /\ UNCHANGED <<pushed, taken, unheard, bounds>>

-----------------------------------------------------------------------------
(* generate_single_content.                                                 *)

WriterAt(p, pc) == writers[p].pc = pc

WriterLoads(p) ==
  /\ WriterAt(p, "load")
  /\ writers' = [writers EXCEPT ![p].pc = IF Exists(p) THEN "text" ELSE "over", ![p].known = rows[p].status]
  /\ UNCHANGED <<rows, pushed, taken, unheard, bounds>>

\* Mutant: the failure of the last round is not stored.
NextRoundSilent(p) ==
  /\ writers' = [writers EXCEPT ![p].pc = IF writers[p].round < MaxRounds THEN "text" ELSE "over",
                                ![p].round = IF @ < MaxRounds THEN @ + 1 ELSE @]
  /\ UNCHANGED rows

\* The last round's failure is stored; an error in storing it ends the task.
NextRound(p) ==
  IF writers[p].round < MaxRounds
  THEN /\ writers' = [writers EXCEPT ![p].pc = "text", ![p].round = @ + 1]
       /\ UNCHANGED rows
  ELSE /\ writers' = [writers EXCEPT ![p].pc = IF Exists(p) THEN "failed" ELSE "over"]
       /\ rows' = [rows EXCEPT ![p].status = IF Exists(p) /\ writers[p].known # "failed" THEN "failed" ELSE @]

\* A caption too like another one is made again, but in the last round it is taken.
WriterTexts(p) ==
  /\ WriterAt(p, "text")
  /\ \/ /\ writers' = [writers EXCEPT ![p].pc = "visual"]
        /\ UNCHANGED rows
     \/ /\ writers[p].round < MaxRounds
        /\ writers' = [writers EXCEPT ![p].round = @ + 1]
        /\ UNCHANGED rows
     \/ NextRound(p)
  /\ UNCHANGED <<pushed, taken, unheard, bounds>>

\* A failed visual does not stop the packet, and the provider's error string is taken for a URL.
WriterVisual(p) ==
  /\ WriterAt(p, "visual")
  /\ \E v \in {"none", "url", "credits"} :
        writers' = [writers EXCEPT ![p].pc = "store", ![p].visual = v]
  /\ UNCHANGED <<rows, pushed, taken, unheard, bounds>>

\* A row that was deleted meanwhile: the UPDATE finds no row and the session can do no more.
WriterStores(p) ==
  /\ WriterAt(p, "store")
  /\ LET status == IF writers[p].known = "queued" THEN rows[p].status ELSE "queued"
     IN  IF Exists(p)
         THEN /\ rows' = [rows EXCEPT ![p].status = status, ![p].text = "generated",
                                      ![p].visual = writers[p].visual]
              /\ writers' = [writers EXCEPT ![p].pc = "push", ![p].known = status]
         ELSE /\ writers' = [writers EXCEPT ![p].pc = "over"]
              /\ UNCHANGED rows
  /\ UNCHANGED <<pushed, taken, unheard, bounds>>

Delivered(p) == pushed' = [pushed EXCEPT ![p] = @ + 1]

\* Mutant: the loop goes on after a push that was answered.
WriterPushesOn(p) ==
  /\ WriterAt(p, "push")
  /\ Delivered(p)
  /\ NextRound(p)
  /\ UNCHANGED <<taken, unheard, bounds>>

\* The push is in the same try block as the generation: its error repeats the whole round.
WriterPushes(p) ==
  /\ WriterAt(p, "push")
  /\ \/ /\ Delivered(p)
        /\ writers' = [writers EXCEPT ![p].pc = "over"]
        /\ UNCHANGED <<rows, unheard>>
     \/ /\ unheard[p] < MaxPushFaults
        /\ Delivered(p)
        /\ unheard' = [unheard EXCEPT ![p] = @ + 1]
        /\ NextRound(p)
     \/ /\ NextRound(p)
        /\ UNCHANGED <<pushed, unheard>>
  /\ UNCHANGED <<taken, bounds>>

\* The worker of content:ready stores what became of a packet (LegacyPacketQueue).
PacketFinished(p) ==
  /\ taken[p] < pushed[p]
  /\ taken' = [taken EXCEPT ![p] = @ + 1]
  /\ \E status \in {"published", "failed"} :
        rows' = [rows EXCEPT ![p].status = IF Exists(p) THEN status ELSE @]
  /\ UNCHANGED <<writers, pushed, unheard, bounds>>

-----------------------------------------------------------------------------
(* Requests of the dashboard, and jobs.                                     *)

Touch == touches < MaxTouches /\ touches' = touches + 1

PatchContent(p) ==
  /\ Touch /\ Exists(p)
  /\ rows' = [rows EXCEPT ![p].text = "edited"]
  /\ UNCHANGED <<writers, pushed, taken, unheard, restarts>>

\* PATCH .../status takes any of the four, whatever the row's status is.
UpdateStatus(p) ==
  /\ Touch /\ Exists(p)
  /\ \E status \in Stored : rows' = [rows EXCEPT ![p].status = status]
  /\ UNCHANGED <<writers, pushed, taken, unheard, restarts>>

DeleteContent(p) ==
  /\ Touch /\ Exists(p)
  /\ rows' = [rows EXCEPT ![p].status = "deleted"]
  /\ UNCHANGED <<writers, pushed, taken, unheard, restarts>>

\* A job that finishes writes its row, or writes it again: the status starts over.
UpsertFromJob(p) ==
  /\ Touch
  /\ rows[p].status = "none" \/ (Exists(p) /\ rows[p].job)
  /\ rows' = [rows EXCEPT ![p] = [status |-> "pending", text |-> "generated", visual |-> "url", job |-> TRUE]]
  /\ UNCHANGED <<writers, pushed, taken, unheard, restarts>>

FactoryRestarts ==
  /\ restarts < MaxRestarts
  /\ restarts' = restarts + 1
  /\ writers' = [p \in CalendarRows |->
                   IF writers[p].pc \in {"none", "failed"} THEN writers[p] ELSE [writers[p] EXCEPT !.pc = "over"]]
  /\ UNCHANGED <<rows, pushed, taken, unheard, touches>>

WriterStep(p) == WriterLoads(p) \/ WriterTexts(p) \/ WriterVisual(p) \/ WriterStores(p) \/ WriterPushes(p)

CalendarNext ==
  \/ \E p \in CalendarRows :
        \/ GenerateContent(p) \/ WriterStep(p) \/ PacketFinished(p)
        \/ PatchContent(p) \/ UpdateStatus(p) \/ DeleteContent(p) \/ UpsertFromJob(p)
  \/ FactoryRestarts

CalendarSpec == CalendarInit /\ [][CalendarNext]_calendarVars

-----------------------------------------------------------------------------
(* Properties.                                                              *)

WriterPcs == {"none", "load", "text", "visual", "store", "push", "failed", "over"}

RowRecords == [status : Stored \cup {"none", "deleted"}, text : {"none", "placeholder", "generated", "edited"},
               visual : {"none", "url", "credits"}, job : BOOLEAN]
WriterRecords == [pc : WriterPcs, round : 1..MaxRounds, known : Stored \cup {"none", "deleted"},
                  visual : {"none", "url", "credits"}]

CalendarTyped ==
  /\ rows \in [CalendarRows -> RowRecords] /\ writers \in [CalendarRows -> WriterRecords]
  /\ pushed \in [CalendarRows -> Nat] /\ taken \in [CalendarRows -> Nat] /\ unheard \in [CalendarRows -> Nat]

\* A packet is pushed once, and once more for each push whose answer was lost; a task that ended in
\* 'failed' has pushed nothing it was told of (generation_task.py:103 and 109).
PushesAccounted ==
  \A p \in CalendarRows :
     /\ pushed[p] <= 1 + unheard[p]
     /\ WriterAt(p, "failed") \/ writers[p].pc \in {"text", "visual", "store", "push"} => pushed[p] = unheard[p]

\* A generated row that nobody touched leaves its first status unless the process died: each way out
\* of the task stores 'queued' or 'failed' (generation_task.py:83 and 111).
NothingLeftPending ==
  \A p \in CalendarRows :
     rows[p].status = "pending" /\ ~rows[p].job /\ touches = 0 /\ restarts = 0 =>
        writers[p].pc \in {"load", "text", "visual", "store"}

CalendarInvariant == CalendarTyped /\ PushesAccounted /\ NothingLeftPending
=============================================================================
