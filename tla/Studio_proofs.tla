--------------------------- MODULE Studio_proofs ----------------------------
(***************************************************************************)
(* What the dashboard's studio shows and asks for, for any number of       *)
(* pages, tabs, panels, handlers, jobs and intents: the scenes of a plan,  *)
(* the page of a job, the dock of running jobs, and the panel that creates *)
(* intents.                                                                *)
(***************************************************************************)
EXTENDS SceneDesk, StudioPage, JobDock, IntentCreation, SequenceTheorems, FiniteSetTheorems, TLAPS

-----------------------------------------------------------------------------
(***************************************************************************)
(* SceneDesk. A reorder that finds the places it has read writes a         *)
(* permutation: the scenes it leaves alone are where its list has them. A  *)
(* preview or a pipeline that finds no more metadata than its copy holds   *)
(* loses nothing: what it holds had been written, and all that was written *)
(* is still there.                                                         *)
(***************************************************************************)

ReorderRequests == [does : {"order"}, plan : Nat, read : [Places -> Places], order : Orders]
PreviewRequests == [does : Kinds, plan : Nat, row : Places, read : SUBSET Parts]

\* What a handler may be working on.
HandlersTyped == handler \in [Handlers -> {Nothing} \cup ReorderRequests \cup PreviewRequests]

\* What a pipeline holds of the scenes.
PipelineTyped == pipeline \in {Nothing} \cup [does : {"run"}, read : [Places -> SUBSET Parts]]

\* No request is of a plan that does not exist yet.
PlansPast == \A h \in Handlers : handler[h] # Nothing => handler[h].plan <= plan

\* What is stored, what a preview of this plan has read and what a pipeline holds was written.
ReadWasWritten ==
    /\ \A r \in Places : meta[r] \subseteq written[r]
    /\ \A h \in Handlers : handler[h].does \in Kinds /\ handler[h].plan = plan =>
           handler[h].read \subseteq written[handler[h].row]
    /\ pipeline.does = "run" => \A r \in Places : pipeline.read[r] \subseteq written[r]

SceneInduction == SceneInvariant /\ HandlersTyped /\ PipelineTyped /\ PlansPast /\ ReadWasWritten

-----------------------------------------------------------------------------
\* A request is known by what it does.
LEMMA RequestKinds ==
  ASSUME HandlersTyped, NEW h \in Handlers
  PROVE  /\ handler[h] = Nothing <=> handler[h].does = "nothing"
         /\ handler[h].does = "order" => handler[h] \in ReorderRequests
         /\ handler[h].does \in Kinds => handler[h] \in PreviewRequests
  BY DEF HandlersTyped, ReorderRequests, PreviewRequests, Kinds, Nothing

\* The order in which the planning stored the scenes.
LEMMA FirstOrder == [r \in Places |-> r] \in Orders
  BY DEF Orders

\* The planning leaves nothing of the kind behind.
LEMMA SceneInitInduction == SceneInit => SceneInduction
  BY SceneAssumption, FirstOrder DEF SceneAssumption, SceneInit, SceneInduction, SceneInvariant,
    SceneTypeOK, OrderExplained, ResultsKept, HandlersTyped, PipelineTyped, PlansPast, ReadWasWritten, Places,
    Nothing, Kinds, Parts

\* A reorder begins and ends.
LEMMA ReorderInduction ==
  ASSUME SceneInduction, NEW h \in Handlers,
         \/ \E order \in [Places -> Places] : ReorderStart(h, order)
         \/ ReorderEnd(h)
  PROVE  SceneInduction'
<1> USE DEF SceneInduction, SceneInvariant
<1>1. ASSUME NEW order \in [Places -> Places], ReorderStart(h, order) PROVE SceneInduction'
  <2>1. /\ handler' = [handler EXCEPT ![h] = [does |-> "order", plan |-> plan, read |-> place, order |-> order]]
        /\ order \in Orders /\ UNCHANGED <<sceneRows, pipeline, sceneHistory>>
    BY <1>1 DEF ReorderStart, Take, Accepted
  <2>2. SceneTypeOK' /\ OrderExplained' /\ ResultsKept'
    BY <2>1 DEF SceneTypeOK, OrderExplained, ResultsKept, sceneRows, sceneHistory
  <2>3. HandlersTyped' /\ PipelineTyped' /\ PlansPast'
    BY <2>1, SceneAssumption DEF HandlersTyped, PipelineTyped, PlansPast, ReorderRequests, SceneTypeOK, sceneRows,
      SceneAssumption, Nothing
  <2>4. ReadWasWritten'
    BY <2>1 DEF ReadWasWritten, HandlersTyped, Kinds, sceneRows, sceneHistory
  <2> QED BY <2>2, <2>3, <2>4
<1>2. ASSUME ReorderEnd(h) PROVE SceneInduction'
  <2> DEFINE c == handler[h]
  <2>1. /\ c \in ReorderRequests
        /\ handler' = [handler EXCEPT ![h] = Nothing]
        /\ UNCHANGED <<plan, meta, text, pipeline, said, written, overwritten>>
    BY <1>2, RequestKinds DEF ReorderEnd, Rest
  <2>2. HandlersTyped' /\ PipelineTyped' /\ PlansPast' /\ ReadWasWritten' /\ ResultsKept'
    BY <2>1 DEF HandlersTyped, PipelineTyped, PlansPast, ReadWasWritten, ResultsKept, Nothing, Kinds
  <2>3. CASE c.plan # plan
    BY <1>2, <2>1, <2>2, <2>3 DEF ReorderEnd, SceneTypeOK, OrderExplained
  <2>4. CASE c.plan = plan
    <3>1. /\ place' = [r \in Places |-> IF c.order[r] # c.read[r] THEN c.order[r] ELSE place[r]]
          /\ crossed' = (crossed \/ place # c.read)
      BY <1>2, <2>4 DEF ReorderEnd
    <3>2. c.order \in Orders /\ c.order \in [Places -> Places]
      BY <2>1 DEF ReorderRequests, Orders
    <3>3. place' \in [Places -> Places]
      BY <3>1, <3>2 DEF SceneTypeOK
    <3>4. ASSUME ~crossed' PROVE place' \in Orders
      <4>1. place = c.read
        BY <3>1, <3>4
      <4>2. \A r \in Places : place'[r] = c.order[r]
        BY <3>1, <4>1
      <4>3. place' = c.order
        BY <3>2, <3>3, <4>2
      <4> QED BY <3>2, <4>3
    <3> QED BY <2>1, <2>2, <3>3, <3>4 DEF SceneTypeOK, OrderExplained
  <2> QED BY <2>3, <2>4
<1> QED BY <1>1, <1>2

\* A preview begins, ends, and fails.
LEMMA PreviewInduction ==
  ASSUME SceneInduction, NEW h \in Handlers,
         \/ \E r \in Worked, kind \in Kinds : PreviewStart(h, r, kind)
         \/ PreviewEnd(h)
         \/ PreviewFailed(h)
  PROVE  SceneInduction'
<1> USE DEF SceneInduction, SceneInvariant
<1>1. ASSUME NEW r \in Worked, NEW kind \in Kinds, PreviewStart(h, r, kind) PROVE SceneInduction'
  <2>1. /\ handler' = [handler EXCEPT ![h] = [does |-> kind, plan |-> plan, row |-> r, read |-> meta[r]]]
        /\ r \in Places /\ UNCHANGED <<sceneRows, pipeline, sceneHistory>>
    BY <1>1, SceneAssumption DEF PreviewStart, Take, SceneAssumption, Places
  <2>2. SceneTypeOK' /\ OrderExplained' /\ ResultsKept'
    BY <2>1 DEF SceneTypeOK, OrderExplained, ResultsKept, sceneRows, sceneHistory
  <2>3. HandlersTyped' /\ PipelineTyped' /\ PlansPast'
    BY <2>1, SceneAssumption DEF HandlersTyped, PipelineTyped, PlansPast, PreviewRequests, SceneTypeOK, sceneRows,
      SceneAssumption, Nothing
  <2>4. ReadWasWritten'
    BY <2>1 DEF ReadWasWritten, HandlersTyped, sceneRows, sceneHistory
  <2> QED BY <2>2, <2>3, <2>4
<1>2. ASSUME PreviewEnd(h) PROVE SceneInduction'
  <2> DEFINE c == handler[h]
  <2>1. /\ c \in PreviewRequests /\ c.does \in Kinds
        /\ handler' = [handler EXCEPT ![h] = Nothing]
        /\ UNCHANGED <<plan, place, text, pipeline, said, crossed>>
    BY <1>2, RequestKinds DEF PreviewEnd, Rest
  <2>2. HandlersTyped' /\ PipelineTyped' /\ PlansPast' /\ OrderExplained'
    BY <2>1 DEF HandlersTyped, PipelineTyped, PlansPast, OrderExplained
  <2>3. CASE c.plan # plan
    <3>1. UNCHANGED <<meta, written, overwritten>>
      BY <1>2, <2>3 DEF PreviewEnd
    <3> QED
      BY <2>1, <2>2, <3>1 DEF SceneTypeOK, ResultsKept, ReadWasWritten, HandlersTyped, Nothing, Kinds
  <2>4. CASE c.plan = plan
    <3>1. /\ meta' = [meta EXCEPT ![c.row] = c.read \cup {c.does}]
          /\ written' = [written EXCEPT ![c.row] = @ \cup {c.does}]
          /\ overwritten' = IF meta[c.row] \subseteq c.read THEN overwritten ELSE overwritten \cup {c.row}
      BY <1>2, <2>4 DEF PreviewEnd, Replaces
    <3>2. c.row \in Places /\ c.read \subseteq Parts /\ c.does \in Parts /\ c.read \subseteq written[c.row]
      BY <2>1, <2>4 DEF PreviewRequests, Parts, ReadWasWritten
    <3>3. SceneTypeOK'
      BY <2>1, <3>1, <3>2 DEF SceneTypeOK
    <3>4. ResultsKept'
      BY <3>1, <3>2 DEF ResultsKept, SceneTypeOK
    <3>5. ReadWasWritten'
      BY <2>1, <3>1, <3>2 DEF ReadWasWritten, HandlersTyped, SceneTypeOK, Nothing, Kinds
    <3> QED BY <2>2, <3>3, <3>4, <3>5
  <2> QED BY <2>3, <2>4
<1>3. ASSUME PreviewFailed(h) PROVE SceneInduction'
  BY <1>3 DEF PreviewFailed, Rest, SceneTypeOK, OrderExplained, ResultsKept, HandlersTyped, PipelineTyped, PlansPast,
    ReadWasWritten, sceneRows, sceneHistory, Nothing, Kinds
<1> QED BY <1>1, <1>2, <1>3

\* The pipeline, an edit, and a new plan.
LEMMA OtherInduction ==
  ASSUME SceneInduction,
         \/ RunStarts \/ RunEnds
         \/ \E r \in Worked : StepWrites(r)
         \/ \E r \in Worked, t \in Texts : PatchScene(r, t)
         \/ Replan
  PROVE  SceneInduction'
<1> USE DEF SceneInduction, SceneInvariant
<1>1. ASSUME NEW r \in Worked, StepWrites(r) PROVE SceneInduction'
  <2> DEFINE held == pipeline.read[r]
  <2>1. /\ r \in Places /\ "run" \in Parts
        /\ pipeline \in [does : {"run"}, read : [Places -> SUBSET Parts]]
        /\ held \subseteq Parts /\ held \subseteq written[r]
    BY <1>1, SceneAssumption DEF StepWrites, SceneAssumption, Places, Parts, PipelineTyped, ReadWasWritten,
      Nothing
  <2>2. /\ meta' = [meta EXCEPT ![r] = held \cup {"run"}]
        /\ written' = [written EXCEPT ![r] = @ \cup {"run"}]
        /\ overwritten' = IF meta[r] \subseteq held THEN overwritten ELSE overwritten \cup {r}
        /\ UNCHANGED <<plan, place, text, handler, said, crossed>>
    BY <1>1 DEF StepWrites, Replaces
  <2>3. /\ pipeline' \in [does : {"run"}, read : [Places -> SUBSET Parts]]
        /\ \A q \in Places : pipeline'.read[q] = IF q = r THEN held \cup {"run"} ELSE pipeline.read[q]
    BY <1>1, <2>1 DEF StepWrites
  <2> HIDE DEF held
  <2>4. SceneTypeOK' /\ OrderExplained' /\ ResultsKept'
    BY <2>1, <2>2 DEF SceneTypeOK, OrderExplained, ResultsKept
  <2>5. HandlersTyped' /\ PipelineTyped' /\ PlansPast'
    BY <2>2, <2>3 DEF HandlersTyped, PipelineTyped, PlansPast
  <2>6. ReadWasWritten'
    BY <1>1, <2>1, <2>2, <2>3 DEF ReadWasWritten, SceneTypeOK, HandlersTyped, PreviewRequests, Nothing, Kinds,
      StepWrites
  <2> QED BY <2>4, <2>5, <2>6
<1>4. CASE RunStarts
  BY <1>4 DEF RunStarts, SceneTypeOK, OrderExplained, ResultsKept, HandlersTyped, PipelineTyped, PlansPast,
    ReadWasWritten, sceneRows, sceneHistory
<1>5. CASE RunEnds
  BY <1>5 DEF RunEnds, SceneTypeOK, OrderExplained, ResultsKept, HandlersTyped, PipelineTyped, PlansPast,
    ReadWasWritten, sceneRows, sceneHistory, Nothing
<1>2. ASSUME NEW r \in Worked, NEW t \in Texts, PatchScene(r, t) PROVE SceneInduction'
  BY <1>2 DEF PatchScene, SceneTypeOK, OrderExplained, ResultsKept, HandlersTyped, PipelineTyped, PlansPast,
    ReadWasWritten, sceneRows
<1>3. ASSUME Replan PROVE SceneInduction'
  <2>1. SceneTypeOK' /\ OrderExplained' /\ ResultsKept'
    BY <1>3, SceneAssumption, FirstOrder DEF Replan, SceneTypeOK, OrderExplained, ResultsKept,
      SceneAssumption
  <2>2. HandlersTyped' /\ PipelineTyped'
    BY <1>3 DEF Replan, HandlersTyped, PipelineTyped
  <2>3. \A h \in Handlers : handler[h] # Nothing => handler[h].plan \in Nat /\ handler[h].plan <= plan
    BY DEF HandlersTyped, ReorderRequests, PreviewRequests, PlansPast
  <2>4. plan \in Nat /\ plan' = plan + 1 /\ handler' = handler
    BY <1>3, SceneAssumption DEF Replan, SceneTypeOK, SceneAssumption
  <2>5. PlansPast' /\ ReadWasWritten'
    BY <1>3, <2>3, <2>4 DEF Replan, PlansPast, ReadWasWritten, Nothing, Kinds
  <2> QED BY <2>1, <2>2, <2>5
<1> QED BY <1>1, <1>2, <1>3, <1>4, <1>5

\* Scenes have different places unless one reorder wrote over another, and a result stays stored
\* unless a preview or a pipeline whose copy lacked it wrote after it, for any number of requests at a time
\* (reorder_scenes, generate_scene_preview and the pipeline's steps).
THEOREM ScenesKept == SceneSpec => []SceneInvariant
<1>1. ASSUME SceneInduction, [SceneNext]_sceneVars PROVE SceneInduction'
  <2>1. CASE UNCHANGED sceneVars
    BY <1>1, <2>1 DEF sceneVars, sceneRows, sceneHistory, SceneInduction, SceneInvariant, SceneTypeOK,
      OrderExplained, ResultsKept, HandlersTyped, PipelineTyped, PlansPast, ReadWasWritten
  <2> QED
    BY <1>1, <2>1, ReorderInduction, PreviewInduction, OtherInduction DEF SceneNext
<1> QED
  BY <1>1, SceneInitInduction, PTL DEF SceneSpec, SceneInduction

-----------------------------------------------------------------------------
(***************************************************************************)
(* StudioPage. The status a page has copied may be old, but never ahead: a *)
(* copy that says completed was made when the job had its output, which it *)
(* keeps. So the induction speaks of the job and of every copy of it.      *)
(***************************************************************************)

\* A completed job, and a copy that says so, have an output; and an activity
\* that did not come in late is of the job viewed.
PageInduction ==
    /\ PageTypeOK
    /\ launches \in [Viewable -> Nat]
    /\ asked \in [Pages -> SUBSET [ask : Asks, job : Viewable \cup {NoView}]]
    /\ late \in [Pages -> BOOLEAN]
    /\ \A j \in Viewable : state[j] = "completed" => j \in output
    /\ \A p \in Pages, j \in Viewable : seen[p][j] = "completed" => j \in output
    /\ \A p \in Pages : activity[p] # NoView /\ ~late[p] =>
           activity[p] = page[p] /\ page[p] \in output

\* No jobs and no copies at the start.
LEMMA PageInitInduction == PageInit => PageInduction
  BY DEF PageInit, PageInduction, PageTypeOK, State, Waiting, Busy, Closed

\* Every step of the server and the pages keeps the induction.
LEMMA PageStepInduction ==
  ASSUME PageInduction, [PageNext]_pageVars
  PROVE  PageInduction'
<1> USE DEF PageInduction, PageTypeOK
<1>s. /\ {"none", "deleted"} \cup Waiting \cup Busy \cup Closed = State
      /\ State = {"none", "deleted", "draft", "running", "cancelling", "completed", "failed"}
  BY DEF State, Waiting, Busy, Closed
<1>1. ASSUME NEW p \in Pages, NEW j \in Viewable \cup {NoView}, Open(p, j) PROVE PageInduction'
  BY <1>1 DEF Open, Leave, Reset, jobState
<1>2. ASSUME NEW p \in Pages, Poll(p) PROVE PageInduction'
  BY <1>2 DEF Poll, jobState
<1>3. ASSUME NEW p \in Pages, NEW ask \in Asks, Ask(p, ask) PROVE PageInduction'
  BY <1>3 DEF Ask, jobState
<1>4. ASSUME NEW p \in Pages, NEW ask \in Asks, NEW j \in Viewable, Started(p, ask, j)
      PROVE  PageInduction'
  BY <1>4, <1>s DEF Started, Answered, Becomes
<1>5. ASSUME NEW p \in Pages, NEW j \in Viewable, Stopped(p, j) PROVE PageInduction'
  BY <1>5, <1>s DEF Stopped, Answered, Becomes
<1>6. ASSUME NEW p \in Pages, NEW j \in Viewable, Abandoned(p, j) PROVE PageInduction'
  BY <1>6, <1>s DEF Abandoned, Answered, Becomes, Leave, Reset
<1>7. ASSUME NEW p \in Pages, NEW j \in Viewable, Published(p, j) PROVE PageInduction'
  BY <1>7 DEF Published, Answered, jobState
<1>8. ASSUME NEW p \in Pages, NEW j \in Viewable \cup {NoView}, NEW k \in Viewable, Drafted(p, j, k)
      PROVE  PageInduction'
  BY <1>8, <1>s DEF Drafted, Answered, Becomes, Leave, Reset
<1>9. ASSUME NEW p \in Pages, NEW j \in Viewable \cup {NoView}, Previewed(p, j) PROVE PageInduction'
  BY <1>9, PageAssumption DEF Previewed, Answered, jobState, PageAssumption
<1>10. ASSUME NEW p \in Pages, NEW ask \in Asks, NEW j \in Viewable \cup {NoView}, Failed(p, ask, j)
       PROVE  PageInduction'
  BY <1>10 DEF Failed, Answered, jobState
<1>11. ASSUME NEW j \in Viewable, NEW s \in Closed, EndOfRun(j, s) PROVE PageInduction'
  BY <1>11, <1>s DEF EndOfRun, Becomes, Closed
<1>12. CASE UNCHANGED pageVars
  BY <1>12 DEF pageVars, jobState
<1> QED
  BY <1>1, <1>2, <1>3, <1>4, <1>5, <1>6, <1>7, <1>8, <1>9, <1>10, <1>11, <1>12 DEF PageNext

\* The publication part of the studio is open only for a job that has completed, unless the answer
\* to a publish request came in after the page had moved on.
THEOREM PageKept == PageSpec => []PageInvariant
<1>1. PageInduction => PageInvariant
  BY PageAssumption DEF PageInduction, PageInvariant, UnlockedExplained, Unlocked, Copy, PageTypeOK, PageAssumption
<1> QED
  BY <1>1, PageInitInduction, PageStepInduction, PTL DEF PageSpec

-----------------------------------------------------------------------------
(***************************************************************************)
(* JobDock. A tab announces an end when its copy of the status was live    *)
(* and the job is not. While the copy is live and the job is not, the end  *)
(* is one the tab still owes; a list that came back late can make it owe   *)
(* an end that it has announced, and is counted as such.                   *)
(***************************************************************************)

DockTyped ==
    /\ DockTypeOK
    /\ ends \in [Followed -> Nat]
    /\ announced \in [Tabs -> [Followed -> Nat]]
    /\ replayed \in [Tabs -> Nat]

\* Unless the job was deleted since, a dock that remembers a job as live either knows something
\* that is still true or has announced less than it might.
AnnouncementsOwed ==
    \A t \in Tabs, j \in Followed :
        status[j] # "deleted" /\ previous[t][j] = "live" =>
            status[j] = "live" \/ announced[t][j] < ends[j] + replayed[t]

DockInduction == DockTyped /\ AnnouncementsBounded /\ AnnouncementsOwed

\* A list is a sequence of different jobs that the server cuts off.
LEMMA ListsAre ==
  ASSUME NEW list
  PROVE  list \in Lists <=> /\ list \in Seq(Followed)
                            /\ Len(list) <= MaxTracked
                            /\ \A a, b \in 1..Len(list) : list[a] = list[b] => a = b
<1>1. ASSUME list \in Lists
      PROVE  /\ list \in Seq(Followed) /\ Len(list) <= MaxTracked
             /\ \A a, b \in 1..Len(list) : list[a] = list[b] => a = b
  <2>1. PICK n \in 0..MaxTracked : /\ list \in [1..n -> Followed]
                                   /\ \A a, b \in 1..n : list[a] = list[b] => a = b
    BY <1>1 DEF Lists
  <2>2. n \in Nat /\ list \in Seq(Followed) /\ Len(list) = n
    BY <2>1, DockAssumption DEF DockAssumption
  <2> QED BY <2>1, <2>2
<1>2. ASSUME list \in Seq(Followed), Len(list) <= MaxTracked,
             \A a, b \in 1..Len(list) : list[a] = list[b] => a = b
      PROVE  list \in Lists
  <2>1. Len(list) \in 0..MaxTracked /\ list \in [1..Len(list) -> Followed]
    BY <1>2, LenProperties, DockAssumption DEF DockAssumption
  <2> QED BY <1>2, <2>1 DEF Lists
<1> QED BY <1>1, <1>2

\* A list without an id is one, and does not hold it.
LEMMA WithoutIsList ==
  ASSUME NEW list \in Lists, NEW j \in Followed
  PROVE  /\ Without(list, j) \in Lists
         /\ \A a \in 1..Len(Without(list, j)) : Without(list, j)[a] # j
<1>0. /\ list \in Seq(Followed) /\ Len(list) <= MaxTracked
      /\ \A a, b \in 1..Len(list) : list[a] = list[b] => a = b
      /\ Len(list) \in Nat /\ DOMAIN list = 1..Len(list) /\ MaxTracked \in Nat
  BY ListsAre, LenProperties, DockAssumption DEF DockAssumption
<1>1. CASE j \notin Ids(list)
  BY <1>0, <1>1 DEF Without, Ids
<1>2. CASE j \in Ids(list)
  <2> DEFINE k == CHOOSE k \in DOMAIN list : list[k] = j
             before == SubSeq(list, 1, k - 1)
             after == SubSeq(list, k + 1, Len(list))
             rest == before \o after
  <2>1. k \in 1..Len(list) /\ list[k] = j
    BY <1>0, <1>2 DEF Ids
  <2>2. Without(list, j) = rest
    BY <1>2 DEF Without
  <2> HIDE DEF k
  <2>3. /\ before \in Seq(Followed) /\ Len(before) = k - 1
        /\ \A a \in 1..(k - 1) : before[a] = list[a]
    BY <1>0, <2>1
  <2>4. /\ after \in Seq(Followed) /\ Len(after) = Len(list) - k
        /\ \A a \in 1..(Len(list) - k) : after[a] = list[k + a]
    <3>1. \A i \in (k + 1)..Len(list) : list[i] \in Followed
      BY <1>0, <2>1
    <3>2. k + 1 \in Int /\ Len(list) \in Int
      BY <1>0, <2>1
    <3>3. /\ after \in Seq(Followed)
          /\ Len(after) = IF k + 1 <= Len(list) THEN Len(list) - (k + 1) + 1 ELSE 0
          /\ \A a \in 1..(Len(list) - (k + 1) + 1) : after[a] = list[(k + 1) + a - 1]
      BY <3>1, <3>2, SubSeqProperties
    <3> HIDE DEF after
    <3>4. Len(after) = Len(list) - k
      <4>1. Len(list) \in Int /\ k \in Int /\ k <= Len(list)
        BY <1>0, <2>1
      <4>2. Len(after) = IF k + 1 <= Len(list) THEN Len(list) - (k + 1) + 1 ELSE 0
        BY <3>3
      <4> QED BY <4>1, <4>2
    <3>5. ASSUME NEW a \in 1..(Len(list) - k) PROVE after[a] = list[k + a]
      <4>1. a \in 1..(Len(list) - (k + 1) + 1) /\ (k + 1) + a - 1 = k + a
        BY <1>0, <2>1
      <4> QED BY <3>3, <4>1
    <3> QED BY <3>3, <3>4, <3>5
  <2> HIDE DEF before, after
  <2>5. /\ rest \in Seq(Followed) /\ Len(rest) = Len(list) - 1
        /\ \A a \in 1..(Len(list) - 1) : rest[a] = IF a <= k - 1 THEN before[a] ELSE after[a - (k - 1)]
    <3>1. /\ rest \in Seq(Followed) /\ Len(rest) = Len(before) + Len(after)
          /\ \A a \in 1..(Len(before) + Len(after)) :
                rest[a] = IF a <= Len(before) THEN before[a] ELSE after[a - Len(before)]
      BY <2>3, <2>4, ConcatProperties
    <3> HIDE DEF rest
    <3>2. Len(before) + Len(after) = Len(list) - 1 /\ Len(before) = k - 1
      BY <1>0, <2>1, <2>3, <2>4
    <3> QED BY <3>1, <3>2
  <2> HIDE DEF rest
  <2>6. ASSUME NEW a \in 1..(Len(list) - 1)
        PROVE  rest[a] = IF a < k THEN list[a] ELSE list[a + 1]
    <3>1. CASE a < k
      BY <1>0, <2>1, <2>3, <2>5, <3>1
    <3>2. CASE ~(a < k)
      <4>1. a - (k - 1) \in 1..(Len(list) - k) /\ k + (a - (k - 1)) = a + 1 /\ ~(a <= k - 1)
        BY <1>0, <2>1, <3>2
      <4> QED BY <2>4, <2>5, <3>2, <4>1
    <3> QED BY <3>1, <3>2
  <2>7. \A a, b \in 1..Len(rest) : rest[a] = rest[b] => a = b
    BY <1>0, <2>1, <2>5, <2>6
  <2>8. \A a \in 1..Len(rest) : rest[a] # j
    BY <1>0, <2>1, <2>5, <2>6
  <2> QED BY <1>0, <2>2, <2>5, <2>7, <2>8, ListsAre
<1> QED BY <1>1, <1>2

\* The list with an id put first, cut to the length that is kept.
LEMMA TrackedIsList ==
  ASSUME NEW list \in Lists, NEW j \in Followed
  PROVE  LET l == <<j>> \o Without(list, j)
         IN SubSeq(l, 1, IF Len(l) < MaxTracked THEN Len(l) ELSE MaxTracked) \in Lists
<1> DEFINE rest == Without(list, j)
           l == <<j>> \o rest
           n == IF Len(l) < MaxTracked THEN Len(l) ELSE MaxTracked
           s == SubSeq(l, 1, n)
<1>1. /\ rest \in Seq(Followed) /\ Len(rest) \in Nat /\ MaxTracked \in Nat
      /\ \A a, b \in 1..Len(rest) : rest[a] = rest[b] => a = b
      /\ \A a \in 1..Len(rest) : rest[a] # j
  BY WithoutIsList, ListsAre, DockAssumption, LenProperties DEF DockAssumption
<1> HIDE DEF rest
<1>2. /\ l \in Seq(Followed) /\ Len(l) = Len(rest) + 1
      /\ \A a \in 1..Len(l) : l[a] = IF a = 1 THEN j ELSE rest[a - 1]
  BY <1>1
<1> HIDE DEF l
<1>3. ASSUME NEW a \in 1..Len(l), NEW b \in 1..Len(l), l[a] = l[b]
      PROVE  a = b
  <2>1. /\ a = 1 \/ (a - 1 \in 1..Len(rest) /\ l[a] = rest[a - 1])
        /\ b = 1 \/ (b - 1 \in 1..Len(rest) /\ l[b] = rest[b - 1])
        /\ l[1] = j
    BY <1>1, <1>2
  <2>2. CASE a = 1 \/ b = 1
    BY <1>1, <1>3, <2>1, <2>2
  <2>3. CASE a # 1 /\ b # 1
    <3>1. a - 1 = b - 1
      BY <1>1, <1>3, <2>1, <2>3
    <3> QED BY <3>1
  <2> QED BY <2>2, <2>3
<1>4. n \in 0..Len(l) /\ n <= MaxTracked
  BY <1>1, <1>2
<1> HIDE DEF n
<1>5. /\ s \in Seq(Followed) /\ Len(s) = n /\ \A a \in 1..n : s[a] = l[a]
  <2>1. n \in Int /\ 1 \in Int /\ Len(l) \in Nat
    BY <1>1, <1>2, <1>4
  <2>2. \A i \in 1..Len(l) : l[i] \in Followed
    BY <1>2, ElementOfSeq
  <2>3. \A i \in 1..n : l[i] \in Followed
    BY <1>4, <2>1, <2>2
  <2>4. /\ s \in Seq(Followed) /\ Len(s) = IF 1 <= n THEN n - 1 + 1 ELSE 0
        /\ \A a \in 1..(n - 1 + 1) : s[a] = l[1 + a - 1]
    BY <2>1, <2>3, SubSeqProperties
  <2> HIDE DEF s
  <2> QED BY <1>1, <1>2, <1>4, <2>4
<1> HIDE DEF s
<1>6. s \in Lists
  BY <1>1, <1>2, <1>3, <1>4, <1>5, ListsAre
<1> QED BY <1>6 DEF s, n, l, rest

-----------------------------------------------------------------------------
\* Nothing is announced at the start.
LEMMA DockInitInduction == DockInit => DockInduction
<1> SUFFICES ASSUME DockInit PROVE DockInduction
  OBVIOUS
<1>1. <<>> \in Lists
  <2>1. <<>> \in Seq(Followed) /\ Len(<<>>) = 0 /\ 0 <= MaxTracked /\ 1..0 = {}
    BY DockAssumption DEF DockAssumption
  <2> QED BY <2>1, ListsAre
<1> QED BY <1>1 DEF DockInit, DockInduction, DockTyped, DockTypeOK, AnnouncementsBounded, AnnouncementsOwed,
          Statuses, Unknown

\* A dock looks at statuses that are those of now, where it has any, or at what it kept, and then
\* the replay is counted.
LEMMA LookKeeps ==
  ASSUME DockInduction, NEW t \in Tabs, NEW data \in [Followed -> Statuses], Look(t, data),
         UNCHANGED <<status, ends>>, replayed' \in [Tabs -> Nat],
         \A u \in Tabs \ {t} : replayed'[u] = replayed[u],
         \/ replayed'[t] = replayed[t] + 1
         \/ /\ replayed'[t] = replayed[t]
            /\ \A j \in Followed : data[j] # "none" => data[j] = status[j]
         \/ /\ replayed'[t] = replayed[t]
            /\ data = Unknown
  PROVE  /\ announced' \in [Tabs -> [Followed -> Nat]]
         /\ previous' \in [Tabs -> [Followed -> Statuses]]
         /\ AnnouncementsBounded' /\ AnnouncementsOwed'
<1> USE DEF DockInduction, DockTyped, DockTypeOK
<1>1. /\ announced' = [announced EXCEPT ![t] =
             [j \in Followed |-> IF previous[t][j] = "live" /\ data[j] = "over" THEN @[j] + 1 ELSE @[j]]]
      /\ previous' = [previous EXCEPT ![t] = [j \in Followed |-> IF data[j] = "none" THEN @[j] ELSE data[j]]]
  BY DEF Look, Remember, Announces
<1>2. announced' \in [Tabs -> [Followed -> Nat]] /\ previous' \in [Tabs -> [Followed -> Statuses]]
  BY <1>1
<1>3. \A j \in Followed :
        /\ announced'[t][j] = IF previous[t][j] = "live" /\ data[j] = "over" THEN announced[t][j] + 1 ELSE announced[t][j]
        /\ previous'[t][j] = IF data[j] = "none" THEN previous[t][j] ELSE data[j]
  BY <1>1
<1>4. \A u \in Tabs \ {t} : announced'[u] = announced[u] /\ previous'[u] = previous[u]
  BY <1>1
<1>5. ASSUME NEW j \in Followed
      PROVE  /\ announced'[t][j] <= ends'[j] + replayed'[t]
             /\ status'[j] # "deleted" /\ previous'[t][j] = "live" =>
                  status'[j] = "live" \/ announced'[t][j] < ends'[j] + replayed'[t]
  <2>1. /\ announced[t][j] \in Nat /\ ends[j] \in Nat /\ replayed[t] \in Nat /\ replayed'[t] \in Nat
        /\ status' = status /\ ends' = ends
    OBVIOUS
  <2>2. /\ announced[t][j] <= ends[j] + replayed[t]
        /\ status[j] # "deleted" /\ previous[t][j] = "live" =>
             status[j] = "live" \/ announced[t][j] < ends[j] + replayed[t]
    BY DEF AnnouncementsBounded, AnnouncementsOwed
  <2>3. CASE replayed'[t] = replayed[t] + 1
    BY <1>3, <2>1, <2>2, <2>3
  <2>4. CASE replayed'[t] = replayed[t] /\ \A i \in Followed : data[i] # "none" => data[i] = status[i]
    <3>1. data[j] = "none" \/ data[j] = status[j]
      BY <2>4
    <3>2. CASE data[j] = "none"
      BY <1>3, <2>1, <2>2, <2>4, <3>2
    <3>3. CASE data[j] = status[j] /\ data[j] # "none"
      <4>1. CASE previous[t][j] = "live" /\ status[j] = "over"
        <5>1. /\ announced'[t][j] = announced[t][j] + 1 /\ previous'[t][j] = "over"
              /\ announced[t][j] < ends[j] + replayed[t]
          BY <1>3, <2>2, <3>3, <4>1
        <5> QED BY <2>1, <2>4, <5>1
      <4>2. CASE ~(previous[t][j] = "live" /\ status[j] = "over")
        <5>1. announced'[t][j] = announced[t][j] /\ previous'[t][j] = status[j]
          BY <1>3, <3>3, <4>2
        <5> QED BY <2>1, <2>2, <2>4, <5>1
      <4> QED BY <4>1, <4>2
    <3> QED BY <3>1, <3>2, <3>3
  <2>5. CASE replayed'[t] = replayed[t] /\ data = Unknown
    BY <1>3, <2>1, <2>2, <2>5 DEF Unknown
  <2> QED BY <2>3, <2>4, <2>5
<1> QED BY <1>2, <1>4, <1>5 DEF AnnouncementsBounded, AnnouncementsOwed

\* A tab that takes a list compares it with what it remembers, and announces the ends.
LEMMA FollowKeeps ==
  ASSUME DockInduction, NEW t \in Tabs, NEW list \in Lists, Follow(t, list),
         UNCHANGED <<status, ends>>, tracked' \in Lists
  PROVE  DockInduction'
<1> USE DEF DockInduction, DockTyped, DockTypeOK
<1>1. /\ dock' \in [Tabs -> Lists] /\ cached' = cached /\ fetching' = fetching
  BY DEF Follow
<1>2. CASE list = dock[t]
  BY <1>1, <1>2 DEF Follow, AnnouncementsBounded, AnnouncementsOwed
<1>3. CASE list # dock[t]
  <2>1. /\ Look(t, cached[t][list])
        /\ replayed' = [replayed EXCEPT ![t] = IF cached[t][list] = Unknown THEN @ ELSE @ + 1]
    BY <1>3 DEF Follow
  <2>2. cached[t][list] \in [Followed -> Statuses]
    OBVIOUS
  <2>3. replayed' \in [Tabs -> Nat] /\ \A u \in Tabs \ {t} : replayed'[u] = replayed[u]
    BY <2>1
  <2>4. \/ replayed'[t] = replayed[t] + 1
        \/ replayed'[t] = replayed[t] /\ cached[t][list] = Unknown
    BY <2>1
  <2>5. /\ announced' \in [Tabs -> [Followed -> Nat]]
        /\ previous' \in [Tabs -> [Followed -> Statuses]]
        /\ AnnouncementsBounded' /\ AnnouncementsOwed'
    BY <2>1, <2>2, <2>3, <2>4, LookKeeps
  <2> QED BY <1>1, <2>3, <2>5
<1> QED BY <1>2, <1>3

\* Every step of the server and the tabs keeps the induction.
LEMMA DockStepInduction ==
  ASSUME DockInduction, [DockNext]_dockVars
  PROVE  DockInduction'
<1> USE DEF DockInduction, DockTyped, DockTypeOK
<1>1. ASSUME NEW t \in Tabs, NEW j \in Followed, Track(t, j) PROVE DockInduction'
  BY <1>1, TrackedIsList, FollowKeeps DEF Track
<1>2. ASSUME NEW t \in Tabs, NEW j \in Followed, Dismiss(t, j) PROVE DockInduction'
  BY <1>2, WithoutIsList, FollowKeeps DEF Dismiss
<1>3. ASSUME NEW t \in Tabs, SyncIds(t) PROVE DockInduction'
  BY <1>3, FollowKeeps DEF SyncIds
<1>4. ASSUME NEW t \in Tabs, FetchStart(t) PROVE DockInduction'
  BY <1>4 DEF FetchStart, AnnouncementsBounded, AnnouncementsOwed
<1>5. ASSUME NEW t \in Tabs, NEW list \in Lists, FetchEnd(t, list) PROVE DockInduction'
  <2> DEFINE data == [j \in Followed |-> IF j \in Ids(list) THEN status[j] ELSE "none"]
             ok == \A j \in Ids(list) : status[j] # "deleted"
  <2>1. data \in [Followed -> Statuses]
    BY DEF Statuses
  <2>2. \A j \in Followed : data[j] # "none" => data[j] = status[j]
    OBVIOUS
  <2>3. /\ fetching' = [fetching EXCEPT ![t] = @ \ {list}]
        /\ cached' = IF ok THEN [cached EXCEPT ![t][list] = data] ELSE cached
        /\ IF ok /\ list = dock[t] THEN Look(t, data) ELSE UNCHANGED <<previous, announced>>
        /\ UNCHANGED <<status, ends, tracked, dock, replayed, tracks>>
    BY <1>5 DEF FetchEnd
  <2> HIDE DEF data, ok
  <2>4. fetching' \in [Tabs -> SUBSET Lists] /\ cached' \in [Tabs -> [Lists -> [Followed -> Statuses]]]
    BY <2>1, <2>3
  <2>5. CASE ok /\ list = dock[t]
    <3>1. /\ announced' \in [Tabs -> [Followed -> Nat]]
          /\ previous' \in [Tabs -> [Followed -> Statuses]]
          /\ AnnouncementsBounded' /\ AnnouncementsOwed'
      BY <2>1, <2>2, <2>3, <2>5, LookKeeps
    <3> QED BY <2>3, <2>4, <3>1
  <2>6. CASE ~(ok /\ list = dock[t])
    BY <2>3, <2>4, <2>6 DEF AnnouncementsBounded, AnnouncementsOwed
  <2> QED BY <2>5, <2>6
<1>6. ASSUME NEW j \in Followed, EndRun(j) \/ Rerun(j) \/ Abandon(j) PROVE DockInduction'
  <2>1. CASE EndRun(j)
    BY <2>1 DEF EndRun, shown, Statuses, AnnouncementsBounded, AnnouncementsOwed
  <2>2. CASE Rerun(j)
    BY <2>2 DEF Rerun, shown, Statuses, AnnouncementsBounded, AnnouncementsOwed
  <2>3. CASE Abandon(j)
    BY <2>3 DEF Abandon, shown, Statuses, AnnouncementsBounded, AnnouncementsOwed
  <2> QED BY <1>6, <2>1, <2>2, <2>3
<1>7. CASE UNCHANGED dockVars
  BY <1>7 DEF dockVars, shown, AnnouncementsBounded, AnnouncementsOwed
<1> QED BY <1>1, <1>2, <1>3, <1>4, <1>5, <1>6, <1>7 DEF DockNext

\* A dock announces the end of a job no more often than the job ended, except for lists that came
\* back with the answer they had before.
THEOREM DockKept == DockSpec => []DockInvariant
<1>1. DockInduction => DockInvariant
  BY DEF DockInduction, DockInvariant, DockTyped
<1> QED BY <1>1, DockInitInduction, DockStepInduction, PTL DEF DockSpec

-----------------------------------------------------------------------------
(***************************************************************************)
(* IntentCreation. An answer fits its submission because a request carries *)
(* the accounts of the row it made or found, and a row the mode it was     *)
(* born with: a reschedule changes neither. As long as no two requests     *)
(* have overlapped one of them is busy at a time, and a search that reads  *)
(* every active post of the asset finds one to the same accounts if there  *)
(* is one: so one active post of a choice of accounts exists.              *)
(***************************************************************************)

SlotRecords == [stage : Stages, for : Panels \cup {Nobody}, key : Key \cup {Nobody},
                mode : PublishModes \cup {"none"}, id : Intents \cup {Nobody}, status : Status \cup {"none"}]
PanelRecords == [waits : BOOLEAN, want : Key \cup {Nobody}, action : Actions \cup {"none"}]
OutcomeRecords == [id : Intents \cup {Nobody}, status : Status \cup {"none"}, action : Actions \cup {"none"},
                   dispatched : BOOLEAN, error : BOOLEAN]

DeskShape ==
    /\ made \subseteq Intents
    /\ intent \in [Intents -> Row]
    /\ slot \in [Slots -> SlotRecords]
    /\ panel \in [Panels -> PanelRecords]
    /\ outcome \in [Panels -> OutcomeRecords]
    /\ polls \in [Panels -> SUBSET Status]
    /\ lost \in Nat
    /\ {overlapped, crowded} \subseteq BOOLEAN

RowsFit ==
    \A i \in made :
        /\ intent[i].key \in Key /\ intent[i].status \in Status
        /\ intent[i].accounts = intent[i].key.accounts
        /\ intent[i].key.mode = "publish_now" => intent[i].born = "publish_now"
        /\ intent[i].mode = "publish_now" => intent[i].born = "publish_now"
        /\ intent[i].status = "draft" => intent[i].born = "save_for_later"

\* What a request knows fits the row it was answered with.
RequestsFit ==
    \A s \in Slots :
        LET q == slot[s] IN
        /\ q.stage = "free" => q = Free
        /\ q.stage # "free" => /\ q.key \in Key /\ q.mode \in PublishModes
                               /\ q.key.mode = "publish_now" => q.mode = "publish_now"
        /\ q.id # Nobody => /\ q.id \in made
                            /\ intent[q.id].accounts = q.key.accounts
                            /\ q.key.mode = "publish_now" => intent[q.id].born = "publish_now"
        /\ q.stage \in {"created", "dispatch", "dispatched"} => q.id # Nobody
        /\ q.stage \in {"dispatch", "dispatched"} => q.key.mode = "publish_now"
        /\ lost = 0 /\ q.stage = "refused" => q.id # Nobody /\ intent[q.id].status \in Ended

\* A panel waits for one request, shows nothing while it does, and its wish is what the request works on.
WaitsFit ==
    \A s \in Slots :
        LET p == slot[s].for IN
        p # Nobody => /\ panel[p].waits
                      /\ panel[p].want = slot[s].key
                      /\ panel[p].action = "post_now" => slot[s].key.mode = "publish_now"
                      /\ outcome[p] = Blank
                      /\ \A t \in Slots : slot[t].for = p => t = s

ShownFits ==
    \A p \in Panels :
        LET o == outcome[p] IN
        /\ polls[p] # {} => Watched(o) # Nobody
        /\ o.id # Nobody => /\ o.id \in made
                            /\ intent[o.id].accounts = panel[p].want.accounts
                            /\ o.action = "post_now" => intent[o.id].born = "publish_now"
        /\ lost = 0 /\ o.error /\ o.id # Nobody => intent[o.id].status \in Ended

\* Requests that never overlapped nor missed a row: one is busy, and what it matched still holds when it inserts.
PostsAlone ==
    ~overlapped /\ ~crowded =>
        /\ \A a \in AccountSets : \A i, j \in ActivePosts(a) : i = j
        /\ \A s, t \in Slots : slot[s].stage # "free" /\ slot[t].stage # "free" => s = t
        /\ \A s \in Slots : slot[s].stage = "insert" /\ slot[s].mode = "publish_now"
                              => ActivePosts(slot[s].key.accounts) = {}

DeskInduction == DeskShape /\ RowsFit /\ RequestsFit /\ WaitsFit /\ ShownFits /\ PostsAlone

-----------------------------------------------------------------------------
\* A free slot.
LEMMA FreeIsRecord == Free \in SlotRecords /\ Free.stage = "free" /\ Free.for = Nobody /\ Free.id = Nobody
BY DEF Free, SlotRecords, Stages

\* A panel that shows nothing.
LEMMA BlankIsRecord ==
  /\ Blank \in OutcomeRecords /\ Blank.id = Nobody /\ Watched(Blank) = Nobody
  /\ ~Blank.error /\ ~Terminal(Blank)
BY DEF Blank, OutcomeRecords, Watched, Terminal, Ended

\* No rows, no requests and nothing shown at the start.
LEMMA DeskInitInduction == DeskInit => DeskInduction
<1> SUFFICES ASSUME DeskInit PROVE DeskInduction
  OBVIOUS
<1>1. DeskShape
  BY FreeIsRecord, BlankIsRecord DEF DeskInit, DeskShape, Row, NoRow, Quiet, PanelRecords
<1>2. RowsFit /\ RequestsFit /\ WaitsFit /\ ShownFits
  BY FreeIsRecord, BlankIsRecord DEF DeskInit, RowsFit, RequestsFit, WaitsFit, ShownFits
<1>3. PostsAlone
  BY FreeIsRecord DEF DeskInit, PostsAlone, ActivePosts
<1> QED BY <1>1, <1>2, <1>3 DEF DeskInduction

\* The intent rows stay, the request of one slot moves on: what it knows fits, and the panel that waits
\* for it still does.
LEMMA ServedInduction ==
  ASSUME DeskInduction, NEW s \in Slots, NEW r \in SlotRecords,
         slot' = [slot EXCEPT ![s] = r],
         UNCHANGED <<made, intent, panel, outcome, polls, overlapped>>,
         crowded' \in BOOLEAN /\ (crowded => crowded'),
         lost' \in Nat /\ (lost' = 0 => lost = 0),
         slot[s].stage # "free",
         \/ r = Free
         \/ /\ r.stage # "free" /\ r.for = slot[s].for /\ r.key = slot[s].key /\ r.mode = slot[s].mode,
         r.id # Nobody => /\ r.id \in made
                          /\ intent[r.id].accounts = r.key.accounts
                          /\ r.key.mode = "publish_now" => intent[r.id].born = "publish_now",
         r.stage \in {"created", "dispatch", "dispatched"} => r.id # Nobody,
         r.stage \in {"dispatch", "dispatched"} => r.key.mode = "publish_now",
         lost' = 0 /\ r.stage = "refused" => r.id # Nobody /\ intent[r.id].status \in Ended,
         ~overlapped /\ ~crowded' /\ r.stage = "insert" /\ r.mode = "publish_now" => ActivePosts(r.key.accounts) = {}
  PROVE  DeskInduction'
<1> USE DEF DeskInduction
<1>1. \A t \in Slots : slot'[t] = IF t = s THEN r ELSE slot[t]
  BY DEF DeskShape
<1>2. DeskShape'
  BY DEF DeskShape
<1>3. RowsFit'
  BY DEF RowsFit
<1>4. RequestsFit'
  BY <1>1, FreeIsRecord DEF RequestsFit
<1>5. WaitsFit'
  BY <1>1, FreeIsRecord DEF WaitsFit
<1>6. ShownFits'
  BY DEF ShownFits, Watched, Terminal
<1>7. PostsAlone'
  <2>1. \A a : ActivePosts(a)' = ActivePosts(a)
    BY DEF ActivePosts
  <2> QED BY <1>1, <2>1, FreeIsRecord DEF PostsAlone
<1> QED BY <1>2, <1>3, <1>4, <1>5, <1>6, <1>7

\* A panel gets its answer, or stops waiting.
LEMMA AnsweredInduction ==
  ASSUME DeskInduction, NEW s \in Slots, NEW p \in Panels, NEW o \in OutcomeRecords, NEW r \in SlotRecords,
         slot[s].for = p, p # Nobody,
         Done(p), Show(p, o), slot' = [slot EXCEPT ![s] = r],
         UNCHANGED <<made, intent, overlapped, crowded>>,
         lost' \in Nat /\ (lost' = 0 => lost = 0),
         r = Free \/ r = [slot[s] EXCEPT !.for = Nobody],
         o.id # Nobody => /\ o.id = slot[s].id
                          /\ o.action = "post_now" => slot[s].key.mode = "publish_now",
         lost' = 0 /\ o.error /\ o.id # Nobody => intent[o.id].status \in Ended
  PROVE  DeskInduction'
<1> USE DEF DeskInduction
<1>1. \A t \in Slots : slot'[t] = IF t = s THEN r ELSE slot[t]
  BY DEF DeskShape
<1>2. /\ r.for = Nobody
      /\ r = Free \/ (r.stage = slot[s].stage /\ r.key = slot[s].key /\ r.mode = slot[s].mode /\ r.id = slot[s].id)
      /\ slot[s].stage # "free"
  BY FreeIsRecord DEF DeskShape, SlotRecords, RequestsFit
<1>3. \A q \in Panels : /\ outcome'[q] = IF q = p THEN o ELSE outcome[q]
                        /\ q # p => panel'[q] = panel[q] /\ polls'[q] = polls[q]
                        /\ panel'[q].want = panel[q].want /\ panel'[q].action = panel[q].action
  BY DEF DeskShape, Done, Show, PanelRecords
<1>4. polls'[p] # {} => Watched(o) # Nobody
  BY BlankIsRecord DEF DeskShape, Show, ShownFits, WaitsFit
<1>5. DeskShape'
  BY DEF DeskShape, Done, Show, PanelRecords
<1>6. RowsFit'
  BY DEF RowsFit
<1>7. RequestsFit'
  BY <1>1, <1>2, FreeIsRecord DEF RequestsFit
<1>8. WaitsFit'
  BY <1>1, <1>2, <1>3 DEF WaitsFit, DeskShape, SlotRecords
<1>9. ShownFits'
  <2> SUFFICES ASSUME NEW q \in Panels
      PROVE  LET x == outcome'[q] IN
             /\ polls'[q] # {} => Watched(x) # Nobody
             /\ x.id # Nobody => /\ x.id \in made
                                 /\ intent[x.id].accounts = panel'[q].want.accounts
                                 /\ x.action = "post_now" => intent[x.id].born = "publish_now"
             /\ lost' = 0 /\ x.error /\ x.id # Nobody => intent[x.id].status \in Ended
    BY DEF ShownFits, Watched, Terminal
  <2>1. CASE q = p
    <3>1. o.id # Nobody => /\ o.id \in made
                           /\ intent[o.id].accounts = panel[p].want.accounts
                           /\ o.action = "post_now" => intent[o.id].born = "publish_now"
      BY DEF RequestsFit, WaitsFit
    <3> QED BY <1>3, <1>4, <2>1, <3>1
  <2>2. CASE q # p
    BY <1>3, <2>2 DEF ShownFits
  <2> QED BY <2>1, <2>2
<1>10. PostsAlone'
  <2>1. \A a : ActivePosts(a)' = ActivePosts(a)
    BY DEF ActivePosts
  <2> QED BY <1>1, <1>2, <2>1, FreeIsRecord DEF PostsAlone
<1> QED BY <1>5, <1>6, <1>7, <1>8, <1>9, <1>10

\* One row of an intent that exists changes, one that had ended stays so, and a request may move on
\* by it: no accounts get another active post.
LEMMA RowInduction ==
  ASSUME DeskInduction, NEW i \in made, NEW row \in Row,
         intent' = [intent EXCEPT ![i] = row],
         row.key = intent[i].key, row.accounts = intent[i].accounts, row.born = intent[i].born,
         row.mode \in {intent[i].mode, "scheduled"},
         UNCHANGED <<made, panel, outcome, polls, lost, overlapped, crowded>>,
         \/ UNCHANGED slot
         \/ \E s \in Slots, r \in SlotRecords :
               /\ slot' = [slot EXCEPT ![s] = r]
               /\ slot[s].stage = "dispatch"
               /\ r = Free \/ r = [slot[s] EXCEPT !.stage = "dispatched"],
         row.status \in Status \ {"draft"},
         intent[i].status \in Ended => row.status \in Ended,
         row.mode = "publish_now" /\ row.status \in Active => intent[i].status \in Active
  PROVE  DeskInduction'
<1> USE DEF DeskInduction
<1>1. /\ intent[i] \in Row /\ intent[i].key \in Key
      /\ \A j \in made : /\ intent'[j].key = intent[j].key /\ intent'[j].accounts = intent[j].accounts
                         /\ intent'[j].born = intent[j].born
                         /\ intent'[j].mode = IF j = i THEN row.mode ELSE intent[j].mode
                         /\ intent'[j].status = IF j = i THEN row.status ELSE intent[j].status
  BY DEF DeskShape, RowsFit
<1>2. intent' \in [Intents -> Row]
  BY DEF DeskShape
<1>3. /\ \A t \in Slots : /\ slot'[t] \in SlotRecords
                           /\ \/ slot'[t] = slot[t]
                              \/ slot'[t] = Free /\ slot[t].stage # "free"
                              \/ /\ slot[t].stage = "dispatch" /\ slot'[t].stage = "dispatched"
                                 /\ slot'[t].for = slot[t].for /\ slot'[t].key = slot[t].key
                                 /\ slot'[t].mode = slot[t].mode /\ slot'[t].id = slot[t].id
      /\ slot' \in [Slots -> SlotRecords]
  <2>1. CASE UNCHANGED slot
    BY <2>1 DEF DeskShape
  <2>2. ASSUME NEW s \in Slots, NEW r \in SlotRecords, slot' = [slot EXCEPT ![s] = r], slot[s].stage = "dispatch",
               r = Free \/ r = [slot[s] EXCEPT !.stage = "dispatched"]
        PROVE  <1>3!2 /\ <1>3!1
    <3>1. \A t \in Slots : slot'[t] = IF t = s THEN r ELSE slot[t]
      BY <2>2 DEF DeskShape
    <3>2. r = Free \/ /\ r.stage = "dispatched" /\ r.for = slot[s].for /\ r.key = slot[s].key
                      /\ r.mode = slot[s].mode /\ r.id = slot[s].id
      BY <2>2 DEF DeskShape, SlotRecords
    <3> QED BY <2>2, <3>1, <3>2 DEF DeskShape
  <2> QED BY <2>1, <2>2
<1>4. DeskShape'
  BY <1>2, <1>3 DEF DeskShape
<1>5. RowsFit'
  BY <1>1 DEF RowsFit
<1>6. RequestsFit'
  <2> SUFFICES ASSUME NEW t \in Slots
      PROVE  LET q == slot'[t] IN
        /\ q.stage = "free" => q = Free
        /\ q.stage # "free" => /\ q.key \in Key /\ q.mode \in PublishModes
                               /\ q.key.mode = "publish_now" => q.mode = "publish_now"
        /\ q.id # Nobody => /\ q.id \in made
                            /\ intent'[q.id].accounts = q.key.accounts
                            /\ q.key.mode = "publish_now" => intent'[q.id].born = "publish_now"
        /\ q.stage \in {"created", "dispatch", "dispatched"} => q.id # Nobody
        /\ q.stage \in {"dispatch", "dispatched"} => q.key.mode = "publish_now"
        /\ lost = 0 /\ q.stage = "refused" => q.id # Nobody /\ intent'[q.id].status \in Ended
    BY DEF RequestsFit
  <2>1. CASE slot'[t] = Free
    BY <2>1, FreeIsRecord
  <2>2. CASE slot'[t] # Free
    BY <1>1, <1>3, <2>2 DEF RequestsFit
  <2> QED BY <2>1, <2>2
<1>7. WaitsFit'
  BY <1>3, FreeIsRecord DEF WaitsFit
<1>8. ShownFits'
  BY <1>1 DEF ShownFits, Watched, Terminal
<1>9. PostsAlone'
  <2>1. \A a : ActivePosts(a)' \subseteq ActivePosts(a)
    BY <1>1 DEF ActivePosts
  <2>2. \A t \in Slots : /\ slot'[t].stage # "free" => slot[t].stage # "free"
                         /\ slot'[t].stage = "insert" => slot'[t] = slot[t]
    BY <1>3, FreeIsRecord
  <2> QED BY <2>1, <2>2 DEF PostsAlone, RequestsFit, Key
<1> QED BY <1>4, <1>5, <1>6, <1>7, <1>8, <1>9

\* The insert of a row: the only step that adds an active post.
LEMMA InsertedInduction ==
  ASSUME DeskInduction, NEW s \in Slots, NEW i \in Intents \ made,
         slot[s].stage = "insert",
         made' = made \cup {i},
         intent' = [intent EXCEPT ![i] =
             [key |-> slot[s].key, accounts |-> slot[s].key.accounts, mode |-> slot[s].mode,
              born |-> slot[s].mode, status |-> IF slot[s].mode = "save_for_later" THEN "draft" ELSE "ready"]],
         Answer(s, i, IF slot[s].mode = "save_for_later" THEN "draft" ELSE "ready"),
         UNCHANGED <<panel, outcome, polls, lost, overlapped, crowded>>
  PROVE  DeskInduction'
<1> USE DEF DeskInduction
<1> DEFINE st == IF slot[s].mode = "save_for_later" THEN "draft" ELSE "ready"
           row == [key |-> slot[s].key, accounts |-> slot[s].key.accounts, mode |-> slot[s].mode, born |-> slot[s].mode,
                   status |-> st]
           r == IF slot[s].for = Nobody THEN Free ELSE [slot[s] EXCEPT !.stage = "created", !.id = i, !.status = st]
<1>1. /\ slot[s].key \in Key /\ slot[s].mode \in PublishModes
      /\ slot[s].key.mode = "publish_now" => slot[s].mode = "publish_now"
      /\ slot[s] \in SlotRecords /\ st \in Status /\ st \in {"draft", "ready"}
  BY DEF RequestsFit, DeskShape, Status, Active, Ended
<1>2. /\ row \in Row /\ row.key = slot[s].key /\ row.accounts = slot[s].key.accounts
      /\ row.mode = slot[s].mode /\ row.born = slot[s].mode /\ row.status = st
  BY <1>1 DEF Row, Key
<1>3. /\ r \in SlotRecords /\ i # Nobody
      /\ r = Free \/ /\ r.stage = "created" /\ r.for = slot[s].for /\ r.key = slot[s].key
                     /\ r.mode = slot[s].mode /\ r.id = i
  BY <1>1, FreeIsRecord, IntentAssumption DEF SlotRecords, Stages, IntentAssumption
<1>4. slot' = [slot EXCEPT ![s] = r]
  BY DEF Answer, Reply
<1> HIDE DEF r
<1>5. \A t \in Slots : slot'[t] = IF t = s THEN r ELSE slot[t]
  BY <1>4 DEF DeskShape
<1>6. \A j \in Intents : intent'[j] = IF j = i THEN row ELSE intent[j]
  BY DEF DeskShape
<1>7. st = "draft" <=> slot[s].mode = "save_for_later"
  OBVIOUS
<1>14. intent' = [intent EXCEPT ![i] = row]
  OBVIOUS
<1> HIDE DEF row, st
<1>8. DeskShape'
  BY <1>2, <1>3, <1>4, <1>14 DEF DeskShape
<1>9. RowsFit'
  BY <1>1, <1>2, <1>6, <1>7 DEF RowsFit, DeskShape
<1>10. RequestsFit'
  <2> SUFFICES ASSUME NEW t \in Slots
      PROVE  LET q == slot'[t] IN
        /\ q.stage = "free" => q = Free
        /\ q.stage # "free" => /\ q.key \in Key /\ q.mode \in PublishModes
                               /\ q.key.mode = "publish_now" => q.mode = "publish_now"
        /\ q.id # Nobody => /\ q.id \in made \cup {i}
                            /\ intent'[q.id].accounts = q.key.accounts
                            /\ q.key.mode = "publish_now" => intent'[q.id].born = "publish_now"
        /\ q.stage \in {"created", "dispatch", "dispatched"} => q.id # Nobody
        /\ q.stage \in {"dispatch", "dispatched"} => q.key.mode = "publish_now"
        /\ lost = 0 /\ q.stage = "refused" => q.id # Nobody /\ intent'[q.id].status \in Ended
    BY DEF RequestsFit
  <2>1. CASE t = s
    BY <1>1, <1>2, <1>3, <1>5, <1>6, <2>1, FreeIsRecord
  <2>2. CASE t # s
    BY <1>5, <1>6, <2>2 DEF RequestsFit, DeskShape
  <2> QED BY <2>1, <2>2
<1>11. WaitsFit'
  BY <1>3, <1>5, FreeIsRecord DEF WaitsFit
<1>12. ShownFits'
  BY <1>6 DEF ShownFits, DeskShape, Watched, Terminal
<1>13. PostsAlone'
  <2> SUFFICES ASSUME ~overlapped, ~crowded PROVE PostsAlone'
    BY DEF PostsAlone
  <2>1. \A t \in Slots : /\ slot'[t].stage # "free" => t = s
                         /\ slot'[t].stage # "insert"
    BY <1>3, <1>5, FreeIsRecord DEF PostsAlone
  <2>2. ASSUME NEW a \in AccountSets, NEW j \in ActivePosts(a)', NEW k \in ActivePosts(a)' PROVE j = k
    <3>1. \A n \in ActivePosts(a)' : n # i => n \in ActivePosts(a)
      BY <1>6 DEF ActivePosts, DeskShape
    <3>2. i \in ActivePosts(a)' => slot[s].mode = "publish_now" /\ slot[s].key.accounts = a
      BY <1>2, <1>6 DEF ActivePosts
    <3>3. i \in ActivePosts(a)' => ActivePosts(a) = {}
      BY <3>2 DEF PostsAlone
    <3> QED BY <2>2, <3>1, <3>3 DEF PostsAlone
  <2> QED BY <2>1, <2>2 DEF PostsAlone
<1> QED BY <1>8, <1>9, <1>10, <1>11, <1>12, <1>13

\* A submission: nothing is shown while it is answered.
LEMMA SubmitInduction ==
  ASSUME DeskInduction, NEW p \in Panels, NEW s \in Slots, NEW want \in Key, NEW action \in Actions,
         NEW overdue \in BOOLEAN, Submit(p, s, want, action, overdue)
  PROVE  DeskInduction'
<1> USE DEF DeskInduction
<1> DEFINE r == [Free EXCEPT !.stage = "lookup", !.for = p, !.key = want,
                             !.mode = IF overdue THEN "publish_now" ELSE want.mode]
<1>1. /\ ~panel[p].waits /\ slot[s] = Free /\ slot' = [slot EXCEPT ![s] = r]
      /\ action = "post_now" => want.mode = "publish_now"
      /\ overdue => want.mode = "scheduled"
      /\ panel' = [panel EXCEPT ![p] = [waits |-> TRUE, want |-> want, action |-> action]]
      /\ outcome' = [outcome EXCEPT ![p] = Blank]
      /\ polls' = [polls EXCEPT ![p] = IF Watched(Blank) = Watched(outcome[p]) THEN @ ELSE {}]
      /\ overlapped' = (overlapped \/ \E other \in Slots : slot[other] # Free)
      /\ UNCHANGED <<made, intent, lost, reopened, crowded>>
  BY DEF Submit, Show, Reply, server
<1>2. /\ r \in SlotRecords /\ r.stage = "lookup" /\ r.for = p /\ r.key = want /\ r.id = Nobody
      /\ r.mode \in PublishModes
      /\ want.mode = "publish_now" => r.mode = "publish_now"
  BY <1>1 DEF SlotRecords, Free, Stages, Key, PublishModes
<1> HIDE DEF r
<1>3. \A t \in Slots : slot'[t] = IF t = s THEN r ELSE slot[t]
  BY <1>1 DEF DeskShape
<1>4. \A q \in Panels : /\ outcome'[q] = IF q = p THEN Blank ELSE outcome[q]
                        /\ q # p => panel'[q] = panel[q] /\ polls'[q] = polls[q]
      /\ panel'[p] = [waits |-> TRUE, want |-> want, action |-> action] /\ polls'[p] = {}
  BY <1>1, BlankIsRecord DEF DeskShape, ShownFits
<1>5. DeskShape'
  <2>1. [waits |-> TRUE, want |-> want, action |-> action] \in PanelRecords
    BY DEF PanelRecords
  <2>2. overlapped' \in BOOLEAN
    BY <1>1
  <2>3. polls' \in [Panels -> SUBSET Status]
    BY <1>1 DEF DeskShape
  <2> QED BY <1>1, <1>2, <2>1, <2>2, <2>3, BlankIsRecord DEF DeskShape
<1>6. RowsFit'
  BY <1>1 DEF RowsFit
<1>7. RequestsFit'
  BY <1>1, <1>2, <1>3 DEF RequestsFit
<1>8. WaitsFit'
  <2>1. \A t \in Slots : slot[t].for # p
    BY <1>1, IntentAssumption DEF WaitsFit, IntentAssumption
  <2>2. \A t \in Slots : slot[t].for \in Panels \cup {Nobody}
    BY DEF DeskShape, SlotRecords
  <2> QED BY <1>1, <1>2, <1>3, <1>4, <2>1, <2>2 DEF WaitsFit
<1>9. ShownFits'
  BY <1>1, <1>4, BlankIsRecord DEF ShownFits, Watched, Terminal
<1>10. PostsAlone'
  <2>1. \A a : ActivePosts(a)' = ActivePosts(a)
    BY <1>1 DEF ActivePosts
  <2>2. ~overlapped' => \A t \in Slots : t # s => slot'[t].stage = "free"
    BY <1>1, <1>3, FreeIsRecord
  <2>3. (~overlapped' => ~overlapped) /\ crowded' = crowded
    BY <1>1
  <2> QED BY <1>2, <1>3, <2>1, <2>2, <2>3 DEF PostsAlone
<1> QED BY <1>5, <1>6, <1>7, <1>8, <1>9, <1>10

\* The panel shows o with the polls S in flight.
PanelMove(p, o, S) ==
    /\ outcome' = [outcome EXCEPT ![p] = o] /\ polls' = [polls EXCEPT ![p] = S]
    /\ o = Blank \/ (o.id = outcome[p].id /\ o.action = outcome[p].action /\ o.error = outcome[p].error)
    /\ S # {} => Watched(o) # Nobody
    /\ outcome[p] = Blank => o = Blank
    /\ lost' \in Nat /\ (lost' = 0 => lost = 0)
    /\ UNCHANGED <<made, intent, slot, panel, overlapped, crowded>>

\* What the panel shows and asks for, with no request of its own in between.
LEMMA PanelInduction ==
  ASSUME DeskInduction, NEW p \in Panels,
         Clear(p) \/ PollSend(p) \/ PollAnswer(p) \/ \E answer \in Status : PollLost(p, answer)
  PROVE  DeskInduction'
<1> USE DEF DeskInduction
<1>1. \E o \in OutcomeRecords, S \in SUBSET Status : PanelMove(p, o, S)
  <2>o. outcome[p] \in OutcomeRecords /\ polls[p] \in SUBSET Status /\ lost \in Nat
        /\ outcome = [outcome EXCEPT ![p] = outcome[p]]
    BY DEF DeskShape
  <2>1. CASE Clear(p)
    <3>1. /\ outcome' = [outcome EXCEPT ![p] = Blank]
          /\ polls' = [polls EXCEPT ![p] = {}]
      BY <2>1, BlankIsRecord DEF Clear, Show, ShownFits, DeskShape
    <3>2. PanelMove(p, Blank, {})
      BY <2>1, <2>o, <3>1 DEF PanelMove, Clear, server, deskCounters
    <3> QED BY <3>2, BlankIsRecord
  <2>2. CASE PollSend(p)
    <3>1. Watched(outcome[p]) = outcome[p].id /\ outcome[p].id \in made
      BY <2>2 DEF PollSend, Watched, ShownFits
    <3>2. intent[outcome[p].id].status \in Status
      BY <3>1 DEF RowsFit
    <3>3. polls' = [polls EXCEPT ![p] = polls[p] \cup {intent[outcome[p].id].status}]
      BY <2>2, <3>1 DEF PollSend
    <3>4. Watched(outcome[p]) # Nobody
      BY <2>2 DEF PollSend
    <3>5. PanelMove(p, outcome[p], polls[p] \cup {intent[outcome[p].id].status})
      BY <2>2, <2>o, <3>3, <3>4 DEF PanelMove, PollSend, server, deskCounters
    <3> QED BY <2>o, <3>2, <3>5
  <2>3. CASE PollAnswer(p)
    <3>1. PICK answer \in polls[p] :
             /\ outcome' = [outcome EXCEPT ![p] = Resolve(outcome[p], answer)]
             /\ polls' = [polls EXCEPT ![p] = IF Terminal(Resolve(outcome[p], answer)) THEN {} ELSE @ \ {answer}]
      BY <2>3 DEF PollAnswer
    <3> DEFINE o == Resolve(outcome[p], answer)
               S == IF Terminal(o) THEN {} ELSE polls[p] \ {answer}
    <3>2. /\ o \in OutcomeRecords /\ o.id = outcome[p].id
          /\ o.action = outcome[p].action /\ o.error = outcome[p].error
      BY <2>o DEF Resolve, OutcomeRecords
    <3>3. Watched(outcome[p]) # Nobody
      BY DEF ShownFits
    <3>4. outcome[p] # Blank
      BY <3>3, BlankIsRecord
    <3>5. S # {} => Watched(o) # Nobody
      <4>1. outcome[p].id # Nobody
        BY <3>3 DEF Watched
      <4> QED BY <3>2, <4>1 DEF Watched
    <3>6. S \in SUBSET Status /\ outcome' = [outcome EXCEPT ![p] = o] /\ polls' = [polls EXCEPT ![p] = S]
      BY <2>o, <3>1
    <3> HIDE DEF o, S
    <3>7. PanelMove(p, o, S)
      BY <2>3, <2>o, <3>2, <3>4, <3>5, <3>6 DEF PanelMove, PollAnswer, server, deskCounters
    <3> QED BY <3>2, <3>6, <3>7
  <2>4. ASSUME NEW answer \in Status, PollLost(p, answer)
        PROVE  \E o \in OutcomeRecords, S \in SUBSET Status : PanelMove(p, o, S)
    <3>1. polls' = [polls EXCEPT ![p] = polls[p] \ {answer}] /\ Watched(outcome[p]) # Nobody
      BY <2>4 DEF PollLost, ShownFits
    <3>2. PanelMove(p, outcome[p], polls[p] \ {answer})
      BY <2>4, <2>o, <3>1 DEF PanelMove, PollLost, server
    <3> QED BY <2>o, <3>2
  <2> QED BY <2>1, <2>2, <2>3, <2>4
<1>2. PICK o \in OutcomeRecords, S \in SUBSET Status : PanelMove(p, o, S)
  BY <1>1
<1> USE <1>2 DEF PanelMove
<1>3. \A q \in Panels : /\ outcome'[q] = IF q = p THEN o ELSE outcome[q]
                        /\ polls'[q] = IF q = p THEN S ELSE polls[q]
  BY <1>2 DEF DeskShape
<1>4. DeskShape' /\ RowsFit' /\ RequestsFit'
  BY <1>2 DEF DeskShape, RowsFit, RequestsFit
<1>5. WaitsFit'
  BY <1>2, <1>3 DEF WaitsFit, DeskShape, SlotRecords
<1>6. ShownFits'
  BY <1>2, <1>3, BlankIsRecord DEF ShownFits, Watched, Terminal
<1>7. PostsAlone'
  <2>1. \A a : ActivePosts(a)' = ActivePosts(a)
    BY <1>2 DEF ActivePosts
  <2> QED BY <1>2, <2>1 DEF PostsAlone
<1> QED BY <1>4, <1>5, <1>6, <1>7

\* The answers a panel receives, those it gives up on and those nobody waits for.
LEMMA ReceiveInduction ==
  ASSUME DeskInduction, NEW s \in Slots,
         \/ Created(s) \/ Dispatched(s) \/ Refused(s) \/ Drop(s)
         \/ \E p \in Panels : GiveUp(p, s)
  PROVE  DeskInduction'
<1> USE DEF DeskInduction
<1>s. slot[s] \in SlotRecords /\ slot[s].for \in Panels \cup {Nobody} /\ lost \in Nat /\ lost + 1 # 0
      /\ crowded \in BOOLEAN
      /\ lost + 1 \in Nat /\ slot[s].status \in Status \cup {"none"} /\ slot[s].id \in Intents \cup {Nobody}
  BY DEF DeskShape, SlotRecords
<1>f. ASSUME NEW p \in Panels, slot[s].for = p, p # Nobody
      PROVE  /\ Failure(p, s) \in OutcomeRecords
             /\ Failure(p, s).id # Nobody => Failure(p, s).id = slot[s].id /\ slot[s].key.mode = "publish_now"
  BY <1>s, <1>f, BlankIsRecord DEF Failure, Blank, OutcomeRecords, Status, Ended, Active, Actions, WaitsFit
<1>1. CASE Created(s)
  <2> DEFINE p == slot[s].for
  <2>p. p \in Panels /\ p # Nobody /\ slot[s].stage = "created" /\ slot[s].id # Nobody
    BY <1>1, <1>s DEF Created, RequestsFit
  <2>1. CASE panel[p].action = "post_now"
    <3> DEFINE r == [slot[s] EXCEPT !.stage = "dispatch"]
    <3>1. /\ slot' = [slot EXCEPT ![s] = r] /\ UNCHANGED <<made, intent, panel, outcome, polls, overlapped, crowded, lost>>
      BY <1>1, <2>1 DEF Created, Reply, server, deskCounters
    <3>2. /\ r \in SlotRecords /\ r.stage = "dispatch" /\ r.for = slot[s].for /\ r.key = slot[s].key
          /\ r.mode = slot[s].mode /\ r.id = slot[s].id
      BY <1>s DEF SlotRecords, Stages
    <3>3. slot[s].key.mode = "publish_now"
      BY <2>1, <2>p DEF WaitsFit
    <3>4. /\ slot[s].id \in made
          /\ intent[slot[s].id].accounts = slot[s].key.accounts
          /\ slot[s].key.mode = "publish_now" => intent[slot[s].id].born = "publish_now"
      BY <2>p DEF RequestsFit
    <3> HIDE DEF r
    <3> QED BY <1>s, <2>p, <3>1, <3>2, <3>3, <3>4, ServedInduction
  <2>2. CASE panel[p].action # "post_now"
    <3> DEFINE o == [Blank EXCEPT !.id = slot[s].id, !.status = slot[s].status, !.action = panel[p].action]
    <3>1. /\ Done(p) /\ Show(p, o) /\ slot' = [slot EXCEPT ![s] = Free]
          /\ UNCHANGED <<made, intent, overlapped, crowded, lost>>
      BY <1>1, <2>2 DEF Created, Reply, server, deskCounters
    <3>2. panel[p].action \in Actions \cup {"none"}
      BY <2>p DEF DeskShape, PanelRecords
    <3>3. o \in OutcomeRecords /\ o.id = slot[s].id /\ o.action # "post_now" /\ ~o.error
      BY <1>s, <2>2, <3>2 DEF OutcomeRecords, Blank
    <3> HIDE DEF o
    <3> QED BY <1>s, <2>p, <3>1, <3>3, FreeIsRecord, AnsweredInduction
  <2> QED BY <2>1, <2>2
<1>2. CASE Dispatched(s)
  <2> DEFINE p == slot[s].for
             o == [Blank EXCEPT !.id = slot[s].id, !.status = "queued", !.action = "post_now", !.dispatched = TRUE]
  <2>1. /\ p \in Panels /\ p # Nobody /\ slot[s].key.mode = "publish_now"
    BY <1>2, <1>s DEF Dispatched, RequestsFit
  <2>2. /\ Done(p) /\ Show(p, o) /\ slot' = [slot EXCEPT ![s] = Free] /\ UNCHANGED <<made, intent, overlapped, crowded, lost>>
    BY <1>2 DEF Dispatched, Reply, server, deskCounters
  <2>3. o \in OutcomeRecords /\ o.id = slot[s].id /\ ~o.error
    BY <1>s DEF OutcomeRecords, Blank, Status, Active, Ended, Actions
  <2> HIDE DEF o
  <2> QED BY <1>s, <2>1, <2>2, <2>3, FreeIsRecord, AnsweredInduction
<1>3. CASE Refused(s)
  <2> DEFINE p == slot[s].for
  <2>1. /\ p \in Panels /\ p # Nobody /\ slot[s].stage = "refused"
    BY <1>3, <1>s DEF Refused
  <2>2. /\ Done(p) /\ Show(p, Failure(p, s)) /\ slot' = [slot EXCEPT ![s] = Free]
        /\ UNCHANGED <<made, intent, overlapped, crowded, lost>>
    BY <1>3 DEF Refused, Reply, server, deskCounters
  <2>3. /\ Failure(p, s) \in OutcomeRecords
        /\ Failure(p, s).id # Nobody => Failure(p, s).id = slot[s].id /\ slot[s].key.mode = "publish_now"
    BY <1>f, <2>1
  <2>4. lost = 0 /\ slot[s].id # Nobody => intent[slot[s].id].status \in Ended
    BY <2>1 DEF RequestsFit
  <2> QED BY <1>s, <2>1, <2>2, <2>3, <2>4, FreeIsRecord, AnsweredInduction
<1>4. CASE Drop(s)
  <2>1. slot' = [slot EXCEPT ![s] = Free] /\ UNCHANGED <<made, intent, panel, outcome, polls, overlapped, crowded, lost>>
        /\ slot[s].stage # "free"
    BY <1>4 DEF Drop, Reply, server, deskCounters
  <2> QED BY <1>s, <2>1, FreeIsRecord, ServedInduction
<1>5. ASSUME NEW p \in Panels, GiveUp(p, s) PROVE DeskInduction'
  <2> DEFINE r == [slot[s] EXCEPT !.for = Nobody]
  <2>1. /\ slot[s].for = p /\ Done(p) /\ Show(p, Failure(p, s)) /\ slot' = [slot EXCEPT ![s] = r]
        /\ UNCHANGED <<made, intent, overlapped, crowded>> /\ lost' = lost + 1
    BY <1>5 DEF GiveUp, Reply, server
  <2>2. r \in SlotRecords /\ p # Nobody
    BY <1>s, IntentAssumption DEF SlotRecords, IntentAssumption
  <2>3. /\ Failure(p, s) \in OutcomeRecords
        /\ Failure(p, s).id # Nobody => Failure(p, s).id = slot[s].id /\ slot[s].key.mode = "publish_now"
    BY <1>f, <2>1, <2>2
  <2> QED BY <1>s, <2>1, <2>2, <2>3, AnsweredInduction
<1> QED BY <1>1, <1>2, <1>3, <1>4, <1>5

\* A request that is refused, or that the server reads a row for.
LEMMA ReadInduction ==
  ASSUME DeskInduction, NEW s \in Slots, LookupKey(s) \/ MatchActive(s) \/ Reject(s)
  PROVE  DeskInduction'
<1> USE DEF DeskInduction
<1>s. slot[s] \in SlotRecords /\ lost \in Nat /\ lost + 1 # 0 /\ lost + 1 \in Nat /\ crowded \in BOOLEAN
  BY DEF DeskShape
<1>q. slot[s].stage # "free" =>
        /\ slot[s].key \in Key /\ slot[s].mode \in PublishModes
        /\ slot[s].key.mode = "publish_now" => slot[s].mode = "publish_now"
  BY DEF RequestsFit
<1>n. slot[s].stage \in {"lookup", "match", "insert"} => slot[s].key.accounts \in AccountSets
  BY <1>q DEF Key
<1>a. ASSUME NEW i \in made, Answer(s, i, intent[i].status), slot[s].stage # "free",
             UNCHANGED <<server, panel, outcome, polls, lost, overlapped>>, crowded' \in BOOLEAN, crowded => crowded',
             intent[i].accounts = slot[s].key.accounts,
             slot[s].key.mode = "publish_now" => intent[i].born = "publish_now"
      PROVE  DeskInduction'
  <2> DEFINE r == IF slot[s].for = Nobody THEN Free
                  ELSE [slot[s] EXCEPT !.stage = "created", !.id = i, !.status = intent[i].status]
  <2>1. i \in Intents /\ i # Nobody /\ intent[i].status \in Status
    BY IntentAssumption DEF DeskShape, RowsFit, IntentAssumption
  <2>2. /\ r \in SlotRecords
        /\ \/ r = Free
           \/ /\ r.stage = "created" /\ r.for = slot[s].for /\ r.key = slot[s].key
              /\ r.mode = slot[s].mode /\ r.id = i
    BY <1>s, <2>1, FreeIsRecord DEF SlotRecords, Stages
  <2>3. slot' = [slot EXCEPT ![s] = r] /\ UNCHANGED <<made, intent, panel, outcome, polls, overlapped, lost>>
    BY <1>a DEF Answer, Reply, server
  <2> HIDE DEF r
  <2> QED BY <1>s, <1>a, <2>1, <2>2, <2>3, FreeIsRecord, ServedInduction
<1>m. ASSUME NEW st \in {"match", "insert"}, slot' = [slot EXCEPT ![s] = [slot[s] EXCEPT !.stage = st]],
             slot[s].stage \in {"lookup", "match"},
             UNCHANGED <<server, panel, outcome, polls, lost, overlapped>>, crowded' \in BOOLEAN, crowded => crowded',
             ~crowded' /\ st = "insert" /\ slot[s].mode = "publish_now" => ActivePosts(slot[s].key.accounts) = {}
      PROVE  DeskInduction'
  <2> DEFINE r == [slot[s] EXCEPT !.stage = st]
  <2>1. /\ r \in SlotRecords /\ r.stage = st /\ r.for = slot[s].for /\ r.key = slot[s].key
        /\ r.mode = slot[s].mode /\ r.id = slot[s].id
    BY <1>s DEF SlotRecords, Stages
  <2>2. slot[s].id # Nobody => /\ slot[s].id \in made
                               /\ intent[slot[s].id].accounts = slot[s].key.accounts
                               /\ slot[s].key.mode = "publish_now" => intent[slot[s].id].born = "publish_now"
    BY DEF RequestsFit
  <2>3. slot' = [slot EXCEPT ![s] = r] /\ UNCHANGED <<made, intent, panel, outcome, polls, overlapped, lost>>
        /\ slot[s].stage # "free"
    BY <1>m DEF server, deskCounters
  <2> HIDE DEF r
  <2>4. /\ r.id # Nobody => /\ r.id \in made
                            /\ intent[r.id].accounts = r.key.accounts
                            /\ r.key.mode = "publish_now" => intent[r.id].born = "publish_now"
        /\ r.stage \notin {"free", "created", "dispatch", "dispatched", "refused"}
        /\ ~overlapped /\ ~crowded' /\ r.stage = "insert" /\ r.mode = "publish_now" => ActivePosts(r.key.accounts) = {}
    <3>1. r.stage = st /\ r.mode = slot[s].mode /\ r.key = slot[s].key /\ r.id = slot[s].id
      BY <2>1
    <3>2. st \notin {"free", "created", "dispatch", "dispatched", "refused"}
      OBVIOUS
    <3>3. ~overlapped /\ ~crowded' /\ r.stage = "insert" /\ r.mode = "publish_now" => ActivePosts(slot[s].key.accounts) = {}
      BY <1>m, <3>1
    <3> QED BY <2>2, <3>1, <3>2, <3>3
  <2>5. lost' \in Nat /\ (lost' = 0 => lost = 0)
    BY <1>s, <2>3
  <2> QED BY <1>m, <2>1, <2>3, <2>4, <2>5, ServedInduction
<1>1. CASE LookupKey(s)
  <2>1. slot[s].stage = "lookup" /\ UNCHANGED <<server, panel, outcome, polls, lost, overlapped, crowded>>
        /\ crowded' \in BOOLEAN
    BY <1>1 DEF LookupKey, deskCounters, DeskShape
  <2>2. CASE ByKey(slot[s].key) # {}
    <3>1. PICK i \in ByKey(slot[s].key) : Answer(s, i, intent[i].status)
      BY <1>1, <2>2 DEF LookupKey
    <3>2. i \in made /\ intent[i].key = slot[s].key
      BY DEF ByKey
    <3>3. /\ intent[i].accounts = slot[s].key.accounts
          /\ slot[s].key.mode = "publish_now" => intent[i].born = "publish_now"
      BY <3>2 DEF RowsFit
    <3> QED BY <1>a, <2>1, <3>1, <3>2, <3>3
  <2>3. CASE ByKey(slot[s].key) = {}
    <3>1. slot' = [slot EXCEPT ![s] = [slot[s] EXCEPT !.stage =
                                         IF slot[s].mode = "publish_now" THEN "match" ELSE "insert"]]
      BY <1>1, <2>3 DEF LookupKey, Reply
    <3> QED BY <1>m, <2>1, <3>1
  <2> QED BY <2>2, <2>3
<1>2. CASE MatchActive(s)
  <2>1. /\ slot[s].stage = "match" /\ UNCHANGED <<server, panel, outcome, polls, lost, overlapped>>
        /\ crowded' = (crowded \/ Cardinality(ActiveNow) > MaxMatched)
    BY <1>2 DEF MatchActive
  <2>2. crowded' \in BOOLEAN /\ (crowded => crowded')
    BY <2>1 DEF DeskShape
  <2>3. PICK rows \in Matched :
           LET same == rows \cap ActivePosts(slot[s].key.accounts) IN
           IF same # {}
           THEN \E i \in same : Answer(s, i, intent[i].status)
           ELSE Reply(s, [slot[s] EXCEPT !.stage = "insert"])
    BY <1>2 DEF MatchActive
  <2>4. CASE rows \cap ActivePosts(slot[s].key.accounts) # {}
    <3>1. PICK i \in rows \cap ActivePosts(slot[s].key.accounts) : Answer(s, i, intent[i].status)
      BY <2>3, <2>4
    <3>2. i \in made /\ intent[i].accounts = slot[s].key.accounts /\ intent[i].mode = "publish_now"
      BY <3>1 DEF ActivePosts
    <3>3. intent[i].born = "publish_now"
      BY <3>2 DEF RowsFit
    <3> QED BY <1>a, <2>1, <2>2, <3>1, <3>2, <3>3
  <2>5. CASE rows \cap ActivePosts(slot[s].key.accounts) = {}
    <3>1. slot' = [slot EXCEPT ![s] = [slot[s] EXCEPT !.stage = "insert"]]
      BY <2>3, <2>5 DEF Reply
    <3>2. ASSUME ~crowded' PROVE ActivePosts(slot[s].key.accounts) = {}
      <4>1. ~(Cardinality(ActiveNow) > MaxMatched)
        BY <2>1, <3>2
      <4>2. ActivePosts(slot[s].key.accounts) \subseteq ActiveNow
        BY <1>n, <2>1 DEF ActiveNow
      <4>3. IsFiniteSet(ActiveNow)
        <5>1. ActiveNow \subseteq Intents
          BY DEF ActiveNow, ActivePosts, DeskShape
        <5> QED BY <5>1, FS_Subset, IntentAssumption DEF IntentAssumption
      <4>4. Cardinality(ActiveNow) <= MaxMatched
        BY <4>1, <4>3, FS_CardinalityType, IntentAssumption DEF IntentAssumption
      <4>5. rows = ActiveNow
        BY <4>4 DEF Matched
      <4> QED BY <2>5, <4>2, <4>5
    <3> QED BY <1>m, <2>1, <2>2, <3>1, <3>2
  <2> QED BY <2>4, <2>5
<1>3. CASE Reject(s)
  <2> DEFINE r == IF slot[s].for = Nobody THEN Free ELSE [slot[s] EXCEPT !.stage = "refused"]
  <2>1. slot[s].stage \in {"match", "insert", "dispatch"} /\ slot' = [slot EXCEPT ![s] = r]
        /\ lost' = lost + 1 /\ UNCHANGED <<made, intent, panel, outcome, polls, overlapped, crowded>>
    BY <1>3 DEF Reject, Refuse, Reply, server
  <2>2. /\ r \in SlotRecords
        /\ \/ r = Free
           \/ /\ r.stage = "refused" /\ r.for = slot[s].for /\ r.key = slot[s].key
              /\ r.mode = slot[s].mode /\ r.id = slot[s].id
    BY <1>s, FreeIsRecord DEF SlotRecords, Stages
  <2>3. slot[s].id # Nobody => /\ slot[s].id \in made
                               /\ intent[slot[s].id].accounts = slot[s].key.accounts
                               /\ slot[s].key.mode = "publish_now" => intent[slot[s].id].born = "publish_now"
    BY DEF RequestsFit
  <2> HIDE DEF r
  <2>4. /\ r.id # Nobody => /\ r.id \in made
                            /\ intent[r.id].accounts = r.key.accounts
                            /\ r.key.mode = "publish_now" => intent[r.id].born = "publish_now"
        /\ r.stage \notin {"created", "dispatch", "dispatched", "insert"}
    <3>1. CASE r = Free
      BY <3>1, FreeIsRecord
    <3>2. CASE r # Free
      <4>1. r.stage = "refused" /\ r.key = slot[s].key /\ r.id = slot[s].id
        BY <2>2, <3>2
      <4> QED BY <2>3, <4>1
    <3> QED BY <3>1, <3>2
  <2>5. lost' \in Nat /\ lost' # 0 /\ slot[s].stage # "free"
    BY <1>s, <2>1
  <2>6. \/ r = Free
        \/ r.stage # "free" /\ r.for = slot[s].for /\ r.key = slot[s].key /\ r.mode = slot[s].mode
    BY <2>2
  <2> QED BY <2>1, <2>2, <2>4, <2>5, <2>6, <1>s, ServedInduction
<1> QED BY <1>1, <1>2, <1>3

\* The row of i with another status.
StatusRow(i, st, row) ==
    /\ row.key = intent[i].key /\ row.accounts = intent[i].accounts /\ row.born = intent[i].born
    /\ row.mode = intent[i].mode /\ row.status = st
    /\ intent' = [intent EXCEPT ![i] = row]

\* A step that gives the row of an intent another status.
LEMMA StatusChanges ==
  ASSUME DeskInduction, NEW i \in made, NEW st \in Status, intent' = [intent EXCEPT ![i].status = st]
  PROVE  \E row \in Row : StatusRow(i, st, row)
<1> DEFINE row == [intent[i] EXCEPT !.status = st]
<1>1. intent[i] \in Row \ {NoRow}
  BY DEF DeskInduction, DeskShape, RowsFit, NoRow, Status, Active, Ended
<1>2. /\ row \in Row /\ row.key = intent[i].key /\ row.accounts = intent[i].accounts
      /\ row.born = intent[i].born /\ row.mode = intent[i].mode /\ row.status = st
  BY <1>1 DEF Row
<1>3. intent' = [intent EXCEPT ![i] = row]
  OBVIOUS
<1> HIDE DEF row
<1> QED BY <1>2, <1>3 DEF StatusRow

\* The inserts and the dispatch, and what the pipeline does to the rows.
LEMMA WriteInduction ==
  ASSUME DeskInduction,
         \/ \E s \in Slots : InsertIntent(s) \/ DispatchIntent(s)
         \/ \E i \in made : Pipeline(i) \/ RetryPublished(i) \/ Reschedule(i)
  PROVE  DeskInduction'
<1> USE DEF DeskInduction
<1>1. ASSUME NEW s \in Slots, InsertIntent(s) PROVE DeskInduction'
  <2>1. slot[s].stage = "insert" /\ UNCHANGED <<panel, outcome, polls, deskCounters>>
        /\ slot[s] \in SlotRecords /\ lost \in Nat /\ crowded \in BOOLEAN
    BY <1>1 DEF InsertIntent, DeskShape
  <2>2. CASE ByKey(slot[s].key) # {}
    <3>1. PICK i \in ByKey(slot[s].key) : Answer(s, i, intent[i].status)
      BY <1>1, <2>2 DEF InsertIntent
    <3>2. i \in made /\ intent[i].key = slot[s].key /\ UNCHANGED server
      BY <1>1, <2>2 DEF ByKey, InsertIntent
    <3>3. /\ intent[i].accounts = slot[s].key.accounts
          /\ slot[s].key.mode = "publish_now" => intent[i].born = "publish_now"
      BY <3>2 DEF RowsFit
    <3> DEFINE r == IF slot[s].for = Nobody THEN Free
                    ELSE [slot[s] EXCEPT !.stage = "created", !.id = i, !.status = intent[i].status]
    <3>4. i \in Intents /\ i # Nobody /\ intent[i].status \in Status
      BY <3>2, IntentAssumption DEF DeskShape, RowsFit, IntentAssumption
    <3>5. /\ r \in SlotRecords
          /\ \/ r = Free
             \/ /\ r.stage = "created" /\ r.for = slot[s].for /\ r.key = slot[s].key
                /\ r.mode = slot[s].mode /\ r.id = i
      BY <2>1, <3>4, FreeIsRecord DEF SlotRecords, Stages
    <3>6. slot' = [slot EXCEPT ![s] = r] /\ UNCHANGED <<made, intent, panel, outcome, polls, overlapped, crowded, lost>>
      BY <2>1, <3>1, <3>2 DEF Answer, Reply, server, deskCounters
    <3> HIDE DEF r
    <3> QED BY <2>1, <3>2, <3>3, <3>4, <3>5, <3>6, FreeIsRecord, ServedInduction
  <2>3. CASE ByKey(slot[s].key) = {}
    <3> DEFINE st == IF slot[s].mode = "save_for_later" THEN "draft" ELSE "ready"
    <3> DEFINE i == NewId
    <3>1. /\ made # Intents
          /\ made' = made \cup {i}
          /\ intent' = [intent EXCEPT ![i] = [key |-> slot[s].key, accounts |-> slot[s].key.accounts,
                                              mode |-> slot[s].mode, born |-> slot[s].mode, status |-> st]]
          /\ Answer(s, i, st)
      BY <1>1, <2>3 DEF InsertIntent
    <3>2. i \in Intents \ made
      BY <3>1 DEF NewId, DeskShape
    <3> HIDE DEF i
    <3> QED BY <2>1, <3>1, <3>2, InsertedInduction DEF deskCounters
  <2> QED BY <2>2, <2>3
<1>2. ASSUME NEW s \in Slots, DispatchIntent(s) PROVE DeskInduction'
  <2> DEFINE i == slot[s].id
  <2>1. /\ slot[s].stage = "dispatch" /\ UNCHANGED <<made, panel, outcome, polls, overlapped, crowded, lost>>
        /\ slot[s] \in SlotRecords /\ lost \in Nat /\ crowded \in BOOLEAN
    BY <1>2 DEF DispatchIntent, DeskShape, deskCounters
  <2>2. /\ i # Nobody /\ i \in made /\ slot[s].key.mode = "publish_now" /\ intent[i].born = "publish_now"
        /\ intent[i].accounts = slot[s].key.accounts
    BY <2>1 DEF RequestsFit
  <2>3. CASE intent[i].status \in Active
    <3> DEFINE r == IF slot[s].for = Nobody THEN Free ELSE [slot[s] EXCEPT !.stage = "dispatched"]
    <3>1. intent' = [intent EXCEPT ![i].status = "queued"] /\ slot' = [slot EXCEPT ![s] = r]
      BY <1>2, <2>3 DEF DispatchIntent, Reply
    <3>2. r \in SlotRecords /\ (r = Free \/ r = [slot[s] EXCEPT !.stage = "dispatched"])
      BY <2>1, FreeIsRecord DEF SlotRecords, Stages
    <3>3. PICK row \in Row : StatusRow(i, "queued", row)
      BY <2>2, <3>1, StatusChanges DEF Status, Active, Ended
    <3>4. "queued" \in Status \ {"draft"} /\ intent[i].status \notin Ended
      BY <2>3 DEF Status, Active, Ended
    <3>5. /\ row.key = intent[i].key /\ row.accounts = intent[i].accounts /\ row.born = intent[i].born
          /\ row.mode = intent[i].mode /\ row.status = "queued"
          /\ intent' = [intent EXCEPT ![i] = row]
      BY <3>3 DEF StatusRow
    <3>6. \E q \in Slots, x \in SlotRecords : /\ slot' = [slot EXCEPT ![q] = x] /\ slot[q].stage = "dispatch"
                                              /\ x = Free \/ x = [slot[q] EXCEPT !.stage = "dispatched"]
      BY <2>1, <3>1, <3>2
    <3> HIDE DEF r
    <3> QED BY <2>1, <2>2, <2>3, <3>4, <3>5, <3>6, RowInduction
  <2>4. CASE intent[i].status \notin Active
    <3> DEFINE r == IF slot[s].for = Nobody THEN Free ELSE [slot[s] EXCEPT !.stage = "refused"]
    <3>1. UNCHANGED intent /\ slot' = [slot EXCEPT ![s] = r]
      BY <1>2, <2>4 DEF DispatchIntent, Refuse, Reply
    <3>2. intent[i].status \in Ended
      BY <2>2, <2>4 DEF RowsFit, Status
    <3>3. /\ r \in SlotRecords
          /\ \/ r = Free
             \/ /\ r.stage = "refused" /\ r.for = slot[s].for /\ r.key = slot[s].key
                /\ r.mode = slot[s].mode /\ r.id = i
      BY <2>1, FreeIsRecord DEF SlotRecords, Stages
    <3> HIDE DEF r
    <3>4. /\ r.id # Nobody => /\ r.id \in made
                              /\ intent[r.id].accounts = r.key.accounts
                              /\ r.key.mode = "publish_now" => intent[r.id].born = "publish_now"
          /\ r.stage \notin {"created", "dispatch", "dispatched", "insert"}
          /\ r.stage = "refused" => r.id # Nobody /\ intent[r.id].status \in Ended
          /\ \/ r = Free
             \/ r.stage # "free" /\ r.for = slot[s].for /\ r.key = slot[s].key /\ r.mode = slot[s].mode
      BY <2>2, <3>2, <3>3, FreeIsRecord
    <3> QED BY <2>1, <3>1, <3>3, <3>4, ServedInduction
  <2> QED BY <2>3, <2>4
<1>3. ASSUME NEW i \in made, Pipeline(i) \/ RetryPublished(i) PROVE DeskInduction'
  <2>1. UNCHANGED <<made, panel, outcome, polls, lost, overlapped, crowded, slot>>
    BY <1>3 DEF Pipeline, RetryPublished, RunSchedule, EndIntent, deskCounters
  <2>2. PICK st \in {"queued", "published", "failed"} :
           /\ intent' = [intent EXCEPT ![i].status = st]
           /\ intent[i].status \in Ended => st \in Ended
           /\ intent[i].mode = "publish_now" /\ st \in Active => intent[i].status \in Active
    BY <1>3 DEF Pipeline, RetryPublished, RunSchedule, EndIntent, Ended, Active
  <2>3. st \in Status \ {"draft"}
    BY DEF Status, Active, Ended
  <2>4. PICK row \in Row : StatusRow(i, st, row)
    BY <2>2, <2>3, StatusChanges
  <2>5. row.status = st /\ row.mode = intent[i].mode
    BY <2>4 DEF StatusRow
  <2>6. row.key = intent[i].key /\ row.accounts = intent[i].accounts /\ row.born = intent[i].born
        /\ intent' = [intent EXCEPT ![i] = row]
    BY <2>4 DEF StatusRow
  <2> QED BY <2>1, <2>2, <2>3, <2>5, <2>6, RowInduction
<1>4. ASSUME NEW i \in made, Reschedule(i) PROVE DeskInduction'
  <2> DEFINE row == [intent[i] EXCEPT !.mode = "scheduled", !.status = IF @ = "draft" THEN "ready" ELSE @]
  <2>1. /\ UNCHANGED <<made, panel, outcome, polls, lost, overlapped, crowded, slot>>
        /\ intent[i].status \notin {"queued", "published"}
        /\ intent' = [intent EXCEPT ![i] = row]
    BY <1>4 DEF Reschedule, deskCounters
  <2>2. intent[i] \in Row \ {NoRow}
    BY DEF DeskShape, RowsFit, NoRow, Status, Active, Ended
  <2>3. /\ row \in Row /\ row.key = intent[i].key /\ row.accounts = intent[i].accounts
        /\ row.born = intent[i].born /\ row.mode = "scheduled"
        /\ row.status = IF intent[i].status = "draft" THEN "ready" ELSE intent[i].status
    BY <2>2 DEF Row, Status, Active, PublishModes
  <2>4. row.status \in Status \ {"draft"} /\ (intent[i].status \in Ended => row.status \in Ended)
    BY <2>3 DEF Status, Active, Ended, RowsFit
  <2> HIDE DEF row
  <2> QED BY <2>1, <2>3, <2>4, RowInduction
<1> QED BY <1>1, <1>2, <1>3, <1>4

\* Every step of panels and requests keeps the induction.
LEMMA DeskStepInduction ==
  ASSUME DeskInduction, [DeskNext]_deskVars
  PROVE  DeskInduction'
<1>1. CASE PanelStep
  BY <1>1, SubmitInduction, ReceiveInduction, PanelInduction DEF PanelStep
<1>2. ASSUME NEW s \in Slots, Receive(s) \/ Serve(s) \/ Reject(s) PROVE DeskInduction'
  BY <1>2, ReceiveInduction, ReadInduction, WriteInduction DEF Receive, Serve
<1>3. CASE \E i \in made : Pipeline(i) \/ RetryPublished(i) \/ Reschedule(i)
  BY <1>3, WriteInduction
<1>4. CASE UNCHANGED deskVars
  <2> USE <1>4 DEF deskVars, server, deskCounters, DeskInduction
  <2>1. DeskShape' /\ RowsFit' /\ RequestsFit' /\ WaitsFit'
    BY DEF DeskShape, RowsFit, RequestsFit, WaitsFit
  <2>2. ShownFits'
    BY DEF ShownFits, Watched, Terminal
  <2>3. PostsAlone'
    <3>1. \A a : ActivePosts(a)' = ActivePosts(a)
      BY DEF ActivePosts
    <3> QED BY <3>1 DEF PostsAlone
  <2> QED BY <2>1, <2>2, <2>3
<1> QED BY <1>1, <1>2, <1>3, <1>4 DEF DeskNext

\* The induction holds throughout; the theorems below follow from it.
LEMMA DeskInductionKept == DeskSpec => []DeskInduction
BY DeskInitInduction, DeskStepInduction, PTL DEF DeskSpec

-----------------------------------------------------------------------------
\* Whatever panels, requests and lost answers interleave: an answer fits its submission, and as long as
\* no requests overlapped one active post of a choice of accounts exists.
THEOREM DeskKept == DeskSpec => []DeskInvariant
<1>1. DeskInduction => DeskInvariant
  <2> SUFFICES ASSUME DeskInduction PROVE DeskInvariant
    OBVIOUS
  <2> USE DEF DeskInduction
  <2>1. DeskTypeOK
    BY DEF DeskShape, RequestsFit, ShownFits, DeskTypeOK, SlotRecords, PanelRecords
  <2>2. AnswerFits
    BY DEF ShownFits, AnswerFits, RowsFit
  <2>3. PostsExplained
    <3> SUFFICES ASSUME ~overlapped, ~crowded, NEW a \in AccountSets PROVE Cardinality(ActivePosts(a)) <= 1
      BY DEF PostsExplained
    <3>1. CASE ActivePosts(a) = {}
      BY <3>1, FS_EmptySet
    <3>2. ASSUME NEW i \in ActivePosts(a) PROVE Cardinality(ActivePosts(a)) <= 1
      <4>1. ActivePosts(a) = {i}
        BY DEF PostsAlone
      <4>2. Cardinality({i}) = 1
        BY FS_Singleton
      <4> QED BY <4>1, <4>2
    <3> QED BY <3>1, <3>2
  <2> QED BY <2>1, <2>2, <2>3 DEF DeskInvariant
<1> QED BY <1>1, DeskInductionKept, PTL

\* Nothing lost and nothing rejected: a post that is reported as failed has ended.
THEOREM FailureKept == DeskSpec => []FailureExplained
<1>1. DeskInduction => FailureExplained
  BY DEF DeskInduction, ShownFits, FailureExplained
<1> QED BY <1>1, DeskInductionKept, PTL

\* An end once shown stays until the user dismisses it or submits again: the polls that were in flight are cancelled with it.
THEOREM TerminalKept == DeskSpec => TerminalStays
<1>1. ASSUME DeskInduction, [DeskNext]_deskVars
      PROVE  [\A p \in Panels : Terminal(outcome[p]) => outcome'[p] \in {outcome[p], Blank}]_deskVars
  <2> SUFFICES ASSUME NEW p \in Panels, Terminal(outcome[p]), DeskNext
               PROVE  outcome'[p] \in {outcome[p], Blank}
    BY <1>1
  <2>1. polls[p] = {} /\ outcome[p] # Blank /\ \A s \in Slots : slot[s].for = p => p = Nobody
    BY <1>1, BlankIsRecord DEF DeskInduction, ShownFits, WaitsFit, Watched
  <2>2. outcome \in [Panels -> OutcomeRecords]
    BY <1>1 DEF DeskInduction, DeskShape
  <2>3. ASSUME NEW q \in Panels, NEW o, Show(q, o), q # p PROVE outcome'[p] = outcome[p]
    BY <2>2, <2>3 DEF Show
  <2>4. CASE PanelStep
    <3>1. ASSUME NEW q \in Panels, NEW s \in Slots, NEW want \in Key, NEW action \in Actions, NEW overdue \in BOOLEAN,
                 Submit(q, s, want, action, overdue)
          PROVE  outcome'[p] \in {outcome[p], Blank}
      BY <2>2, <3>1 DEF Submit, Show
    <3>2. ASSUME NEW q \in Panels, NEW s \in Slots, GiveUp(q, s) PROVE outcome'[p] \in {outcome[p], Blank}
      BY <2>1, <2>3, <3>2, IntentAssumption DEF GiveUp, IntentAssumption
    <3>3. ASSUME NEW q \in Panels, Clear(q) \/ PollSend(q) \/ PollAnswer(q) \/ \E answer \in Status : PollLost(q, answer)
          PROVE  outcome'[p] \in {outcome[p], Blank}
      BY <2>1, <2>2, <3>3 DEF Clear, Show, PollSend, PollAnswer, PollLost
    <3> QED BY <2>4, <3>1, <3>2, <3>3 DEF PanelStep
  <2>5. ASSUME NEW s \in Slots, Receive(s) \/ Serve(s) \/ Reject(s) PROVE outcome'[p] = outcome[p]
    <3>1. slot[s].for \in Panels \cup {Nobody}
      BY <1>1 DEF DeskInduction, DeskShape, SlotRecords
    <3>2. CASE Receive(s)
      BY <2>1, <2>3, <3>1, <3>2 DEF Receive, Created, Dispatched, Refused, Drop
    <3>3. CASE Serve(s) \/ Reject(s)
      BY <3>3 DEF Serve, Reject, LookupKey, MatchActive, InsertIntent, DispatchIntent
    <3> QED BY <2>5, <3>2, <3>3
  <2>6. ASSUME NEW i \in made, Pipeline(i) \/ RetryPublished(i) \/ Reschedule(i) PROVE outcome'[p] = outcome[p]
    BY <2>6 DEF Reschedule, Pipeline, RetryPublished, RunSchedule, EndIntent
  <2> QED BY <2>4, <2>5, <2>6 DEF DeskNext
<1> QED BY <1>1, DeskInductionKept, PTL DEF DeskSpec, TerminalStays
=============================================================================
