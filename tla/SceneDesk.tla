------------------------------ MODULE SceneDesk ------------------------------
(***************************************************************************)
(* Editing the scenes of a planned job: order, previews and text            *)
(* (reorder_scenes, preview_scene_media and patch_scene of                  *)
(* generation_jobs.py, generate_scene_preview of the orchestrator, the      *)
(* handlers of the studio page).                                            *)
(*                                                                         *)
(* Every request reads the rows, and writes what it made of them later: a   *)
(* reorder after the statements of another one, a preview after minutes at  *)
(* a provider.  Meanwhile the page stays usable, the pipeline writes back   *)
(* the metadata it loaded when it started, and a retry from the planning    *)
(* replaces all scenes.  One pipeline of the job runs at a time.            *)
(***************************************************************************)
EXTENDS Integers, FiniteSets

CONSTANTS NumRows,         \* scenes of the plan
          Handlers,        \* requests the server works on at a time
          Texts,           \* prompts a user may save
          Worked,          \* bound: the scenes previewed and edited
          MaxPlans,        \* bound: plans of the job
          MaxOrders        \* bound: reorders in a behaviour

ASSUME SceneAssumption ==
    /\ NumRows \in Nat \ {0}
    /\ Worked \subseteq 0..(NumRows - 1)
    /\ MaxPlans \in Nat /\ MaxOrders \in Nat

Places == 0..(NumRows - 1)
Kinds == {"image", "video"}
Parts == Kinds \cup {"run"}            \* of a scene's metadata: previews, pipeline

VARIABLES plan,        \* which plan the scenes are of
          place,       \* scene_index of each scene
          meta,        \* scene_metadata of each scene
          text,        \* prompt of each scene
          handler,     \* the request each handler works on
          pipeline,    \* the scenes in the session of the job's pipeline
          said,        \* what the page last said about each scene's prompt
          written,     \* history: parts written to each scene's metadata
          crossed,     \* history: a reorder overwrote another's result
          overwritten, \* history: scenes whose metadata changed under a writer
          orders

sceneRows == <<plan, place, meta, text>>
sceneHistory == <<said, written, crossed, overwritten>>
sceneVars == <<sceneRows, handler, pipeline, sceneHistory, orders>>

Planned == "planned"                   \* the text the planning gave a scene
Nothing == [does |-> "nothing"]

Orders == {f \in [Places -> Places] : \A r, q \in Places : f[r] = f[q] => r = q}

SceneInit ==
    /\ plan = 0
    /\ place = [r \in Places |-> r]
    /\ meta = [r \in Places |-> {}]
    /\ text = [r \in Places |-> Planned]
    /\ handler = [h \in Handlers |-> Nothing]
    /\ pipeline = Nothing
    /\ said = [r \in Places |-> Planned]
    /\ written = [r \in Places |-> {}]
    /\ crossed = FALSE
    /\ overwritten = {}
    /\ orders = 0

Take(h, request) ==
    /\ handler[h] = Nothing
    /\ handler' = [handler EXCEPT ![h] = request]

Rest(h) == handler' = [handler EXCEPT ![h] = Nothing]

\* A mutant: a list is accepted when it is long enough.
LongEnough(order) == order \in [Places -> Places]

\* A list is accepted when it names the scenes of the plan; the page sends
\* its own order with one scene moved.
Accepted(order) == order \in Orders

ReorderStart(h, order) ==
    /\ Accepted(order)
    /\ orders < MaxOrders
    /\ orders' = orders + 1
    /\ Take(h, [does |-> "order", plan |-> plan, read |-> place, order |-> order])
    /\ UNCHANGED <<sceneRows, pipeline, sceneHistory>>

\* The flush writes the index of the scenes whose index differs from the one
\* that was read.  The rows of an older plan are gone: the request fails.
ReorderEnd(h) ==
    LET c == handler[h] IN
    /\ c.does = "order"
    /\ Rest(h)
    /\ IF c.plan # plan THEN UNCHANGED <<place, crossed>>
       ELSE /\ place' = [r \in Places |-> IF c.order[r] # c.read[r] THEN c.order[r] ELSE place[r]]
            /\ crossed' = (crossed \/ place # c.read)
    /\ UNCHANGED <<plan, meta, text, pipeline, said, written, overwritten, orders>>

\* A preview works on a copy of the metadata from before it asks a provider.
PreviewStart(h, r, kind) ==
    /\ Take(h, [does |-> kind, plan |-> plan, row |-> r, read |-> meta[r]])
    /\ UNCHANGED <<sceneRows, pipeline, sceneHistory, orders>>

\* A copy with the part in it replaces the whole column.
Replaces(r, read, part) ==
    /\ meta' = [meta EXCEPT ![r] = read \cup {part}]
    /\ written' = [written EXCEPT ![r] = @ \cup {part}]
    /\ overwritten' = IF meta[r] \subseteq read THEN overwritten ELSE overwritten \cup {r}

PreviewEnd(h) ==
    LET c == handler[h] IN
    /\ c.does \in Kinds
    /\ Rest(h)
    /\ IF c.plan # plan THEN UNCHANGED <<meta, written, overwritten>>
       ELSE Replaces(c.row, c.read, c.does)
    /\ UNCHANGED <<plan, place, text, pipeline, said, crossed, orders>>

\* No clip yet, no credits, no answer.
PreviewFailed(h) ==
    /\ handler[h].does \in Kinds
    /\ Rest(h)
    /\ UNCHANGED <<sceneRows, pipeline, sceneHistory, orders>>

\* _execute_pipeline loads the job with its scenes; a later select or refresh finds the same
\* objects in the session, and a commit does not expire them.
RunStarts ==
    /\ pipeline = Nothing
    /\ pipeline' = [does |-> "run", read |-> meta]
    /\ UNCHANGED <<sceneRows, handler, sceneHistory, orders>>

\* A step adds what it made to the metadata in the session and commits the whole of it.
StepWrites(r) ==
    /\ pipeline.does = "run"
    /\ Replaces(r, pipeline.read[r], "run")
    /\ pipeline' = [pipeline EXCEPT !.read[r] = @ \cup {"run"}]
    /\ UNCHANGED <<plan, place, text, handler, said, crossed, orders>>

RunEnds ==
    /\ pipeline.does = "run" /\ pipeline' = Nothing
    /\ UNCHANGED <<sceneRows, handler, sceneHistory, orders>>

\* patch_scene assigns the new values and refreshes the row before they are
\* flushed, which discards them; the page says "Scene updated." all the same.
PatchScene(r, t) ==
    /\ said' = [said EXCEPT ![r] = t]
    /\ UNCHANGED <<sceneRows, handler, pipeline, written, crossed, overwritten, orders>>

\* Other scenes in the place of these: a run or a retry that plans deletes them, and its session keeps
\* the scenes it inserts.
Replan ==
    /\ plan < MaxPlans
    /\ pipeline' = [does |-> "run", read |-> [r \in Places |-> {}]]
    /\ plan' = plan + 1
    /\ place' = [r \in Places |-> r]
    /\ meta' = [r \in Places |-> {}]
    /\ text' = [r \in Places |-> Planned]
    /\ said' = [r \in Places |-> Planned]
    /\ written' = [r \in Places |-> {}]
    /\ crossed' = FALSE
    /\ overwritten' = {}
    /\ UNCHANGED <<handler, orders>>

SceneNext ==
    \/ \E h \in Handlers, order \in [Places -> Places] : ReorderStart(h, order)
    \/ \E h \in Handlers, r \in Worked, kind \in Kinds : PreviewStart(h, r, kind)
    \/ \E h \in Handlers : ReorderEnd(h) \/ PreviewEnd(h) \/ PreviewFailed(h)
    \/ RunStarts \/ RunEnds
    \/ \E r \in Worked : StepWrites(r)
    \/ \E r \in Worked, t \in Texts : PatchScene(r, t)
    \/ Replan

SceneSpec == SceneInit /\ [][SceneNext]_sceneVars
-----------------------------------------------------------------------------
SceneTypeOK ==
    /\ plan \in 0..MaxPlans
    /\ place \in [Places -> Places]
    /\ meta \in [Places -> SUBSET Parts]
    /\ text \in [Places -> Texts \cup {Planned}]
    /\ said \in [Places -> Texts \cup {Planned}]
    /\ written \in [Places -> SUBSET Parts]

\* The scenes have different places unless a reorder wrote over the result
\* of another one: no unique constraint says so, reorder_scenes and the
\* planning together do.
OrderExplained == ~crossed => place \in Orders

\* A preview or pipeline result once stored on a scene is still there, unless
\* a preview or a pipeline that had read the metadata before it wrote after it.
ResultsKept == \A r \in Places : r \notin overwritten => written[r] = meta[r]

\* Types, and what requests that work on the same rows leave behind.
SceneInvariant == SceneTypeOK /\ OrderExplained /\ ResultsKept

\* "Scene updated.": what the page said about a scene is what the plan holds.
EditStored == \A r \in Places : said[r] = text[r]
=============================================================================
