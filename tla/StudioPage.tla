----------------------------- MODULE StudioPage -----------------------------
(***************************************************************************)
(* The studio page: one tab views one generation job, named by its URL     *)
(* (generation-studio/page.tsx, generation-studio-workflow.ts).             *)
(*                                                                         *)
(* The page acts on a copy of the job, polled every 2 s, and each button    *)
(* sends a request for the job viewed when it was pressed; the answer runs  *)
(* in the page as it is by then, which may view another job or none.  What  *)
(* the server grants is taken from its guards; the rest of a job's life is  *)
(* GenerationJob.                                                           *)
(***************************************************************************)
EXTENDS Integers, FiniteSets

CONSTANTS Viewable,        \* jobs
          Pages,           \* open studio pages
          NoView,          \* no job in the URL
          MaxLaunches,     \* bound: launches and retries asked of a job
          MaxViews,        \* bound: changes of URL by the user
          MaxAsked         \* bound: requests a page waits for at a time

ASSUME PageAssumption ==
    /\ NoView \notin Viewable
    /\ {MaxLaunches, MaxViews, MaxAsked} \subseteq Nat

VARIABLES state,       \* status of each job in the database
          launches,    \* launches and retries granted to each job
          output,      \* jobs that have completed once and have an asset
          page,        \* the job each page views
          seen,        \* each page's copies of the jobs' statuses
          asked,       \* requests each page waits for
          activity,    \* the job whose publishing set the page's activity
          late,        \* history: it was not the job viewed by then
          drafts,      \* the page holds previewed scenes
          toasted,  \* the page has announced a preview since its URL changed
          views

jobState == <<state, launches, output>>
pageVars == <<jobState, page, seen, asked, activity, late, drafts, toasted, views>>

Waiting == {"draft"}                       \* draft and ready
Busy == {"running", "cancelling"}
Closed == {"completed", "failed"}          \* completed; failed or cancelled
State == {"none", "deleted"} \cup Waiting \cup Busy \cup Closed
Asks == {"launch", "stop", "abandon", "retry", "publish", "preview", "create"}

PageInit ==
    /\ state \in [Viewable -> {"none", "draft", "completed"}]
    /\ launches = [j \in Viewable |-> 0]
    /\ output = {j \in Viewable : state[j] = "completed"}
    /\ page = [p \in Pages |-> NoView]
    /\ seen = [p \in Pages |-> [j \in Viewable |-> "none"]]
    /\ asked = [p \in Pages |-> {}]
    /\ activity = [p \in Pages |-> NoView]
    /\ late = [p \in Pages |-> FALSE]
    /\ drafts = [p \in Pages |-> FALSE]
    /\ toasted = [p \in Pages |-> FALSE]
    /\ views = 0

Copy(p) == IF page[p] = NoView THEN "none" ELSE seen[p][page[p]]

\* deriveStudioWorkflowPhase and isPublicationTabUnlocked.
Unlocked(p) == activity[p] # NoView \/ Copy(p) = "completed"

\* A mutant: the activity is kept.
Move(p, j) ==
    /\ page' = [page EXCEPT ![p] = j]
    /\ drafts' = [drafts EXCEPT ![p] = @ /\ j # NoView]
    /\ UNCHANGED <<activity, late>>

\* The URL changes: the activity is idle again, and previewed scenes are
\* dropped once no job is viewed any more.
Reset(p, j) ==
    /\ page' = [page EXCEPT ![p] = j]
    /\ activity' = [activity EXCEPT ![p] = NoView]
    /\ late' = [late EXCEPT ![p] = FALSE]
    /\ drafts' = [drafts EXCEPT ![p] = @ /\ j # NoView]

Leave(p, j) == IF j = page[p] THEN UNCHANGED <<page, activity, late, drafts>> ELSE Reset(p, j)

Open(p, j) ==
    /\ j # page[p]
    /\ j \in {NoView} \cup {k \in Viewable : state[k] # "none"}
    /\ views < MaxViews
    /\ views' = views + 1
    /\ Leave(p, j)
    /\ toasted' = [toasted EXCEPT ![p] = FALSE]
    /\ UNCHANGED <<jobState, seen, asked>>

\* The poll of the viewed job; a refused one keeps the old copy.
Poll(p) ==
    /\ page[p] # NoView
    /\ state[page[p]] # "deleted"
    /\ seen' = [seen EXCEPT ![p][page[p]] = state[page[p]]]
    /\ UNCHANGED <<jobState, page, asked, activity, late, drafts, toasted, views>>

\* What the page offers for the copy it holds.
Offered(p, ask) ==
    CASE ask = "launch" -> Copy(p) \in Waiting
      [] ask = "stop" -> Copy(p) = "running"
      [] ask = "abandon" -> Copy(p) \in Waiting \cup Closed
      [] ask = "retry" -> Copy(p) \in Closed
      [] ask = "publish" -> page[p] # NoView /\ Unlocked(p)
      [] ask \in {"preview", "create"} -> TRUE

\* A button is disabled while its own request is out, and only then.
Ask(p, ask) ==
    /\ Offered(p, ask)
    /\ \A a \in asked[p] : a.ask # ask
    /\ Cardinality(asked[p]) < MaxAsked
    /\ ask \in {"launch", "retry"} => launches[page[p]] < MaxLaunches
    /\ asked' = [asked EXCEPT ![p] = @ \cup {[ask |-> ask, job |-> page[p]]}]
    /\ UNCHANGED <<jobState, page, seen, activity, late, drafts, toasted, views>>

Answered(p, ask, j) ==
    /\ [ask |-> ask, job |-> j] \in asked[p]
    /\ asked' = [asked EXCEPT ![p] = @ \ {[ask |-> ask, job |-> j]}]

Becomes(j, s) == state' = [state EXCEPT ![j] = s]

\* handleLaunchPipeline and retryStep.
Started(p, ask, j) ==
    /\ ask \in {"launch", "retry"}
    /\ Answered(p, ask, j)
    /\ state[j] \in IF ask = "launch" THEN Waiting ELSE Closed
    /\ Becomes(j, "running")
    /\ launches' = [launches EXCEPT ![j] = @ + 1]
    /\ UNCHANGED <<output, page, seen, activity, late, drafts, toasted, views>>

\* handleStopPipeline.
Stopped(p, j) ==
    /\ Answered(p, "stop", j)
    /\ state[j] = "running"
    /\ Becomes(j, "cancelling")
    /\ UNCHANGED <<launches, output, page, seen, activity, late, drafts, toasted, views>>

\* handleAbandonJob: the page leaves for no job, whatever it views by now.
Abandoned(p, j) ==
    /\ Answered(p, "abandon", j)
    /\ state[j] \in Waiting \cup Closed
    /\ Becomes(j, "deleted")
    /\ Leave(p, NoView)
    /\ UNCHANGED <<launches, output, seen, toasted, views>>

\* handleCreateDraft: the page goes to the new job, whatever it views by now.
Drafted(p, j, k) ==
    /\ Answered(p, "create", j)
    /\ state[k] = "none"
    /\ Becomes(k, "draft")
    /\ Leave(p, k)
    /\ UNCHANGED <<launches, output, seen, toasted, views>>

\* handlePreview: the scenes are stored, then the page leaves for no job,
\* and leaving a job drops them.
Previewed(p, j) ==
    /\ Answered(p, "preview", j)
    /\ page' = [page EXCEPT ![p] = NoView]
    /\ drafts' = [drafts EXCEPT ![p] = page[p] = NoView]
    /\ IF page[p] = NoView THEN UNCHANGED <<activity, late>>
       ELSE /\ activity' = [activity EXCEPT ![p] = NoView]
            /\ late' = [late EXCEPT ![p] = FALSE]
    /\ toasted' = [toasted EXCEPT ![p] = TRUE]
    /\ UNCHANGED <<jobState, seen, views>>

\* The panel reports its activity to the page, whatever it views by now.
Published(p, j) ==
    /\ Answered(p, "publish", j)
    /\ j \in output
    /\ state[j] # "deleted"
    /\ activity' = [activity EXCEPT ![p] = j]
    /\ late' = [late EXCEPT ![p] = @ \/ j # page[p]]
    /\ UNCHANGED <<jobState, page, seen, drafts, toasted, views>>

\* The server refuses, or the answer is lost: a message and nothing else.
Failed(p, ask, j) ==
    /\ Answered(p, ask, j)
    /\ UNCHANGED <<jobState, page, seen, activity, late, drafts, toasted, views>>

EndOfRun(j, s) ==
    /\ state[j] \in Busy
    /\ state[j] = "cancelling" => s = "failed"
    /\ Becomes(j, s)
    /\ output' = IF s = "completed" THEN output \cup {j} ELSE output
    /\ UNCHANGED <<launches, page, seen, asked, activity, late, drafts, toasted, views>>

-----------------------------------------------------------------------------
PageNext ==
    \/ \E p \in Pages, j \in Viewable \cup {NoView} : Open(p, j)
    \/ \E p \in Pages : Poll(p)
    \/ \E p \in Pages, ask \in Asks : Ask(p, ask)
    \/ \E p \in Pages, ask \in Asks, j \in Viewable : Started(p, ask, j)
    \/ \E p \in Pages, j \in Viewable : Stopped(p, j) \/ Abandoned(p, j) \/ Published(p, j)
    \/ \E p \in Pages, j \in Viewable \cup {NoView}, k \in Viewable : Drafted(p, j, k)
    \/ \E p \in Pages, j \in Viewable \cup {NoView} : Previewed(p, j)
    \/ \E p \in Pages, ask \in Asks, j \in Viewable \cup {NoView} : Failed(p, ask, j)
    \/ \E j \in Viewable, s \in Closed : EndOfRun(j, s)

PageSpec == PageInit /\ [][PageNext]_pageVars

-----------------------------------------------------------------------------
PageTypeOK ==
    /\ state \in [Viewable -> State]
    /\ output \subseteq Viewable
    /\ page \in [Pages -> Viewable \cup {NoView}]
    /\ seen \in [Pages -> [Viewable -> State]]
    /\ \A p \in Pages : asked[p] \subseteq [ask : Asks, job : Viewable \cup {NoView}]
    /\ activity \in [Pages -> Viewable \cup {NoView}]

\* The publication part is open only for a job that has completed, unless
\* the answer to a publish request came in after the page had moved on: no
\* activity of one job carries over to the next.
UnlockedExplained ==
    \A p \in Pages :
        page[p] # NoView /\ Unlocked(p) => late[p] \/ page[p] \in output

\* Types and the lock of the publication part.
PageInvariant == PageTypeOK /\ UnlockedExplained
=============================================================================
