------------------------------ MODULE JobDock ------------------------------
(***************************************************************************)
(* The dock of the dashboard, which follows the generation jobs started    *)
(* from a browser and announces their ends (GenerationJobProgressDock.tsx,  *)
(* generation-dock.ts, generation-job-tracking.ts).                         *)
(*                                                                         *)
(* The ids are kept in local storage, which all tabs share; each tab has a  *)
(* copy of the list and a cache that keeps the last answer of every list,   *)
(* so that a list that comes back shows its old answer before a new one.    *)
(* A job has the statuses the dock tells apart: live, over or deleted.  How *)
(* it gets them is GenerationJob.                                           *)
(***************************************************************************)
EXTENDS Integers, Sequences

CONSTANTS Followed,        \* jobs that may be followed
          Tabs,            \* tabs of one browser
          MaxTracked,      \* ids local storage keeps
          MaxRuns,         \* bound: runs of a job
          MaxTracks        \* bound: changes of the tracked list

ASSUME DockAssumption ==
    /\ MaxTracked \in Nat \ {0}
    /\ MaxRuns \in Nat /\ MaxTracks \in Nat

VARIABLES status,      \* of each job in the database
          ends,        \* history: how often each job has ended
          tracked,     \* local storage: ids, newest first
          dock,        \* the ids each tab's dock follows
          cached,      \* the dock's answers, per tab and list of ids
          fetching,    \* the lists of ids each dock is fetching
          previous,    \* status of each job when the dock last looked at it
          announced,   \* history: ends each dock has announced
          replayed,    \* history: lists that came back with an old answer
          tracks

shown == <<cached, fetching, previous, announced, replayed>>
dockVars == <<status, ends, tracked, dock, shown, tracks>>

Statuses == {"none", "live", "over", "deleted"}

Ids(list) == {list[k] : k \in DOMAIN list}
Lists == UNION {{list \in [1..n -> Followed] : \A a, b \in 1..n : list[a] = list[b] => a = b}
                : n \in 0..MaxTracked}

\* ids.filter(id => id !== j): an id is in a list once.
Without(list, j) ==
    IF j \in Ids(list)
    THEN LET k == CHOOSE k \in DOMAIN list : list[k] = j
         IN SubSeq(list, 1, k - 1) \o SubSeq(list, k + 1, Len(list))
    ELSE list

Unknown == [j \in Followed |-> "none"]

DockInit ==
    /\ status \in [Followed -> {"live", "over"}]
    /\ ends = [j \in Followed |-> 0]
    /\ tracked = <<>>
    /\ dock = [t \in Tabs |-> <<>>]
    /\ cached = [t \in Tabs |-> [list \in Lists |-> Unknown]]
    /\ fetching = [t \in Tabs |-> {}]
    /\ previous = [t \in Tabs |-> Unknown]
    /\ announced = [t \in Tabs |-> [j \in Followed |-> 0]]
    /\ replayed = [t \in Tabs |-> 0]
    /\ tracks = 0

\* The effect on new data: a job that was live and is not any more is
\* announced; the statuses are remembered either way.
Announces(t, data) == {j \in Followed : previous[t][j] = "live" /\ data[j] = "over"}

\* A mutant: only the first status of a job is remembered.
RememberFirst(t, data) ==
    previous' = [previous EXCEPT ![t] = [j \in Followed |-> IF @[j] = "none" THEN data[j] ELSE @[j]]]

Remember(t, data) ==
    previous' = [previous EXCEPT ![t] = [j \in Followed |-> IF data[j] = "none" THEN @[j] ELSE data[j]]]

Look(t, data) ==
    /\ announced' = [announced EXCEPT ![t] =
                       [j \in Followed |-> IF j \in Announces(t, data) THEN @[j] + 1 ELSE @[j]]]
    /\ Remember(t, data)

\* The dock of tab t follows the list: the answer kept for that very list,
\* if any, is looked at before a fresh one arrives.
Follow(t, list) ==
    /\ dock' = [dock EXCEPT ![t] = list]
    /\ IF list = dock[t] THEN UNCHANGED <<previous, announced, replayed>>
       ELSE /\ Look(t, cached[t][list])
            /\ replayed' = [replayed EXCEPT ![t] = IF cached[t][list] = Unknown THEN @ ELSE @ + 1]
    /\ UNCHANGED <<cached, fetching>>

Changes ==
    /\ tracks < MaxTracks
    /\ tracks' = tracks + 1

\* A job is created, launched or simulated from tab t: its id comes first,
\* the oldest one falls out, and the dock of the same tab follows at once.
Track(t, j) ==
    LET list == <<j>> \o Without(tracked, j)
    IN /\ Changes
       /\ status[j] # "deleted"
       /\ tracked' = SubSeq(list, 1, IF Len(list) < MaxTracked THEN Len(list) ELSE MaxTracked)
       /\ Follow(t, tracked')
       /\ UNCHANGED <<status, ends>>

\* The cross of an entry that does not look live.
Dismiss(t, j) ==
    /\ Changes
    /\ j \in Ids(dock[t])
    /\ cached[t][dock[t]][j] # "live"
    /\ tracked' = Without(tracked, j)
    /\ Follow(t, tracked')
    /\ UNCHANGED <<status, ends>>

\* The storage event reaches another tab.
SyncIds(t) ==
    /\ dock[t] # tracked
    /\ Follow(t, tracked)
    /\ UNCHANGED <<status, ends, tracked, tracks>>

FetchStart(t) ==
    /\ dock[t] # <<>>
    /\ dock[t] \notin fetching[t]
    /\ fetching' = [fetching EXCEPT ![t] = @ \cup {dock[t]}]
    /\ UNCHANGED <<status, ends, tracked, dock, cached, previous, announced, replayed, tracks>>

\* A mutant: an answer is looked at and not kept.
FetchLook(t, list) ==
    LET data == [j \in Followed |-> IF j \in Ids(list) THEN status[j] ELSE "none"]
    IN /\ list \in fetching[t]
       /\ fetching' = [fetching EXCEPT ![t] = @ \ {list}]
       /\ IF list = dock[t] THEN Look(t, data) ELSE UNCHANGED <<previous, announced>>
       /\ UNCHANGED <<status, ends, tracked, dock, cached, replayed, tracks>>

\* All ids are read at once and one that is refused fails them all: a
\* deleted job (404) leaves the whole list as it was.
FetchEnd(t, list) ==
    LET data == [j \in Followed |-> IF j \in Ids(list) THEN status[j] ELSE "none"]
        ok == \A j \in Ids(list) : status[j] # "deleted"
    IN /\ list \in fetching[t]
       /\ fetching' = [fetching EXCEPT ![t] = @ \ {list}]
       /\ cached' = IF ok THEN [cached EXCEPT ![t][list] = data] ELSE cached
       /\ IF ok /\ list = dock[t] THEN Look(t, data) ELSE UNCHANGED <<previous, announced>>
       /\ UNCHANGED <<status, ends, tracked, dock, replayed, tracks>>

\* What becomes of a job: it ends (or its cancellation does), is run again
\* by a retry, or is abandoned.
EndRun(j) ==
    /\ status[j] = "live"
    /\ status' = [status EXCEPT ![j] = "over"]
    /\ ends' = [ends EXCEPT ![j] = @ + 1]
    /\ UNCHANGED <<tracked, dock, shown, tracks>>

Rerun(j) ==
    /\ status[j] = "over"
    /\ ends[j] < MaxRuns
    /\ status' = [status EXCEPT ![j] = "live"]
    /\ UNCHANGED <<ends, tracked, dock, shown, tracks>>

Abandon(j) ==
    /\ status[j] \in {"live", "over"}
    /\ status' = [status EXCEPT ![j] = "deleted"]
    /\ UNCHANGED <<ends, tracked, dock, shown, tracks>>

-----------------------------------------------------------------------------
DockNext ==
    \/ \E t \in Tabs, j \in Followed : Track(t, j) \/ Dismiss(t, j)
    \/ \E t \in Tabs : SyncIds(t) \/ FetchStart(t)
    \/ \E t \in Tabs, list \in Lists : FetchEnd(t, list)
    \/ \E j \in Followed : EndRun(j) \/ Rerun(j) \/ Abandon(j)

\* Events and answers arrive and the interval fires.
DockFairness ==
    /\ \A t \in Tabs : WF_dockVars(SyncIds(t)) /\ WF_dockVars(FetchStart(t))
    /\ \A t \in Tabs, list \in Lists : WF_dockVars(FetchEnd(t, list))

DockSpec == DockInit /\ [][DockNext]_dockVars /\ DockFairness

-----------------------------------------------------------------------------
DockTypeOK ==
    /\ status \in [Followed -> Statuses]
    /\ tracked \in Lists
    /\ dock \in [Tabs -> Lists]
    /\ fetching \in [Tabs -> SUBSET Lists]
    /\ cached \in [Tabs -> [Lists -> [Followed -> Statuses]]]
    /\ previous \in [Tabs -> [Followed -> Statuses]]

\* A dock announces the end of a job no more often than the job ended,
\* except for lists that came back with the answer they had before.
AnnouncementsBounded ==
    \A t \in Tabs, j \in Followed : announced[t][j] <= ends[j] + replayed[t]

\* Types and the bound.
DockInvariant == DockTypeOK /\ AnnouncementsBounded

\* A tracked job that is over is shown as over by the dock of every tab,
\* unless it is dismissed, pushed out of the list or run again, or a deleted
\* job of the list keeps all of them from being read.
EndIsShown ==
    \A t \in Tabs, j \in Followed :
        (j \in Ids(tracked) /\ status[j] = "over")
            ~> \/ j \notin Ids(tracked)
               \/ status[j] # "over"
               \/ j \in Ids(dock[t]) /\ cached[t][dock[t]][j] = "over"
               \/ \E k \in Ids(tracked) : status[k] = "deleted"
=============================================================================
