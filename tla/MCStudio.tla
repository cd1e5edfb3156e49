------------------------------ MODULE MCStudio ------------------------------
(***************************************************************************)
(* The studio pages with the requests they send, and engagement intents.    *)
(* The parts share no state (what becomes of an intent or a job is left     *)
(* open in each of them): one of them moves in a behaviour.                 *)
(***************************************************************************)
EXTENDS IntentCreation, JobDock, StudioPage, SceneDesk, EngagementPipeline, TLC

CONSTANTS i1, x1

OneTarget == [i \in Engagements |-> x1]

VARIABLE part

\* Bound: of a loss, a retry and a reschedule one or two happen; three submissions are of one panel and
\* make posts only, with nothing lost, retried or polled.
DeskBound ==
    /\ lost' + reopened' + Cardinality({i \in made' : intent'[i].mode # intent'[i].born}) < 3
    /\ submits' = 3 => /\ lost' + reopened' = 0
                       /\ \E p \in Panels : panel'[p] = Quiet
                       /\ \A i \in made' : intent'[i].born = "publish_now"
                       /\ \A p \in Panels : polls'[p] = {}

\* Bound: reorders and previews write different columns; a behaviour has one or the other.
ScenesBound == orders' > 0 => \A h \in Handlers : handler'[h].does \notin Kinds

StudioInit ==
    /\ DeskInit /\ DockInit /\ PageInit /\ SceneInit /\ EngagementInit
    /\ part \in {"desk", "dock", "page", "scenes", "engagement"}
    /\ part # "dock" => \A j \in Followed : status[j] = "over"
    /\ part # "page" => \A j \in Viewable : state[j] = "none"

StudioNext ==
    /\ \/ part = "desk" /\ DeskNext /\ DeskBound /\ UNCHANGED <<dockVars, pageVars, sceneVars, engagementVars>>
       \/ part = "dock" /\ DockNext /\ UNCHANGED <<deskVars, pageVars, sceneVars, engagementVars>>
       \/ part = "page" /\ PageNext /\ UNCHANGED <<deskVars, dockVars, sceneVars, engagementVars>>
       \/ part = "scenes" /\ SceneNext /\ ScenesBound /\ UNCHANGED <<deskVars, dockVars, pageVars, engagementVars>>
       \/ part = "engagement" /\ EngagementNext /\ UNCHANGED <<deskVars, dockVars, pageVars, sceneVars>>
    /\ UNCHANGED part

StudioSpec == StudioInit /\ [][StudioNext]_<<deskVars, dockVars, pageVars, sceneVars, engagementVars, part>>

\* The parts are independent, so sets of different parts (of two elements each)
\* are swapped together: a group of eight, where all permutations would be 1024.
Swap(S) == [x \in S |-> CHOOSE y \in S : S = {x, y}]
Same(S) == [x \in S |-> x]

StudioSymmetry ==
    Permutations(AccountSets)
    \cup {IF swapped THEN Swap(Slots) @@ Swap(Tabs) ELSE Same(Slots \cup Tabs) : swapped \in BOOLEAN}
    \cup {IF swapped THEN Swap(Panels) @@ Swap(Followed) @@ Swap(Viewable) @@ Swap(Handlers) @@ Swap(Workers)
          ELSE Same(Panels \cup Followed \cup Viewable \cup Handlers \cup Workers) : swapped \in BOOLEAN}
=============================================================================
