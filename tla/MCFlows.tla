------------------------------ MODULE MCFlows ------------------------------
(***************************************************************************)
(* Liveness of a generation job, of the publish panel, of the dock and of   *)
(* an engagement intent.  They share no state: one of them moves in a       *)
(* behaviour and the others stay in an initial state, in which no step that *)
(* is obliged to happen is enabled.                                         *)
(***************************************************************************)
EXTENDS GenerationJob, IntentCreation, JobDock, EngagementPipeline, TLC

CONSTANTS t1, t2, r1, r2, i1, x1, w1, w2

OneReplica == [t \in Tasks |-> r1]
OneTarget == [i \in Engagements |-> x1]

VARIABLE part

studioVars == <<vars, deskVars, dockVars>>

FlowsInit ==
    /\ Init /\ DeskInit /\ DockInit /\ EngagementInit
    /\ part \in {"job", "desk", "dock", "engagement"}
    /\ part # "dock" => \A j \in Followed : status[j] = "over"

\* Two requests of a job that read its row first, or one and an accepted retry; it is followed
\* until a restart.
JobBound == crashes = 0 /\ nreq' + claims' <= 2

\* Of a loss, a retry and a reschedule one or two happen to a panel.
DeskBound ==
    lost' + reopened' + Cardinality({i \in made' : intent'[i].mode # intent'[i].born}) < 3

FlowsNext ==
    /\ \/ part = "job" /\ Next /\ JobBound /\ UNCHANGED <<deskVars, dockVars, engagementVars>>
       \/ part = "desk" /\ DeskNext /\ DeskBound /\ UNCHANGED <<vars, dockVars, engagementVars>>
       \/ part = "dock" /\ DockNext /\ UNCHANGED <<vars, deskVars, engagementVars>>
       \/ part = "engagement" /\ EngagementNext /\ UNCHANGED studioVars
    /\ UNCHANGED part

FlowsSpec ==
    /\ FlowsInit /\ [][FlowsNext]_<<studioVars, engagementVars, part>>
    /\ Fairness /\ DeskFairness /\ DockFairness /\ EngagementFairness
=============================================================================
