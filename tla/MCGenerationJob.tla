---------------------------- MODULE MCGenerationJob ----------------------------
(***************************************************************************)
(* Generation jobs, the two kinds of requests their steps make of outside  *)
(* providers, and the older generation into the calendar.  The modules     *)
(* share no state (a job takes a provider's answer as an input): one of    *)
(* them moves in a behaviour.                                              *)
(***************************************************************************)
EXTENDS GenerationJob, MediaProviders, TextProviders, ContentCalendar, TLC

CONSTANTS t1, t2, r1, r2

\* docker-compose.yml runs one content factory; docker-compose.prod.yml asks for two.
OneReplica == [t \in Tasks |-> r1]
TwoReplicas == [t \in Tasks |-> IF t = t1 THEN r1 ELSE r2]

VARIABLE part

GenInit ==
    /\ part \in {"job", "media", "text", "calendar"}
    /\ Init /\ MediaInit /\ TextInit /\ CalendarInit
    \* A part that does not move has one initial state.
    /\ part # "media" => call.kind = "photo" /\ ~call.source
    /\ part # "text" => /\ text.kind = "reply" /\ text.from = "gemini" /\ text.wanted = 1
                        /\ ~text.synthetic

GenNext ==
    /\ \/ part = "job" /\ Next /\ UNCHANGED <<mediaVars, textVars, calendarVars>>
       \/ part = "media" /\ MediaNext /\ UNCHANGED <<vars, textVars, calendarVars>>
       \/ part = "text" /\ TextNext /\ UNCHANGED <<vars, mediaVars, calendarVars>>
       \/ part = "calendar" /\ CalendarNext /\ UNCHANGED <<vars, mediaVars, textVars>>
    /\ UNCHANGED part

GenSpec == GenInit /\ [][GenNext]_<<vars, mediaVars, textVars, calendarVars, part>>

\* Background tasks of one process are interchangeable.
Symmetric == Permutations(Tasks)
=============================================================================
