--------------------------- MODULE MCPublishPipeline ---------------------------
(* Instances of PublishPipeline for TLC. *)
EXTENDS PublishPipeline, TLC

CONSTANTS i1, t1, t2, w1, w2

MCIntentOf == [t \in Targets |-> i1]

\* Workers are interchangeable, and so are the targets of the one intent.
Symmetric == Permutations(Workers) \cup Permutations(Targets)
=============================================================================
