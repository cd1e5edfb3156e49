------------------------------ MODULE MCPosting ------------------------------
(***************************************************************************)
(* The two other ways a post goes out: the emulators and the legacy queue.  *)
(* They share no state: one of them moves in a behaviour.                   *)
(***************************************************************************)
EXTENDS DeviceFleet, LegacyPacketQueue, TLC

CONSTANTS o1

AllSenders == [p \in Packets |-> Senders]

VARIABLE part

PostingInit == FleetInit /\ LegacyInit /\ part \in {"fleet", "legacy"}

PostingNext ==
    /\ \/ part = "fleet" /\ FleetNext /\ UNCHANGED legacyVars
       \/ part = "legacy" /\ LegacyNext /\ UNCHANGED fleetVars
    /\ UNCHANGED part

PostingSpec == PostingInit /\ [][PostingNext]_<<fleetVars, legacyVars, part>>

PostingSymmetry ==
    Permutations(Users) \cup Permutations(Serials) \cup Permutations(Avds) \cup Permutations(Egresses)
    \cup Permutations(Callers)
=============================================================================
