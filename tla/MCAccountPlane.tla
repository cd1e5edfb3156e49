-------------------------- MODULE MCAccountPlane --------------------------
(***************************************************************************)
(* The two modules share no state: one of them moves in a behaviour.       *)
(***************************************************************************)
EXTENDS ProxyPool, AccountCare, TLC

VARIABLE part

PlaneInit ==
    /\ Init
    /\ CareInit
    /\ part \in {"pool", "care"}
    /\ part = "care" => proxies = {} /\ accounts = {} /\ personas = {}
    /\ part = "pool" => /\ proxies = Proxies
                       /\ Cardinality(accounts) >= 2
                       /\ \A a \in Watched : status[a] = "active"

PlaneNext ==
    /\ \/ part = "pool" /\ Next /\ UNCHANGED careVars
       \/ part = "care" /\ CareNext /\ UNCHANGED vars
    /\ UNCHANGED part

PlaneSpec == PlaneInit /\ [][PlaneNext]_<<vars, careVars, part>>

PlaneSymmetry ==
    Permutations(Watched) \cup Permutations(Proxies) \cup Permutations(Accounts) \cup Permutations(Personas)
    \cup Permutations(Requests) \cup Permutations(Slots)
=============================================================================
