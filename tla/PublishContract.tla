--------------------------- MODULE PublishContract ---------------------------
(***************************************************************************)
(* What the publish pipeline promises for a target, without queues,        *)
(* processes or failures: the rows publication_targets.status and          *)
(* retry_count, and whether a post for the target exists at Instagram.     *)
(* A step of the system may move several targets (one SQL UPDATE does).    *)
(***************************************************************************)
EXTENDS Naturals

CONSTANTS Targets, MaxRetries

VARIABLES target, retries, exists

contractVars == <<target, retries, exists>>

ContractInit ==
  /\ target = [t \in Targets |-> "pending"]
  /\ retries = [t \in Targets |-> 0]
  /\ exists = [t \in Targets |-> FALSE]

\* The row of t goes from one of the statuses in from to the status to.
Moves(t, from, to) == target[t] \in from /\ target'[t] = to

Kept(t, f) == f'[t] = f[t]

Begin(t)  == Moves(t, {"pending"}, "publishing") /\ Kept(t, retries) /\ Kept(t, exists)

\* A success is recorded only for a post that exists.
Succeed(t) == /\ Moves(t, {"publishing"}, "published")
              /\ exists[t]
              /\ Kept(t, retries) /\ Kept(t, exists)

\* An attempt is given up: for another one that is paid for, for another one
\* after the process died, or for good.
TryAgain(t) == /\ Moves(t, {"publishing"}, "pending")
               /\ retries[t] < MaxRetries
               /\ retries'[t] \in {retries[t], retries[t] + 1}
               /\ Kept(t, exists)

GiveUp(t) == /\ target[t] = "publishing" /\ target'[t] \in {"failed", "uncertain"}
             /\ Kept(t, retries) /\ Kept(t, exists)

\* Only an operator reopens a target, with a fresh budget.
Reopen(t) == Moves(t, {"failed", "uncertain"}, "pending") /\ retries'[t] = 0 /\ Kept(t, exists)

Appear(t) == exists'[t] = TRUE /\ Kept(t, target) /\ Kept(t, retries)

Stays(t) == Kept(t, target) /\ Kept(t, retries) /\ Kept(t, exists)

TargetStep(t) ==
  Begin(t) \/ Succeed(t) \/ TryAgain(t) \/ GiveUp(t) \/ Reopen(t) \/ Appear(t) \/ Stays(t)

ContractNext == \A t \in Targets : TargetStep(t)

Contract == ContractInit /\ [][ContractNext]_contractVars

=============================================================================
