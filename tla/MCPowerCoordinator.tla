-------------------------- MODULE MCPowerCoordinator --------------------------
(* PowerCoordinator for TLC: one key, on a wake pin, and one lost rollback. *)
EXTENDS PowerCoordinator, FiniteSets

CONSTANT confirm

\* At most one rollback of a boot is lost, and none once the battery is low.
LossBounds ==
    /\ Cardinality(unsent') <= 1
    /\ unsent' # {} => ~depleted'

BoundedSpec == Init /\ [][Next /\ LossBounds]_vars

BoundedFairSpec == BoundedSpec /\ WF_vars(PowerTask)
================================================================================
