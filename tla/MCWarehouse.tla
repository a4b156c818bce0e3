----------------------------- MODULE MCWarehouse -----------------------------
(* The warehouse on its own, small.  Actions are taken in the order of their numbers, so that each *)
(* is taken once in a run and the state space is finite.                                           *)
EXTENDS Warehouse

FreshBatches == {[i \in 1 .. n |-> policy + i] : n \in 0 .. MaxActions - policy}

MCNext ==
  \/ WSetup \/ WDiscard \/ WReopen
  \/ \E status \in {"stopped", "failed"} : WClose(status)
  \/ \E ids \in FreshBatches : WTick(ids) \/ WTickFails(ids) \/ WAction(ids) \/ WFlush(ids) \/ WFinalize(ids)

MCSpec == WarehouseInit /\ [][MCNext]_whVars
==============================================================================
