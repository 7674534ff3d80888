-------------------------- MODULE MCEventHistories --------------------------
(* Model checking of EventHistories: operators use one id only, which is    *)
(* also the id the planner gives to an evasion of tick 2.                   *)
EXTENDS EventHistories

SatSymmetry == Permutations(Sats)
MCCost == [k \in Kinds |-> IF k = "manual" THEN 2 ELSE 1]
MCOrderIds == {<<"evasion", 2, 0>>}
=============================================================================
