------------------------------ MODULE MCExecutor ------------------------------
(* Two steps, as cheap as the question of the run allows.                  *)
EXTENDS RunSummary

UnitCost == [s \in Steps |-> 1]
NoCost   == [s \in Steps |-> 0]
==============================================================================
