---------------------------------- MODULE Run ----------------------------------
(***************************************************************************)
(* What one run of a compiled workflow is to those who ask about it later, *)
(* whatever attempts, failures and resumptions it took: its steps complete *)
(* in the compiled order, each once and for no more than its reservation,  *)
(* the recorded charge stays inside the budget, and once the run is        *)
(* complete it stays so.                                                   *)
(***************************************************************************)
EXTENDS Naturals

CONSTANTS NumSteps,  \* the compiled steps are 1..NumSteps, in order
          Cost,      \* the cost units reserved for each step
          Budget     \* workflow.budget.maxCostUnits

VARIABLES done,      \* how many steps have completed
          charged,   \* the cost units charged for them
          closed     \* the run is complete

runVars == <<done, charged, closed>>

Init == done = 0 /\ charged = 0 /\ closed = FALSE

\* The next step completes, for what its adapter reported.
CompleteStep(cost) ==
    /\ ~closed
    /\ done < NumSteps
    /\ cost <= Cost[done + 1]
    /\ charged + cost <= Budget
    /\ done' = done + 1
    /\ charged' = charged + cost
    /\ UNCHANGED closed

Close ==
    /\ ~closed
    /\ done = NumSteps
    /\ closed' = TRUE
    /\ UNCHANGED <<done, charged>>

Next == Close \/ \E cost \in 0..Budget : CompleteStep(cost)

Spec == Init /\ [][Next]_runVars
==============================================================================
