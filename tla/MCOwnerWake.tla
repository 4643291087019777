------------------------------ MODULE MCOwnerWake ------------------------------
(* Two waits, the second with a later deadline.                            *)
EXTENDS OwnerWake, TLC

CONSTANTS w1, w2

TheDeadline == (w1 :> 1) @@ (w2 :> 2)
TheRecords  == [wake : Wakes, status : {"WAKE", "SCHEDULED", "CONSUMED"}]
==============================================================================
