------------------------------- MODULE MCLimit -------------------------------
(* The heavier call does not fit the first window at all. *)
EXTENDS LimitGroup, TLC

CONSTANTS c1, c2, minute, day

MCCost == (c1 :> 1) @@ (c2 :> 2)
MCBudget == (minute :> 1) @@ (day :> 2)
=============================================================================
