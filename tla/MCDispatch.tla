----------------------------- MODULE MCDispatch -----------------------------
(* Small instances of Dispatch. *)
EXTENDS Dispatch

MCBudget == [faults |-> 1, operator |-> 2]
CancelOnly == [faults |-> 0, operator |-> 1]
=============================================================================
