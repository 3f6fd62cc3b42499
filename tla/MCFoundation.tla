---------------------------- MODULE MCFoundation ----------------------------
(* A small instance of Foundation. *)
EXTENDS Foundation

MCBudget == [faults |-> 1, tools |-> 2, foreign |-> 1]
=============================================================================
