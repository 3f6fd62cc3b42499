------------------------------ MODULE Delivery ------------------------------
(***************************************************************************)
(* What one dispatch of an agent promises to the job that waits for it.    *)
(*                                                                         *)
(* The record of the dispatch moves forward only: it is asked for, an      *)
(* agent runs, the answer is recorded, the record is closed.  The job gets *)
(* the recorded answer at most once, and a record closes only when its job *)
(* no longer waits, or is superseded by an operator who then replaces the  *)
(* dispatch.  A cancelled job gets nothing and its record is void.         *)
(***************************************************************************)
CONSTANT Answers    \* names other than those of the other phases and outcomes below

VARIABLES record,  \* the durable record of the dispatch
          outcome  \* what the job has got from it

Init == record = "none" /\ outcome = "awaited"

Live == record # "void"

Ask    == record = "none" /\ record' = "asked" /\ UNCHANGED outcome
Run    == record = "asked" /\ record' = "running" /\ UNCHANGED outcome

(* A record without a run may find that its agent has answered long ago.    *)
Hear ==
  /\ record \in {"asked", "running"}
  /\ record' \in Answers
  /\ UNCHANGED outcome

(* The answer recorded is the one delivered.  A delivery that has begun is  *)
(* not stopped by an operator who supersedes the record meanwhile.          *)
Deliver ==
  /\ outcome = "awaited"
  /\ \/ record \in Answers /\ outcome' = record
     \/ record = "superseded" /\ outcome' \in Answers
  /\ UNCHANGED record

Close ==
  /\ record \in Answers \cup {"superseded"}
  /\ outcome # "awaited"
  /\ record' = "closed"
  /\ UNCHANGED outcome

(* An operator who read the answer before it was delivered may mark the     *)
(* record of a dispatch that has closed meanwhile; it is not replaced.      *)
Supersede ==
  /\ record \in Answers \cup {"closed"}
  /\ record' = "superseded"
  /\ UNCHANGED outcome
Replace ==
  /\ record = "superseded" /\ outcome = "awaited"
  /\ outcome' = "replaced"
  /\ UNCHANGED record

Void == Live /\ record' = "void" /\ UNCHANGED outcome

Next == Live /\ (Ask \/ Run \/ Hear \/ Deliver \/ Close \/ Supersede \/ Replace \/ Void)

Spec == Init /\ [][Next]_<<record, outcome>>
=============================================================================
