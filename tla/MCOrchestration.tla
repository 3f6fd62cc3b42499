-------------------------- MODULE MCOrchestration --------------------------
(* Small instances of Orchestration: the plans its planner may propose and  *)
(* the answer sets and budgets the configurations choose from.              *)
EXTENDS Orchestration, TLC

CONSTANTS a, b

Plan(order, integration, b_dependsOn) ==
  [Tasks |-> order, IntegrationOrder |-> integration,
   DependsOn |-> [n \in Name |-> IF n = b THEN b_dependsOn ELSE {}]]

MCName == {a, b}
MCPlanOf ==
  [one      |-> Plan(<<a>>, <<a>>, {}),            \* a single task
   chain    |-> Plan(<<a, b>>, <<a, b>>, {a}),     \* b depends on a
   parallel |-> Plan(<<b, a>>, <<a, b>>, {}),      \* listed against the order
   unordered |-> Plan(<<a>>, <<>>, {}),            \* valid for a revision only
   backwards |-> Plan(<<a, b>>, <<b, a>>, {a})]    \* a dependency integrated late

NoBudget == [faults |-> 0, operator |-> 0, foreign |-> 0, conflicts |-> 0]
OneFault == [NoBudget EXCEPT !.faults = 1]
OneOfEach == [OneFault EXCEPT !.conflicts = 1, !.operator = 1]
TwoOperator == [NoBudget EXCEPT !.operator = 2]
OperatorAndFault == [OneFault EXCEPT !.operator = 1]
OperatorAndForeign == [TwoOperator EXCEPT !.foreign = 1, !.conflicts = 1]
=============================================================================
