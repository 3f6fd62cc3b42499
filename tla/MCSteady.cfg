SPECIFICATION FairSpec
CONSTANTS
  a = a
  b = b
  Name <- MCName
  NoName = NoName
  Fingerprint = {f1}
  NoPrint = NoPrint
  MergePolicies = {"auto"}
  MaxCIReplanRounds = 1
  PlanOf <- MCPlanOf
  PlannerAnswers = {"one"}
  WriterAnswers = {"changes","no_changes"}
  ReviewerAnswers = {"approved", "changes_requested"}
  HolisticAnswers = {"approved","changes_requested"}
  MaxWriterAttempts = 2
  MaxHolisticRemediationRounds = 1
  RepeatLimit = 2
  Budget <- NoBudget
INVARIANTS WriterOwnerPending AutomaticWorkBounded
PROPERTIES Progress HolisticRoundRuns
CHECK_DEADLOCK FALSE
