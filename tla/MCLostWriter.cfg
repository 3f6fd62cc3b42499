SPECIFICATION Spec
CONSTANTS
  a = a
  b = b
  Name <- MCName
  NoName = NoName
  Fingerprint = {}
  NoPrint = NoPrint
  MergePolicies = {"auto"}
  MaxCIReplanRounds = 1
  PlanOf <- MCPlanOf
  PlannerAnswers = {"one"}
  WriterAnswers = {"changes"}
  ReviewerAnswers = {"approved", "changes_requested"}
  HolisticAnswers = {"approved"}
  MaxWriterAttempts = 2
  MaxHolisticRemediationRounds = 1
  RepeatLimit = 2
  Budget <- OneFault
INVARIANT WriterOwnerPending
CHECK_DEADLOCK FALSE
