SPECIFICATION FairSpec
CONSTANTS
  a = a
  b = b
  Name <- MCName
  NoName = NoName
  Fingerprint = {}
  NoPrint = NoPrint
  MergePolicies = {"auto"}
  MaxCIReplanRounds = 1
  PlanOf <- MCPlanOf
  PlannerAnswers = {"one"}
  WriterAnswers = {"changes"}
  ReviewerAnswers = {"approved"}
  HolisticAnswers = {"approved", "changes_requested"}
  MaxWriterAttempts = 2
  MaxHolisticRemediationRounds = 1
  RepeatLimit = 2
  Budget <- OneFault
PROPERTY HolisticRoundRuns
CHECK_DEADLOCK FALSE
