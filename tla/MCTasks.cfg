SPECIFICATION Spec
CONSTANTS
  a = a
  b = b
  Name <- MCName
  NoName = NoName
  Fingerprint = {}
  NoPrint = NoPrint
  MergePolicies = {"auto"}
  MaxCIReplanRounds = 1
  PlanOf <- MCPlanOf
  PlannerAnswers = {"chain", "parallel"}
  WriterAnswers = {"changes", "no_changes", "unclean", "blocked", "failed"}
  ReviewerAnswers = {"approved", "blocked"}
  HolisticAnswers = {"approved", "changes_requested", "blocked", "failed"}
  MaxWriterAttempts = 2
  MaxHolisticRemediationRounds = 1
  RepeatLimit = 2
  Budget <- OneOfEach
INVARIANTS TypeOK MergedWereApproved PastIntegrationComplete
PROPERTIES PlanOrderKept
CHECK_DEADLOCK FALSE
