SPECIFICATION Spec
CONSTANTS
  a = a
  b = b
  Name <- MCName
  NoName = NoName
  Fingerprint = {}
  NoPrint = NoPrint
  MergePolicies = {"auto", "manual"}
  MaxCIReplanRounds = 1
  PlanOf <- MCPlanOf
  PlannerAnswers = {"one", "chain", "malformed"}
  WriterAnswers = {"changes","no_changes","blocked","malformed"}
  ReviewerAnswers = {"approved","changes_requested","malformed"}
  HolisticAnswers = {"approved","malformed"}
  MaxWriterAttempts = 2
  MaxHolisticRemediationRounds = 1
  RepeatLimit = 2
  Budget <- OperatorAndForeign
INVARIANTS BlockedResumable
PROPERTIES MergeGate TerminalAbsorbing 
CHECK_DEADLOCK FALSE
