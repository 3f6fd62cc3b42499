SPECIFICATION Spec
CONSTANTS
  a = a
  b = b
  Name <- MCName
  NoName = NoName
  Fingerprint = {}
  NoPrint = NoPrint
  MergePolicies = {"auto"}
  MaxCIReplanRounds = 1
  PlanOf <- MCPlanOf
  PlannerAnswers = {"parallel"}
  WriterAnswers = {"changes", "no_changes"}
  ReviewerAnswers = {"approved"}
  HolisticAnswers = {"approved"}
  MaxWriterAttempts = 2
  MaxHolisticRemediationRounds = 1
  RepeatLimit = 2
  Budget <- OperatorAndFault
PROPERTY MergeGate
CHECK_DEADLOCK FALSE
