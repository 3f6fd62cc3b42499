SPECIFICATION Spec
CONSTANTS
  a = a
  b = b
  Name <- MCName
  NoName = NoName
  Fingerprint = {f1}
  NoPrint = NoPrint
  MergePolicies = {"auto"}
  MaxCIReplanRounds = 1
  PlanOf <- MCPlanOf
  PlannerAnswers = {"one", "unordered", "backwards"}
  WriterAnswers = {"changes", "no_changes"}
  ReviewerAnswers = {"approved", "changes_requested", "repeated"}
  HolisticAnswers = {"approved", "changes_requested", "blocked", "failed"}
  MaxWriterAttempts = 2
  MaxHolisticRemediationRounds = 1
  RepeatLimit = 2
  Budget <- OneFault
INVARIANTS OwnersPending  ResultsBoundToHead RevisionsApplied
CHECK_DEADLOCK FALSE
