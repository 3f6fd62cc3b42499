SPECIFICATION Spec
CONSTANTS
  Endings = {"completed"}
  MaxAgents = 1
  Budget <- CancelOnly
INVARIANTS CancelReachesAgents
