SPECIFICATION FairSpec
CONSTANTS
  Endings = {"completed", "failed"}
  MaxAgents = 2
  Budget <- MCBudget
INVARIANTS TypeOK OneAgentAtATime
PROPERTIES KeepsPromise ArchiveFinal AskedIsAnswered
