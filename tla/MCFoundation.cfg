SPECIFICATION FairSpec
CONSTANTS
  Tools = {"tool"}
  MaxCommits = 3
  MaxPRs = 3
  Budget <- MCBudget
INVARIANTS TypeOK ReadyWasVerified PlansOnReady
PROPERTIES MergesOnlyVerified FoundationCompletes HeldJobStarts
