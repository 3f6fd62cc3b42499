SPECIFICATION Spec
CONSTANTS
  Call <- Calls
  Kind <- KindOf
  Line <- FileLines
  Search <- SearchOf
  Replace <- ReplaceOf
  Session <- Sessions
  FileAtStart <- Texts
  ReadBefore <- EarlierTexts
  Faults = 1
  Key <- Keys
  Request <- Requests
  KeyOf <- KeyFor
  Exclusive <- Mutations
  Entry = {1, 2, 3}
  NoEntry = NoEntry
INVARIANTS TypeOK NoLostEdit CommitSeesNoHalfEdit Exclusion EntriesCounted
PROPERTIES EditsTheOnlyMatch CallsEnd
CHECK_DEADLOCK FALSE
