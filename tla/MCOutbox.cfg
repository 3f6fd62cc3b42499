SPECIFICATION Spec
CONSTANTS
  MaxEvents = 2
  Retries = 1
  Faults = 2
INVARIANTS TypeOK IdentityNamesTransition DeliveredWasDone HistoryKept ArchivedWereEnqueued
PROPERTIES TransitionNotified
CHECK_DEADLOCK FALSE
