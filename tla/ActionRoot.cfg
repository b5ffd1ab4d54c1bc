\* Requests, cancellations, transfers and releases of two components that come and go.
CONSTANTS
  Components = {"top", "leaf"}
  Trees = {{"top"}, {"top", "leaf"}}
  Ids = {"x"}
  LeaseIds = {"l", "m"}
  MaxSequence = 2
  MaxPending = 2
  MaxLeases = 2
  LeaseLimit = 1
  BatchLimit = 2
  MaxGeneration = 2
  TotalLimit = 3
  EventLimit = 3
  UpdateLimit = 1
  MessageLimit = 3
  TimerLimit = 1
  IntentLimit = 2
  MaxReceipt = 4
SPECIFICATION Spec
INVARIANTS
  SlotsFit
  RequestsEndOnce
  CeilingsHold
  LeasesAreOwned
CHECK_DEADLOCK FALSE
