\* The same root under fairness: nothing admitted waits for ever.
CONSTANTS
  Modes = {TRUE}
  Components = {"top", "leaf"}
  TimerIds = {"t"}
  Names = {"n"}
  Producers = {"host"}
  Envelopes <- MCEnvelopes
  Plans <- MCPlans
  MaxAttempt = 3
  MaxGeneration = 2
  TotalLimit = 3
  EventLimit = 3
  UpdateLimit = 1
  MessageLimit = 1
  TimerLimit = 1
  IntentLimit = 2
  MaxReceipt = 2
  MaxTimers = 1
  MaxSerial = 2
  MaxTick = 2
SPECIFICATION FairSpec
PROPERTIES
  AdmittedIsResolved
CHECK_DEADLOCK FALSE
