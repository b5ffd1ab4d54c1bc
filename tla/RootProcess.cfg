\* A scheduled root: external events, messages, timer starts and cancellations, candidates
\* that emit messages and timers, replacement, stop, runtime loss, lost acknowledgements.
CONSTANTS
  Modes = {TRUE, FALSE}
  Components = {"top", "leaf"}
  TimerIds = {"t"}
  Names = {"n"}
  Producers = {"host"}
  Envelopes <- MCEnvelopes
  Plans <- MCPlans
  MaxAttempt = 4
  MaxGeneration = 2
  TotalLimit = 3
  EventLimit = 3
  UpdateLimit = 1
  MessageLimit = 1
  TimerLimit = 1
  IntentLimit = 2
  MaxReceipt = 3
  MaxTimers = 1
  MaxSerial = 2
  MaxTick = 2
SPECIFICATION Spec
INVARIANTS
  TypeOK
  ExactlyOneOutcome
  BudgetsHold
  ShownIsCommitted
  OneWakePerTimer
  RetiredOnce
PROPERTIES
  ImplementsContract
CHECK_DEADLOCK FALSE
