\* A guardian and its coordinator, which may be killed between any two emissions, or be
\* too late with its answer.
CONSTANTS
  MaxReceipt = 2
  Crashes = TRUE
  Timeouts = TRUE
SPECIFICATION FairSpec
INVARIANTS
  OutcomesAccounted
PROPERTIES
  TerminalIsKept
  NothingHangs
CHECK_DEADLOCK FALSE
