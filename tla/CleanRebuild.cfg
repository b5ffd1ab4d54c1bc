\* Three runs, two interruptions or dying servers; two scenarios, one command in the other stages.
CONSTANTS
  Contexts <- ContextsMC
  Trees <- TreesMC
  Ports <- PortsMC
  MaxRuns = 3
  MaxFaults = 2
  BuildSteps = 1
  BrowserSteps = 2
  ReportSteps = 1
SPECIFICATION Spec
INVARIANTS
  RecordIsWhole
  TreeIsOwn
  ServerIsTold
PROPERTY
  RunEnds
CHECK_DEADLOCK FALSE
