\* Two edits or measurements, one program that stops half way, one jump out of the order.
CONSTANTS
  Edited <- EditedMC
  MaxEdits = 2
  MaxStops = 1
  MaxJumps = 1
SPECIFICATION ChainSpec
INVARIANTS
  GatesMeanFresh
  OneSweepRepairs
CHECK_DEADLOCK FALSE
