\* Every phase, as the first or the second of a pair, with two edits, failed gates or interruptions in each.
CONSTANTS
  Nothing = Nothing
  Firsts <- FirstsMC
  Qualities <- QualitiesMC
  MaxTrouble = 2
SPECIFICATION GatesSpec
INVARIANTS
  AcceptedWasPassed
  EarlierAreAccepted
  CleanRunIsTaken
CHECK_DEADLOCK FALSE
