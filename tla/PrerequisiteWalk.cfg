\* Every classification of three families with at most four prerequisites.
CONSTANTS
  MaxEdges = 4
  Family <- Families
  Absent <- Missing
  EntryCount = 3
  Documents <- AllDocuments
SPECIFICATION Spec
INVARIANTS
  AcceptedIsSound
  RefusedHasCause
PROPERTY WalkEnds
CHECK_DEADLOCK FALSE
