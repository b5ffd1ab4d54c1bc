\* Two edits of the author, one interrupted generator.
CONSTANTS
  None = None
  Family <- FamilyMC
  Absent <- AbsentMC
  EntryCount = 2
  Milestones <- MilestonesMC
  Reworded <- RewordedMC
  EnvelopeItems <- EnvelopeMC
  Budgets <- BudgetsMC
  Gates <- GatesMC
  FirstSnapshot <- FirstSnapshotMC
  FirstProducts <- FirstMC
  Snapshots <- SnapshotsMC
  Products <- ProductsMC
  LockedCounts <- CountsMC
  MaxEdits = 2
  MaxCrashes = 1
SPECIFICATION DocumentsSpec
INVARIANTS
  ReleaseIsTrue
  HistoryIsKept
  RepairsSuffice
CHECK_DEADLOCK FALSE
