\* One scope with two roots: loss, replacement, replay and close at any moment.
CONSTANTS
  Roots = {r1, r2}
  Trees = {"a", "b"}
  MaxReplacements = 1
  Contenders = FALSE
  MaxAsked = 3
  MaxQueue = 1
SPECIFICATION FairSpec
INVARIANTS
  ReadyIsWhole
  ReleasedOnce
  RootsAreShown
PROPERTIES
  ClosedIsFinal
  ScopeSettles
CHECK_DEADLOCK FALSE
