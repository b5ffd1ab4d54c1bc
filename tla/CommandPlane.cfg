\* Two clients that send commands, subscribe, log out and reset against each other.
CONSTANTS
  Clients = {c1, c2}
  Channels = {c2}
  Sessions = {s1, s2}
  Granted = {"operator"}
  Denied = {"viewer"}
  Envelopes <- MCCommands
  MaxSessions = 2
  MaxAdmissions = 3
  MaxExecutions = 2
  MaxPerSession = 2
  MaxEvents = 1
  MaxSubscribers = 1
  Ttl = 1
  MaxTime = 1
  MaxCursor = 1
  MaxRequests = 5
SYMMETRY MCSymmetry
SPECIFICATION Spec
INVARIANTS
  CapacityIsTrue
  CommandsAreIdempotent
  StreamIsWhole
CHECK_DEADLOCK FALSE
