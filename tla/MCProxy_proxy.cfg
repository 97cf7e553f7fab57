SPECIFICATION Spec
CONSTANTS
  Handlers = {a1, a2, a3}
  Requests <- EveryRequest
  AskClasses = {"unanswered"}
  MaxSignals = 2
  SkipLogInterval = 2
  MaxClock = 2
  MaxRequests = 3
SYMMETRY Symmetry
INVARIANTS
  TypeOK AllAccountedFor LoggedUntilRecovery
CHECK_DEADLOCK FALSE
