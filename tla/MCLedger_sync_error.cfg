SPECIFICATION Spec
CONSTANTS
  Ids = {i1, i2}
  Truths = {t1, t2}
  Callers = {c1, c2}
  Faults = {"sync_error"}
  Crashes = {}
  MaxCrashes = 0
  MaxLines = 3
  None = None
INVARIANT OutcomeCountedOnce
CHECK_DEADLOCK FALSE
