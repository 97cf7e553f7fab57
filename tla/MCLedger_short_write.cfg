SPECIFICATION Spec
CONSTANTS
  Ids = {i1, i2}
  Truths = {t1, t2}
  Callers = {c1, c2}
  Faults = {"short_write"}
  Crashes = {"kill"}
  MaxCrashes = 1
  MaxLines = 3
  None = None
INVARIANT RestartAccepted
CHECK_DEADLOCK FALSE
