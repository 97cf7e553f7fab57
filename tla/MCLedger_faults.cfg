SPECIFICATION Spec
CONSTANTS
  Ids = {i1, i2}
  Truths = {t1, t2}
  Callers = {c1, c2}
  Faults = {"write_error", "short_write", "sync_error"}
  Crashes = {"kill", "power"}
  MaxCrashes = 1
  MaxLines = 3
  None = None
INVARIANT ConfirmedOnceEver
PROPERTIES DurableLinesStay
CHECK_DEADLOCK FALSE
SYMMETRY Symmetry
