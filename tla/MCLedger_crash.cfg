SPECIFICATION FairSpec
CONSTANTS
  Ids = {i1, i2}
  Truths = {t1, t2}
  Callers = {c1, c2}
  Faults = {"write_error"}
  Crashes = {"kill", "power"}
  MaxCrashes = 2
  MaxLines = 3
  None = None
INVARIANTS TypeOK OutcomeCountedOnce KeptAnswersOnDisk ConfirmedTruthOnDisk OutcomeHasAnswer RestartAccepted IndexIsTheFile
PROPERTIES ImplementsBook PutReturns
CHECK_DEADLOCK FALSE
