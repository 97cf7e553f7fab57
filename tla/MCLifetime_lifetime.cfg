SPECIFICATION LifeSpec
CONSTANTS
  Handlers = {a1, a2}
  AllowFreeform = TRUE
  HourLimit = 0
  UsdLimit = 0
  Costs = {0}
  MaxCost = 2
  Backend = {"good", "error", "named"}
  Requests <- Paths
  CallerDeadline = FALSE
  MaxFaults = 1
INVARIANTS TypeOK CountersComplete RecordMatchesResult ClosedUnderNobody RecordsFollowTheLedger
SYMMETRY Symmetry
