SPECIFICATION Spec
CONSTANTS
  Handlers = {a1, a2, a3}
  AllowFreeform = FALSE
  HourLimit = 0
  UsdLimit = 2
  Costs = {0, 2}
  MaxCost = 2
  Backend = {"good", "error"}
  Requests <- Capped
  CallerDeadline = FALSE
  MaxFaults = 0
INVARIANT OvershootAtMostOneCall
