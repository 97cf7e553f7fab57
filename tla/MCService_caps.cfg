SPECIFICATION FairSpec
CONSTANTS
  Handlers = {a1, a2}
  AllowFreeform = FALSE
  HourLimit = 2
  UsdLimit = 2
  Costs = {0, 2}
  MaxCost = 2
  Backend = {"good", "no_probabilities"}
  Requests <- Capped
  CallerDeadline = FALSE
  MaxFaults = 0
INVARIANTS SpendBounded HourlyCallsBounded
PROPERTY AskReturns
