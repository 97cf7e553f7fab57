SPECIFICATION Spec
CONSTANTS
  Unit = 1000
  Tolerance = 1
  NumBins = 10
  Ids = {i1}
  Templates <- EveryType
  Reply <- Edges
  Truths <- EveryTruth
  Faults = {"ledger", "training", "outcome_sync"}
INVARIANTS
  TypeOK ServedAnswerIsScored AcceptedTruthUsable EveryOutcomeReported
  BrierWithinTolerance ExportedLabelIsTheTruth
