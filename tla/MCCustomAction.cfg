SPECIFICATION FairSpec
CONSTANTS
  ActionIds <- Ids
  Stages <- StagesOf
  Script <- ScriptOf
  MaxQueue = 2
  ReporterInTime = TRUE
INVARIANTS SuccessMeansAllStagesRan CancelStopsStages SuccessIsAcknowledged HandlerInv
PROPERTIES CancelledActionEnds ImplementsActionReports
