SPECIFICATION Spec
CONSTANTS
  ActionIds <- Ids
  Stages <- StagesOf
  Script <- ScriptOf
  MaxQueue = 2
  ReporterInTime = TRUE
INVARIANTS AcceptedActionIsPending
