SPECIFICATION FairSpec
CONSTANTS
  Grace = 3
  Timeout = 2
  SafeLandingEnabled = TRUE
INVARIANTS HealthyInputsArrive ReportIsCurrent ManagersAgree LoopInv
PROPERTIES HeartbeatStopsWithoutInput HeartbeatsContinue ManagersFollow
