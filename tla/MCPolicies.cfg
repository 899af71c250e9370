SPECIFICATION FairSpec
CONSTANTS
  w1 = w1
  w2 = w2
  NaN = NaN
  none = none
  NoImage = none
  Images <- DepthViews
  Waypoints = {w1}
  Configs <- PolicyConfigs
  ManualModes = {"Posctl"}
  PassiveModes = {"Unknown"}
  Readings = {"UNHEALTHY", "CAN_NOT_LAND", "CAN_LAND"}
  Positions <- GoalPositions
  ActionTimeout = 1
PROPERTIES ActionRunsOut NeverLandsUnattended ObstacleAheadAnswered SearchEndsWithoutTrajectories SearchEndsForPilot
