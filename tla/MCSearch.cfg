SPECIFICATION Spec
CONSTANTS
  w1 = w1
  w2 = w2
  NaN = NaN
  none = none
  NoImage = none
  Images <- NoViews
  Waypoints = {w1, w2}
  Configs <- SearchConfigs
  ManualModes = {"Manual", "Posctl"}
  PassiveModes = {"Unknown"}
  Readings = {"UNKNOWN", "UNHEALTHY", "TOO_HIGH", "CAN_NOT_LAND", "CAN_LAND"}
  Positions <- AnyPosition
  ActionTimeout = 2
SYMMETRY WaypointSymmetry
INVARIANTS IndInv NoReactionDuringSearch LandingNeedsMapper OverrideTracksPlanner SearchYieldsToPilot OneCommandPerIteration TakeoverEndsSearch
PROPERTIES ImplementsSafeLanding
