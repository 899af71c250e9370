--------------------------- MODULE MCMissionManager ---------------------------
(* Small instances of the mission manager. *)
EXTENDS MissionRefinement, TLC

CONSTANTS w1, w2, none

Base ==
  [enabled |-> TRUE, input |-> "SAFE_LANDING", safe_landing |-> TRUE,
   on_no_safe_land |-> "LANDING_SITE_SEARCH", try_landing |-> TRUE,
   zero_offset |-> FALSE, collision_avoid |-> FALSE, collision_action |-> ""]

\* Searches, and the policy that holds, which meets no pilot it could disturb.
SearchConfigs ==
  {[Base EXCEPT !.try_landing = b] : b \in BOOLEAN} \cup {[Base EXCEPT !.on_no_safe_land = "HOLD"]}
SearchOnly == {Base}

\* The search, one configuration per other reaction, the default policy, which
\* is none, and collision avoidance.
PolicyConfigs ==
  {[Base EXCEPT !.on_no_safe_land = p] :
     p \in {"LANDING_SITE_SEARCH", "", "RTL", "GO_TO_WAYPOINT", "MOVE_XYZ_WRT_CURRENT"}}
    \cup {[Base EXCEPT !.input = "SIMPLE_COLLISION_AVOIDANCE", !.collision_avoid = TRUE,
                       !.collision_action = "LAND"]}

\* An obstacle ahead among other things, one beside the region of interest
\* with nothing valid in it, none at all, and a pixel without a depth.
DepthViews ==
  {[roi |-> {"near", "far"}, rest |-> {"far"}], [roi |-> {}, rest |-> {"near", "far"}],
   [roi |-> {}, rest |-> {}], [roi |-> {"nan", "near"}, rest |-> {}]}
NoViews == {}

GoalPositions ==
  {{}, {"overGoal", "atGoalAlt"}, {"overGoal", "atZeroAlt"}}
AnyPosition == {{}}

WaypointSymmetry == Permutations(Waypoints)
===============================================================================
