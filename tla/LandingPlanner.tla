---------------------------- MODULE LandingPlanner ----------------------------
(***************************************************************************)
(* landing_planner::LandingPlanner, the library that owns the search       *)
(* pattern.  Its source is a git submodule that is not part of this        *)
(* repository, so it is modelled from how MissionManager.cpp uses it: one  *)
(* object, shared without a lock by the decision maker thread and the      *)
(* telemetry callbacks, each of whose methods is taken to be atomic.       *)
(*                                                                         *)
(* A planner is a record: `st` is what isActive, shouldLand and isEnded    *)
(* report, `wpt` what getCurrentWaypoint returns (NaN when there is no     *)
(* pattern), `updated` what waypointUpdated returns.  The operators below  *)
(* give the set of planners a call may leave behind.                       *)
(***************************************************************************)
CONSTANTS
  Waypoints,   \* the local waypoints of a search pattern
  NaN          \* the coordinate that is not a number

ASSUME WaypointsAssumption == Waypoints # {} /\ NaN \notin Waypoints

Planners ==
  [st      : {"idle", "searching", "landing", "ended"},
   wpt     : Waypoints \cup {NaN},
   updated : BOOLEAN]

IdlePlanner  == [st |-> "idle",  wpt |-> NaN, updated |-> FALSE]
EndedPlanner == [st |-> "ended", wpt |-> NaN, updated |-> FALSE]
SearchAt(w, u) == [st |-> "searching", wpt |-> w, updated |-> u]
LandingAt(w)   == [st |-> "landing", wpt |-> w, updated |-> FALSE]

Active(p)     == p.st \in {"searching", "landing"}
ShouldLand(p) == p.st = "landing"
Ended(p)      == p.st = "ended"

\* A search starts at the first waypoint of its pattern, or does not start.
StartSearch(p) == {p} \cup {SearchAt(w, FALSE) : w \in Waypoints}

(***************************************************************************)
(* One step of a search: it keeps its waypoint, moves on to the next one,  *)
(* runs out of waypoints, or approves the site it is at.  A site is        *)
(* approved only on a landing mapper state of CAN_LAND and only while the  *)
(* vehicle is stationary.  A planner that is not searching is left alone.  *)
(***************************************************************************)
UpdateSearch(p, mapper, stationary) ==
  IF p.st # "searching"
  THEN {p}
  ELSE {SearchAt(p.wpt, FALSE), EndedPlanner}
         \cup {SearchAt(w, TRUE) : w \in Waypoints \ {p.wpt}}
         \cup (IF mapper = "CAN_LAND" /\ stationary THEN {LandingAt(p.wpt)} ELSE {})

\* An aborted landing resumes the search at some waypoint, or ends it.
AbortLanding(p) ==
  IF p.st # "landing"
  THEN {p}
  ELSE {EndedPlanner} \cup {SearchAt(w, TRUE) : w \in Waypoints}

===============================================================================
