---------------------------- MODULE MissionManager ----------------------------
(***************************************************************************)
(* The mission manager: it watches the vehicle land and takes over when    *)
(* the landing mapper says that it cannot.  Three threads share its        *)
(* atomics and the landing planner, and no lock orders them:               *)
(*                                                                         *)
(*  DM  the decision maker thread, an endless loop (`dm` is its pc);       *)
(*  CB  the MAVSDK callback thread, which runs one telemetry or trajectory *)
(*      callback at a time (`cb` is its pc);                               *)
(*  GO  the thread that waits for the GPS global origin (one step).        *)
(*                                                                         *)
(* The thread of the collision avoidance manager, whose distance the       *)
(* decision maker reads, is a fourth.                                      *)
(*                                                                         *)
(* A step is what runs between two accesses to data another thread writes. *)
(* The configuration is the one read from the file at start-up: nothing    *)
(* changes it while the program runs.                                      *)
(***************************************************************************)
EXTENDS Naturals, LandingPlanner, CollisionAvoidance

CONSTANTS
  Configs,        \* the configurations the program may have been started with
  ManualModes,    \* Manual, Altctl, Posctl, Acro, Stabilized, Rattitude
  PassiveModes,   \* the modes no condition mentions: Hold, Offboard, ...
  Readings,       \* the landing mapper states that occur
  Positions,      \* what the vehicle position may be, relative to the goal
  ActionTimeout   \* loop iterations in the 5 s given to an action

AutoModes   == {"Mission", "Takeoff", "Land", "ReturnToLaunch"}
FlightModes == AutoModes \cup ManualModes \cup PassiveModes
LandedStates == {"Unknown", "OnGround", "InAir", "TakingOff", "Landing"}
MapperStates ==
  {"UNKNOWN", "UNHEALTHY", "TOO_HIGH", "CLOSE_TO_GROUND", "CAN_NOT_LAND", "CAN_LAND"}

\* The policies that only hold position, three of them as "not supported".
HoldPolicies ==
  {"HOLD", "GO_TO_WAYPOINT_XYZ", "MOVE_LLA_WRT_CURRENT", "SCRIPT_CALL", "API_CALL"}
GoalPolicies == {"MOVE_XYZ_WRT_CURRENT", "GO_TO_WAYPOINT"}
SafeLandingPolicies == HoldPolicies \cup GoalPolicies \cup {"RTL", "LANDING_SITE_SEARCH"}
CollisionActions ==
  HoldPolicies \cup GoalPolicies \cup {"RTL", "LAND"}

\* The part of MissionManagerConfiguration the control flow depends on.
\* zero_offset: local_position_offset_x, _y and _z are (nearly) 0.
Configurations ==
  [enabled : BOOLEAN, input : STRING, safe_landing : BOOLEAN,
   on_no_safe_land : STRING, try_landing : BOOLEAN, zero_offset : BOOLEAN,
   collision_avoid : BOOLEAN, collision_action : STRING]

ASSUME ConfigsAssumption == Configs \subseteq Configurations /\ Configs # {}
ASSUME ReadingsAssumption == Readings # {} /\ Readings \subseteq MapperStates
ASSUME ModesAssumption ==
  /\ ManualModes \cap (AutoModes \cup PassiveModes) = {}
  /\ PassiveModes \cap AutoModes = {}
  /\ "Unknown" \in PassiveModes
ASSUME PositionsAssumption ==
  Positions # {} /\ Positions \subseteq SUBSET {"overGoal", "atGoalAlt", "atZeroAlt"}
ASSUME ActionTimeoutAssumption == ActionTimeout \in Nat \ {0}

VARIABLES
  cfg,         \* _mission_manager_config
  flightMode,  \* _flight_mode
  landed,      \* _landed_state
  trajFresh,   \* _time_last_traj is less than 0.5 s ago
  pos,         \* where the vehicle is, relative to the goal of the policy
  originSet,   \* _global_origin_reference_set
  lp,          \* _landing_planner
  newX, newY,  \* _new_x and _new_y, the local waypoint the override sends
  vel,         \* the static `vel` of the trajectory handler
  goalSet,     \* _new_latitude, _new_longitude, _new_altitude_amsl are finite
  oa,          \* _oa_enabled
  aip,         \* _action_in_progress
  age,         \* iterations since _last_time, up to ActionTimeout
  healthy,     \* _is_healthy
  seen,        \* the landing mapper state this iteration sampled
  wp,          \* the waypoint go_to_new_local_waypoint was called with
  why,         \* why a search is being ended
  dm, cb,      \* program counters
  issued,      \* ghost: the commands this iteration sent to the vehicle
  attended     \* ghost: since before this iteration a pilot has control

telemetry == <<flightMode, landed, trajFresh, pos, originSet>>
override  == <<newX, newY>>
locals    == <<seen, wp, why>>
timer     == <<aip, age>>
status    == <<goalSet, oa, healthy>>
ghosts    == <<issued, attended>>
vars == <<cfg, telemetry, obstacle, lp, override, vel, goalSet, oa, timer, healthy,
          locals, dm, cb, ghosts>>
\* What the decision maker leaves to the callbacks, and what they leave to it.
vehicleSide == <<cfg, telemetry, obstacle, vel, cb>>
makerSide   == <<cfg, obstacle, goalSet, oa, timer, healthy, locals, dm>>

\* Only the policies that fly to a goal look at the position.
GoalRelations == IF cfg.on_no_safe_land \in GoalPolicies THEN Positions ELSE {{}}

Init ==
  /\ cfg \in Configs
  /\ flightMode = "Unknown" /\ landed = "Unknown" /\ trajFresh = TRUE
  /\ pos \in GoalRelations /\ originSet = FALSE
  /\ CollisionInit
  /\ lp = IdlePlanner /\ newX = NaN /\ newY = NaN /\ vel = "unset"
  /\ goalSet = FALSE /\ oa = FALSE /\ aip = FALSE /\ age = 0 /\ healthy = TRUE
  /\ seen = "UNKNOWN" /\ wp = NaN /\ why = "none"
  /\ dm = "sample" /\ cb = "idle"
  /\ issued = {} /\ attended = FALSE

-----------------------------------------------------------------------------
(* Conditions and small steps of the operations below.  A definition with  *)
(* the comment "bug" is not part of the model: it is a plausible mistake   *)
(* in the definition after it, which a property must be able to find.      *)

Manual == flightMode \in ManualModes   \* under_manual_control
OnGround == landed \in {"OnGround", "TakingOff"}
Arrived == {"overGoal", "atGoalAlt"} \subseteq pos   \* arrived_to_new_waypoint

LandingTriggered ==
  flightMode = "Land" \/ (flightMode = "Mission" /\ landed = "Landing")

TriggerReactionOnlyHigh(high) ==                                        \* bug
  IF aip \/ ~LandingTriggered \/ ~high THEN "process"
  ELSE IF seen = "UNHEALTHY" THEN "holdUnhealthy"
  ELSE IF seen \in {"CAN_NOT_LAND", "UNKNOWN"} THEN "react" ELSE "process"

\* Whether the vehicle is landing where it cannot.  `high`: the height above
\* the obstacle is more than 1.5 m.
TriggerReaction(high) ==
  IF aip \/ ~LandingTriggered THEN "process"
  ELSE IF seen = "UNHEALTHY" /\ high THEN "holdUnhealthy"
  ELSE IF seen = "CAN_NOT_LAND" \/ (seen = "UNKNOWN" /\ high) THEN "react"
  ELSE "process"

ReceivedTrajectoryOnce == oa \/ trajFresh                               \* bug
\* update_obstacle_avoidance_status
ReceivedRecentTrajectory == trajFresh

\* Why a search that is on must end now.
VehicleEndsSearch == OnGround \/ Manual \/ flightMode = "ReturnToLaunch"
EndSearchNotForPilot == OnGround \/ flightMode = "ReturnToLaunch" \/ ~oa  \* bug
EndSearchNotForRtl == OnGround \/ Manual \/ ~oa                          \* bug
EndSearchReasons == VehicleEndsSearch \/ ~oa

\* The mapper states on which a landing at a candidate site is aborted.
AbortStates == {"UNHEALTHY", "UNKNOWN", "CAN_NOT_LAND"}
MustAbortUnlessUnknown == seen \in AbortStates \ {"UNKNOWN"}             \* bug
MustAbort == seen \in AbortStates

\* A MAVSDK action call.  The vehicle obeys, or not, later: its new flight
\* mode arrives with a callback.
Command(c) == issued' = issued \cup {c}

SetLocalWaypoint(x, y) == newX' = x /\ newY' = y   \* set_new_local_waypoint
ZeroLocalWaypoint == SetLocalWaypoint(0, 0)                             \* bug
UnsetLocalWaypoint == SetLocalWaypoint(NaN, NaN)   \* landing_site_search_has_ended

WriteYForgotten == UNCHANGED newY                                       \* bug
\* The second half of go_to_new_local_waypoint
WriteY == newY' = wp

LastTimeKept == UNCHANGED age                                           \* bug
RecordLastTime == age' = 0                       \* `_last_time = now`
ActionStarted == aip' = TRUE /\ RecordLastTime   \* after a reaction
ActionPendingForever == aip                                             \* bug
ActionPending == aip /\ age < ActionTimeout      \* less than 5 s old

-----------------------------------------------------------------------------
(* DM: the start of an iteration.                                          *)

\* An iteration reads the configuration and the landing mapper, and works
\* out whether PX4 still sends trajectories.
SampleSafeLanding ==
  /\ dm = "sample" /\ cfg.enabled /\ cfg.input = "SAFE_LANDING"
  /\ seen' \in Readings
  /\ oa' = ReceivedRecentTrajectory
  /\ issued' = {} /\ attended' = (Manual /\ cb = "idle")
  /\ dm' = "gate"
  /\ UNCHANGED <<vehicleSide, override, timer, lp, goalSet, healthy, wp, why>>

SampleCollision ==
  /\ dm = "sample" /\ cfg.enabled /\ cfg.input = "SIMPLE_COLLISION_AVOIDANCE"
  /\ issued' = {} /\ attended' = (Manual /\ cb = "idle")
  /\ dm' = "collision"
  /\ UNCHANGED <<vehicleSide, override, locals, timer, lp, status>>

\* Without safe landing or without trajectories nothing may be searched.
GateClosed ==
  /\ dm = "gate" /\ ~(cfg.safe_landing /\ oa)
  /\ IF Active(lp) THEN dm' = "endSearch" /\ why' = "disabled"
                   ELSE dm' = "tick" /\ UNCHANGED why
  /\ UNCHANGED <<vehicleSide, override, timer, ghosts, lp, status, seen, wp>>

GateOpen ==
  /\ dm = "gate" /\ cfg.safe_landing /\ oa
  /\ dm' = "trigger"
  /\ UNCHANGED <<vehicleSide, override, locals, timer, ghosts, lp, status>>

Trigger ==
  /\ dm = "trigger"
  /\ \E high \in BOOLEAN : dm' = TriggerReaction(high)
  /\ UNCHANGED <<vehicleSide, override, locals, timer, ghosts, lp, status>>

-----------------------------------------------------------------------------
(* DM: the reaction to a landing that is not safe.                         *)

HoldUnhealthy ==
  /\ dm = "holdUnhealthy"
  /\ Command("hold")
  /\ ActionStarted
  /\ dm' = "process"
  /\ UNCHANGED <<vehicleSide, override, locals, lp, status, attended>>

ReactHold ==
  /\ dm = "react" /\ cfg.on_no_safe_land \in HoldPolicies
  /\ Command("hold")
  /\ ActionStarted
  /\ dm' = "process"
  /\ UNCHANGED <<vehicleSide, override, locals, lp, status, attended>>

ReactRtl ==
  /\ dm = "react" /\ cfg.on_no_safe_land = "RTL"
  /\ Command("rtl")
  /\ ActionStarted
  /\ dm' = "process"
  /\ UNCHANGED <<vehicleSide, override, locals, lp, status, attended>>

\* The goal is an offset from where the vehicle is: it is there already when
\* the offset is zero, and not otherwise.
ReactMove ==
  /\ dm = "react" /\ cfg.on_no_safe_land = "MOVE_XYZ_WRT_CURRENT"
  /\ IF originSet
     THEN /\ Command("goto")
          /\ goalSet' = TRUE
          /\ pos' = IF cfg.zero_offset THEN {"overGoal", "atGoalAlt"} ELSE {}
     ELSE Command("hold") /\ UNCHANGED <<goalSet, pos>>
  /\ ActionStarted
  /\ dm' = "process"
  /\ UNCHANGED <<override, locals, cfg, flightMode, landed, trajFresh, originSet, obstacle,
                 lp, vel, oa, healthy, cb, attended>>

\* The altitude of the RTL rule is _previously_set_waypoint_altitude_amsl,
\* which is 0 from the constructor on.
ReactGoTo ==
  /\ dm = "react" /\ cfg.on_no_safe_land = "GO_TO_WAYPOINT"
  /\ IF {"overGoal", "atZeroAlt"} \subseteq pos THEN Command("rtl") /\ UNCHANGED goalSet
     ELSE IF originSet THEN Command("goto") /\ goalSet' = TRUE
     ELSE Command("hold") /\ UNCHANGED goalSet
  /\ ActionStarted
  /\ dm' = "process"
  /\ UNCHANGED <<vehicleSide, override, locals, lp, oa, healthy, attended>>

\* A policy the code does not know: no command, but an action in progress.
ReactUnrecognised ==
  /\ dm = "react" /\ cfg.on_no_safe_land \notin SafeLandingPolicies
  /\ ActionStarted
  /\ dm' = "process"
  /\ UNCHANGED <<vehicleSide, override, locals, ghosts, lp, status>>

ReactSearch ==
  /\ dm = "react" /\ cfg.on_no_safe_land = "LANDING_SITE_SEARCH"
  /\ dm' = IF originSet /\ oa THEN "start" ELSE "refused"
  /\ UNCHANGED <<vehicleSide, override, locals, timer, ghosts, lp, status>>

\* The reason is looked up again: an origin that arrived in between leaves none.
RefuseSearch ==
  /\ dm = "refused"
  /\ IF originSet /\ oa THEN UNCHANGED <<override, issued>>
                        ELSE Command("hold") /\ UnsetLocalWaypoint
  /\ ActionStarted
  /\ dm' = "process"
  /\ UNCHANGED <<vehicleSide, locals, lp, status, attended>>

StartLandingSiteSearch ==
  /\ dm = "start"
  /\ lp' \in StartSearch(lp)
  /\ dm' = "started"
  /\ UNCHANGED <<vehicleSide, override, locals, timer, ghosts, status>>

SearchStarted ==
  /\ dm = "started" /\ Active(lp)
  /\ wp' = lp.wpt
  /\ dm' = "firstX"
  /\ UNCHANGED <<vehicleSide, override, timer, ghosts, lp, status, seen, why>>

SearchNotStarted ==
  /\ dm = "started" /\ ~Active(lp)
  /\ Command("hold")
  /\ UnsetLocalWaypoint
  /\ ActionStarted
  /\ dm' = "process"
  /\ UNCHANGED <<vehicleSide, locals, lp, status, attended>>

\* go_to_new_local_waypoint writes one coordinate after the other.
FirstWaypointX ==
  /\ dm = "firstX"
  /\ newX' = wp
  /\ dm' = "firstY"
  /\ UNCHANGED <<vehicleSide, locals, timer, ghosts, lp, newY, status>>

FirstWaypointY ==
  /\ dm = "firstY"
  /\ WriteY /\ wp' = NaN
  /\ ActionStarted
  /\ dm' = "process"
  /\ UNCHANGED <<vehicleSide, ghosts, lp, newX, status, seen, why>>

-----------------------------------------------------------------------------
(* DM: processing what is active.                                          *)

ProcessEnd ==
  /\ dm = "process" /\ Active(lp) /\ EndSearchReasons
  /\ why' = IF VehicleEndsSearch THEN "vehicle" ELSE "noOA"
  /\ dm' = "endSearch"
  /\ UNCHANGED <<vehicleSide, override, timer, ghosts, lp, status, seen, wp>>

ProcessSearch ==
  /\ dm = "process" /\ Active(lp) /\ ~EndSearchReasons
  /\ dm' = "update"
  /\ UNCHANGED <<vehicleSide, override, locals, timer, ghosts, lp, status>>

ProcessTakeOff ==
  /\ dm = "process" /\ Ended(lp) /\ landed = "TakingOff"
  /\ lp' = IdlePlanner
  /\ dm' = "tick"
  /\ UNCHANGED <<vehicleSide, override, locals, timer, ghosts, status>>

\* The vehicle reached the goal of a goto: land there, when configured to.
ProcessGoal ==
  /\ dm = "process" /\ ~Active(lp) /\ ~(Ended(lp) /\ landed = "TakingOff")
  /\ IF goalSet /\ Arrived /\ cfg.try_landing
     THEN Command("land") /\ goalSet' = FALSE
     ELSE UNCHANGED <<issued, goalSet>>
  /\ dm' = "tick"
  /\ UNCHANGED <<vehicleSide, override, locals, timer, lp, oa, healthy, attended>>

\* The search ends because of the vehicle ("vehicle"), because trajectories
\* stopped ("noOA", "disabled") or because safe landing is off ("disabled").
EndSearch ==
  /\ dm = "endSearch"
  /\ lp' = EndedPlanner
  /\ IF why = "vehicle" THEN UNCHANGED issued ELSE Command("hold")
  /\ dm' = "endClear"
  /\ UNCHANGED <<vehicleSide, override, locals, timer, status, attended>>

EndSearchClear ==
  /\ dm = "endClear"
  /\ UnsetLocalWaypoint
  /\ IF why = "disabled" THEN UNCHANGED age ELSE RecordLastTime
  /\ why' = "none"
  /\ dm' = "tick"
  /\ UNCHANGED <<vehicleSide, ghosts, lp, status, aip, seen, wp>>

-----------------------------------------------------------------------------
(* DM: update_landing_site_search.                                         *)

UpdateLanding ==
  /\ dm = "update" /\ ShouldLand(lp)
  /\ lp' \in IF MustAbort THEN AbortLanding(lp) ELSE {lp}
  /\ dm' = "decide"
  /\ UNCHANGED <<vehicleSide, override, locals, timer, ghosts, status>>

UpdateSearching ==
  /\ dm = "update" /\ ~ShouldLand(lp)
  /\ \E stationary \in BOOLEAN : lp' \in UpdateSearch(lp, seen, stationary)
  /\ dm' = IF ShouldLand(lp') THEN "found" ELSE "decide"
  /\ UNCHANGED <<vehicleSide, override, locals, timer, ghosts, status>>

\* A site was approved: the trajectory handler lands there, or the search ends.
SiteFound ==
  /\ dm = "found"
  /\ IF cfg.try_landing THEN UNCHANGED <<lp, issued>>
                        ELSE Command("hold") /\ lp' = EndedPlanner
  /\ dm' = "finish"
  /\ UNCHANGED <<vehicleSide, override, locals, timer, status, attended>>

DecideEnded ==
  /\ dm = "decide" /\ Ended(lp)
  /\ Command("hold")
  /\ dm' = "finish"
  /\ UNCHANGED <<vehicleSide, override, locals, timer, lp, status, attended>>

DecideWaypoint ==
  /\ dm = "decide" /\ ~Ended(lp) /\ lp.updated
  /\ wp' = lp.wpt
  /\ dm' = "nextX"
  /\ UNCHANGED <<vehicleSide, override, timer, ghosts, lp, status, seen, why>>

DecideNothing ==
  /\ dm = "decide" /\ ~Ended(lp) /\ ~lp.updated
  /\ RecordLastTime
  /\ dm' = "tick"
  /\ UNCHANGED <<vehicleSide, override, locals, ghosts, lp, status, aip>>

NextWaypointX ==
  /\ dm = "nextX"
  /\ newX' = wp
  /\ dm' = "nextY"
  /\ UNCHANGED <<vehicleSide, locals, timer, ghosts, lp, newY, status>>

NextWaypointY ==
  /\ dm = "nextY"
  /\ WriteY /\ wp' = NaN
  /\ dm' = "finish"
  /\ UNCHANGED <<vehicleSide, timer, ghosts, lp, newX, status, seen, why>>

FinishUpdate ==
  /\ dm = "finish"
  /\ IF Ended(lp) THEN UnsetLocalWaypoint ELSE UNCHANGED override
  /\ RecordLastTime
  /\ dm' = "tick"
  /\ UNCHANGED <<vehicleSide, locals, ghosts, lp, status, aip>>

-----------------------------------------------------------------------------
(* DM: simple collision avoidance, and the end of an iteration.            *)

CollisionCommand ==
  CASE cfg.collision_action = "RTL"  -> {"rtl"}
    [] cfg.collision_action = "LAND" -> {"land"}
    [] cfg.collision_action \in HoldPolicies \cup GoalPolicies -> {"hold"}
    [] OTHER -> {}

\* A distance that is not finite triggers nothing.
HandleCollision ==
  /\ dm = "collision"
  /\ IF cfg.collision_avoid /\ depth = "near" /\ landed = "InAir" /\ ~aip
     THEN issued' = issued \cup CollisionCommand /\ ActionStarted
     ELSE UNCHANGED <<issued, aip, age>>
  /\ dm' = "tick"
  /\ UNCHANGED <<vehicleSide, override, locals, lp, status, attended>>

\* An action may be repeated 5 s after it was last taken.
Tick ==
  /\ dm = "tick"
  /\ healthy' = IF cfg.input = "SAFE_LANDING" THEN oa \/ Manual ELSE healthy
  /\ aip' = ActionPending
  /\ age' = IF age < ActionTimeout THEN age + 1 ELSE age
  /\ dm' = "sample"
  /\ UNCHANGED <<vehicleSide, override, locals, ghosts, lp, goalSet, oa>>

-----------------------------------------------------------------------------
(* CB: flight_mode_callback.                                               *)

\* A new flight mode resets the planner before a take-off and when a pilot
\* takes control.
FlightModeCallback(m) ==
  /\ cb = "idle" /\ m # flightMode
  /\ flightMode' = m
  /\ cb' = IF (OnGround /\ m \in {"Mission", "Takeoff"}) \/ m \in ManualModes
           THEN "modeActive" ELSE "idle"
  /\ attended' = (attended /\ m \in ManualModes)
  /\ UNCHANGED <<makerSide, override, landed, trajFresh, pos, originSet,
                 lp, vel, issued>>

ModeActive ==
  /\ cb = "modeActive"
  /\ cb' = IF Active(lp) THEN "modeEnd" ELSE "modeReset"
  /\ UNCHANGED <<makerSide, telemetry, override, ghosts, lp, vel>>

ModeEndSearch ==
  /\ cb = "modeEnd"
  /\ lp' = EndedPlanner
  /\ cb' = "modeClear"
  /\ UNCHANGED <<makerSide, telemetry, override, ghosts, vel>>

ModeClear ==
  /\ cb = "modeClear"
  /\ UnsetLocalWaypoint
  /\ cb' = "modeReset"
  /\ UNCHANGED <<makerSide, telemetry, ghosts, lp, vel>>

ModeReset ==
  /\ cb = "modeReset"
  /\ lp' = IdlePlanner
  /\ cb' = "idle"
  /\ UNCHANGED <<makerSide, telemetry, override, ghosts, vel>>

-----------------------------------------------------------------------------
(* CB: on_mavlink_trajectory_message.                                      *)

\* A message starts a setpoint of our own when the override is set and a
\* search is on; otherwise it is sent back as it came.
TrajectoryMessage ==
  /\ cb = "idle"
  /\ trajFresh' = TRUE
  /\ cb' = IF newX # NaN /\ newY # NaN /\ Active(lp) THEN "trajLand" ELSE "idle"
  /\ UNCHANGED <<makerSide, override, ghosts, flightMode, landed, pos,
                 originSet, lp, vel>>

TrajectoryShouldLand ==
  /\ cb = "trajLand"
  /\ cb' = IF ShouldLand(lp) THEN "sendLand" ELSE "sendSearch"
  /\ UNCHANGED <<makerSide, telemetry, override, ghosts, lp, vel>>

\* The landing setpoint is <<newX, newY>>, read again now.
SendLand ==
  /\ cb = "sendLand"
  /\ cb' = "idle"
  /\ UNCHANGED <<makerSide, telemetry, override, ghosts, lp, vel>>

\* The search setpoint is a velocity towards <<newX, newY>>, smoothed with the
\* velocity sent before: once that is not a number it stays so.
SendSearch ==
  /\ cb = "sendSearch"
  /\ vel' = IF NaN \in {newX, newY} \/ vel = "nan" THEN "nan" ELSE "finite"
  /\ cb' = "idle"
  /\ UNCHANGED <<makerSide, telemetry, override, ghosts, lp>>

-----------------------------------------------------------------------------
(* CB: the other telemetry; GO; the passing of time.                       *)

LandedStateCallback(l) ==
  /\ cb = "idle" /\ l # landed
  /\ landed' = l
  /\ UNCHANGED <<makerSide, override, ghosts, flightMode, trajFresh, pos, originSet,
                 lp, vel, cb>>

PositionCallback(p) ==
  /\ cb = "idle" /\ p # pos
  /\ pos' = p
  /\ UNCHANGED <<makerSide, override, ghosts, flightMode, landed, trajFresh, originSet,
                 lp, vel, cb>>

OriginReceived ==
  /\ ~originSet
  /\ originSet' = TRUE
  /\ UNCHANGED <<makerSide, override, ghosts, flightMode, landed, trajFresh, pos,
                 lp, vel, cb>>

\* Half a second passes without a trajectory message.
TrajectoryTimeout ==
  /\ trajFresh
  /\ trajFresh' = FALSE
  /\ UNCHANGED <<makerSide, override, ghosts, flightMode, landed, pos, originSet,
                 lp, vel, cb>>

-----------------------------------------------------------------------------
(* The collision avoidance manager and the images it looks at, which are   *)
(* left out of the configurations that do not look at them.                *)

MeasureDistance ==
  /\ ComputeDistanceToObstacle(cfg.enabled /\ cfg.collision_avoid)
  /\ UNCHANGED <<cfg, telemetry, lp, override, vel, goalSet, oa, timer, healthy,
                 locals, dm, cb, ghosts>>

DepthImageArrives(i) ==
  /\ cfg.collision_avoid /\ i # image
  /\ NewDepthImage(i)
  /\ UNCHANGED <<cfg, telemetry, lp, override, vel, goalSet, oa, timer, healthy,
                 locals, dm, cb, ghosts>>

-----------------------------------------------------------------------------
React ==
  \/ HoldUnhealthy \/ ReactHold \/ ReactRtl \/ ReactMove \/ ReactGoTo
  \/ ReactUnrecognised \/ ReactSearch \/ RefuseSearch \/ StartLandingSiteSearch
  \/ SearchStarted \/ SearchNotStarted \/ FirstWaypointX \/ FirstWaypointY

Process ==
  \/ ProcessEnd \/ ProcessSearch \/ ProcessTakeOff \/ ProcessGoal
  \/ EndSearch \/ EndSearchClear

UpdateLandingSiteSearch ==
  \/ UpdateLanding \/ UpdateSearching \/ SiteFound \/ DecideEnded \/ DecideWaypoint
  \/ DecideNothing \/ NextWaypointX \/ NextWaypointY \/ FinishUpdate

DecisionMaker ==
  \/ SampleSafeLanding \/ SampleCollision \/ GateClosed \/ GateOpen \/ Trigger
  \/ React \/ Process \/ UpdateLandingSiteSearch
  \/ HandleCollision \/ Tick

\* What a callback that has begun still has to do.
CallbackContinues ==
  \/ ModeActive \/ ModeEndSearch \/ ModeClear \/ ModeReset
  \/ TrajectoryShouldLand \/ SendLand \/ SendSearch

Environment ==
  \/ \E m \in FlightModes : FlightModeCallback(m)
  \/ \E l \in LandedStates : LandedStateCallback(l)
  \/ \E p \in GoalRelations : PositionCallback(p)
  \/ \E i \in Images : DepthImageArrives(i)
  \/ TrajectoryMessage
  \/ OriginReceived
  \/ TrajectoryTimeout

Next == DecisionMaker \/ CallbackContinues \/ MeasureDistance \/ Environment

Spec == Init /\ [][Next]_vars

\* A thread that is not blocked keeps running; nobody has to send telemetry.
FairSpec ==
  Spec /\ WF_vars(DecisionMaker) /\ WF_vars(CallbackContinues) /\ WF_vars(MeasureDistance)

-----------------------------------------------------------------------------
(* Properties.                                                             *)

\* Every variable keeps its type, whatever thread steps.
TypeOK ==
  /\ cfg \in Configs
  /\ CollisionTypeOK
  /\ flightMode \in FlightModes /\ landed \in LandedStates
  /\ trajFresh \in BOOLEAN /\ originSet \in BOOLEAN
  /\ pos \in SUBSET {"overGoal", "atGoalAlt", "atZeroAlt"}
  /\ lp \in Planners
  /\ newX \in Waypoints \cup {NaN} /\ newY \in Waypoints \cup {NaN}
  /\ vel \in {"unset", "finite", "nan"}
  /\ goalSet \in BOOLEAN /\ oa \in BOOLEAN /\ aip \in BOOLEAN /\ healthy \in BOOLEAN
  /\ age \in 0..ActionTimeout
  /\ seen \in MapperStates /\ wp \in Waypoints \cup {NaN}
  /\ why \in {"none", "disabled", "vehicle", "noOA"}
  /\ dm \in {"sample", "gate", "trigger", "holdUnhealthy", "react", "refused", "start",
            "started", "firstX", "firstY", "process", "endSearch", "endClear", "update",
            "found", "decide", "nextX", "nextY", "finish", "collision", "tick"}
  /\ cb \in {"idle", "modeActive", "modeEnd", "modeClear", "modeReset", "trajLand",
            "sendLand", "sendSearch"}
  /\ issued \subseteq {"hold", "rtl", "goto", "land"} /\ attended \in BOOLEAN

\* A reaction is only ever begun when no search is on: the 5 s retry cannot
\* restart the search pattern, or command a hold, under a running search
\* (the `!_action_in_progress` guard, kept true by `_last_time = now`).
NoReactionDuringSearch ==
  dm \in {"holdUnhealthy", "react", "refused", "start"} => ~Active(lp)

\* A landing at a candidate site has the mapper's agreement in every
\* iteration: none ends with the planner landing on a bad mapper state.
LandingNeedsMapper ==
  dm = "tick" /\ ShouldLand(lp) => seen \notin AbortStates

\* Between two iterations, with no callback running, an active search and
\* the waypoint the trajectory handler follows agree.
OverrideTracksPlanner ==
  dm = "sample" /\ cb = "idle" /\ Active(lp) => newX = lp.wpt /\ newY = lp.wpt

\* Safe landing leaves a pilot alone: once a pilot has control and the mode
\* callback has returned, an iteration that starts then sends the vehicle
\* nothing.  The two policies that fly to a goal do not promise that (below).
SearchYieldsToPilot ==
  attended /\ cfg.input = "SAFE_LANDING" /\ cfg.on_no_safe_land \notin GoalPolicies
    => issued = {}

\* A pilot who takes over while an iteration runs still gets what it has begun
\* (the trigger of line 511 is not asked again), but that is one command: after
\* a command an iteration sends no other, whatever the callbacks change.  Only
\* the landing at a goal may follow (NotStuckAtWaypoint).
OneCommandPerIteration ==
  issued # {} =>
    dm \in {"endClear", "finish", "tick", "sample"} \/ (dm = "process" /\ ~Active(lp))

\* A search that is begun, or found running, after the pilot's takeover is over
\* with the iteration: the mode callback may reset the planner just before the
\* decision maker starts it (MissionManager.cpp:283-287 against 600-620, 748).
TakeoverEndsSearch ==
  dm \in {"tick", "sample"} /\ Manual /\ cb = "idle" => ~Active(lp)

\* The same for every policy ("Reset safe landing on new flights or
\* when in manual control", MissionManager.cpp:260).  The code breaks it.
PilotHasControl ==
  attended /\ cfg.input = "SAFE_LANDING" => issued = {}

\* A landing rejected at the waypoint of GO_TO_WAYPOINT is not ordered again by
\* the very reaction to it ("... the vehicle getting stuck trying to land in a
\* place it can't land", MissionManager.cpp:666-669).  The code breaks it.
NotStuckAtWaypoint ==
  cfg.on_no_safe_land = "GO_TO_WAYPOINT" => ~({"goto", "land"} \subseteq issued)

\* A search setpoint towards a waypoint is a velocity ("command a horizontal
\* velocity to follow the search pattern", MissionManager.cpp:179), whatever
\* happened to an earlier search.  The code breaks it.
SearchFollowsPattern ==
  cb = "sendSearch" /\ NaN \notin {newX, newY} => vel # "nan"

\* When PX4 stops sending trajectories for good, the search ends for good.
SearchEndsWithoutTrajectories ==
  <>[](~trajFresh) => <>[](~Active(lp))

\* A pilot, or RTL, for good ends the search for good.
SearchEndsForPilot ==
  <>[](Manual \/ flightMode = "ReturnToLaunch") => <>[](~Active(lp))

\* An action never blocks the next one for good: the 5 s run out, unless a
\* search is what is in progress.
ActionRunsOut == []<>(~aip \/ Active(lp))

\* A vehicle that keeps landing where it cannot is never left to it: again
\* and again it is sent a command, or a search is on.  A policy the code does
\* not recognise, the empty default among them, does nothing.
NeverLandsUnattended ==
  <>[](/\ flightMode = "Land" /\ trajFresh /\ seen = "CAN_NOT_LAND"
       /\ cfg.on_no_safe_land \in SafeLandingPolicies)
    => []<>(issued # {} \/ Active(lp))

\* A vehicle in the air with an obstacle ahead is stopped, again and again,
\* however its distance was measured before, unless a pixel ahead has no depth
\* (CollisionAvoidanceManager.cpp:115-124, MissionManager.cpp:901-904).
ObstacleAheadAnswered ==
  <>[](/\ landed = "InAir" /\ CollisionCommand # {}
       /\ cfg.input = "SIMPLE_COLLISION_AVOIDANCE" /\ cfg.enabled /\ cfg.collision_avoid
       /\ image # NoImage /\ "near" \in image.roi /\ "nan" \notin image.roi)
    => []<>(issued # {})

-----------------------------------------------------------------------------
(* The invariant behind the safety properties above: what every step of    *)
(* every thread keeps.  MissionManagerProofs proves it inductive.          *)

\* Only the safe landing branch of the loop touches the planner.
BranchInv ==
  /\ Active(lp) \/ dm \notin {"sample", "collision", "tick"} => cfg.input = "SAFE_LANDING"
  /\ dm = "collision" => cfg.input = "SIMPLE_COLLISION_AVOIDANCE"

\* A search keeps _action_in_progress set and _last_time fresh.
RetryInv ==
  /\ Active(lp) => aip \/ dm \in {"started", "firstX", "firstY"}
  /\ dm \in {"holdUnhealthy", "react", "refused", "start"} => ~Active(lp) /\ ~aip
  /\ dm = "tick" /\ Active(lp) => age = 0
  /\ dm = "endClear" => ~Active(lp)

\* A landing state that survives an iteration has been checked in it, and a
\* search is only started where the vehicle cannot land.
MapperInv ==
  /\ dm \in {"found", "decide", "nextX", "nextY", "finish", "tick", "sample"} /\ ShouldLand(lp)
       => seen \notin AbortStates
  /\ dm \in {"react", "start"} => seen \in {"CAN_NOT_LAND", "UNKNOWN"}

\* The override follows the planner, but for the steps of the decision maker
\* that are about to write it and those of the callback that reset both.
OverrideInv ==
  Active(lp) /\ cb \notin {"modeClear", "modeReset"} =>
    /\ dm \in {"sample", "gate", "trigger", "process", "update", "found", "finish", "tick"}
         \/ (dm = "decide" /\ ~lp.updated)
         => newX = lp.wpt /\ newY = lp.wpt
    /\ dm \in {"firstX", "nextX", "firstY", "nextY"} => wp = lp.wpt
    /\ dm \in {"firstY", "nextY"} => newX = lp.wpt

\* Under a pilot a search lasts until the next `process` step at most, so an
\* attended iteration has none.
PilotInv ==
  /\ Manual /\ Active(lp) /\ cb \notin {"modeActive", "modeEnd", "modeClear", "modeReset"}
       => dm \in {"started", "firstX", "firstY", "process", "endSearch"}
  /\ goalSet => cfg.on_no_safe_land \in GoalPolicies
  /\ attended /\ cfg.input = "SAFE_LANDING" =>
       /\ Manual /\ ~Active(lp)
       /\ dm \in {"gate", "trigger", "process", "tick", "sample"}
       /\ cfg.on_no_safe_land \notin GoalPolicies => issued = {}

\* The inductive invariant of the mission manager.
IndInv == TypeOK /\ BranchInv /\ RetryInv /\ MapperInv /\ OverrideInv /\ PilotInv

===============================================================================
