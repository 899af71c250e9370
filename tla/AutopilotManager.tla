--------------------------- MODULE AutopilotManager ---------------------------
(***************************************************************************)
(* The main loop of the autopilot manager, composed with the sensor        *)
(* manager: at 1 Hz it passes the mission manager's view of obstacle       *)
(* avoidance on to the landing and the sensor manager, and sends the       *)
(* avoidance heartbeat the autopilot needs while the three say they are    *)
(* healthy.  It reads each module while the module's own threads go on.    *)
(*                                                                         *)
(* The mission manager and the landing manager, which have modules of      *)
(* their own, are seen here through what the loop reads of them.           *)
(***************************************************************************)
EXTENDS SensorManager

CONSTANTS
  SafeLandingEnabled   \* _safe_landing_enabled: provisioned before the loop starts

ASSUME AutopilotAssumption == SafeLandingEnabled \in BOOLEAN

VARIABLES
  loop,         \* where run() is
  enabled,      \* _obstacle_avoidance_enabled
  lmOa,         \* the landing manager's is_obstacle_avoidance_enabled()
  mmOa,         \* the mission manager's
  mmHealthy,    \* the mission manager's isHealthy()
  lmHealthy     \* the landing manager's isHealthy()

others == <<mmOa, mmHealthy, lmHealthy>>
vars == <<sensorVars, loop, enabled, lmOa, others>>

Init ==
  /\ SensorInit
  /\ loop = "update" /\ enabled = FALSE /\ lmOa = FALSE
  /\ mmOa = FALSE /\ mmHealthy = TRUE /\ lmHealthy = TRUE

-----------------------------------------------------------------------------
(* The other managers. *)

\* handle_safe_landing sets the flag, decision_maker_run the health after it.
MissionManagerChanges ==
  /\ \/ mmOa' = ~mmOa /\ UNCHANGED mmHealthy
     \/ mmHealthy' = ~mmHealthy /\ UNCHANGED mmOa
  /\ UNCHANGED <<sensorVars, loop, enabled, lmOa, lmHealthy>>

\* healthCheck of the landing manager runs only while obstacle avoidance is on:
\* its last judgement stays in force while it is off.
LandingManagerChanges ==
  /\ lmOa
  /\ lmHealthy' = ~lmHealthy
  /\ UNCHANGED <<sensorVars, loop, enabled, lmOa, mmOa, mmHealthy>>

-----------------------------------------------------------------------------
(* run() *)

AfterUpdate == IF SafeLandingEnabled THEN "sensor" ELSE "update"

\* update_obstacle_avoidance_enabled
UpdateObstacleAvoidance ==
  /\ loop = "update"
  /\ enabled' = mmOa
  /\ loop' = IF mmOa = enabled THEN AfterUpdate ELSE "tellLanding"
  /\ UNCHANGED <<sensorVars, lmOa, others>>

TellLandingManager ==
  /\ loop = "tellLanding"
  /\ lmOa' = enabled
  /\ loop' = "tellSensor"
  /\ UNCHANGED <<sensorVars, enabled, others>>

SensorNotTold == smOa                                                   \* bug
SensorTold == enabled

TellSensorManager ==
  /\ loop = "tellSensor"
  /\ smOa' = SensorTold
  /\ loop' = AfterUpdate
  /\ UNCHANGED <<inputs, sinceStart, status, checked, enabled, lmOa, others>>

ReadSensorHealth ==
  /\ loop = "sensor"
  /\ loop' = IF inputHealth = {} THEN "landing" ELSE "update"
  /\ UNCHANGED <<sensorVars, enabled, lmOa, others>>

ReadLandingHealth ==
  /\ loop = "landing"
  /\ loop' = IF lmHealthy THEN "mission" ELSE "update"
  /\ UNCHANGED <<sensorVars, enabled, lmOa, others>>

ReadMissionHealth ==
  /\ loop = "mission"
  /\ loop' = IF mmHealthy THEN "heartbeat" ELSE "update"
  /\ UNCHANGED <<sensorVars, enabled, lmOa, others>>

SendHeartbeat ==
  /\ loop = "heartbeat"
  /\ loop' = "update"
  /\ UNCHANGED <<sensorVars, enabled, lmOa, others>>

-----------------------------------------------------------------------------
Loop ==
  \/ UpdateObstacleAvoidance \/ TellLandingManager \/ TellSensorManager
  \/ ReadSensorHealth \/ ReadLandingHealth \/ ReadMissionHealth \/ SendHeartbeat

Next ==
  \/ Loop
  \/ MissionManagerChanges \/ LandingManagerChanges
  \/ SensorNext /\ UNCHANGED <<loop, enabled, lmOa, others>>

Spec == Init /\ [][Next]_vars

Timers == (Tick \/ Executor) /\ UNCHANGED <<loop, enabled, lmOa, others>>

\* The loop and the timers run; no input has to arrive.
FairSpec == Spec /\ WF_vars(Loop) /\ WF_vars(Timers)

-----------------------------------------------------------------------------
(* Properties. *)

\* The types of the loop's flags and of the sensor manager's state.
TypeOK ==
  /\ SensorTypeOK
  /\ loop \in {"update", "tellLanding", "tellSensor", "sensor", "landing", "mission",
               "heartbeat"}
  /\ enabled \in BOOLEAN /\ lmOa \in BOOLEAN
  /\ mmOa \in BOOLEAN /\ mmHealthy \in BOOLEAN /\ lmHealthy \in BOOLEAN

\* After the grace period an input is called healthy only while it comes in: its
\* age was below the time-out at the last check, and for images one was made
\* available to the other modules; images that were dropped on their way, for
\* want of camera parameters or of a pose, do not count
\* (handle_incoming_depth_image, health_check).
HealthyInputsArrive ==
  sinceStart = Grace /\ checked =>
    /\ "ODOMETRY" \notin inputHealth => odomAge < Timeout
    /\ "IMAGES" \notin inputHealth => imageAge < Timeout /\ depthReady

\* Whatever the operator was told last is still what the sensor manager thinks,
\* unless a report is due: no change is lost while obstacle avoidance is off
\* (should_report_status).
ReportIsCurrent == shouldReport \/ reported = inputHealth

\* Between two updates the landing and the sensor manager are told the same, the
\* loop's own copy, however the mission manager's flag flickers meanwhile: the
\* loop tells them only of a difference (update_obstacle_avoidance_enabled).
ManagersAgree ==
  loop \notin {"tellLanding", "tellSensor"} => lmOa = enabled /\ smOa = enabled

\* When an input stays away, the avoidance heartbeat stops for good, whatever
\* the other managers say.
HeartbeatStopsWithoutInput ==
  <>[](odomAge > Timeout \/ imageAge > Timeout) => <>[][~SendHeartbeat]_vars

\* While all inputs keep coming and the managers are healthy, heartbeats keep
\* being sent.
HeartbeatsContinue ==
  <>[](odomAge < Timeout /\ imageAge < Timeout /\ lmHealthy /\ mmHealthy)
    => []<><<SendHeartbeat>>_vars

\* When the mission manager's view of obstacle avoidance settles, the landing
\* and the sensor manager come to share it, whichever way it flickered before
\* between two rounds of the loop.
ManagersFollow ==
  \A b \in BOOLEAN : <>[](mmOa = b) => <>[](lmOa = b /\ smOa = b)

-----------------------------------------------------------------------------
(* The invariant behind the safety properties, which                       *)
(* AutopilotManagerProofs proves inductive.                                *)

\* Before the first image was made available, no image has reset its age: it
\* is as old as the grace period, or too old anyway.
ImageInv ==
  /\ ~started => sinceStart = 0
  /\ ~depthReady => imageAge > Timeout \/ imageAge >= sinceStart

\* The loop tells the landing manager first.
TellInv == ManagersAgree /\ (loop = "tellSensor" => lmOa = enabled)

\* The inductive invariant of the main loop and the sensor manager.
LoopInv == TypeOK /\ ImageInv /\ HealthyInputsArrive /\ ReportIsCurrent /\ TellInv

===============================================================================
