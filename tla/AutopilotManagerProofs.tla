------------------------ MODULE AutopilotManagerProofs ------------------------
(***************************************************************************)
(* The main loop and the sensor manager, for every grace period and every  *)
(* time-out: an input is called healthy only while it comes in, no change  *)
(* of that health is lost on its way to the operator, and the managers     *)
(* never keep different flags.                                             *)
(***************************************************************************)
EXTENDS AutopilotManager, TLAPS

USE SensorAssumption, AutopilotAssumption DEF SensorAssumption, AutopilotAssumption

\* A step of the loop or of another manager leaves what the sensor manager
\* keeps alone, but for the flag it is told.
LoopOrOthers == Loop \/ MissionManagerChanges \/ LandingManagerChanges

LEMMA LoopLeavesSensor ==
  LoopOrOthers => UNCHANGED <<inputs, sinceStart, status, checked>>
  BY DEF LoopOrOthers, Loop, MissionManagerChanges, LandingManagerChanges,
         UpdateObstacleAvoidance, TellLandingManager, TellSensorManager, ReadSensorHealth,
         ReadLandingHealth, ReadMissionHealth, SendHeartbeat, sensorVars

-----------------------------------------------------------------------------
(* Types. *)

LEMMA InitType == Init => TypeOK
<1> SUFFICES ASSUME Init PROVE TypeOK
  OBVIOUS
<1>1. odomAge \in 0..Timeout + 1 /\ imageAge \in 0..Timeout + 1 /\ sinceStart \in 0..Grace
  BY DEF Init, SensorInit
<1>2. reported \in (SUBSET Sources) \cup {NeverReported} /\ inputHealth \subseteq Sources
  BY DEF Init, SensorInit
<1> QED
  BY <1>1, <1>2 DEF Init, SensorInit, TypeOK, SensorTypeOK

LEMMA StatusType == NewHealthStatus \subseteq Sources
  BY DEF NewHealthStatus

LEMMA SensorType == SensorTypeOK /\ SensorNext => SensorTypeOK'
<1> SUFFICES ASSUME SensorTypeOK, SensorNext PROVE SensorTypeOK'
  OBVIOUS
<1> USE DEF SensorTypeOK, inputs, status
<1>1. CASE Tick
  <2>1. odomAge' \in 0..Timeout + 1 /\ imageAge' \in 0..Timeout + 1
    BY <1>1 DEF Tick, Older
  <2>2. sinceStart' \in 0..Grace
    BY <1>1 DEF Tick
  <2> QED
    BY <1>1, <2>1, <2>2 DEF Tick
<1>2. CASE StartHealthCheck
  BY <1>2 DEF StartHealthCheck
<1>3. CASE StayQuiet
  BY <1>3 DEF StayQuiet
<1>4. CASE CheckHealth
  BY <1>4, StatusType DEF CheckHealth, ShouldReport
<1>5. CASE Odometry
  BY <1>5 DEF Odometry
<1>6. ASSUME NEW valid \in BOOLEAN, HandleIncomingCameraInfo(valid) PROVE SensorTypeOK'
  BY <1>6 DEF HandleIncomingCameraInfo
<1>7. ASSUME NEW encoding \in {"16UC1", "32FC1", "other"}, NEW posed \in BOOLEAN,
             HandleIncomingDepthImage(encoding, posed)
      PROVE SensorTypeOK'
  BY <1>7 DEF HandleIncomingDepthImage, SetDownsampler, Published, Timed
<1> QED
  BY <1>1, <1>2, <1>3, <1>4, <1>5, <1>6, <1>7 DEF SensorNext, Executor, Inputs

LEMMA NextType == TypeOK /\ [Next]_vars => TypeOK'
<1> SUFFICES ASSUME TypeOK, [Next]_vars PROVE TypeOK'
  OBVIOUS
<1> USE DEF TypeOK
<1>1. CASE LoopOrOthers
  <2>1. UNCHANGED <<inputs, sinceStart, status, checked>>
    BY <1>1, LoopLeavesSensor
  <2>2. smOa' \in BOOLEAN
    BY <1>1 DEF LoopOrOthers, Loop, MissionManagerChanges, LandingManagerChanges,
         UpdateObstacleAvoidance, TellLandingManager, TellSensorManager, ReadSensorHealth,
         ReadLandingHealth, ReadMissionHealth, SendHeartbeat, sensorVars, SensorTold,
         SensorTypeOK
  <2>3. SensorTypeOK'
    BY <2>1, <2>2 DEF SensorTypeOK, inputs, status
  <2> QED
    BY <1>1, <2>3 DEF LoopOrOthers, Loop, MissionManagerChanges, LandingManagerChanges,
         UpdateObstacleAvoidance, TellLandingManager, TellSensorManager, ReadSensorHealth,
         ReadLandingHealth, ReadMissionHealth, SendHeartbeat, AfterUpdate, others
<1>2. CASE SensorNext /\ UNCHANGED <<loop, enabled, lmOa, others>>
  BY <1>2, SensorType DEF others
<1>3. CASE UNCHANGED vars
  BY <1>3 DEF vars, sensorVars, inputs, status, others, SensorTypeOK
<1> QED
  BY <1>1, <1>2, <1>3 DEF Next, LoopOrOthers

-----------------------------------------------------------------------------
(* The images and the reports. *)

LEMMA InitLoop == Init => ImageInv /\ HealthyInputsArrive /\ ReportIsCurrent
  BY DEF Init, SensorInit, ImageInv, HealthyInputsArrive, ReportIsCurrent

LEMMA SensorLoop ==
  SensorTypeOK /\ ImageInv /\ HealthyInputsArrive /\ ReportIsCurrent /\ SensorNext
    => ImageInv' /\ HealthyInputsArrive' /\ ReportIsCurrent'
<1> SUFFICES ASSUME SensorTypeOK, ImageInv, HealthyInputsArrive, ReportIsCurrent, SensorNext
             PROVE ImageInv' /\ HealthyInputsArrive' /\ ReportIsCurrent'
  OBVIOUS
<1> USE DEF ImageInv, HealthyInputsArrive, ReportIsCurrent, inputs, status
<1>1. CASE Tick
  BY <1>1 DEF Tick, Older, SensorTypeOK
<1>2. CASE StartHealthCheck
  BY <1>2 DEF StartHealthCheck
<1>3. CASE StayQuiet
  BY <1>3 DEF StayQuiet
<1>4. CASE CheckHealth
  <2>1. ImageInv'
    BY <1>4 DEF CheckHealth
  <2>2. HealthyInputsArrive'
    <3>1. /\ "ODOMETRY" \notin NewHealthStatus => odomAge < Timeout
          /\ "IMAGES" \notin NewHealthStatus => imageAge < Timeout /\ depthReady
      BY <1>4 DEF CheckHealth, NewHealthStatus, Sources, SensorTypeOK
    <3> QED
      BY <1>4, <3>1 DEF CheckHealth
  <2>3. ReportIsCurrent'
    BY <1>4 DEF CheckHealth, ShouldReport
  <2> QED
    BY <2>1, <2>2, <2>3
<1>5. CASE Odometry
  BY <1>5 DEF Odometry
<1>6. ASSUME NEW valid \in BOOLEAN, HandleIncomingCameraInfo(valid)
      PROVE ImageInv' /\ HealthyInputsArrive' /\ ReportIsCurrent'
  BY <1>6 DEF HandleIncomingCameraInfo
<1>7. ASSUME NEW encoding \in {"16UC1", "32FC1", "other"}, NEW posed \in BOOLEAN,
             HandleIncomingDepthImage(encoding, posed)
      PROVE ImageInv' /\ HealthyInputsArrive' /\ ReportIsCurrent'
  <2>1. CASE Published(posed)
    <3>1. depthReady' = TRUE /\ imageAge' = 0
      BY <1>7, <2>1 DEF HandleIncomingDepthImage, Timed
    <3> QED
      BY <1>7, <3>1 DEF HandleIncomingDepthImage
  <2>2. CASE ~Published(posed)
    <3>1. imageAge' = imageAge /\ (depthReady' <=> depthReady)
      BY <1>7, <2>2 DEF HandleIncomingDepthImage, Timed
    <3> QED
      BY <1>7, <3>1 DEF HandleIncomingDepthImage
  <2> QED
    BY <2>1, <2>2
<1> QED
  BY <1>1, <1>2, <1>3, <1>4, <1>5, <1>6, <1>7 DEF SensorNext, Executor, Inputs

LEMMA NextLoop ==
  TypeOK /\ ImageInv /\ HealthyInputsArrive /\ ReportIsCurrent /\ [Next]_vars
    => ImageInv' /\ HealthyInputsArrive' /\ ReportIsCurrent'
<1> SUFFICES ASSUME TypeOK, ImageInv, HealthyInputsArrive, ReportIsCurrent, [Next]_vars
             PROVE ImageInv' /\ HealthyInputsArrive' /\ ReportIsCurrent'
  OBVIOUS
<1>1. CASE LoopOrOthers \/ UNCHANGED vars
  <2>1. UNCHANGED <<inputs, sinceStart, status, checked>>
    BY <1>1, LoopLeavesSensor DEF vars, sensorVars
  <2> QED
    BY <2>1 DEF ImageInv, HealthyInputsArrive, ReportIsCurrent, inputs, status
<1>2. CASE SensorNext
  BY <1>2, SensorLoop DEF TypeOK
<1> QED
  BY <1>1, <1>2 DEF Next, LoopOrOthers

-----------------------------------------------------------------------------
(* The flags. *)

LEMMA NextTell == TellInv /\ [Next]_vars => TellInv'
<1> SUFFICES ASSUME TellInv, [Next]_vars PROVE TellInv'
  OBVIOUS
<1> USE DEF TellInv, ManagersAgree, sensorVars, others
<1>1. CASE UpdateObstacleAvoidance
  BY <1>1 DEF UpdateObstacleAvoidance, AfterUpdate
<1>2. CASE TellLandingManager
  BY <1>2 DEF TellLandingManager
<1>3. CASE TellSensorManager
  BY <1>3 DEF TellSensorManager, SensorTold, AfterUpdate
<1>4. CASE ReadSensorHealth \/ ReadLandingHealth \/ ReadMissionHealth \/ SendHeartbeat
  BY <1>4 DEF ReadSensorHealth, ReadLandingHealth, ReadMissionHealth, SendHeartbeat
<1>5. CASE MissionManagerChanges \/ LandingManagerChanges
  BY <1>5 DEF MissionManagerChanges, LandingManagerChanges
<1>6. CASE SensorNext /\ UNCHANGED <<loop, enabled, lmOa, others>>
  <2>1. UNCHANGED smOa
    BY <1>6 DEF SensorNext, Executor, Inputs, Tick, StartHealthCheck, StayQuiet, CheckHealth,
         Odometry, HandleIncomingCameraInfo, HandleIncomingDepthImage
  <2> QED
    BY <1>6, <2>1
<1>7. CASE UNCHANGED vars
  BY <1>7 DEF vars
<1> QED
  BY <1>1, <1>2, <1>3, <1>4, <1>5, <1>6, <1>7 DEF Next, Loop

-----------------------------------------------------------------------------
(* Theorems. *)

\* What the image ages, the grace period and the pending report keep.
THEOREM LoopInvariant == Spec => []LoopInv
<1>1. Init => LoopInv
  <2>1. Init => TellInv
    BY DEF Init, SensorInit, TellInv, ManagersAgree
  <2> QED
    BY <2>1, InitType, InitLoop DEF LoopInv
<1>2. LoopInv /\ [Next]_vars => LoopInv'
  BY NextType, NextLoop, NextTell DEF LoopInv
<1> QED
  BY <1>1, <1>2, PTL DEF Spec

\* The flags of the loop and the sensor manager's state keep their types.
THEOREM LoopTypeCorrect == Spec => []TypeOK
<1>1. LoopInv => TypeOK
  BY DEF LoopInv
<1> QED
  BY <1>1, LoopInvariant, PTL

\* An input is called healthy only while it comes in, and images never before one
\* reached the other modules (handle_incoming_depth_image, health_check).
THEOREM InputsSafe == Spec => []HealthyInputsArrive
<1>1. LoopInv => HealthyInputsArrive
  BY DEF LoopInv
<1> QED
  BY <1>1, LoopInvariant, PTL

\* The landing and the sensor manager never keep different flags
\* (update_obstacle_avoidance_enabled).
THEOREM FlagsSafe == Spec => []ManagersAgree
<1>1. LoopInv => ManagersAgree
  BY DEF LoopInv, TellInv
<1> QED
  BY <1>1, LoopInvariant, PTL

\* No change of the health status is lost while it cannot be reported
\* (should_report_status).
THEOREM ReportSafe == Spec => []ReportIsCurrent
<1>1. LoopInv => ReportIsCurrent
  BY DEF LoopInv
<1> QED
  BY <1>1, LoopInvariant, PTL

===============================================================================
