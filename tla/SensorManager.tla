---------------------------- MODULE SensorManager ----------------------------
(***************************************************************************)
(* The sensor manager: it turns depth images into downsampled images with  *)
(* the vehicle's pose, and judges every 100 ms whether odometry and images *)
(* are still coming in.  It tells the operator once of every change of     *)
(* that judgement, at the time obstacle avoidance is on in the autopilot.  *)
(*                                                                         *)
(* Images, camera parameters and the health check are callbacks of one     *)
(* executor; odometry comes from a MAVSDK thread.  Time is counted in      *)
(* periods of the health check.  Pixels, poses and time stamps are left    *)
(* out; whether the pose of an image can be looked up is any outcome.      *)
(***************************************************************************)
EXTENDS Naturals

CONSTANTS
  Grace,     \* the 5 s after its first call in which health_check says nothing
  Timeout    \* the 2.5 s in which an input has to arrive

ASSUME SensorAssumption == Grace \in Nat /\ Timeout \in Nat \ {0} /\ Grace > Timeout

VARIABLES
  downsampler,   \* _imageDownsampler is set
  depthReady,    \* _downsampled_depth is set
  plausible,     \* the intrinsics are not zero
  odomAge,       \* periods since _time_last_odometry, up to Timeout + 1
  imageAge,      \* periods since _time_last_image, up to Timeout + 1
  sinceStart,    \* periods since time_start, up to Grace
  started,       \* health_check has been called
  inputHealth,   \* _health_status: the inputs that are not healthy
  shouldReport,  \* should_report_status
  smOa,          \* is_obstacle_avoidance_enabled()
  checked,       \* health_check has run in this period
  reported       \* ghost: the status the operator was last told

inputs == <<downsampler, depthReady, plausible, odomAge, imageAge>>
status == <<started, inputHealth, shouldReport, reported>>
sensorVars == <<inputs, sinceStart, status, smOa, checked>>

Sources == {"ODOMETRY", "IMAGES"}
NeverReported == {"nothing"}

SensorInit ==
  /\ downsampler = FALSE /\ depthReady = FALSE /\ plausible = FALSE
  /\ odomAge = 0 /\ imageAge = 0 /\ sinceStart = 0 /\ started = FALSE
  /\ inputHealth = {} /\ shouldReport = TRUE /\ smOa = FALSE
  /\ checked = FALSE /\ reported = NeverReported

-----------------------------------------------------------------------------
\* subscribe_odometry
Odometry ==
  /\ odomAge' = 0
  /\ UNCHANGED <<downsampler, depthReady, plausible, imageAge, sinceStart, status, smOa, checked>>

\* Camera parameters that come before the first image are dropped.
HandleIncomingCameraInfo(valid) ==
  /\ plausible' = IF downsampler THEN valid ELSE plausible
  /\ UNCHANGED <<downsampler, depthReady, odomAge, imageAge, sinceStart, status, smOa, checked>>

SetDownsampler(encoding) == downsampler \/ encoding # "other"

\* An image is published only when it has camera parameters and a pose.
Published(posed) == downsampler' /\ plausible /\ posed

TimedOnArrival(posed) == TRUE                                           \* bug
\* ... and only then it counts as an image for the health check.
Timed(posed) == Published(posed)

HandleIncomingDepthImage(encoding, posed) ==
  /\ downsampler' = SetDownsampler(encoding)
  /\ depthReady' = (depthReady \/ Published(posed))
  /\ imageAge' = IF Timed(posed) THEN 0 ELSE imageAge
  /\ UNCHANGED <<plausible, odomAge, sinceStart, status, smOa, checked>>

Older(a) == IF a <= Timeout THEN a + 1 ELSE a

\* The health check's timer fires once in a period.
Tick ==
  /\ checked
  /\ checked' = FALSE
  /\ odomAge' = Older(odomAge) /\ imageAge' = Older(imageAge)
  /\ sinceStart' = IF started /\ sinceStart < Grace THEN sinceStart + 1 ELSE sinceStart
  /\ UNCHANGED <<downsampler, depthReady, plausible, status, smOa>>

-----------------------------------------------------------------------------
(* health_check() *)

OdometryOnly == {i \in {"ODOMETRY"} : odomAge >= Timeout}                \* bug
OffByOne ==                                                             \* bug
  {i \in Sources : (IF i = "ODOMETRY" THEN odomAge ELSE imageAge) >= Timeout - 1}
BothIsOneStatus ==                                                      \* bug
  IF odomAge >= Timeout /\ imageAge >= Timeout THEN {"ODOMETRY_AND_IMAGES"} ELSE {}
NewHealthStatus ==
  {i \in Sources : (IF i = "ODOMETRY" THEN odomAge ELSE imageAge) >= Timeout}

\* The first call only starts the grace period.
StartHealthCheck ==
  /\ ~checked /\ ~started
  /\ started' = TRUE /\ checked' = TRUE
  /\ UNCHANGED <<inputs, sinceStart, inputHealth, shouldReport, reported, smOa>>

StayQuiet ==
  /\ ~checked /\ started /\ sinceStart < Grace
  /\ checked' = TRUE
  /\ UNCHANGED <<inputs, sinceStart, status, smOa>>

ReportIfAsked == shouldReport                                           \* bug
ShouldReport == shouldReport \/ NewHealthStatus # inputHealth

CheckHealth ==
  /\ ~checked /\ started /\ sinceStart = Grace
  /\ inputHealth' = NewHealthStatus
  /\ IF ShouldReport /\ smOa
     THEN reported' = NewHealthStatus /\ shouldReport' = FALSE
     ELSE shouldReport' = ShouldReport /\ UNCHANGED reported
  /\ checked' = TRUE
  /\ UNCHANGED <<inputs, sinceStart, started, smOa>>

-----------------------------------------------------------------------------
Executor == StartHealthCheck \/ StayQuiet \/ CheckHealth

Inputs ==
  \/ Odometry
  \/ \E valid \in BOOLEAN : HandleIncomingCameraInfo(valid)
  \/ \E encoding \in {"16UC1", "32FC1", "other"}, posed \in BOOLEAN :
       HandleIncomingDepthImage(encoding, posed)

SensorNext == Tick \/ Executor \/ Inputs

SensorTypeOK ==
  /\ downsampler \in BOOLEAN /\ depthReady \in BOOLEAN /\ plausible \in BOOLEAN
  /\ odomAge \in 0..Timeout + 1 /\ imageAge \in 0..Timeout + 1
  /\ sinceStart \in 0..Grace /\ started \in BOOLEAN
  /\ inputHealth \subseteq Sources /\ shouldReport \in BOOLEAN
  /\ smOa \in BOOLEAN /\ checked \in BOOLEAN
  /\ reported \in (SUBSET Sources) \cup {NeverReported}

===============================================================================
