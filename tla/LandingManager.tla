---------------------------- MODULE LandingManager ----------------------------
(***************************************************************************)
(* The landing manager: every 100 ms its mapper takes the latest           *)
(* downsampled depth image, judges whether its input is healthy, and       *)
(* publishes the landing state the mission manager decides on.             *)
(*                                                                         *)
(* The image is a pointer that the sensor manager replaces when a new one  *)
(* is ready and never clears, so that a dead camera shows as the same      *)
(* image again.  Its time stamp is only the nanoseconds within the second: *)
(* it starts over every second.  The mapper works while safe landing is    *)
(* configured and obstacle avoidance is on in the autopilot, a flag the    *)
(* main loop sets at 1 Hz.                                                 *)
(*                                                                         *)
(* Time is counted in periods of the mapper.  The point cloud, the height  *)
(* map, the parameters of the search and what is published for display     *)
(* are left out: the mapping library returns any verdict.                  *)
(***************************************************************************)
EXTENDS Integers

CONSTANTS
  Second,      \* mapper periods in a second: the time stamps of images
  MaxNull,     \* MAX_NULL_IMAGE
  MaxOld,      \* MAX_OLD_TIMESTAMP
  CountMax     \* the largest value of the int16_t counters

ASSUME LandingAssumption ==
  /\ Second \in Nat \ {0} /\ CountMax \in Nat
  /\ MaxNull \in 0..CountMax - 1 /\ MaxOld \in 0..CountMax - 1

VARIABLES
  phase,       \* the mapper periods since the second began
  fresh,       \* an image was captured in this period
  depth,       \* _downsampled_depth of the sensor manager, as read by the callback
  nulls,       \* health.count_image_null
  olds,        \* health.count_timestamp_old
  last,        \* health.last_timestamp
  health,      \* _health_status: what is wrong with the input
  state,       \* _state
  configured,  \* isEnabledInConfig()
  oa,          \* is_obstacle_avoidance_enabled()
  mpc,         \* the mapper's place in its period
  uses,        \* ghost: how often this image was checked, up to MaxOld + 2
  age,         \* ghost: the periods since the last image, up to 2
  wrapped,     \* ghost: the count of old time stamps has overflowed
  steady       \* ghost: the checks in a row, one in each period, that met an
               \* image of their own period or the one before, up to Settled

checker == <<nulls, olds, last, health, wrapped>>
camera  == <<phase, fresh, depth, age>>
vars == <<camera, checker, state, configured, oa, mpc, uses, steady>>

NoImage == [stamp |-> -1, pixels |-> FALSE]
Images  == [stamp : 0..Second - 1, pixels : BOOLEAN]
Verdicts == {"UNKNOWN", "CLOSE_TO_GROUND", "CAN_LAND", "CAN_NOT_LAND"}
States   == Verdicts \cup {"UNHEALTHY"}
Counts   == -(CountMax + 1)..CountMax
Settled  == 5

Init ==
  /\ phase \in 0..Second - 1 /\ fresh = FALSE /\ depth = NoImage
  /\ nulls = 0 /\ olds = 0 /\ last = 0 /\ health = {}
  /\ state = "UNKNOWN" /\ configured \in BOOLEAN /\ oa = FALSE
  /\ mpc = "due" /\ uses = 0 /\ age = 2 /\ wrapped = FALSE /\ steady = 0

-----------------------------------------------------------------------------
IncrementWider(n) == n + 1                                              \* bug
\* count++ on an int16_t
Increment(n) == IF n = CountMax THEN -(CountMax + 1) ELSE n + 1

\* The sensor manager publishes an image, at most one in a period; it may
\* have no valid pixel.
NewImage ==
  /\ ~fresh
  /\ depth' \in {i \in Images : i.stamp = phase}
  /\ fresh' = TRUE /\ age' = 0 /\ uses' = 0
  /\ UNCHANGED <<phase, checker, state, configured, oa, mpc, steady>>

\* update_obstacle_avoidance_enabled of the main loop
SetObstacleAvoidance ==
  /\ oa' = ~oa
  /\ UNCHANGED <<camera, checker, state, configured, mpc, uses, steady>>

\* The mapper's timer fires once in a period.
Tick ==
  /\ mpc = "done"
  /\ phase' = (phase + 1) % Second
  /\ fresh' = FALSE
  /\ age' = IF age < 2 THEN age + 1 ELSE 2
  /\ mpc' = "due"
  /\ UNCHANGED <<depth, checker, state, configured, oa, uses, steady>>

-----------------------------------------------------------------------------
(* mapper() *)

ShouldBuildLandingMap == configured /\ oa

SkipMapping ==
  /\ mpc = "due" /\ ~ShouldBuildLandingMap
  /\ mpc' = "done" /\ steady' = 0
  /\ UNCHANGED <<camera, checker, state, configured, oa, uses>>

OlderOnly(image) == last > image.stamp                                  \* bug
IsTimestampOld(image) == last >= image.stamp

OldNeverReset(image) == IF IsTimestampOld(image) THEN Increment(olds) ELSE olds  \* bug
CountOld(image) == IF IsTimestampOld(image) THEN Increment(olds) ELSE 0

NullsOnly(n, o) == IF n > MaxNull THEN {"NULL_IMAGES"} ELSE {}            \* bug
HealthStatus(n, o) ==
  (IF n > MaxNull THEN {"NULL_IMAGES"} ELSE {})
    \cup (IF o > MaxOld THEN {"OLD_TIMESTAMPS"} ELSE {})

\* healthCheck, and the branch the mapper takes on it.  Without an image the
\* count of old time stamps is left as it is.
HealthCheck ==
  /\ mpc = "due" /\ ShouldBuildLandingMap
  /\ IF depth = NoImage
     THEN /\ nulls' = Increment(nulls)
          /\ UNCHANGED <<olds, last, wrapped>>
     ELSE /\ nulls' = 0
          /\ olds' = CountOld(depth)
          /\ last' = depth.stamp
          /\ wrapped' = (wrapped \/ (IsTimestampOld(depth) /\ olds = CountMax))
  /\ health' = HealthStatus(nulls', olds')
  /\ uses' = IF uses < MaxOld + 2 THEN uses + 1 ELSE uses
  /\ steady' = IF age > 1 THEN 0 ELSE IF steady < Settled THEN steady + 1 ELSE steady
  /\ mpc' = IF health' # {} THEN "unhealthy" ELSE IF depth.pixels THEN "map" ELSE "nothing"
  /\ UNCHANGED <<camera, state, configured, oa>>

\* The point cloud goes into the map and the library gives its verdict.
MapImage ==
  /\ mpc = "map"
  /\ state' \in Verdicts
  /\ mpc' = "done"
  /\ UNCHANGED <<camera, checker, configured, oa, uses, steady>>

MarkUnhealthy ==
  /\ mpc = "unhealthy"
  /\ state' = "UNHEALTHY"
  /\ mpc' = "done"
  /\ UNCHANGED <<camera, checker, configured, oa, uses, steady>>

\* Close to the ground the camera sees nothing: the verdict is kept.
NothingToMap ==
  /\ mpc = "nothing"
  /\ state' = IF state = "CLOSE_TO_GROUND" THEN state ELSE "UNKNOWN"
  /\ mpc' = "done"
  /\ UNCHANGED <<camera, checker, configured, oa, uses, steady>>

-----------------------------------------------------------------------------
Mapper == SkipMapping \/ HealthCheck \/ MapImage \/ MarkUnhealthy \/ NothingToMap

Next == NewImage \/ SetObstacleAvoidance \/ Tick \/ Mapper

Spec == Init /\ [][Next]_vars

\* The timer fires and its callback runs; images need not come.
FairSpec == Spec /\ WF_vars(Tick) /\ WF_vars(Mapper)

-----------------------------------------------------------------------------
(* Properties. *)

\* The types of the mapper's state and of its health record.
TypeOK ==
  /\ phase \in 0..Second - 1 /\ fresh \in BOOLEAN /\ depth \in Images \cup {NoImage}
  /\ nulls \in Counts /\ olds \in Counts /\ last \in 0..Second - 1
  /\ health \subseteq {"NULL_IMAGES", "OLD_TIMESTAMPS"}
  /\ state \in States /\ configured \in BOOLEAN /\ oa \in BOOLEAN
  /\ mpc \in {"due", "map", "unhealthy", "nothing", "done"}
  /\ uses \in 0..MaxOld + 2 /\ age \in 0..2 /\ wrapped \in BOOLEAN /\ steady \in 0..Settled

\* A frozen image is put into the map at most MaxOld + 1 times, although its
\* stamp and those of the images before it start over every second, until the
\* count overflows: healthCheck has no other way to notice a dead camera.
FrozenImageRejected == mpc = "map" => wrapped \/ uses <= MaxOld + 1

\* A live camera is not taken for a frozen one: after five checks in a row that
\* met a recent image the input is healthy, whatever was counted before, although
\* the stamps start over every second and an image may be met twice.  The second
\* needs four periods for that, and MaxOld must allow three old stamps.
LiveCameraAccepted == steady = Settled => health = {}

\* While the mapper works, a camera that stays dead shows in the landing state
\* again and again, even across an overflow of the counters.
FrozenCameraNoticed ==
  <>[](~fresh /\ ShouldBuildLandingMap) => []<>(state = "UNHEALTHY")

-----------------------------------------------------------------------------
(* The invariant behind the safety properties, which LandingManagerProofs  *)
(* proves inductive.                                                       *)

\* A checked image left its stamp; the count of old stamps covers the checks of
\* the image held; an image is mapped only when the count allows it.
CheckedStamp == uses > 0 /\ depth # NoImage => last = depth.stamp
CountsWhole == wrapped \/ olds >= 0
UsesCounted == wrapped \/ depth = NoImage \/ uses = 0 \/ olds >= uses - 1
HealthKept == mpc = "map" => depth # NoImage /\ (wrapped \/ olds <= MaxOld)

\* The inductive invariant behind FrozenImageRejected.
FrozenInv ==
  TypeOK /\ CheckedStamp /\ CountsWhole /\ UsesCounted /\ HealthKept /\ FrozenImageRejected

\* The period before, and the period of the last check.
Before(p) == IF p = 0 THEN Second - 1 ELSE p - 1
CheckPhase == IF mpc = "due" THEN Before(phase) ELSE phase

\* A recent image bears the stamp of its period.
RecentStamp ==
  /\ age = 0 => fresh
  /\ age <= 1 => depth # NoImage /\ depth.stamp = IF age = 0 THEN phase ELSE Before(phase)

\* How many old stamps in a row a live camera can show up to a check in period p
\* that met the stamp l: one for an image met twice, more where they start over.
Run(l, p) ==
  IF l = p THEN IF p \in {0, 1} THEN 2 ELSE 0
           ELSE IF p \in {1, 2} THEN 3 ELSE 1

\* No more than that have been counted, unless they were there before.
StreamInv ==
  /\ health = HealthStatus(nulls, olds)
  /\ RecentStamp
  /\ steady > 0 =>
       /\ nulls = 0
       /\ last \in {CheckPhase, Before(CheckPhase)}
       /\ olds <= Run(last, CheckPhase) \/ steady <= Run(last, CheckPhase) + 1

\* The inductive invariant behind both.
InputInv == FrozenInv /\ StreamInv

===============================================================================
