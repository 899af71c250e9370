------------------------ MODULE MissionRefinementProofs ------------------------
(***************************************************************************)
(* The mission manager implements SafeLanding, for every choice of the     *)
(* constants.  The proof rests on the inductive invariant of               *)
(* MissionManagerProofs; it sorts the steps of the three threads by what   *)
(* they are to SafeLanding.                                                *)
(***************************************************************************)
EXTENDS MissionRefinement, MissionManagerProofs

USE DEF telemetry, override, locals, timer, status, ghosts, obstacle, vehicleSide, makerSide,
        Command, SetLocalWaypoint, UnsetLocalWaypoint, WriteY, RecordLastTime, ActionStarted,
        Yields, Abstract!absVars

AbstractStep == [Abstract!Next]_(Abstract!absVars)

\* The phase of a planner at rest is "none".
LEMMA RestingPhase == ~Active(lp) => Phase = "none"
  BY LandingActive DEF Phase

\* A step that leaves planner, verdict, pilot and commands alone is a stutter.
LEMMA Unmoved ==
  ASSUME UNCHANGED <<cfg, lp, seen, issued, attended>> PROVE AbstractStep
  BY DEF AbstractStep, Phase, Active, ShouldLand

\* A command without a search, in a round that is not left to a pilot.
LEMMA Commanded ==
  ASSUME UNCHANGED <<cfg, lp, seen, attended>>, ~Active(lp), ~(Yields /\ attended),
         NEW c \in {"hold", "rtl", "goto", "land"}, issued' = issued \cup {c}
  PROVE  AbstractStep
<1>1. Phase = "none" /\ Phase' = Phase /\ Yields' = Yields
    BY RestingPhase DEF Phase, Active, ShouldLand
<1>2. Abstract!SendCommand
    BY <1>1 DEF Abstract!SendCommand
<1>3. QED
    BY <1>2 DEF AbstractStep, Abstract!Next

\* A planner put to rest ends a search, if there was one.
LEMMA Rested ==
  ASSUME UNCHANGED <<cfg, seen, attended>>, ~Active(lp'),
         issued' \in {issued, issued \cup {"hold"}},
         issued' # issued => ~(Yields /\ attended)
  PROVE  AbstractStep
<1>1. Phase' = "none" /\ Yields' = Yields
    BY DEF Phase, Active, ShouldLand
<1>2. CASE Phase # "none"
  <2>1. Abstract!EndSearch
    BY <1>1, <1>2 DEF Abstract!EndSearch
  <2>2. QED
    BY <2>1 DEF AbstractStep, Abstract!Next
<1>3. CASE Phase = "none" /\ issued' = issued
    BY <1>1, <1>3 DEF AbstractStep
<1>4. CASE Phase = "none" /\ issued' # issued
  <2>1. Abstract!SendCommand
    BY <1>1, <1>4 DEF Abstract!SendCommand
  <2>2. QED
    BY <2>1 DEF AbstractStep, Abstract!Next
<1>5. QED
    BY <1>2, <1>3, <1>4

\* Under a policy that yields an attended iteration is at one of these places.
LEMMA AttendedPlaces ==
  ASSUME IndInv, Yields, attended
  PROVE  dm \in {"gate", "trigger", "process", "tick", "sample"} /\ ~goalSet
  BY DEF IndInv, PilotInv

-----------------------------------------------------------------------------
(* The steps that send commands.                                           *)

\* Every command is sent without a search, and not to an attended vehicle.
LEMMA CommandSteps ==
  ASSUME IndInv,
         \/ HoldUnhealthy \/ ReactHold \/ ReactRtl \/ ReactMove \/ ReactGoTo
         \/ RefuseSearch \/ SearchNotStarted \/ ProcessGoal \/ DecideEnded \/ HandleCollision
  PROVE  AbstractStep
<1> USE DEF IndInv
<1>1. CASE HoldUnhealthy
  <2>1. ~Active(lp) /\ ~(Yields /\ attended)
    BY <1>1, AttendedPlaces DEF HoldUnhealthy, RetryInv
  <2>2. QED
    BY <1>1, <2>1, Commanded DEF HoldUnhealthy
<1>2. CASE ReactHold \/ ReactRtl
  <2>1. ~Active(lp) /\ ~(Yields /\ attended)
    BY <1>2, AttendedPlaces DEF ReactHold, ReactRtl, RetryInv
  <2>2. QED
    BY <1>2, <2>1, Commanded DEF ReactHold, ReactRtl
<1>3. CASE ReactMove
  <2>1. ~Active(lp) /\ ~(Yields /\ attended)
    BY <1>3, AttendedPlaces DEF ReactMove, RetryInv
  <2>2. QED
    BY <1>3, <2>1, Commanded DEF ReactMove
<1>4. CASE ReactGoTo
  <2>1. ~Active(lp) /\ ~(Yields /\ attended)
    BY <1>4, AttendedPlaces DEF ReactGoTo, RetryInv
  <2>2. QED
    BY <1>4, <2>1, Commanded DEF ReactGoTo
<1>5. CASE RefuseSearch
  <2>1. ~Active(lp) /\ ~(Yields /\ attended)
    BY <1>5, AttendedPlaces DEF RefuseSearch, RetryInv
  <2>2. QED
    BY <1>5, <2>1, Commanded, Unmoved DEF RefuseSearch
<1>6. CASE SearchNotStarted
  <2>1. ~Active(lp) /\ ~(Yields /\ attended)
    BY <1>6, AttendedPlaces DEF SearchNotStarted
  <2>2. QED
    BY <1>6, <2>1, Commanded DEF SearchNotStarted
<1>7. CASE ProcessGoal
  <2>1. goalSet => ~(Yields /\ attended)
    BY AttendedPlaces
  <2>2. QED
    BY <1>7, <2>1, Commanded, Unmoved DEF ProcessGoal
<1>8. CASE DecideEnded
  <2>1. ~Active(lp) /\ ~(Yields /\ attended)
    BY <1>8, AttendedPlaces DEF DecideEnded, Ended, Active
  <2>2. QED
    BY <1>8, <2>1, Commanded DEF DecideEnded
<1>9. CASE HandleCollision
  <2>1. ~Active(lp) /\ ~Yields
    BY <1>9 DEF HandleCollision, BranchInv
  <2>2. CollisionCommand = {} \/ \E c \in {"hold", "rtl", "land"} : CollisionCommand = {c}
    BY DEF CollisionCommand
  <2>3. CASE issued' = issued
    BY <1>9, <2>3, Unmoved DEF HandleCollision
  <2>4. CASE issued' # issued
    <3>1. PICK c \in {"hold", "rtl", "land"} : issued' = issued \cup {c}
      BY <1>9, <2>2, <2>4 DEF HandleCollision
    <3>2. QED
      BY <1>9, <2>1, <3>1, Commanded DEF HandleCollision
  <2>5. QED
    BY <2>3, <2>4
<1>10. QED
    BY <1>1, <1>2, <1>3, <1>4, <1>5, <1>6, <1>7, <1>8, <1>9

-----------------------------------------------------------------------------
(* The steps that move the planner.                                        *)

\* Searches begin, find, give up and end as SafeLanding allows.
LEMMA PlannerSteps ==
  ASSUME IndInv,
         \/ StartLandingSiteSearch \/ UpdateLanding \/ UpdateSearching \/ SiteFound
         \/ EndSearch \/ ProcessTakeOff \/ ModeEndSearch \/ ModeReset
  PROVE  AbstractStep
<1> USE DEF IndInv
<1>1. CASE StartLandingSiteSearch
  <2>1. ~Active(lp) /\ Phase = "none" /\ ~attended /\ seen \in {"CAN_NOT_LAND", "UNKNOWN"}
    BY <1>1, RestingPhase DEF StartLandingSiteSearch, RetryInv, MapperInv, PilotInv, BranchInv
  <2>2. lp' = lp \/ \E w \in Waypoints : lp' = SearchAt(w, FALSE)
    BY <1>1 DEF StartLandingSiteSearch, StartSearch
  <2>3. CASE lp' = lp
    BY <1>1, <2>3, Unmoved DEF StartLandingSiteSearch
  <2>4. CASE \E w \in Waypoints : lp' = SearchAt(w, FALSE)
    <3>1. Phase' = "searching"
      BY <2>4 DEF Phase, SearchAt, ShouldLand, Active
    <3>2. Abstract!BeginSearch
      BY <1>1, <2>1, <3>1 DEF StartLandingSiteSearch, Abstract!BeginSearch, Abstract!Unsafe
    <3>3. QED
      BY <3>2 DEF AbstractStep, Abstract!Next
  <2>5. QED
    BY <2>2, <2>3, <2>4
<1>2. CASE UpdateLanding
  <2>1. Phase = "landing"
    BY <1>2 DEF UpdateLanding, Phase
  <2>2. lp' = lp \/ lp' = EndedPlanner
          \/ (seen \in AbortStates /\ \E w \in Waypoints : lp' = SearchAt(w, TRUE))
    BY <1>2 DEF UpdateLanding, AbortLanding, MustAbort
  <2>3. CASE lp' = lp
    BY <1>2, <2>3, Unmoved DEF UpdateLanding
  <2>4. CASE lp' = EndedPlanner
    BY <1>2, <2>4, ConstantPlanners, Rested DEF UpdateLanding
  <2>5. CASE seen \in AbortStates /\ \E w \in Waypoints : lp' = SearchAt(w, TRUE)
    <3>1. Phase' = "searching"
      BY <2>5 DEF Phase, SearchAt, ShouldLand, Active
    <3>2. Abstract!AbortSite
      BY <1>2, <2>1, <2>5, <3>1
      DEF UpdateLanding, Abstract!AbortSite, Abstract!Aborting, Abstract!Unsafe, AbortStates
    <3>3. QED
      BY <3>2 DEF AbstractStep, Abstract!Next
  <2>6. QED
    BY <2>2, <2>3, <2>4, <2>5
<1>3. CASE UpdateSearching
  <2>1. UNCHANGED <<cfg, seen, issued, attended>>
    BY <1>3 DEF UpdateSearching
  <2>2. CASE lp.st # "searching"
    <3>1. lp' = lp
      BY <1>3, <2>2 DEF UpdateSearching, UpdateSearch
    <3>2. QED
      BY <2>1, <3>1, Unmoved
  <2>3. CASE lp.st = "searching"
    <3>1. Phase = "searching"
      BY <2>3 DEF Phase, ShouldLand, Active
    <3>2. \/ lp' = EndedPlanner
          \/ \E w \in Waypoints \cup {NaN}, u \in BOOLEAN : lp' = SearchAt(w, u)
          \/ lp' = LandingAt(lp.wpt) /\ seen = "CAN_LAND"
      BY <1>3, <2>3, PlannerType DEF UpdateSearching, UpdateSearch, TypeOK
    <3>3. CASE lp' = EndedPlanner
      BY <2>1, <3>3, ConstantPlanners, Rested
    <3>4. CASE \E w \in Waypoints \cup {NaN}, u \in BOOLEAN : lp' = SearchAt(w, u)
      <4>1. Phase' = "searching"
        BY <3>4 DEF Phase, SearchAt, ShouldLand, Active
      <4>2. QED
        BY <2>1, <3>1, <4>1 DEF AbstractStep
    <3>5. CASE lp' = LandingAt(lp.wpt) /\ seen = "CAN_LAND"
      <4>1. Phase' = "landing"
        BY <3>5 DEF Phase, LandingAt, ShouldLand
      <4>2. Abstract!ApproveSite
        BY <2>1, <3>1, <3>5, <4>1 DEF Abstract!ApproveSite
      <4>3. QED
        BY <4>2 DEF AbstractStep, Abstract!Next
    <3>6. QED
      BY <3>2, <3>3, <3>4, <3>5
  <2>4. QED
    BY <2>2, <2>3
<1>4. CASE SiteFound
  <2>1. ~(Yields /\ attended)
    BY <1>4, AttendedPlaces DEF SiteFound
  <2>2. QED
    BY <1>4, <2>1, ConstantPlanners, Rested, Unmoved DEF SiteFound
<1>5. CASE EndSearch
  <2>1. ~(Yields /\ attended)
    BY <1>5, AttendedPlaces DEF EndSearch
  <2>2. QED
    BY <1>5, <2>1, ConstantPlanners, Rested DEF EndSearch
<1>6. CASE ProcessTakeOff
    BY <1>6, ConstantPlanners, Rested DEF ProcessTakeOff
<1>7. CASE ModeEndSearch
    BY <1>7, ConstantPlanners, Rested DEF ModeEndSearch
<1>8. CASE ModeReset
    BY <1>8, ConstantPlanners, Rested DEF ModeReset
<1>9. QED
    BY <1>1, <1>2, <1>3, <1>4, <1>5, <1>6, <1>7, <1>8

-----------------------------------------------------------------------------
(* The start of an iteration, and the flight mode.                         *)

\* An iteration that starts is a new round.
LEMMA RoundSteps ==
  ASSUME IndInv, SampleSafeLanding \/ SampleCollision
  PROVE  AbstractStep
<1> USE DEF IndInv
<1>1. UNCHANGED <<cfg, lp>> /\ issued' = {} /\ dm = "sample"
    BY DEF SampleSafeLanding, SampleCollision
<1>2. Phase' = Phase /\ Yields' = Yields
    BY <1>1 DEF Phase, Active, ShouldLand
<1>3. seen' \in MapperStates
    BY ReadingsAssumption DEF SampleSafeLanding, SampleCollision, TypeOK
<1>4. attended' \in BOOLEAN /\ (attended' => ~Active(lp))
    BY <1>1 DEF SampleSafeLanding, SampleCollision, PilotInv, BranchInv, TypeOK, Manual
<1>5. Phase = "landing" => seen \notin Abstract!Aborting
    BY <1>1 DEF Phase, MapperInv, AbortStates, Abstract!Aborting, Abstract!Unsafe
<1>6. Abstract!NewRound
    BY <1>1, <1>2, <1>3, <1>4, <1>5, RestingPhase DEF Abstract!NewRound
<1>7. QED
    BY <1>6 DEF AbstractStep, Abstract!Next

\* A flight mode may take the pilot away.
LEMMA ModeStep ==
  ASSUME IndInv, NEW m \in FlightModes, FlightModeCallback(m)
  PROVE  AbstractStep
<1>1. UNCHANGED <<cfg, lp, seen, issued>> /\ attended' = (attended /\ m \in ManualModes)
    BY DEF FlightModeCallback
<1>2. Phase' = Phase /\ Yields' = Yields
    BY <1>1 DEF Phase, Active, ShouldLand
<1>3. CASE attended /\ m \notin ManualModes
  <2>1. Abstract!PilotLeaves
    BY <1>1, <1>2, <1>3 DEF Abstract!PilotLeaves
  <2>2. QED
    BY <2>1 DEF AbstractStep, Abstract!Next
<1>4. CASE ~(attended /\ m \notin ManualModes)
  <2>1. attended' = attended
    BY <1>1, <1>4 DEF IndInv, TypeOK
  <2>2. QED
    BY <1>1, <2>1, Unmoved
<1>5. QED
    BY <1>3, <1>4

-----------------------------------------------------------------------------
(* The refinement.                                                         *)

\* Every step is a step of SafeLanding or a stutter.
LEMMA StepRefines == IndInv /\ [Next]_vars => AbstractStep
<1> SUFFICES ASSUME IndInv, [Next]_vars PROVE AbstractStep
    OBVIOUS
<1>1. CASE \/ GateClosed \/ GateOpen \/ Trigger \/ ReactUnrecognised \/ ReactSearch
           \/ SearchStarted \/ FirstWaypointX \/ FirstWaypointY
    BY <1>1, Unmoved
    DEF GateClosed, GateOpen, Trigger, ReactUnrecognised, ReactSearch, SearchStarted,
        FirstWaypointX, FirstWaypointY
<1>2. CASE \/ ProcessEnd \/ ProcessSearch \/ EndSearchClear \/ DecideWaypoint \/ DecideNothing
           \/ NextWaypointX \/ NextWaypointY \/ FinishUpdate \/ Tick
    BY <1>2, Unmoved
    DEF ProcessEnd, ProcessSearch, EndSearchClear, DecideWaypoint, DecideNothing,
        NextWaypointX, NextWaypointY, FinishUpdate, Tick
<1>3. CASE ModeActive \/ ModeClear
    BY <1>3, Unmoved DEF ModeActive, ModeClear
<1>4. CASE Quiet
    BY <1>4, Unmoved DEF Quiet
<1>5. QED
    BY <1>1, <1>2, <1>3, <1>4, StepCases, CommandSteps, PlannerSteps, RoundSteps, ModeStep
    DEF DecisionMaker, React, Process, UpdateLandingSiteSearch

\* The program starts as SafeLanding does.
LEMMA InitRefines == Init => Abstract!Init
  BY DEF Init, Abstract!Init, Phase, IdlePlanner, ShouldLand, Active

\* The mission manager implements SafeLanding: the promise of that module
\* survives every interleaving of the decision maker with the callbacks.
THEOREM Refinement == Spec => ImplementsSafeLanding
<1>1. Spec => []IndInv
    BY InductiveInvariant
<1>2. IndInv /\ [Next]_vars => [Abstract!Next]_(Abstract!absVars)
    BY StepRefines DEF AbstractStep
<1>3. QED
    BY <1>1, <1>2, InitRefines, PTL DEF Spec, ImplementsSafeLanding, Abstract!Spec

-----------------------------------------------------------------------------
(* What SafeLanding itself gives a pilot, whoever implements it.           *)

\* A round attended from its beginning has no search and, under a policy that
\* yields, no command: what flight_mode_callback promises the pilot.
THEOREM AbstractPilot == Abstract!Spec => []Abstract!PilotUndisturbed
<1>1. Abstract!Init => Abstract!PilotUndisturbed
    BY DEF Abstract!Init, Abstract!PilotUndisturbed
<1>2. Abstract!PilotUndisturbed /\ AbstractStep => Abstract!PilotUndisturbed'
    BY DEF AbstractStep, Abstract!PilotUndisturbed, Abstract!Next, Abstract!NewRound,
           Abstract!PilotLeaves, Abstract!SendCommand, Abstract!BeginSearch,
           Abstract!ApproveSite, Abstract!AbortSite, Abstract!EndSearch
<1>3. QED
    BY <1>1, <1>2, PTL DEF Abstract!Spec, AbstractStep

\* Every step of SafeLanding guides the vehicle.
LEMMA AbstractGuide == ASSUME AbstractStep PROVE Abstract!VehicleGuided
<1>1. CASE Abstract!NewRound
    BY <1>1 DEF Abstract!NewRound, Abstract!VehicleGuided
<1>2. CASE Abstract!PilotLeaves
    BY <1>2 DEF Abstract!PilotLeaves, Abstract!VehicleGuided
<1>3. CASE Abstract!SendCommand
    BY <1>3 DEF Abstract!SendCommand, Abstract!VehicleGuided
<1>4. CASE Abstract!BeginSearch
    BY <1>4 DEF Abstract!BeginSearch, Abstract!VehicleGuided
<1>5. CASE Abstract!ApproveSite \/ Abstract!AbortSite
    BY <1>5 DEF Abstract!ApproveSite, Abstract!AbortSite, Abstract!VehicleGuided
<1>6. CASE Abstract!EndSearch
    BY <1>6 DEF Abstract!EndSearch, Abstract!VehicleGuided
<1>7. CASE UNCHANGED Abstract!absVars
    BY <1>7 DEF Abstract!VehicleGuided
<1>8. QED
    BY <1>1, <1>2, <1>3, <1>4, <1>5, <1>6, <1>7 DEF AbstractStep, Abstract!Next

\* No step of the decision maker or of the callbacks commands the vehicle under a
\* search, begins a search or a landing on another verdict than the code's, or
\* lets a landing outlive a bad one (lines 511 to 620 and 803 to 832).
THEOREM VehicleSafe == Spec => [][Abstract!VehicleGuided]_vars
<1>1. Spec => []IndInv
    BY InductiveInvariant
<1>2. IndInv /\ [Next]_vars => [Abstract!VehicleGuided]_vars
    BY StepRefines, AbstractGuide
<1>3. QED
    BY <1>1, <1>2, PTL DEF Spec

\* A pilot who attends an iteration from its beginning is not disturbed by it: what
\* SafeLanding promises holds of the mission manager with its threads.
THEOREM PilotLeftAlone == Spec => []Abstract!PilotUndisturbed
<1>1. Spec => Abstract!Spec
    BY Refinement DEF ImplementsSafeLanding
<1>2. QED
    BY <1>1, AbstractPilot, PTL

===============================================================================
