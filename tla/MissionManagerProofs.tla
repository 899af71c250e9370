------------------------- MODULE MissionManagerProofs -------------------------
(***************************************************************************)
(* The safety properties of the mission manager, for every choice of the   *)
(* constants: any set of configurations, modes, mapper readings, positions *)
(* and waypoints, and any time-out.                                        *)
(***************************************************************************)
EXTENDS MissionManager, TLAPS

-----------------------------------------------------------------------------
(* What the calls of the landing planner return.                           *)

\* The planners that endSearch and reset leave behind are planners at rest.
LEMMA ConstantPlanners ==
  /\ IdlePlanner \in Planners /\ EndedPlanner \in Planners
  /\ ~Active(IdlePlanner) /\ ~Active(EndedPlanner)
  /\ ~ShouldLand(IdlePlanner) /\ ~ShouldLand(EndedPlanner)
  BY DEF IdlePlanner, EndedPlanner, Planners, Active, ShouldLand

\* A planner that lands is active.
LEMMA LandingActive == \A p : ShouldLand(p) => Active(p)
  BY DEF ShouldLand, Active

\* The waypoint of a planner is a waypoint or NaN.
LEMMA PlannerType ==
  ASSUME NEW p \in Planners PROVE p.wpt \in Waypoints \cup {NaN}
  BY DEF Planners

\* A planner that searches at, or lands at, a waypoint is a planner.
LEMMA ActivePlanners ==
  ASSUME NEW w \in Waypoints \cup {NaN}, NEW u \in BOOLEAN
  PROVE  /\ SearchAt(w, u) \in Planners /\ Active(SearchAt(w, u))
         /\ ~ShouldLand(SearchAt(w, u))
         /\ SearchAt(w, u).wpt = w /\ SearchAt(w, u).updated = u
         /\ LandingAt(w) \in Planners /\ Active(LandingAt(w)) /\ LandingAt(w).wpt = w
  BY DEF SearchAt, LandingAt, Planners, Active, ShouldLand

\* startSearch returns a planner.
LEMMA StartType ==
  ASSUME NEW p \in Planners, NEW q \in StartSearch(p) PROVE q \in Planners
  BY ActivePlanners DEF StartSearch

\* updateSearch returns a planner; it leaves a planner that is not active as
\* it was, and approves a site only on a mapper state of CAN_LAND.
LEMMA UpdateType ==
  ASSUME NEW p \in Planners, NEW mapper, NEW stationary \in BOOLEAN,
         NEW q \in UpdateSearch(p, mapper, stationary)
  PROVE  /\ q \in Planners
         /\ Active(q) => Active(p)
         /\ ShouldLand(q) /\ ~ShouldLand(p) => mapper = "CAN_LAND"
         /\ Active(q) /\ ~ShouldLand(p) /\ (~q.updated \/ ShouldLand(q)) => q.wpt = p.wpt
  <1>1. CASE p.st # "searching"
    BY <1>1 DEF UpdateSearch, ShouldLand, Active
  <1>2. CASE p.st = "searching"
    <2>1. \/ q = SearchAt(p.wpt, FALSE)
          \/ q = EndedPlanner
          \/ \E w \in Waypoints : q = SearchAt(w, TRUE)
          \/ q = LandingAt(p.wpt) /\ mapper = "CAN_LAND"
      BY <1>2 DEF UpdateSearch
    <2>2. Active(p)
      BY <1>2 DEF Active
    <2>3. QED
      BY <2>1, <2>2, PlannerType, ActivePlanners, ConstantPlanners
  <1>3. QED
    BY <1>1, <1>2

\* abortLanding returns a planner that is not landing.
LEMMA AbortType ==
  ASSUME NEW p \in Planners, NEW q \in AbortLanding(p)
  PROVE  /\ q \in Planners
         /\ Active(q) => Active(p)
         /\ ~ShouldLand(q)
         /\ Active(q) /\ ~q.updated => q = p
  <1>1. CASE p.st # "landing"
    BY <1>1 DEF AbortLanding, ShouldLand
  <1>2. CASE p.st = "landing"
    <2>1. q = EndedPlanner \/ \E w \in Waypoints : q = SearchAt(w, TRUE)
      BY <1>2 DEF AbortLanding
    <2>2. Active(p)
      BY <1>2 DEF Active
    <2>3. QED
      BY <2>1, <2>2, ActivePlanners, ConstantPlanners
  <1>3. QED
    BY <1>1, <1>2

-----------------------------------------------------------------------------
(* Type correctness.                                                       *)

USE DEF telemetry, override, locals, timer, status, ghosts, obstacle, vehicleSide, makerSide, Command, SetLocalWaypoint,
        UnsetLocalWaypoint, WriteY, RecordLastTime, ActionStarted

\* A measured distance is the depth of a pixel of the image, or infinite.
LEMMA MeasureType ==
  ASSUME CollisionTypeOK, NEW enabled, ComputeDistanceToObstacle(enabled)
  PROVE  depth' \in Depths \cup {"infinite"}
<1>1. CASE NoPixels
    BY <1>1 DEF ComputeDistanceToObstacle
<1>2. CASE ~NoPixels
  <2>1. image \in DepthImages
    BY <1>2, ImagesAssumption DEF CollisionTypeOK, NoPixels
  <2>2. MeasuredDepths(image) \subseteq Depths
    BY <2>1 DEF MeasuredDepths, MinElement, DepthImages, Depths
  <2>3. QED
    BY <1>2, <2>2 DEF ComputeDistanceToObstacle
<1>3. QED
    BY <1>1, <1>2

\* Every action keeps the type invariant.
LEMMA TypeStep == TypeOK /\ [Next]_vars => TypeOK'
<1> SUFFICES ASSUME TypeOK, [Next]_vars PROVE TypeOK'
    OBVIOUS
<1> USE ActionTimeoutAssumption DEF TypeOK, CollisionTypeOK
<1>1. CASE SampleSafeLanding
    BY <1>1, ReadingsAssumption DEF SampleSafeLanding, ReceivedRecentTrajectory, Manual
<1>2. CASE SampleCollision
    BY <1>2 DEF SampleCollision, Manual
<1>3. CASE GateClosed
    BY <1>3 DEF GateClosed
<1>4. CASE GateOpen
    BY <1>4 DEF GateOpen
<1>5. CASE Trigger
    BY <1>5 DEF Trigger, TriggerReaction
<1>6. CASE HoldUnhealthy
    BY <1>6 DEF HoldUnhealthy
<1>7. CASE ReactHold
    BY <1>7 DEF ReactHold
<1>8. CASE ReactRtl
    BY <1>8 DEF ReactRtl
<1>9. CASE ReactMove
  <2>1. issued' \subseteq {"hold", "rtl", "goto", "land"}
    BY <1>9 DEF ReactMove
  <2>2. goalSet' \in BOOLEAN /\ pos' \in SUBSET {"overGoal", "atGoalAlt", "atZeroAlt"}
    BY <1>9 DEF ReactMove
  <2>3. QED
    BY <1>9, <2>1, <2>2 DEF ReactMove
<1>10. CASE ReactGoTo
  <2>1. issued' \subseteq {"hold", "rtl", "goto", "land"}
    BY <1>10 DEF ReactGoTo
  <2>2. goalSet' \in BOOLEAN
    BY <1>10 DEF ReactGoTo
  <2>3. QED
    BY <1>10, <2>1, <2>2 DEF ReactGoTo
<1>11. CASE ReactUnrecognised
    BY <1>11 DEF ReactUnrecognised
<1>12. CASE ReactSearch
    BY <1>12 DEF ReactSearch
<1>13. CASE RefuseSearch
  <2>1. issued' \subseteq {"hold", "rtl", "goto", "land"}
    BY <1>13 DEF RefuseSearch
  <2>2. newX' \in Waypoints \cup {NaN} /\ newY' \in Waypoints \cup {NaN}
    BY <1>13 DEF RefuseSearch
  <2>3. QED
    BY <1>13, <2>1, <2>2 DEF RefuseSearch
<1>14. CASE StartLandingSiteSearch
    BY <1>14, StartType DEF StartLandingSiteSearch
<1>15. CASE SearchStarted
    BY <1>15, PlannerType DEF SearchStarted
<1>16. CASE SearchNotStarted
    BY <1>16 DEF SearchNotStarted
<1>17. CASE FirstWaypointX
    BY <1>17 DEF FirstWaypointX
<1>18. CASE FirstWaypointY
    BY <1>18 DEF FirstWaypointY
<1>19. CASE ProcessEnd
    BY <1>19 DEF ProcessEnd
<1>20. CASE ProcessSearch
    BY <1>20 DEF ProcessSearch
<1>21. CASE ProcessTakeOff
    BY <1>21, ConstantPlanners DEF ProcessTakeOff
<1>22. CASE ProcessGoal
  <2>1. issued' \subseteq {"hold", "rtl", "goto", "land"}
    BY <1>22 DEF ProcessGoal
  <2>2. goalSet' \in BOOLEAN
    BY <1>22 DEF ProcessGoal
  <2>3. QED
    BY <1>22, <2>1, <2>2 DEF ProcessGoal
<1>23. CASE EndSearch
  <2>1. issued' \subseteq {"hold", "rtl", "goto", "land"}
    BY <1>23 DEF EndSearch
  <2>2. QED
    BY <1>23, <2>1, ConstantPlanners DEF EndSearch
<1>24. CASE EndSearchClear
    BY <1>24 DEF EndSearchClear
<1>25. CASE UpdateLanding
    BY <1>25, AbortType DEF UpdateLanding
<1>26. CASE UpdateSearching
    BY <1>26, UpdateType DEF UpdateSearching
<1>27. CASE SiteFound
  <2>1. issued' \subseteq {"hold", "rtl", "goto", "land"}
    BY <1>27 DEF SiteFound
  <2>2. lp' \in Planners
    BY <1>27, ConstantPlanners DEF SiteFound
  <2>3. QED
    BY <1>27, <2>1, <2>2 DEF SiteFound
<1>28. CASE DecideEnded
    BY <1>28 DEF DecideEnded
<1>29. CASE DecideWaypoint
    BY <1>29, PlannerType DEF DecideWaypoint
<1>30. CASE DecideNothing
    BY <1>30 DEF DecideNothing
<1>31. CASE NextWaypointX
    BY <1>31 DEF NextWaypointX
<1>32. CASE NextWaypointY
    BY <1>32 DEF NextWaypointY
<1>33. CASE FinishUpdate
    BY <1>33 DEF FinishUpdate
<1>34. CASE HandleCollision
  <2>1. CollisionCommand \subseteq {"hold", "rtl", "goto", "land"}
    BY DEF CollisionCommand
  <2>2. issued' = issued \/ issued' = issued \cup CollisionCommand
    BY <1>34 DEF HandleCollision
  <2>3. issued' \subseteq {"hold", "rtl", "goto", "land"}
    BY <2>1, <2>2
  <2>4. aip' \in BOOLEAN
    BY <1>34 DEF HandleCollision
  <2>5. age' \in 0..ActionTimeout
    BY <1>34 DEF HandleCollision
  <2>6. QED
    BY <1>34, <2>3, <2>4, <2>5 DEF HandleCollision
<1>35. CASE Tick
  <2>1. aip' \in BOOLEAN
    BY <1>35, Zenon DEF Tick, ActionPending
  <2>2. age' \in 0..ActionTimeout
    BY <1>35 DEF Tick
  <2>3. healthy' \in BOOLEAN
    BY <1>35 DEF Tick
  <2>4. QED
    BY <1>35, <2>1, <2>2, <2>3 DEF Tick
<1>36. CASE ModeActive
    BY <1>36 DEF ModeActive
<1>37. CASE ModeEndSearch
    BY <1>37, ConstantPlanners DEF ModeEndSearch
<1>38. CASE ModeClear
    BY <1>38 DEF ModeClear
<1>39. CASE ModeReset
    BY <1>39, ConstantPlanners DEF ModeReset
<1>40. CASE TrajectoryMessage
    BY <1>40 DEF TrajectoryMessage
<1>41. CASE TrajectoryShouldLand
    BY <1>41 DEF TrajectoryShouldLand
<1>42. CASE SendLand
    BY <1>42 DEF SendLand
<1>43. CASE SendSearch
    BY <1>43 DEF SendSearch
<1>44. CASE OriginReceived
    BY <1>44 DEF OriginReceived
<1>45. CASE TrajectoryTimeout
  <2>1. trajFresh' \in BOOLEAN
    BY <1>45 DEF TrajectoryTimeout
  <2>2. QED
    BY <1>45, <2>1 DEF TrajectoryTimeout
<1>46. ASSUME NEW m \in FlightModes, FlightModeCallback(m) PROVE TypeOK'
    BY <1>46 DEF FlightModeCallback
<1>47. ASSUME NEW l \in LandedStates, LandedStateCallback(l) PROVE TypeOK'
    BY <1>47 DEF LandedStateCallback
<1>48. ASSUME NEW p \in GoalRelations, PositionCallback(p) PROVE TypeOK'
    BY <1>48, PositionsAssumption DEF PositionCallback, GoalRelations
<1>49. CASE UNCHANGED vars
    BY <1>49 DEF vars
<1>50. CASE MeasureDistance
  <2>1. depth' \in Depths \cup {"infinite"}
    BY <1>50, MeasureType DEF MeasureDistance
  <2>2. QED
    BY <1>50, <2>1 DEF MeasureDistance, ComputeDistanceToObstacle
<1>51. ASSUME NEW i \in Images, DepthImageArrives(i) PROVE TypeOK'
    BY <1>51 DEF DepthImageArrives, NewDepthImage
<1>52. QED
    BY <1>1, <1>2, <1>3, <1>4, <1>5, <1>6, <1>7, <1>8, <1>9, <1>10, <1>11, <1>12,
       <1>13, <1>14, <1>15, <1>16, <1>17, <1>18, <1>19, <1>20, <1>21, <1>22, <1>23, <1>24,
       <1>25, <1>26, <1>27, <1>28, <1>29, <1>30, <1>31, <1>32, <1>33, <1>34, <1>35, <1>36,
       <1>37, <1>38, <1>39, <1>40, <1>41, <1>42, <1>43, <1>44, <1>45, <1>46, <1>47, <1>48,
       <1>49, <1>50, <1>51
    DEF Next, DecisionMaker, React, Process, UpdateLandingSiteSearch,
        CallbackContinues, Environment

\* The program starts well typed.
LEMMA InitTypeOK == Init => TypeOK
<1> SUFFICES ASSUME Init PROVE TypeOK
    OBVIOUS
<1>1. flightMode \in FlightModes
    BY ModesAssumption DEF Init, FlightModes
<1>2. pos \in SUBSET {"overGoal", "atGoalAlt", "atZeroAlt"}
    BY PositionsAssumption DEF Init, GoalRelations
<1>3. landed \in LandedStates /\ seen \in MapperStates
    BY DEF Init, LandedStates, MapperStates
<1>4. age \in 0..ActionTimeout
    BY ActionTimeoutAssumption DEF Init
<1>5. CollisionTypeOK
    BY DEF Init, CollisionInit, CollisionTypeOK, Depths
<1>6. QED
    BY <1>1, <1>2, <1>3, <1>4, <1>5, ConstantPlanners DEF Init, TypeOK

\* The type invariant holds.
THEOREM TypeCorrect == Spec => []TypeOK
  BY InitTypeOK, TypeStep, PTL DEF Spec

-----------------------------------------------------------------------------
(* The steps that cannot disturb the rest of the invariant.                *)

\* What a telemetry callback other than the flight mode, a trajectory message,
\* the origin thread and the passing of time leave alone.
Quiet ==
  /\ UNCHANGED <<cfg, flightMode, lp, newX, newY, goalSet, oa, aip, age, seen, wp, why,
                 dm, issued, attended>>
  /\ cb' = cb \/ {cb, cb'} \subseteq {"idle", "trajLand", "sendLand", "sendSearch"}

\* A step is one of the decision maker, of the flight mode callback, or quiet.
LEMMA StepCases ==
  [Next]_vars =>
    \/ DecisionMaker \/ ModeActive \/ ModeEndSearch \/ ModeClear \/ ModeReset
    \/ \E m \in FlightModes : FlightModeCallback(m)
    \/ Quiet
<1> SUFFICES ASSUME [Next]_vars, ~DecisionMaker,
                    ~(ModeActive \/ ModeEndSearch \/ ModeClear \/ ModeReset),
                    ~\E m \in FlightModes : FlightModeCallback(m)
             PROVE  Quiet
    OBVIOUS
<1>1. CASE TrajectoryMessage
    BY <1>1 DEF TrajectoryMessage, Quiet
<1>2. CASE TrajectoryShouldLand
    BY <1>2 DEF TrajectoryShouldLand, Quiet
<1>3. CASE SendLand
    BY <1>3 DEF SendLand, Quiet
<1>4. CASE SendSearch
    BY <1>4 DEF SendSearch, Quiet
<1>5. ASSUME NEW l \in LandedStates, LandedStateCallback(l) PROVE Quiet
    BY <1>5 DEF LandedStateCallback, Quiet
<1>6. ASSUME NEW p \in GoalRelations, PositionCallback(p) PROVE Quiet
    BY <1>6 DEF PositionCallback, Quiet
<1>7. CASE OriginReceived
    BY <1>7 DEF OriginReceived, Quiet
<1>8. CASE TrajectoryTimeout
    BY <1>8 DEF TrajectoryTimeout, Quiet
<1>9. CASE UNCHANGED vars
    BY <1>9 DEF vars, Quiet
<1>10. CASE MeasureDistance
    BY <1>10 DEF MeasureDistance, Quiet
<1>11. ASSUME NEW i \in Images, DepthImageArrives(i) PROVE Quiet
    BY <1>11 DEF DepthImageArrives, Quiet
<1>12. QED
    BY <1>1, <1>2, <1>3, <1>4, <1>5, <1>6, <1>7, <1>8, <1>9, <1>10, <1>11
    DEF Next, CallbackContinues, Environment

-----------------------------------------------------------------------------
(* The parts of the inductive invariant, one lemma each.                   *)

\* The planner belongs to the safe landing branch.
LEMMA BranchStep == TypeOK /\ BranchInv /\ [Next]_vars => BranchInv'
<1> SUFFICES ASSUME TypeOK /\ BranchInv, [Next]_vars PROVE BranchInv'
    OBVIOUS
<1> USE DEF TypeOK, BranchInv
<1>1. CASE SampleSafeLanding
    BY <1>1 DEF SampleSafeLanding
<1>2. CASE SampleCollision
    BY <1>2 DEF SampleCollision
<1>3. CASE GateClosed
    BY <1>3 DEF GateClosed
<1>4. CASE GateOpen
    BY <1>4 DEF GateOpen
<1>5. CASE Trigger
    BY <1>5 DEF Trigger, TriggerReaction
<1>6. CASE HoldUnhealthy
    BY <1>6 DEF HoldUnhealthy
<1>7. CASE ReactHold
    BY <1>7 DEF ReactHold
<1>8. CASE ReactRtl
    BY <1>8 DEF ReactRtl
<1>9. CASE ReactMove
    BY <1>9 DEF ReactMove
<1>10. CASE ReactGoTo
    BY <1>10 DEF ReactGoTo
<1>11. CASE ReactUnrecognised
    BY <1>11 DEF ReactUnrecognised
<1>12. CASE ReactSearch
    BY <1>12 DEF ReactSearch
<1>13. CASE RefuseSearch
    BY <1>13 DEF RefuseSearch
<1>14. CASE StartLandingSiteSearch
    BY <1>14, StartType DEF StartLandingSiteSearch
<1>15. CASE SearchStarted
    BY <1>15, PlannerType DEF SearchStarted
<1>16. CASE SearchNotStarted
    BY <1>16 DEF SearchNotStarted
<1>17. CASE FirstWaypointX
    BY <1>17 DEF FirstWaypointX
<1>18. CASE FirstWaypointY
    BY <1>18 DEF FirstWaypointY
<1>19. CASE ProcessEnd
    BY <1>19 DEF ProcessEnd
<1>20. CASE ProcessSearch
    BY <1>20 DEF ProcessSearch
<1>21. CASE ProcessTakeOff
    BY <1>21, ConstantPlanners DEF ProcessTakeOff
<1>22. CASE ProcessGoal
    BY <1>22 DEF ProcessGoal
<1>23. CASE EndSearch
    BY <1>23, ConstantPlanners DEF EndSearch
<1>24. CASE EndSearchClear
    BY <1>24 DEF EndSearchClear
<1>25. CASE UpdateLanding
    BY <1>25, AbortType DEF UpdateLanding
<1>26. CASE UpdateSearching
    BY <1>26, UpdateType DEF UpdateSearching
<1>27. CASE SiteFound
    BY <1>27, ConstantPlanners DEF SiteFound
<1>28. CASE DecideEnded
    BY <1>28 DEF DecideEnded
<1>29. CASE DecideWaypoint
    BY <1>29, PlannerType DEF DecideWaypoint
<1>30. CASE DecideNothing
    BY <1>30 DEF DecideNothing
<1>31. CASE NextWaypointX
    BY <1>31 DEF NextWaypointX
<1>32. CASE NextWaypointY
    BY <1>32 DEF NextWaypointY
<1>33. CASE FinishUpdate
    BY <1>33 DEF FinishUpdate
<1>34. CASE HandleCollision
    BY <1>34 DEF HandleCollision
<1>35. CASE Tick
    BY <1>35 DEF Tick, ActionPending
<1>36. CASE ModeActive
    BY <1>36 DEF ModeActive
<1>37. CASE ModeEndSearch
    BY <1>37, ConstantPlanners DEF ModeEndSearch
<1>38. CASE ModeClear
    BY <1>38 DEF ModeClear
<1>39. CASE ModeReset
    BY <1>39, ConstantPlanners DEF ModeReset
<1>40. ASSUME NEW m \in FlightModes, FlightModeCallback(m) PROVE BranchInv'
    BY <1>40 DEF FlightModeCallback
<1>41. CASE Quiet
    BY <1>41 DEF Quiet
<1>42. QED
    BY StepCases, <1>1, <1>2, <1>3, <1>4, <1>5, <1>6, <1>7, <1>8, <1>9, <1>10, <1>11, <1>12,
       <1>13, <1>14, <1>15, <1>16, <1>17, <1>18, <1>19, <1>20, <1>21, <1>22, <1>23, <1>24,
       <1>25, <1>26, <1>27, <1>28, <1>29, <1>30, <1>31, <1>32, <1>33, <1>34, <1>35, <1>36,
       <1>37, <1>38, <1>39, <1>40, <1>41
    DEF DecisionMaker, React, Process, UpdateLandingSiteSearch

\* The 5 s retry cannot hit a running search.
LEMMA RetryStep == TypeOK /\ BranchInv /\ RetryInv /\ [Next]_vars => RetryInv'
<1> SUFFICES ASSUME TypeOK /\ BranchInv /\ RetryInv, [Next]_vars PROVE RetryInv'
    OBVIOUS
<1> USE ActionTimeoutAssumption DEF TypeOK, BranchInv, RetryInv
<1>1. CASE SampleSafeLanding
    BY <1>1 DEF SampleSafeLanding
<1>2. CASE SampleCollision
    BY <1>2 DEF SampleCollision
<1>3. CASE GateClosed
    BY <1>3 DEF GateClosed
<1>4. CASE GateOpen
    BY <1>4 DEF GateOpen
<1>5. CASE Trigger
    BY <1>5 DEF Trigger, TriggerReaction
<1>6. CASE HoldUnhealthy
    BY <1>6 DEF HoldUnhealthy
<1>7. CASE ReactHold
    BY <1>7 DEF ReactHold
<1>8. CASE ReactRtl
    BY <1>8 DEF ReactRtl
<1>9. CASE ReactMove
    BY <1>9 DEF ReactMove
<1>10. CASE ReactGoTo
    BY <1>10 DEF ReactGoTo
<1>11. CASE ReactUnrecognised
    BY <1>11 DEF ReactUnrecognised
<1>12. CASE ReactSearch
    BY <1>12 DEF ReactSearch
<1>13. CASE RefuseSearch
    BY <1>13 DEF RefuseSearch
<1>14. CASE StartLandingSiteSearch
    BY <1>14, StartType DEF StartLandingSiteSearch
<1>15. CASE SearchStarted
    BY <1>15, PlannerType DEF SearchStarted
<1>16. CASE SearchNotStarted
    BY <1>16 DEF SearchNotStarted
<1>17. CASE FirstWaypointX
    BY <1>17 DEF FirstWaypointX
<1>18. CASE FirstWaypointY
    BY <1>18 DEF FirstWaypointY
<1>19. CASE ProcessEnd
    BY <1>19 DEF ProcessEnd
<1>20. CASE ProcessSearch
    BY <1>20 DEF ProcessSearch
<1>21. CASE ProcessTakeOff
    BY <1>21, ConstantPlanners DEF ProcessTakeOff
<1>22. CASE ProcessGoal
    BY <1>22 DEF ProcessGoal
<1>23. CASE EndSearch
    BY <1>23, ConstantPlanners DEF EndSearch
<1>24. CASE EndSearchClear
    BY <1>24 DEF EndSearchClear
<1>25. CASE UpdateLanding
    BY <1>25, AbortType DEF UpdateLanding
<1>26. CASE UpdateSearching
    BY <1>26, UpdateType DEF UpdateSearching
<1>27. CASE SiteFound
    BY <1>27, ConstantPlanners DEF SiteFound
<1>28. CASE DecideEnded
    BY <1>28 DEF DecideEnded
<1>29. CASE DecideWaypoint
    BY <1>29, PlannerType DEF DecideWaypoint
<1>30. CASE DecideNothing
    BY <1>30 DEF DecideNothing
<1>31. CASE NextWaypointX
    BY <1>31 DEF NextWaypointX
<1>32. CASE NextWaypointY
    BY <1>32 DEF NextWaypointY
<1>33. CASE FinishUpdate
    BY <1>33 DEF FinishUpdate
<1>34. CASE HandleCollision
    BY <1>34 DEF HandleCollision
<1>35. CASE Tick
    BY <1>35 DEF Tick, ActionPending
<1>36. CASE ModeActive
    BY <1>36 DEF ModeActive
<1>37. CASE ModeEndSearch
    BY <1>37, ConstantPlanners DEF ModeEndSearch
<1>38. CASE ModeClear
    BY <1>38 DEF ModeClear
<1>39. CASE ModeReset
    BY <1>39, ConstantPlanners DEF ModeReset
<1>40. ASSUME NEW m \in FlightModes, FlightModeCallback(m) PROVE RetryInv'
    BY <1>40 DEF FlightModeCallback
<1>41. CASE Quiet
    BY <1>41 DEF Quiet
<1>42. QED
    BY StepCases, <1>1, <1>2, <1>3, <1>4, <1>5, <1>6, <1>7, <1>8, <1>9, <1>10, <1>11, <1>12,
       <1>13, <1>14, <1>15, <1>16, <1>17, <1>18, <1>19, <1>20, <1>21, <1>22, <1>23, <1>24,
       <1>25, <1>26, <1>27, <1>28, <1>29, <1>30, <1>31, <1>32, <1>33, <1>34, <1>35, <1>36,
       <1>37, <1>38, <1>39, <1>40, <1>41
    DEF DecisionMaker, React, Process, UpdateLandingSiteSearch

\* A landing state is checked against the mapper in every iteration.
LEMMA MapperStep == TypeOK /\ BranchInv /\ RetryInv /\ MapperInv /\ [Next]_vars => MapperInv'
<1> SUFFICES ASSUME TypeOK /\ BranchInv /\ RetryInv /\ MapperInv, [Next]_vars PROVE MapperInv'
    OBVIOUS
<1> USE DEF TypeOK, BranchInv, RetryInv, MapperInv
<1>1. CASE SampleSafeLanding
    BY <1>1 DEF SampleSafeLanding
<1>2. CASE SampleCollision
    BY <1>2 DEF SampleCollision
<1>3. CASE GateClosed
    BY <1>3, LandingActive DEF GateClosed
<1>4. CASE GateOpen
    BY <1>4 DEF GateOpen
<1>5. CASE Trigger
    BY <1>5 DEF Trigger, TriggerReaction
<1>6. CASE HoldUnhealthy
    BY <1>6 DEF HoldUnhealthy
<1>7. CASE ReactHold
    BY <1>7 DEF ReactHold
<1>8. CASE ReactRtl
    BY <1>8 DEF ReactRtl
<1>9. CASE ReactMove
    BY <1>9 DEF ReactMove
<1>10. CASE ReactGoTo
    BY <1>10 DEF ReactGoTo
<1>11. CASE ReactUnrecognised
    BY <1>11 DEF ReactUnrecognised
<1>12. CASE ReactSearch
    BY <1>12 DEF ReactSearch
<1>13. CASE RefuseSearch
    BY <1>13 DEF RefuseSearch
<1>14. CASE StartLandingSiteSearch
    BY <1>14, StartType DEF StartLandingSiteSearch
<1>15. CASE SearchStarted
    BY <1>15, PlannerType DEF SearchStarted
<1>16. CASE SearchNotStarted
    BY <1>16 DEF SearchNotStarted
<1>17. CASE FirstWaypointX
    BY <1>17 DEF FirstWaypointX
<1>18. CASE FirstWaypointY
    BY <1>18 DEF FirstWaypointY
<1>19. CASE ProcessEnd
    BY <1>19 DEF ProcessEnd
<1>20. CASE ProcessSearch
    BY <1>20 DEF ProcessSearch
<1>21. CASE ProcessTakeOff
    BY <1>21, ConstantPlanners DEF ProcessTakeOff
<1>22. CASE ProcessGoal
    BY <1>22, LandingActive DEF ProcessGoal
<1>23. CASE EndSearch
    BY <1>23, ConstantPlanners DEF EndSearch
<1>24. CASE EndSearchClear
    BY <1>24, LandingActive DEF EndSearchClear
<1>25. CASE UpdateLanding
    BY <1>25, AbortType DEF UpdateLanding, MustAbort
<1>26. CASE UpdateSearching
    BY <1>26, UpdateType DEF UpdateSearching, AbortStates
<1>27. CASE SiteFound
    BY <1>27, ConstantPlanners DEF SiteFound
<1>28. CASE DecideEnded
    BY <1>28 DEF DecideEnded
<1>29. CASE DecideWaypoint
    BY <1>29, PlannerType DEF DecideWaypoint
<1>30. CASE DecideNothing
    BY <1>30 DEF DecideNothing
<1>31. CASE NextWaypointX
    BY <1>31 DEF NextWaypointX
<1>32. CASE NextWaypointY
    BY <1>32 DEF NextWaypointY
<1>33. CASE FinishUpdate
    BY <1>33 DEF FinishUpdate
<1>34. CASE HandleCollision
    BY <1>34, LandingActive DEF HandleCollision
<1>35. CASE Tick
    BY <1>35 DEF Tick, ActionPending
<1>36. CASE ModeActive
    BY <1>36 DEF ModeActive
<1>37. CASE ModeEndSearch
    BY <1>37, ConstantPlanners DEF ModeEndSearch
<1>38. CASE ModeClear
    BY <1>38 DEF ModeClear
<1>39. CASE ModeReset
    BY <1>39, ConstantPlanners DEF ModeReset
<1>40. ASSUME NEW m \in FlightModes, FlightModeCallback(m) PROVE MapperInv'
    BY <1>40 DEF FlightModeCallback
<1>41. CASE Quiet
    BY <1>41 DEF Quiet
<1>42. QED
    BY StepCases, <1>1, <1>2, <1>3, <1>4, <1>5, <1>6, <1>7, <1>8, <1>9, <1>10, <1>11, <1>12,
       <1>13, <1>14, <1>15, <1>16, <1>17, <1>18, <1>19, <1>20, <1>21, <1>22, <1>23, <1>24,
       <1>25, <1>26, <1>27, <1>28, <1>29, <1>30, <1>31, <1>32, <1>33, <1>34, <1>35, <1>36,
       <1>37, <1>38, <1>39, <1>40, <1>41
    DEF DecisionMaker, React, Process, UpdateLandingSiteSearch

\* The override follows the planner.
LEMMA OverrideStep == TypeOK /\ BranchInv /\ RetryInv /\ OverrideInv /\ [Next]_vars => OverrideInv'
<1> SUFFICES ASSUME TypeOK /\ BranchInv /\ RetryInv /\ OverrideInv, [Next]_vars PROVE OverrideInv'
    OBVIOUS
<1> USE DEF TypeOK, BranchInv, RetryInv, OverrideInv
<1>1. CASE SampleSafeLanding
    BY <1>1 DEF SampleSafeLanding
<1>2. CASE SampleCollision
    BY <1>2 DEF SampleCollision
<1>3. CASE GateClosed
    BY <1>3 DEF GateClosed
<1>4. CASE GateOpen
    BY <1>4 DEF GateOpen
<1>5. CASE Trigger
    BY <1>5 DEF Trigger, TriggerReaction
<1>6. CASE HoldUnhealthy
    BY <1>6 DEF HoldUnhealthy
<1>7. CASE ReactHold
    BY <1>7 DEF ReactHold
<1>8. CASE ReactRtl
    BY <1>8 DEF ReactRtl
<1>9. CASE ReactMove
    BY <1>9 DEF ReactMove
<1>10. CASE ReactGoTo
    BY <1>10 DEF ReactGoTo
<1>11. CASE ReactUnrecognised
    BY <1>11 DEF ReactUnrecognised
<1>12. CASE ReactSearch
    BY <1>12 DEF ReactSearch
<1>13. CASE RefuseSearch
    BY <1>13 DEF RefuseSearch
<1>14. CASE StartLandingSiteSearch
    BY <1>14, StartType DEF StartLandingSiteSearch
<1>15. CASE SearchStarted
    BY <1>15, PlannerType DEF SearchStarted
<1>16. CASE SearchNotStarted
    BY <1>16 DEF SearchNotStarted
<1>17. CASE FirstWaypointX
    BY <1>17 DEF FirstWaypointX
<1>18. CASE FirstWaypointY
    BY <1>18 DEF FirstWaypointY
<1>19. CASE ProcessEnd
    BY <1>19 DEF ProcessEnd
<1>20. CASE ProcessSearch
    BY <1>20 DEF ProcessSearch
<1>21. CASE ProcessTakeOff
    BY <1>21, ConstantPlanners DEF ProcessTakeOff
<1>22. CASE ProcessGoal
    BY <1>22 DEF ProcessGoal
<1>23. CASE EndSearch
    BY <1>23, ConstantPlanners DEF EndSearch
<1>24. CASE EndSearchClear
    BY <1>24 DEF EndSearchClear
<1>25. CASE UpdateLanding
    BY <1>25, AbortType, LandingActive DEF UpdateLanding
<1>26. CASE UpdateSearching
  <2>1. /\ Active(lp') => Active(lp)
        /\ Active(lp') /\ (~lp'.updated \/ ShouldLand(lp')) => lp'.wpt = lp.wpt
    BY <1>26, UpdateType DEF UpdateSearching
  <2>2. QED
    BY <1>26, <2>1 DEF UpdateSearching
<1>27. CASE SiteFound
    BY <1>27, ConstantPlanners DEF SiteFound
<1>28. CASE DecideEnded
    BY <1>28 DEF DecideEnded, Ended, Active
<1>29. CASE DecideWaypoint
    BY <1>29, PlannerType DEF DecideWaypoint, Ended, Active
<1>30. CASE DecideNothing
    BY <1>30 DEF DecideNothing, Active, Ended
<1>31. CASE NextWaypointX
    BY <1>31 DEF NextWaypointX
<1>32. CASE NextWaypointY
    BY <1>32 DEF NextWaypointY
<1>33. CASE FinishUpdate
    BY <1>33 DEF FinishUpdate, Active, Ended
<1>34. CASE HandleCollision
    BY <1>34 DEF HandleCollision
<1>35. CASE Tick
    BY <1>35 DEF Tick, ActionPending
<1>36. CASE ModeActive
    BY <1>36 DEF ModeActive
<1>37. CASE ModeEndSearch
    BY <1>37, ConstantPlanners DEF ModeEndSearch
<1>38. CASE ModeClear
    BY <1>38 DEF ModeClear
<1>39. CASE ModeReset
    BY <1>39, ConstantPlanners DEF ModeReset
<1>40. ASSUME NEW m \in FlightModes, FlightModeCallback(m) PROVE OverrideInv'
    BY <1>40 DEF FlightModeCallback
<1>41. CASE Quiet
    BY <1>41 DEF Quiet
<1>42. QED
    BY StepCases, <1>1, <1>2, <1>3, <1>4, <1>5, <1>6, <1>7, <1>8, <1>9, <1>10, <1>11, <1>12,
       <1>13, <1>14, <1>15, <1>16, <1>17, <1>18, <1>19, <1>20, <1>21, <1>22, <1>23, <1>24,
       <1>25, <1>26, <1>27, <1>28, <1>29, <1>30, <1>31, <1>32, <1>33, <1>34, <1>35, <1>36,
       <1>37, <1>38, <1>39, <1>40, <1>41
    DEF DecisionMaker, React, Process, UpdateLandingSiteSearch

\* A pilot is left alone.
LEMMA PilotStep == TypeOK /\ BranchInv /\ PilotInv /\ [Next]_vars => PilotInv'
<1> SUFFICES ASSUME TypeOK /\ BranchInv /\ PilotInv, [Next]_vars PROVE PilotInv'
    OBVIOUS
<1> USE ModesAssumption DEF TypeOK, BranchInv, PilotInv, Manual
<1>1. CASE SampleSafeLanding
    BY <1>1 DEF SampleSafeLanding
<1>2. CASE SampleCollision
    BY <1>2 DEF SampleCollision
<1>3. CASE GateClosed
    BY <1>3 DEF GateClosed
<1>4. CASE GateOpen
    BY <1>4 DEF GateOpen
<1>5. CASE Trigger
    BY <1>5 DEF Trigger, TriggerReaction, LandingTriggered, AutoModes
<1>6. CASE HoldUnhealthy
    BY <1>6 DEF HoldUnhealthy
<1>7. CASE ReactHold
    BY <1>7 DEF ReactHold
<1>8. CASE ReactRtl
    BY <1>8 DEF ReactRtl
<1>9. CASE ReactMove
    BY <1>9 DEF ReactMove, GoalPolicies
<1>10. CASE ReactGoTo
    BY <1>10 DEF ReactGoTo, GoalPolicies
<1>11. CASE ReactUnrecognised
    BY <1>11 DEF ReactUnrecognised
<1>12. CASE ReactSearch
    BY <1>12 DEF ReactSearch
<1>13. CASE RefuseSearch
    BY <1>13 DEF RefuseSearch
<1>14. CASE StartLandingSiteSearch
    BY <1>14, StartType DEF StartLandingSiteSearch
<1>15. CASE SearchStarted
    BY <1>15, PlannerType DEF SearchStarted
<1>16. CASE SearchNotStarted
    BY <1>16 DEF SearchNotStarted
<1>17. CASE FirstWaypointX
    BY <1>17 DEF FirstWaypointX
<1>18. CASE FirstWaypointY
    BY <1>18 DEF FirstWaypointY
<1>19. CASE ProcessEnd
    BY <1>19 DEF ProcessEnd
<1>20. CASE ProcessSearch
    BY <1>20 DEF ProcessSearch, EndSearchReasons, VehicleEndsSearch, Manual
<1>21. CASE ProcessTakeOff
    BY <1>21, ConstantPlanners DEF ProcessTakeOff
<1>22. CASE ProcessGoal
    BY <1>22 DEF ProcessGoal
<1>23. CASE EndSearch
    BY <1>23, ConstantPlanners DEF EndSearch
<1>24. CASE EndSearchClear
    BY <1>24 DEF EndSearchClear
<1>25. CASE UpdateLanding
    BY <1>25, AbortType DEF UpdateLanding
<1>26. CASE UpdateSearching
    BY <1>26, UpdateType DEF UpdateSearching
<1>27. CASE SiteFound
    BY <1>27, ConstantPlanners DEF SiteFound
<1>28. CASE DecideEnded
    BY <1>28 DEF DecideEnded
<1>29. CASE DecideWaypoint
    BY <1>29, PlannerType DEF DecideWaypoint
<1>30. CASE DecideNothing
    BY <1>30 DEF DecideNothing
<1>31. CASE NextWaypointX
    BY <1>31 DEF NextWaypointX
<1>32. CASE NextWaypointY
    BY <1>32 DEF NextWaypointY
<1>33. CASE FinishUpdate
    BY <1>33 DEF FinishUpdate
<1>34. CASE HandleCollision
    BY <1>34 DEF HandleCollision
<1>35. CASE Tick
    BY <1>35 DEF Tick, ActionPending
<1>36. CASE ModeActive
    BY <1>36 DEF ModeActive
<1>37. CASE ModeEndSearch
    BY <1>37, ConstantPlanners DEF ModeEndSearch
<1>38. CASE ModeClear
    BY <1>38 DEF ModeClear
<1>39. CASE ModeReset
    BY <1>39, ConstantPlanners DEF ModeReset
<1>40. ASSUME NEW m \in FlightModes, FlightModeCallback(m) PROVE PilotInv'
    BY <1>40 DEF FlightModeCallback
<1>41. CASE Quiet
    BY <1>41 DEF Quiet
<1>42. QED
    BY StepCases, <1>1, <1>2, <1>3, <1>4, <1>5, <1>6, <1>7, <1>8, <1>9, <1>10, <1>11, <1>12,
       <1>13, <1>14, <1>15, <1>16, <1>17, <1>18, <1>19, <1>20, <1>21, <1>22, <1>23, <1>24,
       <1>25, <1>26, <1>27, <1>28, <1>29, <1>30, <1>31, <1>32, <1>33, <1>34, <1>35, <1>36,
       <1>37, <1>38, <1>39, <1>40, <1>41
    DEF DecisionMaker, React, Process, UpdateLandingSiteSearch

\* A command is the last one of its iteration, but for the landing at a goal.
LEMMA OneCommandStep ==
  TypeOK /\ RetryInv /\ OneCommandPerIteration /\ [Next]_vars => OneCommandPerIteration'
<1> SUFFICES ASSUME TypeOK /\ RetryInv /\ OneCommandPerIteration, [Next]_vars
             PROVE  OneCommandPerIteration'
    OBVIOUS
<1> USE DEF OneCommandPerIteration
<1>1. CASE SampleSafeLanding \/ SampleCollision
    BY <1>1 DEF SampleSafeLanding, SampleCollision
<1>2. CASE GateClosed \/ GateOpen
    BY <1>2 DEF GateClosed, GateOpen
<1>3. CASE Trigger
    BY <1>3 DEF Trigger, TriggerReaction
<1>4. CASE HoldUnhealthy \/ ReactHold \/ ReactRtl
    BY <1>4 DEF HoldUnhealthy, ReactHold, ReactRtl, RetryInv
<1>5. CASE ReactMove \/ ReactGoTo
    BY <1>5 DEF ReactMove, ReactGoTo, RetryInv
<1>6. CASE ReactUnrecognised \/ ReactSearch
    BY <1>6 DEF ReactUnrecognised, ReactSearch
<1>7. CASE RefuseSearch \/ SearchNotStarted
    BY <1>7 DEF RefuseSearch, SearchNotStarted, RetryInv
<1>8. CASE StartLandingSiteSearch
    BY <1>8 DEF StartLandingSiteSearch
<1>9. CASE SearchStarted \/ FirstWaypointX \/ FirstWaypointY
    BY <1>9 DEF SearchStarted, FirstWaypointX, FirstWaypointY
<1>10. CASE ProcessEnd \/ ProcessSearch \/ ProcessTakeOff
    BY <1>10 DEF ProcessEnd, ProcessSearch, ProcessTakeOff
<1>11. CASE ProcessGoal
    BY <1>11 DEF ProcessGoal
<1>12. CASE EndSearch \/ EndSearchClear
    BY <1>12 DEF EndSearch, EndSearchClear
<1>13. CASE UpdateLanding \/ UpdateSearching
    BY <1>13 DEF UpdateLanding, UpdateSearching
<1>14. CASE SiteFound \/ DecideEnded
    BY <1>14 DEF SiteFound, DecideEnded
<1>15. CASE DecideWaypoint \/ DecideNothing
    BY <1>15 DEF DecideWaypoint, DecideNothing
<1>16. CASE NextWaypointX \/ NextWaypointY \/ FinishUpdate
    BY <1>16 DEF NextWaypointX, NextWaypointY, FinishUpdate
<1>17. CASE HandleCollision \/ Tick
    BY <1>17 DEF HandleCollision, Tick
<1>18. CASE ModeActive \/ ModeClear
    BY <1>18 DEF ModeActive, ModeClear
<1>19. CASE ModeEndSearch \/ ModeReset
    BY <1>19, ConstantPlanners DEF ModeEndSearch, ModeReset
<1>20. ASSUME NEW m \in FlightModes, FlightModeCallback(m) PROVE OneCommandPerIteration'
    BY <1>20 DEF FlightModeCallback
<1>21. CASE Quiet
    BY <1>21 DEF Quiet
<1>22. QED
    BY StepCases, <1>1, <1>2, <1>3, <1>4, <1>5, <1>6, <1>7, <1>8, <1>9, <1>10, <1>11, <1>12,
       <1>13, <1>14, <1>15, <1>16, <1>17, <1>18, <1>19, <1>20, <1>21
    DEF DecisionMaker, React, Process, UpdateLandingSiteSearch

-----------------------------------------------------------------------------
(* The inductive invariant, and what follows from it.                      *)

\* No property can be lost at start-up: the planner is idle.
LEMMA IndInit == Init => IndInv
<1> SUFFICES ASSUME Init PROVE IndInv
    OBVIOUS
<1>1. TypeOK
    BY InitTypeOK
<1>2. ~Active(lp) /\ ~ShouldLand(lp)
    BY ConstantPlanners DEF Init
<1>3. QED
    BY <1>1, <1>2 DEF Init, IndInv, BranchInv, RetryInv, MapperInv, OverrideInv, PilotInv

\* Every step of every thread keeps the invariant.
LEMMA IndStep == IndInv /\ [Next]_vars => IndInv'
  BY TypeStep, BranchStep, RetryStep, MapperStep, OverrideStep, PilotStep DEF IndInv

\* The inductive invariant holds.
THEOREM InductiveInvariant == Spec => []IndInv
  BY IndInit, IndStep, PTL DEF Spec

\* The retry of an action never restarts a search, nor interrupts one.
THEOREM RetrySafe == Spec => []NoReactionDuringSearch
<1>1. IndInv => NoReactionDuringSearch
    BY DEF IndInv, RetryInv, NoReactionDuringSearch
<1>2. QED
    BY <1>1, InductiveInvariant, PTL

\* No iteration ends with a landing the mapper is against.
THEOREM LandingSafe == Spec => []LandingNeedsMapper
<1>1. IndInv => LandingNeedsMapper
    BY DEF IndInv, MapperInv, LandingNeedsMapper
<1>2. QED
    BY <1>1, InductiveInvariant, PTL

\* Between iterations the override is the waypoint of the active search.
THEOREM OverrideSafe == Spec => []OverrideTracksPlanner
<1>1. IndInv => OverrideTracksPlanner
    BY DEF IndInv, OverrideInv, OverrideTracksPlanner
<1>2. QED
    BY <1>1, InductiveInvariant, PTL

\* Safe landing sends nothing to a vehicle its pilot has taken over.
THEOREM PilotSafe == Spec => []SearchYieldsToPilot
<1>1. IndInv => SearchYieldsToPilot
    BY DEF IndInv, PilotInv, SearchYieldsToPilot
<1>2. QED
    BY <1>1, InductiveInvariant, PTL

\* An iteration sends one command at most, but for the landing at a goal: what a
\* pilot who takes over in its middle still gets from it.
THEOREM OneCommandSafe == Spec => []OneCommandPerIteration
<1>1. Init => OneCommandPerIteration
    BY DEF Init, OneCommandPerIteration
<1>2. IndInv /\ OneCommandPerIteration /\ [Next]_vars => OneCommandPerIteration'
    BY OneCommandStep DEF IndInv
<1>3. QED
    BY <1>1, <1>2, InductiveInvariant, PTL DEF Spec

\* A search does not outlive the iteration in which a pilot took over, whatever
\* the mode callback and the decision maker did to the planner in between.
THEOREM TakeoverSafe == Spec => []TakeoverEndsSearch
<1>1. IndInv => TakeoverEndsSearch
    BY DEF IndInv, PilotInv, TakeoverEndsSearch
<1>2. QED
    BY <1>1, InductiveInvariant, PTL

===============================================================================
