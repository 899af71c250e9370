------------------------- MODULE LandingManagerProofs -------------------------
(***************************************************************************)
(* The landing manager, for every length of the second, every threshold    *)
(* and every width of the counters: its types, that a dead camera's image  *)
(* is mapped at most MaxOld + 1 times, and that a live camera is accepted. *)
(***************************************************************************)
EXTENDS LandingManager, TLAPS

USE LandingAssumption DEF LandingAssumption

\* Incrementing a counter keeps it in the range of its type.
LEMMA IncrementType == \A n \in Counts : Increment(n) \in Counts
  BY DEF Increment, Counts

\* Unless it overflows, an increment adds one.
LEMMA IncrementAdds == \A n \in Counts : n # CountMax => Increment(n) = n + 1
  BY DEF Increment, Counts

\* The stamp of the next period is a stamp.
LEMMA NextPhase == \A p \in 0..Second - 1 : (p + 1) % Second \in 0..Second - 1
  OBVIOUS

\* The initial states are typed.
LEMMA InitTypeOK == Init => TypeOK
<1> SUFFICES ASSUME Init PROVE TypeOK
  OBVIOUS
<1>1. nulls \in Counts /\ olds \in Counts /\ last \in 0..Second - 1 /\ uses \in 0..MaxOld + 2
  BY DEF Init, Counts
<1>2. depth \in Images \cup {NoImage} /\ phase \in 0..Second - 1 /\ fresh \in BOOLEAN
  BY DEF Init
<1>3. state \in States
  BY DEF Init, States, Verdicts
<1>4. health = {} /\ mpc = "due" /\ age \in 0..2 /\ wrapped = FALSE /\ steady \in 0..Settled
  BY DEF Init, Settled
<1>5. configured \in BOOLEAN /\ oa \in BOOLEAN
  BY DEF Init
<1> QED
  BY <1>1, <1>2, <1>3, <1>4, <1>5 DEF TypeOK

\* A health check keeps the types of the health record.
LEMMA CheckType == TypeOK /\ HealthCheck => TypeOK'
<1> SUFFICES ASSUME TypeOK, HealthCheck PROVE TypeOK'
  OBVIOUS
<1> USE DEF TypeOK, HealthCheck, camera
<1>1. nulls' \in Counts
  BY IncrementType DEF Counts
<1>2. olds' \in Counts
  BY IncrementType DEF CountOld, Counts
<1>3. last' \in 0..Second - 1
  BY DEF Images, NoImage
<1>4. health' \subseteq {"NULL_IMAGES", "OLD_TIMESTAMPS"}
  BY DEF HealthStatus
<1>5. mpc' \in {"due", "map", "unhealthy", "nothing", "done"}
  OBVIOUS
<1>6. uses' \in 0..MaxOld + 2
  OBVIOUS
<1>7. wrapped' \in BOOLEAN
  OBVIOUS
<1>8. steady' \in 0..Settled
  BY DEF Settled
<1> QED
  BY <1>1, <1>2, <1>3, <1>4, <1>5, <1>6, <1>7, <1>8

\* Every step keeps the types.
LEMMA TypeStep == TypeOK /\ [Next]_vars => TypeOK'
<1> SUFFICES ASSUME TypeOK, [Next]_vars PROVE TypeOK'
  OBVIOUS
<1> USE DEF TypeOK
<1>1. CASE NewImage
  BY <1>1 DEF NewImage, checker
<1>2. CASE SetObstacleAvoidance
  BY <1>2 DEF SetObstacleAvoidance, checker, camera
<1>3. CASE Tick
  <2>1. phase' \in 0..Second - 1
    BY <1>3, NextPhase DEF Tick
  <2>2. age' \in 0..2
    BY <1>3 DEF Tick
  <2> QED
    BY <1>3, <2>1, <2>2 DEF Tick, checker
<1>4. CASE SkipMapping
  BY <1>4 DEF SkipMapping, checker, camera, Settled
<1>5. CASE HealthCheck
  BY <1>5, CheckType
<1>6. CASE MapImage
  BY <1>6 DEF MapImage, checker, camera, States
<1>7. CASE MarkUnhealthy
  BY <1>7 DEF MarkUnhealthy, checker, camera, States
<1>8. CASE NothingToMap
  BY <1>8 DEF NothingToMap, checker, camera, States, Verdicts
<1>9. CASE UNCHANGED vars
  BY <1>9 DEF vars, checker, camera
<1> QED
  BY <1>1, <1>2, <1>3, <1>4, <1>5, <1>6, <1>7, <1>8, <1>9 DEF Next, Mapper

\* TypeOK for every value of the constants: the health record of the landing
\* manager never leaves the range of its int16_t counters.
THEOREM LandingTypeCorrect == Spec => []TypeOK
  BY InitTypeOK, TypeStep, PTL DEF Spec

\* Initially no image was checked and none is being mapped.
LEMMA FrozenInit == Init => FrozenInv
  BY InitTypeOK DEF Init, FrozenInv, CheckedStamp, CountsWhole, UsesCounted, HealthKept,
                    FrozenImageRejected

\* A health check of an image counts it unless the count overflows: the stamp
\* of an image that was checked before is no newer than the last one.
LEMMA CheckCounts ==
  ASSUME FrozenInv, HealthCheck
  PROVE  CheckedStamp' /\ CountsWhole' /\ UsesCounted' /\ HealthKept' /\ FrozenImageRejected'
<1> USE DEF FrozenInv, TypeOK
<1>1. UNCHANGED depth
  BY DEF HealthCheck, camera
<1>2. CASE depth = NoImage
  <2>1. UNCHANGED <<olds, last, wrapped>>
    BY <1>2 DEF HealthCheck
  <2>2. mpc' # "map"
    BY <1>2 DEF HealthCheck, NoImage
  <2> QED
    BY <1>1, <1>2, <2>1, <2>2 DEF CheckedStamp, CountsWhole, UsesCounted, HealthKept,
                                  FrozenImageRejected
<1>3. CASE depth # NoImage
  <2>1. last' = depth.stamp /\ olds' = CountOld(depth)
    BY <1>3 DEF HealthCheck
  <2>2. wrapped' = (wrapped \/ (IsTimestampOld(depth) /\ olds = CountMax))
    BY <1>3 DEF HealthCheck
  <2>3. uses' = IF uses < MaxOld + 2 THEN uses + 1 ELSE uses
    BY DEF HealthCheck
  <2>4. CountsWhole'
    <3>1. CASE IsTimestampOld(depth) /\ olds # CountMax
      BY <3>1, <2>1, <2>2, IncrementAdds DEF CountOld, CountsWhole, Counts
    <3>2. CASE IsTimestampOld(depth) /\ olds = CountMax
      BY <3>2, <2>2 DEF CountsWhole
    <3>3. CASE ~IsTimestampOld(depth)
      BY <3>3, <2>1 DEF CountOld, CountsWhole
    <3> QED
      BY <3>1, <3>2, <3>3
  <2>5. UsesCounted'
    <3>1. CASE uses = 0
      <4>1. olds' \in Counts
        BY IncrementType, <2>1 DEF CountOld, Counts
      <4>3. uses' = 1
        BY <3>1, <2>3
      <4> QED
        BY <4>3, <2>4, <4>1 DEF UsesCounted, CountsWhole, Counts
    <3>2. CASE uses # 0
      <4>1. IsTimestampOld(depth)
        BY <3>2, <1>3 DEF CheckedStamp, IsTimestampOld, Images, NoImage
      <4>2. CASE olds # CountMax
        <5>1. olds' = olds + 1
          BY <4>1, <4>2, <2>1, IncrementAdds DEF CountOld
        <5> QED
          BY <5>1, <3>2, <2>2, <2>3, <1>1, <1>3 DEF UsesCounted, Counts
      <4> QED
        BY <4>1, <4>2, <2>2 DEF UsesCounted
    <3> QED
      BY <3>1, <3>2
  <2>6. HealthKept'
    <3>1. health' = HealthStatus(nulls', olds') /\ (mpc' = "map" => health' = {})
      BY DEF HealthCheck
    <3>2. olds' > MaxOld => health' # {}
      BY <3>1 DEF HealthStatus
    <3>3. olds' \in Counts
      BY IncrementType, <2>1 DEF CountOld, Counts
    <3> QED
      BY <1>1, <1>3, <3>1, <3>2, <3>3 DEF HealthKept, Counts
  <2>7. FrozenImageRejected'
    <3>1. olds' \in Counts /\ uses' \in Nat
      BY IncrementType, <2>1, <2>3 DEF CountOld, Counts
    <3> SUFFICES ASSUME mpc' = "map", ~wrapped' PROVE uses' <= MaxOld + 1
      BY DEF FrozenImageRejected
    <3>2. olds' <= MaxOld
      BY <2>6 DEF HealthKept
    <3>3. uses' = 0 \/ olds' >= uses' - 1
      BY <2>5, <1>1, <1>3 DEF UsesCounted
    <3>4. \A o \in Int, m, u \in Nat : o <= m /\ (u = 0 \/ o >= u - 1) => u <= m + 1
      OBVIOUS
    <3>5. olds' \in Int /\ MaxOld \in Nat
      BY <3>1 DEF Counts
    <3> QED
      BY <3>1, <3>2, <3>3, <3>4, <3>5
  <2> QED
    BY <2>1, <2>4, <2>5, <2>6, <2>7, <1>1 DEF CheckedStamp
<1> QED
  BY <1>2, <1>3

\* Every step keeps the inductive invariant.
LEMMA FrozenStep == FrozenInv /\ [Next]_vars => FrozenInv'
<1> SUFFICES ASSUME FrozenInv, [Next]_vars PROVE FrozenInv'
  OBVIOUS
<1>1. TypeOK'
  BY TypeStep DEF FrozenInv
<1>2. CheckedStamp' /\ CountsWhole' /\ UsesCounted' /\ HealthKept' /\ FrozenImageRejected'
  <2> USE DEF FrozenInv, TypeOK, CheckedStamp, CountsWhole, UsesCounted, HealthKept,
              FrozenImageRejected
  <2>1. CASE NewImage
    BY <2>1 DEF NewImage, checker, Images, NoImage
  <2>2. CASE SetObstacleAvoidance
    BY <2>2 DEF SetObstacleAvoidance, checker, camera
  <2>3. CASE Tick
    BY <2>3 DEF Tick, checker
  <2>4. CASE SkipMapping
    BY <2>4 DEF SkipMapping, checker, camera
  <2>5. CASE HealthCheck
    BY <2>5, CheckCounts
  <2>6. CASE MapImage
    BY <2>6 DEF MapImage, checker, camera
  <2>7. CASE MarkUnhealthy
    BY <2>7 DEF MarkUnhealthy, checker, camera
  <2>8. CASE NothingToMap
    BY <2>8 DEF NothingToMap, checker, camera
  <2>9. CASE UNCHANGED vars
    BY <2>9 DEF vars, checker, camera
  <2> QED
    BY <2>1, <2>2, <2>3, <2>4, <2>5, <2>6, <2>7, <2>8, <2>9 DEF Next, Mapper
<1> QED
  BY <1>1, <1>2 DEF FrozenInv

\* FrozenInv is an invariant, for every value of the constants.
THEOREM FrozenInvariant == Spec => []FrozenInv
  BY FrozenInit, FrozenStep, PTL DEF Spec

\* A frozen image is mapped at most MaxOld + 1 times before the mapper
\* reports its input unhealthy, as long as the count has not overflowed.
THEOREM FrozenSafe == Spec => []FrozenImageRejected
<1>1. FrozenInv => FrozenImageRejected
  BY DEF FrozenInv
<1> QED
  BY <1>1, FrozenInvariant, PTL

-----------------------------------------------------------------------------
(* A live camera.                                                          *)

\* The period before a period is one, and the one after it leads back.
LEMMA BeforeType ==
  \A p \in 0..Second - 1 : /\ Before(p) \in 0..Second - 1
                           /\ Before((p + 1) % Second) = p
<1> SUFFICES ASSUME NEW p \in 0..Second - 1
             PROVE  Before(p) \in 0..Second - 1 /\ Before((p + 1) % Second) = p
  OBVIOUS
<1>1. CASE p = Second - 1
  <2>1. (p + 1) % Second = 0
    BY <1>1
  <2> QED
    BY <1>1, <2>1 DEF Before
<1>2. CASE p # Second - 1
  <2>1. (p + 1) % Second = p + 1
    BY <1>2
  <2> QED
    BY <2>1 DEF Before
<1> QED
  BY <1>1, <1>2

\* From one check to the next an old stamp makes the run one longer, wherever the
\* stamps start over.
LEMMA RunGrows ==
  ASSUME Second >= 4, NEW p \in 0..Second - 1,
         NEW l \in {p, Before(p)}, NEW k \in {Before(p), Before(Before(p))}, k >= l
  PROVE  Run(l, p) >= Run(k, Before(p)) + 1
<1>1. CASE p = 0
  BY <1>1 DEF Before, Run
<1>2. CASE p = 1
  BY <1>2 DEF Before, Run
<1>3. CASE p = 2
  BY <1>3 DEF Before, Run
<1>4. CASE p > 2
  BY <1>4 DEF Before, Run
<1> QED
  BY <1>1, <1>2, <1>3, <1>4

LEMMA RunType == \A l, p : Run(l, p) \in 0..3
  BY DEF Run

\* An increment adds one at most, also when it overflows.
LEMMA IncrementAtMost == \A n \in Counts : Increment(n) <= n + 1
  BY DEF Increment, Counts

LEMMA InitStream == Init => StreamInv
  BY DEF Init, StreamInv, RecentStamp, HealthStatus

\* Checks in a row count no more old stamps than a run has.
LEMMA CheckStream ==
  ASSUME Second >= 4, TypeOK, StreamInv, HealthCheck
  PROVE  StreamInv'
<1> USE DEF TypeOK
<1>1. /\ UNCHANGED <<phase, fresh, depth, age>>
      /\ mpc = "due" /\ mpc' # "due"
      /\ health' = HealthStatus(nulls', olds')
      /\ steady' = IF age > 1 THEN 0 ELSE IF steady < Settled THEN steady + 1 ELSE steady
  BY DEF HealthCheck, camera
<1>2. health' = HealthStatus(nulls, olds)' /\ RecentStamp'
  BY <1>1 DEF StreamInv, RecentStamp, HealthStatus, Before
<1>3. CASE age > 1
  BY <1>1, <1>2, <1>3 DEF StreamInv
<1>4. CASE age <= 1
  <2>1. depth # NoImage /\ depth.stamp \in {phase, Before(phase)}
    BY <1>4 DEF StreamInv, RecentStamp
  <2>2. nulls' = 0 /\ olds' = CountOld(depth) /\ last' = depth.stamp
    BY <2>1 DEF HealthCheck
  <2>3. CheckPhase' = phase /\ CheckPhase = Before(phase)
    BY <1>1 DEF CheckPhase
  <2>4. last' \in {CheckPhase', Before(CheckPhase)'}
    BY <2>1, <2>2, <2>3, <1>1 DEF Before
  <2>5. Run(last, CheckPhase)' = Run(last', phase)
    BY <2>3 DEF Run
  <2>6. Run(last', phase) \in 0..3 /\ Run(last, Before(phase)) \in 0..3
    BY RunType
  <2>7. olds' <= Run(last', phase) \/ steady' <= Run(last', phase) + 1
    <3>1. CASE steady = 0
      BY <3>1, <1>1, <2>6 DEF Settled
    <3>2. CASE steady > 0 /\ ~IsTimestampOld(depth)
      BY <3>2, <2>2, <2>6 DEF CountOld
    <3>3. CASE steady > 0 /\ IsTimestampOld(depth)
      <4>1. /\ last \in {Before(phase), Before(Before(phase))}
            /\ olds <= Run(last, Before(phase)) \/ steady <= Run(last, Before(phase)) + 1
        BY <3>3, <2>3 DEF StreamInv
      <4>2. last >= last' /\ last' \in {phase, Before(phase)}
        BY <3>3, <2>1, <2>2 DEF IsTimestampOld
      <4>3. Run(last', phase) >= Run(last, Before(phase)) + 1
        BY <4>1, <4>2, RunGrows
      <4>4. olds' <= olds + 1 /\ olds' \in Int /\ olds \in Int
        BY <3>3, <2>2, IncrementAtMost, IncrementType DEF CountOld, Counts
      <4>5. steady' <= steady + 1 /\ steady' \in Int /\ steady \in Int
        BY <1>1 DEF Settled
      <4> QED
        BY <4>1, <4>3, <4>4, <4>5, <2>6
    <3> QED
      BY <3>1, <3>2, <3>3
  <2> QED
    BY <1>2, <2>2, <2>4, <2>5, <2>7 DEF StreamInv
<1> QED
  BY <1>3, <1>4

\* The next period: what was met is a period older.
LEMMA TickStream == TypeOK /\ StreamInv /\ Tick => StreamInv'
<1> SUFFICES ASSUME TypeOK, StreamInv, Tick PROVE StreamInv'
  OBVIOUS
<1> USE DEF TypeOK
<1>1. /\ UNCHANGED <<depth, nulls, olds, last, health, steady>>
      /\ mpc = "done" /\ mpc' = "due" /\ phase' = (phase + 1) % Second
      /\ age' = IF age < 2 THEN age + 1 ELSE 2
  BY DEF Tick, checker
<1>2. Before(phase)' = phase
  BY <1>1, BeforeType DEF Before
<1>3. CheckPhase' = CheckPhase
  BY <1>1, <1>2 DEF CheckPhase
<1>4. RecentStamp'
  <2>1. age' >= 1 /\ (age' <= 1 => age = 0)
    BY <1>1
  <2> QED
    BY <1>1, <1>2, <2>1 DEF StreamInv, RecentStamp
<1>5. Run(last, CheckPhase)' = Run(last, CheckPhase) /\ Before(CheckPhase)' = Before(CheckPhase)
  BY <1>1, <1>3 DEF Run, Before
<1> QED
  BY <1>1, <1>3, <1>4, <1>5 DEF StreamInv, HealthStatus

LEMMA StreamStep ==
  ASSUME Second >= 4, TypeOK, StreamInv, [Next]_vars
  PROVE  StreamInv'
<1>1. CASE NewImage
  BY <1>1 DEF NewImage, StreamInv, RecentStamp, CheckPhase, Before, HealthStatus, Run, checker,
              Images, NoImage, TypeOK
<1>2. CASE HealthCheck
  BY <1>2, CheckStream
<1>3. CASE Tick
  BY <1>3, TickStream
<1>4. CASE SkipMapping
  BY <1>4 DEF SkipMapping, StreamInv, RecentStamp, Before, HealthStatus, checker, camera
<1>5. CASE SetObstacleAvoidance \/ MapImage \/ MarkUnhealthy \/ NothingToMap \/ UNCHANGED vars
  <2>1. /\ UNCHANGED <<phase, fresh, depth, age, nulls, olds, last, health, steady>>
        /\ mpc' = "due" <=> mpc = "due"
    BY <1>5 DEF SetObstacleAvoidance, MapImage, MarkUnhealthy, NothingToMap, vars, checker, camera
  <2>2. CheckPhase' = CheckPhase
    BY <2>1 DEF CheckPhase, Before
  <2> QED
    BY <2>1, <2>2 DEF StreamInv, RecentStamp, Before, HealthStatus, Run
<1> QED
  BY <1>1, <1>2, <1>3, <1>4, <1>5 DEF Next, Mapper

\* The invariant of frozen and live cameras, for a second of at least four periods.
THEOREM InputInvariant == ASSUME Second >= 4 PROVE Spec => []InputInv
<1>1. Init => InputInv
  BY FrozenInit, InitStream DEF InputInv
<1>2. InputInv /\ [Next]_vars => InputInv'
  BY FrozenStep, StreamStep DEF InputInv, FrozenInv
<1> QED
  BY <1>1, <1>2, PTL DEF Spec

\* A live camera is healthy after five checks, for every width of the counters, as
\* long as its stamps may be old three times in a row (healthCheck).
THEOREM LiveSafe ==
  ASSUME Second >= 4, MaxOld >= 3
  PROVE  Spec => []LiveCameraAccepted
<1>1. InputInv => LiveCameraAccepted
  <2> SUFFICES ASSUME InputInv, steady = Settled PROVE health = {}
    BY DEF LiveCameraAccepted
  <2>1. steady = 5 /\ nulls = 0 /\ olds \in Int /\ Run(last, CheckPhase) \in 0..3
    BY RunType DEF InputInv, StreamInv, FrozenInv, TypeOK, Settled, Counts
  <2>2. olds <= 3
    BY <2>1 DEF InputInv, StreamInv
  <2>3. ~(nulls > MaxNull) /\ ~(olds > MaxOld)
    BY <2>1, <2>2
  <2> QED
    BY <2>3 DEF InputInv, StreamInv, HealthStatus
<1> QED
  BY <1>1, InputInvariant, PTL

===============================================================================
