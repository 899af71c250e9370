# Autopilot Manager: a verification project

TLA+ models of the Autopilot Manager, the companion computer process that keeps
a PX4 vehicle from landing where it cannot, with the TLC configurations that
check them and TLAPS proofs of the most important properties. Line numbers refer
to the source beside this directory; `PROJECT.json` maps every definition to the
lines it models.

## 1. The system

`main` builds one `AutopilotManager`, which reads the configuration file, starts
four managers with a thread each (and the threads of MAVSDK and of ROS 2 behind
them), and then loops at 1 Hz. The managers call each other through
`std::function` callbacks handed out at the start, so that "asking another
module" is a plain read of that module's data from the caller's thread.

| Component | State it keeps | Operations | Interacts with |
|---|---|---|---|
| Mission manager (`MissionManager.cpp`) | configuration copy, flight mode, landed state, position, origin, trajectory time stamp, override waypoint `_new_x/_new_y`, goal of a goto, `_action_in_progress`, `_last_time`, the landing planner | decision maker loop (20 Hz), flight mode / landed / position / trajectory callbacks, waiting for the global origin | reads the landing manager's state and heights, commands the vehicle through MAVSDK actions, answers trajectory messages, tells the main loop `_oa_enabled` and `_is_healthy` |
| Landing planner (git submodule, external) | search pattern, current waypoint, active / landing / ended | start, update, end, reset, queries | called by two threads of the mission manager without a lock |
| Custom action handler (`CustomActionHandler.cpp`) | three parallel vectors (actions, metadata, progress/result), `_new_action`, `_action_stopped` | receive, cancel, check, execute stage by stage, report | MAVSDK custom actions, the shell, telemetry for "landed" and "took off" |
| Landing manager (`LandingManager.cpp`) | mapper, health record with counters and last time stamp, `_state`, enable flags | one mapper period: health check, mapping, publishing | reads the sensor manager's image, is read by the mission manager and the main loop, gets its flag from the main loop |
| Sensor manager (`SensorManager.cpp`) | downsampler, image, odometry and image times, health status and the pending report | odometry, camera info, depth image, health check at 10 Hz | fed by MAVSDK and ROS 2, reports to the operator, is read by landing manager and main loop |
| Main loop (`AutopilotManager.cpp`) | `_obstacle_avoidance_enabled`, the configuration members under `_config_mutex` | copy the flag to two managers, send the avoidance heartbeat, configuration requests and config callbacks | all managers |
| Configuration (`AutopilotManagerConfig.cpp`) | one message's worth of fields, the file and its temporary file | init from message / file, write to message / file | D-Bus requests, the file system |
| Time synchronisation (`TimeSync.cpp`) | offset and skew estimate, counters of samples and of deviations | request at a timer, answer in a callback, reset | sensor manager, the autopilot's clock |
| Collision avoidance (`CollisionAvoidanceManager.cpp`) | latest depth ahead | measurement at 10 Hz | reads the sensor manager's image and the configuration, is read by the mission manager |
| Map visualizer, D-Bus interface, main, helpers, `ModuleBase`, packaging | - | I/O and start-up | - |

### What is hard here

* **Interleavings without locks.** Decision maker, callback and origin thread of
  the mission manager share the planner and the override waypoint; the checker,
  reporter and callback threads of the custom action handler share vectors and
  two flags.
* **Time-outs against progress.** A reaction may be repeated 5 s after the last
  one; a search lasts longer and must not be restarted by that rule. Trajectories
  count as stopped after 0.5 s, inputs after 2.5 s; a reporter has 500 ms to
  deliver a result and 200 ms to see that it must stop.
* **Stale data.** The landing state may be old when a site is approved; the depth
  image is never cleared, so a dead camera looks like the last image; its time
  stamp starts over every second; `healthCheck` does not run while obstacle
  avoidance is off.
* **Long legal sequences.** The goal of a goto outlives the pilot's takeover; a
  waypoint altitude is compared but never set; one NaN in a static velocity stays.
* **Numeric edges.** `int16_t` counters that only go up, stamps modulo a second, an
  unsigned difference of two clocks, NaN and "no pixel" in a minimum.
* **Crash and restart** around the rewriting of the configuration file.

The hazards are listed one by one, with their line and the properties that cover
them, in `PROJECT.json`.

### What makes each component correct

* Mission manager: a reaction is never begun under a running search; no landing
  at a candidate site on a bad mapper state; the waypoint flown is the planner's;
  a pilot is left alone; a search ends when it can no longer steer; an action
  never blocks the next for good; an unsafe landing is always answered.
* Custom action handler: success is reported only, and always, when all stages
  ran; a cancellation stops within one stage and cannot hang; nothing accepted
  is lost.
* Landing manager: a dead camera is noticed, and soon enough; a live one is
  not taken for dead for longer than a few checks.
* Sensor manager and main loop: "healthy" means images that other modules can
  use; the operator's last message is current; heartbeats stop without input and
  go on with it; managers share the flag.
* Configuration: never a torn file, never a torn copy, and a restart or a
  `get_config` finds what was saved last.
* Time synchronisation: a wrong clock offset survives a few contrary answers only, a right
  one is not thrown away, and the estimate converges again after every reset.
* Collision avoidance: an obstacle ahead decides the reading, and the mission
  manager reacts to it, whatever was measured before.

## 2. The modules

| Module | Models | Extends |
|---|---|---|
| `LandingPlanner` | the external planner, as records and sets of outcomes | - |
| `CollisionAvoidance` | one measurement of the distance ahead | - |
| `MissionManager` | decision maker, callbacks, origin thread, composed with the measurement | `LandingPlanner`, `CollisionAvoidance` |
| `MissionManagerProofs` | theorems of `MissionManager` | `MissionManager`, `TLAPS` |
| `SafeLanding` | the abstract specification: what the mission manager promises | - |
| `MissionRefinement` | the refinement mapping (`INSTANCE SafeLanding WITH ...`) | `MissionManager` |
| `MissionRefinementProofs` | the proof that it is one | `MissionRefinement`, `MissionManagerProofs` |
| `CustomActionHandler` | checker, reporter, callbacks | - |
| `CustomActionHandlerProofs` | its theorems | `CustomActionHandler`, `TLAPS` |
| `ActionReports` | the abstract specification: what the autopilot can rely on | - |
| `ActionRefinement` | the refinement mapping, and the invariant its proof adds | `CustomActionHandler` |
| `ActionRefinementProofs` | the proof | `ActionRefinement`, `CustomActionHandlerProofs` |
| `LandingManager` | a period of the mapper, the image, the health record | - |
| `LandingManagerProofs` | theorems of `LandingManager` | `LandingManager`, `TLAPS` |
| `SensorManager` | inputs, health check, reports | - |
| `AutopilotManager` | `run()` composed with the sensor manager | `SensorManager` |
| `AutopilotManagerProofs` | theorems of both | `AutopilotManager`, `TLAPS` |
| `AutopilotManagerConfig` | requests, members, files, crash | - |
| `ConfigurationStore` | the abstract specification: what the users of the configuration see | - |
| `ConfigRefinement` | the refinement mapping | `AutopilotManagerConfig` |
| `AutopilotManagerConfigProofs` | the theorems of both | `ConfigRefinement`, `TLAPS` |
| `TimeSync` | the clock offset estimator, its requests and answers | - |
| `TimeSyncProofs` | its theorems | `TimeSync`, `TLAPS` |
| `MC*` | small instances for TLC | the module they name |

### How state and actions correspond to the code

**MissionManager.** `dm` is the program counter of `decision_maker_run`, `cb` that
of the MAVSDK callback thread. A step is what runs between two accesses to data
another thread writes: `go_to_new_local_waypoint` is two steps (`FirstWaypointX`,
`FirstWaypointY`), the end of a search two (`EndSearch`, `EndSearchClear`), the
reset of the planner by a new flight mode up to four (`ModeActive` ...
`ModeReset`). `handle_safe_landing` begins with `SampleSafeLanding`; `GateClosed` and
`GateOpen` are the test of line 496, `Trigger` (from line 511) the decision whether the
vehicle lands where it cannot, the `React...` actions one policy each, the
`Process...` actions lines 742 to 793, the `Update...`, `Decide...` and
`FinishUpdate` actions `update_landing_site_search`. Coordinates are reduced to
which waypoint of the pattern they are, or `NaN`; the position to whether it is
over the goal, at its altitude, at altitude zero. `vel` keeps of the smoothed
velocity whether it is a number. `age` counts loop iterations since `_last_time`.
Two ghost variables remember what the present iteration sent to the vehicle
(`issued`) and whether a pilot had control before it began (`attended`).

**SafeLanding, MissionRefinement.** The abstract specification knows no threads and no
places in the code. It works in rounds (one iteration of the decision maker), each
with one mapper verdict, a search that is off, searching or landing, and the
commands of the round. A step either commands the vehicle, with no search on, or
moves the search; a search begins only on an unsafe verdict and lands only on
`CAN_LAND`; a round may not end while it lands on a verdict to abort; a round a pilot
attends from its beginning has no search, and under a policy that yields no command.
The mapping takes the phase from the planner (`Phase`), the verdict from what the
iteration sampled (`seen`), and leaves the rest as it is. It is not obvious that it
is one: a callback may reset the planner between any two steps of an iteration,
and the 5 s rule could begin a reaction under a search.

**CollisionAvoidance.** `MeasureDistance` is one call of `compute_distance_to_obstacle`,
`DepthImageArrives` the sensor manager's new image; `HandleCollision` reads `depth` as
`handle_simple_collision_avoidance` does. An image is known by the kinds of depths
("near" is within the threshold) inside and outside the region of interest. The
minimum of pixels with NaN among them depends on their order, which is free. With
no pixel in the region the code dereferences the end iterator of an array whose
elements it has just erased: the reading is one of those (undefined behaviour,
with what the build leaves there). `set_roi` is called by nobody.

**TimeSync.** `Run` is `TimeSync::run`, with its round trip test, deviation count and
reset; `OwnAnswer` the answer to a request of this computer with any delays on its
two ways, `ForeignMessage` any other `TIMESYNC` message, whose stamps fit anything;
`ClockStep` sets one of the clocks. The difference of the stamps is taken modulo
`Modulus`, the width of `uint64_t`. What the smoothing filter makes of a sample is any
estimate, but for the first sample of a window. `PublishTimeSync` sends an
uninitialised `tc1` (`SensorManager.cpp:330`): the request is answered only if it
happens to be zero. The ghost `off` counts own quick answers in a row that left the
stamps of poses wrong. It starts again when the stamps are no longer wrong, when a
clock is set, and with a foreign sample that passes the round trip test and is close to
the estimate (`Confirms`): such a sample makes `run` forget its count too.

**CustomActionHandler.** `chk` follows `new_action_check`, `process_custom_action`
and `execute_custom_action`; `rpt` follows `send_progress_status`. The three
vectors are written by one thread and read at their back; the model keeps the
queue and the back elements. The 500 ms before the stop flag is raised are the
guard `ReporterHadTime` (the reporter loops every 100 ms; that one of its loops takes
less than 500 ms is assumed and not shown), the 200 ms it stays up
the guard of `CloseWindow` when `ReporterInTime`. The callback for new actions keeps
references to two locals of a function that has returned; what its test says is
arbitrary, and a received action may or may not be accepted. A script whose complete
condition is neither of the two the code knows is not run (`"other"`), and its result
is unknown, which ends the reporter.

**ActionReports, ActionRefinement.** Towards the autopilot the handler has one action
open at a time, from the fetching of its metadata (`GetMetadata`) to the end of the stop
window (`CloseWindow`). While it is open the autopilot is told how it goes: a final
result is not taken back, a success is told only when it was earned, and it has been
told before the action is closed unless someone cancelled. The reporter runs a loop
behind the checker, which releases the result and starts the next action; the refinement
says that this is never seen from outside. Which action a report is about is no part
of it: the reporter is given the newest action (line 150), which need not be the one
that is executed. `SuccessIsEarned` and `EndIsTold` say what the specification amounts to.

**LandingManager.** Time is counted in mapper periods of 100 ms. An image carries
the period of the second it was taken in and whether any pixel is valid. Counters
wrap at `CountMax` as `int16_t` does. The mapping library returns any verdict. The ghost
`steady` counts the checks in a row, one in each period, that met an image of their own
period or the one before: what a live camera gives the mapper.

**SensorManager, AutopilotManager.** Time is counted in periods of the health
check. The main loop reads one module per step. The other two managers appear as
what the loop reads of them: a flag and a health that may change at any time,
the landing manager's health only while its flag is up.

**AutopilotManagerConfig.** A configuration is four fields: the two enable flags,
one for all other fields of a message, one for the fields no message carries.
`SetConfiguration` and a config callback are two steps each under the mutex;
`WriteToFile` is open, write, rename; the process may die between any two. A
`get_config` request loads the file (`GetConfigRequest`), and `GetConfiguration` then fills
in a copy: it takes its argument by value (`AutopilotManager.cpp:184`), so that the reply
carries what was in the file. `GetTellsMembers` shows what this still amounts to.
A file cut short has lost lines, which leave their defaults, and may end in a line cut in its
middle, which tells any value (`Remains`); one cut right after a `=` makes the reading
throw and the process die, which is a `Crash`. A temporary file that stays behind is
kept without its contents, which nothing reads. The ghost `saved` is the configuration
last saved, or taken over at a start, and outlives a crash; `failed` tells whether the
last write of this process failed.

**ConfigurationStore, ConfigRefinement.** To its users the configuration is one that is in
force and one that is stored, each replaced in a single step. A start takes over what is
stored; a request sets a configuration and then saves it or fails to; a copy is of what is
in force; a restart forgets all but what is stored. The mapping lets a set take effect
when `SetConfiguration` is through, a copy when the callback is, a save with the rename:
the half-written members and the half-written file are seen by nobody, and a process
that dies does so between two such steps. What saving leaves in the file is the code's
(`Images`, with the field it writes wrongly); the store takes it as it is.

**Assumed.** Methods of the planner are atomic (its source is not here). The mission
manager's configuration is the one of the start: the constructor of
`AutopilotManager` never returns, so that `main.cpp:66-70` never registers the
D-Bus interface; `AutopilotManagerConfig` models requests as the code would serve
them. A MAVSDK command may be obeyed or not: the vehicle's modes are free.

## 3. The runs

| Run | Configuration | Question |
|---|---|---|
| `search` | `MCSearch.cfg` | Are searches safe under every interleaving, what do they leave a pilot who takes over, do they implement `SafeLanding`, and is the invariant of the proofs one? |
| `policies` | `MCPolicies.cfg` | Every policy and collision avoidance, under fair threads: does a search end, is an unsafe landing or an obstacle answered, does no action block the next? |
| `custom_action` | `MCCustomAction.cfg` | What is the autopilot told, does a cancellation work, does the handler implement `ActionReports`? |
| `landing_manager` | `MCLandingManager.cfg` | Is a dead camera noticed, and a live one accepted, in spite of stamps that start over every second? |
| `autopilot` | `MCAutopilotManager.cfg` | Do heartbeats follow the inputs, are reports current, do the managers share the flag? |
| `config` | `MCConfig.cfg` | Is a file or a copy ever torn, do file, replies and memory drift apart, is it all a `ConfigurationStore`? |
| `time_sync` | `MCTimeSync.cfg` | How many answers does a wrong clock offset survive, is a right one kept, does the filter converge again? |
| `pilot_goal`, `stuck_waypoint`, `search_velocity`, `lost_action`, `config_file` | `MCPilot`, `MCStuck`, `MCVelocity`, `MCLostAction`, `MCConfigFile` | One statement of a comment or document each, which the code does not keep. |

### Bounds

* `Waypoints`: two where the identity of waypoints matters (moving on, aborting to
  another one), as model values with symmetry in the run without liveness (what the
  refinement maps holds no waypoint, so that it is sound there too); one in
  the others. The code compares a waypoint only with NaN and with the planner's
  own, so that a third adds nothing to tell apart.
* `ActionTimeout`: 1 or 2 iterations for the 5 s. What matters is whether `_last_time`
  is refreshed in the same iteration, in an earlier one, or not in time. The proofs
  hold for every value.
* `ManualModes`, `PassiveModes`: the code tests membership only; one or two each.
* `Readings`: all mapper states but those the code treats like another one of the set.
* `Positions`: away from the goal, at the goal, at altitude zero over it; they vary only
  under the two policies that fly to a goal.
* `Images` (collision avoidance): an obstacle among other pixels, one beside an empty
  region of interest, no pixel at all, and a NaN pixel next to an obstacle.
* Custom actions: one of two stages (a wait for the vehicle, a timed one), one
  script, one script that is not run; `MaxQueue = 2`, for an action that arrives while another runs.
* Landing manager: a second of `Second = 4` periods, `MaxOld = 3` and a counter up to
  `CountMax = 5`, so that stamps start over within the tolerance and counters wrap
  soon. The proof of `FrozenImageRejected` is for all values; that of `LiveCameraAccepted`
  for `Second >= 4` and `MaxOld >= 3`, which are the bounds of the run (the code has 10
  and 50).
* Sensor manager: `Grace = 3` periods and `Timeout = 2` keep the order 2.5 s < 5 s.
* Time synchronisation: a window of 3 samples for the code's 250, 4 microseconds for the
  round trip limit and for the largest deviation, the code's 5 deviations, `Modulus = 100`.
  Delays lie on both sides of the limit and are lopsided, the clocks are apart in
  either direction or not at all, a foreign stamp may lie in the future. That the
  round trip limit is small against the width of the type is the assumption
  `RoundTripsAssumption`. The proofs are for all values.
* Configuration: two values for a field that has others than true and false.

### Fairness

Threads that are not blocked keep running and timers fire: weak fairness of the
decision maker and of callbacks that have begun, of the checker and the reporter,
of the mapper's timer, of the main loop and the health check's timer, of the
distance measurement's timer. Each of
them is an endless loop with a sleep, or an executor. No input has to arrive: no
telemetry, image, trajectory, request or cancellation is fair, and the vehicle
need not land. A stage or a script of a custom action ends (the code waits for
it without limit). Liveness properties therefore have the form "when the world
stays like this for good, the program gets there". `Synchronises` needs no fairness of the
program: its premise, that quick answers keep coming, is the autopilot's to keep.

### What the runs show

All properties of the seven passing runs hold. Points a reader might not expect:

* `SearchYieldsToPilot` is about iterations that begin after the pilot took over;
  the iteration under way may still send one command (`MissionManager.cpp:532`), and
  the two policies that fly to a goal do not keep even that (below).
* `OneCommandPerIteration` says that this is one command and no more. Only the landing
  at a goal may follow a command in the same iteration, which is the second violation
  below. `TakeoverEndsSearch` says that a search which that iteration began or found is
  over with it.
* `NeverLandsUnattended` needs a policy the code recognises: the empty default only
  sets `_action_in_progress` (line 724).
* `FrozenImageRejected` bounds the maps made of one image by `MAX_OLD_TIMESTAMP + 1`
  until the counter overflows; after that a dead camera counts as healthy for the
  negative half of its range, about 55 minutes. `FrozenCameraNoticed` shows that it is
  noticed again.
* `LiveCameraAccepted`: with a new image in every period one stamp in a second looks old,
  and an image that is met twice adds another. Around the start of a second up to three
  can come in a row, which is why `MaxOld` must allow three.
* `ManagersAgree` holds only because the main loop compares the flag with its own copy and
  tells both managers before it reads it again (`AutopilotManager.cpp:475-489`).
* A failed stage raises the stop flag 100 ms after it has set its result
  (`CustomActionHandler.cpp:206-207`), so that a reporter whose loop takes as long ends
  without sending it. `SuccessIsAcknowledged` is about successes only.
* `WrongOffsetIsShortLived` allows five wrong answers: the code resets at the sixth
  (`TimeSync.cpp:124`, `>` after the increment), where its comment says five (line 122).
  It counts answers, not seconds: how often requests are answered depends on `tc1`.
  Slow answers in between change nothing, nor do foreign messages that fail the round trip
  test or deviate too. A foreign sample that agrees with a wrong estimate does: it clears
  the deviation count (`TimeSync.cpp:130-151`), so that such traffic can keep a wrong
  offset in use for any number of own answers. The property makes no claim there.
* `SearchEndsWithoutTrajectories` says that the search ends, not with which command.
* `OverrideTracksPlanner` is about searches: a waypoint that is written after the
  callback's reset stays behind, and `isActive()` (line 143) keeps it from being flown.
* `SuccessIsAcknowledged` shows that nothing but a cancellation ends the reporter before
  the 500 ms are over; that these suffice for one of its loops is assumed.
* `RightEstimateKept` speaks of the answers to requests of this computer. Other
  traffic of the network may reset a right estimate, as it fits anything.
* `ObstacleAheadAnswered` excludes images with a NaN pixel ahead: if it comes first, it
  is the minimum and hides the obstacle (`CollisionAvoidanceManager.cpp:119`).
* `FileFollowsMembers` and `GetTellsMembers` cover the writes that fail and the files cut
  short: after a failed write, which the caller is not told of, file and replies go
  on to tell the configuration saved before, while the members hold the new one; a file
  cut short tells what is left of the new one. Otherwise file, replies and members
  agree, but for the field that `WriteToFile` writes wrongly.

The five violations, each a trace of the code against a sentence about it:

1. `PilotHasControl` - "Reset safe landing on new flights or when in manual control"
   (`MissionManager.cpp:260`). The goal of a goto survives, and the vehicle is ordered
   to land when a pilot flies it past that goal.
2. `NotStuckAtWaypoint` - "avoid the vehicle getting stuck trying to land in a place
   it can't land" (`MissionManager.cpp:666-669`). The altitude compared is never set;
   the goto and the landing go out in one iteration.
3. `SearchFollowsPattern` - "command a horizontal velocity to follow the search
   pattern" (`MissionManager.cpp:179`). A waypoint unset between check and use makes
   the static velocity NaN for good.
4. `AcceptedActionIsPending` - "clear actions after they are processed"
   (`CustomActionHandler.cpp:284`). An action received between that clearing and the
   reset of the flag stays stored and is never processed.
5. `RestartKeepsConfiguration` - `WriteToFile` stores `simple_collision_avoid_enabled`
   under `safe_landing_enabled` (`AutopilotManagerConfig.cpp:186`), which the next
   start reads.

## 4. The proofs

**MissionManagerProofs** proves, for all configurations, waypoints, modes and
time-outs, that `IndInv` is an invariant of `Spec`, and from it `TypeOK`,
`NoReactionDuringSearch`, `LandingNeedsMapper`, `OverrideTracksPlanner`,
`SearchYieldsToPilot`, `TakeoverEndsSearch` and `OneCommandPerIteration`. None of them is inductive alone. `RetryInv` adds that a
search keeps `_action_in_progress` and ends each iteration with a fresh
`_last_time`, which is why the 5 s rule cannot fire under it. `MapperInv` follows a
landing state from the step that checked it to the end of the iteration.
`OverrideInv` says at which places of both threads the override and the planner
agree, and what the decision maker is about to write where they do not.
`PilotInv` says where in an iteration a search can still be on under a pilot, and
that only goal policies have a goal; `TakeoverEndsSearch` follows from it.
`OneCommandPerIteration` is inductive together with `RetryInv`, by which a command and a
running search exclude each other. `BranchInv` keeps the planner out of the
collision avoidance branch. The proof has one lemma per group of actions and one
step per action; it rests on the assumptions of `MissionManager` and
`LandingPlanner`, which TLC evaluates for each instance.

**MissionRefinementProofs** proves `ImplementsSafeLanding` for every choice of the
constants. The steps of the three threads are sorted by what they are to `SafeLanding`: a
stutter (`Unmoved`), a command (`Commanded`), the end of a search (`Rested`), a move
of the planner, a new round. `IndInv` supplies what the sorting needs: that the
reaction begins only with the planner at rest (`RetryInv`), that a landing phase is
not left to the next round on a bad verdict (`MapperInv`), and at which places an
attended iteration can be (`PilotInv`, used in `AttendedPlaces`). `AbstractPilot` proves what
the abstract specification promises a pilot, so that with the refinement every
implementation of it keeps that promise; `PilotLeftAlone` says so of this one.
`VehicleSafe` does the same for an action property: commands and searches exclude each
other, and a search or a landing at a site begins, and goes on, only on the verdict it
needs, in every step of every thread.

**TimeSyncProofs** proves `SyncInv`, and with it `WrongOffsetIsShortLived` and the action
property `RightEstimateKept`, for every window, limit, delay and clock. A quick answer
gives a sample that is right up to half a round trip (`SampleBounds`); so while the
stamps are wrong by more than that it deviates (`WrongDeviates`) and is counted, and
while the estimate is right it agrees (`RightAgrees`). `ForeignRtt` needs the assumption
on the width of the type: it is why a negative difference fails the test. While the
stamps stay wrong a foreign message takes nothing off the count unless it confirms the
estimate (`ForeignCount`), which is where the ghost starts again. `DeviationsCount` says
the same of the filter alone, step by step and without the ghost.

**LandingManagerProofs** proves `FrozenInv`, and with it `FrozenImageRejected`, for
every length of a second, tolerance and counter width: a checked image has left
its own stamp behind (`CheckedStamp`), so every further check counts it as old
(`UsesCounted`), and it is mapped only while that count is tolerated
(`HealthKept`). `InputInv` adds `StreamInv`, from which `LiveCameraAccepted` follows. The
argument is a bound on runs of old stamps: with the stamp `last` met in period `p`, no
more than `Run(last, p)` old stamps can have come in a row from a live camera, three at
most. A check in the next period that counts another one moves to a pair with a
larger bound (`RunGrows`, by cases on the place in the second). What was counted before
the camera came back is gone after one check more than the bound, hence the second
disjunct of `StreamInv` and the five checks. `RunGrows` is false for a second of fewer
than four periods, which is the assumption of both theorems.

**CustomActionHandlerProofs** proves `HandlerInv`, and with it
`SuccessMeansAllStagesRan`, `SuccessIsAcknowledged` and `CancelStopsStages`, for every
custom action file and queue length. `StageInv` says that without the stop flag all
stages before the present one have run, and `CancelInv` that a cancellation keeps the
flag up to the end; so a skipped stage can never be followed by a success.
`ReportInv` says when the reporter is behind the result, and that it ends early only
on a cancellation or a failure. The second theorem rests on `ReporterHadTime`, the
modelling of the 500 ms; the other two do not.

**ActionRefinementProofs** proves `ImplementsActionReports` for every custom action file,
from `ReporterInTime`: a loop of the reporter takes less than the 200 ms of the stop
window (otherwise it may speak of the action before, or never end). `FinalInv` says that
only "in progress" is followed by another result, `SilenceInv` that the reporter is
silent between actions, `EarnedInv` that an action all of whose stages ran ends in a
success unless it is cancelled; `HandlerInv` supplies the rest. The steps are then sorted
as in MissionRefinementProofs. `AbstractSuccess` proves of `ActionReports` itself that a
success is told only when it was earned, and `AbstractEnd` that an end that was told stands.
`SuccessEarned` and `EndsStand` carry both over to the handler by the refinement; the
second is an action property of every step of its threads.

**AutopilotManagerProofs** proves `LoopInv`, and with it `HealthyInputsArrive`,
`ReportIsCurrent` and `ManagersAgree`, for every grace period longer than the time-out.
`ImageInv` is what the first needs: until an image is usable its age grows along with
the grace period, which is why the two may not be exchanged. `TellInv` is what the last
needs: between the two calls of `update_obstacle_avoidance_enabled` one manager has
already been told.

**AutopilotManagerConfigProofs** proves `ConfigInv`, and with it `FileIsWhole`,
`FileFollowsMembers`, `GetTellsMembers` and the action property `CopyIsWhole`, for every set
of values.
`MutexInv` says who holds the mutex and what is half done under it; `WriteInv` what the
temporary file may hold when it is renamed (`WrittenTells`: the configuration being
written, or what is left of it), that a start takes over what it read, and
what a `get_config` request has read when it is answered. `FileFollowsMembers` is part of the
invariant, and holds of every state because `saved` changes only with a rename or with a start.
From the same invariant it proves `ImplementsConfigurationStore`. `NextStore` sorts the steps: those that release the mutex
or rename the file are the steps of the store, all others are stutters, and a crash at
any of them is its `Restart`.

**Only model-checked**: all liveness (`FrozenCameraNoticed`, `CancelledActionEnds`,
`HeartbeatsContinue`, `HeartbeatStopsWithoutInput`, `ManagersFollow`, `Synchronises` and
those of `policies`), which is beyond the prover, and the five violations. `TypeOK` of every
component, part of its invariant in the runs, and every safety property and refinement of
the passing runs are proved.

## 5. Not modelled, and why

* The value of the clock offset estimate: exponential smoothing of real numbers. The
  model leaves it open and keeps what decides when it is used and thrown away.
* The height estimates, the search parameters, the point cloud and the statistics of
  the landing manager: numbers from the external mapper or for display. They
  reach other modules as the height (`high`) and the verdict.
* The start of the system (a wait of 10 s for an autopilot, an exit on failure) and
  its shutdown, which `main` never reaches: one sequence without interleaving.
* The map visualizer, the D-Bus transport, command line, helpers and packaging: I/O
  without state another part depends on.
* The response code of a request: a function of three members, read under the mutex.
* Undefined behaviour of memory (an empty vector's `back()`, a data race on a
  vector, a four byte write to one byte) is a free outcome where its effect is
  local, and is otherwise listed as a hazard without a property.

## 6. Plan

In order of importance; the first three blocks are done.

1. Done: mission manager and planner, landing manager, custom action handler, sensor
   manager with the main loop, configuration, each with the proofs of its safety
   properties.
2. Done: `SafeLanding`, its refinement by the mission manager and the proof; time
   synchronisation and its proofs; collision avoidance composed with the mission
   manager; `get_config`; `ActionReports`, its refinement by the custom action handler and
   the proof.
3. Done: `ConfigurationStore`, its refinement and the proof; the live camera as a safety
   property with its proof; what a takeover leaves of a running iteration; the flag of
   the two managers; what `SafeLanding` and `ActionReports` promise, carried over to the
   programs that implement them.
4. A composition of mission and landing manager through the landing state and the
   obstacle avoidance flag, for the delay between a dead camera and the abort.
5. The identity of the action a report is about, as a property of the handler with its
   own callback source, should the reporter be given the action that is executed.
