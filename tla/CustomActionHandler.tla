-------------------------- MODULE CustomActionHandler --------------------------
(***************************************************************************)
(* The custom action handler runs the actions a ground station asks for: a *)
(* list of stages or one script each, one action at a time.  Four parties  *)
(* share its vectors and flags, and no lock guards them:                   *)
(*                                                                         *)
(*  CHK  the checker thread, which executes the newest action (`chk`);     *)
(*  RPT  the reporter thread of the action being executed, which tells the *)
(*       autopilot its result every 100 ms (`rpt`);                        *)
(*  CB   the MAVSDK callbacks: a new action, a cancellation (`cb`);        *)
(*       the vehicle, which some stages wait for.                          *)
(*                                                                         *)
(* The callback for new actions drops one that comes too soon after the    *)
(* last, by comparing two locals of run() that it holds by reference and   *)
(* that no longer exist: what the test says is arbitrary.                  *)
(***************************************************************************)
EXTENDS Naturals, Sequences

CONSTANTS
  ActionIds,       \* the ids of the actions in the custom action file
  Stages,          \* the stages of each: what each waits for when it is over
  Script,          \* the global script of each, if any: what it waits for
  MaxQueue,        \* bound: actions received and not yet cleared
  ReporterInTime   \* a reporter loop takes less than the 200 ms given to stop it

Conditions == {"success", "timeout", "landing", "takeoff"}
\* "other": a complete condition under which no script is run.
ScriptConditions == {"none", "success", "timeout", "other"}
Results == {"Unknown", "InProgress", "Success", "Error", "Timeout"}

ASSUME ActionsAssumption ==
  /\ ActionIds # {} /\ MaxQueue \in Nat \ {0} /\ ReporterInTime \in BOOLEAN
  /\ Stages \in [ActionIds -> Seq(Conditions)]
  /\ Script \in [ActionIds -> ScriptConditions]

VARIABLES
  queue,       \* _actions
  newAction,   \* _new_action
  stopped,     \* _action_stopped
  chk, cb, rpt,\* program counters
  stages,      \* _actions_metadata.back().stages
  script,      \* _actions_metadata.back().global_script
  idx,         \* the stage execute_custom_action is at
  result,      \* _actions_result.back()
  complete,    \* _actions_progress.back() == 100.0
  rptId,       \* the reporter's own copy of its action's id
  cur,         \* the action CHK was called with
  reply,       \* ghost: the result the reporter last sent for this action
  acked,       \* ghost: it was sent after `result` last changed
  ran,         \* ghost: the stages of this action that succeeded
  cancelled,   \* ghost: a cancellation came since the stop flag was last reset
  late         \* ghost: the stages begun since

metadata == <<stages, script, cur>>
progress == <<idx, result, complete>>
reporter == <<rpt, rptId, reply>>
ghosts   == <<acked, ran, cancelled, late>>
vars == <<queue, newAction, stopped, chk, cb, metadata, progress, reporter, ghosts>>

Init ==
  /\ queue = <<>> /\ newAction = FALSE /\ stopped = FALSE
  /\ chk = "idle" /\ cb = "idle" /\ rpt = "done"
  /\ stages = <<>> /\ script = "none" /\ idx = 1 /\ result = "Unknown" /\ complete = FALSE
  /\ rptId \in ActionIds /\ cur = rptId
  /\ reply = "none" /\ acked = FALSE /\ ran = {} /\ cancelled = FALSE /\ late = 0

\* _actions.back(); on an empty vector, whatever the memory holds
Back == IF queue = <<>> THEN ActionIds ELSE {queue[Len(queue)]}

-----------------------------------------------------------------------------
(* CB: subscribe_custom_action and subscribe_custom_action_cancellation.   *)

\* A command repeated while its action is still stored is not a new one.
IsNew(id) == queue # <<>> => queue[Len(queue)] # id

\* Accepting an action; the other outcome of the arbitrary test drops it.
ActionReceived(id) ==
  /\ cb = "idle" /\ Len(queue) < MaxQueue /\ IsNew(id)
  /\ queue' = Append(queue, id)
  /\ cb' = "flag"
  /\ UNCHANGED <<newAction, stopped, chk, metadata, progress, reporter, ghosts>>

SetNewAction ==
  /\ cb = "flag"
  /\ newAction' = TRUE
  /\ cb' = "idle"
  /\ UNCHANGED <<queue, stopped, chk, metadata, progress, reporter, ghosts>>

ActionCancelled ==
  /\ cb = "idle"
  /\ stopped' = TRUE /\ cancelled' = TRUE
  /\ UNCHANGED <<queue, newAction, chk, cb, metadata, progress, reporter,
                 acked, ran, late>>

-----------------------------------------------------------------------------
(* CHK: new_action_check and process_custom_action.                        *)

NewActionCheck ==
  /\ chk = "idle" /\ newAction
  /\ cur' \in Back
  /\ chk' = "metadata"
  /\ UNCHANGED <<queue, newAction, stopped, cb, stages, script, progress, reporter,
                 ghosts>>

\* The action's metadata; an action that the file does not have gets an
\* empty one.
GetMetadata ==
  /\ chk = "metadata"
  /\ \/ stages' = Stages[cur] /\ script' = Script[cur]
     \/ stages' = <<>> /\ script' = "none"
  /\ result' = "InProgress" /\ complete' = FALSE /\ idx' = 1
  /\ reply' = "none" /\ acked' = FALSE /\ ran' = {} /\ late' = 0
  /\ chk' = "launch"
  /\ UNCHANGED <<queue, newAction, stopped, cb, cur, rpt, rptId, cancelled>>

\* The reporter is given the newest action, which need not be `cur`.
LaunchReporter ==
  /\ chk = "launch"
  /\ rptId' \in Back /\ rpt' = "check"
  /\ chk' = IF stages # <<>> THEN "stage" ELSE IF script # "none" THEN "script" ELSE "settle"
  /\ UNCHANGED <<queue, newAction, stopped, cb, metadata, progress, reply, ghosts>>

StopIgnored == TRUE                                                     \* bug
MayBegin == ~stopped

StageLeftOffByOne == idx <= Len(stages) + 1                             \* bug
StageLeft == idx <= Len(stages)

\* Every stage is looked at, and skipped when the action has been stopped.
NextStage ==
  /\ chk = "stage"
  /\ IF ~StageLeft THEN chk' = "settle" /\ UNCHANGED idx
     ELSE IF MayBegin THEN chk' = "begin" /\ UNCHANGED idx
     ELSE chk' = "stage" /\ idx' = idx + 1
  /\ UNCHANGED <<queue, newAction, stopped, cb, metadata, result, complete, reporter,
                 ghosts>>

\* A stage runs to its end whatever happens meanwhile.
BeginStage ==
  /\ chk = "begin"
  /\ late' = IF cancelled THEN late + 1 ELSE late
  /\ chk' = "running"
  /\ UNCHANGED <<queue, newAction, stopped, cb, metadata, progress, reporter, acked, ran,
                 cancelled>>

StageSucceeds ==
  /\ chk = "running"
  /\ ran' = ran \cup {idx}
  /\ chk' = "await"
  /\ UNCHANGED <<queue, newAction, stopped, cb, metadata, progress, reporter, acked,
                 cancelled, late>>

StageFails ==
  /\ chk = "running"
  /\ result' = "Error" /\ acked' = FALSE
  /\ chk' = "failed"
  /\ UNCHANGED <<queue, newAction, stopped, cb, metadata, idx, complete, reporter, ran,
                 cancelled, late>>

\* 100 ms later the failure stops the action.
StopFailed ==
  /\ chk = "failed"
  /\ stopped' = TRUE
  /\ chk' = "settle"
  /\ UNCHANGED <<queue, newAction, cb, metadata, progress, reporter, ghosts>>

WaitUnlessTimed == stages[idx] \in {"success", "timeout"}               \* bug
WaitOver == stages[idx] \in {"success", "timeout"} \/ stopped

\* The wait of a stage ends by itself or because the action was stopped ...
AwaitOver ==
  /\ chk = "await" /\ WaitOver
  /\ chk' = "progress"
  /\ UNCHANGED <<queue, newAction, stopped, cb, metadata, progress, reporter, ghosts>>

\* ... or when the vehicle has landed or taken off.
AwaitVehicle ==
  /\ chk = "await" /\ stages[idx] \in {"landing", "takeoff"}
  /\ chk' = "progress"
  /\ UNCHANGED <<queue, newAction, stopped, cb, metadata, progress, reporter, ghosts>>

ResultTooEarly == "Success"                                             \* bug
StageResult == IF idx = Len(stages) THEN "Success" ELSE "InProgress"

\* update_action_progress_from_stage
UpdateProgress ==
  /\ chk = "progress"
  /\ IF stopped THEN UNCHANGED <<result, complete, acked>>
     ELSE result' = StageResult /\ complete' = (idx = Len(stages)) /\ acked' = FALSE
  /\ idx' = idx + 1
  /\ chk' = "stage"
  /\ UNCHANGED <<queue, newAction, stopped, cb, metadata, reporter, ran, cancelled, late>>

\* A script that is not run leaves no result.
StartScript ==
  /\ chk = "script"
  /\ IF stopped \/ script = "other"
     THEN chk' = "settle" /\ result' = "Unknown"
     ELSE chk' = "scriptRun" /\ UNCHANGED result
  /\ acked' = FALSE
  /\ UNCHANGED <<queue, newAction, stopped, cb, metadata, idx, complete, reporter, ran,
                 cancelled, late>>

\* A script is waited for in both cases: after its time-out the thread still
\* blocks on the script's future.
ScriptEnds ==
  /\ chk = "scriptRun"
  /\ result' \in {"Success", "Error", "Timeout"}
  /\ complete' = (result' = "Success")
  /\ acked' = FALSE
  /\ chk' = "settle"
  /\ UNCHANGED <<queue, newAction, stopped, cb, metadata, idx, reporter, ran, cancelled,
                 late>>

SettleAtOnce == TRUE                                                    \* bug
\* 500 ms are more than one loop of the reporter.
ReporterHadTime == acked \/ rpt = "done"

Settle ==
  /\ chk = "settle" /\ ReporterHadTime
  /\ chk' = "window"
  /\ UNCHANGED <<queue, newAction, stopped, cb, metadata, progress, reporter, ghosts>>

OpenWindow ==
  /\ chk = "window"
  /\ stopped' = TRUE
  /\ chk' = "reset"
  /\ UNCHANGED <<queue, newAction, cb, metadata, progress, reporter, ghosts>>

\* The stop flag is up for 200 ms, for the reporter to see it.
CloseWindow ==
  /\ chk = "reset" /\ (ReporterInTime => rpt = "done")
  /\ stopped' = FALSE /\ cancelled' = FALSE
  /\ chk' = "clear"
  /\ UNCHANGED <<queue, newAction, cb, metadata, progress, reporter, acked, ran, late>>

ClearActions ==
  /\ chk = "clear"
  /\ queue' = <<>>
  /\ chk' = "unknown"
  /\ UNCHANGED <<newAction, stopped, cb, metadata, progress, reporter, ghosts>>

\* A success releases the reporter by its result instead.
ReleaseReporter ==
  /\ chk = "unknown"
  /\ result' = IF complete /\ result = "Success" THEN "Unknown" ELSE result
  /\ chk' = "join"
  /\ UNCHANGED <<queue, newAction, stopped, cb, metadata, idx, complete, reporter, ghosts>>

JoinReporter ==
  /\ chk = "join" /\ rpt = "done"
  /\ chk' = "done"
  /\ UNCHANGED <<queue, newAction, stopped, cb, metadata, progress, reporter, ghosts>>

ActionDone ==
  /\ chk = "done"
  /\ newAction' = FALSE
  /\ chk' = "idle"
  /\ UNCHANGED <<queue, stopped, cb, metadata, progress, reporter, ghosts>>

-----------------------------------------------------------------------------
(* RPT: send_progress_status.                                              *)

ReporterCheck ==
  /\ rpt = "check"
  /\ rpt' = IF ~stopped /\ result # "Unknown" THEN "respond" ELSE "done"
  /\ UNCHANGED <<queue, newAction, stopped, chk, cb, metadata, progress, rptId, reply,
                 ghosts>>

Respond ==
  /\ rpt = "respond"
  /\ reply' = result /\ acked' = TRUE
  /\ rpt' = "check"
  /\ UNCHANGED <<queue, newAction, stopped, chk, cb, metadata, progress, rptId, ran,
                 cancelled, late>>

-----------------------------------------------------------------------------
Checker ==
  \/ NewActionCheck \/ GetMetadata \/ LaunchReporter \/ NextStage \/ BeginStage
  \/ StageSucceeds \/ StageFails \/ StopFailed \/ AwaitOver \/ UpdateProgress
  \/ StartScript \/ ScriptEnds \/ Settle \/ OpenWindow \/ CloseWindow \/ ClearActions
  \/ ReleaseReporter \/ JoinReporter \/ ActionDone

Reporter == ReporterCheck \/ Respond

Callback == SetNewAction \/ ActionCancelled \/ \E id \in ActionIds : ActionReceived(id)

Next == Checker \/ Reporter \/ Callback \/ AwaitVehicle

Spec == Init /\ [][Next]_vars

\* The threads run, and a stage or a script comes to an end; the vehicle need
\* not land or take off.
FairSpec == Spec /\ WF_vars(Checker) /\ WF_vars(Reporter) /\ WF_vars(SetNewAction)

-----------------------------------------------------------------------------
(* Properties.                                                             *)

\* The types of the handler's data and of its threads' program counters.
TypeOK ==
  /\ queue \in Seq(ActionIds) /\ Len(queue) <= MaxQueue
  /\ newAction \in BOOLEAN /\ stopped \in BOOLEAN
  /\ chk \in {"idle", "metadata", "launch", "stage", "begin", "running", "failed", "await",
             "progress", "script", "scriptRun", "settle", "window", "reset", "clear",
             "unknown", "join", "done"}
  /\ cb \in {"idle", "flag"} /\ rpt \in {"check", "respond", "done"}
  /\ stages \in Seq(Conditions) /\ script \in ScriptConditions
  /\ idx \in 1..Len(stages) + 1 /\ result \in Results /\ complete \in BOOLEAN
  /\ rptId \in ActionIds /\ cur \in ActionIds /\ reply \in Results \cup {"none"}
  /\ acked \in BOOLEAN /\ ran \subseteq Nat /\ cancelled \in BOOLEAN /\ late \in Nat

\* The autopilot is told "success" only when every stage of the action that
\* was executed has run and succeeded, however cancellations fall.
SuccessMeansAllStagesRan ==
  reply = "Success" => ran = 1..Len(stages)

\* A cancellation stops an action within one stage: at most the stage already
\* past its test still begins.
CancelStopsStages == late <= 1

\* A success that no cancellation interrupts is reported before the reporter is
\* told to stop (the 500 ms wait of execute_custom_action, which is assumed to be
\* long enough for one of its loops): nothing else ends the reporter earlier.
SuccessIsAcknowledged ==
  chk = "reset" /\ result = "Success" /\ ~cancelled => reply = "Success"

\* A cancelled action comes to its end, even one that waits for the vehicle.
CancelledActionEnds ==
  (chk \in {"stage", "begin", "running", "await"} /\ cancelled) ~> (chk = "idle")

\* A stored action is one that is still to be processed ("clear actions after
\* they are processed", CustomActionHandler.cpp:284): when the checker and the
\* callbacks are at rest, its flag is up.  The code breaks it.
AcceptedActionIsPending ==
  chk = "idle" /\ cb = "idle" /\ queue # <<>> => newAction

-----------------------------------------------------------------------------
(* The invariant behind the safety properties, which                       *)
(* CustomActionHandlerProofs proves inductive.                             *)

Staging   == {"stage", "begin", "running", "await", "progress"}
Executing == Staging \cup {"launch", "failed", "script", "scriptRun", "settle"}
Resting   == {"clear", "unknown", "join", "done", "idle", "metadata"}

\* A stage that is skipped is skipped because of the stop flag, which stays up
\* until the action is over: without it all stages before this one have run.
StageInv ==
  /\ result = "Success" => ran = 1..Len(stages)
  /\ chk \in {"begin", "running", "await", "progress"} => idx <= Len(stages)
  /\ chk \in {"stage", "begin", "running"} /\ ~stopped => ran = 1..idx - 1
  /\ chk \in {"await", "progress"} /\ ~stopped => ran = 1..idx
  /\ chk \in {"script", "scriptRun"} => stages = <<>> /\ ran = {}
  /\ chk = "launch" => ran = {} /\ idx = 1
  /\ reply = "Success" => ran = 1..Len(stages)

\* A cancellation keeps the stop flag up, and no stage but the one being begun
\* passes under it.
CancelInv ==
  /\ cancelled => stopped
  /\ late \in 0..1
  /\ chk \in {"launch", "begin"} => late = 0
  /\ chk \in Executing /\ late > 0 => cancelled
  /\ chk \in Resting /\ stopped => cancelled

\* The reporter is behind the result only as long as `acked` says so, and ends
\* early only when the action was cancelled or has failed.
ReportInv ==
  /\ chk \in Executing \cup {"window", "reset"} /\ acked => reply = result
  /\ chk \in Executing \cup {"window"} /\ stopped => cancelled \/ result = "Error"
  /\ chk = "failed" => result = "Error"
  /\ chk \in Staging \cup {"launch", "script", "scriptRun"} => result \in {"InProgress", "Success"}
  /\ chk \in (Executing \cup {"window"}) \ {"launch"} /\ rpt = "done"
       => stopped \/ result = "Unknown"
  /\ chk = "window" => ReporterHadTime

\* The inductive invariant of the custom action handler.
HandlerInv == TypeOK /\ StageInv /\ CancelInv /\ ReportInv /\ SuccessIsAcknowledged

===============================================================================
