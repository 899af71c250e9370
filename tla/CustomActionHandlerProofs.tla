---------------------- MODULE CustomActionHandlerProofs ----------------------
(***************************************************************************)
(* The custom action handler, for every custom action file and every       *)
(* length of the queue: "success" is sent only when all stages have run    *)
(* and, when nobody cancels, always sent; a cancellation stops the action  *)
(* within one stage.                                                       *)
(***************************************************************************)
EXTENDS CustomActionHandler, TLAPS

USE ActionsAssumption DEF ActionsAssumption

\* What the handler reads at the back of its vector is an action.
LEMMA BackType == queue \in Seq(ActionIds) => Back \subseteq ActionIds
  BY DEF Back

-----------------------------------------------------------------------------
(* Types. *)

LEMMA InitType == Init => TypeOK
<1> SUFFICES ASSUME Init PROVE TypeOK
  OBVIOUS
<1>1. queue \in Seq(ActionIds) /\ Len(queue) <= MaxQueue
  BY DEF Init
<1>2. stages \in Seq(Conditions) /\ idx \in 1..Len(stages) + 1
  BY DEF Init
<1>3. result \in Results /\ script \in ScriptConditions /\ rptId \in ActionIds /\ cur \in ActionIds
  BY DEF Init, Results, ScriptConditions
<1>4. reply \in Results \cup {"none"} /\ ran \subseteq Nat /\ late \in Nat
  BY DEF Init
<1>5. newAction \in BOOLEAN /\ stopped \in BOOLEAN /\ complete \in BOOLEAN /\ acked \in BOOLEAN
        /\ cancelled \in BOOLEAN /\ chk = "idle" /\ cb = "idle" /\ rpt = "done"
  BY DEF Init
<1> QED
  BY <1>1, <1>2, <1>3, <1>4, <1>5 DEF TypeOK

LEMMA CheckerType == TypeOK /\ StageInv /\ Checker => TypeOK'
<1> SUFFICES ASSUME TypeOK, StageInv, Checker PROVE TypeOK'
  OBVIOUS
<1> USE DEF TypeOK, metadata, progress, reporter, ghosts, Results
<1>1. CASE NewActionCheck
  BY <1>1, BackType DEF NewActionCheck
<1>2. CASE GetMetadata
  <2>1. stages' \in Seq(Conditions) /\ script' \in ScriptConditions
    <3>1. Stages[cur] \in Seq(Conditions) /\ Script[cur] \in ScriptConditions
      OBVIOUS
    <3>2. <<>> \in Seq(Conditions) /\ "none" \in ScriptConditions
      BY DEF ScriptConditions
    <3> QED
      BY <1>2, <3>1, <3>2 DEF GetMetadata
  <2>2. idx' \in 1..Len(stages') + 1
    BY <1>2, <2>1 DEF GetMetadata
  <2> QED
    BY <1>2, <2>1, <2>2 DEF GetMetadata
<1>3. CASE LaunchReporter
  BY <1>3, BackType DEF LaunchReporter
<1>4. CASE NextStage
  BY <1>4 DEF NextStage, StageLeft
<1>5. CASE BeginStage
  BY <1>5 DEF BeginStage
<1>6. CASE StageSucceeds
  BY <1>6 DEF StageSucceeds
<1>7. CASE StageFails
  BY <1>7 DEF StageFails
<1>8. CASE StopFailed
  BY <1>8 DEF StopFailed
<1>9. CASE AwaitOver
  BY <1>9 DEF AwaitOver
<1>10. CASE UpdateProgress
  <2>1. idx' \in 1..Len(stages') + 1
    BY <1>10 DEF UpdateProgress, StageInv
  <2>2. result' \in Results /\ complete' \in BOOLEAN /\ acked' \in BOOLEAN
    BY <1>10 DEF UpdateProgress, StageResult
  <2> QED
    BY <1>10, <2>1, <2>2 DEF UpdateProgress
<1>11. CASE StartScript
  <2>1. chk' \in {"settle", "scriptRun"} /\ result' \in {"Unknown", result}
    BY <1>11 DEF StartScript
  <2>2. acked' = FALSE /\ UNCHANGED <<queue, newAction, stopped, cb, stages, script, cur, idx,
                                       complete, rpt, rptId, reply, ran, cancelled, late>>
    BY <1>11 DEF StartScript
  <2>3. chk' \in {"idle", "metadata", "launch", "stage", "begin", "running", "failed", "await",
                   "progress", "script", "scriptRun", "settle", "window", "reset", "clear",
                   "unknown", "join", "done"}
    BY <2>1
  <2>4. result' \in Results
    BY <2>1 DEF Results
  <2> QED
    BY <2>2, <2>3, <2>4
<1>12. CASE ScriptEnds
  BY <1>12 DEF ScriptEnds
<1>13. CASE Settle
  BY <1>13 DEF Settle
<1>14. CASE OpenWindow
  BY <1>14 DEF OpenWindow
<1>15. CASE CloseWindow
  BY <1>15 DEF CloseWindow
<1>16. CASE ClearActions
  BY <1>16 DEF ClearActions
<1>17. CASE ReleaseReporter
  BY <1>17 DEF ReleaseReporter
<1>18. CASE JoinReporter
  BY <1>18 DEF JoinReporter
<1>19. CASE ActionDone
  BY <1>19 DEF ActionDone
<1> QED
  BY <1>1, <1>2, <1>3, <1>4, <1>5, <1>6, <1>7, <1>8, <1>9, <1>10, <1>11, <1>12, <1>13,
     <1>14, <1>15, <1>16, <1>17, <1>18, <1>19 DEF Checker

LEMMA NextType == TypeOK /\ StageInv /\ [Next]_vars => TypeOK'
<1> SUFFICES ASSUME TypeOK, StageInv, [Next]_vars PROVE TypeOK'
  OBVIOUS
<1> USE DEF TypeOK, metadata, progress, reporter, ghosts
<1>1. CASE Checker
  BY <1>1, CheckerType
<1>2. CASE ReporterCheck
  BY <1>2 DEF ReporterCheck
<1>3. CASE Respond
  BY <1>3 DEF Respond
<1>4. CASE SetNewAction
  BY <1>4 DEF SetNewAction
<1>5. CASE ActionCancelled
  BY <1>5 DEF ActionCancelled
<1>6. CASE AwaitVehicle
  BY <1>6 DEF AwaitVehicle
<1>7. ASSUME NEW id \in ActionIds, ActionReceived(id) PROVE TypeOK'
  <2>1. queue' \in Seq(ActionIds) /\ Len(queue') <= MaxQueue
    BY <1>7 DEF ActionReceived
  <2> QED
    BY <1>7, <2>1 DEF ActionReceived
<1>8. CASE UNCHANGED vars
  BY <1>8 DEF vars
<1> QED
  BY <1>1, <1>2, <1>3, <1>4, <1>5, <1>6, <1>7, <1>8 DEF Next, Reporter, Callback

-----------------------------------------------------------------------------
(* The stages. *)

LEMMA InitStage == Init => StageInv
  BY DEF Init, StageInv

LEMMA CheckerStage == TypeOK /\ StageInv /\ Checker => StageInv'
<1> SUFFICES ASSUME TypeOK, StageInv, Checker PROVE StageInv'
  OBVIOUS
<1> USE DEF StageInv, metadata, progress, reporter, ghosts
<1>1. CASE NewActionCheck
  BY <1>1 DEF NewActionCheck
<1>2. CASE GetMetadata
  BY <1>2 DEF GetMetadata
<1>3. CASE LaunchReporter
  <2>1. 1..idx - 1 = {}
    BY <1>3 DEF LaunchReporter
  <2> QED
    BY <1>3, <2>1 DEF LaunchReporter
<1>4. CASE NextStage
  BY <1>4 DEF NextStage, StageLeft, MayBegin, TypeOK
<1>5. CASE BeginStage \/ StopFailed
  BY <1>5 DEF BeginStage, StopFailed
<1>6. CASE StageSucceeds
  <2>1. idx \in 1..Len(stages) /\ ran' = ran \cup {idx}
    BY <1>6 DEF StageSucceeds, TypeOK
  <2>2. ran = 1..Len(stages) => ran' = 1..Len(stages)
    BY <2>1
  <2>3. ran = 1..idx - 1 => ran' = 1..idx
    BY <2>1
  <2> QED
    BY <1>6, <2>1, <2>2, <2>3 DEF StageSucceeds
<1>7. CASE StageFails
  BY <1>7 DEF StageFails
<1>8. CASE AwaitOver
  BY <1>8 DEF AwaitOver
<1>9. CASE UpdateProgress
  <2>1. idx' - 1 = idx
    BY <1>9 DEF UpdateProgress, TypeOK
  <2> QED
    BY <1>9, <2>1 DEF UpdateProgress, StageResult
<1>10. CASE StartScript
  BY <1>10 DEF StartScript
<1>11. CASE ScriptEnds
  <2>1. ran = 1..Len(stages)
    BY <1>11 DEF ScriptEnds
  <2> QED
    BY <1>11, <2>1 DEF ScriptEnds
<1>12. CASE Settle \/ OpenWindow \/ CloseWindow \/ ClearActions
  BY <1>12 DEF Settle, OpenWindow, CloseWindow, ClearActions
<1>13. CASE ReleaseReporter \/ JoinReporter \/ ActionDone
  BY <1>13 DEF ReleaseReporter, JoinReporter, ActionDone
<1> QED
  BY <1>1, <1>2, <1>3, <1>4, <1>5, <1>6, <1>7, <1>8, <1>9, <1>10, <1>11, <1>12, <1>13
     DEF Checker

LEMMA NextStageInv == TypeOK /\ StageInv /\ [Next]_vars => StageInv'
<1> SUFFICES ASSUME TypeOK, StageInv, [Next]_vars PROVE StageInv'
  OBVIOUS
<1> USE DEF StageInv, metadata, progress, reporter, ghosts
<1>1. CASE Checker
  BY <1>1, CheckerStage
<1>2. CASE ReporterCheck \/ Respond
  BY <1>2 DEF ReporterCheck, Respond
<1>3. CASE SetNewAction \/ ActionCancelled
  BY <1>3 DEF SetNewAction, ActionCancelled
<1>4. CASE AwaitVehicle
  BY <1>4 DEF AwaitVehicle
<1>5. ASSUME NEW id \in ActionIds, ActionReceived(id) PROVE StageInv'
  BY <1>5 DEF ActionReceived
<1>6. CASE UNCHANGED vars
  BY <1>6 DEF vars
<1> QED
  BY <1>1, <1>2, <1>3, <1>4, <1>5, <1>6 DEF Next, Reporter, Callback

-----------------------------------------------------------------------------
(* Cancellation. *)

LEMMA InitCancel == Init => CancelInv
  BY DEF Init, CancelInv, Executing, Staging

LEMMA NextCancel == TypeOK /\ CancelInv /\ [Next]_vars => CancelInv'
<1> SUFFICES ASSUME TypeOK, CancelInv, [Next]_vars PROVE CancelInv'
  OBVIOUS
<1> USE DEF CancelInv, Executing, Staging, Resting, metadata, progress, reporter, ghosts
<1>1. CASE NewActionCheck
  BY <1>1 DEF NewActionCheck
<1>2. CASE GetMetadata
  BY <1>2 DEF GetMetadata
<1>3. CASE LaunchReporter
  BY <1>3 DEF LaunchReporter
<1>4. CASE NextStage
  BY <1>4 DEF NextStage, MayBegin
<1>5. CASE BeginStage
  BY <1>5 DEF BeginStage, TypeOK
<1>6. CASE StageSucceeds \/ StageFails \/ StopFailed \/ AwaitOver \/ AwaitVehicle
  BY <1>6 DEF StageSucceeds, StageFails, StopFailed, AwaitOver, AwaitVehicle
<1>7. CASE UpdateProgress \/ StartScript \/ ScriptEnds \/ Settle
  BY <1>7 DEF UpdateProgress, StartScript, ScriptEnds, Settle
<1>8. CASE OpenWindow \/ CloseWindow
  BY <1>8 DEF OpenWindow, CloseWindow
<1>9. CASE ClearActions \/ ReleaseReporter \/ JoinReporter \/ ActionDone
  BY <1>9 DEF ClearActions, ReleaseReporter, JoinReporter, ActionDone
<1>10. CASE ReporterCheck \/ Respond
  BY <1>10 DEF ReporterCheck, Respond
<1>11. CASE SetNewAction \/ ActionCancelled
  BY <1>11 DEF SetNewAction, ActionCancelled
<1>12. ASSUME NEW id \in ActionIds, ActionReceived(id) PROVE CancelInv'
  BY <1>12 DEF ActionReceived
<1>13. CASE UNCHANGED vars
  BY <1>13 DEF vars
<1> QED
  BY <1>1, <1>2, <1>3, <1>4, <1>5, <1>6, <1>7, <1>8, <1>9, <1>10, <1>11, <1>12, <1>13
     DEF Next, Checker, Reporter, Callback

-----------------------------------------------------------------------------
(* The reports. *)

LEMMA InitReport == Init => ReportInv /\ SuccessIsAcknowledged
  BY DEF Init, ReportInv, SuccessIsAcknowledged, Executing, Staging

LEMMA NextReport ==
  TypeOK /\ CancelInv /\ ReportInv /\ SuccessIsAcknowledged /\ [Next]_vars
    => ReportInv' /\ SuccessIsAcknowledged'
<1> SUFFICES ASSUME TypeOK, CancelInv, ReportInv, SuccessIsAcknowledged, [Next]_vars
             PROVE ReportInv' /\ SuccessIsAcknowledged'
  OBVIOUS
<1> USE DEF ReportInv, SuccessIsAcknowledged, ReporterHadTime, Executing, Staging,
            metadata, progress, reporter, ghosts
<1>1. CASE NewActionCheck
  BY <1>1 DEF NewActionCheck
<1>2. CASE GetMetadata
  BY <1>2 DEF GetMetadata, CancelInv, Resting
<1>3. CASE LaunchReporter
  BY <1>3 DEF LaunchReporter
<1>4. CASE NextStage
  BY <1>4 DEF NextStage
<1>5. CASE BeginStage \/ StageSucceeds \/ AwaitOver \/ AwaitVehicle
  BY <1>5 DEF BeginStage, StageSucceeds, AwaitOver, AwaitVehicle
<1>6. CASE StageFails \/ StopFailed
  BY <1>6 DEF StageFails, StopFailed
<1>7. CASE UpdateProgress
  BY <1>7 DEF UpdateProgress, StageResult
<1>8. CASE StartScript
  BY <1>8 DEF StartScript
<1>9. CASE ScriptEnds
  BY <1>9 DEF ScriptEnds
<1>10. CASE Settle \/ OpenWindow \/ CloseWindow
  BY <1>10 DEF Settle, OpenWindow, CloseWindow
<1>11. CASE ClearActions \/ ReleaseReporter \/ JoinReporter \/ ActionDone
  BY <1>11 DEF ClearActions, ReleaseReporter, JoinReporter, ActionDone
<1>12. CASE ReporterCheck \/ Respond
  BY <1>12 DEF ReporterCheck, Respond
<1>13. CASE SetNewAction \/ ActionCancelled
  BY <1>13 DEF SetNewAction, ActionCancelled
<1>14. ASSUME NEW id \in ActionIds, ActionReceived(id)
       PROVE ReportInv' /\ SuccessIsAcknowledged'
  BY <1>14 DEF ActionReceived
<1>15. CASE UNCHANGED vars
  BY <1>15 DEF vars
<1> QED
  BY <1>1, <1>2, <1>3, <1>4, <1>5, <1>6, <1>7, <1>8, <1>9, <1>10, <1>11, <1>12, <1>13,
     <1>14, <1>15 DEF Next, Checker, Reporter, Callback

-----------------------------------------------------------------------------
(* Theorems. *)

\* The stages, the stop flag and the reporter keep each other's promises.
THEOREM HandlerInvariant == Spec => []HandlerInv
<1>1. Init => HandlerInv
  BY InitType, InitStage, InitCancel, InitReport DEF HandlerInv
<1>2. HandlerInv /\ [Next]_vars => HandlerInv'
  BY NextType, NextStageInv, NextCancel, NextReport DEF HandlerInv
<1> QED
  BY <1>1, <1>2, PTL DEF Spec

\* The handler's data and program counters keep their types.
THEOREM HandlerTypeCorrect == Spec => []TypeOK
<1>1. HandlerInv => TypeOK
  BY DEF HandlerInv
<1> QED
  BY <1>1, HandlerInvariant, PTL

\* The autopilot is told "success" only when every stage has run and
\* succeeded (update_action_progress_from_stage, send_progress_status).
THEOREM SuccessSound == Spec => []SuccessMeansAllStagesRan
<1>1. HandlerInv => SuccessMeansAllStagesRan
  BY DEF HandlerInv, StageInv, SuccessMeansAllStagesRan
<1> QED
  BY <1>1, HandlerInvariant, PTL

\* A success that nobody cancels has been sent before the reporter is stopped
\* (the wait at the end of execute_custom_action).
THEOREM SuccessComplete == Spec => []SuccessIsAcknowledged
<1>1. HandlerInv => SuccessIsAcknowledged
  BY DEF HandlerInv
<1> QED
  BY <1>1, HandlerInvariant, PTL

\* At most one stage begins after a cancellation (execute_custom_action tests
\* the stop flag before each).
THEOREM CancelSafe == Spec => []CancelStopsStages
<1>1. HandlerInv => CancelStopsStages
  BY DEF HandlerInv, CancelInv, CancelStopsStages
<1> QED
  BY <1>1, HandlerInvariant, PTL

===============================================================================
