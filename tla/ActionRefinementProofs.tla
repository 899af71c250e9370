------------------------ MODULE ActionRefinementProofs ------------------------
(***************************************************************************)
(* The custom action handler implements ActionReports, for every custom    *)
(* action file, provided the reporter sees the stop flag while it is up.   *)
(* The proof adds to HandlerInv what its steps need, and then sorts the    *)
(* steps by what they are to ActionReports.                                *)
(***************************************************************************)
EXTENDS ActionRefinement, CustomActionHandlerProofs

USE DEF metadata, progress, reporter, ghosts, Resting

AbstractStep == [Abstract!Next]_(Abstract!reportVars)

-----------------------------------------------------------------------------
(* The invariant.                                                          *)

LEMMA InitReports == Init => FinalInv /\ SilenceInv /\ EarnedInv
  BY DEF Init, FinalInv, SilenceInv, EarnedInv, Open

\* While a stage is at work the stages before it are not all of them.
LEMMA StagesLeft ==
  ASSUME HandlerInv, chk = "running", ~stopped PROVE ran # 1..Len(stages)
<1>1. idx \in Nat /\ idx <= Len(stages) /\ ran = 1..idx - 1
    BY DEF HandlerInv, StageInv, TypeOK
<1>2. idx \in 1..Len(stages) /\ idx \notin 1..idx - 1
    BY <1>1 DEF HandlerInv, TypeOK
<1>3. QED
    BY <1>1, <1>2

LEMMA FinalStep == HandlerInv /\ FinalInv /\ [Next]_vars => FinalInv'
<1> SUFFICES ASSUME HandlerInv, FinalInv, [Next]_vars PROVE FinalInv'
    OBVIOUS
<1> USE DEF FinalInv, Open
<1>1. CASE NewActionCheck \/ GetMetadata \/ LaunchReporter
    BY <1>1 DEF NewActionCheck, GetMetadata, LaunchReporter
<1>2. CASE NextStage
    BY <1>2 DEF NextStage, StageLeft, HandlerInv, TypeOK
<1>3. CASE BeginStage \/ StageSucceeds \/ AwaitOver \/ AwaitVehicle
    BY <1>3 DEF BeginStage, StageSucceeds, AwaitOver, AwaitVehicle
<1>4. CASE StageFails \/ StopFailed
    BY <1>4 DEF StageFails, StopFailed
<1>5. CASE UpdateProgress
    BY <1>5 DEF UpdateProgress, StageResult, HandlerInv, TypeOK
<1>6. CASE StartScript \/ ScriptEnds
    BY <1>6 DEF StartScript, ScriptEnds
<1>7. CASE Settle \/ OpenWindow \/ CloseWindow
    BY <1>7 DEF Settle, OpenWindow, CloseWindow
<1>8. CASE ClearActions \/ ReleaseReporter \/ JoinReporter \/ ActionDone
    BY <1>8 DEF ClearActions, ReleaseReporter, JoinReporter, ActionDone
<1>9. CASE ReporterCheck \/ Respond
    BY <1>9 DEF ReporterCheck, Respond
<1>10. CASE SetNewAction \/ ActionCancelled
    BY <1>10 DEF SetNewAction, ActionCancelled
<1>11. ASSUME NEW id \in ActionIds, ActionReceived(id) PROVE FinalInv'
    BY <1>11 DEF ActionReceived
<1>12. CASE UNCHANGED vars
    BY <1>12 DEF vars
<1>13. QED
    BY <1>1, <1>2, <1>3, <1>4, <1>5, <1>6, <1>7, <1>8, <1>9, <1>10, <1>11, <1>12
    DEF Next, Checker, Reporter, Callback

LEMMA SilenceStep == ReporterInTime /\ SilenceInv /\ [Next]_vars => SilenceInv'
<1> SUFFICES ASSUME ReporterInTime, SilenceInv, [Next]_vars PROVE SilenceInv'
    OBVIOUS
<1> USE DEF SilenceInv, Open
<1>1. CASE NewActionCheck \/ GetMetadata \/ LaunchReporter
    BY <1>1 DEF NewActionCheck, GetMetadata, LaunchReporter
<1>2. CASE NextStage \/ BeginStage \/ StageSucceeds \/ AwaitOver \/ AwaitVehicle
    BY <1>2 DEF NextStage, BeginStage, StageSucceeds, AwaitOver, AwaitVehicle
<1>3. CASE StageFails \/ StopFailed \/ UpdateProgress \/ StartScript \/ ScriptEnds
    BY <1>3 DEF StageFails, StopFailed, UpdateProgress, StartScript, ScriptEnds
<1>4. CASE Settle \/ OpenWindow \/ CloseWindow
    BY <1>4 DEF Settle, OpenWindow, CloseWindow
<1>5. CASE ClearActions \/ ReleaseReporter \/ JoinReporter \/ ActionDone
    BY <1>5 DEF ClearActions, ReleaseReporter, JoinReporter, ActionDone
<1>6. CASE ReporterCheck \/ Respond
    BY <1>6 DEF ReporterCheck, Respond
<1>7. CASE SetNewAction \/ ActionCancelled
    BY <1>7 DEF SetNewAction, ActionCancelled
<1>8. ASSUME NEW id \in ActionIds, ActionReceived(id) PROVE SilenceInv'
    BY <1>8 DEF ActionReceived
<1>9. CASE UNCHANGED vars
    BY <1>9 DEF vars
<1>10. QED
    BY <1>1, <1>2, <1>3, <1>4, <1>5, <1>6, <1>7, <1>8, <1>9 DEF Next, Checker, Reporter, Callback

LEMMA EarnedStep == HandlerInv /\ FinalInv /\ EarnedInv /\ [Next]_vars => EarnedInv'
<1> SUFFICES ASSUME HandlerInv, FinalInv, EarnedInv, [Next]_vars PROVE EarnedInv'
    OBVIOUS
<1> USE DEF EarnedInv, Open
<1>1. CASE NewActionCheck \/ GetMetadata
    BY <1>1 DEF NewActionCheck, GetMetadata
<1>2. CASE LaunchReporter
  <2>1. ran = {} /\ (stages # <<>> => Len(stages) \in Nat \ {0})
      BY <1>2 DEF LaunchReporter, HandlerInv, TypeOK, StageInv
  <2>2. stages # <<>> => 1 \in 1..Len(stages)
      BY <2>1
  <2>3. QED
      BY <1>2, <2>1, <2>2 DEF LaunchReporter
<1>3. CASE NextStage
  <2>1. stopped /\ StageLeft => cancelled
      BY <1>3 DEF NextStage, StageLeft, HandlerInv, ReportInv, FinalInv, Executing, Staging
  <2>2. QED
      BY <1>3, <2>1 DEF NextStage
<1>4. CASE BeginStage \/ StageSucceeds \/ AwaitOver \/ AwaitVehicle
    BY <1>4 DEF BeginStage, StageSucceeds, AwaitOver, AwaitVehicle
<1>5. CASE StageFails
  <2>1. stopped => cancelled
      BY <1>5 DEF StageFails, HandlerInv, ReportInv, FinalInv, Executing, Staging
  <2>2. stages # <<>>
      BY <1>5 DEF StageFails, HandlerInv, StageInv, TypeOK
  <2>3. QED
      BY <1>5, <2>1, <2>2, StagesLeft DEF StageFails
<1>6. CASE StopFailed
    BY <1>6 DEF StopFailed
<1>7. CASE UpdateProgress
  <2>1. stopped => cancelled
      BY <1>7 DEF UpdateProgress, HandlerInv, ReportInv, FinalInv, Executing, Staging
  <2>2. stages # <<>>
      BY <1>7 DEF UpdateProgress, HandlerInv, StageInv, TypeOK
  <2>3. ~stopped => ran = 1..idx /\ idx \in 1..Len(stages)
      BY <1>7 DEF UpdateProgress, HandlerInv, StageInv, TypeOK
  <2>4. ~stopped /\ ran = 1..Len(stages) => idx = Len(stages)
    <3>1. ASSUME ~stopped, ran = 1..Len(stages) PROVE Len(stages) \in 1..idx
        BY <3>1, <2>2, <2>3 DEF HandlerInv, TypeOK
    <3>2. QED
        BY <3>1, <2>3
  <2>5. QED
      BY <1>7, <2>1, <2>2, <2>4 DEF UpdateProgress, StageResult
<1>8. CASE StartScript \/ ScriptEnds
    BY <1>8 DEF StartScript, ScriptEnds, HandlerInv, StageInv
<1>9. CASE Settle \/ OpenWindow \/ CloseWindow
    BY <1>9 DEF Settle, OpenWindow, CloseWindow
<1>10. CASE ClearActions \/ ReleaseReporter \/ JoinReporter \/ ActionDone
    BY <1>10 DEF ClearActions, ReleaseReporter, JoinReporter, ActionDone
<1>11. CASE ReporterCheck \/ Respond
    BY <1>11 DEF ReporterCheck, Respond
<1>12. CASE SetNewAction \/ ActionCancelled
    BY <1>12 DEF SetNewAction, ActionCancelled
<1>13. ASSUME NEW id \in ActionIds, ActionReceived(id) PROVE EarnedInv'
    BY <1>13 DEF ActionReceived
<1>14. CASE UNCHANGED vars
    BY <1>14 DEF vars
<1>15. QED
    BY <1>1, <1>2, <1>3, <1>4, <1>5, <1>6, <1>7, <1>8, <1>9, <1>10, <1>11, <1>12, <1>13, <1>14
    DEF Next, Checker, Reporter, Callback

\* The invariant holds of the handler whose reporter is in time.
LEMMA ReportsInvariant == ASSUME ReporterInTime PROVE Spec => []ReportsInv
<1>1. Init => FinalInv /\ SilenceInv /\ EarnedInv
    BY InitReports
<1>2. HandlerInv /\ FinalInv /\ SilenceInv /\ EarnedInv /\ [Next]_vars
        => FinalInv' /\ SilenceInv' /\ EarnedInv'
    BY FinalStep, SilenceStep, EarnedStep
<1>3. QED
    BY <1>1, <1>2, HandlerInvariant, PTL DEF Spec, ReportsInv

-----------------------------------------------------------------------------
(* The steps.                                                              *)

\* A step that stays where it is, in or outside an action.
LEMMA Unmoved ==
  ASSUME Open' = Open, UNCHANGED <<reply, cancelled, stages, ran, result>> PROVE AbstractStep
  BY DEF AbstractStep, Abstract!reportVars, Earned

\* A step that may complete the action, but takes nothing back from it.
LEMMA Progressed ==
  ASSUME Open, Open', UNCHANGED <<reply, cancelled>>, Earned => Earned' PROVE AbstractStep
<1>1. CASE Earned' = TRUE
  <2>1. Abstract!Earn
      BY <1>1 DEF Abstract!Earn
  <2>2. QED
      BY <2>1 DEF AbstractStep, Abstract!Next
<1>2. CASE Earned' = Earned
    BY <1>2 DEF AbstractStep, Abstract!reportVars
<1>3. QED
    BY <1>1, <1>2 DEF Earned

\* The steps of the checker that begin an action, complete it, or end it.
LEMMA CheckerSteps ==
  ASSUME ReportsInv,
         \/ GetMetadata \/ StageSucceeds \/ StageFails \/ UpdateProgress
         \/ StartScript \/ ScriptEnds \/ CloseWindow \/ ReleaseReporter
  PROVE  AbstractStep
<1> USE DEF ReportsInv, Open
<1>1. CASE GetMetadata
  <2>1. ~Earned'
    <3>1. CASE stages' = <<>>
        BY <1>1, <3>1 DEF GetMetadata, Earned
    <3>2. CASE stages' # <<>>
      <4>1. stages' = Stages[cur] /\ ran' = {}
          BY <1>1, <3>2 DEF GetMetadata
      <4>2. Stages[cur] \in Seq(Conditions)
          BY ActionsAssumption DEF ActionsAssumption, HandlerInv, TypeOK
      <4>3. 1 \in 1..Len(stages')
          BY <3>2, <4>1, <4>2
      <4>4. QED
          BY <3>2, <4>1, <4>3 DEF Earned
    <3>3. QED
        BY <3>1, <3>2
  <2>2. Abstract!Begin
      BY <1>1, <2>1 DEF GetMetadata, Abstract!Begin, Earned
  <2>3. QED
      BY <2>2 DEF AbstractStep, Abstract!Next
<1>2. CASE StageSucceeds
  <2>1. stages # <<>> /\ idx \in 1..Len(stages)
      BY <1>2 DEF StageSucceeds, HandlerInv, StageInv, TypeOK
  <2>2. Earned => Earned'
      BY <1>2, <2>1 DEF StageSucceeds, Earned
  <2>3. QED
      BY <1>2, <2>2, Progressed DEF StageSucceeds
<1>3. CASE StageFails
  <2>1. stages # <<>>
      BY <1>3 DEF StageFails, HandlerInv, StageInv, TypeOK
  <2>2. QED
      BY <1>3, <2>1, Progressed DEF StageFails, Earned
<1>4. CASE UpdateProgress
  <2>1. stages # <<>>
      BY <1>4 DEF UpdateProgress, HandlerInv, StageInv, TypeOK
  <2>2. QED
      BY <1>4, <2>1, Progressed DEF UpdateProgress, Earned
<1>5. CASE StartScript \/ ScriptEnds
  <2>1. ~Earned
      BY <1>5 DEF StartScript, ScriptEnds, HandlerInv, StageInv, FinalInv, Earned
  <2>2. QED
      BY <1>5, <2>1, Progressed DEF StartScript, ScriptEnds
<1>6. CASE CloseWindow
  <2>1. Earned /\ ~cancelled => result = "Success"
      BY <1>6 DEF CloseWindow, EarnedInv, Earned
  <2>2. Earned /\ ~cancelled => reply = "Success"
      BY <1>6, <2>1 DEF CloseWindow, HandlerInv, SuccessIsAcknowledged
  <2>3. Abstract!Close
      BY <1>6, <2>2 DEF CloseWindow, Abstract!Close, Earned
  <2>4. QED
      BY <2>3 DEF AbstractStep, Abstract!Next
<1>7. CASE ReleaseReporter
  <2>1. CASE Earned' = Earned
      BY <1>7, <2>1 DEF ReleaseReporter, AbstractStep, Abstract!reportVars
  <2>2. CASE Earned' # Earned
    <3>1. Abstract!Forget
        BY <1>7, <2>2 DEF ReleaseReporter, Abstract!Forget, Earned
    <3>2. QED
        BY <3>1 DEF AbstractStep, Abstract!Next
  <2>3. QED
      BY <2>1, <2>2
<1>8. QED
    BY <1>1, <1>2, <1>3, <1>4, <1>5, <1>6, <1>7

\* What the reporter sends is a report of ActionReports.
LEMMA ReportStep == ASSUME ReportsInv, Respond PROVE AbstractStep
<1>1. Open /\ Open' /\ reply \in {"none", "InProgress", result}
    BY DEF ReportsInv, SilenceInv, FinalInv, Respond, Open
<1>2. result = "Success" => Earned
    BY DEF ReportsInv, HandlerInv, StageInv, Earned
<1>3. result \in Abstract!Reports
    BY DEF ReportsInv, HandlerInv, TypeOK, Results, Abstract!Reports
<1>4. Abstract!Tell(result)
    BY <1>1, <1>2 DEF Respond, Earned, Abstract!Tell, Abstract!Open
<1>5. QED
    BY <1>3, <1>4 DEF AbstractStep, Abstract!Next

\* Every step of every thread is a step of ActionReports or a stutter.
LEMMA StepRefines == ReportsInv /\ [Next]_vars => AbstractStep
<1> SUFFICES ASSUME ReportsInv, [Next]_vars PROVE AbstractStep
    OBVIOUS
<1> USE DEF Open
<1>1. CASE NewActionCheck \/ LaunchReporter \/ NextStage \/ BeginStage \/ StopFailed
    BY <1>1, Unmoved DEF NewActionCheck, LaunchReporter, NextStage, BeginStage, StopFailed
<1>2. CASE AwaitOver \/ AwaitVehicle \/ Settle \/ OpenWindow
    BY <1>2, Unmoved DEF AwaitOver, AwaitVehicle, Settle, OpenWindow
<1>3. CASE ClearActions \/ JoinReporter \/ ActionDone \/ SetNewAction
    BY <1>3, Unmoved DEF ClearActions, JoinReporter, ActionDone, SetNewAction
<1>4. CASE ReporterCheck
    BY <1>4, Unmoved DEF ReporterCheck
<1>5. CASE ActionCancelled
  <2>1. Abstract!Cancel
      BY <1>5 DEF ActionCancelled, Abstract!Cancel, Earned
  <2>2. QED
      BY <2>1 DEF AbstractStep, Abstract!Next
<1>6. ASSUME NEW id \in ActionIds, ActionReceived(id) PROVE AbstractStep
    BY <1>6, Unmoved DEF ActionReceived
<1>7. CASE UNCHANGED vars
    BY <1>7, Unmoved DEF vars
<1>8. QED
    BY <1>1, <1>2, <1>3, <1>4, <1>5, <1>6, <1>7, CheckerSteps, ReportStep
    DEF Next, Checker, Reporter, Callback

LEMMA InitRefines == Init => Abstract!Init
  BY DEF Init, Abstract!Init, Open, Earned

-----------------------------------------------------------------------------
(* The theorems.                                                           *)

\* The handler implements ActionReports when a loop of its reporter takes less
\* than the 200 ms execute_custom_action keeps the stop flag up.
THEOREM ReportsRefinement == ASSUME ReporterInTime PROVE Spec => ImplementsActionReports
<1>1. Spec => []ReportsInv
    BY ReportsInvariant
<1>2. ReportsInv /\ [Next]_vars => [Abstract!Next]_(Abstract!reportVars)
    BY StepRefines DEF AbstractStep
<1>3. QED
    BY <1>1, <1>2, InitRefines, PTL DEF Spec, ImplementsActionReports, Abstract!Spec

-----------------------------------------------------------------------------
(* What ActionReports itself gives the autopilot, and so the handler.      *)

\* While an action is open, a success that was told is earned.
THEOREM AbstractSuccess == Abstract!Spec => []Abstract!SuccessIsEarned
<1>1. Abstract!Init => Abstract!SuccessIsEarned
    BY DEF Abstract!Init, Abstract!SuccessIsEarned
<1>2. Abstract!SuccessIsEarned /\ AbstractStep => Abstract!SuccessIsEarned'
    BY DEF AbstractStep, Abstract!SuccessIsEarned, Abstract!reportVars, Abstract!Next,
           Abstract!Begin, Abstract!Earn, Abstract!Tell, Abstract!Cancel, Abstract!Close,
           Abstract!Forget
<1>3. QED
    BY <1>1, <1>2, PTL DEF Abstract!Spec, AbstractStep

\* Every step of ActionReports leaves an end that was told as it is and closes no
\* action whose success was not told.
LEMMA AbstractEnd == ASSUME AbstractStep PROVE Abstract!EndIsTold
  BY DEF AbstractStep, Abstract!EndIsTold, Abstract!reportVars, Abstract!Next,
         Abstract!Begin, Abstract!Earn, Abstract!Tell, Abstract!Cancel, Abstract!Close,
         Abstract!Forget

\* No step of the handler's threads takes back the end of an action that the
\* autopilot was told, nor closes an action that succeeded untold (the reporter that
\* is a loop behind, against lines 144 to 162 and 267 to 286 of the checker).
THEOREM EndsStand == ASSUME ReporterInTime PROVE Spec => [][Abstract!EndIsTold]_vars
<1>1. Spec => []ReportsInv
    BY ReportsInvariant
<1>2. ReportsInv /\ [Next]_vars => [Abstract!EndIsTold]_vars
    BY StepRefines, AbstractEnd
<1>3. QED
    BY <1>1, <1>2, PTL DEF Spec

\* A success the autopilot was told of an open action was earned by that very
\* action: all its stages, or its script, have succeeded.
THEOREM SuccessEarned == ASSUME ReporterInTime PROVE Spec => []Abstract!SuccessIsEarned
<1>1. Spec => Abstract!Spec
    BY ReportsRefinement DEF ImplementsActionReports
<1>2. QED
    BY <1>1, AbstractSuccess, PTL

===============================================================================
