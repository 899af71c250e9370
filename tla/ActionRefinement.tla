--------------------------- MODULE ActionRefinement ---------------------------
(***************************************************************************)
(* The custom action handler with its threads implements ActionReports: an *)
(* action is open from the fetching of its metadata until the stop window  *)
(* of execute_custom_action is over.                                       *)
(***************************************************************************)
EXTENDS CustomActionHandler

Open == chk \notin Resting

\* An action without stages has earned what its script returned.
Earned == IF stages # <<>> THEN ran = 1..Len(stages) ELSE result = "Success"

Abstract ==
  INSTANCE ActionReports WITH
    open      <- Open,
    told      <- reply,
    earned    <- Earned,
    cancelled <- cancelled

\* Every step of the checker, the reporter and the callbacks is a step of
\* ActionReports or changes nothing of it: a reporter that is a loop behind never
\* takes a final result back nor speaks of an action that is over, and a success
\* is told exactly when it was earned (send_progress_status against
\* execute_custom_action and process_custom_action).
ImplementsActionReports == Abstract!Spec

-----------------------------------------------------------------------------
(* What HandlerInv lacks for the refinement; ActionRefinementProofs proves *)
(* it inductive together with HandlerInv.                                  *)

\* A result that is final is not followed by another one.
FinalInv ==
  /\ chk \in {"launch", "begin", "running", "await", "progress", "script", "scriptRun"}
       => result = "InProgress"
  /\ chk = "stage" /\ idx <= Len(stages) => result = "InProgress"
  /\ Open => reply \in {"none", "InProgress", result}

\* The reporter is stopped within the window, so that it is silent in between.
SilenceInv == ~Open => rpt = "done"

\* All stages of an action end in a success, unless it is cancelled.
EarnedInv ==
  /\ chk \in {"stage", "failed"} => stages # <<>>
  /\ chk = "failed" => cancelled \/ ran # 1..Len(stages)
  /\ chk \in {"stage", "settle", "window", "reset"} /\ stages # <<>> /\ ran = 1..Len(stages)
       => cancelled \/ result = "Success"

ReportsInv == HandlerInv /\ FinalInv /\ SilenceInv /\ EarnedInv

===============================================================================
