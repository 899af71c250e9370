----------------------------- MODULE ActionReports -----------------------------
(***************************************************************************)
(* What the autopilot can rely on when it has asked for a custom action,   *)
(* without the threads of the handler: one action at a time is open; as    *)
(* long as it is, the autopilot is told how it goes; what was told as its  *)
(* end is not taken back; a success is told only if the action has earned  *)
(* it, and then always, unless someone cancels.                            *)
(*                                                                         *)
(* Which action a report is about is not part of the promise.              *)
(* ActionRefinement shows that CustomActionHandler implements this.        *)
(***************************************************************************)
VARIABLES
  open,       \* an action is being executed and reported
  told,       \* what the autopilot was last told of it
  earned,     \* all its stages, or its script, have succeeded
  cancelled   \* a cancellation has come for it

reportVars == <<open, told, earned, cancelled>>

Reports == {"Unknown", "InProgress", "Success", "Error", "Timeout"}

\* What may still be followed by another report.
Open == {"none", "InProgress"}

Init == open = FALSE /\ told = "none" /\ earned = FALSE /\ cancelled = FALSE

\* A cancellation that comes early is one of the next action.
Begin ==
  /\ ~open /\ open' = TRUE
  /\ told' = "none" /\ earned' = FALSE
  /\ UNCHANGED cancelled

Earn ==
  /\ open /\ earned' = TRUE
  /\ UNCHANGED <<open, told, cancelled>>

Tell(r) ==
  /\ open
  /\ told \in Open \cup {r}
  /\ r = "Success" => earned
  /\ told' = r
  /\ UNCHANGED <<open, earned, cancelled>>

Cancel ==
  /\ cancelled' = TRUE
  /\ UNCHANGED <<open, told, earned>>

Close ==
  /\ open /\ open' = FALSE
  /\ earned /\ ~cancelled => told = "Success"
  /\ cancelled' = FALSE
  /\ UNCHANGED <<told, earned>>

\* Nothing is said of an action that is over.
Forget ==
  /\ ~open /\ earned' = FALSE
  /\ UNCHANGED <<open, told, cancelled>>

Next == Begin \/ Earn \/ Cancel \/ Close \/ Forget \/ \E r \in Reports : Tell(r)

Spec == Init /\ [][Next]_reportVars

-----------------------------------------------------------------------------
(* What this amounts to; ActionRefinementProofs proves it of this module   *)
(* and carries it over to the handler.                                     *)

\* As long as an action is open, a success that was told is one it has earned:
\* what send_progress_status may send of execute_custom_action's result.
SuccessIsEarned == open /\ told = "Success" => earned

\* An end that was told stands until the action is closed, and an action that has
\* earned its success and that nobody cancels is not closed before it was told.
EndIsTold ==
  open => IF open' THEN told \notin Open => told' = told
                   ELSE earned /\ ~cancelled => told = "Success" /\ told' = told

===============================================================================
