--------------------------- MODULE MissionRefinement ---------------------------
(***************************************************************************)
(* The mission manager with its threads implements SafeLanding: an         *)
(* iteration of the decision maker is a round, and the landing planner,    *)
(* which the callbacks may reset at any moment, is the phase.              *)
(***************************************************************************)
EXTENDS MissionManager

Phase == IF ShouldLand(lp) THEN "landing" ELSE IF Active(lp) THEN "searching" ELSE "none"

\* Collision avoidance, and the policies that fly to a goal, do not yield.
Yields == cfg.input = "SAFE_LANDING" /\ cfg.on_no_safe_land \notin GoalPolicies

Abstract ==
  INSTANCE SafeLanding WITH
    Verdicts <- MapperStates,
    Commands <- {"hold", "rtl", "goto", "land"},
    phase    <- Phase,
    verdict  <- seen,
    attended <- attended,
    yields   <- Yields,
    sent     <- issued

\* Every step of every thread is a step of SafeLanding or changes nothing of it:
\* commands and searches exclude each other, a search begins on an unsafe
\* verdict, a landing needs CAN_LAND in the same iteration and does not outlive
\* a bad verdict, and an attended iteration begins without a search
\* (handle_safe_landing, update_landing_site_search, flight_mode_callback).
ImplementsSafeLanding == Abstract!Spec

===============================================================================
