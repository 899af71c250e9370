-------------------------- MODULE MCAutopilotManager --------------------------
(* The main loop and the sensor manager with a short grace period and time-out. *)
EXTENDS AutopilotManager
===============================================================================
