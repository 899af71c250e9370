--------------------------- MODULE MCLandingManager ---------------------------
(* The landing manager with a second of four periods and counters of a few bits. *)
EXTENDS LandingManager
===============================================================================
