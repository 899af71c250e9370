------------------------------- MODULE MCConfig -------------------------------
(* Two values for the fields that are not modelled one by one. *)
EXTENDS ConfigRefinement

Two == {"default", "other"}
===============================================================================
