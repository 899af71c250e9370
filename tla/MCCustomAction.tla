---------------------------- MODULE MCCustomAction ----------------------------
(* A small custom action file: an action of two stages, one with a script, *)
(* one with a script whose complete condition no script is run for.        *)
EXTENDS ActionRefinement

Ids == {"cargo", "winch", "horn"}
StagesOf == [id \in Ids |-> IF id = "cargo" THEN <<"landing", "timeout">> ELSE <<>>]
ScriptOf == [cargo |-> "none", winch |-> "success", horn |-> "other"]
===============================================================================
