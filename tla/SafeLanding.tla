------------------------------ MODULE SafeLanding ------------------------------
(***************************************************************************)
(* What the mission manager promises, without its threads: it works in     *)
(* rounds, each with one verdict of the landing mapper.  It either         *)
(* commands the vehicle (hold, return, fly to a goal, land) or searches    *)
(* for a landing site, never both; it lands at a site only on a verdict    *)
(* that allows it; and a round that a pilot attends from its beginning     *)
(* leaves the vehicle to the pilot.                                        *)
(*                                                                         *)
(* MissionRefinement shows that MissionManager implements this.            *)
(***************************************************************************)
CONSTANTS
  Verdicts,   \* the landing mapper states
  Commands    \* the commands the vehicle may be sent

VARIABLES
  phase,      \* what the search is doing
  verdict,    \* the mapper's verdict of this round
  attended,   \* a pilot has had control since before this round
  yields,     \* the policy is one that leaves a pilot alone
  sent        \* the commands of this round

absVars == <<phase, verdict, attended, yields, sent>>

\* The verdicts on which a search is begun, and those on which a landing at a
\* site is given up.
Unsafe == {"UNKNOWN", "CAN_NOT_LAND"}
Aborting == Unsafe \cup {"UNHEALTHY"}

Init ==
  /\ phase = "none" /\ verdict = "UNKNOWN"
  /\ attended = FALSE /\ yields \in BOOLEAN /\ sent = {}

\* A round is not over while the vehicle lands on a verdict to abort, and a
\* pilot attends none that begins under a search.
NewRound ==
  /\ phase = "landing" => verdict \notin Aborting
  /\ verdict' \in Verdicts /\ sent' = {}
  /\ attended' \in BOOLEAN /\ (attended' => phase = "none")
  /\ UNCHANGED <<phase, yields>>

PilotLeaves ==
  /\ attended /\ attended' = FALSE
  /\ UNCHANGED <<phase, verdict, yields, sent>>

SendCommand ==
  /\ phase = "none" /\ ~(yields /\ attended)
  /\ \E c \in Commands : sent' = sent \cup {c}
  /\ UNCHANGED <<phase, verdict, attended, yields>>

BeginSearch ==
  /\ phase = "none" /\ ~attended /\ verdict \in Unsafe
  /\ phase' = "searching"
  /\ UNCHANGED <<verdict, attended, yields, sent>>

ApproveSite ==
  /\ phase = "searching" /\ verdict = "CAN_LAND"
  /\ phase' = "landing"
  /\ UNCHANGED <<verdict, attended, yields, sent>>

AbortSite ==
  /\ phase = "landing" /\ verdict \in Aborting
  /\ phase' = "searching"
  /\ UNCHANGED <<verdict, attended, yields, sent>>

\* A search may end at any moment: for a pilot, RTL, the ground, a lost link,
\* or because there is nothing left to search.
EndSearch ==
  /\ phase # "none"
  /\ phase' = "none"
  /\ sent' \in {sent, sent \cup {"hold"}}
  /\ UNCHANGED <<verdict, attended, yields>>

Next ==
  \/ NewRound \/ PilotLeaves \/ SendCommand
  \/ BeginSearch \/ ApproveSite \/ AbortSite \/ EndSearch

Spec == Init /\ [][Next]_absVars

-----------------------------------------------------------------------------
\* What a pilot can rely on: a round attended from its beginning has no search
\* and, under a policy that yields, no command.
PilotUndisturbed ==
  /\ phase \in {"none", "searching", "landing"}
  /\ attended => phase = "none"
  /\ yields /\ attended => sent = {}

\* What the vehicle can rely on in every step: a command comes without a search; a
\* search begins on an unsafe verdict and not under a pilot; a landing at a site
\* begins from a search on CAN_LAND, and while it lasts no round follows one
\* whose verdict was to abort.
VehicleGuided ==
  /\ ~(sent' \subseteq sent) => phase' = "none"
  /\ phase = "none" /\ phase' # "none" => verdict \in Unsafe /\ ~attended
  /\ phase # "landing" /\ phase' = "landing" => phase = "searching" /\ verdict = "CAN_LAND"
  /\ phase = "landing" /\ phase' = "landing" /\ verdict \in Aborting => verdict' = verdict

===============================================================================
