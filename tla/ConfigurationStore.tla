--------------------------- MODULE ConfigurationStore ---------------------------
(***************************************************************************)
(* What the configuration is to its users, without mutex, file operations  *)
(* and threads: one configuration in force and one stored, each set in a   *)
(* single step.  A start takes over what is stored; a request sets a       *)
(* configuration and then stores it or fails to; a user copies or is told  *)
(* a whole configuration; a restart forgets all but what is stored.        *)
(*                                                                         *)
(* ConfigRefinement shows that AutopilotManagerConfig implements this.     *)
(***************************************************************************)
CONSTANTS
  Configurations,   \* the configurations
  Initial,          \* the one in force after a start
  Nothing,          \* what is stored before anything is
  Images,           \* what storing a configuration may leave
  Readings          \* the configurations found in what is stored

VARIABLES
  inForce,   \* the configuration in force
  stored,    \* what is stored
  copied,    \* the configuration a user copied last
  telling,   \* the configuration a request is being told, if there is one
  phase      \* "starting", "ready", or "unsaved" after a configuration was set

storeVars == <<inForce, stored, copied, telling, phase>>

Init ==
  /\ inForce = Initial /\ copied = Initial
  /\ telling = {} /\ phase = "starting"
  /\ stored = Nothing \/ \E c \in Configurations : Readings[stored] = {c}

StartWithDefault ==
  /\ phase = "starting" /\ stored = Nothing
  /\ phase' = "ready"
  /\ UNCHANGED <<inForce, stored, copied, telling>>

StartWithStored ==
  /\ phase = "starting" /\ stored # Nothing
  /\ inForce' \in Readings[stored]
  /\ phase' = "ready"
  /\ UNCHANGED <<stored, copied, telling>>

Set(c) ==
  /\ phase = "ready" /\ telling = {}
  /\ inForce' = c /\ phase' = "unsaved"
  /\ UNCHANGED <<stored, copied, telling>>

Save ==
  /\ phase = "unsaved"
  /\ stored' \in Images[inForce]
  /\ phase' = "ready"
  /\ UNCHANGED <<inForce, copied, telling>>

SaveFails ==
  /\ phase = "unsaved" /\ phase' = "ready"
  /\ UNCHANGED <<inForce, stored, copied, telling>>

Copy ==
  /\ copied' = inForce
  /\ UNCHANGED <<inForce, stored, telling, phase>>

Ask ==
  /\ phase = "ready" /\ telling = {}
  /\ \E c \in Readings[stored] : telling' = {c}
  /\ UNCHANGED <<inForce, stored, copied, phase>>

Answer ==
  /\ telling # {} /\ telling' = {}
  /\ UNCHANGED <<inForce, stored, copied, phase>>

Restart ==
  /\ inForce' = Initial /\ copied' = Initial
  /\ telling' = {} /\ phase' = "starting"
  /\ UNCHANGED stored

Next ==
  \/ StartWithDefault \/ StartWithStored
  \/ \E c \in Configurations : Set(c)
  \/ Save \/ SaveFails \/ Copy \/ Ask \/ Answer \/ Restart

Spec == Init /\ [][Next]_storeVars

===============================================================================
