---------------------------- MODULE ConfigRefinement ----------------------------
(***************************************************************************)
(* The configuration with its mutex, file and threads implements           *)
(* ConfigurationStore: a set takes effect when SetConfiguration releases   *)
(* the mutex, a copy when a callback has taken it, a save with the rename. *)
(***************************************************************************)
EXTENDS AutopilotManagerConfig

Phase ==
  IF booting THEN "starting"
  ELSE IF dbus \in {"open", "write", "rename"} THEN "unsaved" ELSE "ready"

Store ==
  INSTANCE ConfigurationStore WITH
    Configurations <- Configs,
    Initial        <- DefaultConfig,
    Nothing        <- Missing,
    Images         <- [c \in Configs |-> WrittenFiles(c)],
    Readings       <- [file \in Files |-> {InitFromFile(file)}],
    inForce        <- whole,
    stored         <- disk.conf,
    copied         <- IF reader = "copying" THEN whole ELSE copy,
    telling        <- IF dbus = "get" THEN {config} ELSE {},
    phase          <- Phase

\* Every step of a request, of a config callback and of a crash is a step of
\* ConfigurationStore or changes nothing of it: a set, a copy and a save are
\* seen as a whole or not at all, whichever threads interleave with them and
\* wherever the process dies; what a start takes over was set before
\* (SetConfiguration, the config callbacks, WriteToFile, initialProvisioning).
ImplementsConfigurationStore == Store!Spec

===============================================================================
