------------------------ MODULE AutopilotManagerConfig ------------------------
(***************************************************************************)
(* The configuration: a file read once at the start, members of the        *)
(* autopilot manager guarded by _config_mutex, and requests over D-Bus     *)
(* that set the members and then rewrite the file, or that ask for them.   *)
(* The managers copy the members in callbacks under the same mutex.  The   *)
(* process may die at any point and is started again.                      *)
(*                                                                         *)
(* A configuration is reduced to the two fields that enable the decision   *)
(* makers, the others that a set_config message carries (`sent`), and      *)
(* those it does not carry: camera offsets, search speed and so on         *)
(* (`kept`).  Requests are handled one at a time.                          *)
(***************************************************************************)
CONSTANTS
  Values,     \* the values of the fields that are not modelled one by one
  Default     \* their default

ASSUME ConfigAssumption == Default \in Values

VARIABLES
  members,   \* the configuration members of AutopilotManager
  mutex,     \* who holds _config_mutex
  dbus,      \* where the D-Bus thread is
  config,    \* the AutopilotManagerConfig of its request, default without one
  disk,      \* the configuration file and the temporary file
  reader,    \* where a manager's config callback is
  copy,      \* the configuration it is making
  whole,     \* ghost: the last configuration set as a whole
  booting,   \* SetConfiguration was called by initialProvisioning
  failed,    \* ghost: the last WriteToFile since the start failed
  saved      \* ghost: the configuration last saved, or taken over at a start

process == <<members, mutex, reader, copy, whole>>
ghosts == <<failed, saved>>
vars == <<process, dbus, config, disk, booting, ghosts>>

Configs == [sl : BOOLEAN, ca : BOOLEAN, sent : Values, kept : Values]
DefaultConfig == [sl |-> FALSE, ca |-> FALSE, sent |-> Default, kept |-> Default]

\* A file is missing, still being written, cut short by a disk that filled up,
\* or complete; `has` is the configuration that is read from it.
Files == [is : {"missing", "partial", "short", "complete"}, has : Configs]
Missing == [is |-> "missing", has |-> DefaultConfig]
Partial == [is |-> "partial", has |-> DefaultConfig]
Short(c) == [is |-> "short", has |-> c]
Complete(c) == [is |-> "complete", has |-> c]

Init ==
  /\ members = DefaultConfig /\ mutex = "free" /\ config = DefaultConfig
  /\ reader = "idle" /\ copy = DefaultConfig /\ whole = DefaultConfig
  /\ dbus = "provision" /\ booting = TRUE /\ failed = FALSE
  /\ disk \in [conf : {Missing} \cup {Complete(c) : c \in Configs}, tmp : {Missing}]
  /\ saved = disk.conf.has

-----------------------------------------------------------------------------
(* AutopilotManagerConfig *)

UninitialisedKept(m) == [m EXCEPT !.kept = "uninitialised"]             \* bug
\* InitFromMessage fills a configuration that starts from the defaults.
InitFromMessage(m) == [m EXCEPT !.kept = DefaultConfig.kept]

\* The temporary file WriteToFile writes and then renames.
InPlace == "conf"                                                       \* bug
TempPath == "tmp"

\* What WriteToFile writes: safe_landing_enabled gets the other's value.
Written(c) == [c EXCEPT !.sl = c.ca]

\* What is left of a configuration in a file cut short: lines that are lost leave
\* the default, a line cut in its middle may tell any value.
Remains(c) == [sl : {FALSE, c.sl}, ca : {FALSE, c.ca}, sent : Values, kept : Values]

\* The files WriteToFile may leave: it does not ask whether the stream is good.
WrittenFiles(c) == {Complete(Written(c))} \cup {Short(d) : d \in Remains(Written(c))}

\* A temporary file that stays behind is kept without its contents: nothing reads
\* them before the next WriteToFile truncates it.
LeftBehind == [disk EXCEPT !.tmp = IF @.is = "missing" THEN @ ELSE Partial]

NothingRead(file) == DefaultConfig                                      \* bug
\* The configuration a start or a get_config reply starts from.
InitFromFile(file) == file.has

-----------------------------------------------------------------------------
(* initialProvisioning and HandleRequest.  A set_config message that       *)
(* cannot be parsed is refused and changes nothing.                        *)

NoProvisioning ==
  /\ dbus = "provision" /\ disk.conf.is = "missing"
  /\ dbus' = "idle" /\ booting' = FALSE
  /\ UNCHANGED <<process, config, disk, ghosts>>

\* A line cut after its "=" throws instead, which is a Crash.
InitialProvisioning ==
  /\ dbus = "provision" /\ disk.conf.is # "missing"
  /\ config' = InitFromFile(disk.conf)
  /\ dbus' = "set"
  /\ UNCHANGED <<process, disk, booting, ghosts>>

SetConfigRequest(m) ==
  /\ dbus = "idle"
  /\ config' = InitFromMessage(m)
  /\ dbus' = "set"
  /\ UNCHANGED <<process, disk, booting, ghosts>>

GetConfigRequest ==
  /\ dbus = "idle"
  /\ config' = InitFromFile(disk.conf)
  /\ dbus' = "get"
  /\ UNCHANGED <<process, disk, booting, ghosts>>

\* GetConfiguration fills in a copy of its own (it takes the configuration by
\* value), so that the reply is what was in the file.
GetConfiguration ==
  /\ dbus = "get" /\ mutex = "free"
  /\ dbus' = "idle" /\ config' = DefaultConfig
  /\ UNCHANGED <<process, disk, booting, ghosts>>

\* SetConfiguration, in two of its many assignments, under the mutex.
SetGeneral ==
  /\ dbus = "set" /\ mutex = "free"
  /\ mutex' = "dbus"
  /\ members' = [members EXCEPT !.sent = config.sent, !.kept = config.kept]
  /\ dbus' = "setEnabled"
  /\ UNCHANGED <<reader, copy, whole, config, disk, booting, ghosts>>

NotWritten == "idle"                                                    \* bug
AfterSet == IF booting THEN "idle" ELSE "open"

SetEnabled ==
  /\ dbus = "setEnabled"
  /\ members' = [members EXCEPT !.sl = config.sl, !.ca = config.ca]
  /\ mutex' = "free"
  /\ whole' = config
  /\ dbus' = AfterSet /\ booting' = FALSE
  /\ config' = IF dbus' = "idle" THEN DefaultConfig ELSE config
  /\ saved' = IF booting THEN config ELSE saved
  /\ UNCHANGED <<reader, copy, disk, failed>>

\* WriteToFile.  HandleRequest does not ask whether it succeeded, and a file cut
\* short is renamed like a whole one.
OpenFile ==
  /\ dbus = "open"
  /\ disk' = [disk EXCEPT ![TempPath] = Partial]
  /\ dbus' = "write"
  /\ UNCHANGED <<process, config, booting, ghosts>>

WriteFile ==
  /\ dbus = "write"
  /\ \E file \in WrittenFiles(config) : disk' = [disk EXCEPT ![TempPath] = file]
  /\ dbus' = "rename"
  /\ UNCHANGED <<process, config, booting, ghosts>>

RenameFile ==
  /\ dbus = "rename"
  /\ disk' = [disk EXCEPT !.conf = disk[TempPath], !.tmp = Missing]
  /\ dbus' = "idle" /\ config' = DefaultConfig
  /\ failed' = FALSE /\ saved' = config
  /\ UNCHANGED <<process, booting>>

\* The temporary file cannot be opened, or not be renamed.
WriteFails ==
  /\ dbus \in {"open", "rename"}
  /\ dbus' = "idle" /\ config' = DefaultConfig
  /\ failed' = TRUE
  /\ disk' = LeftBehind
  /\ UNCHANGED <<process, booting, saved>>

-----------------------------------------------------------------------------
(* The config callbacks of the managers, in two of their many copies. *)

Unlocked == TRUE                                                        \* bug
MayCopy == mutex = "free"

CopyGeneral ==
  /\ reader = "idle" /\ MayCopy
  /\ mutex' = "manager"
  /\ copy' = [copy EXCEPT !.sent = members.sent, !.kept = members.kept]
  /\ reader' = "copying"
  /\ UNCHANGED <<members, whole, dbus, config, disk, booting, ghosts>>

CopyEnabled ==
  /\ reader = "copying"
  /\ copy' = [copy EXCEPT !.sl = members.sl, !.ca = members.ca]
  /\ mutex' = "free"
  /\ reader' = "idle"
  /\ UNCHANGED <<members, whole, dbus, config, disk, booting, ghosts>>

-----------------------------------------------------------------------------
\* The process dies and is started again; the files stay.
Crash ==
  /\ members' = DefaultConfig /\ mutex' = "free" /\ config' = DefaultConfig
  /\ reader' = "idle" /\ copy' = DefaultConfig /\ whole' = DefaultConfig
  /\ dbus' = "provision" /\ booting' = TRUE /\ failed' = FALSE
  /\ disk' = LeftBehind
  /\ UNCHANGED saved

Request ==
  \/ \E m \in Configs : SetConfigRequest(m)
  \/ GetConfigRequest \/ GetConfiguration
  \/ SetGeneral \/ SetEnabled \/ OpenFile \/ WriteFile \/ RenameFile \/ WriteFails

Next ==
  \/ NoProvisioning \/ InitialProvisioning \/ Request
  \/ CopyGeneral \/ CopyEnabled \/ Crash

Spec == Init /\ [][Next]_vars

-----------------------------------------------------------------------------
(* Properties. *)

\* The types of the configurations, of the files and of the threads' places.
TypeOK ==
  /\ members \in Configs /\ config \in Configs /\ copy \in Configs /\ whole \in Configs
  /\ mutex \in {"free", "dbus", "manager"} /\ reader \in {"idle", "copying"}
  /\ dbus \in {"provision", "idle", "get", "set", "setEnabled", "open", "write", "rename"}
  /\ disk \in [conf : Files, tmp : Files]
  /\ booting \in BOOLEAN /\ failed \in BOOLEAN /\ saved \in Configs

\* Wherever the process dies, it never finds a file half written when it starts
\* again (WriteToFile writes a temporary file and renames it): only a full disk
\* leaves a configuration cut short.
FileIsWhole == disk.conf.is # "partial"

\* No manager works with a mixture of two configurations: what a callback
\* returns is the configuration last set as a whole.
CopyIsWhole == [][CopyEnabled => copy' = whole]_vars

\* What the file may tell when `c` is saved: `c` with the field WriteToFile gets
\* wrong, or `c` itself after a start that took it over.
Tellings(c) ==
  IF disk.conf.is = "short" THEN {c} \cup Remains(Written(c)) ELSE {c, Written(c)}

\* Whatever was set, failed, was cut short or died, at any moment the file tells
\* the last configuration that was saved, or what a full disk has left of it; and
\* this is the one in force, unless the last write failed: what was set and what
\* a restart will find do not drift apart in any other way (HandleRequest).
FileFollowsMembers ==
  /\ disk.conf.has \in Tellings(saved)
  /\ dbus \in {"idle", "get"} /\ ~failed => saved = members

\* So does a get_config reply, which is read from the file and not from the
\* members: after a failed write it tells the configuration saved before, and
\* never one that a request has set and not saved (HandleRequest, GetConfiguration).
GetTellsMembers ==
  dbus = "get" => config \in Tellings(saved) /\ (~failed => saved = members)

\* A restart gets the configuration that was saved back.  WriteToFile breaks it:
\* under the key safe_landing_enabled it writes the other enable field.
RestartKeepsConfiguration ==
  dbus = "idle" /\ disk.conf.is = "complete" => disk.conf.has = saved

-----------------------------------------------------------------------------
(* The invariant behind the safety properties, which                       *)
(* AutopilotManagerConfigProofs proves inductive.                          *)

\* The mutex is held by exactly one of the two that set and copy members, and
\* while the D-Bus thread does not hold it the members are a whole.
MutexInv ==
  /\ mutex = "dbus" <=> dbus = "setEnabled"
  /\ mutex = "manager" <=> reader = "copying"
  /\ mutex # "dbus" => members = whole
  /\ dbus = "setEnabled" => members.sent = config.sent /\ members.kept = config.kept
  /\ reader = "copying" => copy.sent = members.sent /\ copy.kept = members.kept

\* What the D-Bus thread is about to write or has read: the file at the start,
\* the members in force afterwards.
WriteInv ==
  /\ disk.conf.is # "partial"
  /\ disk.conf.is = "missing" => disk.conf = Missing /\ saved = DefaultConfig
  /\ dbus = "provision" => booting /\ members = DefaultConfig
  /\ booting => dbus \in {"provision", "set", "setEnabled"}
  /\ booting /\ dbus # "provision" => disk.conf.is # "missing" /\ config = disk.conf.has
  /\ dbus = "get" => config = disk.conf.has
  /\ dbus \in {"open", "write", "rename"} => config = whole
  /\ dbus = "rename" => disk.tmp \in WrittenFiles(config)

\* The inductive invariant of the configuration.
ConfigInv == TypeOK /\ MutexInv /\ WriteInv /\ FileFollowsMembers

===============================================================================
