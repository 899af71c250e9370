--------------------- MODULE AutopilotManagerConfigProofs ---------------------
(***************************************************************************)
(* The configuration, for every set of values: wherever the process dies,  *)
(* the file is not half written; a manager never copies a mixture of two   *)
(* configurations; what is in the file is what was set, but for the field  *)
(* WriteToFile gets wrong.                                                 *)
(***************************************************************************)
EXTENDS ConfigRefinement, TLAPS

USE ConfigAssumption DEF ConfigAssumption

\* The default configuration is one, and the file operators give files.
LEMMA DefaultType == DefaultConfig \in Configs
  BY DEF DefaultConfig, Configs

LEMMA FileTypes ==
  /\ Missing \in Files /\ Partial \in Files
  /\ \A c \in Configs : Short(c) \in Files /\ Complete(c) \in Files /\ Written(c) \in Configs
<1>1. Missing \in Files /\ Partial \in Files
  BY DefaultType DEF Missing, Partial, Files
<1>2. \A c \in Configs : Short(c) \in Files /\ Complete(c) \in Files
  BY DEF Short, Complete, Files
<1>3. \A c \in Configs : Written(c) \in Configs
  BY DEF Written, Configs
<1> QED
  BY <1>1, <1>2, <1>3

\* What is left of a configuration is one, and what WriteToFile leaves is a file.
LEMMA WrittenTypes ==
  /\ \A c \in Configs : Remains(c) \subseteq Configs /\ WrittenFiles(c) \subseteq Files
  /\ \A file \in Files : InitFromFile(file) \in Configs
<1>1. \A c \in Configs : Remains(c) \subseteq Configs
  BY DEF Remains, Configs
<1>2. \A c \in Configs : WrittenFiles(c) \subseteq Files
  BY <1>1, FileTypes DEF WrittenFiles
<1>3. \A file \in Files : InitFromFile(file) \in Configs
  BY DEF InitFromFile, Files
<1> QED
  BY <1>1, <1>2, <1>3

\* A file that WriteToFile leaves tells the configuration that was written, but
\* for the wrong field, or what is left of it.
LEMMA WrittenTells ==
  ASSUME NEW c \in Configs, NEW file \in WrittenFiles(c)
  PROVE  /\ file.is \in {"short", "complete"}
         /\ file.has \in IF file.is = "short" THEN {c} \cup Remains(Written(c)) ELSE {c, Written(c)}
<1>1. CASE file = Complete(Written(c))
  BY <1>1 DEF Complete
<1>2. ASSUME NEW d \in Remains(Written(c)), file = Short(d)
      PROVE  file.is = "short" /\ file.has \in Remains(Written(c))
  BY <1>2 DEF Short
<1> QED
  BY <1>1, <1>2 DEF WrittenFiles

\* A temporary file that stays behind leaves the configuration file alone.
LEMMA LeftBehindType ==
  ASSUME disk \in [conf : Files, tmp : Files]
  PROVE  LeftBehind \in [conf : Files, tmp : Files] /\ LeftBehind.conf = disk.conf
  BY FileTypes DEF LeftBehind

\* A message that starts from the defaults is a configuration.
LEMMA MessageType == \A m \in Configs : InitFromMessage(m) \in Configs
  BY DefaultType DEF InitFromMessage, DefaultConfig, Configs

-----------------------------------------------------------------------------
(* Types. *)

LEMMA InitType == Init => TypeOK
<1> SUFFICES ASSUME Init PROVE TypeOK
  OBVIOUS
<1>1. disk \in [conf : Files, tmp : Files]
  BY FileTypes DEF Init
<1>2. saved \in Configs
  BY <1>1, WrittenTypes DEF Init, InitFromFile
<1> QED
  BY <1>1, <1>2, DefaultType DEF Init, TypeOK

LEMMA NextType == TypeOK /\ [Next]_vars => TypeOK'
<1> SUFFICES ASSUME TypeOK, [Next]_vars PROVE TypeOK'
  OBVIOUS
<1> USE DEF TypeOK, process, ghosts
<1>1. CASE NoProvisioning
  BY <1>1 DEF NoProvisioning
<1>2. CASE InitialProvisioning
  BY <1>2, WrittenTypes DEF InitialProvisioning
<1>3. ASSUME NEW m \in Configs, SetConfigRequest(m) PROVE TypeOK'
  BY <1>3, MessageType DEF SetConfigRequest
<1>4. CASE SetGeneral
  <2>1. members' \in Configs
    BY <1>4 DEF SetGeneral, Configs
  <2> QED
    BY <1>4, <2>1 DEF SetGeneral
<1>5. CASE SetEnabled
  <2>1. members' \in Configs
    BY <1>5 DEF SetEnabled, Configs
  <2> QED
    BY <1>5, <2>1, DefaultType DEF SetEnabled, AfterSet
<1>6. CASE OpenFile
  BY <1>6, FileTypes DEF OpenFile, TempPath
<1>7. CASE WriteFile
  BY <1>7, WrittenTypes DEF WriteFile, TempPath
<1>8. CASE RenameFile
  BY <1>8, FileTypes, DefaultType DEF RenameFile, TempPath
<1>9. CASE WriteFails
  BY <1>9, LeftBehindType, DefaultType DEF WriteFails
<1>10. CASE CopyGeneral
  <2>1. copy' \in Configs
    BY <1>10 DEF CopyGeneral, Configs
  <2> QED
    BY <1>10, <2>1 DEF CopyGeneral
<1>11. CASE CopyEnabled
  <2>1. copy' \in Configs
    BY <1>11 DEF CopyEnabled, Configs
  <2> QED
    BY <1>11, <2>1 DEF CopyEnabled
<1>12. CASE Crash
  BY <1>12, LeftBehindType, DefaultType DEF Crash
<1>13. CASE UNCHANGED vars
  BY <1>13 DEF vars
<1>14. CASE GetConfigRequest
  BY <1>14, WrittenTypes DEF GetConfigRequest
<1>15. CASE GetConfiguration
  BY <1>15, DefaultType DEF GetConfiguration
<1> QED
  BY <1>1, <1>2, <1>3, <1>4, <1>5, <1>6, <1>7, <1>8, <1>9, <1>10, <1>11, <1>12, <1>13,
     <1>14, <1>15
     DEF Next, Request

\* The configurations, files and program counters keep their types.
THEOREM ConfigTypeCorrect == Spec => []TypeOK
  BY InitType, NextType, PTL DEF Spec

-----------------------------------------------------------------------------
(* The mutex and the members. *)

\* Two configurations with the same fields are the same.
LEMMA SameFields ==
  \A c, d \in Configs :
    c.sl = d.sl /\ c.ca = d.ca /\ c.sent = d.sent /\ c.kept = d.kept => c = d
  BY DEF Configs

LEMMA InitMutex == Init => MutexInv
  BY DEF Init, MutexInv

LEMMA NextMutex == TypeOK /\ MutexInv /\ [Next]_vars => MutexInv'
<1> SUFFICES ASSUME TypeOK, MutexInv, [Next]_vars PROVE MutexInv'
  OBVIOUS
<1> USE DEF MutexInv, process, ghosts
<1>1. CASE NoProvisioning
  BY <1>1 DEF NoProvisioning
<1>2. CASE InitialProvisioning
  BY <1>2 DEF InitialProvisioning
<1>3. ASSUME NEW m \in Configs, SetConfigRequest(m) PROVE MutexInv'
  BY <1>3 DEF SetConfigRequest
<1>4. CASE SetGeneral
  BY <1>4 DEF SetGeneral, TypeOK, Configs
<1>5. CASE SetEnabled
  <2>1. members' = config
    <3>1. members' \in Configs /\ config \in Configs
      BY <1>5 DEF SetEnabled, TypeOK, Configs
    <3>2. members'.sl = config.sl /\ members'.ca = config.ca
            /\ members'.sent = config.sent /\ members'.kept = config.kept
      BY <1>5 DEF SetEnabled, TypeOK, Configs
    <3> QED
      BY <3>1, <3>2, SameFields
  <2> QED
    BY <1>5, <2>1 DEF SetEnabled, AfterSet
<1>6. CASE OpenFile \/ WriteFile \/ RenameFile \/ WriteFails
  BY <1>6 DEF OpenFile, WriteFile, RenameFile, WriteFails
<1>7. CASE CopyGeneral
  BY <1>7 DEF CopyGeneral, MayCopy, TypeOK, Configs
<1>8. CASE CopyEnabled
  BY <1>8 DEF CopyEnabled
<1>9. CASE Crash
  BY <1>9 DEF Crash
<1>10. CASE UNCHANGED vars
  BY <1>10 DEF vars
<1>11. CASE GetConfigRequest \/ GetConfiguration
  BY <1>11 DEF GetConfigRequest, GetConfiguration
<1> QED
  BY <1>1, <1>2, <1>3, <1>4, <1>5, <1>6, <1>7, <1>8, <1>9, <1>10, <1>11 DEF Next, Request

\* A finished copy is the configuration last set as a whole.
LEMMA CopyStep == TypeOK /\ MutexInv /\ CopyEnabled => copy' = whole
<1> SUFFICES ASSUME TypeOK, MutexInv, CopyEnabled PROVE copy' = whole
  OBVIOUS
<1>1. members = whole /\ copy.sent = members.sent /\ copy.kept = members.kept
  BY DEF MutexInv, CopyEnabled
<1>2. copy' \in Configs /\ whole \in Configs
  BY DEF CopyEnabled, TypeOK, Configs
<1>3. copy'.sl = members.sl /\ copy'.ca = members.ca
        /\ copy'.sent = copy.sent /\ copy'.kept = copy.kept
  BY DEF CopyEnabled, TypeOK, Configs
<1> QED
  BY <1>1, <1>2, <1>3, SameFields

-----------------------------------------------------------------------------
(* The file. *)

LEMMA InitWrite == Init => WriteInv /\ FileFollowsMembers
<1> SUFFICES ASSUME Init PROVE WriteInv /\ FileFollowsMembers
  OBVIOUS
<1>1. disk.conf = Missing \/ \E c \in Configs : disk.conf = Complete(c)
  BY DEF Init
<1>2. disk.conf = Missing \/ disk.conf.is = "complete"
  <2>1. \A c \in Configs : Complete(c).is = "complete"
    BY DEF Complete
  <2> QED
    BY <1>1, <2>1
<1>3. disk.conf.is \in {"missing", "complete"} /\ disk.conf.has \in Tellings(saved)
  BY <1>2 DEF Missing, Init, Tellings
<1>4. disk.conf.is = "missing" => saved = DefaultConfig
  BY <1>2 DEF Missing, Init
<1> QED
  BY <1>2, <1>3, <1>4 DEF Init, WriteInv, FileFollowsMembers, Missing

\* What the file may tell changes only with the file and with what was saved.
LEMMA TellingsKept ==
  ASSUME disk'.conf = disk.conf, UNCHANGED saved PROVE Tellings(saved)' = Tellings(saved)
  BY DEF Tellings

LEMMA NextWrite ==
  TypeOK /\ MutexInv /\ WriteInv /\ FileFollowsMembers /\ [Next]_vars
    => WriteInv' /\ FileFollowsMembers'
<1> SUFFICES ASSUME TypeOK, MutexInv, WriteInv, FileFollowsMembers, [Next]_vars
             PROVE WriteInv' /\ FileFollowsMembers'
  OBVIOUS
<1> USE DEF WriteInv, FileFollowsMembers, process, ghosts
<1>1. CASE NoProvisioning
  BY <1>1, TellingsKept DEF NoProvisioning
<1>2. CASE InitialProvisioning
  BY <1>2, TellingsKept DEF InitialProvisioning, InitFromFile
<1>3. ASSUME NEW m \in Configs, SetConfigRequest(m) PROVE WriteInv' /\ FileFollowsMembers'
  BY <1>3, TellingsKept DEF SetConfigRequest
<1>4. CASE SetGeneral
  BY <1>4, TellingsKept DEF SetGeneral
<1>5. CASE SetEnabled
  <2>1. members' = whole' /\ whole' = config
    BY <1>5, NextMutex DEF MutexInv, SetEnabled
  <2>2. CASE booting
    <3>1. saved' = config /\ config = disk.conf.has /\ disk' = disk
      BY <1>5, <2>2 DEF SetEnabled
    <3>2. disk'.conf.has \in Tellings(saved)'
      BY <3>1 DEF Tellings
    <3> QED
      BY <1>5, <2>1, <2>2, <3>1, <3>2 DEF SetEnabled, AfterSet
  <2>3. CASE ~booting
    BY <1>5, <2>1, <2>3, TellingsKept DEF SetEnabled, AfterSet
  <2> QED
    BY <2>2, <2>3
<1>6. CASE OpenFile
  <2>1. disk'.conf = disk.conf /\ UNCHANGED saved
    BY <1>6 DEF OpenFile, TempPath, TypeOK
  <2> QED
    BY <1>6, <2>1, TellingsKept DEF OpenFile
<1>7. CASE WriteFile
  <2>1. PICK file \in WrittenFiles(config) : disk' = [disk EXCEPT !.tmp = file]
    BY <1>7 DEF WriteFile, TempPath
  <2>2. disk'.conf = disk.conf /\ disk'.tmp = file
    BY <1>7, <2>1 DEF TypeOK
  <2>3. UNCHANGED <<config, whole, booting, members, saved>> /\ dbus' = "rename"
    BY <1>7 DEF WriteFile
  <2>4. disk'.tmp \in WrittenFiles(config')
    BY <2>2, <2>3
  <2> QED
    BY <1>7, <2>2, <2>3, <2>4, TellingsKept DEF WriteFile
<1>8. CASE RenameFile
  <2>1. disk'.conf = disk.tmp /\ disk.tmp \in WrittenFiles(config) /\ config \in Configs
    BY <1>8 DEF RenameFile, TempPath, TypeOK
  <2>2. saved' = config /\ config = members' /\ dbus' = "idle" /\ ~booting'
    BY <1>8 DEF RenameFile, MutexInv
  <2>3. disk'.conf.is \in {"short", "complete"} /\ disk'.conf.has \in Tellings(saved)'
    BY <2>1, <2>2, WrittenTells DEF Tellings
  <2> QED
    BY <2>2, <2>3
<1>9. CASE WriteFails
  <2>1. disk'.conf = disk.conf /\ UNCHANGED saved
    BY <1>9, LeftBehindType DEF WriteFails, TypeOK
  <2> QED
    BY <1>9, <2>1, TellingsKept DEF WriteFails
<1>10. CASE CopyGeneral \/ CopyEnabled
  BY <1>10, TellingsKept DEF CopyGeneral, CopyEnabled
<1>11. CASE Crash
  <2>1. disk'.conf = disk.conf /\ UNCHANGED saved
    BY <1>11, LeftBehindType DEF Crash, TypeOK
  <2> QED
    BY <1>11, <2>1, TellingsKept DEF Crash
<1>12. CASE UNCHANGED vars
  BY <1>12, TellingsKept DEF vars
<1>13. CASE GetConfigRequest
  BY <1>13, TellingsKept DEF GetConfigRequest, InitFromFile
<1>14. CASE GetConfiguration
  BY <1>14, TellingsKept DEF GetConfiguration
<1> QED
  BY <1>1, <1>2, <1>3, <1>4, <1>5, <1>6, <1>7, <1>8, <1>9, <1>10, <1>11, <1>12, <1>13,
     <1>14
     DEF Next, Request

-----------------------------------------------------------------------------
(* Theorems. *)

\* What the mutex, the file and the D-Bus thread keep between them.
THEOREM ConfigInvariant == Spec => []ConfigInv
<1>1. Init => ConfigInv
  BY InitType, InitMutex, InitWrite DEF ConfigInv
<1>2. ConfigInv /\ [Next]_vars => ConfigInv'
  BY NextType, NextMutex, NextWrite DEF ConfigInv
<1> QED
  BY <1>1, <1>2, PTL DEF Spec

\* Wherever the process dies while it writes its configuration, the file it
\* finds again is not half written (WriteToFile and its rename).
THEOREM FileSafe == Spec => []FileIsWhole
<1>1. ConfigInv => FileIsWhole
  BY DEF ConfigInv, WriteInv, FileIsWhole
<1> QED
  BY <1>1, ConfigInvariant, PTL

\* At any moment, also after a crash, the file tells the last configuration saved,
\* but for the field WriteToFile gets wrong, or what a full disk has left of it; and
\* unless the last write failed this is the one in force (HandleRequest).
THEOREM FileFollows == Spec => []FileFollowsMembers
<1>1. ConfigInv => FileFollowsMembers
  BY DEF ConfigInv
<1> QED
  BY <1>1, ConfigInvariant, PTL

\* So does a reply to get_config, also after writes that failed or were cut short
\* (HandleRequest, GetConfiguration).
THEOREM GetTells == Spec => []GetTellsMembers
<1>1. ConfigInv => GetTellsMembers
  BY DEF ConfigInv, WriteInv, FileFollowsMembers, GetTellsMembers
<1> QED
  BY <1>1, ConfigInvariant, PTL

\* A config callback never returns a mixture of two configurations
\* (SetConfiguration and the callbacks share _config_mutex).
THEOREM CopySafe == Spec => CopyIsWhole
<1>1. ConfigInv /\ [Next]_vars => [CopyEnabled => copy' = whole]_vars
  BY CopyStep DEF ConfigInv
<1> QED
  BY <1>1, ConfigInvariant, PTL DEF Spec, CopyIsWhole

-----------------------------------------------------------------------------
(* The refinement of ConfigurationStore.                                   *)

\* What the mapping makes of files and configurations.
LEMMA StoreFunctions ==
  /\ \A file \in Files :
       [f \in Files |-> {InitFromFile(f)}][file] = {InitFromFile(file)}
  /\ \A c \in Configs : [d \in Configs |-> WrittenFiles(d)][c] = WrittenFiles(c)
  OBVIOUS

LEMMA InitStore == Init => Store!Init
<1> SUFFICES ASSUME Init PROVE Store!Init
  OBVIOUS
<1>1. disk.conf = Missing \/ \E c \in Configs : disk.conf = Complete(c)
  BY DEF Init
<1>2. ASSUME NEW c \in Configs, disk.conf = Complete(c)
      PROVE  [file \in Files |-> {InitFromFile(file)}][disk.conf] = {c}
  <2>1. Complete(c) \in Files /\ InitFromFile(Complete(c)) = c
    BY FileTypes DEF Complete, InitFromFile
  <2> QED
    BY <1>2, <2>1, StoreFunctions
<1>3. /\ whole = DefaultConfig /\ Phase = "starting" /\ dbus # "get"
      /\ reader # "copying" /\ copy = DefaultConfig
  BY DEF Init, Phase
<1> QED
  BY <1>1, <1>2, <1>3 DEF Store!Init

\* Every step is one of ConfigurationStore or leaves it as it is.
LEMMA NextStore ==
  ConfigInv /\ [Next]_vars => [Store!Next]_(Store!storeVars)
<1> SUFFICES ASSUME ConfigInv, [Next]_vars
             PROVE  [Store!Next]_(Store!storeVars)
  OBVIOUS
<1> USE DEF ConfigInv, process, Store!storeVars
<1>1. CASE NoProvisioning
  <2>1. disk.conf = Missing
    BY <1>1 DEF NoProvisioning, WriteInv
  <2>2. Store!StartWithDefault
    BY <1>1, <2>1 DEF NoProvisioning, Store!StartWithDefault, Phase, WriteInv
  <2> QED
    BY <2>2 DEF Store!Next
<1>2. CASE InitialProvisioning
  BY <1>2 DEF InitialProvisioning, Phase
<1>3. ASSUME NEW m \in Configs, SetConfigRequest(m) PROVE [Store!Next]_(Store!storeVars)
  BY <1>3 DEF SetConfigRequest, Phase
<1>4. CASE GetConfigRequest
  <2>1. disk.conf \in Files /\ config' \in {InitFromFile(disk.conf)}
    BY <1>4 DEF GetConfigRequest, TypeOK
  <2>2. Store!Ask
    BY <1>4, <2>1, StoreFunctions DEF GetConfigRequest, Store!Ask, Phase, WriteInv
  <2> QED
    BY <2>2 DEF Store!Next
<1>5. CASE GetConfiguration
  <2>1. Store!Answer
    BY <1>5 DEF GetConfiguration, Store!Answer, Phase
  <2> QED
    BY <2>1 DEF Store!Next
<1>6. CASE SetGeneral
  BY <1>6 DEF SetGeneral, Phase
<1>7. CASE SetEnabled
  <2>1. reader # "copying" /\ whole' = config /\ config \in Configs /\ UNCHANGED <<reader, copy, disk>>
    BY <1>7 DEF SetEnabled, TypeOK, MutexInv
  <2>2. CASE booting
    <3>1. disk.conf \in Files /\ disk.conf # Missing /\ config \in {InitFromFile(disk.conf)}
      BY <1>7, <2>2 DEF SetEnabled, WriteInv, TypeOK, Missing, InitFromFile
    <3>2. Store!StartWithStored
      BY <1>7, <2>1, <2>2, <3>1, StoreFunctions
         DEF SetEnabled, AfterSet, Store!StartWithStored, Phase
    <3> QED
      BY <3>2 DEF Store!Next
  <2>3. CASE ~booting
    <3>1. Store!Set(config)
      BY <1>7, <2>1, <2>3 DEF SetEnabled, AfterSet, Store!Set, Phase
    <3> QED
      BY <2>1, <3>1 DEF Store!Next
  <2> QED
    BY <2>2, <2>3
<1>8. CASE OpenFile \/ WriteFile
  <2>1. disk'.conf = disk.conf
    BY <1>8 DEF OpenFile, WriteFile, TempPath, TypeOK
  <2> QED
    BY <1>8, <2>1 DEF OpenFile, WriteFile, Phase
<1>9. CASE RenameFile
  <2>1. disk'.conf \in WrittenFiles(whole) /\ whole \in Configs
    BY <1>9 DEF RenameFile, TempPath, TypeOK, WriteInv
  <2>2. Store!Save
    BY <1>9, <2>1, StoreFunctions DEF RenameFile, Store!Save, Phase, WriteInv
  <2> QED
    BY <2>2 DEF Store!Next
<1>10. CASE WriteFails
  <2>1. Store!SaveFails
    BY <1>10, LeftBehindType DEF TypeOK, WriteFails, Store!SaveFails, Phase, WriteInv
  <2> QED
    BY <2>1 DEF Store!Next
<1>11. CASE CopyGeneral
  <2>1. Store!Copy
    BY <1>11 DEF CopyGeneral, Store!Copy, Phase
  <2> QED
    BY <2>1 DEF Store!Next
<1>12. CASE CopyEnabled
  <2>1. copy' = whole
    BY <1>12, CopyStep
  <2> QED
    BY <1>12, <2>1 DEF CopyEnabled, Phase
<1>13. CASE Crash
  <2>1. Store!Restart
    BY <1>13, LeftBehindType DEF TypeOK, Crash, Store!Restart, Phase
  <2> QED
    BY <2>1 DEF Store!Next
<1>14. CASE UNCHANGED vars
  BY <1>14 DEF vars, Phase
<1> QED
  BY <1>1, <1>2, <1>3, <1>4, <1>5, <1>6, <1>7, <1>8, <1>9, <1>10, <1>11, <1>12, <1>13,
     <1>14
     DEF Next, Request

\* The configuration with its mutex, its file and its crashes implements
\* ConfigurationStore, for every set of values: sets, copies and saves are atomic
\* to everyone who looks (SetConfiguration, WriteToFile, the config callbacks).
THEOREM StoreRefinement == Spec => ImplementsConfigurationStore
<1>1. Init => ConfigInv /\ Store!Init
  BY InitType, InitMutex, InitWrite, InitStore DEF ConfigInv
<1>2. ConfigInv /\ [Next]_vars => ConfigInv'
  BY NextType, NextMutex, NextWrite DEF ConfigInv
<1> QED
  BY <1>1, <1>2, NextStore, PTL DEF Spec, ImplementsConfigurationStore, Store!Spec

===============================================================================
