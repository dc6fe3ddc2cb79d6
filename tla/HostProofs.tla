------------------------------- MODULE HostProofs -------------------------------
(***************************************************************************)
(* What holds of a machine for any requests, any number of commands and    *)
(* any faults: what a setup that has verified leaves, and which steps can  *)
(* lose the user's .env, repair what setups are stuck at, stop or forget a *)
(* daemon, or forget a unit.                                               *)
(*                                                                         *)
(* Most of it rests on Copied: the state that a subcommand has loaded is   *)
(* still the one in the file when it saves, but for the daemon's pid at    *)
(* the end of a download.                                                  *)
(***************************************************************************)
EXTENDS Host, TLAPS

\* The steps that only a setup takes, and those at which a subcommand has the
\* state file loaded.
SetupOnly == SetupStep \ {"packs", "reembed"}

Copying == {"env-replaced", "present", "ensure", "ensured", "download", "seeding", "initialize",
            "check", "enabled"}

\* What a step that runs may rely on.
Control ==
    /\ at \in SetupOnly => asked \in Request
    /\ IF at \in Copying \cup UninstallStep THEN mine \in StateFile ELSE mine = None
    /\ at \in UninstallStep => removing \in SUBSET Part
    /\ at \in {"ensure", "ensured"} => asked.runner = "ollama"

Typed == TypeOK /\ Control

Copied ==
    mine # None => /\ mine.steps = Loaded.steps
                   /\ mine.backup = Loaded.backup
                   /\ mine.port = Loaded.port
                   /\ mine.unit = Loaded.unit
                   /\ ~(At("download") /\ asked.runner = "ollama") =>
                         mine.ollamaPid = Loaded.ollamaPid

\* The steps of a native setup that follow the writing of .env, the saving of
\* the port, and the recording of seed-corpus.
PortSaved == {"upstream", "pull", "present", "ensure", "ensured", "download", "seed", "seeding",
              "initialize", "check", "embed", "packs", "reembed", "service", "enabled", "verify",
              "finish"}

EnvWritten == PortSaved \cup {"env-replaced"}

Seeded == {"embed", "packs", "reembed", "service", "enabled", "verify", "finish"}

\* How far a native setup has made the machine what was asked for.
Agreed ==
    asked # None =>
        /\ at \in EnvWritten => env = PresetEnv(asked)
        /\ at \in PortSaved => Loaded.port = asked.port
        /\ at \in Seeded \cup {"check"} => ladybug # "absent" /\ duck # "absent"
        /\ at \in Seeded => "seed-corpus" \in Loaded.steps
        /\ at \in {"enabled", "verify", "finish"} /\ asked.mode = "persistent" =>
              unit = [port |-> asked.port, env |-> env]
        /\ at \in {"verify", "finish"} /\ asked.mode = "persistent" => Loaded.unit
        /\ at = "finish" => ladybug = "full"

\* The user's .env is not in its place while the backup is of another.
BackedUp == hadEnv /\ env = UserEnv => Loaded.backup \in {None, UserEnv}

\* An uninstall of the services has removed the unit that its state names.
UnitRemoved ==
    at \in {"un-daemon", "un-models", "un-state"} /\ "services" \in removing /\ mine.unit =>
        unit = None

\* And has stopped the daemon whose pid its state has.
DaemonStopped ==
    at \in {"un-models", "un-state"} /\ "services" \in removing /\ mine.ollamaPid =>
        daemon = None \/ daemon.by # "pull"

IInv == Typed /\ Copied /\ Agreed /\ BackedUp /\ UnitRemoved /\ DaemonStopped
-----------------------------------------------------------------------------
(* The state file. *)

\* The state of a machine that has none.
LEMMA StateTyped ==
    /\ EmptyState \in StateFile
    /\ DefaultPort \in Port
  <1>1. DefaultPort \in Port
    BY MachineAssumption DEF DefaultPort
  <1> QED
    BY <1>1 DEF EmptyState, StateFile

LEMMA LoadedTyped ==
    ASSUME MachineTypeOK PROVE Loaded \in StateFile
  BY StateTyped DEF Loaded, MachineTypeOK

\* What is saved is what is loaded next.
LEMMA SavedIsLoaded ==
    ASSUME NEW st \in StateFile, Save(st)
    PROVE  Loaded' = st /\ disk' # None
  BY MachineAssumption DEF Save, Loaded

\* Recording a step changes nothing else.
LEMMA RecordedKeeps ==
    ASSUME NEW st \in StateFile, NEW step \in StepName
    PROVE  /\ Recorded(st, step) \in StateFile
           /\ Recorded(st, step) = [st EXCEPT !.steps = st.steps \cup {step}]
           /\ Recorded(st, step).steps = st.steps \cup {step}
           /\ Recorded(st, step).backup = st.backup
           /\ Recorded(st, step).port = st.port
           /\ Recorded(st, step).unit = st.unit
           /\ Recorded(st, step).ollamaPid = st.ollamaPid
  BY DEF Recorded, StateFile

\* The other edits of a state make states.
LEMMA EditsTyped ==
    ASSUME NEW st \in StateFile
    PROVE  /\ \A port \in Port : [st EXCEPT !.port = port] \in StateFile
           /\ \A models \in SUBSET Runner : [st EXCEPT !.models = models] \in StateFile
           /\ \A has \in BOOLEAN : [st EXCEPT !.unit = has] \in StateFile
           /\ \A backup \in EnvFile \cup {None} : [st EXCEPT !.backup = backup] \in StateFile
           /\ \A has \in BOOLEAN : [st EXCEPT !.ollamaPid = has] \in StateFile
           /\ [st EXCEPT !.deployment = "native"] \in StateFile
           /\ \A port \in Port :
                 [st EXCEPT !.deployment = "container", !.port = port] \in StateFile
  BY DEF StateFile

LEMMA EnvTyped ==
    /\ UserEnv \in EnvFile
    /\ \A r \in SetupRequest : PresetEnv(r) \in EnvFile
    /\ \A port \in Port : [by |-> "compose", runner |-> None, port |-> port] \in EnvFile
  BY DEF UserEnv, EnvFile, PresetEnv, SetupRequest
-----------------------------------------------------------------------------
(* Types. *)

LEMMA InitTyped == Init => Typed
<1> SUFFICES ASSUME Init PROVE Typed
  OBVIOUS
<1> USE DEF Init
<1>1. MachineTypeOK
  <2>1. model \in [Runner -> {"absent", "partial", "whole"}]
    <3>1. model \in [Runner -> {"absent", "whole"}]
      BY HostAssumption
    <3> QED
      BY <3>1
  <2>2. env \in EnvFile \cup {None} /\ daemon \in Daemon \cup {None}
    BY EnvTyped DEF Daemon
  <2> QED
    BY <2>1, <2>2 DEF MachineTypeOK
<1>2. SetupTypeOK /\ at = "idle" /\ removing = None /\ mine = None
  BY SetupAssumption DEF SetupInit, SetupTypeOK, UninstallInit
<1>3. faults \in 0 .. MaxFaults /\ hadEnv \in BOOLEAN
  BY HostAssumption
<1> QED
  BY <1>1, <1>2, <1>3 DEF Typed, TypeOK, Control, SetupOnly, Copying, SetupStep, UninstallStep

\* The machine keeps its types through a setup.
LEMMA SetupKeepsMachine ==
    ASSUME Typed, SetupStart \/ SetupWork
    PROVE  MachineTypeOK'
<1>0. MachineTypeOK /\ Loaded \in StateFile /\ Request \subseteq SetupRequest
  BY LoadedTyped, SetupAssumption DEF Typed, TypeOK
<1>1. at \in SetupOnly => /\ asked.runner \in Runner /\ asked.port \in Port
                          /\ asked.mode \in {"persistent", "manual"}
                          /\ PresetEnv(asked) \in EnvFile
  BY <1>0, EnvTyped DEF Typed, Control, SetupRequest
<1>2. at \in Copying => mine \in StateFile
  BY DEF Typed, Control
<1>3. ASSUME NEW step \in StepName PROVE Recorded(Loaded, step) \in StateFile
  BY <1>0, RecordedKeeps
<1>4. ASSUME at \in Copying, NEW step \in StepName PROVE Recorded(mine, step) \in StateFile
  BY <1>2, <1>4, RecordedKeeps
<1> USE <1>0 DEF MachineTypeOK
<1>5. CASE SetupStart
  <2>1. Recorded(Loaded, "detect") \in StateFile
    BY <1>3 DEF StepName
  <2> QED
    BY <1>5, <2>1 DEF SetupStart, SetupBegins, SetupDeclined, SetupRefused, Save, machineVars
<1>6. CASE PreflightEarly \/ PullBegins \/ PullMissing \/ SeedBegins \/ PreflightContainer
  BY <1>6 DEF PreflightEarly, PullBegins, PullMissing, SeedBegins, PreflightContainer, machineVars
<1>7. CASE PreflightRunner
  BY <1>7 DEF PreflightRunner, Daemon
<1>8. CASE WriteEnv
  BY <1>1, <1>8 DEF WriteEnv, At, SetupOnly, SetupStep
<1>9. CASE WriteEnvSaves
  <2>1. at \in Copying /\ at \in SetupOnly
    BY <1>9 DEF WriteEnvSaves, At, Copying, SetupOnly, SetupStep
  <2>2. [Recorded(mine, "write-env") EXCEPT !.port = asked.port] \in StateFile
    BY <1>1, <1>4, <2>1, EditsTyped DEF StepName
  <2> QED
    BY <1>9, <2>2 DEF WriteEnvSaves, Save
<1>10. CASE WriteUpstream
  <2>1. disk' \in StateFile
    BY <1>10, EditsTyped DEF WriteUpstream, Save, StateFile
  <2> QED
    BY <1>10, <2>1 DEF WriteUpstream
<1>11. CASE PullPresent \/ PullByHand
  <2>1. at \in Copying /\ at \in SetupOnly
    BY <1>11 DEF PullPresent, PullByHand, At, Copying, SetupOnly, SetupStep
  <2>2. disk' \in StateFile
    <3>1. Recorded(mine, "pull-models") \in StateFile
      BY <1>4, <2>1 DEF StepName
    <3>2. disk' = [Recorded(mine, "pull-models") EXCEPT !.models = {}]
          \/ disk' = [Recorded(mine, "pull-models") EXCEPT !.models = {asked.runner}]
      BY <1>11 DEF PullPresent, PullByHand, PullSaves, Save
    <3>3. {asked.runner} \in SUBSET Runner
      BY <1>1, <2>1
    <3> QED
      BY <3>1, <3>2, <3>3, EditsTyped
  <2> QED
    BY <1>11, <2>2 DEF PullPresent, PullByHand
<1>12. CASE EnsureOllama \/ EnsureSaves
  <2>1. disk' \in StateFile \cup {None}
    BY <1>12, EditsTyped DEF EnsureOllama, EnsureSaves, Save
  <2> QED
    BY <1>12, <2>1 DEF EnsureOllama, EnsureSaves, Daemon
<1>13. CASE DownloadBegins \/ DownloadFails
  BY <1>13 DEF DownloadBegins, DownloadFails, Runner
<1>14. CASE DownloadEnds
  <2>1. at \in Copying /\ at \in SetupOnly
    BY <1>14 DEF DownloadEnds, At, Copying, SetupOnly, SetupStep
  <2>2. disk' \in StateFile
    <3>1. Recorded(mine, "pull-models") \in StateFile
      BY <1>4, <2>1 DEF StepName
    <3>2. disk' = [Recorded(mine, "pull-models") EXCEPT !.models = {asked.runner}]
      BY <1>14 DEF DownloadEnds, PullSaves, Save
    <3>3. {asked.runner} \in SUBSET Runner
      BY <1>1, <2>1
    <3> QED
      BY <3>1, <3>2, <3>3, EditsTyped
  <2>3. model' \in [Runner -> {"absent", "partial", "whole"}]
    BY <1>14 DEF DownloadEnds
  <2> QED
    BY <1>14, <2>2, <2>3 DEF DownloadEnds
<1>15. CASE CopyBundled
  BY <1>15 DEF CopyBundled
<1>16. CASE InitializeEmpty \/ CheckCorpus
  <2>1. at \in Copying
    BY <1>16 DEF InitializeEmpty, CheckCorpus, At, Copying
  <2>2. Recorded(mine, "seed-corpus") \in StateFile
    BY <1>4, <2>1 DEF StepName
  <2> QED
    BY <1>16, <2>2 DEF InitializeEmpty, CheckCorpus, SeedSaves, Save
<1>17. CASE StartEmbed
  <2>1. asked.runner # "lm-studio" => asked.runner \in {"ollama", "llama-server"}
    BY <1>1, <1>17 DEF StartEmbed, At, SetupOnly, SetupStep, Runner
  <2> QED
    BY <1>17, <2>1 DEF StartEmbed, Daemon
<1>18. CASE IngestPacks \/ BulkReembed
  <2>1. CASE IngestPacks
    <3>1. disk' \in StateFile \cup {None}
      BY <2>1 DEF IngestPacks, Save
    <3>2. /\ duck' \in {"absent", "empty", "full"} /\ ladybug' \in {"absent", "empty", "full"}
          /\ UNCHANGED <<env, model, daemon, bundled, unit, ollamaUnit, container, server>>
      BY <2>1 DEF IngestPacks
    <3> QED
      BY <3>1, <3>2
  <2>2. CASE BulkReembed
    <3>1. StartedByUnit \in Server \cup {None}
      BY DEF StartedByUnit, Unit, Server
    <3>2. server' \in Server \cup {None}
      BY <2>2, <3>1 DEF BulkReembed
    <3>3. /\ duck' \in {"absent", "empty", "full"} /\ ladybug' \in {"absent", "empty", "full"}
          /\ UNCHANGED <<disk, env, model, daemon, bundled, unit, ollamaUnit, container>>
      BY <2>2 DEF BulkReembed
    <3> QED
      BY <3>2, <3>3
  <2> QED
    BY <1>18, <2>1, <2>2
<1>19. CASE EnableService \/ EnableFails
  BY <1>1, <1>19 DEF EnableService, EnableFails, WriteUnits, Spawn, At, SetupOnly, SetupStep, Unit, Daemon, Server
<1>20. CASE EnableSaves
  <2>1. at \in Copying
    BY <1>20 DEF EnableSaves, At, Copying
  <2>2. disk' \in StateFile
    <3>1. Recorded(mine, "enable-service") \in StateFile
      BY <1>4, <2>1 DEF StepName
    <3>2. disk' = [Recorded(mine, "enable-service") EXCEPT !.unit = (asked.mode = "persistent")]
      BY <1>20 DEF EnableSaves, Save
    <3>3. (asked.mode = "persistent") \in BOOLEAN
      OBVIOUS
    <3> QED
      BY <3>1, <3>2, <3>3, EditsTyped
  <2> QED
    BY <1>20, <2>2 DEF EnableSaves
<1>21. CASE Verify
  <2>1. Recorded(Loaded, "verify") \in StateFile
    BY <1>3 DEF StepName
  <2> QED
    BY <1>21, <2>1 DEF Verify, Save
<1>22. CASE Finish \/ ComposeSaves
  <2>1. disk' \in StateFile
    <3>1. \/ disk' = [Loaded EXCEPT !.deployment = "native"]
          \/ disk' = [Loaded EXCEPT !.deployment = "container", !.port = DefaultPort]
      BY <1>22 DEF Finish, ComposeSaves, Save
    <3>2. [Loaded EXCEPT !.deployment = "native"] \in StateFile
      BY EditsTyped
    <3>3. [Loaded EXCEPT !.deployment = "container", !.port = DefaultPort] \in StateFile
      BY StateTyped, EditsTyped
    <3> QED
      BY <3>1, <3>2, <3>3
  <2> QED
    BY <1>22, <2>1 DEF Finish, ComposeSaves
<1>23. CASE ComposeUp
  BY <1>23 DEF ComposeUp
<1>24. CASE ComposeEnv
  BY <1>24, EditsTyped, EnvTyped, StateTyped DEF ComposeEnv, Save
<1> QED
  BY <1>5, <1>6, <1>7, <1>8, <1>9, <1>10, <1>11, <1>12, <1>13, <1>14, <1>15, <1>16, <1>17, <1>18,
     <1>19, <1>20, <1>21, <1>22, <1>23, <1>24 DEF SetupWork

\* Where a step of setup leaves the command: at its end, or at a step that has
\* what it may rely on.
LEMMA SetupKeepsControl ==
    ASSUME Typed, SetupStart \/ SetupWork
    PROVE  /\ \/ at' = "idle" /\ asked' = None /\ mine' = None
              \/ /\ at' \in SetupStep /\ asked' \in Request \cup {None}
                 /\ at' \in SetupOnly => asked' \in Request
                 /\ IF at' \in Copying THEN mine' \in StateFile ELSE mine' = None
           /\ exit' \in {"none", "ok", "noop", "failed", "killed"}
           /\ commands' \in 0 .. MaxCommands
           /\ at' \in {"ensure", "ensured"} => asked'.runner = "ollama"
<1>0. /\ Loaded \in StateFile /\ exit \in {"none", "ok", "noop", "failed", "killed"}
      /\ commands \in 0 .. MaxCommands
      /\ asked \in Request \cup {None}
      /\ at \in SetupOnly => asked \in Request
      /\ at \in SetupStep =>
            IF at \in Copying THEN mine \in StateFile ELSE mine = None
      /\ at \in {"ensure", "ensured"} => asked.runner = "ollama"
  BY LoadedTyped DEF Typed, TypeOK, SetupTypeOK, Control, SetupOnly, SetupStep, UninstallStep
<1> USE <1>0
<1>1. CASE SetupStart
  <2>1. commands' \in 0 .. MaxCommands
    BY <1>1, SetupAssumption DEF SetupStart, SetupBegins, SetupDeclined, SetupRefused, Begin
  <2> QED
    BY <1>1, <2>1 DEF SetupStart, SetupBegins, SetupDeclined, SetupRefused, Begin, SetupOnly, SetupStep, Copying
<1> USE DEF GoTo, Keep, Exit, At, SetupOnly, SetupStep, Copying
<1>2. CASE \/ PreflightEarly \/ PreflightRunner \/ PreflightContainer \/ ComposeUp
           \/ ComposeSaves \/ ComposeEnv
  BY <1>2 DEF PreflightEarly, PreflightRunner, PreflightContainer, ComposeUp, ComposeSaves,
              ComposeEnv, setupVars
<1>3. CASE WriteEnv \/ WriteEnvSaves \/ WriteUpstream \/ PullBegins \/ PullPresent \/ PullByHand
  BY <1>3 DEF WriteEnv, WriteEnvSaves, WriteUpstream, PullBegins, PullPresent, PullByHand
<1>4. CASE \/ PullMissing \/ DownloadBegins \/ DownloadEnds \/ DownloadFails
           \/ SeedBegins
  BY <1>4 DEF PullMissing, DownloadBegins, DownloadEnds, DownloadFails, SeedBegins,
              setupVars
<1>5. CASE CopyBundled \/ InitializeEmpty \/ CheckCorpus
  BY <1>5 DEF CopyBundled, InitializeEmpty, CheckCorpus, setupVars
<1>6. CASE StartEmbed \/ EnableService \/ EnableFails \/ EnableSaves \/ Verify \/ Finish
  BY <1>6 DEF StartEmbed, EnableService, EnableFails, EnableSaves, Verify, Finish
<1>7. CASE IngestPacks \/ BulkReembed
  BY <1>7, SetupAssumption DEF IngestPacks, BulkReembed
<1>8. CASE EnsureOllama \/ EnsureSaves
  BY <1>8, EditsTyped DEF EnsureOllama, EnsureSaves
<1> QED
  BY <1>1, <1>2, <1>3, <1>4, <1>5, <1>6, <1>7, <1>8 DEF SetupWork

LEMMA SetupTyped ==
    ASSUME Typed, SetupStart \/ SetupWork, UNCHANGED <<uninstallVars, faults, hadEnv>>
    PROVE  Typed'
<1>1. MachineTypeOK'
  BY SetupKeepsMachine
<1>2. SetupStep \cap UninstallStep = {} /\ "idle" \notin SetupStep \cup UninstallStep \cup Copying
  BY DEF SetupStep, UninstallStep, Copying
<1>3. SetupTypeOK' /\ at' \in SetupStep \cup UninstallStep \cup {"idle"} /\ Control'
  BY <1>2, SetupKeepsControl, Zenon DEF SetupTypeOK, Control, Copying, SetupOnly, SetupStep
<1> QED
  BY <1>1, <1>3 DEF Typed, TypeOK, uninstallVars

LEMMA UninstallTyped ==
    ASSUME Typed, UninstallStart \/ UninstallWork, UNCHANGED <<faults, hadEnv>>
    PROVE  Typed'
<1>0. /\ MachineTypeOK /\ SetupTypeOK /\ Loaded \in StateFile
      /\ at \in UninstallStep => mine \in StateFile /\ removing \in SUBSET Part
      /\ removing \in (SUBSET Part) \cup {None}
      /\ None \notin Port
  BY LoadedTyped, MachineAssumption DEF Typed, TypeOK, Control
<1> USE <1>0
<1>1. CASE UninstallStart
  <2>1. PICK parts \in Choice : UninstallBegins(parts)
    BY <1>1 DEF UninstallStart
  <2>2. parts \in SUBSET Part
    BY ChoiceAssumption DEF Presets, Custom, Part
  <2>3. commands' \in 0 .. MaxCommands
    BY <2>1, SetupAssumption DEF UninstallBegins, SetupTypeOK
  <2>4. MachineTypeOK'
    BY <2>1 DEF UninstallBegins, machineVars, MachineTypeOK
  <2> QED
    BY <2>1, <2>2, <2>3, <2>4 DEF UninstallBegins, Typed, TypeOK, SetupTypeOK, Control, Copying,
                                 SetupOnly, SetupStep, UninstallStep
<1>2. CASE UninstallWork
  <2>1. at \in UninstallStep
    BY <1>2 DEF UninstallWork, RemoveContainer, RemoveEnv, RemoveData, RemoveServer, RemoveUnit,
                StopDaemon, RemoveModels, RemoveState, At, UninstallStep
  <2>2. \/ /\ at' \in UninstallStep
           /\ UNCHANGED <<asked, mine, exit, commands, removing>>
        \/ Exit("ok") /\ removing' = None
    BY <1>2 DEF UninstallWork, RemoveContainer, RemoveEnv, RemoveData, RemoveServer, RemoveUnit,
                StopDaemon, RemoveModels, RemoveState, Then, UninstallStep
  <2>3. MachineTypeOK'
    <3>1. mine.backup \in EnvFile \cup {None}
      BY <2>1 DEF StateFile
    <3>2. CASE RemoveModels
      BY <3>2 DEF RemoveModels, MachineTypeOK
    <3>3. CASE \/ RemoveContainer \/ RemoveEnv \/ RemoveData \/ RemoveServer \/ RemoveUnit
               \/ StopDaemon \/ RemoveState
      BY <3>1, <3>3 DEF RemoveContainer, RemoveEnv, RemoveData, RemoveServer, RemoveUnit,
                        StopDaemon, RemoveState, MachineTypeOK
    <3> QED
      BY <1>2, <3>2, <3>3 DEF UninstallWork
  <2>4. SetupTypeOK' /\ Control'
    <3>1. CASE UNCHANGED <<asked, mine, exit, commands, removing>> /\ at' \in UninstallStep
      BY <2>1, <3>1 DEF SetupTypeOK, Control, SetupOnly, SetupStep, UninstallStep, Copying
    <3>2. CASE Exit("ok") /\ removing' = None
      BY <3>2 DEF Exit, SetupTypeOK, Control, SetupOnly, SetupStep, UninstallStep, Copying
    <3> QED
      BY <2>2, <3>1, <3>2
  <2> QED
    BY <2>1, <2>2, <2>3, <2>4 DEF Exit, Typed, TypeOK
<1> QED
  BY <1>1, <1>2

\* The commands that begin and end at once, and what happens outside them.
OneShot ==
    \/ ServerStart \/ ServerStop
    \/ \E r \in Request : ForceEnv(r)
    \/ \E step \in StepName : ResetStep(step)
    \/ Update

\* The commands that go on to steps of install-packs, by themselves.
PackCommand == PacksAlone \/ CorpusBootstrap

LEMMA PackCommandLeaves ==
    ASSUME PackCommand
    PROVE  /\ UNCHANGED <<disk, env, model, daemon, bundled, unit, ollamaUnit, container, server>>
           /\ duck' \in {duck, "absent", "full"} /\ ladybug' \in {ladybug, "absent", "empty", "full"}
           /\ PacksAlone => UNCHANGED <<duck, ladybug>>
           /\ \E step \in {"idle", "packs", "reembed"} : Begin(step, None)
           /\ exit' \in {"none", "ok", "failed"}
  BY DEF PackCommand, PacksAlone, CorpusBootstrap, machineVars

LEMMA PackCommandTyped ==
    ASSUME Typed, PackCommand, UNCHANGED <<uninstallVars, faults, hadEnv>>
    PROVE  Typed'
<1>1. MachineTypeOK'
  BY PackCommandLeaves DEF Typed, TypeOK, MachineTypeOK
<1>2. at' \in {"idle", "packs", "reembed"} /\ asked' = None /\ mine' = None
  BY PackCommandLeaves DEF Begin
<1>3. SetupTypeOK'
  BY <1>2, PackCommandLeaves, SetupAssumption DEF Begin, Typed, TypeOK, SetupTypeOK
<1> QED
  BY <1>1, <1>2, <1>3 DEF Typed, TypeOK, Control, Copying, SetupOnly, SetupStep, UninstallStep,
                          uninstallVars

Outside == LifespanOpens \/ LifespanDone \/ ServerDies \/ DaemonChanges \/ Restart

LEMMA OneShotTyped ==
    ASSUME Typed, OneShot, UNCHANGED <<uninstallVars, faults, hadEnv>>
    PROVE  Typed'
<1>0. MachineTypeOK /\ SetupTypeOK /\ Loaded \in StateFile
  BY LoadedTyped DEF Typed, TypeOK
<1> USE <1>0
<1>1. Begin("idle", None) /\ exit' \in {"ok", "failed"}
  BY DEF OneShot, ServerStart, ServerStop, ForceEnv, ResetStep, Update
<1>2. MachineTypeOK'
  <2>1. ASSUME NEW r \in Request, ForceEnv(r) PROVE MachineTypeOK'
    <3>1. r.port \in Port /\ PresetEnv(r) \in EnvFile
      BY SetupAssumption, EnvTyped DEF SetupRequest
    <3>2. Recorded(Loaded, "write-env") \in StateFile
      BY RecordedKeeps DEF StepName
    <3>3. [Recorded(Loaded, "write-env") EXCEPT !.port = r.port] \in StateFile
      BY <3>1, <3>2, EditsTyped
    <3> QED
      BY <2>1, <3>1, <3>3 DEF ForceEnv, Save, MachineTypeOK
  <2>2. ASSUME NEW step \in StepName, ResetStep(step) PROVE MachineTypeOK'
    <3>1. disk' \in StateFile
      BY <2>2, StateTyped DEF ResetStep, Save, StateFile
    <3> QED
      BY <2>2, <3>1 DEF ResetStep, MachineTypeOK
  <2>3. CASE ServerStart \/ ServerStop
    <3>1. Loaded.port \in Port
      BY DEF StateFile
    <3> QED
      BY <2>3, <3>1 DEF ServerStart, ServerStop, Spawn, Server, MachineTypeOK
  <2>4. CASE Update
    BY <2>4 DEF Update, Save, MachineTypeOK
  <2> QED
    BY <2>1, <2>2, <2>3, <2>4 DEF OneShot
<1> QED
  BY <1>1, <1>2, SetupAssumption
  DEF Begin, Typed, TypeOK, SetupTypeOK, Control, Copying, SetupOnly, SetupStep, UninstallStep, uninstallVars

LEMMA OutsideTyped ==
    ASSUME Typed, Outside, UNCHANGED <<setupVars, uninstallVars, hadEnv>>,
           faults' \in 0 .. MaxFaults
    PROVE  Typed'
<1>1. MachineTypeOK'
  BY MachineAssumption DEF Typed, TypeOK, MachineTypeOK, Outside, LifespanOpens, LifespanDone,
     ServerDies, DaemonChanges, Restart, StartedByUnit, Server, Daemon, Unit
<1> QED
  BY <1>1 DEF Typed, TypeOK, SetupTypeOK, Control, setupVars, uninstallVars

\* The disjuncts of the next-state relation, with what they leave alone.
LEMMA Steps ==
    ASSUME [Next]_vars, Typed
    PROVE  \/ /\ SetupStart \/ SetupWork \/ OneShot \/ PackCommand
              /\ UNCHANGED <<uninstallVars, faults, hadEnv>>
           \/ (UninstallStart \/ UninstallWork) /\ UNCHANGED <<faults, hadEnv>>
           \/ /\ Outside
              /\ UNCHANGED <<setupVars, uninstallVars, hadEnv>>
              /\ faults' \in {faults, faults + 1} /\ faults' \in 0 .. MaxFaults
           \/ Kill /\ faults' = faults + 1 /\ faults' \in 0 .. MaxFaults
           \/ UNCHANGED vars
<1>1. Fault => faults' = faults + 1 /\ faults' \in 0 .. MaxFaults
  BY HostAssumption DEF Fault, Typed, TypeOK
<1> QED
  BY <1>1 DEF Next, OneShot, PackCommand, Outside, Kill, ServerDies, DaemonChanges, Restart, Typed,
              TypeOK

LEMMA TypedKept == ASSUME Typed, [Next]_vars PROVE Typed'
<1>1. CASE Kill /\ faults' \in 0 .. MaxFaults
  BY <1>1 DEF Kill, Exit, Typed, TypeOK, SetupTypeOK, Control, Copying, SetupOnly, SetupStep, UninstallStep,
              machineVars, MachineTypeOK
<1>2. CASE UNCHANGED vars
  BY <1>2 DEF vars, machineVars, setupVars, uninstallVars, Typed, TypeOK, MachineTypeOK, SetupTypeOK,
              Control
<1> QED
  BY <1>1, <1>2, Steps, SetupTyped, UninstallTyped, OneShotTyped, PackCommandTyped, OutsideTyped

-----------------------------------------------------------------------------
(* The state file and its copy. *)

\* A pid that is set in a state, there or not.
SetPid(st, has) == [st EXCEPT !.ollamaPid = has]

LEMMA PidKeeps ==
    ASSUME NEW st \in StateFile, NEW has \in BOOLEAN
    PROVE  /\ SetPid(st, has) \in StateFile
           /\ SetPid(st, has).steps = st.steps /\ SetPid(st, has).backup = st.backup
           /\ SetPid(st, has).port = st.port /\ SetPid(st, has).unit = st.unit
           /\ SetPid(st, has).ollamaPid = has
  BY DEF SetPid, StateFile

\* What the start of Ollama does to the file and the copy.
LEMMA EnsureFiles ==
    ASSUME Typed, Copied, EnsureOllama \/ EnsureSaves
    PROVE  /\ UNCHANGED disk \/ \E has \in BOOLEAN : Loaded' = SetPid(Loaded, has)
           /\ disk # None => disk' # None
           /\ EnsureOllama => \/ UNCHANGED <<disk, mine, asked>>
                              \/ /\ Loaded' = SetPid(Loaded, FALSE)
                                 /\ mine' = SetPid(mine, FALSE) /\ at' = "ensured"
           /\ EnsureSaves => /\ Loaded' = SetPid(Loaded, TRUE)
                             /\ \/ mine' = None
                                \/ UNCHANGED <<mine, asked>> /\ at' = "download"
<1>0. Loaded \in StateFile /\ disk \in StateFile \cup {None}
  BY LoadedTyped DEF Typed, TypeOK, MachineTypeOK
<1>1. CASE EnsureOllama
  <2>1. CASE daemon # None
    BY <1>1, <2>1 DEF EnsureOllama, EnsureSaves, Keep, At
  <2>2. CASE daemon = None
    <3>1. mine' = SetPid(mine, FALSE) /\ at' = "ensured"
      BY <1>1, <2>2 DEF EnsureOllama, Keep, SetPid
    <3>2. CASE disk = None
      <4>1. UNCHANGED disk
        BY <1>1, <2>2, <3>2 DEF EnsureOllama
      <4>2. SetPid(EmptyState, FALSE) = EmptyState
        <5>1. EmptyState.ollamaPid = FALSE /\ EmptyState \in StateFile
          BY StateTyped DEF EmptyState
        <5>2. \A st \in StateFile : st.ollamaPid = FALSE => [st EXCEPT !.ollamaPid = FALSE] = st
          BY DEF StateFile
        <5> QED
          BY <5>1, <5>2 DEF SetPid
      <4>3. Loaded = EmptyState /\ Loaded' = EmptyState
        BY <3>2, <4>1 DEF Loaded
      <4> QED
        BY <1>1, <3>1, <4>1, <4>2, <4>3 DEF EnsureOllama, EnsureSaves, At
    <3>3. CASE disk # None
      <4>1. disk' = SetPid(disk, FALSE) /\ Loaded = disk
        BY <1>1, <2>2, <3>3 DEF EnsureOllama, Loaded, SetPid
      <4>2. Loaded' = SetPid(Loaded, FALSE) /\ disk' # None
        BY <1>0, <4>1, PidKeeps, SavedIsLoaded DEF Save
      <4> QED
        BY <1>1, <3>1, <4>2 DEF EnsureOllama, EnsureSaves, At
    <3> QED
      BY <3>2, <3>3
  <2> QED
    BY <2>1, <2>2
<1>2. CASE EnsureSaves
  <2>1. Save(SetPid(Loaded, TRUE))
    BY <1>2 DEF EnsureSaves, SetPid
  <2>2. Loaded' = SetPid(Loaded, TRUE) /\ disk' # None
    BY <1>0, <2>1, PidKeeps, SavedIsLoaded
  <2>3. mine' = None \/ (UNCHANGED <<mine, asked>> /\ at' = "download")
    BY <1>2 DEF EnsureSaves, Keep, Exit
  <2>4. ~EnsureOllama
    BY <1>2 DEF EnsureSaves, EnsureOllama, At
  <2>5. \E has \in BOOLEAN : Loaded' = SetPid(Loaded, has)
    BY <2>2
  <2> QED
    BY <2>2, <2>3, <2>4, <2>5
<1> QED
  BY <1>1, <1>2

\* What the other steps of a setup do to them.
LEMMA SetupFiles ==
    ASSUME Typed, SetupWork, ~EnsureOllama, ~EnsureSaves
    PROVE  \/ UNCHANGED <<disk, mine, asked>> /\ (At("download") => at' = "download")
           \/ UNCHANGED disk /\ mine' = Loaded
           \/ mine' = None
<1> USE DEF GoTo, Keep, Exit, At, machineVars, setupVars
<1>2. CASE \/ PreflightEarly \/ PreflightRunner \/ PreflightContainer \/ ComposeUp
           \/ ComposeSaves \/ ComposeEnv
  BY <1>2 DEF PreflightEarly, PreflightRunner, PreflightContainer, ComposeUp, ComposeSaves,
              ComposeEnv, Typed, Control, Copying, UninstallStep
<1>3. CASE WriteEnv \/ WriteEnvSaves \/ WriteUpstream \/ PullBegins \/ PullPresent \/ PullByHand
  BY <1>3 DEF WriteEnv, WriteEnvSaves, WriteUpstream, PullBegins, PullPresent, PullByHand
<1>4. CASE PullMissing \/ DownloadBegins \/ DownloadEnds \/ DownloadFails \/ SeedBegins
  BY <1>4 DEF PullMissing, DownloadBegins, DownloadEnds, DownloadFails, SeedBegins
<1>5. CASE CopyBundled \/ InitializeEmpty \/ CheckCorpus
  BY <1>5 DEF CopyBundled, InitializeEmpty, CheckCorpus
<1>6. CASE StartEmbed \/ EnableService \/ EnableFails \/ EnableSaves \/ Verify \/ Finish
  BY <1>6 DEF StartEmbed, EnableService, EnableFails, EnableSaves, Verify, Finish
<1>7. CASE IngestPacks \/ BulkReembed
  BY <1>7 DEF IngestPacks, BulkReembed
<1> QED
  BY <1>2, <1>3, <1>4, <1>5, <1>6, <1>7 DEF SetupWork

\* What reset-step saves.
LEMMA ResetKeeps ==
    ASSUME Typed, NEW step \in StepName, ResetStep(step)
    PROVE  /\ disk' \in StateFile /\ disk'.backup = Loaded.backup /\ disk'.unit = Loaded.unit
           /\ disk'.ollamaPid = Loaded.ollamaPid
           /\ disk'.steps \subseteq Loaded.steps
           /\ Loaded' = disk'
<1>1. Loaded \in StateFile
  BY LoadedTyped DEF Typed, TypeOK
<1>2. /\ disk' \in StateFile /\ disk'.backup = Loaded.backup /\ disk'.unit = Loaded.unit
      /\ disk'.ollamaPid = Loaded.ollamaPid
      /\ disk'.steps \subseteq Loaded.steps
  BY <1>1, StateTyped DEF ResetStep, Save, StateFile
<1> QED
  BY <1>2, SavedIsLoaded DEF Save

LEMMA CopiedKept == ASSUME Typed, Copied, [Next]_vars PROVE Copied'
<1>0. Loaded \in StateFile
  BY LoadedTyped DEF Typed, TypeOK
<1>1. ASSUME UNCHANGED disk,
             \/ UNCHANGED <<mine, asked>> /\ (At("download") => at' = "download")
             \/ mine' = Loaded
      PROVE  Copied'
  BY <1>1 DEF Copied, Loaded, At
<1>2. ASSUME mine' = None PROVE Copied'
  BY <1>2 DEF Copied
<1>3. CASE EnsureOllama \/ EnsureSaves
  <2>1. mine \in StateFile /\ mine # None
    BY <1>3, MachineAssumption DEF EnsureOllama, EnsureSaves, At, Typed, Control, Copying
  <2>2. CASE UNCHANGED <<disk, mine, asked>> /\ EnsureOllama
    BY <1>1, <2>2 DEF EnsureOllama, At
  <2>3. ASSUME NEW has \in BOOLEAN, Loaded' = SetPid(Loaded, has)
        PROVE  /\ Loaded'.steps = Loaded.steps /\ Loaded'.backup = Loaded.backup
               /\ Loaded'.port = Loaded.port /\ Loaded'.unit = Loaded.unit
               /\ Loaded'.ollamaPid = has
    BY <1>0, <2>3, PidKeeps
  <2>4. CASE Loaded' = SetPid(Loaded, FALSE) /\ mine' = SetPid(mine, FALSE) /\ at' = "ensured"
    BY <2>1, <2>3, <2>4, PidKeeps DEF Copied
  <2>5. CASE /\ Loaded' = SetPid(Loaded, TRUE) /\ UNCHANGED <<mine, asked>> /\ at' = "download"
             /\ EnsureSaves
    <3>1. asked.runner = "ollama" /\ At("ensured")
      BY <2>5 DEF EnsureSaves, At, Typed, Control
    <3> QED
      BY <2>1, <2>3, <2>5, <3>1 DEF Copied, At
  <2> QED
    BY <1>2, <1>3, <2>2, <2>4, <2>5, EnsureFiles
<1>4. CASE SetupWork
  BY <1>1, <1>2, <1>3, <1>4, SetupFiles
<1>5. CASE SetupStart \/ OneShot \/ PackCommand
  BY <1>2, <1>5, PackCommandLeaves DEF SetupStart, SetupBegins, SetupDeclined, SetupRefused, OneShot, ServerStart,
                    ServerStop, ForceEnv, ResetStep, Update, Begin
<1>6. CASE UninstallStart
  BY <1>1, <1>6 DEF UninstallStart, UninstallBegins, machineVars
<1>7. CASE UninstallWork
  <2>1. (UNCHANGED <<disk, mine, asked>> /\ ~At("download")) \/ mine' = None
    BY <1>7 DEF UninstallWork, RemoveContainer, RemoveEnv, RemoveData, RemoveServer, RemoveUnit,
                StopDaemon, RemoveModels, RemoveState, Then, Exit, At
  <2> QED
    BY <1>1, <1>2, <2>1
<1>8. CASE (Outside /\ UNCHANGED setupVars) \/ UNCHANGED vars
  <2>1. UNCHANGED <<disk, mine, asked, at>>
    BY <1>8 DEF Outside, LifespanOpens, LifespanDone, ServerDies, DaemonChanges, Restart,
                setupVars, vars, machineVars
  <2> QED
    BY <1>1, <2>1 DEF At
<1>9. CASE Kill
  BY <1>2, <1>9 DEF Kill, Exit
<1> QED
  BY <1>4, <1>5, <1>6, <1>7, <1>8, <1>9, Steps

\* What the steps of a setup that save, save: the entries that matter here.
LEMMA SetupSaves ==
    ASSUME Typed, Copied, SetupWork
    PROVE  /\ Loaded'.port # Loaded.port =>
                 \/ At("env-replaced") /\ Loaded'.port = asked.port
                 \/ At("composed")
           /\ \/ Loaded'.backup = Loaded.backup
              \/ Loaded.backup = None /\ Loaded'.backup = env /\ UNCHANGED env
           /\ \/ Loaded'.unit = Loaded.unit
              \/ At("enabled") /\ Loaded'.unit = (asked.mode = "persistent")
           /\ "seed-corpus" \in Loaded'.steps =>
                 \/ "seed-corpus" \in Loaded.steps
                 \/ At("check") /\ DuckComplete
                 \/ At("initialize")
           /\ \/ Loaded'.ollamaPid = Loaded.ollamaPid
              \/ At("ensure") \/ At("ensured")
              \/ DownloadEnds /\ asked.runner = "ollama"
           /\ disk # None => disk' # None
<1> DEFINE Goal ==
      /\ Loaded'.port # Loaded.port =>
                 \/ At("env-replaced") /\ Loaded'.port = asked.port
                 \/ At("composed")
      /\ \/ Loaded'.backup = Loaded.backup
         \/ Loaded.backup = None /\ Loaded'.backup = env /\ UNCHANGED env
      /\ \/ Loaded'.unit = Loaded.unit
         \/ At("enabled") /\ Loaded'.unit = (asked.mode = "persistent")
      /\ "seed-corpus" \in Loaded'.steps =>
            \/ "seed-corpus" \in Loaded.steps
            \/ At("check") /\ DuckComplete
            \/ At("initialize")
      /\ \/ Loaded'.ollamaPid = Loaded.ollamaPid
         \/ At("ensure") \/ At("ensured")
         \/ DownloadEnds /\ asked.runner = "ollama"
      /\ disk # None => disk' # None
<1>0. Loaded \in StateFile
  BY LoadedTyped DEF Typed, TypeOK
<1>1. ASSUME UNCHANGED disk PROVE Goal
  BY <1>1 DEF Loaded
\* The entries of the copy are those of the file, so saving it is as good.
<1>2. ASSUME at \in Copying
      PROVE  /\ mine \in StateFile /\ mine.steps = Loaded.steps /\ mine.backup = Loaded.backup
             /\ mine.port = Loaded.port /\ mine.unit = Loaded.unit
             /\ ~(At("download") /\ asked.runner = "ollama") =>
                   mine.ollamaPid = Loaded.ollamaPid
  BY <1>2, MachineAssumption DEF Copied, Typed, Control
<1>3. CASE WriteEnvSaves
  <2>1. at \in Copying /\ asked.port \in Port
    BY <1>3, SetupAssumption DEF WriteEnvSaves, At, Copying, Typed, Control, SetupOnly, SetupStep, SetupRequest
  <2>2. Recorded(mine, "write-env") \in StateFile
    BY <1>2, <2>1, RecordedKeeps DEF StepName
  <2>3. [Recorded(mine, "write-env") EXCEPT !.port = asked.port] \in StateFile
    BY <2>1, <2>2, EditsTyped
  <2>4. /\ Loaded' = [Recorded(mine, "write-env") EXCEPT !.port = asked.port]
        /\ disk' # None
    BY <1>3, <2>3, SavedIsLoaded DEF WriteEnvSaves
  <2>5. /\ Loaded'.port = asked.port
        /\ Loaded'.backup = Recorded(mine, "write-env").backup
        /\ Loaded'.unit = Recorded(mine, "write-env").unit
        /\ Loaded'.steps = Recorded(mine, "write-env").steps
        /\ Loaded'.ollamaPid = Recorded(mine, "write-env").ollamaPid
    BY <2>2, <2>4 DEF StateFile
  <2> QED
    BY <1>2, <1>3, <2>1, <2>4, <2>5, RecordedKeeps DEF WriteEnvSaves, StepName, At
<1>4. CASE WriteUpstream
  <2> DEFINE st == [Loaded EXCEPT !.backup = IF @ = None THEN env ELSE @]
  <2>1. st \in StateFile
    BY <1>0 DEF StateFile, Typed, TypeOK, MachineTypeOK
  <2>2. Loaded' = st /\ disk' # None
    BY <1>4, <2>1, SavedIsLoaded DEF WriteUpstream
  <2> QED
    BY <1>0, <1>4, <2>2 DEF StateFile, WriteUpstream
<1>5. CASE PullPresent \/ PullByHand \/ DownloadEnds
  <2>1. at \in Copying /\ asked.runner \in Runner
    BY <1>5, SetupAssumption DEF PullPresent, PullByHand, DownloadEnds, At, Copying, Typed, Control,
                                 SetupOnly, SetupStep, SetupRequest
  <2>2. Recorded(mine, "pull-models") \in StateFile
    BY <1>2, <2>1, RecordedKeeps DEF StepName
  <2>3. ASSUME NEW models \in SUBSET Runner, PullSaves(models)
        PROVE  /\ Loaded'.port = mine.port /\ Loaded'.backup = mine.backup
               /\ Loaded'.unit = mine.unit /\ Loaded'.steps = mine.steps \cup {"pull-models"}
               /\ Loaded'.ollamaPid = mine.ollamaPid
               /\ disk' # None
    <3>1. [Recorded(mine, "pull-models") EXCEPT !.models = models] \in StateFile
      BY <2>2, EditsTyped
    <3>2. /\ Loaded' = [Recorded(mine, "pull-models") EXCEPT !.models = models]
          /\ disk' # None
      BY <2>3, <3>1, SavedIsLoaded DEF PullSaves
    <3>3. /\ Loaded'.port = Recorded(mine, "pull-models").port
          /\ Loaded'.backup = Recorded(mine, "pull-models").backup
          /\ Loaded'.unit = Recorded(mine, "pull-models").unit
          /\ Loaded'.steps = Recorded(mine, "pull-models").steps
          /\ Loaded'.ollamaPid = Recorded(mine, "pull-models").ollamaPid
      BY <2>2, <3>2 DEF StateFile
    <3> QED
      BY <1>2, <2>1, <3>2, <3>3, RecordedKeeps DEF StepName
  <2>4. \E models \in SUBSET Runner : PullSaves(models)
    BY <1>5, <2>1 DEF PullPresent, PullByHand, DownloadEnds
  <2>5. ~DownloadEnds => ~At("download")
    BY <1>5 DEF PullPresent, PullByHand, At
  <2> QED
    BY <1>2, <2>1, <2>3, <2>4, <2>5
<1>6. CASE EnsureOllama \/ EnsureSaves
  <2>1. At("ensure") \/ At("ensured")
    BY <1>6 DEF EnsureOllama, EnsureSaves
  <2>2. ASSUME NEW has \in BOOLEAN, Loaded' = SetPid(Loaded, has) PROVE Goal
    BY <1>0, <1>6, <2>1, <2>2, PidKeeps, EnsureFiles
  <2> QED
    BY <1>1, <1>6, <2>2, EnsureFiles
<1>7. CASE InitializeEmpty \/ CheckCorpus
  <2>1. at \in Copying
    BY <1>7 DEF InitializeEmpty, CheckCorpus, At, Copying
  <2>2. CASE SeedSaves
    <3>1. Loaded' = Recorded(mine, "seed-corpus") /\ disk' # None
      BY <1>2, <2>1, <2>2, RecordedKeeps, SavedIsLoaded DEF SeedSaves, StepName
    <3>2. \/ At("initialize")
          \/ At("check") /\ (DuckComplete \/ UNCHANGED disk)
      BY <1>7 DEF InitializeEmpty, CheckCorpus
    <3> QED
      BY <1>1, <1>2, <2>1, <3>1, <3>2, RecordedKeeps DEF StepName, At
  <2> QED
    BY <1>1, <1>7, <2>2 DEF InitializeEmpty, CheckCorpus
<1>8. CASE EnableSaves
  <2>1. at \in Copying
    BY <1>8 DEF EnableSaves, At, Copying
  <2>2. Recorded(mine, "enable-service") \in StateFile
    BY <1>2, <2>1, RecordedKeeps DEF StepName
  <2> DEFINE has == asked.mode = "persistent"
  <2>3. has \in BOOLEAN /\ Save([Recorded(mine, "enable-service") EXCEPT !.unit = has])
    BY <1>8 DEF EnableSaves
  <2> HIDE DEF has
  <2>4. [Recorded(mine, "enable-service") EXCEPT !.unit = has] \in StateFile
    BY <2>2, <2>3, EditsTyped
  <2>5. Loaded' = [Recorded(mine, "enable-service") EXCEPT !.unit = has] /\ disk' # None
    BY <2>3, <2>4, SavedIsLoaded
  <2>6. /\ Loaded'.port = Recorded(mine, "enable-service").port
        /\ Loaded'.backup = Recorded(mine, "enable-service").backup
        /\ Loaded'.steps = Recorded(mine, "enable-service").steps
        /\ Loaded'.ollamaPid = Recorded(mine, "enable-service").ollamaPid
        /\ Loaded'.unit = has
    BY <2>2, <2>5 DEF StateFile
  <2> QED
    BY <1>2, <1>8, <2>1, <2>5, <2>6, RecordedKeeps DEF StepName, EnableSaves, At, has
<1>9. CASE Verify
  <2>1. CASE Save(Recorded(Loaded, "verify"))
    <3>1. Loaded' = Recorded(Loaded, "verify") /\ disk' # None
      BY <1>0, <2>1, RecordedKeeps, SavedIsLoaded DEF StepName
    <3> QED
      BY <1>0, <3>1, RecordedKeeps DEF StepName
  <2> QED
    BY <1>1, <1>9, <2>1 DEF Verify
<1>10. CASE Finish
  <2>1. Loaded' = [Loaded EXCEPT !.deployment = "native"] /\ disk' # None
    BY <1>0, <1>10, EditsTyped, SavedIsLoaded DEF Finish
  <2> QED
    BY <1>0, <2>1 DEF StateFile
<1>11. CASE ComposeSaves
  <2>1. /\ Loaded' = [Loaded EXCEPT !.deployment = "container", !.port = DefaultPort]
        /\ disk' # None
    BY <1>0, <1>11, EditsTyped, StateTyped, SavedIsLoaded DEF ComposeSaves
  <2> QED
    BY <1>0, <1>11, <2>1 DEF StateFile, ComposeSaves
<1>12. CASE ComposeEnv
  <2>1. CASE Save([Loaded EXCEPT !.backup = env])
    <3>1. env \in EnvFile \cup {None}
      BY DEF Typed, TypeOK, MachineTypeOK
    <3>2. Loaded' = [Loaded EXCEPT !.backup = env] /\ disk' # None
      BY <1>0, <2>1, <3>1, EditsTyped, SavedIsLoaded
    <3> QED
      BY <1>0, <1>1, <1>12, <3>2 DEF StateFile, ComposeEnv
  <2> QED
    BY <1>1, <1>12, <2>1 DEF ComposeEnv
<1>13. CASE \/ PreflightEarly \/ PreflightRunner \/ PreflightContainer \/ ComposeUp
            \/ WriteEnv \/ PullBegins \/ PullMissing \/ DownloadBegins \/ DownloadFails
            \/ SeedBegins \/ CopyBundled \/ StartEmbed \/ BulkReembed \/ EnableService
            \/ EnableFails
  BY <1>1, <1>13 DEF PreflightEarly, PreflightRunner, PreflightContainer, ComposeUp, WriteEnv,
     PullBegins, PullMissing, DownloadBegins, DownloadFails, SeedBegins, CopyBundled, StartEmbed,
     BulkReembed, EnableService, EnableFails, machineVars
<1>14. CASE IngestPacks
  <2>1. UNCHANGED disk \/ Save(Loaded)
    BY <1>14 DEF IngestPacks
  <2>2. Save(Loaded) => Loaded' = Loaded /\ disk' # None
    BY <1>0, SavedIsLoaded
  <2> QED
    BY <1>1, <2>1, <2>2
<1> QED
  BY <1>3, <1>4, <1>5, <1>6, <1>7, <1>8, <1>9, <1>10, <1>11, <1>12, <1>13, <1>14
     DEF SetupWork

-----------------------------------------------------------------------------
(* The rest of the invariant. *)

\* A command that is not a setup under way, or a setup that has just begun.
LEMMA FarFromAgreed ==
    ASSUME at' \in UninstallStep \cup {"idle", "preflight", "runner", "write-env", "compose",
                                     "compose-up", "composed", "compose-env"}
    PROVE  Agreed'
  BY DEF Agreed, EnvWritten, PortSaved, Seeded, UninstallStep

\* The last steps of a setup keep what is recorded.
LEMMA SavedSteps ==
    ASSUME Typed, Copied, EnableSaves \/ Verify, "seed-corpus" \in Loaded.steps
    PROVE  "seed-corpus" \in Loaded'.steps
<1>0. Loaded \in StateFile
  BY LoadedTyped DEF Typed, TypeOK
<1>1. CASE EnableSaves
  <2>1. mine \in StateFile /\ mine.steps = Loaded.steps
    BY <1>1, MachineAssumption DEF EnableSaves, At, Typed, Control, Copying, Copied
  <2>2. Recorded(mine, "enable-service") \in StateFile
    BY <2>1, RecordedKeeps DEF StepName
  <2> DEFINE has == asked.mode = "persistent"
  <2>3. has \in BOOLEAN /\ Save([Recorded(mine, "enable-service") EXCEPT !.unit = has])
    BY <1>1 DEF EnableSaves
  <2> HIDE DEF has
  <2>4. Loaded' = [Recorded(mine, "enable-service") EXCEPT !.unit = has]
    BY <2>2, <2>3, EditsTyped, SavedIsLoaded
  <2>5. Loaded'.steps = Recorded(mine, "enable-service").steps
    BY <2>2, <2>4 DEF StateFile
  <2> QED
    BY <2>1, <2>5, RecordedKeeps DEF StepName
<1>2. CASE Verify
  <2>1. UNCHANGED disk \/ Save(Recorded(Loaded, "verify"))
    BY <1>2 DEF Verify
  <2>2. Save(Recorded(Loaded, "verify")) => Loaded'.steps = Loaded.steps \cup {"verify"}
    BY <1>0, RecordedKeeps, SavedIsLoaded DEF StepName
  <2>3. UNCHANGED disk => Loaded' = Loaded
    BY DEF Loaded
  <2> QED
    BY <2>1, <2>2, <2>3
<1> QED
  BY <1>1, <1>2

LEMMA AgreedKept == ASSUME Typed, Copied, Agreed, [Next]_vars PROVE Agreed'
<1>1. CASE SetupWork
  <2>0. asked \in Request \cup {None} /\ Loaded \in StateFile
    BY LoadedTyped DEF Typed, TypeOK, SetupTypeOK
  <2>1. Loaded'.port # Loaded.port => At("env-replaced") \/ At("composed")
    BY <1>1, SetupSaves
  <2>2. At("enabled") \/ Loaded'.unit = Loaded.unit
    BY <1>1, SetupSaves, Zenon
  <2> USE DEF GoTo, Keep, Exit, At, Agreed, EnvWritten, PortSaved, Seeded
  <2>3. CASE \/ PreflightEarly \/ PreflightRunner \/ PreflightContainer \/ ComposeUp
             \/ ComposeSaves \/ ComposeEnv
    BY <2>3, FarFromAgreed DEF PreflightEarly, PreflightRunner, PreflightContainer, ComposeUp,
       ComposeSaves, ComposeEnv, setupVars
  <2>4. CASE WriteEnv
    BY <2>4 DEF WriteEnv
  <2>5. CASE WriteEnvSaves
    <3>1. [Recorded(mine, "write-env") EXCEPT !.port = asked.port] \in StateFile
      <4>1. asked.port \in Port /\ mine \in StateFile
        BY <2>5, SetupAssumption DEF WriteEnvSaves, Typed, Control, Copying, SetupOnly, SetupStep, SetupRequest
      <4> QED
        BY <4>1, RecordedKeeps, EditsTyped DEF StepName
    <3>2. Loaded'.port = asked.port
      <4>1. Loaded' = [Recorded(mine, "write-env") EXCEPT !.port = asked.port]
        BY <2>5, <3>1, SavedIsLoaded DEF WriteEnvSaves
      <4> QED
        BY <3>1, <4>1 DEF StateFile
    <3> QED
      BY <2>5, <3>2 DEF WriteEnvSaves
  <2>6. CASE \/ WriteUpstream \/ PullBegins \/ PullPresent \/ PullByHand \/ PullMissing
             \/ EnsureOllama \/ EnsureSaves \/ DownloadBegins \/ DownloadEnds \/ DownloadFails
    BY <2>1, <2>2, <2>6 DEF WriteUpstream, PullBegins, PullPresent, PullByHand, PullMissing,
       EnsureOllama, EnsureSaves, DownloadBegins, DownloadEnds, DownloadFails, machineVars, setupVars
  <2>7. CASE SeedBegins \/ CopyBundled
    BY <2>1, <2>2, <2>7 DEF SeedBegins, CopyBundled, Completed, Loaded, machineVars
  <2>8. CASE InitializeEmpty \/ CheckCorpus
    <3>0. asked' = asked \/ asked' = None
      BY <2>8 DEF InitializeEmpty, CheckCorpus, setupVars
    <3>1. CASE SeedSaves /\ at' = "embed"
      <4>0. at \in {"initialize", "check"} /\ UNCHANGED <<env, duck, ladybug, unit>>
        BY <2>8, <3>1 DEF InitializeEmpty, CheckCorpus, setupVars
      <4>3. duck # "absent" /\ ladybug # "absent"
        <5>1. CASE CheckCorpus
          <6>1. asked # None
            BY <5>1, SetupAssumption DEF CheckCorpus, Typed, Control, SetupOnly, SetupStep
          <6> QED
            BY <3>1, <5>1, <6>1 DEF CheckCorpus, DuckComplete
        <5>2. CASE InitializeEmpty
          BY <3>1, <5>2 DEF InitializeEmpty, setupVars
        <5> QED
          BY <2>8, <5>1, <5>2
      <4>1. mine \in StateFile
        BY <2>8 DEF InitializeEmpty, CheckCorpus, Typed, Control, Copying
      <4>2. "seed-corpus" \in Loaded'.steps
        BY <3>1, <4>1, RecordedKeeps, SavedIsLoaded DEF SeedSaves, StepName
      <4> QED
        BY <2>1, <3>0, <3>1, <4>0, <4>2, <4>3
    <3>2. CASE ~(SeedSaves /\ at' = "embed")
      <4>1. asked' = None \/ (UNCHANGED <<setupVars, env, disk>> /\ At("initialize"))
        BY <2>8, <3>2 DEF InitializeEmpty, CheckCorpus, setupVars
      <4>2. CASE UNCHANGED <<setupVars, env, disk>> /\ At("initialize")
        BY <4>2 DEF setupVars, Loaded
      <4> QED
        BY <4>1, <4>2
    <3> QED
      BY <3>1, <3>2
  <2>9. CASE \/ StartEmbed \/ IngestPacks \/ BulkReembed \/ EnableService \/ EnableFails
    <3>1. Loaded'.steps = Loaded.steps
      <4>1. CASE Save(Loaded)
        BY <2>0, <4>1, SavedIsLoaded
      <4>2. CASE UNCHANGED disk
        BY <4>2 DEF Loaded
      <4> QED
        BY <2>9, <4>1, <4>2 DEF StartEmbed, IngestPacks, BulkReembed, EnableService, EnableFails
    <3>2. CASE StartEmbed \/ IngestPacks \/ BulkReembed
      BY <2>0, <2>1, <3>1, <3>2 DEF StartEmbed, IngestPacks, BulkReembed
    <3>3. CASE EnableService \/ EnableFails
      BY <2>0, <2>1, <3>1, <3>3 DEF EnableService, EnableFails, WriteUnits
    <3> QED
      BY <2>9, <3>2, <3>3
  <2>10. CASE EnableSaves
    <3>1. asked.mode = "persistent" => Loaded'.unit
      <4>1. CASE asked.mode = "persistent"
        <5>1. Loaded'.unit = (asked.mode = "persistent")
          <6> DEFINE has == asked.mode = "persistent"
          <6>1. Recorded(mine, "enable-service") \in StateFile
            BY <2>10, RecordedKeeps DEF EnableSaves, Typed, Control, Copying, StepName
          <6>2. has \in BOOLEAN /\ Save([Recorded(mine, "enable-service") EXCEPT !.unit = has])
            BY <2>10 DEF EnableSaves
          <6> HIDE DEF has
          <6>3. Loaded' = [Recorded(mine, "enable-service") EXCEPT !.unit = has]
            BY <6>1, <6>2, EditsTyped, SavedIsLoaded
          <6>4. Loaded'.unit = has
            BY <6>1, <6>3 DEF StateFile
          <6> QED
            BY <6>4 DEF has
        <5> QED
          BY <4>1, <5>1
      <4> QED
        BY <4>1
    <3> QED
      BY <2>1, <2>10, <3>1, SavedSteps DEF EnableSaves
  <2>11. CASE Verify
    BY <2>1, <2>2, <2>11, SavedSteps DEF Verify, Passed, SkillCountMet
  <2>12. CASE Finish
    BY <2>12, FarFromAgreed DEF Finish
  <2> QED
    BY <1>1, <2>3, <2>4, <2>5, <2>6, <2>7, <2>8, <2>9, <2>10, <2>11, <2>12 DEF SetupWork
<1>2. CASE SetupStart \/ OneShot \/ UninstallStart \/ UninstallWork \/ Kill
  <2>1. at' \in UninstallStep \cup {"idle", "preflight"}
    BY <1>2 DEF SetupStart, SetupBegins, SetupDeclined, SetupRefused, OneShot, ServerStart,
       ServerStop, ForceEnv, ResetStep, Update, Begin, UninstallStart, UninstallBegins,
       UninstallWork, RemoveContainer, RemoveEnv, RemoveData, RemoveServer, RemoveUnit,
       StopDaemon, RemoveModels, RemoveState, Then, Kill, Exit, UninstallStep
  <2> QED
    BY <2>1, FarFromAgreed
<1>3. CASE Outside /\ UNCHANGED setupVars
  <2>1. UNCHANGED <<disk, env, unit>>
    BY <1>3 DEF Outside, LifespanOpens, LifespanDone, ServerDies, DaemonChanges, Restart
  <2>2. /\ ladybug = "full" => ladybug' = "full"
        /\ ladybug # "absent" => ladybug' # "absent"
        /\ duck # "absent" => duck' # "absent"
    BY <1>3 DEF Outside, LifespanOpens, LifespanDone, ServerDies, DaemonChanges, Restart
  <2> QED
    BY <1>3, <2>1, <2>2 DEF Agreed, Loaded, setupVars
<1>4. CASE UNCHANGED vars
  BY <1>4 DEF Agreed, Loaded, vars, machineVars, setupVars
<1>5. CASE PackCommand
  BY <1>5, PackCommandLeaves DEF Begin, Agreed
<1> QED
  BY <1>1, <1>2, <1>3, <1>4, <1>5, Steps

LEMMA UnitRemovedKept == ASSUME Typed, UnitRemoved, [Next]_vars PROVE UnitRemoved'
<1> USE DEF UnitRemoved
<1>1. CASE SetupStart \/ SetupWork
  <2>1. at' \in SetupStep \cup {"idle"}
    BY <1>1, SetupKeepsControl
  <2> QED
    BY <2>1 DEF SetupStep
<1>2. CASE OneShot \/ Kill \/ UninstallStart
  BY <1>2 DEF OneShot, ServerStart, ServerStop, ForceEnv, ResetStep, Update, Begin, Kill, Exit,
              UninstallStart, UninstallBegins
<1>3. CASE UninstallWork
  BY <1>3 DEF UninstallWork, RemoveContainer, RemoveEnv, RemoveData, RemoveServer, RemoveUnit,
              StopDaemon, RemoveModels, RemoveState, Then, Exit, At
<1>4. CASE Outside /\ UNCHANGED <<setupVars, uninstallVars>>
  BY <1>4 DEF Outside, LifespanOpens, LifespanDone, ServerDies, DaemonChanges, Restart, setupVars,
              uninstallVars
<1>5. CASE UNCHANGED vars
  BY <1>5 DEF vars, machineVars, setupVars, uninstallVars
<1>6. CASE PackCommand
  BY <1>6, PackCommandLeaves DEF Begin
<1> QED
  BY <1>1, <1>2, <1>3, <1>4, <1>5, <1>6, Steps

LEMMA DaemonStoppedKept == ASSUME Typed, DaemonStopped, [Next]_vars PROVE DaemonStopped'
<1> USE DEF DaemonStopped
<1>1. CASE SetupStart \/ SetupWork
  <2>1. at' \in SetupStep \cup {"idle"}
    BY <1>1, SetupKeepsControl
  <2> QED
    BY <2>1 DEF SetupStep
<1>2. CASE OneShot \/ Kill \/ UninstallStart
  BY <1>2 DEF OneShot, ServerStart, ServerStop, ForceEnv, ResetStep, Update, Begin, Kill, Exit,
              UninstallStart, UninstallBegins
<1>3. CASE UninstallWork
  BY <1>3 DEF UninstallWork, RemoveContainer, RemoveEnv, RemoveData, RemoveServer, RemoveUnit,
              StopDaemon, RemoveModels, RemoveState, Then, Exit, At
<1>4. CASE Outside /\ UNCHANGED <<setupVars, uninstallVars>>
  <2>1. UNCHANGED daemon \/ daemon' = None \/ daemon'.by # "pull"
    BY <1>4 DEF Outside, LifespanOpens, LifespanDone, ServerDies, DaemonChanges, Restart
  <2> QED
    BY <1>4, <2>1 DEF setupVars, uninstallVars
<1>5. CASE UNCHANGED vars
  BY <1>5 DEF vars, machineVars, setupVars, uninstallVars
<1>6. CASE PackCommand
  BY <1>6, PackCommandLeaves DEF Begin
<1> QED
  BY <1>1, <1>2, <1>3, <1>4, <1>5, <1>6, Steps

\* The user's .env is where it was, or put back, or the backup is of it.
LEMMA BackedUpKept == ASSUME Typed, Copied, BackedUp, [Next]_vars PROVE BackedUp'
<1> USE DEF BackedUp
<1>0. Loaded \in StateFile /\ env \in EnvFile \cup {None}
  BY LoadedTyped DEF Typed, TypeOK, MachineTypeOK
<1>1. CASE SetupWork /\ UNCHANGED hadEnv
  <2>1. \/ Loaded'.backup = Loaded.backup
        \/ Loaded.backup = None /\ Loaded'.backup = env /\ UNCHANGED env
    BY <1>1, SetupSaves
  <2>2. env' = env \/ env' # UserEnv
    <3>1. CASE WriteEnv
      BY <3>1 DEF WriteEnv, PresetEnv, UserEnv
    <3>2. CASE ComposeEnv
      BY <3>2 DEF ComposeEnv, UserEnv
    <3>3. CASE ~(WriteEnv \/ ComposeEnv)
      BY <1>1, <3>3 DEF SetupWork, PreflightEarly, PreflightRunner, PreflightContainer, ComposeUp,
         ComposeSaves, WriteEnvSaves, WriteUpstream, PullBegins, PullPresent, PullByHand,
         PullMissing, EnsureOllama, EnsureSaves, DownloadBegins, DownloadEnds, DownloadFails, SeedBegins,
         CopyBundled, InitializeEmpty, CheckCorpus, StartEmbed, IngestPacks, BulkReembed, EnableService,
         EnableFails, EnableSaves, Verify, Finish, machineVars
    <3> QED
      BY <3>1, <3>2, <3>3
  <2> QED
    BY <1>1, <2>1, <2>2
<1>2. ASSUME NEW st \in StateFile, Save(st), st.backup = Loaded.backup,
             env' = env \/ env' # UserEnv, UNCHANGED hadEnv
      PROVE  BackedUp'
  BY <1>2, SavedIsLoaded
<1>3. ASSUME UNCHANGED <<disk, env, hadEnv>> PROVE BackedUp'
  BY <1>3 DEF Loaded
<1>4. CASE SetupStart /\ UNCHANGED hadEnv
  <2>1. Recorded(Loaded, "detect") \in StateFile /\ Recorded(Loaded, "detect").backup = Loaded.backup
    BY <1>0, RecordedKeeps DEF StepName
  <2> QED
    BY <1>2, <1>3, <1>4, <2>1 DEF SetupStart, SetupBegins, SetupDeclined, SetupRefused, machineVars
<1>5. CASE OneShot /\ UNCHANGED hadEnv
  <2>1. ASSUME NEW r \in Request, ForceEnv(r) PROVE BackedUp'
    <3>1. env' # UserEnv
      BY <2>1 DEF ForceEnv, PresetEnv, UserEnv
    <3> QED
      BY <3>1
  <2>2. ASSUME NEW step \in StepName, ResetStep(step) PROVE BackedUp'
    <3>1. Loaded'.backup = Loaded.backup
      BY <2>2, ResetKeeps
    <3> QED
      BY <1>5, <2>2, <3>1 DEF ResetStep
  <2>3. CASE Update
    BY <1>0, <1>2, <1>5, <2>3 DEF Update
  <2>4. CASE ServerStart \/ ServerStop
    BY <1>3, <1>5, <2>4 DEF ServerStart, ServerStop
  <2> QED
    BY <1>5, <2>1, <2>2, <2>3, <2>4 DEF OneShot
<1>6. CASE UninstallStart /\ UNCHANGED hadEnv
  BY <1>3, <1>6 DEF UninstallStart, UninstallBegins, machineVars
<1>7. CASE UninstallWork /\ UNCHANGED hadEnv
  <2>1. CASE RemoveEnv
    <3>1. mine.backup = Loaded.backup
      BY <2>1, MachineAssumption DEF RemoveEnv, At, Typed, Control, UninstallStep, Copied
    <3>2. UNCHANGED disk
      BY <2>1 DEF RemoveEnv
    <3> QED
      BY <1>7, <2>1, <3>1, <3>2 DEF RemoveEnv, Loaded
  <2>2. CASE RemoveState
    <3>1. env' = None \/ UNCHANGED <<disk, env>>
      BY <2>2 DEF RemoveState
    <3>2. None # UserEnv
      BY MachineAssumption, EnvTyped
    <3> QED
      BY <1>3, <1>7, <3>1, <3>2
  <2>3. CASE ~(RemoveEnv \/ RemoveState)
    BY <1>3, <1>7, <2>3 DEF UninstallWork, RemoveContainer, RemoveData, RemoveServer, RemoveUnit,
       StopDaemon, RemoveModels
  <2> QED
    BY <2>1, <2>2, <2>3
<1>8. CASE (Outside \/ Kill) /\ UNCHANGED hadEnv
  BY <1>3, <1>8 DEF Outside, LifespanOpens, LifespanDone, ServerDies, DaemonChanges, Restart, Kill,
                    machineVars
<1>9. CASE UNCHANGED vars
  BY <1>3, <1>9 DEF vars, machineVars
<1>10. CASE PackCommand /\ UNCHANGED hadEnv
  BY <1>3, <1>10, PackCommandLeaves
<1> QED
  BY <1>1, <1>4, <1>5, <1>6, <1>7, <1>8, <1>9, <1>10, Steps DEF Kill

LEMMA InitIInv == Init => IInv
<1> SUFFICES ASSUME Init PROVE IInv
  OBVIOUS
<1>1. at = "idle" /\ mine = None /\ disk = None
  BY DEF Init, SetupInit
<1>2. Copied /\ Agreed /\ UnitRemoved /\ DaemonStopped
  BY <1>1 DEF Copied, Agreed, EnvWritten, PortSaved, Seeded, UnitRemoved, DaemonStopped
<1>3. BackedUp
  BY <1>1 DEF BackedUp, Loaded, EmptyState
<1> QED
  BY <1>2, <1>3, InitTyped DEF IInv

\* The inductive invariant.
THEOREM HostInvariant == Spec => []IInv
<1>1. IInv /\ [Next]_vars => IInv'
  BY TypedKept, CopiedKept, AgreedKept, BackedUpKept, UnitRemovedKept, DaemonStoppedKept
  DEF IInv
<1> QED
  BY <1>1, InitIInv, PTL DEF Spec

\* Theorem: whatever was done to the machine before, a setup that has verified
\* its installation leaves .env, the state file and the unit as it was asked,
\* and skills in the graph (simple_setup.py, verify.py).
THEOREM MachineIsSound == Spec => []MachineSound
<1>1. IInv => TypeOK
  BY DEF IInv, Typed
<1>2. IInv => SetupAgrees
  <2>1. IInv /\ At("finish") => asked # None
    BY SetupAssumption DEF IInv, Typed, Control, SetupOnly, SetupStep, At
  <2> QED
    BY <2>1 DEF IInv, Agreed, SetupAgrees, At, EnvWritten, PortSaved, Seeded
<1> QED
  BY <1>1, <1>2, HostInvariant, PTL DEF MachineSound
-----------------------------------------------------------------------------
(* What a step may not do. *)

\* UserEnvSafe, of a step.
LEMMA EnvStep ==
    ASSUME Typed, Copied, BackedUp, [Next]_vars, UserEnvSafe, ~UserEnvSafe'
    PROVE  \/ \E r \in Request : ForceEnv(r)
           \/ At("un-env") /\ mine.backup = None
           \/ At("un-state") /\ "state" \in removing
<1>0. /\ Loaded \in StateFile /\ None # UserEnv
      /\ hadEnv' = hadEnv /\ hadEnv
      /\ env = UserEnv \/ (disk # None /\ Loaded.backup = UserEnv)
      /\ disk' # None => disk' = Loaded'
  <2>1. UNCHANGED hadEnv
    BY Steps DEF Kill, vars
  <2>2. None # UserEnv
    BY MachineAssumption, EnvTyped
  <2> QED
    BY <2>1, <2>2, LoadedTyped DEF Typed, TypeOK, UserEnvSafe, Loaded
<1>1. ~UserEnvSafe' => ~(env' = UserEnv) /\ ~(disk' # None /\ Loaded'.backup = UserEnv)
  BY <1>0 DEF UserEnvSafe
<1>2. ASSUME UNCHANGED <<disk, env>> PROVE FALSE
  BY <1>0, <1>1, <1>2 DEF Loaded
<1>3. CASE SetupWork
  <2>1. \/ Loaded'.backup = Loaded.backup
        \/ Loaded.backup = None /\ Loaded'.backup = env /\ UNCHANGED env
    BY <1>3, SetupSaves
  <2>2. disk # None => disk' # None
    BY <1>3, SetupSaves
  <2>3. CASE WriteEnv
    BY <1>0, <1>1, <2>1, <2>2, <2>3 DEF WriteEnv, UserEnv
  <2>4. CASE ComposeEnv
    <3>1. CASE UNCHANGED env
      BY <1>0, <1>1, <2>1, <2>2, <3>1
    <3>2. CASE ~UNCHANGED env
      <4>1. UNCHANGED disk /\ (env = None \/ Loaded.backup # None)
        BY <2>4, <3>2 DEF ComposeEnv
      <4>2. Loaded.backup = UserEnv /\ disk # None
        BY <1>0, <4>1, MachineAssumption DEF BackedUp, Loaded, EmptyState
      <4> QED
        BY <1>1, <2>2, <4>1, <4>2 DEF Loaded
    <3> QED
      BY <3>1, <3>2
  <2>5. CASE ~(WriteEnv \/ ComposeEnv)
    <3>1. UNCHANGED env
      BY <1>3, <2>5 DEF SetupWork, PreflightEarly, PreflightRunner, PreflightContainer, ComposeUp,
         ComposeSaves, WriteEnvSaves, WriteUpstream, PullBegins, PullPresent, PullByHand,
         PullMissing, EnsureOllama, EnsureSaves, DownloadBegins, DownloadEnds, DownloadFails, SeedBegins,
         CopyBundled, InitializeEmpty, CheckCorpus, StartEmbed, IngestPacks, BulkReembed, EnableService,
         EnableFails, EnableSaves, Verify, Finish, machineVars
    <3> QED
      BY <1>0, <1>1, <2>1, <2>2, <3>1
  <2> QED
    BY <2>3, <2>4, <2>5
<1>4. ASSUME UNCHANGED env, disk' \in StateFile, disk'.backup = Loaded.backup PROVE FALSE
  BY <1>0, <1>1, <1>4, MachineAssumption DEF Loaded, EmptyState
<1>5. CASE SetupStart
  <2>1. /\ Recorded(Loaded, "detect") \in StateFile
        /\ Recorded(Loaded, "detect").backup = Loaded.backup
    BY <1>0, RecordedKeeps DEF StepName
  <2> QED
    BY <1>2, <1>4, <1>5, <2>1 DEF SetupStart, SetupBegins, SetupDeclined, SetupRefused, Save,
                                  machineVars
<1>6. CASE OneShot
  <2>1. ASSUME NEW step \in StepName, ResetStep(step) PROVE FALSE
    BY <1>4, <2>1, ResetKeeps DEF ResetStep
  <2>2. CASE Update
    BY <1>0, <1>4, <2>2 DEF Update, Save
  <2>3. CASE ServerStart \/ ServerStop
    BY <1>2, <2>3 DEF ServerStart, ServerStop
  <2> QED
    BY <1>6, <2>1, <2>2, <2>3 DEF OneShot
<1>7. CASE RemoveEnv
  <2>1. mine.backup = Loaded.backup /\ At("un-env") /\ UNCHANGED disk
    BY <1>7, MachineAssumption DEF RemoveEnv, At, Typed, Control, UninstallStep, Copied
  <2> QED
    BY <1>0, <1>1, <1>7, <2>1 DEF RemoveEnv, BackedUp, Loaded
<1>8. CASE RemoveState
  BY <1>2, <1>8 DEF RemoveState
<1>9. CASE UninstallStart \/ (UninstallWork /\ ~RemoveEnv /\ ~RemoveState)
  BY <1>2, <1>9 DEF UninstallStart, UninstallBegins, machineVars, UninstallWork, RemoveContainer,
     RemoveData, RemoveServer, RemoveUnit, StopDaemon, RemoveModels
<1>10. CASE Outside \/ Kill \/ PackCommand \/ UNCHANGED vars
  BY <1>2, <1>10, PackCommandLeaves DEF Outside, LifespanOpens, LifespanDone, ServerDies, DaemonChanges, Restart, Kill,
                     machineVars, vars
<1> QED
  BY <1>3, <1>5, <1>6, <1>7, <1>8, <1>9, <1>10, Steps

\* Theorem: the user's .env is lost only by the three steps named, for any
\* history of setups, uninstalls and kills (write_env.py, uninstall.py).
THEOREM UserEnvLostOnlyThere == Spec => UserEnvLost
<1>1. IInv /\ [Next]_vars =>
        (UserEnvSafe /\ ~UserEnvSafe' =>
           \/ \E r \in Request : ForceEnv(r)
           \/ At("un-env") /\ mine.backup = None
           \/ At("un-state") /\ "state" \in removing)
  BY EnvStep DEF IInv
<1> QED
  BY <1>1, HostInvariant, PTL DEF Spec, UserEnvLost

\* SeedStuck, of a step.
LEMMA StuckStep ==
    ASSUME Typed, Copied, Agreed, [Next]_vars, SeedStuck
    PROVE  SeedStuck' \/ At("un-data") \/ CorpusBootstrap \/ FilledAlone
<1>0. /\ Loaded \in StateFile /\ duck = "empty" /\ ladybug # "absent"
      /\ "seed-corpus" \notin Loaded.steps /\ at # "initialize"
      /\ at \in Seeded => asked = None
  BY LoadedTyped DEF Typed, TypeOK, SeedStuck, Completed, Agreed, At
<1> USE <1>0
<1>1. ASSUME duck' = duck, ladybug' = ladybug \/ ladybug' # "absent",
             "seed-corpus" \notin Loaded'.steps, at' # "initialize"
      PROVE  SeedStuck'
  BY <1>1 DEF SeedStuck, Completed, At
<1>2. ASSUME UNCHANGED disk PROVE "seed-corpus" \notin Loaded'.steps
  BY <1>2 DEF Loaded
<1>3. CASE SetupWork
  <2>1. "seed-corpus" \notin Loaded'.steps
    BY <1>3, SetupSaves DEF DuckComplete, At
  <2>2. at' # "initialize"
    <3>1. CASE SeedBegins \/ CopyBundled \/ CheckCorpus \/ InitializeEmpty
      BY <3>1 DEF SeedBegins, CopyBundled, CheckCorpus, InitializeEmpty, DuckComplete, Completed,
                  GoTo, Keep, Exit, At
    <3>2. CASE ~(SeedBegins \/ CopyBundled \/ CheckCorpus \/ InitializeEmpty)
      BY <1>3, <3>2 DEF SetupWork, PreflightEarly, PreflightRunner, PreflightContainer, ComposeUp,
         ComposeSaves, ComposeEnv, WriteEnv, WriteEnvSaves, WriteUpstream, PullBegins, PullPresent,
         PullByHand, PullMissing, EnsureOllama, EnsureSaves, DownloadBegins, DownloadEnds,
         DownloadFails, StartEmbed, IngestPacks, BulkReembed, EnableService, EnableFails,
         EnableSaves, Verify, Finish, GoTo, Keep, Exit, setupVars
    <3> QED
      BY <3>1, <3>2
  <2>3. CASE BulkReembed
    <3>1. asked = None /\ at = "reembed"
      BY <2>3 DEF BulkReembed, At, Seeded
    <3>2. CASE duck' = duck
      BY <1>1, <2>1, <2>2, <2>3, <3>2 DEF BulkReembed
    <3>3. CASE duck' # duck
      BY <2>3, <3>1, <3>3 DEF BulkReembed, FilledAlone, At
    <3> QED
      BY <3>2, <3>3
  <2>4. CASE ~BulkReembed
    <3>1. duck' = duck /\ (ladybug' = ladybug \/ ladybug' # "absent")
      BY <1>3, <2>4 DEF SetupWork, PreflightEarly, PreflightRunner, PreflightContainer, ComposeUp,
         ComposeSaves, ComposeEnv, WriteEnv, WriteEnvSaves, WriteUpstream, PullBegins, PullPresent,
         PullByHand, PullMissing, EnsureOllama, EnsureSaves, DownloadBegins, DownloadEnds,
         DownloadFails, SeedBegins, CopyBundled, InitializeEmpty, CheckCorpus, StartEmbed,
         IngestPacks, EnableService, EnableFails, EnableSaves, Verify, Finish, machineVars, At
    <3> QED
      BY <1>1, <2>1, <2>2, <3>1
  <2> QED
    BY <2>3, <2>4
<1>4. CASE SetupStart
  <2>1. CASE Save(Recorded(Loaded, "detect"))
    <3>1. Loaded'.steps = Loaded.steps \cup {"detect"}
      BY <2>1, RecordedKeeps, SavedIsLoaded DEF StepName
    <3> QED
      BY <1>1, <1>4, <3>1 DEF SetupStart, SetupBegins, SetupDeclined, SetupRefused, Begin, machineVars
  <2> QED
    BY <1>1, <1>2, <1>4, <2>1 DEF SetupStart, SetupBegins, SetupDeclined, SetupRefused, Begin,
                                  machineVars
<1>5. CASE OneShot
  <2>1. "seed-corpus" \notin Loaded'.steps
    <3>1. ASSUME NEW r \in Request, ForceEnv(r) PROVE "seed-corpus" \notin Loaded'.steps
      <4>1. r.port \in Port
        BY SetupAssumption DEF SetupRequest
      <4>2. [Recorded(Loaded, "write-env") EXCEPT !.port = r.port] \in StateFile
        BY <4>1, RecordedKeeps, EditsTyped DEF StepName
      <4>3. Loaded' = [Recorded(Loaded, "write-env") EXCEPT !.port = r.port]
        BY <3>1, <4>2, SavedIsLoaded DEF ForceEnv
      <4>4. Recorded(Loaded, "write-env") \in StateFile
        BY RecordedKeeps DEF StepName
      <4>5. Loaded'.steps = Recorded(Loaded, "write-env").steps
        BY <4>3, <4>4 DEF StateFile
      <4> QED
        BY <4>5, RecordedKeeps DEF StepName
    <3>2. ASSUME NEW step \in StepName, ResetStep(step) PROVE "seed-corpus" \notin Loaded'.steps
      BY <3>2, ResetKeeps
    <3>3. CASE Update
      BY <3>3, SavedIsLoaded DEF Update
    <3>4. CASE ServerStart \/ ServerStop
      BY <1>2, <3>4 DEF ServerStart, ServerStop
    <3> QED
      BY <1>5, <3>1, <3>2, <3>3, <3>4 DEF OneShot
  <2>2. at' = "idle" /\ UNCHANGED <<duck, ladybug>>
    BY <1>5 DEF OneShot, ServerStart, ServerStop, ForceEnv, ResetStep, Update, Begin
  <2> QED
    BY <1>1, <2>1, <2>2
<1>6. CASE UninstallStart \/ UninstallWork
  <2>1. CASE RemoveData
    BY <2>1 DEF RemoveData
  <2>2. CASE ~RemoveData
    <3>1. "seed-corpus" \notin Loaded'.steps
      <4>1. UNCHANGED disk \/ disk' = None
        BY <1>6, <2>2 DEF UninstallStart, UninstallBegins, machineVars, UninstallWork,
           RemoveContainer, RemoveEnv, RemoveServer, RemoveUnit, StopDaemon, RemoveModels,
           RemoveState
      <4> QED
        BY <1>2, <4>1 DEF Loaded, EmptyState
    <3>2. /\ UNCHANGED <<duck, ladybug>>
          /\ at' # "initialize"
      BY <1>6, <2>2 DEF UninstallStart, UninstallBegins, machineVars, UninstallWork,
         RemoveContainer, RemoveEnv, RemoveServer, RemoveUnit, StopDaemon, RemoveModels,
         RemoveState, Then, Exit
    <3> QED
      BY <1>1, <3>1, <3>2
  <2> QED
    BY <2>1, <2>2
<1>7. CASE Outside /\ UNCHANGED setupVars
  BY <1>1, <1>2, <1>7 DEF Outside, LifespanOpens, LifespanDone, ServerDies, DaemonChanges, Restart,
                          setupVars
<1>8. CASE Kill \/ UNCHANGED vars
  BY <1>1, <1>2, <1>8 DEF Kill, Exit, machineVars, setupVars, vars
<1>9. CASE PackCommand
  <2>1. CASE PacksAlone
    <3>1. UNCHANGED <<disk, duck, ladybug>> /\ at' # "initialize"
      BY <1>9, <2>1, PackCommandLeaves DEF Begin
    <3> QED
      BY <1>1, <1>2, <3>1
  <2> QED
    BY <1>9, <2>1 DEF PackCommand
<1> QED
  BY <1>3, <1>4, <1>5, <1>6, <1>7, <1>8, <1>9, Steps

\* ModelStuck, of a step.
LEMMA ModelStep ==
    ASSUME Typed, [Next]_vars, ModelStuck
    PROVE  ModelStuck' \/ At("un-data") \/ At("un-models")
<1>0. /\ model \in [Runner -> {"absent", "partial", "whole"}]
      /\ model["llama-server"] = "partial" /\ ~(at = "download" /\ asked.runner = "llama-server")
  BY DEF Typed, TypeOK, MachineTypeOK, ModelStuck, At
<1> USE <1>0
<1>1. ASSUME model'["llama-server"] = "partial", at' # "download" \/ UNCHANGED <<at, asked>>
      PROVE  ModelStuck'
  BY <1>1 DEF ModelStuck, At
<1>2. CASE SetupWork
  <2>1. CASE PullMissing
    BY <2>1 DEF PullMissing, Present, Keep, ModelStuck, At, machineVars
  <2>2. CASE EnsureOllama \/ EnsureSaves
    <3>1. UNCHANGED model
      BY <2>2 DEF EnsureOllama, EnsureSaves
    <3>2. CASE at' = "download" /\ UNCHANGED asked
      <4>1. asked.runner = "ollama"
        BY <2>2 DEF EnsureOllama, EnsureSaves, At, Typed, Control
      <4> QED
        BY <3>1, <3>2, <4>1 DEF ModelStuck, At
    <3>3. CASE at' # "download"
      BY <1>1, <3>1, <3>3
    <3>4. at' # "download" \/ UNCHANGED asked
      BY <2>2 DEF EnsureOllama, EnsureSaves, Keep, Exit
    <3> QED
      BY <3>2, <3>3, <3>4
  <2>3. CASE DownloadBegins \/ DownloadEnds \/ DownloadFails
    <3>1. asked.runner # "llama-server"
      BY <2>3 DEF DownloadBegins, DownloadEnds, DownloadFails, At
    <3>2. model'["llama-server"] = "partial"
      BY <2>3, <3>1 DEF DownloadBegins, DownloadEnds, DownloadFails, Runner
    <3>3. at' # "download"
      BY <2>3, <3>1 DEF DownloadBegins, DownloadEnds, DownloadFails, Exit, GoTo
    <3> QED
      BY <1>1, <3>2, <3>3
  <2>4. CASE ~(PullMissing \/ EnsureOllama \/ EnsureSaves \/ DownloadBegins \/ DownloadEnds
               \/ DownloadFails)
    <3>1. UNCHANGED model
      BY <1>2, <2>4 DEF SetupWork, PreflightEarly, PreflightRunner, PreflightContainer, ComposeUp,
         ComposeSaves, ComposeEnv, WriteEnv, WriteEnvSaves, WriteUpstream, PullBegins, PullPresent,
         PullByHand, SeedBegins, CopyBundled, InitializeEmpty, CheckCorpus, StartEmbed,
         IngestPacks, BulkReembed, EnableService, EnableFails, EnableSaves, Verify, Finish,
         machineVars
    <3>2. at' # "download"
      BY <1>2, <2>4 DEF SetupWork, PreflightEarly, PreflightRunner, PreflightContainer, ComposeUp,
         ComposeSaves, ComposeEnv, WriteEnv, WriteEnvSaves, WriteUpstream, PullBegins, PullPresent,
         PullByHand, SeedBegins, CopyBundled, InitializeEmpty, CheckCorpus, StartEmbed,
         IngestPacks, BulkReembed, EnableService, EnableFails, EnableSaves, Verify, Finish,
         setupVars, GoTo, Keep, Exit, At
    <3> QED
      BY <1>1, <3>1, <3>2
  <2> QED
    BY <2>1, <2>2, <2>3, <2>4
<1>3. CASE SetupStart \/ OneShot \/ PackCommand \/ UninstallStart
  <2>1. UNCHANGED model /\ at' # "download"
    BY <1>3, PackCommandLeaves DEF SetupStart, SetupBegins, SetupDeclined, SetupRefused, OneShot,
       ServerStart, ServerStop, ForceEnv, ResetStep, Update, Begin, UninstallStart,
       UninstallBegins, machineVars
  <2> QED
    BY <1>1, <2>1
<1>4. CASE UninstallWork /\ ~At("un-data") /\ ~At("un-models")
  <2>1. UNCHANGED model /\ at' # "download"
    BY <1>4 DEF UninstallWork, RemoveContainer, RemoveEnv, RemoveData, RemoveServer, RemoveUnit,
       StopDaemon, RemoveModels, RemoveState, Then, Exit
  <2> QED
    BY <1>1, <2>1
<1>5. CASE Outside /\ UNCHANGED setupVars
  BY <1>1, <1>5 DEF Outside, LifespanOpens, LifespanDone, ServerDies, DaemonChanges, Restart,
                    setupVars
<1>6. CASE Kill \/ UNCHANGED vars
  BY <1>1, <1>6 DEF Kill, Exit, machineVars, setupVars, vars
<1> QED
  BY <1>2, <1>3, <1>4, <1>5, <1>6, Steps

\* Theorem: no setup repairs a store that seed-corpus did not finish, nor a
\* part of a GGUF file: only the removal of either does, or, for the store,
\* packs that are installed by themselves (seed_corpus.py, pull_models.py).
THEOREM StuckTillRepaired == Spec => StuckUntilRepaired
<1>1. IInv /\ [Next]_vars =>
        /\ SeedStuck => SeedStuck' \/ At("un-data") \/ CorpusBootstrap \/ FilledAlone
        /\ ModelStuck => ModelStuck' \/ At("un-data") \/ At("un-models")
  BY StuckStep, ModelStep DEF IInv
<1> QED
  BY <1>1, HostInvariant, PTL DEF Spec, StuckUntilRepaired

\* Theorem: no command but an uninstall stops a daemon, and it stops none but
\* the one that pull-models started and that of a unit (uninstall.py).
THEOREM DaemonsAreSpared == Spec => DaemonSpared
<1>1. ASSUME Typed, [Next]_vars, daemon # None, daemon' = None, faults' = faults
      PROVE  \/ daemon.by = "pull"
             \/ daemon.by = "unit" /\ At("un-unit")
  <2>0. faults + 1 # faults
    <3>1. faults \in Nat
      BY <1>1, HostAssumption DEF Typed, TypeOK
    <3> QED
      BY <3>1
  <2>1. CASE SetupWork
    <3>1. UNCHANGED daemon
      <4>1. CASE PreflightRunner
        BY <1>1, <4>1 DEF PreflightRunner
      <4>2. CASE StartEmbed \/ EnsureOllama \/ EnableService \/ EnableFails
        BY <1>1, <4>2 DEF StartEmbed, EnsureOllama, EnableService, EnableFails, WriteUnits
      <4>3. CASE ~(PreflightRunner \/ StartEmbed \/ EnsureOllama \/ EnableService \/ EnableFails)
        BY <2>1, <4>3 DEF SetupWork, PreflightEarly, PreflightContainer, ComposeUp, ComposeSaves,
           ComposeEnv, WriteEnv, WriteEnvSaves, WriteUpstream, PullBegins, PullPresent, PullByHand,
           PullMissing, EnsureSaves, DownloadBegins, DownloadEnds, DownloadFails, SeedBegins, CopyBundled,
           InitializeEmpty, CheckCorpus, IngestPacks, BulkReembed, EnableSaves, Verify, Finish, machineVars
      <4> QED
        BY <4>1, <4>2, <4>3
    <3> QED
      BY <1>1, <3>1
  <2>2. CASE SetupStart \/ OneShot \/ PackCommand \/ UninstallStart
    BY <1>1, <2>2, PackCommandLeaves DEF SetupStart, SetupBegins, SetupDeclined, SetupRefused, machineVars, OneShot,
       ServerStart, ServerStop, ForceEnv, ResetStep, Update, UninstallStart, UninstallBegins
  <2>3. CASE UninstallWork
    BY <1>1, <2>3 DEF UninstallWork, RemoveContainer, RemoveEnv, RemoveData, RemoveServer,
       RemoveUnit, StopDaemon, RemoveModels, RemoveState
  <2>4. CASE LifespanOpens \/ LifespanDone \/ ServerDies \/ Kill \/ UNCHANGED vars
    BY <1>1, <2>4 DEF LifespanOpens, LifespanDone, ServerDies, Kill, machineVars, vars
  <2>5. CASE DaemonChanges \/ Restart
    BY <1>1, <2>0, <2>5 DEF DaemonChanges, Restart, Fault
  <2> QED
    BY <1>1, <2>1, <2>2, <2>3, <2>4, <2>5 DEF Next, OneShot, PackCommand
<1>2. IInv /\ [Next]_vars =>
        (daemon # None /\ daemon' = None /\ faults' = faults =>
           daemon.by = "pull" \/ (daemon.by = "unit" /\ At("un-unit")))
  BY <1>1 DEF IInv
<1> QED
  BY <1>2, HostInvariant, PTL DEF Spec, DaemonSpared

\* Whether the daemon is one that the state file names, of a step.
LEMMA DaemonStep ==
    ASSUME Typed, Copied, DaemonStopped, [Next]_vars, DaemonNamed, ~DaemonNamed'
    PROVE  \/ At("ensure")
           \/ At("download") /\ Loaded'.models = {"ollama"}
           \/ At("un-state") /\ "services" \notin removing
<1>0. /\ Loaded \in StateFile
      /\ daemon' # None /\ daemon'.by = "pull" /\ ~Loaded'.ollamaPid
      /\ daemon # None /\ daemon.by = "pull" => Loaded.ollamaPid
  BY LoadedTyped DEF Typed, TypeOK, DaemonNamed
<1>1. ASSUME UNCHANGED daemon \/ daemon' = None \/ daemon'.by # "pull",
             Loaded'.ollamaPid = Loaded.ollamaPid
      PROVE  FALSE
  BY <1>0, <1>1
<1>2. ASSUME UNCHANGED disk PROVE Loaded'.ollamaPid = Loaded.ollamaPid
  BY <1>2 DEF Loaded
<1>3. CASE SetupWork
  <2>1. CASE EnsureOllama
    BY <2>1 DEF EnsureOllama
  <2>2. CASE EnsureSaves
    <3>1. Loaded' = SetPid(Loaded, TRUE)
      BY <2>2, EnsureFiles
    <3> QED
      BY <1>0, <3>1, PidKeeps
  <2>3. CASE DownloadEnds
    <3>1. /\ at = "download" /\ mine \in StateFile /\ asked.runner \in Runner
          /\ UNCHANGED daemon
      BY <2>3, SetupAssumption DEF DownloadEnds, At, Typed, Control, Copying, SetupOnly,
                                   SetupStep, SetupRequest
    <3>2. Recorded(mine, "pull-models") \in StateFile
      BY <3>1, RecordedKeeps DEF StepName
    <3>3. /\ [Recorded(mine, "pull-models") EXCEPT !.models = {asked.runner}] \in StateFile
          /\ Save([Recorded(mine, "pull-models") EXCEPT !.models = {asked.runner}])
      BY <2>3, <3>1, <3>2, EditsTyped DEF DownloadEnds, PullSaves
    <3>4. Loaded' = [Recorded(mine, "pull-models") EXCEPT !.models = {asked.runner}]
      BY <3>3, SavedIsLoaded
    <3>5. Loaded'.models = {asked.runner} /\ Loaded'.ollamaPid = mine.ollamaPid
      BY <3>1, <3>2, <3>4, RecordedKeeps DEF StateFile, StepName
    <3>6. CASE asked.runner = "ollama"
      BY <3>1, <3>5, <3>6 DEF At
    <3>7. CASE asked.runner # "ollama"
      <4>1. mine.ollamaPid = Loaded.ollamaPid
        BY <3>1, <3>7, MachineAssumption DEF Copied
      <4> QED
        BY <1>1, <3>1, <3>5, <4>1
    <3> QED
      BY <3>6, <3>7
  <2>4. CASE ~(EnsureOllama \/ EnsureSaves \/ DownloadEnds)
    <3>1. at # "ensure" /\ at # "ensured"
      BY <1>3, <2>4 DEF SetupWork, PreflightEarly, PreflightRunner, PreflightContainer, ComposeUp,
         ComposeSaves, ComposeEnv, WriteEnv, WriteEnvSaves, WriteUpstream, PullBegins, PullPresent,
         PullByHand, PullMissing, DownloadBegins, DownloadFails, SeedBegins, CopyBundled,
         InitializeEmpty, CheckCorpus, StartEmbed, IngestPacks, BulkReembed, EnableService,
         EnableFails, EnableSaves, Verify, Finish, At
    <3>2. Loaded'.ollamaPid = Loaded.ollamaPid
      BY <1>3, <2>4, <3>1, SetupSaves, Zenon DEF At
    <3>3. UNCHANGED daemon \/ daemon'.by # "pull"
      <4>1. CASE PreflightRunner
        BY <4>1 DEF PreflightRunner
      <4>2. CASE StartEmbed
        <5>1. asked.runner = "ollama" \/ asked.runner = "llama-server" \/ asked.runner = "lm-studio"
          BY <4>2, SetupAssumption DEF StartEmbed, At, Typed, Control, SetupOnly, SetupStep,
                                       SetupRequest, Runner
        <5> QED
          BY <4>2, <5>1 DEF StartEmbed
      <4>3. CASE EnableService \/ EnableFails
        BY <4>3 DEF EnableService, EnableFails, WriteUnits
      <4>4. CASE ~(PreflightRunner \/ StartEmbed \/ EnableService \/ EnableFails)
        BY <1>3, <2>4, <4>4 DEF SetupWork, PreflightEarly, PreflightContainer, ComposeUp,
           ComposeSaves, ComposeEnv, WriteEnv, WriteEnvSaves, WriteUpstream, PullBegins,
           PullPresent, PullByHand, PullMissing, DownloadBegins, DownloadFails, SeedBegins,
           CopyBundled, InitializeEmpty, CheckCorpus, IngestPacks, BulkReembed, EnableSaves,
           Verify, Finish, machineVars
      <4> QED
        BY <4>1, <4>2, <4>3, <4>4
    <3> QED
      BY <1>1, <3>2, <3>3
  <2> QED
    BY <2>1, <2>2, <2>3, <2>4
<1>4. CASE SetupStart
  <2>1. UNCHANGED daemon
    BY <1>4 DEF SetupStart, SetupBegins, SetupDeclined, SetupRefused, machineVars
  <2>2. Loaded'.ollamaPid = Loaded.ollamaPid
    <3>1. Save(Recorded(Loaded, "detect")) => Loaded'.ollamaPid = Loaded.ollamaPid
      BY <1>0, RecordedKeeps, SavedIsLoaded DEF StepName
    <3> QED
      BY <1>2, <1>4, <3>1 DEF SetupStart, SetupBegins, SetupDeclined, SetupRefused, machineVars
  <2> QED
    BY <1>1, <2>1, <2>2
<1>5. CASE OneShot
  <2>1. UNCHANGED daemon
    BY <1>5 DEF OneShot, ServerStart, ServerStop, ForceEnv, ResetStep, Update
  <2>2. Loaded'.ollamaPid = Loaded.ollamaPid
    <3>1. ASSUME NEW r \in Request, ForceEnv(r) PROVE Loaded'.ollamaPid = Loaded.ollamaPid
      <4>1. r.port \in Port
        BY SetupAssumption DEF SetupRequest
      <4>2. Recorded(Loaded, "write-env") \in StateFile
        BY <1>0, RecordedKeeps DEF StepName
      <4>3. [Recorded(Loaded, "write-env") EXCEPT !.port = r.port] \in StateFile
        BY <4>1, <4>2, EditsTyped
      <4>4. Loaded' = [Recorded(Loaded, "write-env") EXCEPT !.port = r.port]
        BY <3>1, <4>3, SavedIsLoaded DEF ForceEnv
      <4>5. Loaded'.ollamaPid = Recorded(Loaded, "write-env").ollamaPid
        BY <4>2, <4>4 DEF StateFile
      <4> QED
        BY <1>0, <4>5, RecordedKeeps DEF StepName
    <3>2. ASSUME NEW step \in StepName, ResetStep(step) PROVE Loaded'.ollamaPid = Loaded.ollamaPid
      BY <3>2, ResetKeeps
    <3>3. CASE Update
      BY <1>0, <3>3, SavedIsLoaded DEF Update
    <3>4. CASE ServerStart \/ ServerStop
      BY <1>2, <3>4 DEF ServerStart, ServerStop
    <3> QED
      BY <1>5, <3>1, <3>2, <3>3, <3>4 DEF OneShot
  <2> QED
    BY <1>1, <2>1, <2>2
\* The file goes last: by then the daemon that it names has been stopped.
<1>6. CASE RemoveState
  <2>1. mine \in StateFile /\ mine.ollamaPid = Loaded.ollamaPid /\ UNCHANGED daemon
    BY <1>6, MachineAssumption DEF RemoveState, At, Typed, Control, UninstallStep, Copied
  <2>2. CASE "services" \in removing
    BY <1>0, <1>6, <2>1, <2>2 DEF RemoveState, At, DaemonStopped
  <2> QED
    BY <1>6, <2>2 DEF RemoveState
<1>7. CASE UninstallStart \/ (UninstallWork /\ ~RemoveState)
  <2>1. UNCHANGED disk /\ daemon' \in {daemon, None}
    BY <1>7 DEF UninstallStart, UninstallBegins, machineVars, UninstallWork, RemoveContainer,
       RemoveEnv, RemoveData, RemoveServer, RemoveUnit, StopDaemon, RemoveModels
  <2> QED
    BY <1>1, <1>2, <2>1
<1>8. CASE Outside \/ Kill \/ PackCommand \/ UNCHANGED vars
  <2>1. UNCHANGED disk /\ (UNCHANGED daemon \/ daemon' = None \/ daemon'.by # "pull")
    BY <1>8, PackCommandLeaves DEF Outside, LifespanOpens, LifespanDone, ServerDies, DaemonChanges,
       Restart, Kill, machineVars, vars
  <2> QED
    BY <1>1, <1>2, <2>1
<1> QED
  BY <1>3, <1>4, <1>5, <1>6, <1>7, <1>8, Steps

\* Theorem: no other step than the three named makes the Ollama that pull-models
\* has started one that no uninstall will stop (pull_models.py, uninstall.py).
THEOREM DaemonsForgottenOnlyThere == Spec => DaemonForgotten
<1>1. IInv /\ [Next]_vars =>
        (DaemonNamed /\ ~DaemonNamed' =>
           \/ At("ensure")
           \/ At("download") /\ Loaded'.models = {"ollama"}
           \/ At("un-state") /\ "services" \notin removing)
  BY DaemonStep DEF IInv
<1> QED
  BY <1>1, HostInvariant, PTL DEF Spec, DaemonForgotten

\* Whether a unit is one that the state file names, of a step.
LEMMA UnitStep ==
    ASSUME Typed, Copied, UnitRemoved, [Next]_vars,
           unit # None => Loaded.unit, ~(unit # None => Loaded.unit)'
    PROVE  \/ At("service")
           \/ At("enabled") /\ asked.mode = "manual"
           \/ At("un-state") /\ "services" \notin removing
<1>0. Loaded \in StateFile /\ unit' # None /\ ~Loaded'.unit
  BY LoadedTyped DEF Typed, TypeOK
<1>1. ASSUME unit' \in {unit, None}, Loaded'.unit = Loaded.unit PROVE FALSE
  BY <1>0, <1>1
<1>2. ASSUME UNCHANGED disk PROVE Loaded'.unit = Loaded.unit
  BY <1>2 DEF Loaded
<1>3. CASE SetupWork
  <2>1. CASE EnableService \/ EnableFails
    BY <2>1 DEF EnableService, EnableFails
  <2>2. CASE EnableSaves
    <3>1. asked.mode \in {"persistent", "manual"}
      BY <2>2, SetupAssumption DEF EnableSaves, At, Typed, Control, SetupOnly, SetupStep,
                              SetupRequest
    <3>2. \/ Loaded'.unit = Loaded.unit
          \/ Loaded'.unit = (asked.mode = "persistent")
      BY <1>3, SetupSaves, Zenon
    <3>3. UNCHANGED unit
      BY <2>2 DEF EnableSaves
    <3>4. CASE asked.mode = "manual"
      BY <2>2, <3>4 DEF EnableSaves
    <3>5. CASE asked.mode = "persistent"
      <4>1. Loaded'.unit = Loaded.unit
        BY <1>0, <3>2, <3>5
      <4> QED
        BY <1>1, <3>3, <4>1
    <3> QED
      BY <3>1, <3>4, <3>5
  <2>3. CASE ~(EnableService \/ EnableFails \/ EnableSaves)
    <3>1. UNCHANGED unit /\ at # "enabled"
      BY <1>3, <2>3 DEF SetupWork, PreflightEarly, PreflightRunner, PreflightContainer, ComposeUp,
         ComposeSaves, ComposeEnv, WriteEnv, WriteEnvSaves, WriteUpstream, PullBegins, PullPresent,
         PullByHand, PullMissing, EnsureOllama, EnsureSaves, DownloadBegins, DownloadEnds, DownloadFails,
         SeedBegins, CopyBundled, InitializeEmpty, CheckCorpus, StartEmbed, IngestPacks, BulkReembed, Verify,
         Finish, machineVars, At
    <3>2. Loaded'.unit = Loaded.unit
      BY <1>3, <3>1, SetupSaves, Zenon DEF At
    <3> QED
      BY <1>1, <3>1, <3>2
  <2> QED
    BY <2>1, <2>2, <2>3
<1>4. CASE SetupStart
  <2>1. UNCHANGED unit
    BY <1>4 DEF SetupStart, SetupBegins, SetupDeclined, SetupRefused, machineVars
  <2>2. Loaded'.unit = Loaded.unit
    <3>1. Save(Recorded(Loaded, "detect")) => Loaded'.unit = Loaded.unit
      BY <1>0, RecordedKeeps, SavedIsLoaded DEF StepName
    <3> QED
      BY <1>2, <1>4, <3>1 DEF SetupStart, SetupBegins, SetupDeclined, SetupRefused, machineVars
  <2> QED
    BY <1>1, <2>1, <2>2
<1>5. CASE OneShot
  <2>1. UNCHANGED unit
    BY <1>5 DEF OneShot, ServerStart, ServerStop, ForceEnv, ResetStep, Update
  <2>2. Loaded'.unit = Loaded.unit
    <3>1. ASSUME NEW r \in Request, ForceEnv(r) PROVE Loaded'.unit = Loaded.unit
      <4>1. r.port \in Port
        BY SetupAssumption DEF SetupRequest
      <4>2. Recorded(Loaded, "write-env") \in StateFile
        BY <1>0, RecordedKeeps DEF StepName
      <4>3. [Recorded(Loaded, "write-env") EXCEPT !.port = r.port] \in StateFile
        BY <4>1, <4>2, EditsTyped
      <4>4. Loaded' = [Recorded(Loaded, "write-env") EXCEPT !.port = r.port]
        BY <3>1, <4>3, SavedIsLoaded DEF ForceEnv
      <4>5. Loaded'.unit = Recorded(Loaded, "write-env").unit
        BY <4>2, <4>4 DEF StateFile
      <4> QED
        BY <1>0, <4>5, RecordedKeeps DEF StepName
    <3>2. ASSUME NEW step \in StepName, ResetStep(step) PROVE Loaded'.unit = Loaded.unit
      BY <3>2, ResetKeeps
    <3>3. CASE Update
      BY <1>0, <3>3, SavedIsLoaded DEF Update
    <3>4. CASE ServerStart \/ ServerStop
      BY <1>2, <3>4 DEF ServerStart, ServerStop
    <3> QED
      BY <1>5, <3>1, <3>2, <3>3, <3>4 DEF OneShot
  <2> QED
    BY <1>1, <2>1, <2>2
\* The file goes last: by then the unit that it names has gone.
<1>6. CASE RemoveState
  <2>1. mine \in StateFile /\ mine.unit = Loaded.unit /\ UNCHANGED unit
    BY <1>6, MachineAssumption DEF RemoveState, At, Typed, Control, UninstallStep, Copied
  <2>2. CASE "services" \in removing
    BY <1>0, <1>6, <2>1, <2>2 DEF RemoveState, At, UnitRemoved
  <2> QED
    BY <1>6, <2>2 DEF RemoveState
<1>7. CASE UninstallStart \/ (UninstallWork /\ ~RemoveState)
  <2>1. UNCHANGED disk /\ unit' \in {unit, None}
    BY <1>7 DEF UninstallStart, UninstallBegins, machineVars, UninstallWork, RemoveContainer,
       RemoveEnv, RemoveData, RemoveServer, RemoveUnit, StopDaemon, RemoveModels
  <2> QED
    BY <1>1, <1>2, <2>1
<1>8. CASE Outside \/ Kill \/ PackCommand \/ UNCHANGED vars
  <2>1. UNCHANGED <<disk, unit>>
    BY <1>8, PackCommandLeaves DEF Outside, LifespanOpens, LifespanDone, ServerDies, DaemonChanges, Restart, Kill,
       machineVars, vars
  <2> QED
    BY <1>1, <1>2, <2>1
<1> QED
  BY <1>3, <1>4, <1>5, <1>6, <1>7, <1>8, Steps

\* Theorem: no other step than the three named makes a unit one that no
\* uninstall will remove (enable_service.py, uninstall.py).
THEOREM UnitsForgottenOnlyThere == Spec => UnitForgotten
<1>1. IInv /\ [Next]_vars =>
        ((unit # None => Loaded.unit) /\ ~(unit # None => Loaded.unit)' =>
           \/ At("service")
           \/ At("enabled") /\ asked.mode = "manual"
           \/ At("un-state") /\ "services" \notin removing)
  BY UnitStep DEF IInv
<1> QED
  BY <1>1, HostInvariant, PTL DEF Spec, UnitForgotten
=============================================================================
