--------------------------------- MODULE Host ---------------------------------
(***************************************************************************)
(* A machine on which a user sets agentalloy up, starts and stops the      *)
(* service, uninstalls it and sets it up again; in between a command is    *)
(* killed, the service dies, Ollama is started and stopped by its owner,   *)
(* and the machine is restarted.                                           *)
(***************************************************************************)
EXTENDS Uninstall

CONSTANTS
    ModelsBefore, \* the models that the user may have before the first command
    MaxFaults     \* how often something outside these commands goes wrong

ASSUME HostAssumption ==
    /\ ModelsBefore \subseteq [Runner -> {"absent", "whole"}]
    /\ MaxFaults \in Nat

VARIABLES
    faults,     \* history: how often it has
    hadEnv      \* history: the user had an .env before the first command

vars == <<machineVars, setupVars, uninstallVars, faults, hadEnv>>

TypeOK ==
    /\ MachineTypeOK
    /\ SetupTypeOK
    /\ at \in SetupStep \cup UninstallStep \cup {"idle"}
    /\ removing \in (SUBSET Part) \cup {None}
    /\ faults \in 0 .. MaxFaults
    /\ hadEnv \in BOOLEAN

Init ==
    /\ disk = None
    /\ env \in {None, UserEnv}
    /\ model \in ModelsBefore
    /\ daemon \in {None} \cup [program : {"ollama"}, by : {"user"}]
    /\ duck = "absent" /\ ladybug = "absent"
    /\ bundled \in BOOLEAN
    /\ unit = None
    /\ ollamaUnit \in {"none", "user"}
    /\ container = FALSE
    /\ server = None
    /\ SetupInit
    /\ UninstallInit
    /\ faults = 0
    /\ hadEnv = (env # None)

Fault == faults < MaxFaults /\ faults' = faults + 1

\* server-start, on the port of the state file.
ServerStart ==
    /\ Begin("idle", None)
    /\ IF ListensOn(Loaded.port)
       THEN exit' = "failed" /\ UNCHANGED server
       ELSE exit' = "ok" /\ Spawn(Loaded.port, "hand")
    /\ UNCHANGED <<disk, env, model, daemon, duck, ladybug, bundled, unit, ollamaUnit, container>>

\* server-stop.
ServerStop ==
    /\ Begin("idle", None)
    /\ exit' = "ok"
    /\ server' = IF ListensOn(Loaded.port) THEN None ELSE server
    /\ UNCHANGED <<disk, env, model, daemon, duck, ladybug, bundled, unit, ollamaUnit, container>>

\* write-env --force, by itself: the backup it saves is saved over.
ForceEnv(r) ==
    /\ Begin("idle", None)
    /\ exit' = "ok"
    /\ env' = PresetEnv(r)
    /\ Save([Recorded(Loaded, "write-env") EXCEPT !.port = r.port])
    /\ UNCHANGED <<model, daemon, duck, ladybug, bundled, unit, ollamaUnit, container, server>>

\* STEP_DEPENDENCIES, of the steps that setup records.
Dependencies == [step \in StepName |->
    CASE step = "pull-models" -> {"detect"}
      [] step = "write-env" -> {"detect"}
      [] step = "verify" -> {"detect", "write-env", "pull-models", "seed-corpus"}
      [] OTHER -> {}]

\* _dependents_of.
Dependents(step) == {s \in StepName : step \in Dependencies[s]}

\* reset-step: the step, those that depend on it, and the keys they own.
ResetStep(step) ==
    LET cleared == {step} \cup Dependents(step) IN
    /\ step \in Loaded.steps \ {"enable-service"}
    /\ Begin("idle", None)
    /\ exit' = "ok"
    /\ Save([Loaded EXCEPT !.steps = @ \ cleared,
                           !.models = IF "pull-models" \in cleared THEN {} ELSE @,
                           !.port = IF "write-env" \in cleared THEN DefaultPort ELSE @])
    /\ UNCHANGED <<env, model, daemon, duck, ladybug, bundled, unit, ollamaUnit, container, server>>

\* update: no migration is registered, so there is only the state to save.
Update ==
    /\ Begin("idle", None)
    /\ exit' = "ok"
    /\ Save(Loaded)
    /\ UNCHANGED <<env, model, daemon, duck, ladybug, bundled, unit, ollamaUnit, container, server>>

\* install-packs and reembed, and install-pack, called by themselves.
PacksAlone ==
    /\ \E step \in {"packs", "reembed"} : Begin(step, None)
    /\ exit' = "none"
    /\ UNCHANGED machineVars

\* corpus-bootstrap: a snapshot takes the place of the corpus, or the corpus is
\* removed, the graph is migrated, and install-packs and reembed fill them.  The
\* migration may fail.
CorpusBootstrap ==
    /\ \/ Begin("idle", None) /\ exit' = "ok" /\ duck' = "full" /\ ladybug' = "full"
       \/ Begin("idle", None) /\ exit' = "failed" /\ duck' = "absent" /\ ladybug' = "absent"
       \/ Begin("packs", None) /\ exit' = "none" /\ duck' = "absent" /\ ladybug' = "empty"
    /\ UNCHANGED <<disk, env, model, daemon, bundled, unit, ollamaUnit, container, server>>

\* The running command is killed.
Kill ==
    /\ at # "idle"
    /\ Fault
    /\ Exit("killed")
    /\ removing' = None
    /\ UNCHANGED <<machineVars, hadEnv>>

\* The service dies; systemd starts its own again.
ServerDies ==
    /\ server # None
    /\ Fault
    /\ server' = IF server.by = "unit" THEN StartedByUnit ELSE None
    /\ UNCHANGED <<disk, env, model, daemon, duck, ladybug, bundled, unit, ollamaUnit, container,
                   setupVars, uninstallVars, hadEnv>>

\* The daemon dies, or its user starts Ollama.
DaemonChanges ==
    /\ Fault
    /\ daemon' = IF daemon = None THEN [program |-> "ollama", by |-> "user"] ELSE None
    /\ UNCHANGED <<disk, env, model, duck, ladybug, bundled, unit, ollamaUnit, container, server,
                   setupVars, uninstallVars, hadEnv>>

\* The machine restarts, and its units with it.
Restart ==
    /\ at = "idle"
    /\ Fault
    /\ daemon' = IF ollamaUnit = "none" THEN None ELSE [program |-> "ollama", by |-> "unit"]
    /\ server' = StartedByUnit
    /\ UNCHANGED <<disk, env, model, duck, ladybug, bundled, unit, ollamaUnit, container,
                   setupVars, uninstallVars, hadEnv>>

Next ==
    \/ /\ \/ SetupStart \/ SetupWork
          \/ ServerStart \/ ServerStop
          \/ \E r \in Request : ForceEnv(r)
          \/ \E step \in StepName : ResetStep(step)
          \/ Update
          \/ PacksAlone \/ CorpusBootstrap
       /\ UNCHANGED <<uninstallVars, faults, hadEnv>>
    \/ /\ UninstallStart \/ UninstallWork
       /\ UNCHANGED <<faults, hadEnv>>
    \/ /\ LifespanOpens \/ LifespanDone
       /\ UNCHANGED <<setupVars, uninstallVars, faults, hadEnv>>
    \/ Kill \/ ServerDies \/ DaemonChanges \/ Restart

Spec == Init /\ [][Next]_vars
-----------------------------------------------------------------------------
(* Properties. *)

\* When setup has verified the installation, .env, the state file and the unit
\* of the service agree on what the user asked for, and the graph has skills.
SetupAgrees ==
    At("finish") =>
        /\ env = PresetEnv(asked)
        /\ Loaded.port = asked.port
        /\ asked.mode = "persistent" => unit = [port |-> asked.port, env |-> env] /\ Loaded.unit
        /\ ladybug = "full" /\ duck # "absent"

\* The .env that the user had before is there, or the state file has it.
UserEnvSafe == hadEnv => env = UserEnv \/ (disk # None /\ disk.backup = UserEnv)

\* It is lost by write-env --force, by an uninstall where setup has not put it
\* aside before, and by one that removes the directory it has just restored it to.
UserEnvLost ==
    [][UserEnvSafe /\ ~UserEnvSafe' =>
         \/ \E r \in Request : ForceEnv(r)
         \/ At("un-env") /\ mine.backup = None
         \/ At("un-state") /\ "state" \in removing]_vars

\* A store that is there and empty, when no seed-corpus has been recorded: the
\* service made it, or a setup that was killed, or packs installed before.
SeedStuck ==
    /\ duck = "empty" /\ ladybug # "absent"
    /\ ~Completed("seed-corpus")
    /\ ~At("initialize")

\* It is filled by packs that are installed or re-embedded by themselves.
FilledAlone == At("reembed") /\ asked = None /\ ladybug = "full" /\ duck' = "full"

\* A part of a GGUF file that no setup is at work on.
ModelStuck ==
    /\ model["llama-server"] = "partial"
    /\ ~(At("download") /\ asked.runner = "llama-server")

\* From then on every setup stops at seed-corpus, until the data are removed or
\* filled by other commands; and a part of a model, left by a kill or by a
\* connection cut early, is what every setup takes for the model, until it is
\* removed: no setup repairs either.
StuckUntilRepaired ==
    [][/\ SeedStuck => SeedStuck' \/ At("un-data") \/ CorpusBootstrap \/ FilledAlone
       /\ ModelStuck => ModelStuck' \/ At("un-data") \/ At("un-models")]_vars

\* Setup's own Ollama, and the user's, are stopped by nobody but by a failure or
\* by the removal of their unit; only the one that pull-models started is an
\* uninstall's to stop.
DaemonSpared ==
    [][daemon # None /\ daemon' = None /\ faults' = faults =>
         daemon.by = "pull" \/ (daemon.by = "unit" /\ At("un-unit"))]_vars

\* The Ollama that pull-models has started is the state file's to name.
DaemonNamed == daemon # None /\ daemon.by = "pull" => Loaded.ollamaPid

\* One that it does not name is never stopped again: pull-models was killed
\* before it saved the pid, or has saved over it the state it had loaded before,
\* or an uninstall left the services and removed the file.
DaemonForgotten ==
    [][DaemonNamed /\ ~DaemonNamed' =>
         \/ At("ensure")
         \/ At("download") /\ Loaded'.models = {"ollama"}
         \/ At("un-state") /\ "services" \notin removing]_vars

\* A unit that the state file does not name is never removed again: it comes
\* from a setup that ends between writing and recording it, from a later setup for
\* a service started by hand, or from an uninstall that left the services.
UnitForgotten ==
    [][(unit # None => Loaded.unit) /\ ~(unit # None => Loaded.unit)' =>
         \/ At("service")
         \/ At("enabled") /\ asked.mode = "manual"
         \/ At("un-state") /\ "services" \notin removing]_vars

\* What the machine looks like at every moment.
MachineSound == TypeOK /\ SetupAgrees
=============================================================================
