------------------------------- MODULE Uninstall -------------------------------
(***************************************************************************)
(* agentalloy uninstall (uninstall.py), in the order in which it removes    *)
(* things, from the state file as it was when it began.  The wiring of      *)
(* harnesses, which comes between the compose stack and .env, is the module *)
(* Wiring's.                                                                *)
(***************************************************************************)
EXTENDS Setup

Part == {"services", "models", "data", "env", "state"}

CONSTANT Choice \* the sets of parts users may choose to remove

\* The presets keep-data and full; custom asks for each part, but for .env and
\* the state together.
Presets == {{"env"}, Part}
Custom == {parts \in SUBSET Part : "env" \in parts <=> "state" \in parts}

ASSUME ChoiceAssumption == Choice \subseteq Presets \cup Custom

VARIABLE
    removing    \* the parts the running uninstall is to remove, or None

uninstallVars == <<removing>>

UninstallStep == {"un-container", "un-env", "un-data", "un-server", "un-unit", "un-daemon",
                  "un-models", "un-state"}

UninstallInit == removing = None

UninstallBegins(parts) ==
    /\ at = "idle"
    /\ commands < MaxCommands
    /\ commands' = commands + 1
    /\ at' = "un-container"
    /\ mine' = Loaded
    /\ removing' = parts
    /\ exit' = "none"
    /\ UNCHANGED <<machineVars, asked>>

Then(step) == at' = step /\ UNCHANGED <<asked, mine, exit, commands, removing>>

\* _stop_container_stack: `compose down', which may fail.
RemoveContainer ==
    /\ At("un-container")
    /\ container' \in IF "services" \in removing /\ mine.deployment = "container"
                      THEN {container, FALSE} ELSE {container}
    /\ Then("un-env")
    /\ UNCHANGED <<disk, env, model, daemon, duck, ladybug, bundled, unit, ollamaUnit, server>>

RemoveEnv ==
    /\ At("un-env")
    /\ env' = IF "env" \in removing /\ env # None THEN mine.backup ELSE env
    /\ Then("un-data")
    /\ UNCHANGED <<disk, model, daemon, duck, ladybug, bundled, unit, ollamaUnit, container, server>>

\* The corpus, and with it the directory that holds the GGUF files.
RemoveData ==
    /\ At("un-data")
    /\ IF "data" \in removing
       THEN /\ duck' = "absent" /\ ladybug' = "absent"
            /\ model' = [model EXCEPT !["llama-server"] = "absent"]
       ELSE UNCHANGED <<duck, ladybug, model>>
    /\ Then("un-server")
    /\ UNCHANGED <<disk, env, daemon, bundled, unit, ollamaUnit, container, server>>

\* What listens on the state's port is stopped, if it is the service.
RemoveServer ==
    /\ At("un-server")
    /\ server' = IF "services" \in removing /\ ListensOn(mine.port) THEN None ELSE server
    /\ Then("un-unit")
    /\ UNCHANGED <<disk, env, model, daemon, duck, ladybug, bundled, unit, ollamaUnit, container>>

\* _stop_native_service: the unit that the state names, and any ollama.service
\* beside it.
RemoveUnit ==
    /\ At("un-unit")
    /\ IF "services" \in removing /\ mine.unit
       THEN /\ unit' = None
            /\ ollamaUnit' = "none"
            /\ server' = IF server # None /\ server.by = "unit" THEN None ELSE server
            /\ daemon' = IF daemon # None /\ daemon.by = "unit" THEN None ELSE daemon
       ELSE UNCHANGED <<unit, ollamaUnit, server, daemon>>
    /\ Then("un-daemon")
    /\ UNCHANGED <<disk, env, model, duck, ladybug, bundled, container>>

\* Mutant: it is stopped along with the service's unit only.
StopDaemonOfUnit ==
    /\ At("un-daemon")
    /\ daemon' = IF /\ "services" \in removing /\ mine.unit
                    /\ mine.ollamaPid /\ daemon # None /\ daemon.by = "pull"
                 THEN None ELSE daemon
    /\ Then("un-models")
    /\ UNCHANGED <<disk, env, model, duck, ladybug, bundled, unit, ollamaUnit, container, server>>

\* _stop_ollama_daemon: only the process whose pid was saved.
StopDaemon ==
    /\ At("un-daemon")
    /\ daemon' = IF "services" \in removing /\ mine.ollamaPid /\ daemon # None /\ daemon.by = "pull"
                 THEN None ELSE daemon
    /\ Then("un-models")
    /\ UNCHANGED <<disk, env, model, duck, ladybug, bundled, unit, ollamaUnit, container, server>>

\* _remove_pulled_models: `ollama rm' needs the daemon.
RemoveModels ==
    LET removable == {r \in mine.models : r = "ollama" =>
                                          daemon # None /\ daemon.program = "ollama"} IN
    /\ At("un-models")
    /\ model' = IF "models" \in removing
                THEN [r \in Runner |-> IF r \in removable THEN "absent" ELSE model[r]] ELSE model
    /\ Then("un-state")
    /\ UNCHANGED <<disk, env, daemon, duck, ladybug, bundled, unit, ollamaUnit, container, server>>

\* The directory of the state file is the one .env is in.
RemoveState ==
    /\ At("un-state")
    /\ IF "state" \in removing THEN disk' = None /\ env' = None ELSE UNCHANGED <<disk, env>>
    /\ Exit("ok")
    /\ removing' = None
    /\ UNCHANGED <<model, daemon, duck, ladybug, bundled, unit, ollamaUnit, container, server>>

UninstallStart == \E parts \in Choice : UninstallBegins(parts)

UninstallWork ==
    \/ RemoveContainer \/ RemoveEnv \/ RemoveData \/ RemoveServer \/ RemoveUnit
    \/ StopDaemon \/ RemoveModels \/ RemoveState
=============================================================================
