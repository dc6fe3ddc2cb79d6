--------------------------------- MODULE Setup ---------------------------------
(***************************************************************************)
(* agentalloy setup (simple_setup.py) and the subcommands it calls in turn: *)
(* preflight, write-env, pull-models, seed-corpus, start-embed-server,     *)
(* install-packs, enable-service, verify.  Each loads install-state.json,  *)
(* works, and saves what it loaded; a death in between leaves what was     *)
(* done undone in the file.  Wiring the harness is the module Wiring's.    *)
(***************************************************************************)
EXTENDS Machine

CONSTANTS
    Request,    \* what users may ask setup for
    MaxCommands \* how many commands are begun

SetupRequest == [runner : Runner, port : Port, mode : {"persistent", "manual"},
                 deployment : {"native", "container"}]

ASSUME SetupAssumption ==
    /\ Request \subseteq SetupRequest /\ None \notin Request
    /\ MaxCommands \in Nat

VARIABLES
    at,         \* the next step of the running command, or "idle"
    asked,      \* what setup was asked for, or None if the command is not a setup
    mine,       \* the state file as the running subcommand loaded it, or None
    exit,       \* history: how the last command ended, if none runs
    commands    \* history: how many commands were begun

setupVars == <<at, asked, mine, exit, commands>>

SetupStep == {"preflight", "runner", "write-env", "env-replaced", "upstream", "pull",
              "present", "ensure", "ensured", "download", "seed", "seeding", "initialize", "check",
              "embed", "packs", "reembed", "service", "enabled", "verify", "finish",
              "compose", "compose-up", "composed", "compose-env"}

SetupTypeOK ==
    /\ asked \in Request \cup {None}
    /\ mine \in StateFile \cup {None}
    /\ exit \in {"none", "ok", "noop", "failed", "killed"}
    /\ commands \in 0 .. MaxCommands

SetupInit ==
    /\ at = "idle" /\ asked = None /\ mine = None
    /\ exit = "none"
    /\ commands = 0

Begin(step, request) ==
    /\ at = "idle"
    /\ commands < MaxCommands
    /\ commands' = commands + 1
    /\ at' = step
    /\ asked' = request
    /\ mine' = None

Exit(code) ==
    /\ at' = "idle" /\ asked' = None /\ mine' = None
    /\ exit' = code
    /\ UNCHANGED commands

\* On to the next step, forgetting or keeping what was loaded.
GoTo(step) == at' = step /\ mine' = None /\ UNCHANGED <<asked, exit, commands>>
Keep(step, st) == at' = step /\ mine' = st /\ UNCHANGED <<asked, exit, commands>>

At(step) == at = step
-----------------------------------------------------------------------------
(* run_setup, up to the first subcommand. *)

\* The .env of the request's preset: every pair of a runner and a target has
\* one, and its endpoint is the runner's.
PresetEnv(r) == [by |-> "setup", runner |-> r.runner, port |-> r.port]

\* The hardware is detected, and the wizard's answers are all in.
SetupBegins(r) ==
    /\ Begin("preflight", r)
    /\ Save(Recorded(Loaded, "detect"))
    /\ exit' = "none"
    /\ UNCHANGED <<env, model, daemon, duck, ladybug, bundled, unit, ollamaUnit,
                   container, server>>

\* The profile's datastore has skills in it.
SetupDeclined ==
    /\ Begin("idle", None)
    /\ exit' = "noop"
    /\ UNCHANGED machineVars

\* An answer is refused, or the user cancels, which for a sidecar harness counts
\* as success; the hardware has been detected by then.
SetupRefused ==
    /\ Begin("idle", None)
    /\ Save(Recorded(Loaded, "detect"))
    /\ exit' \in {"ok", "failed"}
    /\ UNCHANGED <<env, model, daemon, duck, ladybug, bundled, unit, ollamaUnit,
                   container, server>>

\* The early checks that stop a setup: what they find of the host is an input.
FatalCheck == {"python_version", "uv_present", "cli_on_path", "xdg_dirs_writable"}

\* Those that only warn.  A port in use is no obstacle, whoever uses it.
WarnedCheck == {"network_reachable", "port_free"}

Fatal(failures) == failures \cap FatalCheck # {}

\* run_preflight("early").
PreflightEarly ==
    /\ At("preflight")
    /\ \E failures \in SUBSET (FatalCheck \cup WarnedCheck) :
          IF Fatal(failures) THEN Exit("failed")
          ELSE GoTo(IF asked.deployment = "container" THEN "compose" ELSE "runner")
    /\ UNCHANGED machineVars

\* run_preflight("runner"): Ollama is started if nothing answers as Ollama; only
\* then is it missing.
PreflightRunner ==
    LET spawned == [program |-> "ollama", by |-> "preflight"]
        listening == IF daemon = None THEN spawned ELSE daemon IN
    /\ At("runner")
    /\ CASE asked.runner = "lm-studio" -> GoTo("write-env") /\ UNCHANGED daemon
         [] asked.runner \notin Installed -> Exit("failed") /\ UNCHANGED daemon
         [] asked.runner = "llama-server" -> GoTo("write-env") /\ UNCHANGED daemon
         [] OTHER -> /\ daemon' = listening
                     /\ IF listening.program = "ollama" THEN GoTo("write-env") ELSE Exit("failed")
    /\ UNCHANGED <<disk, env, model, duck, ladybug, bundled, unit, ollamaUnit, container, server>>
-----------------------------------------------------------------------------
(* write-env, and _write_upstream_env. *)

\* run loads the state; write_env replaces .env if it is one of its own.
WriteEnv ==
    /\ At("write-env")
    /\ IF env # None /\ env.by # "setup"
       THEN Exit("failed") /\ UNCHANGED env
       ELSE env' = PresetEnv(asked) /\ Keep("env-replaced", Loaded)
    /\ UNCHANGED <<disk, model, daemon, duck, ladybug, bundled, unit, ollamaUnit, container, server>>

\* Mutant: the port stays what it was.
WriteEnvSavesOldPort ==
    /\ At("env-replaced")
    /\ Save(Recorded(mine, "write-env"))
    /\ GoTo("upstream")
    /\ UNCHANGED <<env, model, daemon, duck, ladybug, bundled, unit, ollamaUnit, container, server>>

\* run saves the state it loaded first, over the backup that write_env has
\* saved in the meantime.
WriteEnvSaves ==
    /\ At("env-replaced")
    /\ Save([Recorded(mine, "write-env") EXCEPT !.port = asked.port])
    /\ GoTo("upstream")
    /\ UNCHANGED <<env, model, daemon, duck, ladybug, bundled, unit, ollamaUnit, container, server>>

\* The backup is of .env as it is by now.
WriteUpstream ==
    /\ At("upstream")
    /\ Save([Loaded EXCEPT !.backup = IF @ = None THEN env ELSE @])
    /\ GoTo("pull")
    /\ UNCHANGED <<env, model, daemon, duck, ladybug, bundled, unit, ollamaUnit, container, server>>
-----------------------------------------------------------------------------
(* pull-models. *)

\* A completed pull is not repeated, whatever runner and model it was for.
PullBegins ==
    /\ At("pull")
    /\ IF Completed("pull-models") THEN GoTo("seed") ELSE Keep("present", Loaded)
    /\ UNCHANGED machineVars

\* `ollama list' answers only while the daemon runs; a GGUF file that is there
\* is present, whole or not.
Present(r) ==
    \/ r = "ollama" /\ daemon # None /\ daemon.program = "ollama" /\ model["ollama"] = "whole"
    \/ r = "llama-server" /\ model["llama-server"] # "absent"

PullSaves(models) == Save([Recorded(mine, "pull-models") EXCEPT !.models = models])

PullPresent ==
    /\ At("present")
    /\ Present(asked.runner)
    /\ PullSaves({asked.runner})
    /\ GoTo("seed")
    /\ UNCHANGED <<env, model, daemon, duck, ladybug, bundled, unit, ollamaUnit, container, server>>

\* The instructions of a runner that is pulled from by hand are printed.
PullByHand ==
    /\ At("present")
    /\ asked.runner = "lm-studio"
    /\ PullSaves({})
    /\ GoTo("seed")
    /\ UNCHANGED <<env, model, daemon, duck, ladybug, bundled, unit, ollamaUnit, container, server>>

PullMissing ==
    /\ At("present")
    /\ asked.runner # "lm-studio" /\ ~Present(asked.runner)
    /\ Keep(IF asked.runner = "ollama" THEN "ensure" ELSE "download", mine)
    /\ UNCHANGED machineVars

\* _ensure_ollama_running.  The pid that a state has, if any, is that of a
\* daemon which has ended by now: ollamaPid is for the one that runs.
EnsureOllama ==
    /\ At("ensure")
    /\ IF daemon # None
       THEN Keep("download", mine) /\ UNCHANGED <<daemon, disk>>
       ELSE /\ daemon' = [program |-> "ollama", by |-> "pull"]
            /\ disk' = IF disk = None THEN None ELSE [disk EXCEPT !.ollamaPid = FALSE]
            /\ Keep("ensured", [mine EXCEPT !.ollamaPid = FALSE])
    /\ UNCHANGED <<env, model, duck, ladybug, bundled, unit, ollamaUnit, container, server>>

\* The pid is saved, in the file only; then the daemon has 15 s to answer.
EnsureSaves ==
    /\ At("ensured")
    /\ Save([Loaded EXCEPT !.ollamaPid = TRUE])
    /\ Keep("download", mine) \/ Exit("failed")
    /\ UNCHANGED <<env, model, daemon, duck, ladybug, bundled, unit, ollamaUnit, container, server>>

\* The GGUF file grows in place; Ollama publishes a model when it is whole.
DownloadBegins ==
    /\ At("download")
    /\ asked.runner = "llama-server"
    /\ model["llama-server"] = "absent"
    /\ model' = [model EXCEPT !["llama-server"] = "partial"]
    /\ UNCHANGED <<disk, env, daemon, duck, ladybug, bundled, unit, ollamaUnit, container,
                   server, setupVars>>

\* The GGUF file has ended when nothing more can be read: its length is not
\* compared with the one announced, so a connection cut early leaves a part.
DownloadEnds ==
    /\ At("download")
    /\ \/ /\ asked.runner = "ollama" /\ daemon # None /\ daemon.program = "ollama"
          /\ model' = [model EXCEPT !["ollama"] = "whole"]
       \/ /\ asked.runner = "llama-server" /\ model["llama-server"] = "partial"
          /\ \E length \in {"partial", "whole"} :
                model' = [model EXCEPT !["llama-server"] = length]
    /\ PullSaves({asked.runner})
    /\ GoTo("seed")
    /\ UNCHANGED <<env, daemon, duck, ladybug, bundled, unit, ollamaUnit, container, server>>

DownloadFails ==
    /\ At("download")
    /\ model' = IF asked.runner = "llama-server"
                THEN [model EXCEPT !["llama-server"] = "absent"] ELSE model
    /\ Exit("failed")
    /\ UNCHANGED <<disk, env, daemon, duck, ladybug, bundled, unit, ollamaUnit, container, server>>
-----------------------------------------------------------------------------
(* seed-corpus. *)

SeedBegins ==
    /\ At("seed")
    /\ IF Completed("seed-corpus") /\ duck # "absent" /\ ladybug # "absent"
       THEN GoTo("embed") ELSE Keep("seeding", Loaded)
    /\ UNCHANGED machineVars

\* ensure_corpus_seeded: skills.duck, then ladybug, each at one stroke, and
\* only where there is none.
CopyBundled ==
    LET whole == duck # "absent" /\ ladybug # "absent" IN
    /\ At("seeding")
    /\ CASE whole -> at' = "check" /\ UNCHANGED <<duck, ladybug>>
         [] ~whole /\ ~bundled -> at' = "initialize" /\ UNCHANGED <<duck, ladybug>>
         [] ~whole /\ bundled /\ duck = "absent" ->
                duck' = "full" /\ UNCHANGED <<at, ladybug>>
         [] OTHER -> ladybug' = "full" /\ UNCHANGED <<at, duck>>
    /\ UNCHANGED <<disk, env, model, daemon, bundled, unit, ollamaUnit, container, server,
                   asked, mine, exit, commands>>

SeedSaves == Save(Recorded(mine, "seed-corpus"))

\* _initialize_empty_corpus: the graph's tables, then skills.duck.  The graph
\* may be locked by the service.
InitializeEmpty ==
    /\ At("initialize")
    /\ CASE StoreLocked -> Exit("failed") /\ UNCHANGED <<disk, duck, ladybug>>
         [] ~StoreLocked /\ ladybug = "absent" ->
                ladybug' = "empty" /\ UNCHANGED <<setupVars, disk, duck>>
         [] ~StoreLocked /\ ladybug # "absent" /\ duck = "absent" ->
                duck' = "empty" /\ UNCHANGED <<setupVars, disk, ladybug>>
         [] OTHER -> SeedSaves /\ GoTo("embed") /\ UNCHANGED <<duck, ladybug>>
    /\ UNCHANGED <<env, model, daemon, bundled, unit, ollamaUnit, container, server>>

\* Mutant: an empty corpus is as good as a full one.
CheckCorpusAny ==
    /\ At("check")
    /\ IF ~StoreLocked
       THEN SeedSaves /\ GoTo("embed")
       ELSE Exit("failed") /\ UNCHANGED disk
    /\ UNCHANGED <<env, model, daemon, duck, ladybug, bundled, unit, ollamaUnit, container, server>>

\* _check_duckdb counts the skills that have rows, as many as MIN_SKILL_COUNT;
\* it cannot read a store that the service has locked.
DuckComplete == duck = "full" /\ ~StoreLocked

\* check_corpus: what is not complete counts as missing files.
CheckCorpus ==
    /\ At("check")
    /\ IF DuckComplete
       THEN SeedSaves /\ GoTo("embed")
       ELSE Exit("failed") /\ UNCHANGED disk
    /\ UNCHANGED <<env, model, daemon, duck, ladybug, bundled, unit, ollamaUnit, container, server>>
-----------------------------------------------------------------------------
(* start-embed-server and install-packs. *)

\* _start_llama_server: a server whose model does not load never listens.
LlamaListens == "llama-server" \in Installed /\ model["llama-server"] = "whole"

\* _start_ollama waits for 30 s, and warns.
OllamaListens == "ollama" \in Installed

\* Anything that listens on the port is taken for the runner.  LM Studio has a
\* port of its own and is started by hand.
StartEmbed ==
    LET listens == IF asked.runner = "ollama" THEN OllamaListens ELSE LlamaListens IN
    /\ At("embed")
    /\ IF asked.runner = "lm-studio" \/ daemon # None
       THEN GoTo("packs") /\ UNCHANGED daemon
       ELSE IF listens
       THEN daemon' = [program |-> asked.runner, by |-> "embed"] /\ GoTo("packs")
       ELSE Exit("failed") /\ UNCHANGED daemon
    /\ UNCHANGED <<disk, env, model, duck, ladybug, bundled, unit, ollamaUnit, container, server>>

\* install_local_pack of each pack, if the packs are known.  The check of the
\* dimension opens skills.duck, and so creates it; the ingest opens the graph,
\* creates no tables, and fails where the service locks it.  Packs that fail to
\* load are not counted as failed; install-pack, which is no part of a setup,
\* does not re-embed.
IngestPacks ==
    /\ At("packs")
    /\ \/ Exit("failed") /\ UNCHANGED <<disk, duck, ladybug>>
       \/ /\ Save(Loaded)
          /\ IF StoreLocked
             THEN UNCHANGED <<duck, ladybug>>
             ELSE /\ duck' = IF duck = "absent" THEN "empty" ELSE duck
                  /\ ladybug' \in IF ladybug = "absent" THEN {"empty"} ELSE {ladybug, "full"}
          /\ GoTo("reembed") \/ (asked = None /\ Exit("ok"))
    /\ UNCHANGED <<env, model, daemon, bundled, unit, ollamaUnit, container, server>>

\* _bulk_reembed stops the service if systemd runs it, migrates the graph, and
\* embeds what has no embedding, as far as the endpoint answers; it fails where
\* the stores are still locked.  Its failure is none of install-packs': that
\* fails when a pack was refused, with the others loaded and embedded.
BulkReembed ==
    /\ At("reembed")
    /\ \E stops \in IF server # None /\ server.by = "unit" THEN BOOLEAN ELSE {FALSE} :
          /\ server' \in IF stops THEN {StartedByUnit, None} ELSE {server}
          /\ IF StoreLocked /\ ~stops
             THEN UNCHANGED <<duck, ladybug>>
             ELSE /\ ladybug' = IF ladybug = "absent" THEN "empty" ELSE ladybug
                  /\ \/ duck' = IF duck = "absent" THEN "empty" ELSE duck
                     \/ ladybug = "full" /\ Embeds(env) /\ duck' = "full"
    /\ IF asked = None
       THEN \E code \in {"ok", "failed"} : Exit(code)
       ELSE GoTo("service") \/ Exit("failed")
    /\ UNCHANGED <<disk, env, model, daemon, bundled, unit, ollamaUnit, container>>
-----------------------------------------------------------------------------
(* enable-service, verify, and the end. *)

\* An ollama.service comes with the service's unit where there is none.
WritesOllamaUnit == ollamaUnit = "none" /\ "ollama" \in Installed

\* _enable_native_linux: the units are written, and Ollama's is started.
WriteUnits ==
    /\ unit' = [port |-> asked.port, env |-> env]
    /\ ollamaUnit' = IF WritesOllamaUnit THEN "ours" ELSE ollamaUnit
    /\ daemon' = IF WritesOllamaUnit /\ daemon = None
                 THEN [program |-> "ollama", by |-> "unit"] ELSE daemon

\* enable_service; a service that runs is left as it is.
EnableService ==
    /\ At("service")
    /\ IF asked.mode = "manual"
       THEN UNCHANGED <<unit, ollamaUnit, daemon, server>>
       ELSE WriteUnits /\ Spawn(asked.port, "unit")
    /\ Keep("enabled", Loaded)
    /\ UNCHANGED <<disk, env, model, duck, ladybug, bundled, container>>

\* systemctl fails, with the units written and nothing recorded.
EnableFails ==
    /\ At("service")
    /\ asked.mode = "persistent"
    /\ WriteUnits
    /\ Exit("failed")
    /\ UNCHANGED <<disk, env, model, duck, ladybug, bundled, container, server>>

EnableSaves ==
    /\ At("enabled")
    /\ Save([Recorded(mine, "enable-service") EXCEPT !.unit = (asked.mode = "persistent")])
    /\ GoTo("verify")
    /\ UNCHANGED <<env, model, daemon, duck, ladybug, bundled, unit, ollamaUnit, container, server>>

\* _probe_diagnostics: the service answers, and then answers for the stores.
Diagnosed == ListensOn(Loaded.port)

\* The checks of the stores open them where the service does not answer; a
\* service that is starting has them locked.
DuckdbPresent == Diagnosed \/ (duck # "absent" /\ ~StoreLocked)

LadybugPresent == Diagnosed \/ (ladybug # "absent" /\ ~StoreLocked)

SkillCountMet == ladybug = "full" /\ LadybugPresent

\* run_checks.  Whether the files of the harness have their lines, and the right
\* URL in one of them, is an input here.
Passed(wired) == Embeds(env) /\ DuckdbPresent /\ SkillCountMet /\ wired

Verify ==
    /\ At("verify")
    /\ \E wired \in BOOLEAN :
          IF Passed(wired)
          THEN Save(Recorded(Loaded, "verify")) /\ GoTo("finish")
          ELSE Exit("failed") /\ UNCHANGED disk
    /\ UNCHANGED <<env, model, daemon, duck, ladybug, bundled, unit, ollamaUnit, container, server>>

\* Mutant: that the service has a unit is not carried over.
FinishForgetsUnit ==
    /\ At("finish")
    /\ Save([Loaded EXCEPT !.deployment = "native", !.unit = FALSE])
    /\ Exit("ok")
    /\ UNCHANGED <<env, model, daemon, duck, ladybug, bundled, unit, ollamaUnit, container, server>>

Finish ==
    /\ At("finish")
    /\ Save([Loaded EXCEPT !.deployment = "native"])
    /\ Exit("ok")
    /\ UNCHANGED <<env, model, daemon, duck, ladybug, bundled, unit, ollamaUnit, container, server>>
-----------------------------------------------------------------------------
(* _run_container_flow, after the early checks. *)

\* The checks of run_preflight("container") that stop it.
ContainerCheck == {"compose_binary", "compose_file_present", "image_build_deps"}

PreflightContainer ==
    /\ At("compose")
    /\ \E failures \in SUBSET ContainerCheck :
          IF failures # {} THEN Exit("failed") ELSE GoTo("compose-up")
    /\ UNCHANGED machineVars

\* The stack is built and started, whether or not it answers in time, or the
\* user does not confirm.
ComposeUp ==
    /\ At("compose-up")
    /\ \/ Exit("failed") /\ container' \in {container, TRUE}
       \/ container' = TRUE /\ GoTo("composed")
    /\ UNCHANGED <<disk, env, model, daemon, duck, ladybug, bundled, unit, ollamaUnit, server>>

ComposeSaves ==
    /\ At("composed")
    /\ Save([Loaded EXCEPT !.deployment = "container", !.port = DefaultPort])
    /\ GoTo("compose-env")
    /\ UNCHANGED <<env, model, daemon, duck, ladybug, bundled, unit, ollamaUnit, container, server>>

\* Mutant: .env is written before it is backed up, and the state after.
ComposeEnvFirst ==
    /\ At("compose-env")
    /\ IF env # None /\ env.by # "compose" /\ Loaded.backup = None
       THEN env' = [by |-> "compose", runner |-> None, port |-> DefaultPort]
            /\ UNCHANGED <<disk, setupVars>>
       ELSE Exit("ok") /\ UNCHANGED <<disk, env>>
    /\ UNCHANGED <<model, daemon, duck, ladybug, bundled, unit, ollamaUnit, container, server>>

\* verify follows, and any end of it leaves all this as it is.
ComposeEnv ==
    /\ At("compose-env")
    /\ IF env # None /\ Loaded.backup = None
       THEN Save([Loaded EXCEPT !.backup = env]) /\ UNCHANGED <<env, setupVars>>
       ELSE /\ env' = [by |-> "compose", runner |-> None, port |-> DefaultPort]
            /\ \E code \in {"ok", "failed"} : Exit(code)
            /\ UNCHANGED disk
    /\ UNCHANGED <<model, daemon, duck, ladybug, bundled, unit, ollamaUnit, container, server>>

SetupStart == (\E r \in Request : SetupBegins(r)) \/ SetupDeclined \/ SetupRefused

SetupWork ==
    \/ PreflightEarly \/ PreflightRunner
    \/ WriteEnv \/ WriteEnvSaves \/ WriteUpstream
    \/ PullBegins \/ PullPresent \/ PullByHand \/ PullMissing \/ EnsureOllama \/ EnsureSaves
    \/ DownloadBegins \/ DownloadEnds \/ DownloadFails
    \/ SeedBegins \/ CopyBundled \/ InitializeEmpty \/ CheckCorpus
    \/ StartEmbed \/ IngestPacks \/ BulkReembed
    \/ EnableService \/ EnableFails \/ EnableSaves \/ Verify \/ Finish
    \/ PreflightContainer \/ ComposeUp \/ ComposeSaves \/ ComposeEnv
=============================================================================
