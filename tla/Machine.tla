-------------------------------- MODULE Machine --------------------------------
(***************************************************************************)
(* What the commands of install/ find and leave on a user's machine: the   *)
(* state file, .env, the models, the daemon that serves embeddings, the    *)
(* two stores, the service's unit and its process.                         *)
(***************************************************************************)
EXTENDS Naturals

CONSTANTS
    Port,       \* ports the service may be given
    Installed,  \* the runners whose program is on the PATH
    None

Runner == {"ollama", "llama-server", "lm-studio"}

\* The steps that commands record.
StepName == {"detect", "write-env", "pull-models", "seed-corpus", "enable-service", "verify"}

\* .env: who wrote it, and for which runner and port.
EnvFile == [by : {"user", "setup", "compose"}, runner : Runner \cup {None}, port : Port \cup {None}]
UserEnv == [by |-> "user", runner |-> None, port |-> None]

\* install-state.json.
StateFile == [steps : SUBSET StepName, backup : EnvFile \cup {None}, port : Port,
              models : SUBSET Runner, ollamaPid : BOOLEAN, unit : BOOLEAN,
              deployment : {"none", "native", "container"}]

\* What listens on 11434, the port of Ollama and of llama-server alike: the
\* program, and what started it.
Daemon == [program : {"ollama", "llama-server"},
           by : {"user", "preflight", "pull", "embed", "unit"}]

Server == [port : Port, by : {"unit", "hand"}, stage : {"spawned", "opened", "up"}]

\* The unit of the service, with its copy of .env.
Unit == [port : Port, env : EnvFile \cup {None}]

\* None is not a value of what it stands beside.
ASSUME MachineAssumption ==
    /\ Installed \subseteq Runner /\ Port # {}
    /\ None \notin Port \cup Runner
    /\ None \notin EnvFile /\ None \notin StateFile
    /\ None \notin Daemon /\ None \notin Server /\ None \notin Unit

VARIABLES
    disk,       \* install-state.json, or None
    env,        \* .env, or None
    model,      \* model[r]: the embedding model in r's store
    daemon,     \* the daemon that serves embeddings, or None
    duck,       \* skills.duck
    ladybug,    \* the graph store
    bundled,    \* the package has a corpus of its own
    unit,       \* the service's unit: the port it names and its copy of .env, or None
    ollamaUnit, \* whose ollama.service there is, "none" if there is none
    container,  \* the compose stack runs
    server      \* the service's process, or None

machineVars == <<disk, env, model, daemon, duck, ladybug, bundled, unit, ollamaUnit,
                 container, server>>

MachineTypeOK ==
    /\ disk \in StateFile \cup {None}
    /\ env \in EnvFile \cup {None}
    /\ model \in [Runner -> {"absent", "partial", "whole"}]
    /\ daemon \in Daemon \cup {None}
    /\ duck \in {"absent", "empty", "full"}
    /\ ladybug \in {"absent", "empty", "full"}
    /\ bundled \in BOOLEAN
    /\ unit \in Unit \cup {None}
    /\ ollamaUnit \in {"none", "user", "ours"}
    /\ container \in BOOLEAN
    /\ server \in Server \cup {None}

DefaultPort == CHOOSE p \in Port : TRUE

\* _empty_state.
EmptyState == [steps |-> {}, backup |-> None, port |-> DefaultPort, models |-> {},
               ollamaPid |-> FALSE, unit |-> FALSE, deployment |-> "none"]

\* load_state.
Loaded == IF disk = None THEN EmptyState ELSE disk

\* save_state, atomically.
Save(st) == disk' = st

\* record_step.
Recorded(st, step) == [st EXCEPT !.steps = @ \cup {step}]

Completed(step) == step \in Loaded.steps
-----------------------------------------------------------------------------
(* The service. *)

\* start_background and uvicorn, up to the lifespan.  The process of a second
\* server finds the graph store locked and dies.
Spawn(port, by) ==
    server' = IF server = None THEN [port |-> port, by |-> by, stage |-> "spawned"] ELSE server

\* The lifespan opens the stores, creates those that are missing, and locks the
\* graph; uvicorn listens afterwards.
LifespanOpens ==
    /\ server # None /\ server.stage = "spawned"
    /\ server' = [server EXCEPT !.stage = "opened"]
    /\ duck' = IF duck = "absent" THEN "empty" ELSE duck
    /\ ladybug' = IF ladybug = "absent" THEN "empty" ELSE ladybug
    /\ UNCHANGED <<disk, env, model, daemon, bundled, unit, ollamaUnit, container>>

LifespanDone ==
    /\ server # None /\ server.stage = "opened"
    /\ server' = [server EXCEPT !.stage = "up"]
    /\ UNCHANGED <<disk, env, model, daemon, duck, ladybug, bundled, unit, ollamaUnit, container>>

\* find_listening_pid.
ListensOn(port) == server # None /\ server.stage = "up" /\ server.port = port

\* systemd starts the service as its unit says.
StartedByUnit ==
    IF unit = None THEN None ELSE [port |-> unit.port, by |-> "unit", stage |-> "spawned"]

StoreLocked == server # None /\ server.stage # "spawned"

\* Whether a request for an embedding to the endpoint that e names is answered
\* with a vector of the right length.  llama-server does not look at the name of
\* the model; one the user runs serves a model of his own.
Embeds(e) ==
    /\ e # None /\ e.runner # None
    /\ \/ e.runner = "lm-studio" /\ model["lm-studio"] = "whole"
       \/ /\ e.runner # "lm-studio"
          /\ daemon # None
          /\ \/ daemon.program = "llama-server" /\ daemon.by # "user"
             \/ daemon.program = "ollama" /\ e.runner = "ollama" /\ model["ollama"] = "whole"
=============================================================================
