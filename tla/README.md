# AgentAlloy in TLA+

AgentAlloy is a local service that composes instructions ("skills") for coding
agents. A proxy stands between the agent and its LLM; it watches the phase the
project is in, retrieves the fragments of skills that fit, puts them into the
request and forwards it. Around the service there are commands: some build the
corpus of skills (the authoring pipeline, `ingest`, `install-packs`, `reembed`),
some wire coding harnesses to the service and unwire them, some move the phase,
some set the machine up and clear it again. The service and the commands share
two databases, a phase file, a state file and the user's own files, with few
locks and no transactions across them.

This directory holds TLA+ modules for the parts of the system whose correctness
depends on the order of steps, TLC configurations that check them on small
instances, and proofs, checked by TLAPS, of the most important properties for
all instances. Paths below are relative to `src/src/agentalloy/` unless they
begin with `docs/` or name a file in capitals (`README.md`, `INSTALL.md`), which
are relative to `src/`.

1. [Inventory](#1-inventory)
2. [The modules](#2-the-modules)
3. [Runs](#3-runs)
4. [Theorems](#4-theorems)
5. [What the models found](#5-what-the-models-found)
6. [Not modelled](#6-not-modelled)
7. [Limits and what could come next](#7-limits-and-what-could-come-next)
8. [Running it](#8-running-it)

## 1. Inventory

### How the parts interact

```
   agent --> proxy --(signal)--> phase file <-- phase set/clear, signal evaluate-phase
               |
               +--(compose)--> orchestrator --> retrieval --> breaker --> embedding service
               |                                    |
               +--(forward)--> upstream LLM         +--> vector store (DuckDB) <-- reembed
                                                    +--> skill graph (LadybugDB) <-- ingest
   authoring --> drafts --> ingest <-- install-pack, install-packs
   wire / unwire / uninstall --> files of the harnesses <-- watcher <-- .agentalloy/
   setup / uninstall / server-start / ... --> install-state.json, .env, models,
                                  daemons, units, both stores
```

- The proxy calls the signal layer, the orchestrator and the upstream in one
  coroutine per request. Coroutines interleave at each `await`; gates and
  retrieval run in worker threads (`asyncio.to_thread`).
- All retrievals of the process share one circuit breaker.
- The graph is locked by the process that has it open. That is all that keeps
  `ingest`, `reembed` and the service apart; `reembed` stops the service through
  systemd and starts it again.
- The phase file, `install-state.json`, the drafts and the harness files have no
  lock.
- A command of `install/` loads `install-state.json` when it begins and saves
  what it loaded when it ends; the subcommands of setup do so one after another.

### Components

For each: the state it keeps (S), its operations (O), what is hard (H), what
makes it correct (C).

- **Embedding circuit breaker** (`retrieval/embedding_errors.py`). S: state, two
  counters, probe slot, time of opening. O: `allow_request`, `record_success`,
  `record_failure`, `state`, `safe_embed`. H: each method takes the lock anew;
  the call to the service is between two of them, so results arrive in a later
  state than they were asked for in. C: the fields agree; the slot is always
  released; open and half-open are left again.
- **Proxy** (`api/proxy_router.py`, `proxy_signal.py`, `proxy_injection.py`,
  `proxy_telemetry.py`). S: the handler's local variables. O: one handler per
  route. H: a dozen ways through it, each of which fails softly; two reads of
  the phase; a thread that outlives its handler. C: every request is answered;
  an answered one went upstream exactly as its trace says; traces name the phase
  that was judged.
- **Composition and retrieval** (`orchestration/`, `retrieval/`). S: none of its
  own. O: `compose`, `retrieve_domain_candidates`, `retrieve_system`, fusion of
  ranks, choice for diversity. H: two retrievals gathered, one of which fails
  first; degradation to lexical search. C: degradable errors degrade; other
  errors reach the handler. The signal phase must be one that retrieval knows.
- **Signal layer** (`signals/`, `api/proxy_signal.py`). S: the phase file. O:
  read phase, pre-filter, evaluate gates, advance. H: phase read before two
  awaits and its successor written after them. C: no phase is skipped; gates
  short-circuit to what full evaluation gives.
- **Phase file** (`signals/skill_loader.py`, `install/subcommands/phase.py`,
  `install/subcommands/signal.py`). S: `.agentalloy/phase` and its temporary
  file. O: read, atomic write, `phase set`, `phase clear`. H: one temporary name
  for all writers; crashes. C: never partial; a lost phase comes back only when
  somebody sets it.
- **Ingest** (`ingest.py`, `storage/` for the graph). S: the skills, versions,
  fragments and edges of the graph. O: load one file or a directory, with
  `--force`, `--strict`, `--yes`. H: each statement commits by itself; a process
  dies or a statement fails between two. C: what is served is whole, of one
  revision; "ok" is true.
- **Vector store** (`storage/vector_store.py`). S: a row per embedded fragment,
  the BM25 index (a snapshot), telemetry tables. O: open, insert, delete,
  rebuild the index, search. C: the index follows the rows; the primary key
  never trips.
- **Re-embed pass** (`reembed/cli.py`). S: its command line, the work left. O:
  stop the service, open, clear for `--force`, discover, embed, rebuild, start
  the service. H: the service may be taken by somebody else's start; each step
  may raise. C: exit code 0 means every served fragment has its row; the service
  comes back.
- **Service lifespan and runtime cache** (`app.py`, `runtime_state.py`). S: open
  connections; a cache read once. O: start, stop. H: startup fails when a
  command holds the lock; systemd tries again.
- **Harness wiring** (`install/subcommands/wire*.py`, `unwire.py`,
  `uninstall*.py`). S: the user's files; `harness_files_written` in
  `install-state.json`. O: `wire`, `wire-harness`, `unwire`, `uninstall`. H: the
  user edits the same files; commands are killed between two files; one list for
  all repositories. C: no file with our lines is forgotten; what the user wrote
  survives; unwire stays in its repository.
- **Packs** (`install/subcommands/install_packs.py`, `install_pack.py`). S: the
  plan of a run; `installed_packs` and `pending_pack_selection` of the state
  file; `pending-review`. O: choose, order with dependencies, copy or fetch,
  load file by file. H: what counts as installed after duplicates, failures and
  kills; packs that need each other. C: dependencies come first; what a partial
  load leaves is found out about.
- **Authoring** (`authoring/`). S: drafts in five directories, reports,
  `.qa-state.json`. O: author, judge, revise, run, process one. H: files are
  written, moved and removed one by one; ids come from a model and name the
  files; kills. C: no draft is lost; none goes back and forth for ever; what is
  approved under an id is what gets served under it.
- **Watcher** (`watch/`, `install/subcommands/watch.py`). S: a pid file; in each
  process the events and the debounce timer; the rules files. O: start, stop,
  schedule, flush. H: a timer that has fired cannot be cancelled, so flushes
  overlap; files are truncated and then written; pids are reused. C: no event is
  forgotten; the rules end up current; the user's text around them survives.
- **Setup wizard** (`install/subcommands/simple_setup.py` and the subcommands it
  calls: `preflight`, `write_env`, `pull_models`, `seed_corpus`,
  `start_embed_server`, `install_packs`, `enable_service`, `verify`). S: nothing
  but the answers. O: the native and the container flow. H: nine commands in
  turn, each with a copy of the state file; kills between any two writes;
  daemons and the service start and stop meanwhile. C: what is verified agrees
  with what was asked for; a second setup mends what a first one left; the
  user's `.env` and daemon survive.
- **Uninstall** (`install/subcommands/uninstall.py`). S: the state file as it
  was when it began. O: one removal after another, by preset or by choice. H:
  the order; what the state file does not know. C: what was ours is gone, what
  was the user's is not.
- **Server process** (`install/server_proc.py`, `server_start.py`,
  `server_stop.py`). S: a process that opens the stores and then listens. O:
  start, stop, both found through the port. H: between spawn and listening it
  has the lock and does not answer.
- **Install state** (`install/state.py`, `reset_step.py`, `update.py`). S:
  `install-state.json` and the record of steps. O: load, record, save, reset a
  step. H: stale copies. C: what one command records the next one finds.
- **Telemetry** (`telemetry/`, `api/proxy_telemetry.py`). S: append-only tables.
  O: one insert, whose failure is swallowed. C: the two logs agree.
- Not modelled (reasons in section 6): **profiles and customisation**,
  **contracts**, **host detection**, **bootstrap, fixtures and snapshots**,
  **clients and servers of protocols**, **linters, parsers and evaluation**.

`PROJECT.json` lists under `hazards` the lines at which each of these is hard to
test, with the properties that watch them.

## 2. The modules

| module | models | uses |
|---|---|---|
| `CircuitBreaker` | the methods of the breaker, as operators on a record | |
| `EmbeddingBreaker` | worker threads in `safe_embed`, with or without the check of `retrieve_domain_candidates` before it | `CircuitBreaker` |
| `Phases` | the phases and their successors | |
| `PhaseRegister` | abstract: a phase that moves one step at a time | `Phases` |
| `PhaseFile` | the phase file under requests, operators and crashes | `Phases`; implements `PhaseRegister` |
| `SkillGraph` | the graph's nodes and edges and the statements on them | |
| `Ingest` | the ingest command, a statement at a time | `SkillGraph` |
| `Packs` | install-pack and install-packs over the ingest command | `Ingest` |
| `VectorStore` | rows and the BM25 index | |
| `Reembed` | the pass and the service's life | `SkillGraph`, `VectorStore` |
| `Corpus` | ingests, passes and the service together, under the lock | `Ingest`, `Reembed` |
| `SharedText` | a text file as a sequence of what stands on its lines (the user's, ours, sentinels) and of newlines | |
| `Wiring` | wire, unwire and uninstall beside the user's edits | `SharedText` |
| `Proxy` | the chat completion handler from request to trace | `EmbeddingBreaker`, `Phases`; implements `EmbeddingBreaker` |
| `Authoring` | drafts between directories, the gate, kills, the operator | |
| `Watcher` | watch processes, their timers and flushes, the writers of what they watch | |
| `Machine` | what the install commands find and leave: state file, `.env`, models, daemon, stores, units, service | |
| `Setup` | setup and its subcommands, a write at a time | `Machine` |
| `Uninstall` | uninstall in its order | `Setup` |
| `Host` | setups, uninstalls, starts, stops and other commands on one machine, with faults | `Uninstall` |

`MC*` modules give TLC its constants; `*Proofs` modules hold theorems. A
definition whose comment begins with `Mutant:` is no part of the model: it is a
plausible bug, by which `PROJECT.json` shows that a property would notice.

### EmbeddingBreaker

`breaker` is the object, with `last_failure_time` reduced to whether the
recovery timeout has passed since (`cooled`). Each action is one taking of the
lock: `PrecheckBreaker` is the `allow_request` of `retrieve_domain_candidates`,
`ReadIsOpen` and `RecheckBreaker` are the two operands of the condition in
`safe_embed`, `EmbedSucceeds` and `EmbedFails` are the end of the call with its
`record_*`. `.state` has a side effect (it may turn the breaker half-open) and
is therefore part of the actions that read it, the error message included.
`FailureCap` bounds a counter that nothing else depends on once it has reached
the threshold.

### PhaseFile

Every system call is an action: open (truncates), write, rename. A descriptor
follows its inode, not its name: after a rename, another writer that still has
the temporary file open writes into the phase file itself. Reading is one
action, because the read of a few bytes is. Requests come from the proxy or from
the `signal evaluate-phase` command, which has the same code in a process of its
own. `seen` and `chosen` are history. `Overlay` is what a text written over
another leaves, for writers that share a file without truncating it again: where
the old name is longer by one, only its line break is left over, and the file
reads as the new phase; where it is longer by more, a piece of the name is, and
the file is torn. `PhaseRegister` says what a project expects of its phase: it
starts somewhere and advances along the graph.

### Ingest, Packs, Reembed, Corpus

A skill is in the graph as a node, a version, two edges from the one to the
other, fragments and their edges; `SkillGraph` keeps a variable for each, so
that a load that stops anywhere leaves exactly what the code would. The prose of
a fragment is the revision of the review file it came from. `Ingest` has the
command's checks in their order and one action per statement of `_insert`;
statements that fail and processes that die are counted, up to `MaxFaults`.

`Packs` drives `Ingest` as the code does, a process per review file, and reads
nothing but its exit code (`OutcomeOf`): an id that is in use counts as a
success, so a pack is recorded as installed over what an earlier, half-done load
has left. `Walk` is `_ordered_with_deps`, a recursive function on the state of
its walk: a work list of packs to visit and to leave stands for the recursion of
the code (`Visit`, `Advance`). An operator may run `ingest` by hand
between two files. A registry is external: a fetch delivers a pack or fails.

In `VectorStore` a row is the revision that was embedded; `index` is the
snapshot that BM25 searches, which no insert updates, and is found through a
join with the rows (`Searchable`). `Reembed` has `main` with its command line,
`Discover` also with the row deletions of `--force` before it. The service is
`up`, `starting`, `waiting` (for systemd to try again) or `down`.

`Corpus` puts them side by side: whoever opens the graph must find it
`Unlocked`; otherwise the command fails as the code does. It starts from the
bundled corpus or from nothing. Both stores are shared, the graph written by
ingests only and the rows by passes only, which is why they can disagree.

### Wiring

A file is a sequence of pieces: a line's text, which is the user's, one of our
two sentinels or the text between them, and the newlines, which the code counts,
takes away and puts in. `Injected` replaces everything from the first BEGIN to
the first END with the newline after it, where both are there, and else appends
the block, after a newline for an unfinished line and, in markdown files, a
blank line. `Stripped` is uninstall's removal: the block, the newline after it
and up to two before it, and then every third newline in a row. `LineStripped`
is that of `uninstall_proxy.py`, which works line by line. The four ways of the
code are kept apart: markdown files with checks for duplicates and for edits
(`Markdown`), configuration files without them (`Config`), files that are ours
alone (`Dedicated`), and those that `uninstall_proxy.py` strips. An entry of
`install-state.json` has the hash (the hashed text itself) and the original
text. A command writes file after file, then records; it may be killed or
refused in between (`Killed`, `Refuse`). Between two commands `Edit` adds a line
of the user's, adds blank lines anywhere, or deletes a line, a sentinel's too.

### Proxy

One record per request holds what the handler has in local variables and what it
has done: the stage (a name per `await`), the phase as read for the trace
(`arrived`, proxy_router.py:290), the phase as judged (`judged`,
proxy_signal.py:87), what the composition recorded, what was forwarded, and the
traces written. What lies between two awaits is one action: the end of every way
through signal and composition also builds the payload and, for a stream, writes
the trace, since the code does so before it awaits again. The retrieving thread
of request `r` is worker `r` of `EmbeddingBreaker`; when the system retrieval
raises (`SystemRaises`) `gather` raises, the handler goes on, and the thread is
left to finish by itself. `disturbed` is history: requests between whose two
reads of the phase somebody else changed it.

The phase here is what `_read_phase` returns, in one variable, because the
interleavings below it are the business of `PhaseFile`. The handler's branch for
a `ValueError` of the client's constructor (proxy_router.py:318) is left out: it
is unreachable, as `upstream_configured` has just seen the two settings the
constructor asks for.

### Authoring

A draft is the source it was written from, in a directory, under an id. Which id
the author model gives is an input (`Named`), new at each revision, since the
file is named by it; so drafts overwrite each other, and the bounces kept by id
move from one to another. Judging, moving, writing the report, saving the
bounces, writing the revision, removing the old draft and removing its report
are actions of their own, because a kill falls between any two of them, and
writing can be cut short (`Torn`). What is left of a torn draft may still be read
(`Finding`): it is unreadable, found in error or approved like any other, and a
revision of it is named as it would have been or anew (`NamedFor`). `mem` is the command's copy of the bounces,
`disk` is `.qa-state.json`. The graph is open while a gate judges, so the
operator's `Ingest` waits. `revisions` and `renamed` are history.

### Watcher

A process is started in three steps (look at the pid file, write it, observe)
and ends in two. Its timer is a thread: `Schedule` cancels the old timer and
starts a new one, `Fire` is the point past which it can no longer be cancelled,
and `Flush` then takes the events, loads the parts, composes, reads the rules
file, truncates and writes it, one action each. Writers of the phase write a
temporary file and rename it, which the observer sees as well; contracts are
written in place. Versions are numbers and `newest` the last of each. A rules
file that is shared with the user also has a state of its sentinels (`Marks`):
the user may delete either of them or both, and `update_block` then appends a
block (`Remarked`), which the next flush finds together with a BEGIN or an END
that is still there from before. `excuse`, `edited`, `cut`, `raced` and `left`
are history: they record the circumstances under which the properties below say
less.

### Machine, Setup, Uninstall, Host

`Machine` is the state the commands share, and the service's own life: spawned,
`opened` (it has created the stores that were missing and locked them), `up` (it
listens). `mine` is the copy of the state file that the running subcommand has
loaded; every action that saves says whether it saves `mine` or what is `Loaded`
then, because that is where entries get lost. `ollamaPid` is whether the file
names the daemon that runs. What can end half-way takes two steps: `EnsureOllama`
spawns and `EnsureSaves` notes the pid; `IngestPacks` loads what packs it can and
`BulkReembed` embeds what it can, also when some pack was refused; `EnableFails`
is a systemctl that fails when the units have been written. `DownloadEnds` takes
the end of a stream for the end of the file, as the code does. One port, 11434, serves for Ollama
and for llama-server, as in the code, so a daemon of one can be taken for one of
the other. The wizard's dialogues are one choice of a request; which preflight
checks fail, and whether the harness's files are found wired, are inputs. Beside
setups and uninstalls, `Host` has the commands that a user gives by themselves:
`server-start`, `server-stop`, `write-env --force`, `reset-step`, `update`,
`install-packs`, `install-pack` and `reembed` (`PacksAlone`, which goes on to the
steps of setup, with nobody `asked`), and `corpus-bootstrap`. Host's
faults are a killed command, a service or a daemon that dies, Ollama started by
its user, and a restart. `Wiring`, which uninstall also undoes, is a module by
itself: it shares no state with these but the list of files.

## 3. Runs

Twelve runs. Ten pass; the two marked *violation* show a statement of the
repository that the code does not keep. Several conditions that belong together
are one invariant (`BreakerSound`, `RowsSound`, ...); its parts are named in the
module.

**breaker_safe_embed**: three threads that call `safe_embed` directly, the way
its docstring describes, both thresholds 2. `BreakerSound`: the fields agree
with the state under late results (`CountersAgree`), and the probe slot is taken
only while a call is in progress that will release it (`ProbeSlotHeld`);
`MovesOn`: neither open nor half-open lasts. *Bounds*: three threads are one
probe, one call from an earlier state, and one to be refused; with thresholds of
2 there is a counter between zero and its threshold. *Fairness*: the scheduler
runs each thread, a call to the service ends (the client has a read timeout),
time passes, and requests keep arriving. The last is needed: the breaker has no
timer of its own and leaves `open` only when somebody looks.

**breaker_recovers** (*violation* of `MovesOn`): the same with the check that
retrieval makes first. See finding 1.

**phase_alone**: one request at a time that may crash anywhere, from five
phases: the four that have a successor, and one that has none. The file is never
partial (`AloneSound`) and implements `PhaseRegister` (`ImplementsRegister`).

**phase_shared**: two requests and an operator, interleaving freely.
`NoPhaseSkipped`: no phase is reached unless another phase that leads to it was
the project's before or an operator chose it (that ship is its own successor
justifies nothing); `DarkUntilSet`: a phase that is lost, by `clear` or by two
writers, does not come back through a request. *Bounds*: two phases to choose
from, one at the start and one near the end of the graph. Their successors have
names of 2 to 6 letters, so that one text over another is torn, or leaves a
further line break (build over design), or covers it.

**phase_partial** (*violation* of `NeverPartial`): finding 2.

**ingest**: four packs over four review files of two skills: a skill in two
revisions with different fragments, a second skill with the first one's name and
deprecated in its favour, and a file that must be refused; two packs need each
other, one is always on, one is remote. Two commands among the choice of setup,
`install-packs`, `install-pack` and the operator's own `ingest`, with up to two
deaths or failing statements. `GraphSound`: the guard that fails every read of
the corpus on one inconsistent skill stays quiet even after faults
(`GuardNeverTrips`), and nobody is served a mixture of revisions
(`OneRevision`); `PacksWhole`: without a fault each skill is as some file has it
when nobody loads it, and `--force` never meets an id in use; `OkMeansLoaded`:
`_insert` returns only when all is there; `StuckForever`: a version that has
lost its edges stays out of reach of every later load, `--force` included;
`PlanOrdered`: a plan holds what its packs need, before them, but for cycles;
`RepairedByForceOnly`: a skill loaded in part is repaired by no pack command;
`CutShortForGood`: a fetch that is cut short makes every later one fail on its
own files. *Bounds*: two faults are one that leaves a skill half done and one in
the attempt to repair it; two commands are the attempt and the repair.

**corpus**: a skill in two revisions, the second with a fragment less; four
command lines of the pass, with and without `--force`, `--dry-run`, `--limit`,
`--skill-id`, `--rebuild-fts` and `--no-restart`; three commands and one fault.
`RowsSound`: no insert meets its own row (`KeyNeverTrips`), and a row differs
from its fragment only after `ingest --force`, until a pass with `--force`
(`StaleOnlyIfReplaced`); `IndexFollows`: with no fault, every row can be found
by its words when no pass is at work; `OkMeansEmbedded`: exit code 0 of a full
pass means every fragment served has a row; `ForcedMeansFresh`: with `--force`,
that the rows are the fragments; `ServiceReturns`: the service that a pass
stopped is up again in the end. *Bounds*: three commands are an ingest, another
revision of it, and a pass, or two passes around an ingest; one fault reaches
every exceptional path, from any of these. *Fairness*: a running process goes
on, and systemd restarts the service (`Restart=on-failure`, in the unit that
`enable_service` writes). No deadlock check: when the operators have given their
commands, nothing need happen any more. The same holds of all runs below but
`proxy`.

**wiring**: one repository and the home directory; opencode (a file that both
modes share, and a second one in one of them), claude-code (a file that moves
with the mode); three commands and two edits, four of these in all.
`WiringSound`: a file with our lines is listed, unless a command was killed,
refused or told to forget (`Tracked`); `OneBlock`: a shared file never has two
blocks; `SurroundingsKept`: wiring keeps the user's lines around the block, in
their order and each on a line of its own, whatever the state of the sentinels;
so does unwiring a file that was new, but that the two lines around the block
may run together; `LegacyKeepsEdits`: and without `--force`, legacy mode keeps
those inside; `UnwireStaysInRepo`. *Bounds*: three commands are wire, re-wire and
unwire; two edits of one file are enough for the user to write on both sides of
a block, or to write and break a sentinel. The other harnesses have files of the
same kinds; what is special about them (aider's configuration file, hermes) is
in the model and the proofs, not in this run.

**proxy**: two requests at a time and an operator, thresholds 1.
`RequestsSound`: an answered request went upstream and left one trace that says
whether it was composed, or, for want of an upstream, neither (`Accounted`); it
is traced as composed exactly when the composition recorded fragments
(`LogsAgree`); the trace names the phase that was judged unless somebody else
changed it between the two reads (`TraceNamesJudged`). `Answered`: every request
is answered, also while the breaker is wedged; `ImplementsBreaker`: whatever the
handlers do, the breaker is used as `EmbeddingBreaker` has it; `WedgedForever`:
once the slot is lost no sequence of requests frees it. *Bounds*: two requests,
so that one can change the phase, open the breaker or hold its slot under the
other; thresholds of 1 shorten the way to each state and skip none; the operator
can set `qa`, from which a request can move on to `ship`, or clear. `Answered`
is said of one of the requests, which are alike. *Fairness*: each request goes
on, in its handler or in its thread (for as long as one of them can); the waits
end since the embedding client has a timeout and the upstream client has
`Timeout(connect=5, read=300, write=30, pool=5)` (app.py:134). Arrivals,
operators and the early failure of the system retrieval are not fair: nothing is
sure to happen that way.

**authoring**: two sources and two ids; the drafts of one source are always
named alike, those of the other as the model likes; a budget of one, two rounds,
two commands, one kill. `AuthoringSound`: an id is sent back at most as often as
the budget allows, once more for each kill (`BudgetHolds`), and an approved
draft whose id is served is what is served (`ReviewedIsServed`); `DraftKept`: a
draft disappears only where another is written over it; `RunClears`: a run that
ends well leaves nothing to revise, and nothing to judge if no id changed and
nothing was killed; `OwnFeedback`: a draft is revised with its own report, but
after a kill; `Ends`: every command ends. *Bounds*: two ids are enough for a
draft to meet another under its id, and MaxRounds = Budget + 1 is the least for
which `RunClears` says something of pending-qa; two commands are a killed one
and its repetition. *Fairness*: one weak fairness of the command's next step:
the models and the stores answer or time out.

**watcher**: two processes for any of two harnesses, two timers, two versions,
one edit, one fault. `WatcherSound`: events that wait for a flush have a timer
(`NothingForgotten`), the pid in the file is a live watcher's unless one died
(`NamedIsAlive`), and there is one watcher unless two starts overlapped
(`Stoppable`); `QuietIsCurrent`: when all is done, the rules show what is on
disk, unless flushes overlapped, one failed, the phase was read too early,
nobody watched, or the user has deleted a sentinel and what was in the block is
the user's now; `UserTextKept`: what the user wrote last is there, unless it was
written after a flush had read the file, the file was read while truncated, or
the user left it below a BEGIN without its END (`cut`) and two flushes have made
it part of the block. *Bounds*: two timers are the least that overlap; `Few` bounds the sum of starts,
versions and writers, so two versions come with one process and one version with
two; processes and timers are alike (symmetry; there is no liveness here).

**host**: four requests (each runner, each kind of service, both deployments, on
two ports), three commands out of all that `Host` has, one fault.
`MachineSound`: what setup has verified agrees (`SetupAgrees`: `.env`, port,
unit, stores); `UserEnvLost`: the user's `.env` is lost only by three named
ways; `StuckUntilRepaired`: no setup gets past empty stores that no seed-corpus
has recorded, nor past a part of a model file; packs that are installed and
embedded by themselves (which is what seed-corpus advises), `corpus-bootstrap`
and an uninstall of the data mend the first, and only an uninstall the second;
`DaemonForgotten`: the Ollama that pull-models has started drops out of the
state file, and so is never stopped, only in three named ways; `UnitForgotten`:
the same of the service's unit. *Bounds*: three commands are setup, a change or an uninstall,
and setup again; one fault anywhere in them. lm-studio stands for the runner
that is neither installed nor started by the commands.

Ingest, phase file, wiring, watcher and host have no fairness: their properties
are about what may never happen.

## 4. Theorems

All hold for every value of the constants under the assumptions named in the
modules (thresholds are positive naturals; `None` is not a value of the sets it
stands beside; review files are records of the right type; `Rank` gives each id
a rank of its own; commands, edits and faults are counted in naturals). TLC
evaluates these assumptions in the runs. Most are of the form `Spec => []Inv`,
from an inductive invariant that is stronger than `Inv`, or
`Spec => [][A]_vars`, from the same invariant; three say that one specification
implements another. They state every safety property that a passing run checks.

**PhaseFileProofs.** `PhasesNeverSkipped`; `DarkStaysDark`; and for a request
that has the file to itself (`Alone`: one request and no operator)
`AloneIsSound` and `AloneImplementsRegister`. `NoPhaseSkipped` is about what
readers could have read; its inductive form (`Carrying` and `Justified`) says
that a request carries a phase that was the project's, that the temporary file
holds a phase that an operator chose or a request was led to (which for ship
means from qa, as a request in ship only writes what is there), and that the
phase file holds one that was seen. For the refinement, the invariant `Exclusive` ties the one descriptor
that may be open to the temporary file.

**IngestProofs.** `GraphIsSound`, `ReportedLoadIsWhole`, `StuckIsPermanent`, all
from one invariant: `Edges` (the two edges of a version exist together, and tied
fragments are of its revision), `Control` (what each step of `_insert` may rely
on) and `Progress` (at the fragments: those tied are exactly those neither left
to do nor half done). The last is what makes "ok" true, as a load ends when
nothing is left to do. `SkillsStayWhole`: without a fault, every skill that is
in the graph between two loads is one review file's, whole; the invariant `Tidy`
says that nothing is untied but what is being made, and that other skills are
not touched (`Apart`).

`PacksDriveIngest`: every behaviour of `Packs` is one of `Ingest`, so all of
this holds under the pack commands. Of these, `PacksLeaveWhole` (without a
fault, every skill in the graph but the one being loaded is whole, and `--force`
finds no id in use) builds on `SkillsStayWhole`; `OnlyForceRepairs` on `BrokenStays`, that a skill that is
there in part is only ever passed over; `CutShortIsForGood` on `Waits`, that only
an install command waits for an ingest. `PlansAreOrdered` is about the recursion
of `_ordered_with_deps`: every pack comes once, and after those it needs unless
they need it in turn. `Walk` is a recursive function, of which one has to
show first that there is one: `Reached` is what the steps `Advance` lead to from
a work list, and it has exactly one end, as the number of packs that are not yet
visited falls, or stays and the list becomes shorter (`WalkEnds`, by the least
such number: lemma `Least`, from the library's theorem that the order of the
naturals is well-founded). `WalkSound` is the invariant of the steps: the packs
in progress are nested by need, and what is placed has what it needs before it.

**CorpusProofs.** `RowsAreSound`: what a pass has left to embed has no row, and
nobody else inserts; the history `replaced` covers each row that differs from
its fragment, through each statement of an ingest and each step of a pass.
`IndexKeepsUp`: rows that the index lacks are there only while a pass is at
work that has still to rebuild it. `GraphStaysSound` carries `GraphIsSound` over
to the composition: the steps of passes and of the service leave the graph
alone, and those of an ingest are steps of `Ingest`. `PassIsComplete` and
`ForcedPassIsFresh` rest on `Excluding` (while a pass holds the lock of the
stores no ingest runs and the service is not up, so nobody moves the graph
under it) and on `Ahead`: as long as no fragment has failed, what a whole pass
has not yet to embed has a row, and with `--force` each row is the fragment's.

**WiringProofs.** `WiringIsSound`; `UnwireStays`; `BlocksAreSingle`;
`SurroundingsStay`; `EditsStay`. The operators of `SharedText` choose least
positions and select lines by rank; the lemmas `Least` and `Rank` show that
there are such positions (from the library's theorem that strict inclusion of
finite sets is well-founded), and others that what is selected is a text.
`Tracked` then rests on what a text in which none of our lines is left can come
from: a file grows such lines only by a command that has it staged. That there
is one pair of sentinels at most is not inductive, as deleting a line can join
two; that BEGIN, END, BEGIN, END do not occur in this order (`Alternating`, with
anything between) is, since deletions, selections and restored originals cannot
bring it about and wiring refuses the texts in which a new block could.
`BlocksInv` says so of files and of recorded originals, and that an entry's hash
is of one of our bodies, so that where the tamper check or a removal finds it
between the sentinels, no line of the user's stands there (`InnerApart`). What
is kept (`KeptIn`) is then shown by the place each line has in the new text: what
is put in place of a part leaves those before it where they are and shifts those
after it (`SpliceKeeps`); taking newlines away gives each line its rank among
what is left, and keeps a newline between any two lines that had one
(`CollapsedKeeps`). Two lines can run together only where all that stood between
them went, and then a sentinel did.

**ProxyProofs.** Of the breaker, for worker threads of any number:
`BreakerIsSound`, from `TypeCorrect`, `CountersAlwaysAgree` and
`SafeEmbedHoldsSlot` (when requests do not make the check of retrieval first,
the slot is held by a call), and `WedgeIsPermanent`. The operators on the
breaker preserve `CountersAgree` each by itself (`MethodsAgree`), so it is
inductive with the types. `UsesBreaker`: each step of the proxy is a step of the
breaker or leaves it alone; hence `ProxyWedged`, from `WedgeIsPermanent`.
`RequestsAreSound`, with `EveryRequestAccounted`, `LogsAlwaysAgree` and
`TracesNameTheJudged`, follows from `ProxyInv`: for each handler, what has been
recorded, forwarded and traced at its stage. Almost all actions replace the
state of one handler, so a handler's step is first shown to be one of a few
shapes (`HandlerAdvances`), which then preserve the invariant.

**AuthoringProofs.** `AuthoringIsSound`. That no id is sent back too often is
not inductive; `Counted` is: the times it was sent back are bounded by what the
running command, or else the file, has counted, plus a budget for each kill.
`PhaseInv` says which of the two copies counts in which phase.
`ReviewedIsServed` follows as an id gets into the graph only while no gate
judges. `DraftsStay`, `FeedbackIsOwn` and `RunsClear` share `DraftInv`: `InHand`
(where the drafts in hand are, and that a draft about to be unlinked has been
written over), `SentBack` (what is in pending-revision was counted, and its
report is written or next), `RunInv` and `RoundInv`, which has the argument for
the last: a draft that is still there in round n was sent back n times, and that
is never more than the budget.

**WatcherProofs.** `WatcherIsSound`. `NothingForgotten` needs `TimerOwned`: the
timer that a process remembers is a thread of its own whose flush has not taken
the events yet. `NamedIsAlive` and `Stoppable` need each other and
`CheckedAlone`: without overlapping starts, a process that is about to write the
pid file is the only one. `UserTextIsKept` and `RulesAreCurrent` come from
`FlushInv`: `Alone` (without overlapping flushes, one thread at a time is past
its wait), `TextHeld` (what a flush holds of the user's text is what is in the
file) and `Current`. That the rules are current when all is quiet becomes
inductive as a statement about every moment: what the rules, or a flush about to
write them, show of a part is its newest version, or that part is on its way to
them (`OnTheWay`: an event that waits for its timer, a flush that has still to
load the part, or a writer that has yet to finish).

**HostProofs.** `MachineIsSound`, `UserEnvLostOnlyThere`, `StuckTillRepaired`,
`DaemonsForgottenOnlyThere` and `UnitsForgottenOnlyThere`: the exceptions each
names are all there are. `DaemonsAreSpared`, which no run checks: no command
stops a daemon but the one that pull-models started and that of a unit which it
removes. `Copied`: the state a subcommand has loaded is still the one in the
file when it saves, but for the daemon's pid at the end of a download, so a save
loses that and nothing else. `Agreed` says at each step of a setup how far the
machine is already what was asked for; it is what makes `SetupAgrees` inductive,
through daemons that come and go and a service that dies and is restarted at any
moment. `BackedUp`, `UnitRemoved` and `DaemonStopped` are the same for the backup
of the user's `.env` and, during an uninstall, for the unit and the daemon.

**Only model-checked.** Liveness (`MovesOn`, `Answered`, `ServiceReturns`,
`Ends`): the prover has no rules for fairness of actions and ENABLED. So are
what the two runs that expect a violation show: that a behaviour exists is no
theorem of the specification.

## 5. What the models found

Two runs show the code doing other than it says:

1. **A probe refused by its own caller** (retrieval/embedding_errors.py:331).
   `retrieve_domain_candidates` reserves the half-open slot and then calls
   `safe_embed`, which asks again, is refused, and reports to nobody. The
   breaker stays half-open until the process ends; every retrieval is lexical.
   The class says "half_open: one probe call allowed. Success → closed; failure
   → open again." (line 145). `WedgedForever` proves that nothing in the proxy
   repairs it.
2. **The phase file is published half written** (signals/skill_loader.py:71):
   all writers share one temporary name, so one truncates what the other
   renames. The docstring promises that "concurrent writers never leave a
   partially-written file" (lines 66-67).

Other places where the code loses or misses something are in the models as they
are in the code; the properties name them as the exceptions under which they say
less, or prove that they are final:

- *Setup.* `write-env --force` saves the backup of the user's `.env` and then
  overwrites it with the state it loaded before (write_env.py:224); uninstall
  restores `.env` into a directory that it removes afterwards (uninstall.py:1199)
  and, with no setup before it, removes the user's (`UserEnvLost`). A GGUF file
  counts as the model when a kill has cut it short, or the connection: the loop
  ends when nothing more can be read, and the length is not compared with the
  one announced (pull_models.py:428); every later setup takes it for the model
  (`StuckUntilRepaired`). The pid of the
  Ollama that `pull-models` starts is saved and overwritten (pull_models.py:786),
  so uninstall does not stop it (`DaemonForgotten`). A setup killed between the
  stores' creation and the record, a service started first, or packs installed
  first without being embedded, stops every setup after it at seed-corpus
  (`StuckUntilRepaired`). Its message names `install-packs` as the way out, and
  with an endpoint that embeds it is one. A pull that is recorded is not repeated for
  another runner (pull_models.py:675); models that were there before are
  recorded as pulled, and uninstall removes them (pull_models.py:787). A `.env`
  from the container setup makes a later native setup refuse.
- *Service.* `verify` may look while the service has the stores locked and does
  not answer yet (verify.py:571). The unit is forgotten by a later manual setup
  (enable_service.py:554). `_poll_health` there waits for "ok" or "degraded",
  and `/health` says "healthy". `start-embed-server` takes any listener on 11434
  for the runner.
- *Packs.* A skill that is there in part counts as a duplicate and its pack as
  installed (`RepairedByForceOnly`); an install that was cut short meets its own
  files in `pending-review` (install_pack.py:583, `CutShortForGood`); `all`
  chosen in setup is stored as the name of a pack.
- *Authoring.* Bounces are never reset and belong to an id, so drafts share
  them; a draft overwrites an approved one of the same id; after a kill a draft
  may be revised with the report on another (`OwnFeedback`).
- *Watcher.* Overlapping flushes write in the wrong order; `update_block` reads
  a file that another flush has truncated; nothing is brought up to date at the
  start; a stale pid file names whatever process has that pid now
  (`QuietIsCurrent`, `UserTextKept`, `NamedIsAlive`). `update_block` replaces from
  the first BEGIN to the first END and appends a block unless both are there
  (regenerators.py:31-47): where the user has deleted END, a first flush appends a
  block and the next one replaces all from the old BEGIN to the new END, what the
  user wrote below it included, though its docstring has it preserve "all
  content outside the block"; where BEGIN is gone, or END is above it, a stale
  block stays in the file.
- *Re-embedding.* `--dry-run --force` deletes the rows of its scope
  (reembed/cli.py:535), though `--dry-run` promises to report "without calling
  LM Studio or writing DuckDB" (line 468). A process that dies during a pass
  leaves the service down; a later pass with nothing to embed does not rebuild a
  half-done index. Lines 17-18 say "3 attempts", "hard failure halts"; there are
  four attempts, and the pass goes on and exits with an error.
  docs/operator.md:287: fragments that changed are said to be embedded again;
  discovery skips what has a row.
- *Wiring.* `_remove_sentinel_block` takes the newlines on both sides of the
  block with it (uninstall.py:407-427): unless there is a blank line after it, or
  two before it, the user's line before and the line after become one, and
  further blank lines of the file are dropped. unwire restores a file that existed as it was when last wired, and
  what was written since is lost (uninstall.py:861; `INSTALL.md`:353: "removes
  only what's between the markers, so your other content is safe."). A re-wire
  replaces the recorded original by the text that is there then
  (wire_harness.py:1315); unwire leaves its entries behind (uninstall.py:786);
  the list of known suffixes (uninstall.py:800) misses several files that wiring
  writes; unwire in any repository removes `~/.agentalloy/claude-code-env.sh`;
  `unwire --force` deletes a file whose sentinels are gone.
- *Proxy.* Phase ship has no categories (retrieval/domain.py:129), so nothing is
  composed in it, though the installed instruction lists it
  (install/harness_templates/proxy-instruction.md:16).

Seen on the way and outside the models: docs/proxy-architecture.md:236 "Every
proxy request writes a trace" (not refused ones, nor the Anthropic route); lines
148-149 there have composition wait for the gates, where the pre-filter decides;
line 182 names a cache of compositions, of which there is none; README.md:149
has the next workflow skill's prose emitted after a transition, where the proxy
composes for the phase it judged; app.py:119 builds `httpx.Timeout` without a
default, which raises and is suppressed, so `/v1/embeddings` always answers 503.

## 6. Not modelled

- *Payloads*: texts of skills, prompts, vectors, scores and JSON. A revision, a
  source, a version, a line or a phase stands for them.
- *Death of the service during a request, and clients that hang up*: handlers
  keep nothing that outlives them but the phase and the traces; the phase file's
  crashes are in `PhaseFile`.
- *Failing inserts of telemetry*: swallowed in one place; `traces` counts
  attempts.
- *Anthropic route, its converter of streams, and the pass-through of
  embeddings*: no state shared with anything modelled.
- *How gates and pre-filter decide, fusion of ranks, choice for diversity*:
  pure functions of scores and texts; their results are inputs.
- *Two install commands at a time*: each saves the state whole, without a lock,
  and both write the same temporary file; any entry of the earlier one may be
  lost (hazard at install/state.py:410). The wizard is run by hand, one at a
  time, and everything `Host` says would need that exception.
- *Continue, Cline and MCP wiring* (JSON merged, not marked) and two
  repositories at once in the run (the proofs have any number).
- *macOS and Windows* branches of service and server; the removal of the CLI;
  a service that still holds the lock of stores which an uninstall has deleted
  on another port counts as holding that of the new ones.
- *Profiles and customisation*: `profiles.yaml` and directories, edited by one
  command at a time. *Contracts*: one markdown file at a time; that the watcher
  reads it is in `Watcher`.
- *Host detection, bootstrap, fixtures and snapshots, protocol clients, linters,
  parsers, evaluation*: tables, one-time copies and pure functions of a file.

## 7. Limits and what could come next

The modules were built in the order of what depends on them: breaker, phase
file, ingest, re-embed and their composition, wiring, proxy; then packs over
ingest, authoring, watcher, and the machine that setup and uninstall work on.
What would add most now:

1. **Liveness proofs**, with a prover that knows ENABLED: all that the runs
   check beside it is proved.
2. **Two install commands at once** over `Machine`, with the temporary file of
   `_atomic_write` as in `PhaseFile`.
3. **Composition** of `Host` with `Corpus` (setup's packs and the service's
   lock) and with `Wiring` (the list of files in the state file).
4. **Pure algorithms**: gates against full evaluation, fusion of ranks and
   diversity against what they promise.

## 8. Running it

    tlc -workers 4 -config Corpus.cfg MCCorpus.tla
    tlapm ProxyProofs.tla

`PROJECT.json` names each run, the lines each definition models (`map`), a
mutant for each property, the findings, hazards and theorems.
