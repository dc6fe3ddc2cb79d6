-------------------------------- MODULE Corpus --------------------------------
(***************************************************************************)
(* The corpus as a whole: the ingest command, the re-embed pass and the    *)
(* service, which exclude one another by the lock of the graph, and die,   *)
(* fail and start again in any order.  The rows of the vector store are    *)
(* meant to follow the fragments of the graph.                             *)
(***************************************************************************)
EXTENDS Ingest, Reembed

CONSTANTS
    Seed,       \* the review files the bundled corpus was built from
    MaxRuns     \* how many commands the operators give

ASSUME SeedAssumption ==
    /\ Seed \subseteq Review
    /\ \A r, q \in Seed : r.id = q.id => r = q

ASSUME RunsAssumption == MaxRuns \in Nat

VARIABLES
    replaced,   \* history: the skills whose fragments an ingest with --force has
                \* deleted, and whose rows no pass with --force has deleted since
    runs        \* history: how many commands there have been

corpusVars == <<vars, reembedVars, replaced, runs>>

CorpusTypeOK ==
    /\ TypeOK
    /\ ReembedTypeOK
    /\ replaced \subseteq Skill
    /\ runs \in 0 .. MaxRuns

\* The corpus that ensure_corpus_seeded copies: whole, embedded and indexed.
SeedOf(s) == {r \in Seed : r.id = s}

Seeded == {f \in Fragment : \E r \in SeedOf(f[1]) : f[2] \in FragmentsOf(r)}

SeededCorpus ==
    /\ skill = [s \in Skill |-> IF SeedOf(s) = {} THEN None
                                ELSE NodeOf(CHOOSE r \in SeedOf(s) : TRUE)]
    /\ version = [s \in Skill |-> IF SeedOf(s) = {} THEN None
                                  ELSE (CHOOSE r \in SeedOf(s) : TRUE).rev]
    /\ hasVersion = {s \in Skill : SeedOf(s) # {}}
    /\ currentVersion = hasVersion
    /\ fragment = [f \in Fragment |-> IF f \in Seeded THEN version[f[1]] ELSE None]
    /\ decomposes = Seeded
    /\ rows = [f \in Fragment |-> fragment[f]] /\ index = rows /\ indexBuilt = TRUE

CorpusInit ==
    /\ SeededCorpus \/ (GraphInit /\ StoreInit)
    /\ IngestInit /\ PassInit
    /\ replaced = {} /\ runs = 0

\* No process has the graph open.
Unlocked == mode = "idle" /\ ~Holding /\ service # "up"

\* One more command of an operator.
Given == runs < MaxRuns /\ runs' = runs + 1

-----------------------------------------------------------------------------
(* Ingest. *)

StartIngest == Unlocked /\ Given /\ Start /\ UNCHANGED <<reembedVars, replaced>>

IngestLockedOut ==
    /\ ~Unlocked
    /\ Given
    /\ OpenFails
    /\ UNCHANGED <<reembedVars, replaced>>

IngestWorks ==
    /\ Work
    /\ replaced' = IF step = "delete" /\ fragment' # fragment THEN replaced \cup {current.id} ELSE replaced
    /\ UNCHANGED <<reembedVars, runs>>

IngestCrashes == Crash /\ UNCHANGED <<reembedVars, replaced, runs>>
-----------------------------------------------------------------------------
(* The service. *)

ServiceWorks ==
    /\ \/ Unlocked /\ ServiceOpens
       \/ ~Unlocked /\ ServiceLocked
       \/ ServiceRetries
    /\ UNCHANGED <<vars, replaced, runs>>

ServiceFaults ==
    /\ Fault
    /\ (Unlocked /\ ServiceOpensUnindexed) \/ ServiceDies
    /\ UNCHANGED <<graphVars, mode, force, queue, current, step, todo, made, failed, exit>>
    /\ UNCHANGED <<replaced, runs>>

OperatorStarts == Given /\ ServiceStarted /\ UNCHANGED <<vars, replaced>>
-----------------------------------------------------------------------------
(* The pass. *)

StartPass == Given /\ (\E o \in Command : Begin(o)) /\ UNCHANGED <<vars, replaced>>

PassDiscovers ==
    /\ \E kept \in SUBSET Fragment : Discover(kept)
    /\ replaced' = IF opts.force THEN {s \in replaced : ~InScope(opts, s)} ELSE replaced

PassWorks ==
    /\ \/ Unlocked /\ Open /\ UNCHANGED replaced
       \/ ~Unlocked /\ OpenRaises /\ UNCHANGED replaced
       \/ PassDiscovers
       \/ (\E f \in Fragment : Embed(f) \/ EmbedFails(f)) /\ UNCHANGED replaced
       \/ (EndEmbedding \/ Drop \/ Create \/ Return) /\ UNCHANGED replaced
    /\ UNCHANGED <<vars, runs>>

PassFaults ==
    /\ Fault
    /\ \/ (\E o \in Command : BeginWithoutStopping(o)) /\ Given
       \/ /\ (Unlocked /\ OpenUnindexed) \/ OpenRaises \/ RebuildFails \/ Interrupted
             \/ ReturnWithoutStarting \/ Killed
          /\ UNCHANGED runs
    /\ UNCHANGED <<graphVars, mode, force, queue, current, step, todo, made, failed, exit>>
    /\ UNCHANGED replaced

CorpusNext ==
    \/ StartIngest \/ IngestLockedOut \/ IngestWorks \/ IngestCrashes
    \/ ServiceWorks \/ ServiceFaults \/ OperatorStarts
    \/ StartPass \/ PassWorks \/ PassFaults

\* A process that runs goes on, and systemd starts the service again after
\* RestartSec.
CorpusFairness ==
    /\ WF_corpusVars(IngestWorks)
    /\ WF_corpusVars(PassWorks)
    /\ WF_corpusVars(ServiceWorks)

CorpusSpec == CorpusInit /\ [][CorpusNext]_corpusVars /\ CorpusFairness
-----------------------------------------------------------------------------
(* Properties. *)

\* The primary key of fragment_embeddings never trips: whatever a pass has left
\* to embed has no row, with --force too, whose caller must have cleared the
\* scope.
KeyNeverTrips == pass = "embedding" => work \cap Present = {}

\* A row goes stale in one way only: an ingest with --force replaces the skill.
\* A pass without --force never notices (it skips what has a row), so until a
\* pass with --force the service searches the old prose.
StaleOnlyIfReplaced ==
    \A f \in Present : rows[f] = fragment[f] \/ f[1] \in replaced

\* What the rows are, whatever is interrupted or dies.
RowsSound == CorpusTypeOK /\ KeyNeverTrips /\ StaleOnlyIfReplaced

\* A pass over the whole corpus that ends with exit code 0 has given every
\* fragment the service serves a row.
OkMeansEmbedded ==
    [][pass # "leaving" /\ pass' = "leaving" /\ result' = "ok"
       /\ opts.scope = None /\ ~opts.limited /\ ~opts.dryRun
         => (ActiveFragments \subseteq Present)']_corpusVars

\* If it also had --force, the rows are the fragments: none is stale, none is
\* left of a skill that is gone.
ForcedMeansFresh ==
    [][pass # "leaving" /\ pass' = "leaving" /\ result' = "ok"
       /\ opts.scope = None /\ ~opts.limited /\ ~opts.dryRun /\ opts.force
         => (Present = ActiveFragments /\ (\A f \in Present : rows[f] = fragment[f]))']_corpusVars

\* With no fault, whatever has a row can be found by its words, whenever no pass
\* is at work: no early return leaves rows behind that the index does not have.
IndexFollows == faults = 0 /\ ~Holding => Searchable = Present

\* The service that a pass stopped is up again in the end, whatever the pass met
\* and whoever takes the databases before the service does, unless something
\* fails from outside or a later pass is told to leave it down.
ServiceReturns ==
    stopped /\ ~opts.noRestart ~>
        service = "up" \/ faults > 0 \/ (opts # None /\ opts.noRestart)
=============================================================================
