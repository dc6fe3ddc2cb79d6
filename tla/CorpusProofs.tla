----------------------------- MODULE CorpusProofs -----------------------------
(***************************************************************************)
(* Theorems about the rows of the vector store, for any skills, files,     *)
(* command lines and number of commands, with faults anywhere.  What the   *)
(* ingest command does to the graph is known from IngestProofs.            *)
(***************************************************************************)
EXTENDS Corpus, IngestProofs

\* Rows and fragments are functions on the fragments.
Shape ==
    /\ rows = [f \in Fragment |-> rows[f]]
    /\ fragment = [f \in Fragment |-> fragment[f]]

RowsInv == Shape /\ KeyNeverTrips /\ StaleOnlyIfReplaced
-----------------------------------------------------------------------------
\* A step that leaves rows and fragments alone, and begins no embedding, keeps
\* the invariant.
LEMMA RowsUntouched ==
    ASSUME RowsInv, UNCHANGED <<rows, fragment, replaced>>,
           pass' = "embedding" => pass = "embedding" /\ work' \subseteq work
    PROVE  RowsInv'
<1>1. Shape' /\ StaleOnlyIfReplaced'
  BY DEF RowsInv, Shape, StaleOnlyIfReplaced, Present
<1>2. KeyNeverTrips'
  BY DEF RowsInv, KeyNeverTrips, Present
<1> QED BY <1>1, <1>2 DEF RowsInv

\* A statement of an ingest: fragments that --force deletes belong to a skill
\* that is replaced from then on, and one that is created again had no node, so
\* that its row, if any, was stale before.
LEMMA IngestWorksKeeps ==
    ASSUME RowsInv, IngestWorks
    PROVE  RowsInv'
<1>1. UNCHANGED <<rows, pass, work>> /\ replaced \subseteq replaced'
  BY DEF IngestWorks, reembedVars, storeVars, passVars
<1>2. KeyNeverTrips'
  BY <1>1 DEF RowsInv, KeyNeverTrips, Present
<1>3. CASE UNCHANGED fragment
  BY <1>1, <1>2, <1>3 DEF RowsInv, Shape, StaleOnlyIfReplaced, Present
<1>4. CASE InsertDelete /\ fragment' # fragment
  <2>1. /\ current.id \in replaced'
        /\ fragment' = [f \in Fragment |-> IF f \in Matched(current.id) THEN None ELSE fragment[f]]
    BY <1>4 DEF IngestWorks, InsertDelete, Statement, DeleteSkill
  <2>2. ASSUME NEW f \in Fragment, fragment'[f] # fragment[f]
        PROVE  f[1] \in replaced'
    BY <2>1, <2>2 DEF Matched
  <2>3. StaleOnlyIfReplaced'
    BY <1>1, <2>2 DEF RowsInv, StaleOnlyIfReplaced, Present
  <2>4. Shape'
    BY <1>1, <2>1 DEF RowsInv, Shape
  <2> QED BY <1>2, <2>3, <2>4 DEF RowsInv
<1>5. ASSUME NEW q \in Sequence, InsertFragment(q)
      PROVE  RowsInv'
  <2> DEFINE g == <<current.id, q>>
  <2>1. fragment[g] = None /\ fragment' = [fragment EXCEPT ![g] = current.rev]
    BY <1>5 DEF InsertFragment, CreateFragment
  <2>2. ASSUME NEW f \in Present, fragment'[f] # fragment[f]
        PROVE  f[1] \in replaced
    <3>1. f = g
      BY <2>1, <2>2 DEF RowsInv, Shape, Present
    <3> QED BY <2>1, <3>1 DEF RowsInv, StaleOnlyIfReplaced, Present
  <2>3. StaleOnlyIfReplaced'
    BY <1>1, <2>2 DEF RowsInv, StaleOnlyIfReplaced, Present
  <2>4. Shape'
    BY <1>1, <2>1 DEF RowsInv, Shape
  <2> QED BY <1>2, <2>3, <2>4 DEF RowsInv
<1>6. \/ UNCHANGED fragment
      \/ InsertDelete
      \/ \E q \in Sequence : InsertFragment(q)
  BY DEF IngestWorks, Work, NextFile, EndBatch, InsertSkill, InsertVersion, InsertEdges,
         InsertFragmentEdge, InsertDone, InsertFails, graphVars, CreateSkill, CreateVersion,
         CreateVersionEdges, CreateFragmentEdge
<1> QED BY <1>3, <1>4, <1>5, <1>6

\* Discovery: with --force the scope is cleared of rows, and what is to be
\* embedded is in the scope; without it, what is to be embedded has no row.
LEMMA DiscoverKeeps ==
    ASSUME RowsInv, PassDiscovers, UNCHANGED fragment
    PROVE  RowsInv'
<1>1. PICK kept \in SUBSET Fragment : Discover(kept)
  BY DEF PassDiscovers
<1>2. kept \subseteq Discovered(opts) /\ Clear(opts) /\ (pass' = "embedding" => work' = kept)
  BY <1>1 DEF Discover, LeaveWith
<1>3. CASE opts.force
  <2>1. rows' = [f \in Fragment |-> IF f[1] \in {s \in Skill : InScope(opts, s)}
                                    THEN None ELSE rows[f]]
    BY <1>2, <1>3 DEF Clear, DeleteRows
  <2>2. Shape'
    BY <2>1 DEF RowsInv, Shape
  <2>3. \A f \in Present' : f \in Present /\ rows'[f] = rows[f] /\ ~InScope(opts, f[1])
    BY <2>1 DEF Present, Fragment
  <2>4. KeyNeverTrips'
    BY <1>2, <2>3 DEF KeyNeverTrips, Discovered
  <2>5. replaced' = {s \in replaced : ~InScope(opts, s)}
    BY <1>3 DEF PassDiscovers
  <2>6. StaleOnlyIfReplaced'
    BY <2>3, <2>5 DEF RowsInv, StaleOnlyIfReplaced
  <2> QED BY <2>2, <2>4, <2>6 DEF RowsInv
<1>4. CASE ~opts.force
  <2>1. UNCHANGED <<rows, replaced>>
    BY <1>2, <1>4 DEF Clear, storeVars, PassDiscovers
  <2>2. KeyNeverTrips'
    BY <1>2, <1>4, <2>1 DEF KeyNeverTrips, Discovered, Present
  <2>3. Shape' /\ StaleOnlyIfReplaced'
    BY <2>1 DEF RowsInv, Shape, StaleOnlyIfReplaced, Present
  <2> QED BY <2>2, <2>3 DEF RowsInv
<1> QED BY <1>3, <1>4

\* A row that is inserted is of the fragment as it is, and is inserted once.
LEMMA EmbedKeeps ==
    ASSUME RowsInv, NEW f \in Fragment, Embed(f), UNCHANGED <<fragment, replaced>>
    PROVE  RowsInv'
<1>1. /\ rows' = [rows EXCEPT ![f] = fragment[f]]
      /\ work' = work \ {f}
      /\ pass = "embedding" /\ pass' = pass
  BY DEF Embed, InsertRow
<1>2. Shape' /\ \A g \in Fragment : rows'[g] = IF g = f THEN fragment[f] ELSE rows[g]
  BY <1>1 DEF RowsInv, Shape
<1>3. KeyNeverTrips'
  BY <1>1, <1>2 DEF RowsInv, KeyNeverTrips, Present
<1>4. StaleOnlyIfReplaced'
  BY <1>2 DEF RowsInv, StaleOnlyIfReplaced, Present
<1> QED BY <1>2, <1>3, <1>4 DEF RowsInv
-----------------------------------------------------------------------------
LEMMA CorpusStepKeeps ==
    ASSUME RowsInv, [CorpusNext]_corpusVars
    PROVE  RowsInv'
<1> USE DEF graphVars, storeVars, passVars, reembedVars
<1>1. CASE UNCHANGED corpusVars
  BY <1>1, RowsUntouched DEF corpusVars, vars
<1>2. CASE StartIngest \/ IngestLockedOut
  <2>1. UNCHANGED fragment
    BY <1>2 DEF StartIngest, IngestLockedOut, Start, Single, Batch, OpenFails, Refuse
  <2> QED BY <1>2, <2>1, RowsUntouched DEF StartIngest, IngestLockedOut
<1>3. CASE IngestWorks
  BY <1>3, IngestWorksKeeps
<1>4. CASE IngestCrashes
  BY <1>4, RowsUntouched DEF IngestCrashes, Crash
<1>5. CASE ServiceWorks \/ ServiceFaults \/ OperatorStarts
  <2>1. UNCHANGED <<fragment, rows, pass, work, replaced>>
    BY <1>5 DEF ServiceWorks, ServiceFaults, OperatorStarts, ServiceOpens, ServiceLocked,
                ServiceRetries, ServiceOpensUnindexed, ServiceDies, ServiceStarted, OpenStore, vars
  <2> QED BY <2>1, RowsUntouched
<1>6. CASE StartPass
  <2>1. UNCHANGED <<fragment, rows, replaced>> /\ pass' = "opening"
    BY <1>6 DEF StartPass, Begin, BeginWith, vars
  <2> QED BY <2>1, RowsUntouched
<1>7. CASE PassWorks
  <2>1. UNCHANGED fragment
    BY <1>7 DEF PassWorks, vars
  <2>2. CASE PassDiscovers
    BY <2>1, <2>2, DiscoverKeeps
  <2>3. CASE UNCHANGED replaced /\ \E f \in Fragment : Embed(f)
    BY <2>1, <2>3, EmbedKeeps
  <2>4. CASE UNCHANGED replaced /\ \E f \in Fragment : EmbedFails(f)
    <3>1. UNCHANGED rows /\ work' \subseteq work /\ pass = "embedding"
      BY <2>4 DEF EmbedFails
    <3> QED BY <2>1, <2>4, <3>1, RowsUntouched
  <2>5. CASE UNCHANGED replaced /\
             (Open \/ OpenRaises \/ EndEmbedding \/ Drop \/ Create \/ Return)
    <3>1. UNCHANGED rows /\ pass' # "embedding"
      BY <2>5 DEF Open, OpenStore, OpenRaises, EndEmbedding, Drop, DropIndex, Create,
                  CreateIndex, Return, ReturnWith, LeaveWith
    <3> QED BY <2>1, <2>5, <3>1, RowsUntouched
  <2> QED BY <1>7, <2>2, <2>3, <2>4, <2>5 DEF PassWorks
<1>8. CASE PassFaults
  <2>1. UNCHANGED <<fragment, replaced, rows>> /\ pass' # "embedding"
    BY <1>8 DEF PassFaults, BeginWithoutStopping, BeginWith, OpenUnindexed, OpenRaises,
                RebuildFails, Interrupted, ReturnWithoutStarting, Killed, ReturnWith, LeaveWith
  <2> QED BY <2>1, RowsUntouched
<1> QED BY <1>1, <1>2, <1>3, <1>4, <1>5, <1>6, <1>7, <1>8 DEF CorpusNext

LEMMA RowsInvariant == CorpusSpec => []RowsInv
<1>1. CorpusInit => RowsInv
  BY DEF CorpusInit, SeededCorpus, GraphInit, PassInit, StoreInit, NoProse, RowsInv, Shape,
         KeyNeverTrips, StaleOnlyIfReplaced, Present
<1>2. RowsInv /\ [CorpusNext]_corpusVars => RowsInv'
  BY CorpusStepKeeps
<1> QED BY <1>1, <1>2, PTL DEF CorpusSpec
-----------------------------------------------------------------------------
(* Types. *)

TypesInv ==
    /\ IInv
    /\ ReembedTypeOK
    /\ replaced \subseteq Skill
    /\ runs \in 0 .. MaxRuns

\* What is begun with counts, and stays within the bound.
LEMMA RunsBound ==
    ASSUME TypesInv, Given \/ UNCHANGED runs
    PROVE  runs' \in 0 .. MaxRuns
BY RunsAssumption DEF TypesInv, Given

\* A fault leaves the graph and the ingest alone.
LEMMA FaultKeepsIngest ==
    ASSUME IInv, Fault,
           UNCHANGED <<graphVars, mode, force, queue, current, step, todo, made, failed, exit>>
    PROVE  IInv'
<1>1. faults' \in 0 .. MaxFaults
  BY FaultBound
<1>2. TypeOK'
  BY <1>1 DEF IInv, TypeOK, GraphTypeOK, graphVars
<1>3. Edges' /\ Control' /\ Progress'
  BY DEF IInv, Edges, Control, Progress, NodeOf, graphVars
<1> QED BY <1>2, <1>3 DEF IInv

\* The skills an ingest replaces are those of review files.
LEMMA ReplacedTyped ==
    ASSUME TypesInv, IngestWorks
    PROVE  replaced' \subseteq Skill
<1>1. CASE step = "delete"
  <2>1. current # None
    BY <1>1 DEF TypesInv, IInv, Control
  <2>2. current.id \in Skill
    BY <2>1, Loading DEF TypesInv
  <2> QED BY <2>2 DEF TypesInv, IngestWorks
<1>2. CASE step # "delete"
  BY <1>2 DEF TypesInv, IngestWorks
<1> QED BY <1>1, <1>2

\* What the service does keeps the types of the store.
LEMMA ServiceTyped ==
    ASSUME ReembedTypeOK,
           \/ ServiceOpens \/ ServiceOpensUnindexed \/ ServiceLocked
           \/ ServiceRetries \/ ServiceDies \/ ServiceStarted
    PROVE  ReembedTypeOK'
BY DEF ReembedTypeOK, StoreTypeOK, Prose, ServiceOpens, ServiceOpensUnindexed, ServiceLocked,
       ServiceRetries, ServiceDies, ServiceStarted, OpenStore, passVars, storeVars

\* Clearing the scope of a command keeps the types of the store.
LEMMA ClearTyped ==
    ASSUME StoreTypeOK, NEW o, Clear(o)
    PROVE  StoreTypeOK'
<1>1. CASE o.force
  BY <1>1 DEF Clear, DeleteRows, StoreTypeOK, Prose
<1>2. CASE ~o.force
  BY <1>2 DEF Clear, storeVars, StoreTypeOK
<1> QED BY <1>1, <1>2

\* So does every step of a pass, given the types of the fragments.
LEMMA PassTyped ==
    ASSUME ReembedTypeOK, GraphTypeOK,
           \/ \E o \in Command : Begin(o) \/ BeginWithoutStopping(o)
           \/ Open \/ OpenUnindexed \/ OpenRaises
           \/ \E kept \in SUBSET Fragment : Discover(kept)
           \/ \E f \in Fragment : Embed(f) \/ EmbedFails(f)
           \/ EndEmbedding \/ Drop \/ Create \/ RebuildFails \/ Interrupted
           \/ Return \/ ReturnWithoutStarting \/ Killed
    PROVE  ReembedTypeOK'
<1> USE DEF ReembedTypeOK
<1>1. CASE \E o \in Command : Begin(o) \/ BeginWithoutStopping(o)
  <2>1. PICK o \in Command : Begin(o) \/ BeginWithoutStopping(o)
    BY <1>1
  <2>2. /\ pass' = "opening" /\ opts' = o /\ service' \in {service, "down"}
        /\ work' = {} /\ embedded' = FALSE /\ unembedded' = FALSE /\ result' = "none"
        /\ UNCHANGED storeVars
    BY <2>1 DEF Begin, BeginWithoutStopping, BeginWith
  <2>3. stopped' = FALSE \/ stopped' = ServiceRunning
    BY <2>1 DEF Begin, BeginWithoutStopping, BeginWith
  <2>4. stopped' \in BOOLEAN
    <3>1. ServiceRunning \in BOOLEAN
      BY SMT DEF ServiceRunning
    <3> QED BY <2>3, <3>1, Zenon
  <2>5. StoreTypeOK' /\ service' \in {"up", "starting", "waiting", "down"}
    BY <2>2 DEF storeVars, StoreTypeOK
  <2>6. opts' \in Command \cup {None} /\ work' \subseteq Fragment
    BY <2>2
  <2> QED BY <2>2, <2>4, <2>5, <2>6
<1>2. CASE Open \/ OpenUnindexed \/ OpenRaises
  BY <1>2 DEF Open, OpenUnindexed, OpenRaises, LeaveWith, OpenStore, storeVars, StoreTypeOK, Prose
<1>3. CASE \E kept \in SUBSET Fragment : Discover(kept)
  <2>1. PICK kept \in SUBSET Fragment : Discover(kept)
    BY <1>3
  <2>2. StoreTypeOK'
    BY <2>1, ClearTyped DEF Discover
  <2> QED BY <2>1, <2>2 DEF Discover, LeaveWith
<1>4. ASSUME NEW f \in Fragment, Embed(f)
      PROVE  ReembedTypeOK'
  <2>1. fragment[f] \in Revision \cup {None}
    BY DEF GraphTypeOK
  <2>2. StoreTypeOK'
    BY <1>4, <2>1 DEF Embed, InsertRow, StoreTypeOK, Prose
  <2> QED BY <1>4, <2>2 DEF Embed
<1>5. ASSUME NEW f \in Fragment, EmbedFails(f)
      PROVE  ReembedTypeOK'
  BY <1>5 DEF EmbedFails, storeVars, StoreTypeOK
<1>6. CASE EndEmbedding \/ Drop \/ Create \/ RebuildFails \/ Interrupted
  BY <1>6 DEF EndEmbedding, Drop, DropIndex, Create, CreateIndex, RebuildFails, Interrupted,
              LeaveWith, Outcome, storeVars, StoreTypeOK, Prose, NoProse
<1>7. CASE Return \/ ReturnWithoutStarting \/ Killed
  <2>1. PICK started \in BOOLEAN : ReturnWith(started)
    BY <1>7 DEF Return, ReturnWithoutStarting, Killed
  <2> QED BY <2>1 DEF ReturnWith, storeVars, StoreTypeOK
<1> QED BY <1>1, <1>2, <1>3, <1>4, <1>5, <1>6, <1>7

\* The seeded corpus is whole.
LEMMA SeededWhole ==
    ASSUME SeededCorpus, IngestInit
    PROVE  IInv /\ StoreTypeOK
<1>1. ASSUME NEW s \in Skill, SeedOf(s) # {}
      PROVE  (CHOOSE r \in SeedOf(s) : TRUE) \in Review
  BY <1>1, SeedAssumption DEF SeedOf
<1>2. /\ skill \in [Skill -> SkillNode \cup {None}]
      /\ version \in [Skill -> Revision \cup {None}]
  BY <1>1, ReviewParts DEF SeededCorpus
<1>3. \A f \in Seeded : f \in Fragment /\ f[1] \in Skill /\ SeedOf(f[1]) # {}
  BY DEF Seeded, Fragment
<1>4. /\ fragment \in [Fragment -> Revision \cup {None}]
      /\ \A f \in Seeded : fragment[f] = version[f[1]]
  BY <1>2, <1>3 DEF SeededCorpus
<1>5. GraphTypeOK
  BY <1>2, <1>3, <1>4 DEF SeededCorpus, GraphTypeOK
<1>6. faults \in 0 .. MaxFaults
  BY ReviewAssumption DEF IngestInit
<1>7. TypeOK
  BY <1>5, <1>6 DEF IngestInit, TypeOK, Step, ExitCode
<1>8. \A s \in hasVersion : skill[s] # None /\ version[s] # None
  BY <1>1, ReviewParts DEF SeededCorpus
<1>9. Edges
  BY <1>3, <1>4, <1>8 DEF SeededCorpus, Edges
<1>10. Control /\ Progress
  BY DEF IngestInit, Control, Progress
<1>11. StoreTypeOK
  BY <1>4 DEF SeededCorpus, StoreTypeOK, Prose
<1> QED BY <1>7, <1>9, <1>10, <1>11 DEF IInv

LEMMA TypesBegin == CorpusInit => TypesInv
<1> SUFFICES ASSUME CorpusInit PROVE TypesInv
  OBVIOUS
<1>1. runs \in 0 .. MaxRuns /\ replaced \subseteq Skill
  BY RunsAssumption DEF CorpusInit
<1>2. IInv /\ StoreTypeOK
  <2>1. CASE SeededCorpus
    BY <2>1, SeededWhole DEF CorpusInit
  <2>2. CASE GraphInit /\ StoreInit
    <3>1. IInv
      BY <2>2, InvariantBegins DEF CorpusInit, Init
    <3> QED BY <2>2, <3>1 DEF StoreInit, StoreTypeOK, Prose, NoProse
  <2> QED BY <2>1, <2>2 DEF CorpusInit
<1>3. ReembedTypeOK
  BY <1>2 DEF CorpusInit, PassInit, ReembedTypeOK
<1> QED BY <1>1, <1>2, <1>3 DEF TypesInv

LEMMA TypesKept ==
    ASSUME TypesInv, [CorpusNext]_corpusVars
    PROVE  TypesInv'
<1> USE DEF TypesInv
<1>1. CASE UNCHANGED corpusVars
  <2>1. UNCHANGED vars /\ UNCHANGED reembedVars /\ UNCHANGED <<replaced, runs>>
    BY <1>1 DEF corpusVars
  <2>2. IInv'
    BY <2>1, StepKeeps
  <2>3. ReembedTypeOK'
    BY <2>1 DEF ReembedTypeOK, StoreTypeOK, reembedVars, storeVars, passVars
  <2> QED BY <2>1, <2>2, <2>3
<1>2. CASE StartIngest \/ IngestLockedOut \/ IngestWorks \/ IngestCrashes
  <2>1. Next
    BY <1>2 DEF StartIngest, IngestLockedOut, IngestWorks, IngestCrashes, Next
  <2>2. IInv'
    BY <2>1, StepKeeps
  <2>3. UNCHANGED reembedVars
    BY <1>2 DEF StartIngest, IngestLockedOut, IngestWorks, IngestCrashes
  <2>4. ReembedTypeOK'
    BY <2>3 DEF ReembedTypeOK, StoreTypeOK, reembedVars, storeVars, passVars
  <2>5. runs' \in 0 .. MaxRuns
    BY <1>2, RunsBound DEF StartIngest, IngestLockedOut, IngestWorks, IngestCrashes
  <2>6. replaced' \subseteq Skill
    BY <1>2, ReplacedTyped DEF StartIngest, IngestLockedOut, IngestCrashes
  <2> QED BY <2>2, <2>4, <2>5, <2>6
<1>3. CASE ServiceWorks \/ OperatorStarts \/ StartPass \/ PassWorks
  <2>1. UNCHANGED vars
    BY <1>3 DEF ServiceWorks, OperatorStarts, StartPass, PassWorks
  <2>2. IInv'
    BY <2>1, StepKeeps
  <2>3. ReembedTypeOK'
    BY <1>3, ServiceTyped, PassTyped DEF ServiceWorks, OperatorStarts, StartPass, PassWorks,
                PassDiscovers, IInv, TypeOK
  <2>4. runs' \in 0 .. MaxRuns
    BY <1>3, RunsBound DEF ServiceWorks, OperatorStarts, StartPass, PassWorks
  <2>5. replaced' \subseteq replaced
    BY <1>3 DEF ServiceWorks, OperatorStarts, StartPass, PassWorks, PassDiscovers
  <2> QED BY <2>2, <2>3, <2>4, <2>5
<1>4. CASE ServiceFaults \/ PassFaults
  <2>1. IInv'
    BY <1>4, FaultKeepsIngest DEF ServiceFaults, PassFaults
  <2>2. ReembedTypeOK'
    BY <1>4, ServiceTyped, PassTyped DEF ServiceFaults, PassFaults, IInv, TypeOK
  <2>3. runs' \in 0 .. MaxRuns
    BY <1>4, RunsBound DEF ServiceFaults, PassFaults
  <2>4. UNCHANGED replaced
    BY <1>4 DEF ServiceFaults, PassFaults
  <2> QED BY <2>1, <2>2, <2>3, <2>4
<1> QED BY <1>1, <1>2, <1>3, <1>4 DEF CorpusNext

LEMMA TypesInvariant == CorpusSpec => []TypesInv
<1>1. TypesInv /\ [CorpusNext]_corpusVars => TypesInv'
  BY TypesKept
<1> QED BY <1>1, TypesBegin, PTL DEF CorpusSpec

\* The graph, the store and the processes keep their types, no insert of a pass
\* meets a row that is there already, and rows go stale only by ingests with
\* --force (storage/vector_store.py, reembed/cli.py).
THEOREM RowsAreSound == CorpusSpec => []RowsSound
<1>1. TypesInv => CorpusTypeOK
  BY DEF TypesInv, CorpusTypeOK, IInv
<1>2. RowsInv /\ CorpusTypeOK => RowsSound
  BY DEF RowsInv, RowsSound
<1> QED BY <1>1, <1>2, TypesInvariant, RowsInvariant, PTL
-----------------------------------------------------------------------------
(* The index. *)

\* Whatever has a row is in the index as it is in the row.
Indexed == \A f \in Present : indexBuilt /\ index[f] = rows[f]

\* It is not so only in a pass that has embedded something, up to the end of the
\* rebuild that is then due.
IndexInv ==
    faults = 0 => \/ pass \in {"dropping", "creating"}
                  \/ pass = "embedding" /\ embedded
                  \/ Indexed

\* A step that leaves the store and the pass alone, or counts as a fault.
LEMMA IndexUntouched ==
    ASSUME IndexInv, TypeOK, UNCHANGED <<storeVars, pass, embedded, faults>> \/ Fault
    PROVE  IndexInv'
<1>1. CASE Fault
  <2>1. faults' # 0
    BY <1>1, ReviewAssumption DEF TypeOK, Fault
  <2> QED BY <2>1 DEF IndexInv
<1>2. CASE UNCHANGED <<storeVars, pass, embedded, faults>>
  BY <1>2 DEF IndexInv, Indexed, Present, storeVars
<1> QED BY <1>1, <1>2

\* A step of the ingest command is a fault or none.
LEMMA IngestCountsFaults ==
    ASSUME Start \/ OpenFails \/ Work \/ Crash
    PROVE  UNCHANGED faults \/ Fault
<1>1. CASE Start
  BY <1>1 DEF Start, Single, Batch, Refuse
<1>2. CASE OpenFails \/ Crash
  BY <1>2 DEF OpenFails, Refuse, Crash
<1>3. CASE (\E r \in Review : NextFile(r)) \/ EndBatch \/ InsertDone
  BY <1>3 DEF NextFile, EndBatch, InsertDone
<1>4. CASE InsertDelete \/ InsertSkill \/ InsertVersion \/ InsertEdges
  BY <1>4 DEF InsertDelete, InsertSkill, InsertVersion, InsertEdges, Statement
<1>5. CASE (\E q \in Sequence : InsertFragment(q)) \/ InsertFragmentEdge
  BY <1>5 DEF InsertFragment, InsertFragmentEdge
<1>6. CASE InsertFails
  BY <1>6 DEF InsertFails
<1> QED BY <1>1, <1>2, <1>3, <1>4, <1>5, <1>6 DEF Work

\* Opening the store makes an index only where there is none.
LEMMA OpenIndexes ==
    ASSUME Indexed, OpenStore
    PROVE  Indexed'
BY DEF Indexed, Present, OpenStore

\* Deleting rows takes nothing from the index.
LEMMA ClearKeepsIndexed ==
    ASSUME Indexed, NEW o, Clear(o)
    PROVE  Indexed'
<1>1. CASE o.force
  BY <1>1 DEF Clear, DeleteRows, Indexed, Present
<1>2. CASE ~o.force
  BY <1>2 DEF Clear, storeVars, Indexed, Present
<1> QED BY <1>1, <1>2

LEMMA PassKeepsIndex ==
    ASSUME IndexInv, PassWorks
    PROVE  IndexInv'
<1> SUFFICES ASSUME faults = 0
             PROVE  \/ pass' \in {"dropping", "creating"}
                    \/ pass' = "embedding" /\ embedded'
                    \/ Indexed'
  <2>1. UNCHANGED faults
    BY DEF PassWorks, vars, ingestVars
  <2> QED BY <2>1 DEF IndexInv
<1>0. \/ pass \in {"dropping", "creating"}
      \/ pass = "embedding" /\ embedded
      \/ Indexed
  BY DEF IndexInv
<1>1. CASE Open
  <2>1. Indexed
    BY <1>0, <1>1 DEF Open
  <2> QED BY <1>1, <2>1, OpenIndexes DEF Open
<1>2. CASE OpenRaises \/ Return
  <2>1. pass \in {"opening", "leaving"} /\ UNCHANGED storeVars
    BY <1>2 DEF OpenRaises, Return, ReturnWith
  <2> QED BY <1>0, <2>1 DEF Indexed, Present, storeVars
<1>3. CASE PassDiscovers
  <2>1. pass = "discovering" /\ Clear(opts)
    BY <1>3 DEF PassDiscovers, Discover
  <2> QED BY <1>0, <2>1, ClearKeepsIndexed
<1>4. ASSUME NEW f \in Fragment, Embed(f)
      PROVE  pass' = "embedding" /\ embedded'
  BY <1>4 DEF Embed
<1>5. ASSUME NEW f \in Fragment, EmbedFails(f)
      PROVE  (pass' = "embedding" /\ embedded') \/ Indexed'
  BY <1>0, <1>5 DEF EmbedFails, Indexed, Present, storeVars
<1>6. CASE EndEmbedding
  BY <1>0, <1>6 DEF EndEmbedding, RebuildDue, LeaveWith, Indexed, Present, storeVars
<1>7. CASE Drop
  BY <1>7 DEF Drop
<1>8. CASE Create
  BY <1>8 DEF Create, CreateIndex, Indexed, Present
<1> QED BY <1>1, <1>2, <1>3, <1>4, <1>5, <1>6, <1>7, <1>8 DEF PassWorks

LEMMA IndexKept ==
    ASSUME IndexInv, TypeOK, [CorpusNext]_corpusVars
    PROVE  IndexInv'
<1>1. CASE UNCHANGED corpusVars
  BY <1>1, IndexUntouched DEF corpusVars, vars, ingestVars, reembedVars, passVars
<1>2. CASE StartIngest \/ IngestLockedOut \/ IngestWorks \/ IngestCrashes
  <2>1. UNCHANGED reembedVars
    BY <1>2 DEF StartIngest, IngestLockedOut, IngestWorks, IngestCrashes
  <2>2. UNCHANGED faults \/ Fault
    BY <1>2, IngestCountsFaults DEF StartIngest, IngestLockedOut, IngestWorks, IngestCrashes
  <2> QED BY <2>1, <2>2, IndexUntouched DEF reembedVars, passVars
<1>3. CASE ServiceWorks
  <2>1. CASE Unlocked /\ ServiceOpens
    <3>1. UNCHANGED <<pass, embedded, faults>>
      BY <1>3, <2>1 DEF ServiceWorks, ServiceOpens, passVars, vars, ingestVars
    <3>2. faults = 0 => Indexed
      BY <2>1 DEF IndexInv, Unlocked, Holding
    <3> QED BY <2>1, <3>1, <3>2, OpenIndexes DEF ServiceOpens, IndexInv
  <2>2. CASE ServiceLocked \/ ServiceRetries
    BY <1>3, <2>2, IndexUntouched DEF ServiceWorks, ServiceLocked, ServiceRetries, passVars, vars,
                                     ingestVars
  <2> QED BY <1>3, <2>1, <2>2 DEF ServiceWorks
<1>4. CASE ServiceFaults \/ PassFaults
  BY <1>4, IndexUntouched DEF ServiceFaults, PassFaults
<1>5. CASE OperatorStarts
  BY <1>5, IndexUntouched DEF OperatorStarts, ServiceStarted, passVars, vars, ingestVars
<1>6. CASE StartPass
  <2>1. pass = "idle" /\ UNCHANGED <<storeVars, faults>>
    BY <1>6 DEF StartPass, Begin, BeginWith, vars, ingestVars
  <2> QED BY <2>1 DEF IndexInv, Indexed, Present, storeVars
<1>7. CASE PassWorks
  BY <1>7, PassKeepsIndex
<1> QED BY <1>1, <1>2, <1>3, <1>4, <1>5, <1>6, <1>7 DEF CorpusNext

\* No early return of a pass, and no opening of the store, leaves rows that a
\* search by words does not find, as long as nothing fails from outside
\* (reembed/cli.py, main; vector_store.py, open_or_create).
THEOREM IndexKeepsUp == CorpusSpec => []IndexFollows
<1>1. CorpusInit => IndexInv
  <2>1. SeededCorpus => Indexed
    BY DEF SeededCorpus, Indexed, Present
  <2>2. StoreInit => Indexed
    BY DEF StoreInit, NoProse, Indexed, Present
  <2> QED BY <2>1, <2>2 DEF CorpusInit, IndexInv
<1>2. IndexInv /\ TypesInv /\ [CorpusNext]_corpusVars => IndexInv'
  BY IndexKept DEF TypesInv, IInv
<1>3. IndexInv => IndexFollows
  BY DEF IndexInv, IndexFollows, Holding, Indexed, Searchable
<1> QED BY <1>1, <1>2, <1>3, TypesInvariant, PTL DEF CorpusSpec
-----------------------------------------------------------------------------
\* A pass and the service change nothing in the graph: what the theorems of the
\* ingest say of it is true beside them, with crashes of any of them
\* (reads/active.py, ingest.py).
THEOREM GraphStaysSound == CorpusSpec => []GraphSound
<1>1. ASSUME IInv PROVE GraphSound
  <2>1. TypeOK /\ GuardNeverTrips
    BY <1>1 DEF IInv, Edges, GuardNeverTrips, Inconsistent
  <2>2. \A f \in ActiveFragments : f \in decomposes /\ version[f[1]] # None
    BY <1>1 DEF ActiveFragments, IInv, Edges
  <2>3. OneRevision
    BY <1>1, <2>2 DEF IInv, Edges, OneRevision
  <2> QED BY <2>1, <2>3 DEF GraphSound
<1>2. TypesInv => GraphSound
  BY <1>1 DEF TypesInv
<1> QED BY <1>2, TypesInvariant, PTL
-----------------------------------------------------------------------------
(* What exit code 0 of a pass means. *)

\* A pass over the whole corpus.
WholePass(o) == o.scope = None /\ ~o.limited /\ ~o.dryRun

\* The rows are those of fragments that are served, as they are now.
Fresh == Present \subseteq ActiveFragments /\ \A f \in Present : rows[f] = fragment[f]

\* What such a pass has achieved so far, if no fragment has failed.
Covered ==
    /\ unembedded \/ ActiveFragments \subseteq Present \cup work
    /\ opts.force => Fresh

\* While a pass holds the lock, nobody else is at work on the graph.
Excluding == Holding => mode = "idle" /\ service # "up"

Ahead ==
    /\ pass = "embedding" => work \subseteq ActiveFragments
    /\ pass \in {"dropping", "creating"} => work = {}
    /\ pass \in {"embedding", "dropping", "creating"} /\ WholePass(opts) => Covered

\* Only an ingest that runs has a next statement.
LEMMA WorkIsBusy ==
    ASSUME IInv, Work
    PROVE  mode # "idle"
<1>1. step # "none"
  <2>1. current = None => step \in {"none", "next"}
    BY DEF IInv, Control
  <2>2. CASE InsertFails
    BY <2>2 DEF InsertFails, IInv, Control
  <2>3. CASE ~InsertFails
    BY <2>3 DEF Work, NextFile, EndBatch, InsertDelete, InsertSkill, InsertVersion, InsertEdges,
                InsertFragment, InsertFragmentEdge, InsertDone, Statement, IInv, Control
  <2> QED BY <2>2, <2>3
<1> QED BY <1>1 DEF IInv, Control

LEMMA ExclusionKept ==
    ASSUME TypesInv, Excluding, [CorpusNext]_corpusVars
    PROVE  Excluding'
<1> USE DEF Excluding, Holding
<1>1. CASE UNCHANGED corpusVars
  BY <1>1 DEF corpusVars, vars, ingestVars, reembedVars, passVars
<1>2. CASE StartIngest
  BY <1>2 DEF StartIngest, Unlocked, reembedVars, passVars
<1>3. CASE IngestLockedOut
  BY <1>3 DEF IngestLockedOut, OpenFails, Refuse, reembedVars, passVars
<1>4. CASE IngestWorks \/ IngestCrashes
  <2>1. mode # "idle"
    BY <1>4, WorkIsBusy DEF IngestWorks, IngestCrashes, Crash, TypesInv
  <2>2. UNCHANGED pass
    BY <1>4 DEF IngestWorks, IngestCrashes, reembedVars, passVars
  <2> QED BY <2>1, <2>2
<1>5. CASE ServiceWorks \/ ServiceFaults \/ OperatorStarts
  <2>1. UNCHANGED <<mode, pass>>
    BY <1>5 DEF ServiceWorks, ServiceFaults, OperatorStarts, ServiceOpens, ServiceOpensUnindexed,
                ServiceLocked, ServiceRetries, ServiceDies, ServiceStarted, passVars, vars, ingestVars
  <2>2. Unlocked \/ service' # "up"
    BY <1>5 DEF ServiceWorks, ServiceFaults, OperatorStarts, ServiceLocked, ServiceRetries,
                ServiceDies, ServiceStarted
  <2> QED BY <2>1, <2>2 DEF Unlocked
<1>6. CASE StartPass
  BY <1>6 DEF StartPass, Begin, BeginWith
<1>7. CASE PassWorks \/ PassFaults
  <2>1. UNCHANGED mode
    BY <1>7 DEF PassWorks, PassFaults, vars, ingestVars
  <2>2. CASE Unlocked /\ (Open \/ OpenUnindexed)
    BY <2>1, <2>2 DEF Unlocked, Open, OpenUnindexed
  <2>3. CASE ~(Unlocked /\ (Open \/ OpenUnindexed))
    <3>1. \/ pass' \in {"idle", "opening", "leaving"}
          \/ Holding /\ UNCHANGED service
      BY <1>7, <2>3 DEF PassWorks, PassFaults, PassDiscovers, BeginWithoutStopping, BeginWith,
           OpenRaises, Discover, Embed, EmbedFails, EndEmbedding, Drop, Create, Return,
           RebuildFails, Interrupted, ReturnWithoutStarting, Killed, ReturnWith, LeaveWith
    <3> QED BY <2>1, <3>1
  <2> QED BY <2>2, <2>3
<1> QED BY <1>1, <1>2, <1>3, <1>4, <1>5, <1>6, <1>7 DEF CorpusNext

\* Deleting the rows of a whole pass's scope with --force leaves none.
LEMMA WholeClears ==
    ASSUME Clear(opts), WholePass(opts)
    PROVE  /\ opts.force => Present' = {}
           /\ ~opts.force => UNCHANGED rows
<1>1. CASE opts.force
  <2>1. \A f \in Fragment : f[1] \in {s \in Skill : InScope(opts, s)}
    BY DEF Fragment, InScope, WholePass
  <2> QED BY <1>1, <2>1 DEF Clear, DeleteRows, Present
<1>2. CASE ~opts.force
  BY <1>2 DEF Clear, storeVars
<1> QED BY <1>1, <1>2

\* What a whole pass discovers, and what has a row already, is all that is
\* served.
LEMMA DiscoverCovers ==
    ASSUME GraphTypeOK, UNCHANGED graphVars, NEW kept \in SUBSET Fragment, Discover(kept), WholePass(opts)
    PROVE  /\ ActiveFragments' \subseteq Present' \cup kept
           /\ opts.force => Fresh'
<1>1. kept = Discovered(opts) /\ Clear(opts)
  BY DEF Discover, WholePass
<1>2. ActiveFragments' = ActiveFragments
  BY DEF graphVars, ActiveFragments, Active
<1>3. ActiveFragments \subseteq Fragment
  BY DEF GraphTypeOK, ActiveFragments
<1>4. kept = {f \in ActiveFragments : opts.force \/ f \notin Present}
  BY <1>1 DEF Discovered, InScope, WholePass
<1>5. CASE opts.force
  BY <1>1, <1>2, <1>4, <1>5, WholeClears DEF Fresh
<1>6. CASE ~opts.force
  <2>1. Present' = Present
    BY <1>1, <1>6, WholeClears DEF Present
  <2> QED BY <1>2, <1>4, <1>6, <2>1
<1> QED BY <1>5, <1>6

\* What a discovery keeps is served.
LEMMA KeptIsServed ==
    ASSUME UNCHANGED graphVars, NEW kept, Discover(kept)
    PROVE  kept \subseteq ActiveFragments'
BY DEF Discover, Discovered, graphVars, ActiveFragments, Active

\* A fragment that is embedded gets the row it should have.
LEMMA EmbedCovers ==
    ASSUME TypesInv, Ahead, UNCHANGED graphVars, NEW f \in Fragment, Embed(f)
    PROVE  Ahead'
<1>1. f \in ActiveFragments /\ work' = work \ {f}
  BY DEF Embed, Ahead
<1>2. fragment[f] # None
  <2>1. f \in decomposes /\ version[f[1]] # None
    BY <1>1 DEF ActiveFragments, TypesInv, IInv, Edges
  <2> QED BY <2>1 DEF TypesInv, IInv, Edges
<1>3. rows \in [Fragment -> Revision \cup {None}] /\ rows' = [rows EXCEPT ![f] = fragment[f]]
  BY DEF TypesInv, ReembedTypeOK, StoreTypeOK, Prose, Embed, InsertRow
<1>4. Present' = Present \cup {f}
  BY <1>2, <1>3 DEF Present
<1>5. ActiveFragments' = ActiveFragments /\ UNCHANGED fragment
  BY DEF graphVars, ActiveFragments, Active
<1>6. WholePass(opts) => Covered'
  <2> SUFFICES ASSUME WholePass(opts) PROVE Covered'
    OBVIOUS
  <2>1. Covered /\ UNCHANGED <<opts, unembedded>>
    BY DEF Ahead, Embed
  <2>2. (unembedded \/ ActiveFragments \subseteq Present \cup work)'
    BY <1>1, <1>4, <1>5, <2>1 DEF Covered
  <2>3. opts.force => Fresh'
    BY <1>1, <1>3, <1>4, <1>5, <2>1 DEF Covered, Fresh, Present
  <2> QED BY <2>1, <2>2, <2>3 DEF Covered
<1> QED BY <1>1, <1>5, <1>6 DEF Ahead, Embed

\* A step that leaves the graph, the store and the pass alone.
LEMMA AheadUntouched ==
    ASSUME Ahead, UNCHANGED <<graphVars, storeVars, pass, opts, work, unembedded>>
    PROVE  Ahead'
BY DEF Ahead, WholePass, Covered, Fresh, Present, ActiveFragments, Active, graphVars, storeVars

LEMMA PassKeepsAhead ==
    ASSUME TypesInv, Ahead, UNCHANGED graphVars, PassWorks \/ PassFaults
    PROVE  Ahead'
<1>1. CASE PassDiscovers
  <2>1. PICK kept \in SUBSET Fragment : Discover(kept)
    BY <1>1 DEF PassDiscovers
  <2>2. pass' = "leaving" \/ (pass' = "embedding" /\ work' = kept /\ UNCHANGED <<opts, unembedded>>)
    BY <2>1 DEF Discover, LeaveWith
  <2>3. WholePass(opts) => ActiveFragments' \subseteq Present' \cup kept /\ (opts.force => Fresh')
    BY <2>1, DiscoverCovers DEF TypesInv, IInv, TypeOK
  <2>4. kept \subseteq ActiveFragments'
    BY <2>1, KeptIsServed
  <2> QED BY <2>2, <2>3, <2>4 DEF Ahead, Covered, WholePass
<1>2. ASSUME NEW f \in Fragment, Embed(f)
      PROVE  Ahead'
  BY <1>2, EmbedCovers
<1>3. ASSUME NEW f \in Fragment, EmbedFails(f)
      PROVE  Ahead'
  BY <1>3 DEF EmbedFails, Ahead, WholePass, Covered, Fresh, Present, ActiveFragments, Active,
              graphVars, storeVars
<1>4. CASE EndEmbedding \/ Drop
  <2>1. pass' = "leaving" \/ (pass' \in {"dropping", "creating"} /\ pass \in {"embedding", "dropping"})
    BY <1>4 DEF EndEmbedding, Drop, LeaveWith
  <2>2. work = {} /\ UNCHANGED <<rows, opts, work, unembedded>>
    BY <1>4 DEF EndEmbedding, Drop, DropIndex, LeaveWith, storeVars, Ahead
  <2> QED BY <2>1, <2>2 DEF Ahead, WholePass, Covered, Fresh, Present, ActiveFragments, Active, graphVars
<1>5. CASE pass' \in {"idle", "opening", "discovering", "leaving"}
  BY <1>5 DEF Ahead
<1>6. \/ PassDiscovers
      \/ \E f \in Fragment : Embed(f) \/ EmbedFails(f)
      \/ EndEmbedding \/ Drop
      \/ pass' \in {"idle", "opening", "discovering", "leaving"}
  BY DEF PassWorks, PassFaults, BeginWithoutStopping, BeginWith, Open, OpenUnindexed, OpenRaises,
         Create, RebuildFails, Interrupted, Return, ReturnWithoutStarting, Killed, ReturnWith, LeaveWith
<1> QED BY <1>1, <1>2, <1>3, <1>4, <1>5, <1>6

LEMMA AheadKept ==
    ASSUME TypesInv, Excluding, Ahead, [CorpusNext]_corpusVars
    PROVE  Ahead'
<1>1. CASE UNCHANGED corpusVars
  BY <1>1, AheadUntouched DEF corpusVars, vars, reembedVars, passVars
<1>2. CASE StartIngest \/ IngestLockedOut \/ IngestCrashes
  <2>1. UNCHANGED graphVars
    BY <1>2 DEF StartIngest, IngestLockedOut, IngestCrashes, Start, Single, Batch, Refuse,
                OpenFails, Crash
  <2> QED BY <1>2, <2>1, AheadUntouched DEF StartIngest, IngestLockedOut, IngestCrashes,
             reembedVars, passVars
<1>3. CASE IngestWorks
  <2>1. ~Holding
    BY <1>3, WorkIsBusy DEF IngestWorks, Excluding, TypesInv
  <2> QED BY <1>3, <2>1 DEF IngestWorks, reembedVars, passVars, Holding, Ahead
<1>4. CASE ServiceWorks \/ ServiceFaults \/ OperatorStarts
  <2>1. UNCHANGED <<graphVars, passVars, rows>>
    BY <1>4 DEF ServiceWorks, ServiceFaults, OperatorStarts, ServiceOpens, ServiceOpensUnindexed,
                ServiceLocked, ServiceRetries, ServiceDies, ServiceStarted, OpenStore, storeVars, vars
  <2> QED BY <2>1 DEF Ahead, WholePass, Covered, Fresh, Present, ActiveFragments, Active, graphVars, passVars
<1>5. CASE StartPass
  BY <1>5 DEF StartPass, Begin, BeginWith, Ahead
<1>6. CASE PassWorks \/ PassFaults
  <2>1. UNCHANGED graphVars
    BY <1>6 DEF PassWorks, PassFaults, vars
  <2> QED BY <1>6, <2>1, PassKeepsAhead
<1> QED BY <1>1, <1>2, <1>3, <1>4, <1>5, <1>6 DEF CorpusNext

LEMMA AheadInvariant == CorpusSpec => [](Excluding /\ Ahead)
<1>1. CorpusInit => Excluding /\ Ahead
  BY DEF CorpusInit, PassInit, Excluding, Holding, Ahead
<1>2. TypesInv /\ Excluding /\ Ahead /\ [CorpusNext]_corpusVars => (Excluding /\ Ahead)'
  BY ExclusionKept, AheadKept
<1> QED BY <1>1, <1>2, TypesInvariant, PTL DEF CorpusSpec

\* How a whole pass ends that ends with exit code 0.
LEMMA WholeEnds ==
    ASSUME TypesInv, Excluding, Ahead, [CorpusNext]_corpusVars,
           pass # "leaving", pass' = "leaving", result' = "ok", WholePass(opts)
    PROVE  /\ (ActiveFragments \subseteq Present)'
           /\ opts.force => Fresh'
<1>1. PassWorks \/ PassFaults
  BY DEF CorpusNext, corpusVars, StartIngest, IngestLockedOut, IngestWorks, IngestCrashes,
         ServiceWorks, ServiceFaults, OperatorStarts, StartPass, Begin, BeginWith, ServiceOpens,
         ServiceOpensUnindexed, ServiceLocked, ServiceRetries, ServiceDies, ServiceStarted,
         reembedVars, passVars
<1>2. UNCHANGED graphVars
  BY <1>1 DEF PassWorks, PassFaults, vars
<1>3. CASE PassDiscovers
  <2>1. PICK kept \in SUBSET Fragment : Discover(kept)
    BY <1>3 DEF PassDiscovers
  <2>2. kept = {}
    BY <2>1 DEF Discover, WholePass
  <2> QED BY <1>2, <2>1, <2>2, DiscoverCovers DEF TypesInv, IInv, TypeOK
<1>4. CASE EndEmbedding \/ Create \/ RebuildFails
  <2>1. pass \in {"embedding", "dropping", "creating"} /\ work = {} /\ UNCHANGED rows
    BY <1>4 DEF EndEmbedding, Create, CreateIndex, RebuildFails, storeVars, Ahead
  <2>2. ~unembedded
    BY <1>4 DEF EndEmbedding, Create, RebuildFails, LeaveWith, Outcome
  <2>3. Covered
    BY <2>1 DEF Ahead
  <2> QED BY <1>2, <2>1, <2>2, <2>3 DEF Covered, Fresh, Present, ActiveFragments, Active, graphVars
<1>5. PassDiscovers \/ EndEmbedding \/ Create \/ RebuildFails
  BY <1>1 DEF PassWorks, PassFaults, BeginWithoutStopping, BeginWith, Open, OpenUnindexed,
       OpenRaises, Embed, EmbedFails, Drop, Interrupted, Return, ReturnWithoutStarting, Killed,
       ReturnWith, LeaveWith
<1> QED BY <1>3, <1>4, <1>5

\* Exit code 0 of a full pass is true: whatever interrupts, fails or runs
\* beside it, each fragment the service serves has a row (reembed/cli.py, main,
\* reembed_fragments).
THEOREM PassIsComplete == CorpusSpec => OkMeansEmbedded
<1>1. TypesInv /\ Excluding /\ Ahead /\ [CorpusNext]_corpusVars =>
        (pass # "leaving" /\ pass' = "leaving" /\ result' = "ok"
         /\ opts.scope = None /\ ~opts.limited /\ ~opts.dryRun
           => (ActiveFragments \subseteq Present)')
  BY WholeEnds DEF WholePass
<1> QED BY <1>1, TypesInvariant, AheadInvariant, PTL DEF CorpusSpec, OkMeansEmbedded

\* With --force it leaves no stale row, and none of a fragment that is gone
\* (reembed/cli.py, main).
THEOREM ForcedPassIsFresh == CorpusSpec => ForcedMeansFresh
<1>1. TypesInv /\ Excluding /\ Ahead /\ [CorpusNext]_corpusVars =>
        (pass # "leaving" /\ pass' = "leaving" /\ result' = "ok"
         /\ opts.scope = None /\ ~opts.limited /\ ~opts.dryRun /\ opts.force
           => (Present = ActiveFragments /\ (\A f \in Present : rows[f] = fragment[f]))')
  BY WholeEnds DEF WholePass, Fresh
<1> QED BY <1>1, TypesInvariant, AheadInvariant, PTL DEF CorpusSpec, ForcedMeansFresh
=============================================================================
