----------------------------- MODULE IngestProofs -----------------------------
(***************************************************************************)
(* Theorems about the ingest command, for any skills and review files, and *)
(* with processes that die and statements that fail anywhere; about the    *)
(* pack commands, which drive it without changing what it does; and about  *)
(* the order in which packs are planned.                                   *)
(***************************************************************************)
EXTENDS Packs, FiniteSetTheorems, SequenceTheorems, WellFoundedInduction, TLAPS

\* The two edges of a version are made together, between nodes that exist, and
\* the fragments tied to a version are of its revision.
Edges ==
    /\ currentVersion = hasVersion
    /\ \A s \in hasVersion : skill[s] # None /\ version[s] # None
    /\ \A f \in decomposes : f[1] \in hasVersion /\ fragment[f] = version[f[1]]

\* How far _insert is.
Control ==
    /\ mode = "idle" <=> step = "none"
    /\ current = None <=> step \in {"none", "next"}
    /\ made # None => step = "fragment"
    /\ step \in {"delete", "skill", "version", "edges"} => todo = FragmentsOf(current)
    /\ step \in {"version", "edges"} =>
         current.id \notin hasVersion /\ skill[current.id] = NodeOf(current)
    /\ step = "edges" => version[current.id] = current.rev

\* At the fragments: the skill and its version are made and tied, and the tied
\* fragments are those neither to do nor half done.
Progress ==
    step = "fragment" =>
        /\ current.id \in hasVersion
        /\ skill[current.id] = NodeOf(current)
        /\ version[current.id] = current.rev
        /\ todo \subseteq FragmentsOf(current)
        /\ made # None => /\ made \in FragmentsOf(current) \ todo
                          /\ fragment[<<current.id, made>>] = current.rev
        /\ \A f \in Fragment : f[1] = current.id =>
             (f \in decomposes <=> f[2] \in FragmentsOf(current) \ (todo \cup {made}))

IInv == TypeOK /\ Edges /\ Control /\ Progress
-----------------------------------------------------------------------------
\* The parts of a review file.
LEMMA ReviewParts ==
    ASSUME NEW r \in Review
    PROVE  /\ r.id \in Skill
           /\ r.rev \in Revision
           /\ r.rev # None
           /\ r # None
           /\ FragmentsOf(r) \subseteq Sequence
           /\ NodeOf(r) \in SkillNode
           /\ NodeOf(r) # None
<1>1. r \in ReviewRecord /\ r # None
  BY ReviewAssumption
<1>2. r.id \in Skill /\ r.rev \in Revision /\ r.seqs \subseteq Sequence /\ r.name \in Name
      /\ r.deprecated \in BOOLEAN /\ r.supersededBy \in Skill \cup {None}
  BY <1>1 DEF ReviewRecord
<1>3. FragmentsOf(r) \subseteq Sequence
  BY <1>2, GraphAssumption DEF FragmentsOf
<1>4. NodeOf(r) \in SkillNode
  BY <1>2 DEF NodeOf, SkillNode
<1>5. NodeOf(r) # None
  BY <1>4, NodeAssumption
<1>6. r.rev # None
  BY <1>2, GraphAssumption
<1> QED BY <1>1, <1>2, <1>3, <1>4, <1>5, <1>6

\* Leaving the loop of _insert, for another file or for good, keeps the
\* invariant: it asks nothing when no file is being loaded.
LEMMA EndKeeps ==
    ASSUME IInv, NEW code \in ExitCode, End(code),
           UNCHANGED graphVars, faults' \in 0 .. MaxFaults
    PROVE  IInv'
<1>1. TypeOK'
  BY DEF IInv, TypeOK, End, GraphTypeOK, graphVars, Step, Fragment
<1>2. Edges'
  BY DEF IInv, Edges, graphVars
<1>3. Control' /\ Progress'
  BY DEF Control, Progress, End
<1> QED BY <1>1, <1>2, <1>3 DEF IInv

LEMMA DoneKeeps ==
    ASSUME IInv, NEW code \in ExitCode, NEW fails \in BOOLEAN, current # None,
           Done(code, fails), UNCHANGED graphVars, faults' \in 0 .. MaxFaults
    PROVE  IInv'
<1>1. CASE mode = "single"
  <2>1. End(code)
    BY <1>1 DEF Done
  <2>2. current \in Review \cup {None}
    BY DEF IInv, TypeOK
  <2> QED BY <2>1, <2>2, EndKeeps
<1>2. CASE mode # "single"
  <2>1. TypeOK'
    BY <1>2 DEF IInv, TypeOK, Done, GraphTypeOK, graphVars, Step, Fragment
  <2>2. Edges'
    BY DEF IInv, Edges, graphVars
  <2>3. Control' /\ Progress'
    BY <1>2 DEF IInv, Control, Progress, Done
  <2> QED BY <2>1, <2>2, <2>3 DEF IInv
<1> QED BY <1>1, <1>2

\* Entering _insert keeps it, when no file was being loaded.
LEMMA InsertKeeps ==
    ASSUME IInv, NEW r \in Review, NEW forced \in BOOLEAN, Insert(r, forced),
           UNCHANGED <<graphVars, failed, exit, faults>>,
           mode' \in {"single", "batch"}, force' \in BOOLEAN, queue' \subseteq Review
    PROVE  IInv'
<1>1. FragmentsOf(r) \subseteq Sequence /\ r # None
  BY ReviewParts
<1>2. TypeOK'
  BY <1>1 DEF IInv, TypeOK, Insert, GraphTypeOK, graphVars, Step, Fragment
<1>3. Edges'
  BY DEF IInv, Edges, graphVars
<1>4. Control' /\ Progress'
  BY <1>1 DEF Control, Progress, Insert
<1> QED BY <1>2, <1>3, <1>4 DEF IInv

LEMMA RefuseKeeps ==
    ASSUME IInv, NEW code \in ExitCode, Refuse(code)
    PROVE  IInv'
<1>1. TypeOK'
  BY DEF IInv, TypeOK, Refuse, GraphTypeOK, graphVars, Step, Fragment
<1>2. Edges' /\ Control' /\ Progress'
  BY DEF IInv, Edges, Control, Progress, Refuse, graphVars
<1> QED BY <1>1, <1>2 DEF IInv
-----------------------------------------------------------------------------
LEMMA SingleKeeps ==
    ASSUME IInv, NEW r \in Review, NEW forced \in BOOLEAN, NEW strict \in BOOLEAN,
           NEW yes \in BOOLEAN, Single(r, forced, strict, yes)
    PROVE  IInv'
<1>1. CASE Refuse(Refusal(r, forced, strict, yes))
  <2>1. Refusal(r, forced, strict, yes) \in ExitCode
    BY DEF Refusal, ExitCode
  <2> QED BY <1>1, <2>1, RefuseKeeps
<1>2. CASE /\ mode' = "single" /\ force' = forced /\ Insert(r, forced)
           /\ UNCHANGED <<graphVars, queue, failed, exit, faults>>
  <2>1. queue' \subseteq Review
    BY <1>2 DEF IInv, TypeOK
  <2> QED BY <1>2, <2>1, InsertKeeps
<1> QED BY <1>1, <1>2 DEF Single

LEMMA BatchKeeps ==
    ASSUME IInv, NEW directory \in SUBSET Review, NEW forced \in BOOLEAN,
           NEW strict \in BOOLEAN, NEW yes \in BOOLEAN, Batch(directory, forced, strict, yes)
    PROVE  IInv'
<1> DEFINE parsed == {r \in directory : Accepted(r, strict)}
           toLoad == {r \in parsed : forced \/ ~Duplicate(r)}
<1>1. CASE Refuse(IF directory = {} THEN "usage" ELSE "validation")
  <2>1. (IF directory = {} THEN "usage" ELSE "validation") \in ExitCode
    BY DEF ExitCode
  <2> QED BY <1>1, <2>1, RefuseKeeps
<1>2. CASE Refuse("usage")
  BY <1>2, RefuseKeeps DEF ExitCode
<1>3. CASE /\ mode = "idle" /\ mode' = "batch" /\ force' = forced /\ queue' = toLoad
           /\ step' = "next" /\ UNCHANGED <<graphVars, current, todo, made, failed, exit,
                           faults>>
  <2>1. toLoad \subseteq Review
    OBVIOUS
  <2>2. TypeOK'
    BY <1>3, <2>1 DEF IInv, TypeOK, GraphTypeOK, graphVars, Step, Fragment
  <2>3. Edges'
    BY <1>3 DEF IInv, Edges, graphVars
  <2>4. Control' /\ Progress'
    BY <1>3 DEF IInv, Control, Progress
  <2> QED BY <2>2, <2>3, <2>4 DEF IInv
<1> QED BY <1>1, <1>2, <1>3 DEF Batch
-----------------------------------------------------------------------------
(* The statements of _insert. *)

\* What the invariant says of the file being loaded.
LEMMA Loading ==
    ASSUME IInv, current # None
    PROVE  /\ current \in Review
           /\ current.id \in Skill
           /\ current.rev \in Revision /\ current.rev # None
           /\ NodeOf(current) \in SkillNode /\ NodeOf(current) # None
           /\ FragmentsOf(current) \subseteq Sequence
           /\ mode # "idle"
BY ReviewParts DEF IInv, TypeOK, Control

LEMMA DeleteKeeps ==
    ASSUME IInv, InsertDelete
    PROVE  IInv'
<1> USE DEF InsertDelete, Statement
<1>1. current # None /\ current.id \in Skill
  BY Loading DEF IInv, Control
<1>2. TypeOK'
  BY <1>1 DEF IInv, TypeOK, GraphTypeOK, DeleteSkill, Step
<1>3. Edges'
  <2>1. currentVersion' = hasVersion'
    BY DEF IInv, Edges, DeleteSkill
  <2>2. \A s \in hasVersion' : skill'[s] # None /\ version'[s] # None
    BY <1>1 DEF IInv, Edges, TypeOK, GraphTypeOK, DeleteSkill
  <2>3. ASSUME NEW f \in decomposes'
        PROVE  f[1] \in hasVersion' /\ fragment'[f] = version'[f[1]]
    <3>1. f \in decomposes /\ f \notin Matched(current.id) /\ f \in Fragment
      BY DEF DeleteSkill, IInv, TypeOK, GraphTypeOK
    <3>2. f[1] \in hasVersion /\ fragment[f] = version[f[1]] /\ f[1] \in Skill
      BY <3>1 DEF IInv, Edges, TypeOK, GraphTypeOK
    <3>3. f[1] # current.id
      BY <3>1, <3>2 DEF Matched
    <3> QED BY <3>1, <3>2, <3>3, <1>1 DEF DeleteSkill, IInv, TypeOK, GraphTypeOK
  <2> QED BY <2>1, <2>2, <2>3 DEF Edges
<1>4. Control'
  BY <1>1 DEF IInv, Control
<1>5. Progress'
  BY DEF Progress
<1> QED BY <1>2, <1>3, <1>4, <1>5 DEF IInv

LEMMA SkillKeeps ==
    ASSUME IInv, InsertSkill
    PROVE  IInv'
<1> USE DEF InsertSkill, Statement
<1>1. /\ current # None /\ current.id \in Skill
      /\ NodeOf(current) \in SkillNode /\ NodeOf(current) # None
  BY Loading DEF IInv, Control
<1>2. TypeOK'
  BY <1>1 DEF IInv, TypeOK, GraphTypeOK, CreateSkill, Step
<1>3. Edges'
  BY <1>1 DEF IInv, Edges, CreateSkill, TypeOK, GraphTypeOK
<1>4. Control'
  <2>1. current.id \notin hasVersion
    BY DEF IInv, Edges, CreateSkill
  <2> QED BY <1>1, <2>1 DEF IInv, Control, CreateSkill, TypeOK, GraphTypeOK, NodeOf
<1>5. Progress'
  BY DEF Progress
<1> QED BY <1>2, <1>3, <1>4, <1>5 DEF IInv

LEMMA VersionKeeps ==
    ASSUME IInv, InsertVersion
    PROVE  IInv'
<1> USE DEF InsertVersion, Statement
<1>1. /\ current # None /\ current.id \in Skill
      /\ current.rev \in Revision /\ current.rev # None
  BY Loading DEF IInv, Control
<1>2. TypeOK'
  BY <1>1 DEF IInv, TypeOK, GraphTypeOK, CreateVersion, Step
<1>3. Edges'
  BY <1>1 DEF IInv, Edges, CreateVersion, TypeOK, GraphTypeOK
<1>4. Control'
  BY <1>1 DEF IInv, Control, CreateVersion, TypeOK, GraphTypeOK, NodeOf
<1>5. Progress'
  BY DEF Progress
<1> QED BY <1>2, <1>3, <1>4, <1>5 DEF IInv

LEMMA EdgesKeeps ==
    ASSUME IInv, InsertEdges
    PROVE  IInv'
<1> USE DEF InsertEdges, Statement
<1>1. /\ current # None /\ current.id \in Skill /\ FragmentsOf(current) \subseteq Sequence
      /\ current.rev \in Revision /\ current.rev # None
      /\ NodeOf(current) \in SkillNode /\ NodeOf(current) # None
  BY Loading DEF IInv, Control
<1>2. /\ skill[current.id] = NodeOf(current)
      /\ version[current.id] = current.rev
      /\ current.id \notin hasVersion
      /\ todo = FragmentsOf(current)
      /\ made = None
  BY DEF IInv, Control
<1>3. /\ hasVersion' = hasVersion \cup {current.id}
      /\ currentVersion' = currentVersion \cup {current.id}
      /\ UNCHANGED <<skill, version, fragment, decomposes>>
  BY <1>1, <1>2 DEF CreateVersionEdges
<1>4. TypeOK'
  BY <1>1, <1>3 DEF IInv, TypeOK, GraphTypeOK, Step
<1>5. Edges'
  BY <1>1, <1>2, <1>3 DEF IInv, Edges
<1>6. Control'
  BY <1>1, <1>2, <1>3 DEF IInv, Control
<1>7. Progress'
  <2>1. \A f \in Fragment : f[1] = current.id => f \notin decomposes
    BY <1>2 DEF IInv, Edges
  <2> QED BY <1>1, <1>2, <1>3, <2>1 DEF Progress, NodeOf
<1> QED BY <1>4, <1>5, <1>6, <1>7 DEF IInv

LEMMA FragmentKeeps ==
    ASSUME IInv, NEW q \in Sequence, InsertFragment(q)
    PROVE  IInv'
<1> USE DEF InsertFragment
<1> DEFINE g == <<current.id, q>>
<1>1. /\ current # None /\ current.id \in Skill
      /\ current.rev \in Revision /\ current.rev # None
  BY Loading DEF IInv, Control
<1>2. q # None /\ g \in Fragment /\ g[1] = current.id /\ g[2] = q
  BY <1>1, GraphAssumption DEF Fragment
<1>3. /\ fragment[g] = None
      /\ fragment' = [fragment EXCEPT ![g] = current.rev]
      /\ UNCHANGED <<skill, version, hasVersion, currentVersion, decomposes>>
  BY DEF CreateFragment
<1>4. TypeOK'
  BY <1>1, <1>2, <1>3 DEF IInv, TypeOK, GraphTypeOK
<1>5. g \notin decomposes
  BY <1>2, <1>3 DEF IInv, Edges
<1>6. Edges'
  BY <1>2, <1>3, <1>5 DEF IInv, Edges, TypeOK, GraphTypeOK
<1>7. Control'
  BY <1>1, <1>3 DEF IInv, Control
<1>8. Progress'
  <2>1. current.id \in hasVersion /\ skill[current.id] = NodeOf(current)
        /\ version[current.id] = current.rev /\ todo \subseteq FragmentsOf(current)
    BY DEF IInv, Progress
  <2>2. todo' \subseteq FragmentsOf(current) /\ made' \in FragmentsOf(current) \ todo'
    BY <2>1
  <2>3. fragment'[<<current.id, made'>>] = current.rev
    BY <1>2, <1>3 DEF IInv, TypeOK, GraphTypeOK
  <2>4. \A f \in Fragment : f[1] = current.id =>
          (f \in decomposes <=> f[2] \in FragmentsOf(current) \ (todo \cup {made}))
    BY DEF IInv, Progress
  <2>5. \A f \in Fragment : f[2] # None
    BY GraphAssumption DEF Fragment
  <2>6. todo \cup {made} = todo' \cup {made'} \cup {None}
    BY <1>2
  <2>7. \A f \in Fragment : f[1] = current.id =>
          (f \in decomposes <=> f[2] \in FragmentsOf(current) \ (todo' \cup {made'}))
    BY <2>4, <2>5, <2>6
  <2> QED BY <1>3, <2>1, <2>2, <2>3, <2>7 DEF Progress, NodeOf
<1> QED BY <1>4, <1>6, <1>7, <1>8 DEF IInv

LEMMA FragmentEdgeKeeps ==
    ASSUME IInv, InsertFragmentEdge
    PROVE  IInv'
<1> USE DEF InsertFragmentEdge
<1> DEFINE g == <<current.id, made>>
<1>1. step = "fragment" /\ current # None /\ current.id \in Skill
      /\ made \in Sequence /\ current.rev # None
  BY Loading DEF IInv, Control, TypeOK
<1>2. g \in Fragment /\ g[1] = current.id /\ g[2] = made
  BY <1>1 DEF Fragment
<1>3. /\ current.id \in hasVersion /\ skill[current.id] = NodeOf(current)
      /\ version[current.id] = current.rev /\ todo \subseteq FragmentsOf(current)
      /\ made \in FragmentsOf(current) \ todo /\ fragment[g] = current.rev
  BY <1>1 DEF IInv, Progress
<1>4. /\ decomposes' = decomposes \cup {g}
      /\ UNCHANGED <<skill, version, hasVersion, currentVersion, fragment>>
  BY <1>1, <1>2, <1>3 DEF CreateFragmentEdge
<1>5. TypeOK'
  BY <1>2, <1>4 DEF IInv, TypeOK, GraphTypeOK
<1>6. Edges'
  BY <1>2, <1>3, <1>4 DEF IInv, Edges
<1>7. Control'
  BY <1>1, <1>4 DEF IInv, Control
<1>8. Progress'
  <2>1. \A f \in Fragment : f[1] = current.id =>
          (f \in decomposes <=> f[2] \in FragmentsOf(current) \ (todo \cup {made}))
    BY <1>1 DEF IInv, Progress
  <2>2. \A f \in Fragment : f = <<f[1], f[2]>> /\ f[2] # None
    BY GraphAssumption DEF Fragment
  <2>3. \A f \in Fragment : f[1] = current.id =>
          (f \in decomposes' <=> f[2] \in FragmentsOf(current) \ (todo \cup {None}))
    BY <1>2, <1>3, <1>4, <2>1, <2>2
  <2> QED BY <1>1, <1>3, <1>4, <2>3 DEF Progress, NodeOf
<1> QED BY <1>5, <1>6, <1>7, <1>8 DEF IInv

\* The count of faults stays within its bound.
LEMMA FaultBound ==
    ASSUME IInv, Fault \/ UNCHANGED faults
    PROVE  faults' \in 0 .. MaxFaults
BY ReviewAssumption DEF IInv, TypeOK, Fault

\* Every step of an ingest keeps the invariant.
LEMMA StepKeeps ==
    ASSUME IInv, [Next]_vars
    PROVE  IInv'
<1>1. CASE UNCHANGED vars
  <2>1. TypeOK'
    BY <1>1 DEF IInv, vars, graphVars, ingestVars, TypeOK, GraphTypeOK
  <2>2. Edges' /\ Control' /\ Progress'
    BY <1>1 DEF IInv, vars, graphVars, ingestVars, Edges, Control, Progress, NodeOf
  <2> QED BY <2>1, <2>2 DEF IInv
<1>2. CASE Start
  BY <1>2, SingleKeeps, BatchKeeps DEF Start
<1>3. ASSUME NEW r \in Review, NextFile(r)
      PROVE  IInv'
  <2>1. /\ Insert(r, force) /\ UNCHANGED <<graphVars, failed, exit, faults>>
        /\ mode' = mode /\ force' = force /\ queue' \subseteq Review /\ force \in BOOLEAN
    BY <1>3 DEF NextFile, IInv, TypeOK
  <2>2. CASE mode \in {"single", "batch"}
    BY <2>1, <2>2, InsertKeeps
  <2>3. CASE mode = "idle"
    BY <1>3, <2>3 DEF NextFile, IInv, Control
  <2> QED BY <2>2, <2>3 DEF IInv, TypeOK
<1>4. CASE EndBatch
  <2>1. (IF failed THEN "db" ELSE "ok") \in ExitCode
    BY DEF ExitCode
  <2> QED BY <1>4, <2>1, EndKeeps, FaultBound DEF EndBatch
<1>5. CASE InsertDelete
  BY <1>5, DeleteKeeps
<1>6. CASE InsertSkill
  BY <1>6, SkillKeeps
<1>7. CASE InsertVersion
  BY <1>7, VersionKeeps
<1>8. CASE InsertEdges
  BY <1>8, EdgesKeeps
<1>9. ASSUME NEW q \in Sequence, InsertFragment(q)
      PROVE  IInv'
  BY <1>9, FragmentKeeps
<1>10. CASE InsertFragmentEdge
  BY <1>10, FragmentEdgeKeeps
<1>11. CASE InsertDone
  <2>1. current # None
    BY <1>11 DEF InsertDone, IInv, Control
  <2> QED BY <1>11, <2>1, DoneKeeps, FaultBound DEF InsertDone, ExitCode
<1>12. CASE InsertFails
  BY <1>12, DoneKeeps, FaultBound DEF InsertFails, ExitCode
<1>13. CASE Crash
  <2>1. current \in Review \cup {None}
    BY DEF IInv, TypeOK
  <2> QED BY <1>13, <2>1, EndKeeps, FaultBound DEF Crash, ExitCode
<1>14. ASSUME OpenFails
       PROVE  IInv'
  BY <1>14, RefuseKeeps DEF OpenFails, ExitCode
<1> QED BY <1>1, <1>2, <1>3, <1>4, <1>5, <1>6, <1>7, <1>8, <1>9, <1>10, <1>11, <1>12,
           <1>13, <1>14 DEF Next, Work

LEMMA InvariantBegins == Init => IInv
<1> SUFFICES ASSUME Init PROVE IInv
  OBVIOUS
<1>1. TypeOK
  <2>1. faults \in 0 .. MaxFaults
    BY ReviewAssumption DEF Init, IngestInit
  <2>2. GraphTypeOK
    BY DEF Init, IngestInit, GraphInit, GraphTypeOK
  <2> QED BY <2>1, <2>2 DEF Init, IngestInit, TypeOK, Step, ExitCode
<1>2. Edges /\ Control /\ Progress
  BY DEF Init, IngestInit, GraphInit, Edges, Control, Progress
<1> QED BY <1>1, <1>2 DEF IInv

LEMMA InvariantHolds == Spec => []IInv
<1>1. IInv /\ [Next]_vars => IInv'
  BY StepKeeps
<1> QED BY <1>1, InvariantBegins, PTL DEF Spec
-----------------------------------------------------------------------------
(* The theorems. *)

\* The graph and the run keep their types, whatever fails or dies (ingest.py).
THEOREM TypeCorrect == Spec => []TypeOK
<1>1. IInv => TypeOK
  BY DEF IInv
<1> QED BY <1>1, InvariantHolds, PTL

\* No ingest, and no ingest cut short, ever makes the consistency guard of
\* reads/active.py fail the reads of the corpus.
THEOREM GuardStaysQuiet == Spec => []GuardNeverTrips
<1>1. IInv => GuardNeverTrips
  BY DEF IInv, Edges, GuardNeverTrips, Inconsistent
<1> QED BY <1>1, InvariantHolds, PTL

\* What is served of a skill is of one revision, that of its version, wherever
\* the loads of its revisions were cut short (_insert).
THEOREM ServedOneRevision == Spec => []OneRevision
<1>1. IInv => OneRevision
  <2> SUFFICES ASSUME IInv, NEW f \in ActiveFragments
               PROVE  fragment[f] = version[f[1]] /\ fragment[f] # None
    BY DEF OneRevision
  <2>1. f \in decomposes
    BY DEF ActiveFragments
  <2> QED BY <2>1 DEF IInv, Edges
<1> QED BY <1>1, InvariantHolds, PTL

\* When _insert returns, the fragments that are tied are those of the file.
LEMMA DoneLoads ==
    ASSUME IInv, InsertDone
    PROVE  current \in Review /\ Loaded(current) /\ UNCHANGED graphVars
<1>1. /\ current \in Review /\ current.id \in Skill
      /\ FragmentsOf(current) \subseteq Sequence
  BY Loading DEF InsertDone, IInv, Control
<1>2. current.id \in hasVersion /\ skill[current.id] = NodeOf(current)
      /\ version[current.id] = current.rev /\ todo = {} /\ made = None
  BY DEF InsertDone, IInv, Progress
<1>3. \A f \in Fragment : f[1] = current.id =>
          (f \in decomposes <=> f[2] \in FragmentsOf(current))
  <2>1. \A f \in Fragment : f[2] # None
    BY GraphAssumption DEF Fragment
  <2> QED BY <1>2, <2>1 DEF InsertDone, IInv, Progress
<1>4. {f \in decomposes : f[1] = current.id} = {current.id} \X FragmentsOf(current)
  <2>1. ASSUME NEW f \in decomposes, f[1] = current.id
        PROVE  f \in {current.id} \X FragmentsOf(current)
    BY <1>3, <2>1 DEF IInv, TypeOK, GraphTypeOK, Fragment
  <2>2. ASSUME NEW f \in {current.id} \X FragmentsOf(current)
        PROVE  f \in decomposes /\ f[1] = current.id
    BY <1>1, <1>3 DEF Fragment
  <2> QED BY <2>1, <2>2
<1>5. \A q \in FragmentsOf(current) : fragment[<<current.id, q>>] = current.rev
  <2> SUFFICES ASSUME NEW q \in FragmentsOf(current)
               PROVE  fragment[<<current.id, q>>] = current.rev
    OBVIOUS
  <2>1. <<current.id, q>> \in decomposes
    BY <1>4
  <2>2. fragment[<<current.id, q>>] = version[<<current.id, q>>[1]]
    BY <2>1 DEF IInv, Edges
  <2> QED BY <1>2, <2>2
<1>6. current.id \in hasVersion \cap currentVersion
  BY <1>2 DEF IInv, Edges
<1> QED BY <1>1, <1>2, <1>4, <1>5, <1>6 DEF Loaded, InsertDone

\* When _insert returns, the whole of the file is in the graph, and nothing
\* else under the id of the skill, whatever earlier loads left there.
THEOREM ReportedLoadIsWhole == Spec => OkMeansLoaded
<1>1. ASSUME IInv, NEW r \in Review, current = r, InsertDone
      PROVE  Loaded(r)'
  <2>1. Loaded(r) /\ UNCHANGED graphVars
    BY <1>1, DoneLoads
  <2> QED BY <2>1 DEF Loaded, graphVars
<1>2. IInv /\ [Next]_vars =>
        [\A r \in Review : current = r /\ InsertDone => Loaded(r)']_vars
  BY <1>1
<1> QED BY <1>2, InvariantHolds, PTL DEF Spec, OkMeansLoaded

\* A version node that no edge ties to its skill stays, untied, through every
\* later ingest, forced or not: the skill is never served again.
THEOREM StuckIsPermanent == Spec => StuckForever
<1>1. ASSUME IInv, [Next]_vars, NEW s \in Skill, Stuck(s)
      PROVE  Stuck(s)'
  <2> USE DEF Stuck
  <2>1. CASE UNCHANGED <<version, hasVersion, currentVersion>> /\
             (current' # None /\ current'.id = s => step' \in {"delete", "skill", "version"})
    BY <1>1, <2>1
  <2>2. CASE UNCHANGED vars
    BY <1>1, <2>1, <2>2 DEF vars, graphVars, ingestVars
  <2>3. CASE Start \/ OpenFails \/ (\E r \in Review : NextFile(r))
    BY <1>1, <2>1, <2>3 DEF Start, Single, Batch, NextFile, OpenFails, Insert, Refuse,
                           graphVars, IInv, Control
  <2>4. CASE EndBatch \/ InsertDone \/ InsertFails \/ Crash
    BY <1>1, <2>1, <2>4 DEF EndBatch, InsertDone, InsertFails, Crash, End, Done, graphVars
  <2>5. CASE InsertDelete
    BY <1>1, <2>5 DEF InsertDelete, Statement, DeleteSkill, IInv, TypeOK, GraphTypeOK
  <2>6. CASE InsertSkill
    BY <1>1, <2>1, <2>6 DEF InsertSkill, Statement, CreateSkill
  <2>7. CASE InsertVersion
    <3>1. current # None
      BY <1>1, <2>7 DEF InsertVersion, Statement, IInv, Control
    <3>2. current.id # s
      BY <1>1, <2>7 DEF InsertVersion, CreateVersion
    <3> QED BY <1>1, <2>7, <3>2 DEF InsertVersion, Statement, CreateVersion, IInv, TypeOK,
                                    GraphTypeOK
  <2>8. CASE InsertEdges
    <3>1. current # None
      BY <1>1, <2>8 DEF InsertEdges, Statement, IInv, Control
    <3>2. current.id # s
      BY <1>1, <2>8, <3>1 DEF InsertEdges, Statement
    <3> QED BY <1>1, <2>8, <3>2 DEF InsertEdges, Statement, CreateVersionEdges
  <2>9. CASE \E q \in Sequence : InsertFragment(q)
    BY <1>1, <2>1, <2>9 DEF InsertFragment, CreateFragment
  <2>10. CASE InsertFragmentEdge
    BY <1>1, <2>1, <2>10 DEF InsertFragmentEdge, CreateFragmentEdge
  <2> QED BY <1>1, <2>2, <2>3, <2>4, <2>5, <2>6, <2>7, <2>8, <2>9, <2>10 DEF Next, Work
<1>2. IInv /\ [Next]_vars => [\A s \in Skill : Stuck(s) => Stuck(s)']_vars
  BY <1>1
<1> QED BY <1>2, InvariantHolds, PTL DEF Spec, StuckForever
-----------------------------------------------------------------------------
(* What a fault would disturb: nothing is in the graph by half. *)

Busy(s) == current # None /\ current.id = s

Whole(s) == \E r \in Review : r.id = s /\ Loaded(r)

\* Without a fault, what is not tied belongs to the skill that is being made,
\* and every other skill is whole.
Tidy ==
    /\ \A s \in Skill :
          skill[s] # None /\ ~(Busy(s) /\ step \in {"version", "edges", "fragment"}) => Whole(s)
    /\ \A s \in Skill : version[s] # None /\ s \notin hasVersion => Busy(s) /\ step = "edges"
    /\ \A f \in Fragment : fragment[f] # None /\ f \notin decomposes =>
          Busy(f[1]) /\ made = f[2]
    /\ force /\ step = "skill" => skill[current.id] = None

TidyInv == faults = 0 => Tidy

\* A step leaves all that is in the graph under the id s.
Apart(s) ==
    /\ skill'[s] = skill[s] /\ version'[s] = version[s]
    /\ s \in hasVersion' <=> s \in hasVersion
    /\ s \in currentVersion' <=> s \in currentVersion
    /\ \A q \in Sequence : fragment'[<<s, q>>] = fragment[<<s, q>>]
    /\ \A q \in Sequence : <<s, q>> \in decomposes' <=> <<s, q>> \in decomposes

LEMMA ApartLoaded ==
    ASSUME IInv, IInv', NEW r \in Review, Apart(r.id)
    PROVE  /\ Loaded(r)' <=> Loaded(r)
           /\ skill'[r.id] = skill[r.id]
<1>1. r.id \in Skill /\ FragmentsOf(r) \subseteq Sequence
  BY ReviewParts
<1>2. /\ \A f \in decomposes : f \in Fragment /\ f = <<f[1], f[2]>> /\ f[2] \in Sequence
      /\ \A f \in decomposes' : f \in Fragment /\ f = <<f[1], f[2]>> /\ f[2] \in Sequence
  BY DEF IInv, TypeOK, GraphTypeOK, Fragment
<1>3. {f \in decomposes' : f[1] = r.id} = {f \in decomposes : f[1] = r.id}
  BY <1>1, <1>2 DEF Apart
<1>4. \A q \in FragmentsOf(r) : fragment'[<<r.id, q>>] = fragment[<<r.id, q>>]
  BY <1>1 DEF Apart
<1> QED BY <1>3, <1>4 DEF Loaded, Apart, NodeOf

\* A statement of _insert leaves the other skills alone.
LEMMA StatementApart ==
    ASSUME IInv, NEW s \in Skill,
           \/ InsertDelete \/ InsertSkill \/ InsertVersion \/ InsertEdges
           \/ \E q \in Sequence : InsertFragment(q)
           \/ InsertFragmentEdge
    PROVE  current # None /\ current' = current /\ (current.id # s => Apart(s))
<1>1. current # None /\ current.id \in Skill /\ current' = current
  BY Loading DEF InsertDelete, InsertSkill, InsertVersion, InsertEdges, InsertFragment,
                 InsertFragmentEdge, Statement, IInv, Control
<1> SUFFICES ASSUME current.id # s PROVE Apart(s)
  BY <1>1
<1>2. \A q \in Sequence : <<s, q>> \in Fragment /\ <<s, q>>[1] = s
  BY DEF Fragment
<1>3. GraphTypeOK
  BY DEF IInv, TypeOK
<1>4. CASE InsertDelete
  BY <1>1, <1>2, <1>3, <1>4 DEF InsertDelete, DeleteSkill, Matched, Apart, GraphTypeOK
<1>5. CASE InsertSkill \/ InsertVersion \/ InsertEdges
  BY <1>1, <1>2, <1>3, <1>5
  DEF InsertSkill, InsertVersion, InsertEdges, CreateSkill, CreateVersion,
      CreateVersionEdges, Apart, GraphTypeOK
<1>6. ASSUME NEW p \in Sequence, InsertFragment(p) PROVE Apart(s)
  BY <1>1, <1>2, <1>3, <1>6 DEF InsertFragment, CreateFragment, Apart, GraphTypeOK, Fragment
<1>7. CASE InsertFragmentEdge
  BY <1>1, <1>2, <1>3, <1>7 DEF InsertFragmentEdge, CreateFragmentEdge, Apart, Fragment
<1> QED BY <1>4, <1>5, <1>6, <1>7

\* Without a fault a load meets only a skill that is there already, and whole.
LEMMA ConflictIsDuplicate ==
    ASSUME IInv, Tidy, Conflict
    PROVE  step = "skill" /\ skill[current.id] # None /\ ~force
<1>1. current # None /\ current.id \in Skill /\ FragmentsOf(current) \subseteq Sequence
  BY Loading DEF IInv, Control, Conflict
<1>2. ASSUME step = "version" PROVE version[current.id] = None
  BY <1>1, <1>2 DEF Tidy, IInv, Control
<1>3. ASSUME step = "fragment", made = None, NEW q \in todo PROVE fragment[<<current.id, q>>] = None
  <2>1. /\ q \in Sequence /\ q # None
        /\ <<current.id, q>> \in Fragment
        /\ <<current.id, q>>[1] = current.id /\ <<current.id, q>>[2] = q
    BY <1>1, <1>3, GraphAssumption DEF IInv, TypeOK, Fragment
  <2>2. <<current.id, q>> \notin decomposes
    BY <1>3, <2>1 DEF IInv, Progress
  <2> QED BY <1>3, <2>1, <2>2 DEF Tidy
<1> QED BY <1>1, <1>2, <1>3 DEF Conflict, Tidy

\* A step that leaves the graph alone keeps the skills whole.
LEMMA TidyStays ==
    ASSUME Tidy, UNCHANGED graphVars,
           step \notin {"version", "edges", "fragment"},
           step' \notin {"version", "edges", "fragment"},
           made = None,
           force' /\ step' = "skill" => skill'[current'.id] = None
    PROVE  Tidy'
<1>1. \A s \in Skill : Whole(s) => Whole(s)'
  BY DEF Whole, Loaded, graphVars, NodeOf
<1>2. \A f \in Fragment : fragment[f] = None \/ f \in decomposes
  BY GraphAssumption DEF Tidy, Fragment
<1> QED BY <1>1, <1>2 DEF Tidy, graphVars

\* A statement of _insert keeps them whole, and what it does not tie it will.
LEMMA StatementTidy ==
    ASSUME IInv, IInv', Tidy,
           \/ InsertDelete \/ InsertSkill \/ InsertVersion \/ InsertEdges
           \/ \E q \in Sequence : InsertFragment(q)
           \/ InsertFragmentEdge
    PROVE  Tidy'
<1> DEFINE id == current.id
<1>0. /\ current # None /\ id \in Skill /\ current' = current /\ force' = force
      /\ \A s \in Skill : s # id => Apart(s)
      /\ current.rev # None
  <2>1. current # None /\ current' = current /\ force' = force
    BY DEF IInv, Control, InsertDelete, InsertSkill, InsertVersion, InsertEdges,
           InsertFragment, InsertFragmentEdge, Statement
  <2>2. \A s \in Skill : s # id => Apart(s)
    BY StatementApart
  <2> QED BY <2>1, <2>2, Loading
<1>1. /\ GraphTypeOK /\ GraphTypeOK' /\ made \in Sequence \cup {None}
      /\ \A f \in Fragment : f = <<f[1], f[2]>> /\ f[1] \in Skill /\ f[2] \in Sequence
      /\ \A q \in Sequence : <<id, q>> \in Fragment /\ q # None
  BY <1>0, GraphAssumption DEF IInv, TypeOK, Fragment
<1>2. ASSUME NEW s \in Skill, s # id, skill'[s] # None PROVE Whole(s)'
  <2>1. Apart(s) /\ skill[s] # None
    BY <1>0, <1>2 DEF Apart
  <2>2. PICK r \in Review : r.id = s /\ Loaded(r)
    BY <1>2, <2>1 DEF Tidy, Busy, Whole
  <2> QED BY <2>1, <2>2, ApartLoaded DEF Whole
<1>3. ASSUME NEW s \in Skill, s # id, version'[s] # None, s \notin hasVersion' PROVE FALSE
  BY <1>0, <1>3 DEF Apart, Tidy, Busy
<1>4. ASSUME NEW f \in Fragment, f[1] # id, fragment'[f] # None, f \notin decomposes' PROVE FALSE
  <2>1. fragment[f] # None /\ f \notin decomposes
    BY <1>0, <1>1, <1>4 DEF Apart
  <2> QED BY <1>4, <2>1 DEF Tidy, Busy
\* It remains to look at the skill that is being made.
<1>5. ASSUME \/ skill'[id] = None
             \/ step' \in {"version", "edges", "fragment"},
             version'[id] = None \/ id \in hasVersion' \/ step' = "edges",
             \A q \in Sequence : \/ fragment'[<<id, q>>] = None
                                 \/ <<id, q>> \in decomposes' \/ made' = q,
             force /\ step' = "skill" => skill'[id] = None
      PROVE  Tidy'
  <2>1. \A s \in Skill :
           (skill[s] # None /\ ~(Busy(s) /\ step \in {"version", "edges", "fragment"}) => Whole(s))'
    BY <1>0, <1>2, <1>5 DEF Busy
  <2>2. \A s \in Skill : (version[s] # None /\ s \notin hasVersion => Busy(s) /\ step = "edges")'
    BY <1>0, <1>3, <1>5 DEF Busy
  <2>3. \A f \in Fragment : (fragment[f] # None /\ f \notin decomposes => Busy(f[1]) /\ made = f[2])'
    BY <1>0, <1>1, <1>4, <1>5 DEF Busy
  <2>4. (force /\ step = "skill" => skill[current.id] = None)'
    BY <1>0, <1>5
  <2> QED BY <2>1, <2>2, <2>3, <2>4 DEF Tidy
<1>6. \A q \in Sequence : fragment[<<id, q>>] # None /\ <<id, q>> \notin decomposes => made = q
  BY <1>1 DEF Tidy
<1>7. CASE InsertDelete
  <2>1. step = "delete" /\ step' = "skill" /\ made' = made /\ made = None
    BY <1>7 DEF InsertDelete, Statement, IInv, Control
  <2>2. version[id] # None => id \in hasVersion
    BY <1>0, <2>1 DEF Tidy
  <2>3. skill'[id] = None /\ version'[id] = None
    BY <1>0, <1>1, <1>7, <2>2 DEF InsertDelete, DeleteSkill, GraphTypeOK
  <2>4. ASSUME NEW q \in Sequence PROVE fragment'[<<id, q>>] = None
    <3>1. fragment[<<id, q>>] = None \/ <<id, q>> \in Matched(id)
      BY <1>1, <1>6, <2>1 DEF Matched, IInv, Edges
    <3> QED BY <1>1, <1>7, <3>1 DEF InsertDelete, DeleteSkill
  <2> QED BY <1>5, <2>1, <2>3, <2>4
<1>8. CASE InsertSkill
  <2>1. step' = "version" /\ made' = made
        /\ UNCHANGED <<version, hasVersion, fragment, decomposes>> /\ step = "skill"
    BY <1>8 DEF InsertSkill, Statement, CreateSkill
  <2>2. version[id] = None \/ id \in hasVersion
    BY <1>0, <2>1 DEF Tidy
  <2> QED BY <1>5, <1>6, <2>1, <2>2
<1>9. CASE InsertVersion
  <2>1. step' = "edges" /\ made' = made /\ UNCHANGED <<fragment, decomposes>>
    BY <1>9 DEF InsertVersion, Statement, CreateVersion
  <2> QED BY <1>5, <1>6, <2>1
<1>10. CASE InsertEdges
  <2>1. step' = "fragment" /\ made' = made /\ UNCHANGED <<fragment, decomposes>>
    BY <1>10 DEF InsertEdges, Statement, CreateVersionEdges
  <2>2. skill[id] # None /\ version[id] # None
    BY <1>10, Loading DEF InsertEdges, Statement, IInv, Control
  <2>3. id \in hasVersion'
    BY <1>10, <2>2 DEF InsertEdges, CreateVersionEdges
  <2> QED BY <1>5, <1>6, <2>1, <2>3
<1>11. ASSUME NEW p \in Sequence, InsertFragment(p) PROVE Tidy'
  <2>1. step' = "fragment" /\ made' = p /\ made = None
        /\ UNCHANGED <<decomposes, hasVersion>> /\ id \in hasVersion
    BY <1>11 DEF InsertFragment, CreateFragment, IInv, Progress
  <2>2. \A q \in Sequence : q # p => fragment'[<<id, q>>] = fragment[<<id, q>>]
    BY <1>1, <1>11 DEF InsertFragment, CreateFragment, GraphTypeOK
  <2> QED BY <1>1, <1>5, <1>6, <2>1, <2>2
<1>12. CASE InsertFragmentEdge
  <2>1. step = "fragment" /\ step' = "fragment" /\ made \in Sequence /\ made' = None
    BY <1>1, <1>12 DEF InsertFragmentEdge, IInv, Control
  <2>2. /\ id \in hasVersion /\ version[id] = current.rev
        /\ fragment[<<id, made>>] = current.rev
    BY <1>12, <2>1 DEF InsertFragmentEdge, IInv, Progress
  <2>3. /\ decomposes' = decomposes \cup {<<id, made>>}
        /\ UNCHANGED <<hasVersion, fragment>>
    BY <1>0, <1>12, <2>2 DEF InsertFragmentEdge, CreateFragmentEdge
  <2> QED BY <1>5, <1>6, <2>1, <2>2, <2>3
<1> QED BY <1>7, <1>8, <1>9, <1>10, <1>11, <1>12

\* As long as there is no fault, a load that fails has changed nothing.
LEMMA TidyKept ==
    ASSUME IInv, TidyInv, [Next]_vars
    PROVE  TidyInv'
<1>1. IInv' /\ faults \in Nat
  BY StepKeeps DEF IInv, TypeOK
<1> SUFFICES ASSUME faults' = 0 PROVE Tidy'
  BY DEF TidyInv
<1>2. ~Fault
  BY <1>1 DEF Fault
<1>3. faults = 0
  <2>1. CASE UNCHANGED vars
    BY <2>1 DEF vars, ingestVars
  <2> QED BY <1>2, <2>1
      DEF Next, Start, Single, Batch, Refuse, OpenFails, Work, NextFile, EndBatch, InsertDelete,
          InsertSkill, InsertVersion, InsertEdges, InsertFragment, InsertFragmentEdge,
          InsertDone, InsertFails, Crash, Statement
<1>4. Tidy
  BY <1>3 DEF TidyInv
<1>5. ASSUME UNCHANGED <<graphVars, force, current, step, made>> PROVE Tidy'
  <2>1. \A s \in Skill : Whole(s) => Whole(s)'
    BY <1>5 DEF Whole, Loaded, graphVars, NodeOf
  <2> QED BY <1>4, <1>5, <2>1 DEF Tidy, Busy, graphVars
<1>6. CASE UNCHANGED vars
  BY <1>5, <1>6 DEF vars, ingestVars
<1>7. CASE OpenFails
  BY <1>5, <1>7 DEF OpenFails, Refuse
<1>8. mode = "idle" \/ step = "next" => step \in {"none", "next"} /\ made = None
  BY DEF IInv, Control
<1>9. ASSUME NEW r \in Review, NEW forced \in BOOLEAN, NEW strict \in BOOLEAN,
             NEW yes \in BOOLEAN, Single(r, forced, strict, yes)
      PROVE  Tidy'
  <2>1. CASE \E code \in ExitCode \cup {"none"} : Refuse(code)
    BY <1>5, <2>1 DEF Refuse
  <2>2. CASE Insert(r, forced) /\ force' = forced /\ UNCHANGED graphVars
    BY <1>4, <1>8, <1>9, <2>2, TidyStays DEF Single, Insert
  <2> QED BY <1>9, <2>1, <2>2 DEF Single, Refusal, ExitCode
<1>10. ASSUME NEW directory \in SUBSET Review, NEW forced \in BOOLEAN,
              NEW strict \in BOOLEAN, NEW yes \in BOOLEAN,
              Batch(directory, forced, strict, yes)
       PROVE  Tidy'
  <2>1. CASE \E code : Refuse(code)
    BY <1>5, <2>1 DEF Refuse
  <2>2. CASE mode = "idle" /\ step' = "next" /\ UNCHANGED graphVars
    BY <1>4, <1>8, <2>2, TidyStays
  <2> QED BY <1>10, <2>1, <2>2 DEF Batch
<1>11. ASSUME NEW r \in Review, NextFile(r) PROVE Tidy'
  BY <1>4, <1>8, <1>11, TidyStays DEF NextFile, Insert
<1>12. CASE EndBatch
  BY <1>4, <1>8, <1>12, TidyStays DEF EndBatch, End
<1>13. CASE InsertFails
  <2>1. Conflict /\ UNCHANGED graphVars
    BY <1>2, <1>13 DEF InsertFails
  <2>2. step = "skill" /\ made = None
    BY <1>4, <2>1, ConflictIsDuplicate DEF IInv, Control
  <2>3. step' \in {"none", "next"}
    BY <1>13 DEF InsertFails, Done, End
  <2> QED BY <1>4, <2>1, <2>2, <2>3, TidyStays
\* What has been loaded is whole.
<1>14. CASE InsertDone
  <2>1. current \in Review /\ Loaded(current) /\ UNCHANGED graphVars
    BY <1>14, DoneLoads
  <2>2. step = "fragment" /\ made = None /\ step' \in {"none", "next"}
    BY <1>14 DEF InsertDone, Done, End
  <2>3. \A s \in Skill : skill[s] # None => Whole(s)
    BY <1>4, <2>1 DEF Tidy, Busy, Whole
  <2>4. \A s \in Skill : Whole(s) => Whole(s)'
    BY <2>1 DEF Whole, Loaded, graphVars, NodeOf
  <2>5. \A f \in Fragment : f[2] # None
    BY GraphAssumption DEF Fragment
  <2> QED BY <1>4, <2>1, <2>2, <2>3, <2>4, <2>5 DEF Tidy, graphVars
<1>15. CASE Crash
  BY <1>2, <1>15 DEF Crash
<1> QED BY <1>1, <1>4, <1>6, <1>7, <1>9, <1>10, <1>11, <1>12, <1>13, <1>14, <1>15, StatementTidy
        DEF Next, Start, Work

\* Without a fault before, every skill in the graph is whole, as some file has
\* it, whenever nobody is loading it (ingest.py, _single and _batch).
THEOREM SkillsStayWhole == Spec => []WholeWhenIdle
<1>1. Init => TidyInv
  BY DEF Init, IngestInit, GraphInit, TidyInv, Tidy
<1>2. IInv /\ TidyInv /\ [Next]_vars => TidyInv'
  BY TidyKept
<1>3. TidyInv => WholeWhenIdle
  BY DEF TidyInv, Tidy, Busy, Whole, WholeWhenIdle
<1> QED BY <1>1, <1>2, <1>3, InvariantHolds, PTL DEF Spec

\* And a forced load finds no id in use: what it deletes is all that it makes
\* again (_insert with --force).
THEOREM ForceFindsRoom == Spec => []ForceOverwrites
<1>1. Init => TidyInv
  BY DEF Init, IngestInit, GraphInit, TidyInv, Tidy
<1>2. IInv /\ TidyInv /\ [Next]_vars => TidyInv'
  BY TidyKept
<1>3. IInv /\ TidyInv => ForceOverwrites
  BY ConflictIsDuplicate DEF TidyInv, ForceOverwrites
<1> QED BY <1>1, <1>2, <1>3, InvariantHolds, PTL DEF Spec
-----------------------------------------------------------------------------
\* What a pack command has still to load are review files.
FilesOK == files \in Seq(Review)

LEMMA FilesStay == FilesOK /\ [PackNext]_allVars => FilesOK'
<1> SUFFICES ASSUME FilesOK, [PackNext]_allVars PROVE FilesOK'
  OBVIOUS
<1> USE DEF FilesOK
<1>1. /\ <<>> \in Seq(Review)
      /\ files # <<>> => Tail(files) \in Seq(Review)
      /\ \A p \in Pack : Manifest[p].files \in Seq(Review)
  BY PackAssumption DEF ManifestRecord
<1>2. CASE PackStart
  BY <1>1, <1>2
  DEF PackStart, SetupChooses, InstallPacks, RefusePacks, BeginJob, InstallLocal, FetchFails, Fetch
<1>3. CASE PackStep
  <2>1. ASSUME NEW p \in Pack, CopyFile(p) PROVE FilesOK'
    BY <1>1, <2>1 DEF CopyFile, EndJob
  <2>2. ASSUME NEW p \in Pack, BeginPack(p) PROVE FilesOK'
    BY <1>1, <2>2 DEF BeginPack
  <2>3. CASE SkipFile BY <1>1, <2>3 DEF SkipFile
  <2>4. CASE RunFile BY <2>4 DEF RunFile
  <2>5. CASE FileDone
    <3>1. CASE files = <<>> BY <2>5, <3>1 DEF FileDone
    <3>2. CASE files # <<>> BY <1>1, <2>5, <3>2 DEF FileDone
    <3> QED BY <3>1, <3>2
  <2>6. CASE RecordPack BY <1>1, <2>6 DEF RecordPack, EndJob
  <2>7. CASE Finish BY <1>1, <2>7 DEF Finish, EndJob
  <2>8. CASE KillJob BY <1>1, <2>8 DEF KillJob, EndJob
  <2> QED BY <1>3, <2>1, <2>2, <2>3, <2>4, <2>5, <2>6, <2>7, <2>8 DEF PackStep
<1>4. CASE ByHand BY <1>4 DEF ByHand, jobVars
<1>5. CASE IngestSteps BY <1>5 DEF IngestSteps, packVars, jobVars
<1>6. CASE UNCHANGED allVars BY <1>6 DEF allVars, packVars, jobVars
<1> QED BY <1>2, <1>3, <1>4, <1>5, <1>6 DEF PackNext

LEMMA PackStepIsIngestStep == FilesOK /\ [PackNext]_allVars => [Next]_vars
<1> SUFFICES ASSUME FilesOK, [PackNext]_allVars PROVE [Next]_vars
  OBVIOUS
<1>1. CASE PackStart
  <2>1. ASSUME NEW choice \in Selected, SetupChooses(choice) PROVE UNCHANGED vars
    BY <2>1 DEF SetupChooses
  <2>2. ASSUME NEW flag, NEW prompted, NEW ignoreUnknown,
               InstallPacks(flag, prompted, ignoreUnknown)
        PROVE UNCHANGED vars
    BY <2>2 DEF InstallPacks, RefusePacks, BeginJob
  <2>3. ASSUME NEW p \in Pack, InstallLocal(p) \/ Fetch(p) PROVE UNCHANGED vars
    BY <2>3 DEF InstallLocal, BeginJob, Fetch
  <2>4. ASSUME FetchFails PROVE UNCHANGED vars
    BY <2>4 DEF FetchFails, RefusePacks
  <2> QED BY <1>1, <2>1, <2>2, <2>3, <2>4 DEF PackStart
<1>2. CASE PackStep
  <2>1. ASSUME NEW p \in Pack, CopyFile(p) \/ BeginPack(p) PROVE UNCHANGED vars
    BY <2>1 DEF CopyFile, BeginPack
  <2>2. CASE SkipFile BY <2>2 DEF SkipFile
  <2>3. CASE RunFile
    <3>1. Head(files) \in Review
      BY <2>3 DEF RunFile, FilesOK
    <3> QED BY <2>3, <3>1 DEF RunFile, Next, Start
  <2>4. CASE FileDone BY <2>4 DEF FileDone
  <2>5. CASE RecordPack BY <2>5 DEF RecordPack
  <2>6. CASE Finish BY <2>6 DEF Finish
  <2>7. CASE KillJob BY <2>7 DEF KillJob, Next
  <2> QED BY <1>2, <2>1, <2>2, <2>3, <2>4, <2>5, <2>6, <2>7 DEF PackStep
<1>3. CASE ByHand BY <1>3 DEF ByHand, Next
<1>4. CASE IngestSteps BY <1>4 DEF IngestSteps, Next
<1>5. CASE UNCHANGED allVars BY <1>5 DEF allVars
<1> QED BY <1>1, <1>2, <1>3, <1>4, <1>5 DEF PackNext

\* Every step of a pack command is a step of the ingest command or none: what is
\* true of that command, the theorems above, is true when the pack commands and
\* operators drive it (install_pack.py, _ingest_yaml).
THEOREM PacksDriveIngest == PackSpec => Spec
<1>1. PackInit => Init /\ FilesOK
  BY DEF PackInit, FilesOK
<1> QED BY <1>1, FilesStay, PackStepIsIngestStep, PTL DEF PackSpec, Spec

\* The graph keeps its type, its guard quiet and the revisions it serves apart,
\* wherever an ingest fails or dies (ingest.py, reads/active.py).
THEOREM GraphIsSound == Spec => []GraphSound
<1>1. TypeOK /\ GuardNeverTrips /\ OneRevision => GraphSound
  BY DEF GraphSound
<1> QED BY <1>1, TypeCorrect, GuardStaysQuiet, ServedOneRevision, PTL

\* With the pack commands too, whatever they load and wherever they are killed.
COROLLARY PacksKeepGraphSound == PackSpec => []GraphSound
BY PacksDriveIngest, GraphIsSound, PTL
-----------------------------------------------------------------------------
(* What the pack commands make of it. *)

\* A skill that is there in part is made whole by a forced load alone: every
\* other fails on it, or leaves it alone.
LEMMA BrokenStays ==
    ASSUME IInv, [Next]_vars, NEW s \in Skill, Broken(s), ~force'
    PROVE  Broken(s)'
<1>1. IInv'
  BY StepKeeps
<1>2. ASSUME UNCHANGED graphVars,
             current' # None /\ current'.id = s => step' = "skill"
      PROVE  Broken(s)'
  BY <1>2 DEF Broken, Loaded, graphVars, NodeOf
<1>3. current # None /\ current.id = s => step = "skill"
  BY DEF Broken
<1>4. CASE UNCHANGED vars
  BY <1>2, <1>3, <1>4 DEF vars, ingestVars
<1>5. ASSUME NEW code, Refuse(code) PROVE Broken(s)'
  BY <1>2, <1>3, <1>5 DEF Refuse
<1>6. CASE OpenFails
  BY <1>5, <1>6 DEF OpenFails
<1>7. ASSUME NEW r \in Review, NEW forced \in BOOLEAN, NEW strict \in BOOLEAN,
             NEW yes \in BOOLEAN, Single(r, forced, strict, yes)
      PROVE  Broken(s)'
  <2>1. CASE Insert(r, forced) /\ force' = forced /\ UNCHANGED graphVars
    BY <1>2, <2>1 DEF Insert
  <2> QED BY <1>5, <1>7, <2>1 DEF Single
<1>8. ASSUME NEW directory \in SUBSET Review, NEW forced \in BOOLEAN,
             NEW strict \in BOOLEAN, NEW yes \in BOOLEAN,
             Batch(directory, forced, strict, yes)
      PROVE  Broken(s)'
  <2>1. CASE mode = "idle" /\ UNCHANGED <<graphVars, current>>
    BY <1>2, <2>1 DEF IInv, Control
  <2> QED BY <1>5, <1>8, <2>1 DEF Batch
<1>9. ASSUME NEW r \in Review, NextFile(r) PROVE Broken(s)'
  BY <1>2, <1>9 DEF NextFile, Insert
<1>10. CASE EndBatch \/ InsertDone \/ InsertFails \/ Crash
  BY <1>2, <1>10 DEF EndBatch, InsertDone, InsertFails, Crash, Done, End
<1>11. CASE \/ InsertDelete \/ InsertSkill \/ InsertVersion \/ InsertEdges
            \/ \E q \in Sequence : InsertFragment(q)
            \/ InsertFragmentEdge
  <2>1. current # None /\ current' = current /\ (current.id # s => Apart(s))
    BY <1>11, StatementApart
  <2>2. current.id # s
    <3>1. step = "skill" => skill[current.id] = None
      BY <1>11 DEF InsertDelete, InsertSkill, InsertVersion, InsertEdges, InsertFragment,
                   InsertFragmentEdge, Statement, CreateSkill, IInv, Control
    <3> QED BY <1>3, <2>1, <3>1 DEF Broken
  <2>3. \A r \in Review : r.id = s => (Loaded(r)' <=> Loaded(r))
    BY <1>1, <2>1, <2>2, ApartLoaded
  <2>4. skill'[s] # None
    BY <2>1, <2>2 DEF Apart, Broken
  <2> QED BY <2>1, <2>2, <2>3, <2>4 DEF Broken
<1> QED BY <1>4, <1>6, <1>7, <1>8, <1>9, <1>10, <1>11 DEF Next, Start, Work

\* No pack command repairs a skill that is there in part, nor does anything but
\* a forced load: it counts as a duplicate (install_pack.py, _ingest_yaml).
THEOREM OnlyForceRepairs == PackSpec => RepairedByForceOnly
<1>1. ASSUME IInv, FilesOK, [PackNext]_allVars, NEW s \in Skill, Broken(s)
      PROVE  Broken(s)' \/ force'
  BY <1>1, PackStepIsIngestStep, BrokenStays
<1>2. IInv /\ FilesOK /\ [PackNext]_allVars =>
        [\A s \in Skill : Broken(s) => Broken(s)' \/ force']_allVars
  BY <1>1
<1>3. PackInit => FilesOK
  BY DEF PackInit, FilesOK
<1> QED BY <1>2, <1>3, FilesStay, PacksDriveIngest, InvariantHolds, PTL
        DEF PackSpec, RepairedByForceOnly

\* Only a command that loads files waits for the ingest command.
Waits == waiting => job \in {"packs", "local", "remote"}

LEMMA WaitsStays == Waits /\ [PackNext]_allVars => Waits'
<1> SUFFICES ASSUME Waits, [PackNext]_allVars PROVE Waits'
  OBVIOUS
<1> USE DEF Waits
<1>1. CASE PackStart
  BY <1>1 DEF PackStart, SetupChooses, InstallPacks, RefusePacks, BeginJob, InstallLocal,
              FetchFails, Fetch
<1>2. CASE PackStep
  BY <1>2 DEF PackStep, CopyFile, BeginPack, SkipFile, RunFile, FileDone, RecordPack,
              Finish, KillJob, EndJob, Working
<1>3. CASE ByHand \/ IngestSteps \/ UNCHANGED allVars
  BY <1>3 DEF ByHand, IngestSteps, allVars, packVars, jobVars
<1> QED BY <1>1, <1>2, <1>3 DEF PackNext

\* An install of a remote pack that was cut short is met by its own files.
LEMMA CutShortStays ==
    ASSUME FilesOK, Waits, [PackNext]_allVars, NEW p \in Pack, CutShort(p)
    PROVE  CutShort(p)'
<1> USE DEF CutShort, FilesOf
<1>1. PICK k \in DOMAIN Manifest[p].files : Manifest[p].files[k] \in review
  OBVIOUS
<1>2. ASSUME review \subseteq review', installed' = installed, job' \notin {"fetch", "remote"}
      PROVE  CutShort(p)'
  BY <1>2
<1>3. ASSUME UNCHANGED <<job, plan, files, installed, review>> PROVE CutShort(p)'
  BY <1>3
<1>4. CASE UNCHANGED allVars \/ ByHand \/ IngestSteps
  BY <1>3, <1>4 DEF allVars, ByHand, IngestSteps, packVars, jobVars
<1>5. CASE PackStart
  <2>1. ASSUME NEW choice, SetupChooses(choice) PROVE CutShort(p)'
    BY <1>3, <2>1 DEF SetupChooses
  <2>2. ASSUME NEW flag, NEW prompted, NEW ignoreUnknown,
               InstallPacks(flag, prompted, ignoreUnknown)
        PROVE  CutShort(p)'
    BY <1>2, <1>3, <2>2 DEF InstallPacks, RefusePacks, BeginJob
  <2>3. ASSUME NEW q \in Pack, InstallLocal(q) PROVE CutShort(p)'
    BY <1>2, <2>3 DEF InstallLocal, BeginJob
  <2>4. CASE FetchFails
    BY <1>3, <2>4 DEF FetchFails, RefusePacks
  <2>5. ASSUME NEW q \in Pack, Fetch(q) PROVE CutShort(p)'
    <3>1. /\ job' = "fetch" /\ Head(plan') = q /\ files' = Manifest[q].files
          /\ UNCHANGED <<installed, review>>
      BY <2>5 DEF Fetch
    <3> QED BY <1>1, <3>1
  <2> QED BY <1>5, <2>1, <2>2, <2>3, <2>4, <2>5 DEF PackStart
<1>6. CASE PackStep
  <2>1. ASSUME NEW q \in Pack, CopyFile(q) PROVE CutShort(p)'
    <3>1. CASE files # <<>> /\ Head(files) \in review
      BY <1>2, <2>1, <3>1 DEF CopyFile, EndJob
    <3>2. CASE files = <<>>
      BY <2>1, <3>2 DEF CopyFile
    <3>3. CASE files # <<>> /\ Head(files) \notin review
      <4>1. /\ review' = review \cup {Head(files)} /\ files' = Tail(files)
            /\ UNCHANGED <<job, plan, installed>> /\ job = "fetch"
        BY <2>1, <3>3 DEF CopyFile
      <4>2. ASSUME Head(plan) = p PROVE \E i \in DOMAIN files' : files'[i] \in review'
        <5>1. PICK i \in DOMAIN files : files[i] \in review
          BY <4>1, <4>2
        <5>2. files \in Seq(Review) /\ i \in 1 .. Len(files) /\ i # 1
          BY <3>3, <5>1 DEF FilesOK
        <5>3. i - 1 \in DOMAIN Tail(files) /\ Tail(files)[i - 1] = files[i]
          BY <3>3, <5>2
        <5> QED BY <4>1, <5>1, <5>3
      <4> QED BY <4>1, <4>2
    <3> QED BY <3>1, <3>2, <3>3
  <2>2. ASSUME NEW q \in Pack, BeginPack(q) PROVE CutShort(p)'
    BY <1>2, <2>2 DEF BeginPack
  <2>3. CASE SkipFile \/ FileDone
    <3>1. job \in {"packs", "local", "remote"} /\ UNCHANGED <<job, plan, installed, review>>
      BY <2>3 DEF SkipFile, FileDone, Working, Waits
    <3> QED BY <3>1
  <2>4. CASE RunFile
    BY <1>3, <2>4 DEF RunFile
  <2>5. CASE RecordPack
    <3>1. installed' = installed \cup {[pack |-> Head(plan), remote |-> job = "remote",
                                        failures |-> "failed" \in tally]}
          /\ review' = review /\ job' \in {"packs", "none"}
      BY <2>5 DEF RecordPack, EndJob
    <3>2. ~\E r \in installed' : r.pack = p /\ r.remote
      <4> SUFFICES ASSUME NEW r \in installed', r.pack = p, r.remote PROVE FALSE
        OBVIOUS
      <4>1. r = [pack |-> Head(plan), remote |-> job = "remote", failures |-> "failed" \in tally]
        BY <3>1
      <4>2. Head(plan) = p /\ job = "remote"
        BY <4>1
      <4> QED BY <4>2
    <3> QED BY <3>1, <3>2
  <2>6. CASE Finish \/ KillJob
    BY <1>2, <2>6 DEF Finish, KillJob, EndJob
  <2> QED BY <1>6, <2>1, <2>2, <2>3, <2>4, <2>5, <2>6 DEF PackStep
<1> QED BY <1>4, <1>5, <1>6 DEF PackNext

\* A remote pack whose install was cut short can never be installed: whatever
\* is run, a file of it stays in the way (install_pack.py, the copy to
\* pending-review).
THEOREM CutShortIsForGood == PackSpec => CutShortForGood
<1>1. PackInit => FilesOK /\ Waits
  BY DEF PackInit, FilesOK, Waits
<1>2. FilesOK /\ Waits /\ [PackNext]_allVars =>
        [\A p \in Pack \ Local : CutShort(p) => CutShort(p)']_allVars
  BY CutShortStays
<1> QED BY <1>1, <1>2, FilesStay, WaitsStays, PTL DEF PackSpec, CutShortForGood
-----------------------------------------------------------------------------
(* The order in which packs are installed: visit ends, and places each pack    *)
(* after what it needs.                                                        *)

\* Every set of numbers that is not empty has a least one.
LEMMA Least ==
    ASSUME NEW S \in SUBSET Nat, S # {}
    PROVE  \E m \in S : \A k \in S : m <= k
<1> DEFINE R == OpToRel(<, Nat)
<1>1. IsWellFoundedOn(R, Nat)
  BY NatLessThanWellFounded
<1>2. PICK m \in S : \A k \in S : <<k, m>> \notin R
  <2> HIDE DEF R
  <2> QED BY <1>1, WFMin
<1>3. ASSUME NEW k \in S PROVE m <= k
  <2>1. k < m => <<k, m>> \in R
    BY DEF OpToRel
  <2>2. ~(k < m)
    <3> HIDE DEF R
    <3> QED BY <1>2, <2>1
  <2> QED BY <2>2
<1> QED BY <1>3

\* Where the walk gets to from w.
Reached(w) ==
    {v \in Walking : \A S \in SUBSET Walking :
        w \in S /\ (\A u \in S : u.work # <<>> => Advance(u) \in S) => v \in S}

Ends(w) == {v \in Reached(w) : v.work = <<>>}

LEMMA VisitsTyped ==
    ASSUME NEW packs \in Seq(Pack)
    PROVE  /\ Visits(packs) \in Seq(Visit)
           /\ Len(Visits(packs)) = Len(packs)
           /\ \A i \in 1 .. Len(packs) :
                 Visits(packs)[i] = [pack |-> packs[i], leave |-> FALSE]
<1>1. Visits(packs) \in [1 .. Len(packs) -> Visit]
  BY DEF Visits, Visit
<1> QED BY <1>1 DEF Visits

LEMMA AdvanceTyped ==
    ASSUME NEW w \in Walking, w.work # <<>>
    PROVE  Advance(w) \in Walking
<1>1. /\ w.work \in Seq(Visit) /\ w.seen \in SUBSET Pack /\ w.out \in Seq(Pack)
      /\ Head(w.work) \in Visit /\ Tail(w.work) \in Seq(Visit)
  BY DEF Walking
<1>2. Head(w.work).pack \in Pack
  BY <1>1 DEF Visit
<1>3. Manifest[Head(w.work).pack].deps \in Seq(Pack)
  BY <1>2, PackAssumption DEF ManifestRecord
<1>4. Visits(Manifest[Head(w.work).pack].deps)
        \o <<[pack |-> Head(w.work).pack, leave |-> TRUE]>> \o Tail(w.work) \in Seq(Visit)
  <2>1. <<[pack |-> Head(w.work).pack, leave |-> TRUE]>> \in Seq(Visit)
    BY <1>2 DEF Visit
  <2> QED BY <1>1, <1>3, <2>1, VisitsTyped
<1>5. Append(w.out, Head(w.work).pack) \in Seq(Pack)
  BY <1>1, <1>2
<1> QED BY <1>1, <1>2, <1>4, <1>5 DEF Walking, Advance

\* The walk ends where its next step does; one that is at its end is there.
LEMMA EndsOfNext ==
    ASSUME NEW w \in Walking
    PROVE  Ends(w) = IF w.work = <<>> THEN {w} ELSE Ends(Advance(w))
<1>1. CASE w.work = <<>>
  <2>1. w \in Ends(w)
    BY <1>1 DEF Ends, Reached
  <2>2. ASSUME NEW v \in Ends(w) PROVE v = w
    <3>1. {w} \in SUBSET Walking /\ w \in {w}
          /\ (\A u \in {w} : u.work # <<>> => Advance(u) \in {w})
      BY <1>1
    <3> QED BY <2>2, <3>1 DEF Ends, Reached
  <2> QED BY <1>1, <2>1, <2>2
<1>2. CASE w.work # <<>>
  <2>1. Advance(w) \in Walking
    BY <1>2, AdvanceTyped
  <2>2. ASSUME NEW v \in Ends(Advance(w)) PROVE v \in Ends(w)
    BY <1>2, <2>1, <2>2 DEF Ends, Reached
  <2>3. ASSUME NEW v \in Ends(w) PROVE v \in Ends(Advance(w))
    <3> SUFFICES ASSUME NEW S \in SUBSET Walking, Advance(w) \in S,
                        \A u \in S : u.work # <<>> => Advance(u) \in S
                 PROVE  v \in S
      BY <2>3 DEF Ends, Reached
    <3>1. S \cup {w} \in SUBSET Walking /\ w \in S \cup {w}
          /\ (\A u \in S \cup {w} : u.work # <<>> => Advance(u) \in S \cup {w})
      OBVIOUS
    <3>2. v \in S \cup {w}
      BY <2>3, <3>1 DEF Ends, Reached
    <3>3. v # w
      BY <1>2, <2>3 DEF Ends
    <3> QED BY <3>2, <3>3
  <2> QED BY <1>2, <2>2, <2>3
<1> QED BY <1>1, <1>2

\* The recursion of visit defines a function.
LEMMA WalkIs ==
    ASSUME NEW w \in Walking
    PROVE  Walk[w] = IF w.work = <<>> THEN w.out ELSE Walk[Advance(w)]
<1> DEFINE f == [v \in Walking |-> IF Ends(v) = {} THEN <<>> ELSE (CHOOSE u \in Ends(v) : TRUE).out]
<1>1. ASSUME NEW v \in Walking
      PROVE  f[v] = IF v.work = <<>> THEN v.out ELSE f[Advance(v)]
  <2>1. CASE v.work = <<>>
    <3>1. Ends(v) = {v}
      BY <2>1, EndsOfNext
    <3>2. (CHOOSE u \in Ends(v) : TRUE) = v
      BY <3>1
    <3> QED BY <2>1, <3>1, <3>2
  <2>2. CASE v.work # <<>>
    <3>1. Ends(v) = Ends(Advance(v)) /\ Advance(v) \in Walking
      BY <2>2, EndsOfNext, AdvanceTyped
    <3> QED BY <2>2, <3>1
  <2> QED BY <2>1, <2>2
<1>2. f = [v \in Walking |-> f[v]]
  OBVIOUS
<1> HIDE DEF f
<1>4. f = [v \in Walking |-> IF v.work = <<>> THEN v.out ELSE f[Advance(v)]]
  BY <1>1, <1>2
<1>3. Walk = [v \in Walking |-> IF v.work = <<>> THEN v.out ELSE Walk[Advance(v)]]
  BY <1>4 DEF Walk
<1> QED BY <1>3
-----------------------------------------------------------------------------
Placed(w) == {w.out[i] : i \in DOMAIN w.out}

\* The calls of visit that have not returned.
Left(w) == {i \in DOMAIN w.work : w.work[i].leave}

\* What is visited of C is placed or on the stack, once.
StackSound(C, w) ==
    /\ Pack \ C \subseteq w.seen
    /\ \A i \in Left(w) : w.work[i].pack \in (C \cap w.seen) \ Placed(w)
    /\ \A i, j \in Left(w) : w.work[i].pack = w.work[j].pack => i = j
    /\ \A p \in C \cap w.seen : p \in Placed(w) \/ \E i \in Left(w) : w.work[i].pack = p

\* What is not visited yet will be: a call of it is on the stack, and one of what
\* a pack needs is above the return from it.
Foreseen(C, w) ==
    /\ \A p \in C \ w.seen : \E i \in DOMAIN w.work \ Left(w) : w.work[i].pack = p
    /\ \A b \in Left(w) : \A q \in Needs(w.work[b].pack) :
          q \in w.seen \/ \E a \in 1 .. b - 1 : a \notin Left(w) /\ w.work[a].pack = q

\* A pack above the return from another is needed by it.
Nested(C, w) ==
    \A b \in Left(w) : \A a \in 1 .. b - 1 :
        w.work[a].pack \in C => w.work[a].pack \in Closed({w.work[b].pack})

\* What is placed is placed once, after what it needs, which may need it in turn.
PlacedWell(C, w) ==
    /\ Placed(w) \subseteq C \cap w.seen
    /\ \A i, j \in DOMAIN w.out : w.out[i] = w.out[j] => i = j
    /\ \A i \in DOMAIN w.out : \A q \in Needs(w.out[i]) :
          (\E j \in 1 .. i - 1 : w.out[j] = q) \/ w.out[i] \in Closed({q})

WalkSound(C, w) ==
    w \in Walking /\ StackSound(C, w) /\ Foreseen(C, w) /\ Nested(C, w) /\ PlacedWell(C, w)

ClosedSet(C) == C \subseteq Local /\ \A p \in C : Needs(p) \subseteq C

LEMMA ClosedIsClosed ==
    ASSUME NEW S
    PROVE  /\ ClosedSet(Closed(S))
           /\ S \subseteq Local => S \subseteq Closed(S)
<1>1. \A p \in Local : Needs(p) \subseteq Local
  BY DEF Needs
<1> QED BY <1>1 DEF Closed, ClosedSet

\* What the top of the stack is, and what is below it.
LEMMA Top ==
    ASSUME NEW w \in Walking, w.work # <<>>
    PROVE  /\ Len(w.work) \in Nat \ {0} /\ DOMAIN w.work = 1 .. Len(w.work)
           /\ w.work[1] \in Visit /\ w.work[1].pack \in Pack
           /\ \A i \in 1 .. Len(w.work) : w.work[i] \in Visit
           /\ Head(w.work) = w.work[1]
           /\ Len(Tail(w.work)) = Len(w.work) - 1
           /\ DOMAIN Tail(w.work) = 1 .. Len(w.work) - 1
           /\ \A i \in 1 .. Len(w.work) - 1 : Tail(w.work)[i] = w.work[i + 1]
           /\ Len(w.out) \in Nat /\ DOMAIN w.out = 1 .. Len(w.out) /\ w.seen \subseteq Pack
<1>1. w.work \in Seq(Visit) /\ w.out \in Seq(Pack) /\ w.seen \subseteq Pack
  BY DEF Walking
<1>2. \A v \in Visit : v.pack \in Pack
  BY DEF Visit
<1> QED BY <1>1, <1>2

LEMMA LeaveKeeps ==
    ASSUME NEW C, ClosedSet(C), NEW w, WalkSound(C, w), w.work # <<>>, Head(w.work).leave
    PROVE  WalkSound(C, Advance(w))
<1> DEFINE n == Len(w.work)
           p == w.work[1].pack
           u == Advance(w)
           m == Len(w.out)
<1>0. w \in Walking /\ u \in Walking
  BY AdvanceTyped DEF WalkSound
<1>1. /\ n \in Nat \ {0} /\ DOMAIN w.work = 1 .. n /\ p \in Pack /\ w.work[1].leave
      /\ m \in Nat /\ DOMAIN w.out = 1 .. m
  BY <1>0, Top
<1>2. u = [w EXCEPT !.work = Tail(w.work), !.out = Append(w.out, p)]
  BY <1>0, Top DEF Advance
<1>3. /\ u.seen = w.seen /\ DOMAIN u.work = 1 .. n - 1
      /\ \A i \in 1 .. n - 1 : u.work[i] = w.work[i + 1]
      /\ \A i \in 2 .. n : u.work[i - 1] = w.work[i]
  BY <1>0, <1>2, Top DEF Walking
<1>4. /\ DOMAIN u.out = 1 .. m + 1 /\ u.out[m + 1] = p
      /\ \A i \in 1 .. m : u.out[i] = w.out[i]
  BY <1>0, <1>2, Top DEF Walking
<1> HIDE DEF u, n, m
<1>5. /\ 1 \in Left(w)
      /\ \A i \in 1 .. n - 1 : i \in Left(u) <=> i + 1 \in Left(w)
      /\ \A i \in 2 .. n : i - 1 \in Left(u) <=> i \in Left(w)
  BY <1>1, <1>3 DEF Left
<1>6. Placed(u) = Placed(w) \cup {p}
  <2>1. \A x \in Placed(u) : x \in Placed(w) \cup {p}
    BY <1>1, <1>4 DEF Placed
  <2>2. \A x \in Placed(w) \cup {p} : x \in Placed(u)
    BY <1>1, <1>4 DEF Placed
  <2> QED BY <2>1, <2>2
<1>7. p \in (C \cap w.seen) \ Placed(w)
  BY <1>5 DEF WalkSound, StackSound
<1>8. Left(u) \subseteq 1 .. n - 1
  BY <1>3 DEF Left
<1>9. StackSound(C, u)
  <2>1. \A i \in Left(u) : i + 1 \in Left(w) /\ i + 1 # 1 /\ u.work[i].pack = w.work[i + 1].pack
    BY <1>1, <1>3, <1>5, <1>8
  <2>2. \A i \in Left(u) : u.work[i].pack \in (C \cap u.seen) \ Placed(u)
    BY <1>3, <1>5, <1>6, <2>1 DEF WalkSound, StackSound
  <2>3. \A i, j \in Left(u) : u.work[i].pack = u.work[j].pack => i = j
    <3> SUFFICES ASSUME NEW i \in Left(u), NEW j \in Left(u), u.work[i].pack = u.work[j].pack
                 PROVE  i = j
      OBVIOUS
    <3>1. i + 1 = j + 1
      BY <2>1 DEF WalkSound, StackSound
    <3> QED BY <1>1, <1>8, <3>1
  <2>4. ASSUME NEW q \in C \cap u.seen, q \notin Placed(u)
        PROVE  \E i \in Left(u) : u.work[i].pack = q
    <3>1. PICK i \in Left(w) : w.work[i].pack = q
      BY <1>3, <1>6, <2>4 DEF WalkSound, StackSound
    <3>2. i \in 2 .. n
      BY <1>1, <1>6, <2>4, <3>1 DEF Left
    <3>3. i - 1 \in Left(u) /\ u.work[i - 1].pack = q
      BY <1>3, <1>5, <3>1, <3>2
    <3> QED BY <3>3
  <2> QED BY <1>3, <2>2, <2>3, <2>4 DEF StackSound, WalkSound
<1>10. Foreseen(C, u)
  <2>1. ASSUME NEW q \in C \ u.seen PROVE \E i \in DOMAIN u.work \ Left(u) : u.work[i].pack = q
    <3>1. PICK i \in DOMAIN w.work \ Left(w) : w.work[i].pack = q
      BY <1>3 DEF WalkSound, Foreseen
    <3>2. i \in 2 .. n
      BY <1>1, <1>5, <3>1
    <3>3. i - 1 \in DOMAIN u.work \ Left(u) /\ u.work[i - 1].pack = q
      BY <1>1, <1>3, <1>5, <3>1, <3>2
    <3> QED BY <3>3
  <2>2. ASSUME NEW b \in Left(u), NEW q \in Needs(u.work[b].pack), q \notin u.seen
        PROVE  \E a \in 1 .. b - 1 : a \notin Left(u) /\ u.work[a].pack = q
    <3>1. b + 1 \in Left(w) /\ u.work[b].pack = w.work[b + 1].pack /\ b \in 1 .. n - 1
      BY <1>3, <1>5, <1>8
    <3>2. PICK a \in 1 .. (b + 1) - 1 : a \notin Left(w) /\ w.work[a].pack = q
      BY <1>3, <2>2, <3>1 DEF WalkSound, Foreseen
    <3>3. a - 1 \in 1 .. b - 1 /\ a \in 2 .. n
      BY <1>1, <1>5, <3>1, <3>2
    <3>4. a - 1 \notin Left(u) /\ u.work[a - 1].pack = q
      BY <1>3, <1>5, <3>2, <3>3
    <3> QED BY <3>3, <3>4
  <2> QED BY <2>1, <2>2 DEF Foreseen
<1>11. Nested(C, u)
  <2> SUFFICES ASSUME NEW b \in Left(u), NEW a \in 1 .. b - 1, u.work[a].pack \in C
               PROVE  u.work[a].pack \in Closed({u.work[b].pack})
    BY DEF Nested
  <2>1. b + 1 \in Left(w) /\ a + 1 \in 1 .. (b + 1) - 1 /\ b \in 1 .. n - 1 /\ a \in 1 .. n - 1
    BY <1>1, <1>5, <1>8
  <2> QED BY <1>3, <2>1 DEF WalkSound, Nested
<1>12. PlacedWell(C, u)
  <2>1. \A i \in 1 .. m : w.out[i] # p
    BY <1>1, <1>7 DEF Placed
  <2>2. \A i, j \in DOMAIN u.out : u.out[i] = u.out[j] => i = j
    BY <1>1, <1>4, <2>1 DEF WalkSound, PlacedWell
  <2>3. ASSUME NEW q \in Needs(p)
        PROVE  (\E j \in 1 .. m : u.out[j] = q) \/ p \in Closed({q})
    <3>1. q \in w.seen /\ q \in C
      <4>1. 1 .. 1 - 1 = {}
        OBVIOUS
      <4> QED BY <1>5, <1>7, <4>1 DEF WalkSound, Foreseen, ClosedSet
    <3>2. CASE q \in Placed(w)
      BY <1>1, <1>4, <3>2 DEF Placed
    <3>3. ASSUME NEW i \in Left(w), w.work[i].pack = q PROVE p \in Closed({q})
      <4>1. CASE i = 1
        <5>1. p = q /\ q \in Local
          BY <3>1, <3>3, <4>1 DEF ClosedSet
        <5> QED BY <5>1, ClosedIsClosed
      <4>2. CASE i # 1
        <5>1. 1 \in 1 .. i - 1
          BY <1>1, <3>3, <4>2 DEF Left
        <5> QED BY <1>7, <3>3, <5>1 DEF WalkSound, Nested
      <4> QED BY <4>1, <4>2
    <3> QED BY <3>1, <3>2, <3>3 DEF WalkSound, StackSound
  <2>4. ASSUME NEW i \in DOMAIN u.out, NEW q \in Needs(u.out[i])
        PROVE  (\E j \in 1 .. i - 1 : u.out[j] = q) \/ u.out[i] \in Closed({q})
    <3>1. CASE i = m + 1
      <4>1. 1 .. i - 1 = 1 .. m
        BY <1>1, <3>1
      <4> QED BY <1>4, <2>3, <2>4, <3>1, <4>1
    <3>2. CASE i \in 1 .. m
      <4>1. (\E j \in 1 .. i - 1 : w.out[j] = q) \/ w.out[i] \in Closed({q})
        BY <1>1, <1>4, <2>4, <3>2 DEF WalkSound, PlacedWell
      <4>2. 1 .. i - 1 \subseteq 1 .. m
        BY <1>1, <3>2
      <4> QED BY <1>4, <3>2, <4>1, <4>2
    <3> QED BY <1>1, <1>4, <3>1, <3>2
  <2>5. Placed(u) \subseteq C \cap u.seen
    BY <1>3, <1>6, <1>7 DEF WalkSound, PlacedWell
  <2> QED BY <2>2, <2>4, <2>5 DEF PlacedWell
<1> QED BY <1>0, <1>9, <1>10, <1>11, <1>12 DEF WalkSound, u

LEMMA SkipKeeps ==
    ASSUME NEW C, NEW w, WalkSound(C, w), w.work # <<>>,
           ~Head(w.work).leave, Head(w.work).pack \in w.seen
    PROVE  WalkSound(C, Advance(w))
<1> DEFINE n == Len(w.work)
           u == Advance(w)
<1>0. w \in Walking /\ u \in Walking
  BY AdvanceTyped DEF WalkSound
<1>1. /\ n \in Nat \ {0} /\ DOMAIN w.work = 1 .. n
      /\ ~w.work[1].leave /\ w.work[1].pack \in w.seen
  BY <1>0, Top
<1>2. u = [w EXCEPT !.work = Tail(w.work)]
  BY <1>0, Top DEF Advance
<1>3. /\ u.seen = w.seen /\ u.out = w.out /\ DOMAIN u.work = 1 .. n - 1
      /\ \A i \in 1 .. n - 1 : u.work[i] = w.work[i + 1]
      /\ \A i \in 2 .. n : u.work[i - 1] = w.work[i]
  BY <1>0, <1>2, Top DEF Walking
<1> HIDE DEF u, n
<1>4. Placed(u) = Placed(w)
  BY <1>3 DEF Placed
<1>5. /\ 1 \notin Left(w) /\ Left(u) \subseteq 1 .. n - 1 /\ Left(w) \subseteq 2 .. n
      /\ \A i \in 1 .. n - 1 : i \in Left(u) <=> i + 1 \in Left(w)
      /\ \A i \in 2 .. n : i - 1 \in Left(u) <=> i \in Left(w)
  BY <1>1, <1>3 DEF Left
<1>6. StackSound(C, u)
  <2>1. \A i \in Left(u) : i + 1 \in Left(w) /\ u.work[i].pack = w.work[i + 1].pack
    BY <1>3, <1>5
  <2>2. \A i, j \in Left(u) : u.work[i].pack = u.work[j].pack => i = j
    <3> SUFFICES ASSUME NEW i \in Left(u), NEW j \in Left(u), u.work[i].pack = u.work[j].pack
                 PROVE  i = j
      OBVIOUS
    <3>1. i + 1 = j + 1
      BY <2>1 DEF WalkSound, StackSound
    <3> QED BY <1>1, <1>5, <3>1
  <2>3. ASSUME NEW q \in C \cap u.seen, q \notin Placed(u)
        PROVE  \E i \in Left(u) : u.work[i].pack = q
    <3>1. PICK i \in Left(w) : w.work[i].pack = q
      BY <1>3, <1>4, <2>3 DEF WalkSound, StackSound
    <3>2. i - 1 \in Left(u) /\ u.work[i - 1].pack = q
      BY <1>3, <1>5, <3>1
    <3> QED BY <3>2
  <2> QED BY <1>3, <1>4, <2>1, <2>2, <2>3 DEF StackSound, WalkSound
<1>7. Foreseen(C, u)
  <2>1. ASSUME NEW q \in C \ u.seen PROVE \E i \in DOMAIN u.work \ Left(u) : u.work[i].pack = q
    <3>1. PICK i \in DOMAIN w.work \ Left(w) : w.work[i].pack = q
      BY <1>3 DEF WalkSound, Foreseen
    <3>2. i \in 2 .. n
      BY <1>1, <1>3, <3>1
    <3>3. i - 1 \in DOMAIN u.work \ Left(u) /\ u.work[i - 1].pack = q
      BY <1>1, <1>3, <1>5, <3>1, <3>2
    <3> QED BY <3>3
  <2>2. ASSUME NEW b \in Left(u), NEW q \in Needs(u.work[b].pack), q \notin u.seen
        PROVE  \E a \in 1 .. b - 1 : a \notin Left(u) /\ u.work[a].pack = q
    <3>1. b + 1 \in Left(w) /\ u.work[b].pack = w.work[b + 1].pack /\ b \in 1 .. n - 1
      BY <1>3, <1>5
    <3>2. PICK a \in 1 .. (b + 1) - 1 : a \notin Left(w) /\ w.work[a].pack = q
      BY <1>3, <2>2, <3>1 DEF WalkSound, Foreseen
    <3>3. a - 1 \in 1 .. b - 1 /\ a \in 2 .. n
      BY <1>1, <1>3, <2>2, <3>1, <3>2
    <3>4. a - 1 \notin Left(u) /\ u.work[a - 1].pack = q
      BY <1>3, <1>5, <3>2, <3>3
    <3> QED BY <3>3, <3>4
  <2> QED BY <2>1, <2>2 DEF Foreseen
<1>8. Nested(C, u)
  <2> SUFFICES ASSUME NEW b \in Left(u), NEW a \in 1 .. b - 1, u.work[a].pack \in C
               PROVE  u.work[a].pack \in Closed({u.work[b].pack})
    BY DEF Nested
  <2>1. b + 1 \in Left(w) /\ a + 1 \in 1 .. (b + 1) - 1 /\ b \in 1 .. n - 1 /\ a \in 1 .. n - 1
    BY <1>1, <1>5
  <2> QED BY <1>3, <2>1 DEF WalkSound, Nested
<1>9. PlacedWell(C, u)
  BY <1>3, <1>4 DEF WalkSound, PlacedWell
<1> QED BY <1>0, <1>6, <1>7, <1>8, <1>9 DEF WalkSound, u

LEMMA VisitKeeps ==
    ASSUME NEW C, ClosedSet(C), NEW w, WalkSound(C, w), w.work # <<>>,
           ~Head(w.work).leave, Head(w.work).pack \notin w.seen
    PROVE  WalkSound(C, Advance(w))
<1> DEFINE n == Len(w.work)
           u == Advance(w)
           p == w.work[1].pack
           deps == Manifest[p].deps
           k == Len(deps)
<1>0. w \in Walking /\ u \in Walking
  BY AdvanceTyped DEF WalkSound
<1>1. /\ n \in Nat \ {0} /\ DOMAIN w.work = 1 .. n /\ p \in Pack
      /\ ~w.work[1].leave /\ p \notin w.seen
  BY <1>0, Top
<1>2. deps \in Seq(Pack) /\ k \in Nat /\ DOMAIN deps = 1 .. k
  BY <1>1, PackAssumption DEF ManifestRecord
<1>3. u = [w EXCEPT !.work = Visits(deps) \o <<[pack |-> p, leave |-> TRUE]>> \o Tail(w.work),
                    !.seen = w.seen \cup {p}]
  BY <1>0, <1>1, Top DEF Advance
<1>4. /\ u.seen = w.seen \cup {p} /\ u.out = w.out
      /\ u.work = Visits(deps) \o <<[pack |-> p, leave |-> TRUE]>> \o Tail(w.work)
  BY <1>0, <1>3 DEF Walking
<1>5. /\ DOMAIN u.work = 1 .. n + k
      /\ \A i \in 1 .. k : u.work[i].pack = deps[i] /\ ~u.work[i].leave
      /\ u.work[k + 1].pack = p /\ u.work[k + 1].leave
      /\ \A i \in 2 .. n : u.work[i + k] = w.work[i]
  <2> DEFINE V == Visits(deps)
             L == <<[pack |-> p, leave |-> TRUE]>>
             T == Tail(w.work)
  <2>1. /\ V \in Seq(Visit) /\ Len(V) = k
        /\ \A i \in 1 .. k : V[i].pack = deps[i] /\ ~V[i].leave
    <3> HIDE DEF deps
    <3>1. /\ V \in Seq(Visit) /\ Len(V) = k
          /\ \A i \in 1 .. k : V[i] = [pack |-> deps[i], leave |-> FALSE]
      BY <1>2, VisitsTyped
    <3> HIDE DEF V
    <3>2. ASSUME NEW i \in 1 .. k PROVE V[i].pack = deps[i] /\ ~V[i].leave
      <4>1. V[i] = [pack |-> deps[i], leave |-> FALSE]
        BY <3>1
      <4>2. V[i].leave = FALSE
        BY <4>1
      <4>3. V[i].pack = deps[i]
        BY <4>1
      <4> QED BY <4>2, <4>3
    <3> QED BY <3>1, <3>2
  <2>2. L \in Seq(Visit) /\ Len(L) = 1 /\ L[1].pack = p /\ L[1].leave
    BY <1>1 DEF Visit
  <2>3. /\ T \in Seq(Visit) /\ Len(T) = n - 1
        /\ \A i \in 1 .. n - 1 : T[i] = w.work[i + 1]
    BY <1>0, Top DEF Walking
  <2>4. u.work = (V \o L) \o T
    BY <1>4
  <2> HIDE DEF V, L, T, u, n, k, p, deps
  <2>5. V \o L \in Seq(Visit) /\ Len(V \o L) = k + 1
        /\ \A i \in 1 .. k + 1 : (V \o L)[i] = IF i <= k THEN V[i] ELSE L[i - k]
    <3>1. /\ V \o L \in Seq(Visit) /\ Len(V \o L) = Len(V) + Len(L)
          /\ \A i \in 1 .. Len(V) + Len(L) :
                (V \o L)[i] = IF i <= Len(V) THEN V[i] ELSE L[i - Len(V)]
      <4>1. V \in Seq(Visit) /\ L \in Seq(Visit)
        BY <2>1, <2>2
      <4> QED BY <4>1, ConcatProperties, Zenon
    <3> QED BY <2>1, <2>2, <3>1
  <2>6. /\ (V \o L) \o T \in Seq(Visit) /\ Len((V \o L) \o T) = (k + 1) + (n - 1)
        /\ \A i \in 1 .. (k + 1) + (n - 1) :
             ((V \o L) \o T)[i] = IF i <= k + 1 THEN (V \o L)[i] ELSE T[i - (k + 1)]
    BY <2>3, <2>5, ConcatProperties
  <2>7. (k + 1) + (n - 1) = n + k /\ (k + 1) - k = 1
    BY <1>1, <1>2
  <2>8. DOMAIN u.work = 1 .. n + k
    BY <2>4, <2>6, <2>7
  <2>9. ASSUME NEW i \in 1 .. k PROVE u.work[i].pack = deps[i] /\ ~u.work[i].leave
    <3>1. u.work[i] = V[i]
      BY <1>1, <1>2, <2>4, <2>5, <2>6
    <3> QED BY <2>1, <3>1
  <2>10. u.work[k + 1].pack = p /\ u.work[k + 1].leave
    <3>1. u.work[k + 1] = L[1]
      BY <1>1, <1>2, <2>4, <2>5, <2>6, <2>7
    <3> QED BY <2>2, <3>1
  <2>11. ASSUME NEW i \in 2 .. n PROVE u.work[i + k] = w.work[i]
    <3>1. i - 1 \in 1 .. n - 1 /\ (i + k) - (k + 1) = i - 1 /\ (i - 1) + 1 = i
          /\ i + k \in 1 .. (k + 1) + (n - 1) /\ ~(i + k <= k + 1)
      BY <1>1, <1>2
    <3> QED BY <2>3, <2>4, <2>6, <3>1
  <2> QED BY <2>8, <2>9, <2>10, <2>11
<1>6. p \in C /\ Needs(p) \subseteq C /\ p \notin Placed(w)
  BY <1>1 DEF WalkSound, StackSound, PlacedWell, ClosedSet
<1>7. \A q : q \in Needs(p) <=> q \in Local /\ \E i \in 1 .. k : deps[i] = q
  BY <1>2 DEF Needs
<1> HIDE DEF u, n, p, deps, k
<1>8. Placed(u) = Placed(w)
  BY <1>4 DEF Placed
\* Where the calls that have not returned are now.
<1>9. /\ Left(w) \subseteq 2 .. n
      /\ \A i \in 1 .. k : i \notin Left(u)
      /\ k + 1 \in Left(u)
      /\ \A i \in 2 .. n : i + k \in Left(u) <=> i \in Left(w)
      /\ \A i \in Left(u) : i = k + 1 \/ (i - k \in Left(w) /\ u.work[i] = w.work[i - k])
  <2>1. \A i \in 1 .. n + k : i \in 1 .. k \/ i = k + 1 \/ (i - k \in 2 .. n /\ (i - k) + k = i)
    BY <1>1, <1>2
  <2>2. \A i \in 2 .. n : i + k \in 1 .. n + k
    BY <1>1, <1>2
  <2>3. k + 1 \in 1 .. n + k /\ 1 .. k \subseteq 1 .. n + k
    BY <1>1, <1>2
  <2>4. \A i \in 1 .. k : i \notin Left(u)
    BY <1>5, <2>3 DEF Left
  <2>5. k + 1 \in Left(u)
    BY <1>5, <2>3 DEF Left
  <2>6. \A i \in 2 .. n : i + k \in Left(u) <=> i \in Left(w)
    BY <1>1, <1>5, <2>2 DEF Left
  <2>7. ASSUME NEW i \in Left(u), i # k + 1
        PROVE  i - k \in Left(w) /\ u.work[i] = w.work[i - k]
    <3>1. i - k \in 2 .. n /\ (i - k) + k = i
      BY <1>5, <2>1, <2>4, <2>7 DEF Left
    <3> QED BY <1>5, <2>6, <3>1
  <2>8. Left(w) \subseteq 2 .. n
    BY <1>1 DEF Left
  <2> QED BY <2>4, <2>5, <2>6, <2>7, <2>8
<1>10. StackSound(C, u)
  <2>1. ASSUME NEW i \in Left(u) PROVE u.work[i].pack \in (C \cap u.seen) \ Placed(u)
    <3>1. CASE i = k + 1
      BY <1>4, <1>5, <1>6, <1>8, <3>1
    <3>2. CASE i # k + 1
      <4>1. i - k \in Left(w) /\ u.work[i].pack = w.work[i - k].pack
        BY <1>9, <3>2
      <4>2. w.work[i - k].pack \in (C \cap w.seen) \ Placed(w)
        BY <4>1 DEF WalkSound, StackSound
      <4> QED BY <1>4, <1>8, <4>1, <4>2
    <3> QED BY <3>1, <3>2
  <2>2. ASSUME NEW i \in Left(u), i # k + 1 PROVE u.work[i].pack # p
    BY <1>1, <1>9, <2>2 DEF WalkSound, StackSound
  <2>3. ASSUME NEW i \in Left(u), NEW j \in Left(u), u.work[i].pack = u.work[j].pack
        PROVE  i = j
    <3>1. u.work[k + 1].pack = p
      BY <1>5
    <3>2. CASE i = k + 1 \/ j = k + 1
      BY <2>2, <2>3, <3>1, <3>2
    <3>3. CASE i # k + 1 /\ j # k + 1
      <4>1. i - k = j - k
        BY <1>9, <2>3, <3>3 DEF WalkSound, StackSound
      <4>2. i \in Nat /\ j \in Nat
        BY <1>1, <1>2, <1>5 DEF Left
      <4> QED BY <1>2, <4>1, <4>2
    <3> QED BY <3>2, <3>3
  <2>4. ASSUME NEW q \in C \cap u.seen, q \notin Placed(u)
        PROVE  \E i \in Left(u) : u.work[i].pack = q
    <3>1. CASE q = p
      BY <1>5, <1>9, <3>1
    <3>2. CASE q # p
      <4>1. PICK i \in Left(w) : w.work[i].pack = q
        BY <1>4, <1>8, <2>4, <3>2 DEF WalkSound, StackSound
      <4>2. i + k \in Left(u) /\ u.work[i + k].pack = q
        BY <1>5, <1>9, <4>1
      <4> QED BY <4>2
    <3> QED BY <3>1, <3>2
  <2> QED BY <1>4, <2>1, <2>3, <2>4 DEF StackSound, WalkSound
<1>11. Foreseen(C, u)
  <2>1. ASSUME NEW q \in C \ u.seen PROVE \E i \in DOMAIN u.work \ Left(u) : u.work[i].pack = q
    <3>1. PICK i \in DOMAIN w.work \ Left(w) : w.work[i].pack = q
      BY <1>4 DEF WalkSound, Foreseen
    <3>2. i \in 2 .. n
      <4>1. q # p
        BY <1>4
      <4>2. i # 1
        BY <3>1, <4>1 DEF p
      <4> QED BY <1>1, <3>1, <4>2
    <3>3. i + k \in DOMAIN u.work \ Left(u) /\ u.work[i + k].pack = q
      BY <1>1, <1>2, <1>5, <1>9, <3>1, <3>2
    <3> QED BY <3>3
  <2>2. ASSUME NEW q \in Needs(p) PROVE \E a \in 1 .. k : a \notin Left(u) /\ u.work[a].pack = q
    <3>1. PICK a \in 1 .. k : deps[a] = q
      BY <1>7, <2>2
    <3> QED BY <1>5, <1>9, <3>1
  <2>3. ASSUME NEW b \in Left(u), NEW q \in Needs(u.work[b].pack), q \notin u.seen
        PROVE  \E a \in 1 .. b - 1 : a \notin Left(u) /\ u.work[a].pack = q
    <3>1. CASE b = k + 1
      <4>1. q \in Needs(p) /\ 1 .. b - 1 = 1 .. k
        BY <1>2, <1>5, <2>3, <3>1
      <4> QED BY <2>2, <4>1
    <3>2. CASE b # k + 1
      <4>1. b - k \in Left(w) /\ u.work[b] = w.work[b - k] /\ b - k \in 2 .. n
        BY <1>9, <3>2
      <4>0. q \in Needs(w.work[b - k].pack) /\ q \notin w.seen
        BY <1>4, <2>3, <4>1
      <4>2. PICK a \in 1 .. (b - k) - 1 : a \notin Left(w) /\ w.work[a].pack = q
        BY <4>0, <4>1 DEF WalkSound, Foreseen
      <4>3. a # 1
        BY <1>4, <2>3, <4>2 DEF p
      <4>4. a \in 2 .. n /\ a + k \in 1 .. b - 1
        <5>1. b \in Nat
          BY <1>1, <1>2, <1>5 DEF Left
        <5> QED BY <1>1, <1>2, <4>1, <4>2, <4>3, <5>1
      <4>5. a + k \notin Left(u) /\ u.work[a + k].pack = q
        BY <1>5, <1>9, <4>2, <4>4
      <4> QED BY <4>4, <4>5
    <3> QED BY <3>1, <3>2
  <2> QED BY <2>1, <2>3 DEF Foreseen
<1>12. Nested(C, u)
  <2> SUFFICES ASSUME NEW b \in Left(u), NEW a \in 1 .. b - 1, u.work[a].pack \in C
               PROVE  u.work[a].pack \in Closed({u.work[b].pack})
    BY DEF Nested
  <2>0. p \in Closed({p}) /\ Needs(p) \subseteq Closed({p}) /\ C \subseteq Local
    BY <1>6, ClosedIsClosed DEF ClosedSet
  <2>1. ASSUME a \in 1 .. k PROVE u.work[a].pack \in Needs(p)
    BY <1>5, <1>7, <2>0, <2>1
  <2>2. CASE b = k + 1
    <3>1. a \in 1 .. k
      BY <1>2, <2>2
    <3> QED BY <1>5, <2>0, <2>1, <2>2, <3>1
  <2>3. CASE b # k + 1
    <3>1. b - k \in Left(w) /\ u.work[b] = w.work[b - k] /\ b - k \in 2 .. n /\ b \in Nat
      BY <1>1, <1>2, <1>5, <1>9, <2>3 DEF Left
    <3>2. p \in Closed({u.work[b].pack})
      <4>1. 1 \in 1 .. (b - k) - 1
        BY <1>1, <1>2, <3>1
      <4> QED BY <1>6, <3>1, <4>1 DEF WalkSound, Nested, p
    <3>3. Needs(p) \subseteq Closed({u.work[b].pack})
      BY <3>2, ClosedIsClosed DEF ClosedSet
    <3>4. CASE a \in 1 .. k
      BY <2>1, <3>3, <3>4
    <3>5. CASE a = k + 1
      BY <1>5, <3>2, <3>5
    <3>6. CASE a \notin 1 .. k /\ a # k + 1
      <4>0. a \in Nat /\ a > k + 1 /\ a < b /\ b - k <= n
        BY <1>2, <3>1, <3>6
      <4>1. a - k \in 2 .. n /\ a - k \in 1 .. (b - k) - 1 /\ (a - k) + k = a
        BY <1>1, <1>2, <3>1, <4>0
      <4>2. u.work[a] = w.work[a - k]
        BY <1>5, <4>1
      <4> QED BY <3>1, <4>1, <4>2 DEF WalkSound, Nested
    <3> QED BY <3>4, <3>5, <3>6
  <2> QED BY <2>2, <2>3
<1>13. PlacedWell(C, u)
  BY <1>4, <1>8 DEF WalkSound, PlacedWell
<1> QED BY <1>0, <1>10, <1>11, <1>12, <1>13 DEF WalkSound, u

LEMMA LocalIsFinite == IsFiniteSet(Local)
<1>1. NameOrder \in Surjection(1 .. Len(NameOrder), Local)
  BY PackAssumption DEF Surjection
<1>2. IsFiniteSet(1 .. Len(NameOrder))
  BY PackAssumption, FS_Interval
<1> QED BY <1>1, <1>2, FS_Surjection

\* A walk comes to an end: each call of visit marks a pack that was not visited,
\* or makes the stack shorter.
LEMMA WalkEnds ==
    ASSUME NEW C, ClosedSet(C), NEW start, WalkSound(C, start)
    PROVE  \E u : WalkSound(C, u) /\ u.work = <<>> /\ Walk[start] = u.out
<1> DEFINE Good(w) == \E u : WalkSound(C, u) /\ u.work = <<>> /\ Walk[w] = u.out
           Bad == {w \in Walking : WalkSound(C, w) /\ ~Good(w)}
           ToVisit(w) == Cardinality(C \ w.seen)
<1> SUFFICES ASSUME Bad # {} PROVE FALSE
  BY DEF WalkSound
<1>1. ASSUME NEW seen PROVE IsFiniteSet(C \ seen) /\ Cardinality(C \ seen) \in Nat
  <2>1. C \ seen \in SUBSET Local
    BY DEF ClosedSet
  <2> QED BY <2>1, LocalIsFinite, FS_Subset, FS_CardinalityType
<1> HIDE DEF Good
\* Of the states from which a walk does not end well, take one with the fewest
\* packs to visit, and of these one with the shortest stack.
<1>2. PICK m \in Nat : /\ \E w \in Bad : ToVisit(w) = m
                       /\ \A w \in Bad : m <= ToVisit(w)
  <2> DEFINE M == {ToVisit(w) : w \in Bad}
  <2>1. M \in SUBSET Nat /\ M # {}
    BY <1>1
  <2>2. PICK m \in M : \A l \in M : m <= l
    <3> HIDE DEF M
    <3> QED BY <2>1, Least
  <2> HIDE DEF Bad, ToVisit
  <2> QED BY <2>1, <2>2
<1>3. PICK n \in Nat : /\ \E w \in Bad : ToVisit(w) = m /\ Len(w.work) = n
                       /\ \A w \in Bad : ToVisit(w) = m => n <= Len(w.work)
  <2> DEFINE L == {Len(w.work) : w \in {v \in Bad : ToVisit(v) = m}}
  <2>1. L \in SUBSET Nat /\ L # {}
    <3>1. \A w \in Bad : Len(w.work) \in Nat
      BY DEF Walking
    <3> HIDE DEF Bad, ToVisit
    <3> QED BY <1>2, <3>1
  <2>2. PICK n \in L : \A l \in L : n <= l
    <3> HIDE DEF L
    <3> QED BY <2>1, Least
  <2> HIDE DEF Bad, ToVisit
  <2> QED BY <2>1, <2>2
<1>4. PICK w \in Bad : ToVisit(w) = m /\ Len(w.work) = n
  BY <1>3
<1>5. w \in Walking /\ WalkSound(C, w) /\ ~Good(w)
  BY <1>4
<1>6. w.work # <<>>
  BY <1>5, WalkIs DEF Good
<1>7. Advance(w) \in Walking /\ Walk[w] = Walk[Advance(w)]
  BY <1>5, <1>6, WalkIs, AdvanceTyped
<1>8. WalkSound(C, Advance(w))
  BY <1>5, <1>6, LeaveKeeps, SkipKeeps, VisitKeeps
<1>9. Advance(w) \in Bad
  BY <1>5, <1>7, <1>8 DEF Good
<1>10. CASE Head(w.work).leave \/ Head(w.work).pack \in w.seen
  <2>1. Advance(w).seen = w.seen /\ Advance(w).work = Tail(w.work)
    BY <1>5, <1>10 DEF Advance, Walking
  <2>2. Len(Advance(w).work) = n - 1
    BY <1>4, <1>5, <1>6, <2>1, Top
  <2>3. ToVisit(Advance(w)) = m
    BY <1>4, <2>1
  <2> HIDE DEF Bad, ToVisit
  <2> QED BY <1>3, <1>9, <2>2, <2>3
<1>11. CASE ~Head(w.work).leave /\ Head(w.work).pack \notin w.seen
  <2>1. Advance(w).seen = w.seen \cup {Head(w.work).pack}
    BY <1>5, <1>11 DEF Advance, Walking
  <2>2. Head(w.work).pack \in C \ w.seen
    BY <1>5, <1>6, <1>11, Top DEF WalkSound, StackSound
  <2>3. C \ Advance(w).seen = (C \ w.seen) \ {Head(w.work).pack}
    BY <2>1
  <2>4. Cardinality((C \ w.seen) \ {Head(w.work).pack}) = Cardinality(C \ w.seen) - 1
    <3>1. IsFiniteSet(C \ w.seen)
      BY <1>1
    <3> QED BY <2>2, <3>1, FS_RemoveElement
  <2>5. ToVisit(Advance(w)) = m - 1
    BY <1>4, <2>3, <2>4
  <2> HIDE DEF Bad, ToVisit
  <2> QED BY <1>2, <1>9, <2>5
<1> QED BY <1>10, <1>11

\* _ordered_with_deps: all that is wanted or needed and nothing else, once, each
\* pack after what it needs, unless they need each other.
LEMMA OrderedWell ==
    ASSUME NEW chosen, chosen \subseteq Local
    PROVE  LET order == Ordered(chosen) IN
           /\ order \in Seq(Pack)
           /\ {order[i] : i \in DOMAIN order} = Closed(chosen)
           /\ \A i, j \in DOMAIN order : order[i] = order[j] => i = j
           /\ \A i \in DOMAIN order : \A q \in Needs(order[i]) :
                (\E j \in 1 .. i - 1 : order[j] = q) \/ order[i] \in Closed({q})
<1> DEFINE C == Closed(chosen)
           start == [work |-> Visits(NameOrder), seen |-> Pack \ C, out |-> <<>>]
<1>1. ClosedSet(C) /\ C \subseteq Local /\ C \subseteq Pack
  BY ClosedIsClosed, PackAssumption DEF ClosedSet
<1> HIDE DEF C
<1>2. NameOrder \in Seq(Pack) /\ \A p \in C : \E i \in 1 .. Len(NameOrder) : NameOrder[i] = p
  BY <1>1, PackAssumption
<1>3. /\ Visits(NameOrder) \in Seq(Visit) /\ DOMAIN Visits(NameOrder) = 1 .. Len(NameOrder)
      /\ \A i \in 1 .. Len(NameOrder) : Visits(NameOrder)[i].pack = NameOrder[i]
      /\ \A i \in 1 .. Len(NameOrder) : Visits(NameOrder)[i].leave = FALSE
  <2>1. /\ Visits(NameOrder) \in Seq(Visit) /\ Len(Visits(NameOrder)) = Len(NameOrder)
        /\ \A i \in 1 .. Len(NameOrder) :
              Visits(NameOrder)[i] = [pack |-> NameOrder[i], leave |-> FALSE]
    BY <1>2, VisitsTyped
  <2>2. ASSUME NEW i \in 1 .. Len(NameOrder)
        PROVE  Visits(NameOrder)[i].pack = NameOrder[i] /\ Visits(NameOrder)[i].leave = FALSE
    <3>1. Visits(NameOrder)[i] = [pack |-> NameOrder[i], leave |-> FALSE]
      BY <2>1
    <3>2. Visits(NameOrder)[i].leave = FALSE
      BY <3>1
    <3>3. Visits(NameOrder)[i].pack = NameOrder[i]
      BY <3>1
    <3> QED BY <3>2, <3>3
  <2>3. DOMAIN Visits(NameOrder) = 1 .. Len(NameOrder) /\ Visits(NameOrder) \in Seq(Visit)
    BY <2>1
  <2> QED BY <2>2, <2>3
<1>4. start \in Walking
  BY <1>3 DEF Walking
<1>5. start.work = Visits(NameOrder) /\ start.seen = Pack \ C /\ start.out = <<>>
  OBVIOUS
<1> HIDE DEF start
<1>6. Left(start) = {} /\ Placed(start) = {} /\ C \cap start.seen = {}
  BY <1>3, <1>5 DEF Left, Placed
<1>7. WalkSound(C, start)
  <2>1. StackSound(C, start) /\ Nested(C, start) /\ PlacedWell(C, start)
    BY <1>5, <1>6 DEF StackSound, Nested, PlacedWell
  <2>2. Foreseen(C, start)
    BY <1>2, <1>3, <1>5, <1>6 DEF Foreseen
  <2> QED BY <1>4, <2>1, <2>2 DEF WalkSound
<1>8. PICK u : WalkSound(C, u) /\ u.work = <<>> /\ Walk[start] = u.out
  BY <1>1, <1>7, WalkEnds
<1>9. Ordered(chosen) = u.out
  BY <1>8 DEF Ordered, start, C
<1>10. u.out \in Seq(Pack)
  BY <1>8 DEF WalkSound, Walking
<1>11. Placed(u) = C
  <2>1. Left(u) = {} /\ DOMAIN u.work = {}
    BY <1>8 DEF Left
  <2> QED BY <1>8, <2>1 DEF WalkSound, StackSound, Foreseen, PlacedWell
<1>12. PlacedWell(C, u)
  BY <1>8 DEF WalkSound
<1> QED BY <1>9, <1>10, <1>11, <1>12 DEF PlacedWell, Placed, C

\* What users choose, in whatever way, comes with the package.
LEMMA ChosenIsLocal ==
    ASSUME NEW flag \in Selected, NEW prompted \in Prompted
    PROVE  Selection(flag, prompted).chosen \cup AlwaysOn \subseteq Local
<1>1. Selection(flag, prompted).chosen \subseteq Local
  <2>1. prompted \subseteq Local
    BY DEF Prompted
  <2> QED BY <2>1 DEF Selection
<1> QED BY <1>1 DEF AlwaysOn

\* A plan holds every pack once, with the packs that are always on and all that
\* any of them needs, each after what it needs, unless they need each other
\* (install_packs.py, _ordered_with_deps).
THEOREM PlansAreOrdered == PackSpec => PlanOrdered
<1> DEFINE InOrder ==
        /\ AlwaysOn \subseteq {plan'[i] : i \in DOMAIN plan'}
        /\ \A i, j \in DOMAIN plan' : plan'[i] = plan'[j] => i = j
        /\ \A i \in DOMAIN plan' : \A q \in Needs(plan'[i]) :
             \E j \in DOMAIN plan' : plan'[j] = q /\ (j < i \/ plan'[i] \in Closed({q}))
<1>1. ASSUME [PackNext]_allVars, job = "none", job' = "packs" PROVE InOrder
  <2>1. PICK flag \in Selected, prompted \in Prompted :
          plan' = Ordered(Selection(flag, prompted).chosen \cup AlwaysOn)
    <3>1. CASE PackStart
      BY <1>1, <3>1 DEF PackStart, SetupChooses, InstallPacks, RefusePacks, BeginJob,
                        InstallLocal, FetchFails, Fetch
    <3>2. CASE PackStep
      BY <1>1, <3>2 DEF PackStep, CopyFile, BeginPack, SkipFile, RunFile, FileDone,
                        RecordPack, Finish, KillJob, EndJob, Working
    <3>3. CASE ByHand \/ IngestSteps \/ UNCHANGED allVars
      BY <1>1, <3>3 DEF ByHand, IngestSteps, allVars, packVars, jobVars
    <3> QED BY <1>1, <3>1, <3>2, <3>3 DEF PackNext
  <2> DEFINE chosen == Selection(flag, prompted).chosen \cup AlwaysOn
  <2>2. chosen \subseteq Local /\ AlwaysOn \subseteq chosen
    BY ChosenIsLocal
  <2>3. plan' = Ordered(chosen)
    BY <2>1
  <2> HIDE DEF chosen
  <2>4. /\ plan' \in Seq(Pack)
        /\ {plan'[i] : i \in DOMAIN plan'} = Closed(chosen)
        /\ \A i, j \in DOMAIN plan' : plan'[i] = plan'[j] => i = j
        /\ \A i \in DOMAIN plan' : \A q \in Needs(plan'[i]) :
             (\E j \in 1 .. i - 1 : plan'[j] = q) \/ plan'[i] \in Closed({q})
    BY <2>2, <2>3, OrderedWell
  <2>5. AlwaysOn \subseteq Closed(chosen) /\ \A p \in Closed(chosen) : Needs(p) \subseteq Closed(chosen)
    BY <2>2, ClosedIsClosed DEF ClosedSet
  <2>6. ASSUME NEW i \in DOMAIN plan', NEW q \in Needs(plan'[i])
        PROVE  \E j \in DOMAIN plan' : plan'[j] = q /\ (j < i \/ plan'[i] \in Closed({q}))
    <3>1. DOMAIN plan' = 1 .. Len(plan') /\ Len(plan') \in Nat
      BY <2>4
    <3>2. CASE \E j \in 1 .. i - 1 : plan'[j] = q
      BY <3>1, <3>2
    <3>3. CASE plan'[i] \in Closed({q})
      <4>1. plan'[i] \in Closed(chosen)
        BY <2>4
      <4>2. q \in Closed(chosen)
        BY <2>5, <2>6, <4>1
      <4> QED BY <2>4, <3>3, <4>2
    <3> QED BY <2>4, <2>6, <3>2, <3>3
  <2> QED BY <2>4, <2>5, <2>6
<1>2. [PackNext]_allVars => [job = "none" /\ job' = "packs" => InOrder]_allVars
  BY <1>1
<1> QED BY <1>2, PTL DEF PackSpec, PlanOrdered

\* The pack commands keep their types.
LEMMA PacksTyped == PackTypeOK /\ [PackNext]_allVars => PackTypeOK'
<1> SUFFICES ASSUME PackTypeOK, [PackNext]_allVars PROVE PackTypeOK'
  OBVIOUS
<1> USE DEF PackTypeOK
<1>1. FilesOK'
  BY FilesStay DEF FilesOK
<1>2. /\ <<>> \in Seq(Pack) /\ <<>> \in Seq(Review)
      /\ plan # <<>> => Head(plan) \in Pack /\ Tail(plan) \in Seq(Pack)
  OBVIOUS
<1>3. commands' \in 0 .. MaxCommands
  BY PackAssumption DEF PackNext, PackStart, PackStep, ByHand, IngestSteps, OneMoreCommand,
                        allVars, packVars
<1>4. CASE PackStart
  <2>1. ASSUME NEW choice \in Selected, SetupChooses(choice) PROVE PackTypeOK'
    BY <1>1, <1>3, <2>1 DEF SetupChooses, FilesOK
  <2>2. ASSUME NEW flag \in Selected, NEW prompted \in Prompted, NEW ignoreUnknown \in BOOLEAN,
               InstallPacks(flag, prompted, ignoreUnknown)
        PROVE  PackTypeOK'
    <3>1. Ordered(Selection(flag, prompted).chosen \cup AlwaysOn) \in Seq(Pack)
      BY ChosenIsLocal, OrderedWell
    <3>2. Selection(flag, prompted).consumed \in BOOLEAN
      BY DEF Selection
    <3> QED BY <1>1, <1>3, <2>2, <3>1, <3>2 DEF InstallPacks, RefusePacks, BeginJob, FilesOK
  <2>3. ASSUME NEW p \in Pack, InstallLocal(p) PROVE PackTypeOK'
    <3>1. <<p>> \in Seq(Pack)
      OBVIOUS
    <3> QED BY <1>1, <1>3, <2>3, <3>1 DEF InstallLocal, BeginJob, FilesOK
  <2>4. ASSUME NEW p \in Pack, Fetch(p) PROVE PackTypeOK'
    BY <1>1, <1>3, <2>4 DEF Fetch, FilesOK
  <2>5. CASE FetchFails
    BY <1>1, <1>3, <2>5 DEF FetchFails, RefusePacks, FilesOK
  <2> QED BY <1>4, <2>1, <2>2, <2>3, <2>4, <2>5 DEF PackStart
<1>5. CASE PackStep
  <2>1. ASSUME NEW p \in Pack, CopyFile(p) PROVE PackTypeOK'
    <3>1. files # <<>> => Head(files) \in Review
      OBVIOUS
    <3>2. review' \subseteq Review
      BY <2>1, <3>1 DEF CopyFile
    <3> QED BY <1>1, <1>2, <1>3, <2>1, <3>2 DEF CopyFile, EndJob, FilesOK
  <2>2. ASSUME NEW p \in Pack, BeginPack(p) PROVE PackTypeOK'
    BY <1>1, <1>2, <1>3, <2>2 DEF BeginPack, FilesOK
  <2>3. CASE SkipFile
    BY <1>1, <1>3, <2>3 DEF SkipFile, FilesOK, FileOutcome
  <2>4. CASE RunFile
    BY <1>1, <1>3, <2>4 DEF RunFile, FilesOK
  <2>5. CASE FileDone
    BY <1>1, <1>3, <2>5 DEF FileDone, FilesOK, FileOutcome, OutcomeOf
  <2>6. CASE RecordPack
    <3>1. [pack |-> Head(plan), remote |-> job = "remote", failures |-> "failed" \in tally]
            \in [pack : Pack, remote : BOOLEAN, failures : BOOLEAN]
      BY <1>2, <2>6 DEF RecordPack, Working
    <3>2. installed' \subseteq [pack : Pack, remote : BOOLEAN, failures : BOOLEAN]
      BY <2>6, <3>1 DEF RecordPack
    <3> QED BY <1>1, <1>2, <1>3, <2>6, <3>2 DEF RecordPack, EndJob, Working, FilesOK
  <2>7. CASE Finish
    BY <1>1, <1>2, <1>3, <2>7 DEF Finish, EndJob, FilesOK
  <2>8. CASE KillJob
    BY <1>1, <1>2, <1>3, <2>8 DEF KillJob, EndJob, FilesOK
  <2> QED BY <1>5, <2>1, <2>2, <2>3, <2>4, <2>5, <2>6, <2>7, <2>8 DEF PackStep
<1>6. CASE ByHand \/ IngestSteps \/ UNCHANGED allVars
  BY <1>3, <1>6 DEF ByHand, IngestSteps, allVars, packVars, jobVars
<1> QED BY <1>4, <1>5, <1>6 DEF PackNext

\* As long as nothing fails the pack commands leave whole skills behind, and ids
\* that a forced load may take (install_packs.py, install_pack.py, ingest.py).
THEOREM PacksLeaveWhole == PackSpec => []PacksWhole
<1>1. PackInit => PackTypeOK
  <2>1. 0 \in 0 .. MaxCommands /\ <<>> \in Seq(Pack) /\ <<>> \in Seq(Review)
    BY PackAssumption
  <2> QED BY <2>1 DEF PackInit, PackTypeOK
<1>2. PackSpec => []PackTypeOK
  BY <1>1, PacksTyped, PTL DEF PackSpec
<1>3. PackTypeOK /\ WholeWhenIdle /\ ForceOverwrites => PacksWhole
  BY DEF PacksWhole
<1> QED BY <1>2, <1>3, PacksDriveIngest, SkillsStayWhole, ForceFindsRoom, PTL
=============================================================================
