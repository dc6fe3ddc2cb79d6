-------------------------------- MODULE Ingest --------------------------------
(***************************************************************************)
(* The ingest command (ingest.py), which loads review files into the       *)
(* graph: one file (_single) or a directory of them (_batch).  The graph   *)
(* is locked by the process that has it open, so there is one ingest at a  *)
(* time; what interleaves with it is its own death, and a statement that   *)
(* fails.                                                                  *)
(***************************************************************************)
EXTENDS SkillGraph, FiniteSets

CONSTANTS
    Review,     \* the review files operators may load
    MaxFaults   \* how often a process dies or a statement fails from outside

ReviewRecord == [id : Skill, name : Name, rev : Revision, type : {"domain", "system"},
                 seqs : SUBSET Sequence, deprecated : BOOLEAN,
                 supersededBy : Skill \cup {None}, wellFormed : BOOLEAN, warnings : BOOLEAN]

ASSUME ReviewAssumption ==
    /\ Review \subseteq ReviewRecord
    /\ None \notin Review
    /\ MaxFaults \in Nat

VARIABLES
    mode,       \* "idle", "single" or "batch"
    force,      \* --force was given
    queue,      \* the files accepted and not yet begun
    current,    \* the file being loaded, or None
    step,       \* the next statement of _insert
    todo,       \* the fragments of current whose node is not yet made
    made,       \* the fragment whose node is made and its edge not, or None
    failed,     \* some file of this batch failed
    exit,       \* history: how the last run ended
    faults      \* history: how many faults there have been

ingestVars == <<mode, force, queue, current, step, todo, made, failed, exit,
                faults>>

vars == <<graphVars, ingestVars>>

Step == {"none", "next", "delete", "skill", "version", "edges", "fragment"}

ExitCode == {"none", "ok", "usage", "validation", "duplicate", "db", "crash"}

TypeOK ==
    /\ GraphTypeOK
    /\ mode \in {"idle", "single", "batch"}
    /\ force \in BOOLEAN
    /\ queue \subseteq Review
    /\ current \in Review \cup {None}
    /\ step \in Step
    /\ todo \subseteq Sequence
    /\ made \in Sequence \cup {None}
    /\ failed \in BOOLEAN
    /\ exit \in ExitCode
    /\ faults \in 0 .. MaxFaults
-----------------------------------------------------------------------------
(* The files. *)

\* A system skill has the one fragment that _insert makes of its prose.
FragmentsOf(r) == IF r.type = "system" THEN {1} ELSE r.seqs

NodeOf(r) == [name |-> r.name, deprecated |-> r.deprecated, supersededBy |-> r.supersededBy]

\* _validate; wellFormed stands for the checks on words, tags and vocabularies.
Valid(r) ==
    /\ r.wellFormed
    /\ r.deprecated => r.supersededBy # None
    /\ r.type = "system" => r.seqs = {}
    /\ r.type = "domain" =>
         /\ r.seqs # {}
         /\ \A p, q \in r.seqs : p .. q \subseteq r.seqs

\* _validate, then _lint, whose warnings --strict makes errors.
Accepted(r, strict) == Valid(r) /\ (strict => ~r.warnings)

\* The duplicate check: by id, then by name.
Duplicate(r) ==
    \/ skill[r.id] # None
    \/ \E s \in Skill : skill[s] # None /\ skill[s].name = r.name

\* The whole of r is in the graph, and nothing else under its id.
Loaded(r) ==
    /\ skill[r.id] = NodeOf(r)
    /\ version[r.id] = r.rev
    /\ r.id \in hasVersion \cap currentVersion
    /\ {f \in decomposes : f[1] = r.id} = {r.id} \X FragmentsOf(r)
    /\ \A q \in FragmentsOf(r) : fragment[<<r.id, q>>] = r.rev
-----------------------------------------------------------------------------
(* The runs. *)

IngestInit ==
    /\ mode = "idle" /\ force = FALSE
    /\ queue = {} /\ current = None
    /\ step = "none" /\ todo = {} /\ made = None
    /\ failed = FALSE
    /\ exit = "none"
    /\ faults = 0

Init == GraphInit /\ IngestInit

\* Something outside this program goes wrong.
Fault == faults < MaxFaults /\ faults' = faults + 1

\* Enter _insert for r.
Insert(r, forced) ==
    /\ current' = r
    /\ step' = IF forced THEN "delete" ELSE "skill"
    /\ todo' = FragmentsOf(r)
    /\ made' = None

End(code) ==
    /\ mode' = "idle" /\ force' = FALSE
    /\ queue' = {} /\ current' = None
    /\ step' = "none" /\ todo' = {} /\ made' = None
    /\ failed' = FALSE
    /\ exit' = code

\* A run that ends before it writes anything.
Refuse(code) ==
    /\ exit' = code
    /\ UNCHANGED <<graphVars, mode, force, queue, current, step, todo, made, failed, faults>>

\* Why _single stops before _insert, if it does.  The replacement of a
\* deprecated skill is looked up last, after the prompt.
Refusal(r, forced, strict, yes) ==
    IF ~Accepted(r, strict) THEN "validation"
    ELSE IF Duplicate(r) /\ ~forced THEN "duplicate"
    ELSE IF ~yes THEN "usage"
    ELSE IF r.supersededBy # None /\ skill[r.supersededBy] = None THEN "validation"
    ELSE "none"

\* _single, up to its call of _insert.
Single(r, forced, strict, yes) ==
    /\ mode = "idle"
    /\ \/ /\ Refusal(r, forced, strict, yes) # "none"
          /\ Refuse(Refusal(r, forced, strict, yes))
       \/ /\ Refusal(r, forced, strict, yes) = "none"
          /\ mode' = "single"
          /\ force' = forced
          /\ Insert(r, forced)
          /\ UNCHANGED <<graphVars, queue, failed, exit, faults>>

\* _batch, up to its loop.  All files pass the duplicate check before any of
\* them is loaded, and no replacement is looked up.
Batch(directory, forced, strict, yes) ==
    LET parsed == {r \in directory : Accepted(r, strict)}
        toLoad == {r \in parsed : forced \/ ~Duplicate(r)} IN
    /\ mode = "idle"
    /\ \/ /\ toLoad = {}
          /\ Refuse(IF directory = {} THEN "usage" ELSE "validation")
       \/ /\ toLoad # {} /\ ~yes
          /\ Refuse("usage")
       \/ /\ toLoad # {} /\ yes
          /\ mode' = "batch"
          /\ force' = forced
          /\ queue' = toLoad
          /\ step' = "next"
          /\ UNCHANGED <<graphVars, current, todo, made, failed, exit, faults>>

\* The store cannot be opened: another process has it locked.
OpenFails ==
    /\ mode = "idle"
    /\ Refuse("db")

\* The loop of _batch takes the next file, in the order of their names.
NextFile(r) ==
    /\ step = "next"
    /\ r \in queue
    /\ queue' = queue \ {r}
    /\ Insert(r, force)
    /\ UNCHANGED <<graphVars, mode, force, failed, exit, faults>>

EndBatch ==
    /\ step = "next"
    /\ queue = {}
    /\ End(IF failed THEN "db" ELSE "ok")
    /\ UNCHANGED <<graphVars, faults>>

\* The file is done with; a batch goes on to the next.
Done(code, fails) ==
    IF mode = "single"
    THEN End(code)
    ELSE /\ step' = "next"
         /\ current' = None /\ todo' = {} /\ made' = None
         /\ failed' = (failed \/ fails)
         /\ UNCHANGED <<mode, force, queue, exit>>
-----------------------------------------------------------------------------
(* _insert, one statement at a time. *)

Statement(at, to) ==
    /\ step = at
    /\ step' = to
    /\ UNCHANGED <<mode, force, queue, current, todo, made, failed, exit, faults>>

InsertDelete == Statement("delete", "skill") /\ DeleteSkill(current.id)

InsertSkill == Statement("skill", "version") /\ CreateSkill(current.id, NodeOf(current))

InsertVersion == Statement("version", "edges") /\ CreateVersion(current.id, current.rev)

InsertEdges == Statement("edges", "fragment") /\ CreateVersionEdges(current.id)

InsertFragment(q) ==
    /\ step = "fragment"
    /\ made = None
    /\ q \in todo
    /\ CreateFragment(<<current.id, q>>, current.rev)
    /\ made' = q
    /\ todo' = todo \ {q}
    /\ UNCHANGED <<mode, force, queue, current, step, failed, exit, faults>>

InsertFragmentEdge ==
    /\ made # None
    /\ CreateFragmentEdge(<<current.id, made>>)
    /\ made' = None
    /\ UNCHANGED <<mode, force, queue, current, step, todo, failed, exit, faults>>

\* Mutant: _insert returns with fragments left to make.
InsertDoneEarly ==
    /\ step = "fragment"
    /\ made = None
    /\ Done("ok", FALSE)
    /\ UNCHANGED <<graphVars, faults>>

InsertDone ==
    /\ step = "fragment"
    /\ made = None
    /\ todo = {}
    /\ Done("ok", FALSE)
    /\ UNCHANGED <<graphVars, faults>>

\* A CREATE whose primary key is in use.
Conflict ==
    \/ step = "skill" /\ skill[current.id] # None
    \/ step = "version" /\ version[current.id] # None
    \/ /\ step = "fragment"
       /\ made = None
       /\ \E q \in todo : fragment[<<current.id, q>>] # None

\* A statement raises, for a conflict or for a fault; what the earlier ones
\* wrote stays.
InsertFails ==
    /\ current # None
    /\ (Conflict /\ UNCHANGED faults) \/ Fault
    /\ Done("db", TRUE)
    /\ UNCHANGED graphVars

\* The process dies.
Crash ==
    /\ Fault
    /\ mode # "idle"
    /\ End("crash")
    /\ UNCHANGED graphVars

Start ==
    \E forced, strict, yes \in BOOLEAN :
      \/ \E r \in Review : Single(r, forced, strict, yes)
      \/ \E directory \in SUBSET Review : Batch(directory, forced, strict, yes)

Work ==
    \/ \E r \in Review : NextFile(r)
    \/ EndBatch
    \/ InsertDelete \/ InsertSkill \/ InsertVersion \/ InsertEdges
    \/ \E q \in Sequence : InsertFragment(q)
    \/ InsertFragmentEdge \/ InsertDone \/ InsertFails

Next == Start \/ Work \/ Crash \/ OpenFails

Spec == Init /\ [][Next]_vars
-----------------------------------------------------------------------------
(* Properties. *)

\* Whatever statement an ingest fails or dies at, no skill is left with an
\* active version and no current one: the consistency guard, which fails every
\* read of the corpus on the first such skill, never trips.
GuardNeverTrips == \A s \in Skill : ~Inconsistent(s)

\* A skill is never served with fragments of two revisions of its prose, or
\* with fragments of another revision than its version's.
OneRevision ==
    \A f \in ActiveFragments : fragment[f] = version[f[1]] /\ fragment[f] # None

\* The graph, wherever an ingest stands, fails or dies.
GraphSound == TypeOK /\ GuardNeverTrips /\ OneRevision

\* "ok: loaded" is true: when _insert returns normally, everything in the file
\* and nothing else is in the graph under the id of the skill.
OkMeansLoaded ==
    [][\A r \in Review : current = r /\ InsertDone => Loaded(r)']_vars

\* As long as there is no fault every skill in the graph is whole, as some
\* review file has it, whenever nobody is loading it.
WholeWhenIdle ==
    faults = 0 => \A s \in Skill : skill[s] # None /\ (current = None \/ current.id # s) =>
        \E r \in Review : r.id = s /\ Loaded(r)

\* With no fault before, --force finds no id in use: what it deletes is all that
\* the load makes again.
ForceOverwrites == faults = 0 /\ force => ~Conflict

\* A version that no edge ties to its skill: the load of the skill can only
\* fail, with --force too, and the skill is not served.
Stuck(s) ==
    /\ version[s] # None
    /\ s \notin hasVersion
    /\ s \notin currentVersion
    /\ current # None /\ current.id = s => step \in {"delete", "skill", "version"}

\* Once stuck, a skill stays so, whatever is ingested in whatever order.
StuckForever == [][\A s \in Skill : Stuck(s) => Stuck(s)']_vars
=============================================================================
