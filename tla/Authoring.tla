------------------------------- MODULE Authoring -------------------------------
(***************************************************************************)
(* The authoring pipeline (authoring/): drafts of skills move between the  *)
(* directories of skill-source, from pending-qa, where an author model     *)
(* writes them, to where a gate of checks, a search for duplicates and a   *)
(* critic model sends them, and from pending-revision back.  A file is     *)
(* named by the skill_id that the model gave; how often the gate has sent  *)
(* an id back is kept in memory during a command, and in .qa-state.json    *)
(* between commands.  The prompts, the texts and the reasons are left out: *)
(* a draft is the source it was written from.                              *)
(***************************************************************************)
EXTENDS Integers, FiniteSets

CONSTANTS
    Source,      \* SKILL.md files
    Id,          \* skill ids
    Named,       \* the ids that the model may give to the drafts of a source
    Rank,        \* their order: drafts are handled sorted by name
    None,        \* no file, no command
    Torn,        \* a draft whose writing was cut short, and its revisions
    Bundled,     \* a skill that comes with the package
    Shipped,     \* the ids of such skills: the sets to begin with
    Budget,      \* bounce_budget
    MaxRounds,   \* --max-rounds
    MaxFaults,   \* how often a process is killed
    MaxCommands  \* how many commands are run

Dir == {"qa", "review", "revision", "rejected", "human"}

Command == {"author", "qa", "revise", "run", "single"}

ASSUME AuthoringAssumption ==
    /\ Budget \in Nat
    /\ MaxRounds \in Nat \ {0}
    /\ MaxFaults \in Nat /\ MaxCommands \in Nat
    /\ {None, Torn, Bundled} \cap Source = {}
    /\ None # Torn /\ None # Bundled
    /\ None \notin Id \cup Command \cup [id : Id, to : Dir]
    /\ Shipped \subseteq SUBSET Id
    /\ Named \in [Source -> SUBSET Id]
    /\ Rank \in [Id -> Nat]
    /\ \A i, j \in Id : Rank[i] = Rank[j] => i = j

VARIABLES
    draft,      \* what the directories hold
    report,     \* the reports in pending-revision
    disk,       \* .qa-state.json
    corpus,     \* the skills of the graph
    cmd,        \* the command that runs
    phase,      \* what it does now
    sources,    \* the sources still to be authored
    todo,       \* the drafts still to be handled in this phase
    hand,       \* the draft that is being handled
    mem,        \* the command's bounces
    round,      \* how often the gate was passed in a run, or for a skill
    errors,     \* a draft of the phase failed
    exit,       \* history: how the last command ended
    revisions,  \* history: how often an id was sent back
    renamed,    \* history: the run changed an id
    faults,     \* history: how many processes were killed
    commands    \* history: how many commands there were

files == <<draft, report, corpus>>
work == <<cmd, phase, sources, todo, hand, round, errors>>
history == <<exit, revisions, renamed, faults, commands>>
vars == <<files, disk, work, mem, history>>

Bounces == [Id -> 0 .. Budget]

NoBounces == [i \in Id |-> 0]

TypeOK ==
    /\ draft \in [Dir -> [Id -> Source \cup {None, Torn}]]
    /\ report \in [Id -> {"none", "fresh", "stale"}]
    /\ disk \in Bounces
    /\ corpus \in [Id -> Source \cup {None, Torn, Bundled}]
    /\ cmd \in Command \cup {None}
    /\ phase \in {"idle", "author", "qa", "report", "save", "revise", "unlink", "tidy"}
    /\ sources \subseteq Source
    /\ todo \subseteq Id
    /\ hand \in [id : Id, to : Dir] \cup {None}
    /\ mem \in Bounces
    /\ round \in 0 .. MaxRounds + Budget + 1
    /\ errors \in BOOLEAN
    /\ exit \in {"none", "ok", "errors", "killed"}
    /\ revisions \in [Id -> Nat]
    /\ renamed \in BOOLEAN
    /\ faults \in 0 .. MaxFaults
    /\ commands \in 0 .. MaxCommands

Init ==
    /\ draft = [d \in Dir |-> [i \in Id |-> None]]
    /\ report = [i \in Id |-> "none"]
    /\ disk = NoBounces
    /\ corpus \in {[i \in Id |-> IF i \in ids THEN Bundled ELSE None] : ids \in Shipped}
    /\ cmd = None /\ phase = "idle" /\ sources = {} /\ todo = {} /\ hand = None
    /\ mem = NoBounces /\ round = 0 /\ errors = FALSE
    /\ exit = "none" /\ revisions = [i \in Id |-> 0] /\ renamed = FALSE
    /\ faults = 0 /\ commands = 0

\* The drafts of a directory: *.yaml.
In(d) == {i \in Id : draft[d][i] # None}

\* The draft whose turn it is.
Turn(i) == i \in todo /\ \A j \in todo : Rank[i] <= Rank[j]

\* write_text of a draft.
Written(d, i, text) == [draft EXCEPT ![d][i] = text]

\* shutil.move onto a file replaces it.
Moved(i, from, to) == [draft EXCEPT ![from][i] = None, ![to][i] = draft[from][i]]

\* Mutant: the file is not read.
LoadBouncesAnew == mem' = NoBounces

\* load_bounces; what cannot be parsed counts as empty.
LoadBounces == mem' = disk
-----------------------------------------------------------------------------
(* The gate. *)

\* dedup_candidates: how near the nearest fragments of the corpus are to the
\* draft's, by the two thresholds.  An empty corpus has none.
Nearness == IF \A i \in Id : corpus[i] = None THEN {"ignore"} ELSE {"ignore", "soft", "hard"}

\* run_dedup: only a hard match matters to the gate, and any failure of the
\* search counts as none.
HardDuplicate == "hard" \in Nearness

\* run_critic: the verdict of an answer that fits, and of any other.
CriticVerdict == {"approve", "revise", "reject", "unparseable"}

\* run_deterministic and the two stages after it: what they may find of a draft.
\* What is not YAML, or lacks its type or the form of its fragments, cannot be
\* read; what misses other fields, or has an id of the graph, has errors.  A
\* draft that was cut short is not noticed as such: wherever it was cut, what is
\* there may be unreadable, miss fields or be found good.
Finding(i) ==
    IF corpus[i] # None THEN {"unreadable", "errors"}
    ELSE {"unreadable", "errors"} \cup CriticVerdict
             \cup (IF HardDuplicate THEN {"duplicate"} ELSE {})

\* route.
Route(finding, bounces) ==
    CASE finding \in {"unreadable", "unparseable"} -> "human"
      [] finding \in {"errors", "revise"} -> IF bounces < Budget THEN "revision" ELSE "human"
      [] finding \in {"duplicate", "reject"} -> "rejected"
      [] finding = "approve" -> "review"

\* qa_one up to the move of the draft.  The bounces in memory are counted with it.
Judge(i, finding) ==
    LET to == Route(finding, mem[i]) IN
    /\ phase = "qa" /\ Turn(i)
    /\ finding \in Finding(i)
    /\ draft' = Moved(i, "qa", to)
    /\ hand' = [id |-> i, to |-> to]
    /\ todo' = todo \ {i}
    /\ phase' = "report"
    /\ IF to = "revision"
       THEN /\ mem' = [mem EXCEPT ![i] = @ + 1]
            /\ revisions' = [revisions EXCEPT ![i] = @ + 1]
            /\ report' = [report EXCEPT ![i] = IF @ = "none" THEN "none" ELSE "stale"]
       ELSE UNCHANGED <<mem, revisions, report>>
    /\ UNCHANGED <<corpus, disk, cmd, sources, round, errors, exit, renamed, faults, commands>>

\* After the report the gate takes the next draft; a skill that is processed
\* alone goes on to be revised, or is done.
AfterReport ==
    IF cmd # "single" THEN phase' = "qa" /\ UNCHANGED todo
    ELSE IF hand.to = "revision" THEN phase' = "revise" /\ todo' = {hand.id}
    ELSE phase' = "save" /\ UNCHANGED todo

\* Mutant: the report is written where the draft was.
ReportMisplaced ==
    /\ phase = "report"
    /\ AfterReport
    /\ hand' = None
    /\ UNCHANGED <<files, disk, cmd, sources, round, errors, mem, history>>

\* _write_report, beside the draft.
Report ==
    /\ phase = "report"
    /\ report' = IF hand.to = "revision" THEN [report EXCEPT ![hand.id] = "fresh"] ELSE report
    /\ AfterReport
    /\ hand' = None
    /\ UNCHANGED <<draft, corpus, disk, cmd, sources, round, errors, mem, history>>

\* run_qa has been through the drafts that it found.
Judged ==
    /\ phase = "qa" /\ todo = {}
    /\ phase' = "save"
    /\ UNCHANGED <<files, disk, cmd, sources, todo, hand, round, errors, mem, history>>
-----------------------------------------------------------------------------
(* Commands. *)

EnterQa(drafts, n) == phase' = "qa" /\ todo' = drafts /\ round' = n

\* The end of a command; its memory is gone.
Over(code) ==
    /\ cmd' = None /\ phase' = "idle" /\ sources' = {} /\ todo' = {} /\ hand' = None
    /\ round' = 0 /\ errors' = FALSE /\ mem' = NoBounces /\ exit' = code /\ renamed' = FALSE
    /\ UNCHANGED <<revisions, faults, commands>>

Begin(name) ==
    /\ cmd = None
    /\ commands < MaxCommands /\ commands' = commands + 1
    /\ cmd' = name /\ exit' = "none"
    /\ UNCHANGED <<files, disk, hand, errors, revisions, renamed, faults>>

\* author, and the two pipelines, which begin with it.
AuthorBegins(name, chosen) ==
    /\ name \in {"author", "run", "single"}
    /\ Begin(name)
    /\ phase' = "author" /\ sources' = chosen
    /\ IF name = "single" THEN LoadBounces ELSE UNCHANGED mem
    /\ UNCHANGED <<todo, round>>

QaBegins ==
    /\ Begin("qa")
    /\ EnterQa(In("qa"), 1)
    /\ LoadBounces
    /\ UNCHANGED sources

ReviseBegins ==
    /\ Begin("revise")
    /\ phase' = "revise" /\ todo' = In("revision")
    /\ UNCHANGED <<sources, round, mem>>

\* Mutant: a source that failed is tried again.
AuthorRetries(s) ==
    /\ phase = "author" /\ s \in sources
    /\ errors' = (cmd # "single")
    /\ phase' = IF cmd = "single" THEN "save" ELSE "author"
    /\ UNCHANGED <<files, disk, cmd, sources, todo, hand, round, mem, history>>

\* author_one fails: no answer, no YAML, no id.  A skill that is processed alone
\* is given up; its bounces are saved all the same.
AuthorFails(s) ==
    /\ phase = "author" /\ s \in sources
    /\ sources' = sources \ {s}
    /\ errors' = (cmd # "single")
    /\ phase' = IF cmd = "single" THEN "save" ELSE "author"
    /\ UNCHANGED <<files, disk, cmd, todo, hand, round, mem, history>>

\* author_one writes the draft under the id that the model gave.
AuthorWrites(s, i) ==
    /\ phase = "author" /\ s \in sources
    /\ i \in Named[s]
    /\ sources' = sources \ {s}
    /\ draft' = Written("qa", i, s)
    /\ IF cmd = "single" THEN EnterQa({i}, 1) ELSE UNCHANGED <<phase, todo, round>>
    /\ UNCHANGED <<report, corpus, disk, cmd, hand, errors, mem, history>>

\* All are authored.  A run goes on whatever failed.
Authored ==
    /\ phase = "author" /\ sources = {}
    /\ IF cmd = "run"
       THEN /\ EnterQa(In("qa"), 1) /\ LoadBounces /\ errors' = FALSE
            /\ UNCHANGED <<cmd, sources, hand, history>>
       ELSE Over(IF cmd = "author" /\ errors THEN "errors" ELSE "ok")
    /\ UNCHANGED <<files, disk>>

\* save_bounces, and then what the command does next.
Save ==
    /\ phase = "save"
    /\ disk' = mem
    /\ CASE cmd = "single" ->
              /\ phase' = "author" /\ todo' = {} /\ round' = 0
              /\ UNCHANGED <<cmd, sources, hand, errors, mem, history>>
         [] cmd = "run" /\ In("revision") # {} ->
              /\ phase' = "revise" /\ todo' = In("revision")
              /\ UNCHANGED <<cmd, sources, hand, round, errors, mem, history>>
         [] OTHER -> Over("ok")
    /\ UNCHANGED files

\* Mutant: the draft is unlinked whatever came of it.
ReviseFailsUnlinking(i) ==
    /\ phase = "revise" /\ Turn(i)
    /\ draft' = [draft EXCEPT !["revision"][i] = None]
    /\ errors' = (cmd # "single")
    /\ todo' = todo \ {i}
    /\ phase' = IF cmd = "single" THEN "save" ELSE "revise"
    /\ UNCHANGED <<report, corpus, disk, cmd, sources, hand, round, mem, history>>

\* revise_one fails: no answer, no YAML, no id.  The draft stays.
ReviseFails(i) ==
    /\ phase = "revise" /\ Turn(i)
    /\ errors' = (cmd # "single")
    /\ todo' = todo \ {i}
    /\ phase' = IF cmd = "single" THEN "save" ELSE "revise"
    /\ UNCHANGED <<files, disk, cmd, sources, hand, round, mem, history>>

\* The ids that the model may give to the revision of a draft.
NamedFor(text) == IF text = Torn THEN Id ELSE Named[text]

\* revise_one writes the new draft, under the id that the model gave now, ...
ReviseWrites(i, j) ==
    /\ phase = "revise" /\ Turn(i)
    /\ j \in NamedFor(draft["revision"][i])
    /\ draft' = Written("qa", j, draft["revision"][i])
    /\ renamed' = (renamed \/ i # j)
    /\ hand' = [id |-> i, to |-> "qa"]
    /\ todo' = IF cmd = "single" THEN {j} ELSE todo \ {i}
    /\ phase' = "unlink"
    /\ UNCHANGED <<report, corpus, disk, cmd, sources, round, errors, mem,
                   exit, revisions, faults, commands>>

\* ... removes the old one, ...
UnlinkDraft ==
    /\ phase = "unlink"
    /\ draft' = [draft EXCEPT !["revision"][hand.id] = None]
    /\ report' = [report EXCEPT ![hand.id] = IF @ = "none" THEN "none" ELSE "stale"]
    /\ phase' = "tidy"
    /\ UNCHANGED <<corpus, disk, cmd, sources, todo, hand, round, errors, mem, history>>

\* ... and its report.  A skill that is processed alone returns to the gate, at
\* most Budget + 1 times.
UnlinkReport ==
    /\ phase = "tidy"
    /\ report' = [report EXCEPT ![hand.id] = "none"]
    /\ hand' = None
    /\ IF cmd # "single" THEN phase' = "revise" /\ UNCHANGED <<todo, round>>
       ELSE IF round <= Budget THEN EnterQa(todo, round + 1)
       ELSE phase' = "save" /\ todo' = {} /\ UNCHANGED round
    /\ UNCHANGED <<draft, corpus, disk, cmd, sources, errors, mem, history>>

\* Mutant: a revision that failed does not stop a run.
RevisedAnyway ==
    /\ phase = "revise" /\ todo = {}
    /\ IF cmd = "run" /\ round < MaxRounds
       THEN EnterQa(In("qa"), round + 1) /\ LoadBounces /\ errors' = FALSE
            /\ UNCHANGED <<cmd, sources, hand, history>>
       ELSE Over(IF cmd = "revise" /\ errors THEN "errors" ELSE "ok")
    /\ UNCHANGED <<files, disk>>

\* All are revised.  A run stops where one failed, and at its last round.
Revised ==
    /\ phase = "revise" /\ todo = {}
    /\ IF cmd = "run" /\ ~errors /\ round < MaxRounds
       THEN /\ EnterQa(In("qa"), round + 1) /\ LoadBounces
            /\ UNCHANGED <<cmd, sources, hand, errors, history>>
       ELSE Over(IF errors THEN "errors" ELSE "ok")
    /\ UNCHANGED <<files, disk>>
-----------------------------------------------------------------------------
(* Kills, and the operator. *)

\* What a kill leaves of the draft that is being written.
TornDrafts ==
    IF (phase = "author" /\ sources # {}) \/ (phase = "revise" /\ todo # {})
    THEN {Written("qa", i, Torn) : i \in Id} ELSE {}

Kill ==
    /\ cmd # None
    /\ faults < MaxFaults /\ faults' = faults + 1
    /\ draft' \in {draft} \cup TornDrafts
    /\ disk' \in {disk} \cup (IF phase = "save" THEN {NoBounces} ELSE {})
    /\ cmd' = None /\ phase' = "idle" /\ sources' = {} /\ todo' = {} /\ hand' = None
    /\ round' = 0 /\ errors' = FALSE /\ mem' = NoBounces /\ exit' = "killed" /\ renamed' = FALSE
    /\ UNCHANGED <<report, corpus, revisions, commands>>

\* The gate and a skill that is processed alone hold the graph store open.
StoreOpen == cmd = "single" \/ phase \in {"qa", "report", "save"}

\* The operator ingests an approved draft; an id that is there is refused.
Ingest(i) ==
    /\ ~StoreOpen
    /\ draft["review"][i] # None /\ corpus[i] = None
    /\ corpus' = [corpus EXCEPT ![i] = draft["review"][i]]
    /\ UNCHANGED <<draft, report, disk, work, mem, history>>

Start ==
    \/ \E name \in {"author", "run", "single"}, chosen \in SUBSET Source \ {{}} :
          AuthorBegins(name, chosen)
    \/ QaBegins
    \/ ReviseBegins

Step ==
    \/ \E s \in Source : AuthorFails(s) \/ (\E i \in Id : AuthorWrites(s, i))
    \/ Authored
    \/ \E i \in Id : \E finding \in Finding(i) : Judge(i, finding)
    \/ Report \/ Judged \/ Save
    \/ \E i \in Id : ReviseFails(i) \/ (\E j \in Id : ReviseWrites(i, j))
    \/ UnlinkDraft \/ UnlinkReport \/ Revised

Next == Start \/ Step \/ Kill \/ \E i \in Id : Ingest(i)

Spec == Init /\ [][Next]_vars

\* The models and the stores answer or time out.
FairSpec == Spec /\ WF_vars(Step)
-----------------------------------------------------------------------------
(* Properties. *)

\* An id is sent back at most Budget times, whatever drafts bear it and however
\* commands follow each other; every kill may cost the count once.
BudgetHolds == \A i \in Id : revisions[i] <= Budget * (1 + faults)

\* An approved draft whose id is in the graph is what the graph was given for it:
\* the gate refuses ids that are taken, and nothing is ingested while it judges.
ReviewedIsServed ==
    \A i \in Id : draft["review"][i] # None /\ corpus[i] # None => corpus[i] = draft["review"][i]

\* What holds of drafts and counts at every moment.
AuthoringSound == TypeOK /\ BudgetHolds /\ ReviewedIsServed

\* A draft disappears only where another is written over it: a kill between the
\* writing of a revised draft and the removal of the old one leaves both.
DraftKept ==
    [][\A d \in Dir, i \in Id : draft[d][i] # None /\ draft'[d][i] = None =>
         \E e \in Dir, j \in Id : draft'[e][j] = draft[d][i]]_vars

\* A run that ends well has left no draft in pending-revision, also when it
\* ends at its last round; nor one in pending-qa, if no process was ever killed
\* and the models kept the ids: rounds that outnumber the budget are enough.
RunClears ==
    [][cmd = "run" /\ cmd' = None /\ exit' = "ok" =>
         /\ In("revision") = {}
         /\ MaxRounds > Budget /\ faults = 0 /\ ~renamed => In("qa") = {}]_vars

\* The author revises a draft with the report that sent this draft back, if
\* nothing was killed; after a kill it may have none, or that on another draft.
OwnFeedback ==
    [][\A i \in Id : faults = 0 /\ phase = "revise" /\ i \in todo => report[i] = "fresh"]_vars

\* Every command ends.
Ends == []<>(cmd = None)
=============================================================================
