--------------------------------- MODULE Packs ---------------------------------
(***************************************************************************)
(* The pack commands over the ingest command: install-packs, which takes a *)
(* selection of the packs that come with the package, adds what they       *)
(* depend on, and loads them in order (install/subcommands/                *)
(* install_packs.py), and install-pack, which loads one from a directory   *)
(* or from a registry (install_pack.py).  Every file of a pack is loaded   *)
(* by a process of the ingest command, and an operator may run that        *)
(* command by hand in between.                                             *)
(***************************************************************************)
EXTENDS Ingest, Sequences

CONSTANTS
    Pack,       \* names of packs
    Local,      \* those that come with the package
    NameOrder,  \* the local ones, sorted by name
    Manifest,   \* what is in a pack, and what its manifest says
    Selected,   \* what users select: sets of names, {} for no --packs
    All,        \* the word `all'
    MaxCommands \* how many commands are run

ManifestRecord == [files : Seq(Review) \ {<<>>}, deps : Seq(Pack), always : BOOLEAN,
                   valid : BOOLEAN, dim : BOOLEAN]

ASSUME PackAssumption ==
    /\ Local \subseteq Pack
    /\ NameOrder \in Seq(Local)
    /\ \A p \in Local : \E i \in 1 .. Len(NameOrder) : NameOrder[i] = p
    /\ Manifest \in [Pack -> ManifestRecord]
    /\ All \notin Pack
    /\ Selected \subseteq (SUBSET Pack) \cup {{All}}
    /\ None \notin {All, {}} \cup Pack
    /\ MaxCommands \in Nat

VARIABLES
    job,        \* the pack command that runs
    plan,       \* the packs it has still to do
    files,      \* the files of the first that are still to be loaded
    waiting,    \* the ingest command runs for the first of files
    tally,      \* what has come of the pack's files
    packFailed, \* some pack of the plan failed
    consumed,   \* the plan comes from the pending selection
    pending,    \* pending_pack_selection of the state file
    installed,  \* installed_packs of the state file
    review,     \* the files of remote packs in pending-review
    packExit,   \* history: how the last pack command ended
    commands    \* history: how many commands there have been

jobVars == <<job, plan, files, waiting, tally, packFailed, consumed, pending, installed,
             review, packExit>>

packVars == <<jobVars, commands>>

allVars == <<vars, packVars>>

FileOutcome == {"ingested", "duplicate", "deprecated", "failed"}

PackTypeOK ==
    /\ job \in {"none", "packs", "local", "fetch", "remote"}
    /\ plan \in Seq(Pack)
    /\ files \in Seq(Review)
    /\ waiting \in BOOLEAN
    /\ tally \subseteq FileOutcome
    /\ packFailed \in BOOLEAN
    /\ consumed \in BOOLEAN
    /\ pending \in Selected \cup {None}
    /\ installed \subseteq [pack : Pack, remote : BOOLEAN, failures : BOOLEAN]
    /\ review \subseteq Review
    /\ packExit \in {"none", "ok", "usage", "errors", "killed"}
    /\ commands \in 0 .. MaxCommands

PackInit ==
    /\ Init
    /\ job = "none" /\ plan = <<>> /\ files = <<>> /\ waiting = FALSE
    /\ tally = {} /\ packFailed = FALSE /\ consumed = FALSE
    /\ pending = None /\ installed = {} /\ review = {} /\ packExit = "none" /\ commands = 0
-----------------------------------------------------------------------------
(* Selection. *)

AlwaysOn == {p \in Local : Manifest[p].always}

\* The dependencies that come with the package; others are warned of.
Needs(p) == {q \in Local : \E i \in DOMAIN Manifest[p].deps : Manifest[p].deps[i] = q}

\* The chosen packs and all that they depend on.
Closed(chosen) ==
    {p \in Local : \A S \in SUBSET Local :
        chosen \subseteq S /\ (\A q \in S : Needs(q) \subseteq S) => p \in S}

\* What visit has still to do: begin with a pack, or leave it.
Visit == [pack : Pack, leave : BOOLEAN]

Visits(packs) == [i \in DOMAIN packs |-> [pack |-> packs[i], leave |-> FALSE]]

\* The recursion of visit: its stack, the packs visited or not wanted, and the
\* order so far.
Walking == [work : Seq(Visit), seen : SUBSET Pack, out : Seq(Pack)]

\* visit is called for the pack on top of the stack, or returns from it.
Advance(w) ==
    LET first == Head(w.work)
        rest == Tail(w.work) IN
    IF first.leave
    THEN [w EXCEPT !.work = rest, !.out = Append(w.out, first.pack)]
    ELSE IF first.pack \in w.seen THEN [w EXCEPT !.work = rest]
    ELSE [w EXCEPT !.work = Visits(Manifest[first.pack].deps)
                              \o <<[pack |-> first.pack, leave |-> TRUE]>> \o rest,
                   !.seen = w.seen \cup {first.pack}]

\* In depth first, each pack after its dependencies.
Walk[w \in Walking] == IF w.work = <<>> THEN w.out ELSE Walk[Advance(w)]

\* Mutant: the chosen packs, in the order of their names.
InOrderOfNames(chosen) == SelectSeq(NameOrder, LAMBDA p : p \in Closed(chosen))

\* _ordered_with_deps.
Ordered(chosen) ==
    Walk[[work |-> Visits(NameOrder), seen |-> Pack \ Closed(chosen), out |-> <<>>]]

\* _select_packs: --packs, the pending selection, the prompt, in this order.
\* `all' is a word of --packs alone.
Selection(flag, prompted) ==
    IF flag = {All} THEN [chosen |-> Local, unknown |-> {}, consumed |-> FALSE]
    ELSE IF flag # {} THEN [chosen |-> flag \cap Local, unknown |-> flag \ Local, consumed |-> FALSE]
    ELSE IF pending # None
    THEN [chosen |-> pending \cap Local, unknown |-> pending \ Local, consumed |-> TRUE]
    ELSE [chosen |-> prompted, unknown |-> {}, consumed |-> FALSE]

\* What the prompt of a terminal returns: packs by name, by number and by tier,
\* or nothing, which is also what is taken where there is no terminal.
Prompted == {chosen \in Selected : chosen \subseteq Local}
-----------------------------------------------------------------------------
(* The commands. *)

\* run_setup keeps the user's choice for install-packs.
SetupChooses(choice) ==
    /\ job = "none"
    /\ pending' = choice
    /\ UNCHANGED <<vars, job, plan, files, waiting, tally, packFailed, consumed, installed,
                   review, packExit>>

RefusePacks(code) ==
    /\ packExit' = code
    /\ UNCHANGED <<vars, job, plan, files, waiting, tally, packFailed, consumed, pending,
                   installed, review>>

BeginJob(name, packs, isConsumed) ==
    /\ job' = name
    /\ plan' = packs
    /\ consumed' = isConsumed
    /\ UNCHANGED <<vars, files, waiting, tally, packFailed, pending, installed, packExit>>

\* install-packs.
InstallPacks(flag, prompted, ignoreUnknown) ==
    LET sel == Selection(flag, prompted) IN
    /\ job = "none"
    /\ IF sel.unknown # {} /\ ~ignoreUnknown
       THEN RefusePacks("usage")
       ELSE BeginJob("packs", Ordered(sel.chosen \cup AlwaysOn), sel.consumed) /\ UNCHANGED review

\* install-pack of a directory.
InstallLocal(p) ==
    /\ job = "none"
    /\ BeginJob("local", <<p>>, FALSE)
    /\ UNCHANGED review

\* install-pack of a name: manifest, tarball, digest, archive.
FetchFails ==
    /\ job = "none"
    /\ RefusePacks("usage")

Fetch(p) ==
    /\ job = "none"
    /\ p \notin Local
    /\ job' = "fetch"
    /\ plan' = <<p>>
    /\ files' = Manifest[p].files
    /\ UNCHANGED <<vars, waiting, tally, packFailed, consumed, pending, installed, review, packExit>>

EndJob(code) ==
    /\ job' = "none" /\ plan' = <<>> /\ files' = <<>> /\ waiting' = FALSE
    /\ tally' = {} /\ packFailed' = FALSE /\ consumed' = FALSE
    /\ packExit' = code

\* Mutant: a file that is there is written over.
CopyFileOver(p) ==
    /\ job = "fetch" /\ p = Head(plan)
    /\ IF files = <<>>
       THEN job' = "remote" /\ files' = Manifest[p].files /\ UNCHANGED review
       ELSE review' = review \cup {Head(files)} /\ files' = Tail(files) /\ UNCHANGED job
    /\ UNCHANGED <<vars, plan, waiting, tally, packFailed, consumed, pending, installed, packExit>>

\* The files of the tarball are copied to pending-review, one by one; one that
\* is there already ends the command, and what is copied stays.
CopyFile(p) ==
    /\ job = "fetch" /\ p = Head(plan)
    /\ IF files # <<>> /\ Head(files) \in review
       THEN EndJob("usage") /\ UNCHANGED <<vars, pending, installed, review>>
       ELSE /\ IF files = <<>>
               THEN job' = "remote" /\ files' = Manifest[p].files /\ UNCHANGED review
               ELSE review' = review \cup {Head(files)} /\ files' = Tail(files) /\ UNCHANGED job
            /\ UNCHANGED <<vars, plan, waiting, tally, packFailed, consumed, pending, installed,
                           packExit>>
-----------------------------------------------------------------------------
(* One pack. *)

Working == job \in {"packs", "local", "remote"} /\ plan # <<>>

\* install_local_pack reads the manifest and compares the length of vectors.
ManifestOk(p) == Manifest[p].valid /\ Manifest[p].dim

\* A pack is begun: tally is empty, and so are its files, until its manifest is
\* read; a remote pack has its files from the tarball.
BeginPack(p) ==
    /\ job \in {"packs", "local"} /\ plan # <<>> /\ p = Head(plan)
    /\ files = <<>> /\ tally = {} /\ ~waiting
    /\ IF ManifestOk(p)
       THEN /\ files' = Manifest[p].files
            /\ UNCHANGED <<job, plan, packFailed, packExit, consumed, waiting>>
       ELSE IF job = "packs"
       THEN /\ plan' = Tail(plan)
            /\ packFailed' = TRUE
            /\ UNCHANGED <<job, files, packExit, consumed, waiting>>
       ELSE /\ job' = "none" /\ plan' = <<>> /\ packExit' = "usage"
            /\ UNCHANGED <<files, packFailed, consumed, waiting>>
    /\ UNCHANGED <<vars, tally, pending, installed, review>>

\* _ingest_yaml skips a deprecated skill ...
SkipFile ==
    /\ Working /\ files # <<>> /\ ~waiting
    /\ Head(files).deprecated
    /\ tally' = tally \cup {"deprecated"}
    /\ files' = Tail(files)
    /\ UNCHANGED <<vars, job, plan, waiting, packFailed, consumed, pending, installed, review,
                   packExit>>

\* ... and runs the ingest command on every other, with --yes.
RunFile ==
    /\ Working /\ files # <<>> /\ ~waiting
    /\ ~Head(files).deprecated
    /\ Single(Head(files), FALSE, FALSE, TRUE) \/ OpenFails
    /\ waiting' = TRUE
    /\ UNCHANGED <<job, plan, files, tally, packFailed, consumed, pending, installed, review,
                   packExit>>

\* What an exit code of the ingest command is taken for.
OutcomeOf(code) ==
    CASE code = "ok" -> "ingested"
      [] code = "duplicate" -> "duplicate"
      [] OTHER -> "failed"

FileDone ==
    /\ waiting
    /\ mode = "idle"
    /\ tally' = tally \cup {OutcomeOf(exit)}
    /\ files' = Tail(files)
    /\ waiting' = FALSE
    /\ UNCHANGED <<vars, job, plan, packFailed, consumed, pending, installed, review, packExit>>

\* The pack is recorded, whatever came of its files; install-packs counts only
\* its own refusals as failures.
RecordPack ==
    /\ Working /\ files = <<>> /\ ~waiting
    /\ tally # {}
    /\ installed' = installed \cup {[pack |-> Head(plan), remote |-> job = "remote",
                                     failures |-> "failed" \in tally]}
    /\ IF job = "packs"
       THEN plan' = Tail(plan) /\ tally' = {} /\ UNCHANGED <<job, files, waiting, packFailed, consumed, packExit>>
       ELSE EndJob(IF "failed" \in tally THEN "errors" ELSE "ok")
    /\ UNCHANGED <<vars, pending, review>>

\* The end of install-packs, after a re-embed pass whose exit code is shown only.
Finish ==
    /\ job = "packs" /\ plan = <<>>
    /\ pending' = IF consumed /\ ~packFailed THEN None ELSE pending
    /\ EndJob(IF packFailed THEN "usage" ELSE "ok")
    /\ UNCHANGED <<vars, installed, review>>

\* The pack command is killed, with the ingest command it waits for; or that
\* one takes 120 seconds, and both end.
KillJob ==
    /\ job # "none"
    /\ IF mode # "idle" /\ waiting THEN Crash ELSE UNCHANGED vars
    /\ EndJob("killed")
    /\ UNCHANGED <<pending, installed, review>>

OneMoreCommand == commands < MaxCommands /\ commands' = commands + 1

PackStart ==
    /\ OneMoreCommand
    /\ \/ \E choice \in Selected : SetupChooses(choice)
       \/ \E flag \in Selected, prompted \in Prompted, ignoreUnknown \in BOOLEAN :
             InstallPacks(flag, prompted, ignoreUnknown)
       \/ \E p \in Pack : InstallLocal(p) \/ Fetch(p)
       \/ FetchFails

PackStep ==
    /\ \/ \E p \in Pack : CopyFile(p) \/ BeginPack(p)
       \/ SkipFile \/ RunFile \/ FileDone \/ RecordPack \/ Finish \/ KillJob
    /\ UNCHANGED commands

\* The operator's own ingest, between the files of a pack as well.
ByHand ==
    /\ ~waiting
    /\ OneMoreCommand
    /\ Start \/ OpenFails
    /\ UNCHANGED jobVars

IngestSteps == (Work \/ Crash) /\ UNCHANGED packVars

PackNext == PackStart \/ PackStep \/ ByHand \/ IngestSteps

PackSpec == PackInit /\ [][PackNext]_allVars
-----------------------------------------------------------------------------
(* Properties. *)

\* What the pack commands leave behind when nothing fails: whole skills, and ids
\* that a forced load may take.
PacksWhole == PackTypeOK /\ WholeWhenIdle /\ ForceOverwrites

\* A plan holds every pack once, with the packs that are always on and all that
\* any of them needs, each after what it needs, unless they need each other.
PlanOrdered ==
    [][job = "none" /\ job' = "packs" =>
         /\ AlwaysOn \subseteq {plan'[i] : i \in DOMAIN plan'}
         /\ \A i, j \in DOMAIN plan' : plan'[i] = plan'[j] => i = j
         /\ \A i \in DOMAIN plan' : \A q \in Needs(plan'[i]) :
              \E j \in DOMAIN plan' : plan'[j] = q /\ (j < i \/ plan'[i] \in Closed({q}))]_allVars

\* A skill that is there in part, and is not about to be deleted and made again.
Broken(s) ==
    /\ skill[s] # None
    /\ ~\E r \in Review : r.id = s /\ Loaded(r)
    /\ current # None /\ current.id = s => step = "skill"

\* No pack command, nor anything but ingest --force, repairs it: it counts as a
\* duplicate, and install-packs reports the pack as installed.
RepairedByForceOnly == [][\A s \in Skill : Broken(s) => Broken(s)' \/ force']_allVars

FilesOf(p) == {Manifest[p].files[i] : i \in DOMAIN Manifest[p].files}

\* An install of a remote pack that was cut short: a file of it is in
\* pending-review, among those still to be copied if it is being fetched again.
CutShort(p) ==
    /\ FilesOf(p) \cap review # {}
    /\ ~\E r \in installed : r.pack = p /\ r.remote
    /\ job = "fetch" /\ Head(plan) = p => \E i \in DOMAIN files : files[i] \in review
    /\ job = "remote" => Head(plan) # p

\* It cannot be installed any more: every attempt meets its own files.
CutShortForGood == [][\A p \in Pack \ Local : CutShort(p) => CutShort(p)']_allVars
=============================================================================
