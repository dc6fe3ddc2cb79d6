-------------------------------- MODULE Wiring --------------------------------
(***************************************************************************)
(* Wiring the coding harnesses to agentalloy and taking the wiring out     *)
(* again: `wire' and `wire-harness' (install/subcommands/wire_harness.py), *)
(* `unwire' and `uninstall' (unwire.py, uninstall.py, uninstall_proxy.py), *)
(* while the user goes on editing the same files.                          *)
(*                                                                         *)
(* A wiring command writes the files of a harness one by one and then adds *)
(* an entry for each to install-state.json, which is all that the removing *)
(* commands know.  One command runs at a time; it can be killed between    *)
(* any two writes.  Continue and Cline, whose files are JSON, and the MCP  *)
(* variants are not in this module.                                        *)
(***************************************************************************)
EXTENDS SharedText

CONSTANTS
    Repo,           \* repositories of the user
    Home,           \* the user's home directory
    None,           \* no file; no entry; nothing recorded
    Harness,        \* the harnesses the user works with
    FirstLine,      \* what the user's files hold before everything
    MaxCommands,    \* bound: commands the user runs
    MaxEdits,       \* bound: edits of the one file the user edits
    MaxTurns        \* bound: commands and edits together

Harnesses == {"gemini-cli", "github-copilot", "windsurf", "cursor", "opencode",
              "aider", "claude-code", "hermes-agent", "cline"}

\* An entry, with the hash standing for what was hashed.
Entry == [sha : Text, original : Text \cup {None}]

ASSUME WiringAssumption ==
    /\ Home \notin Repo
    /\ Harness \subseteq Harnesses
    /\ FirstLine \in UserLine
    /\ None \notin Text \cup Entry
    /\ MaxCommands \in Nat /\ MaxEdits \in Nat /\ MaxTurns \in Nat

Place == Repo \cup {Home}

\* The files of a harness.  windsurf is taken in a repository without a
\* .windsurf directory and cursor in one with a .cursor directory.
Names(harness, mode, scope) ==
    CASE harness = "gemini-cli" -> <<"GEMINI.md">>
      [] harness = "github-copilot" -> <<".github/copilot-instructions.md">>
      [] harness = "windsurf" -> <<".windsurfrules">>
      [] harness = "cursor" -> <<".cursor/rules/agentalloy.mdc">>
      [] harness = "opencode" ->
            IF mode = "proxy"
            THEN <<".opencode/.agentalloy-env", ".opencode/system-prompt.md">>
            ELSE <<".opencode/system-prompt.md">>
      [] harness = "aider" ->
            IF mode = "proxy" THEN <<".aider.conf.yml">>
            ELSE <<".agentalloy-aider-instructions.md", ".aider.conf.yml">>
      [] harness = "claude-code" ->
            IF mode = "proxy" THEN <<".agentalloy/claude-code-env.sh">>
            ELSE <<"CLAUDE.md">>
      [] harness = "hermes-agent" ->
            IF scope = "repo" THEN <<"AGENTS.md">>
            ELSE IF mode = "proxy" THEN <<".hermes/config.yaml">>
            ELSE <<".hermes/SOUL.md">>
      [] harness = "cline" -> <<".clinerules">>

Name == {"GEMINI.md", ".github/copilot-instructions.md", ".windsurfrules",
         ".cursor/rules/agentalloy.mdc", ".opencode/.agentalloy-env",
         ".opencode/system-prompt.md", ".aider.conf.yml",
         ".agentalloy-aider-instructions.md", ".agentalloy/claude-code-env.sh",
         "CLAUDE.md", "AGENTS.md", ".hermes/config.yaml", ".hermes/SOUL.md",
         ".clinerules"}

\* Always under the home directory, whatever the root of the command.
AtHome == {".agentalloy/claude-code-env.sh", ".hermes/config.yaml"}

\* Files that are agentalloy's alone: written whole.
Dedicated == {".cursor/rules/agentalloy.mdc", ".opencode/.agentalloy-env",
              ".agentalloy-aider-instructions.md"}

\* Shared files whose block is put in by code of their own, without the
\* checks that _inject_sentinel_block and the legacy mode make.
Config == {".aider.conf.yml", ".hermes/config.yaml",
           ".agentalloy/claude-code-env.sh"}

Markdown == Name \ (Dedicated \cup Config)

\* Entries that say the file is new.
NewFile == Dedicated \cup {".agentalloy/claude-code-env.sh"}

\* allowed_path_suffixes of uninstall: .windsurfrules ends in none of them,
\* nor do the files of Copilot and Hermes and opencode's environment file.
Allowed == {"CLAUDE.md", "GEMINI.md", ".clinerules",
            ".cursor/rules/agentalloy.mdc", ".aider.conf.yml",
            ".agentalloy-aider-instructions.md", ".opencode/system-prompt.md",
            ".agentalloy/claude-code-env.sh"}

FileAt(root, name) ==
    [place |-> IF name \in AtHome THEN Home ELSE root, name |-> name]

Scope == {"user", "repo"}

\* The files the user's harnesses can have.
File == {FileAt(root, name) : root \in Place,
            name \in {n \in Name : \E harness \in Harness, mode \in Body, scope \in Scope :
                        \E i \in DOMAIN Names(harness, mode, scope) :
                            n = Names(harness, mode, scope)[i]}}

\* Those under allowed_user_prefixes: ~/.cursor and ~/.agentalloy.
UserPrefixed ==
    {f \in File :
        /\ f.place = Home
        /\ f.name \in {".cursor/rules/agentalloy.mdc",
                        ".agentalloy/claude-code-env.sh"}}

VARIABLES
    files,      \* files[f]: the text of f, or None
    entries,    \* entries[f]: f's entry in harness_files_written, or None
    command,    \* the command that runs, with its options
    todo,       \* the files it has still to write
    left,       \* the files whose entries it has still to examine
    staged,     \* the entries it has made and not saved
    handled,    \* the files it has restored or cleaned through their entries
    untracked,  \* files a killed, refused or removing command left behind
    commands,   \* commands so far
    edits       \* edits[f]: edits of f so far

run == <<command, todo, left, staged, handled, commands>>
vars == <<files, entries, run, untracked, edits>>

Idle == [step |-> "idle"]

Wire == [step : {"write"}, mode : Body, force : BOOLEAN]

\* unwire; uninstall; uninstall --no-all-repos; uninstall --preset keep-data.
Removal == [step : {"examine", "forget"}, root : Repo,
            all : BOOLEAN, forget : BOOLEAN, force : BOOLEAN]

Nothing == [f \in File |-> None]

\* The shared files either do not exist or hold one line of the user's.
Init ==
    /\ \E first \in {None, <<FirstLine, NL>>} :
        files = [f \in File |-> IF f.name \in Dedicated THEN None ELSE first]
    /\ entries = Nothing
    /\ command = Idle
    /\ todo = <<>> /\ left = {} /\ staged = Nothing /\ handled = {}
    /\ untracked = {} /\ commands = 0
    /\ edits = [f \in File |-> 0]

-----------------------------------------------------------------------------
(* The user, who edits between the commands *)

Put(f, i, pieces) ==
    files' = [files EXCEPT ![f] = SubSeq(@, 1, i) \o pieces \o After(@, i)]

\* A line between two others, or at the end.
AddLine(f, i, line) ==
    IF i = 0 \/ files[f][i] = NL THEN Put(f, i, <<line, NL>>)
    ELSE i = Len(files[f]) /\ Put(f, i, <<NL, line, NL>>)

\* Blank lines, anywhere: enough of them for the code to take some away.
Break(f, i) == Put(f, i, <<NL, NL, NL>>)

\* The line that begins at i, with the newline that ends it.
DropLine(f, i) ==
    /\ i > 1 => files[f][i - 1] = NL
    /\ \E e \in i..Len(files[f]) :
        /\ Unbroken(files[f], i, e - 1)
        /\ e < Len(files[f]) => files[f][e] = NL
        /\ files' = [files EXCEPT ![f] = Before(@, i) \o After(@, e)]

\* The bounds: all edits are of one file.
EditsLeft(f) ==
    /\ edits[f] < MaxEdits /\ edits[f] + commands < MaxTurns
    /\ \A g \in File \ {f} : edits[g] = 0

Edit ==
    /\ command = Idle
    /\ \E f \in File :
        /\ files[f] # None /\ EditsLeft(f)
        /\ \/ \E i \in 0..Len(files[f]) :
                \/ \E line \in UserLine \ {FirstLine} : AddLine(f, i, line)
                \/ Break(f, i)
           \/ \E i \in DOMAIN files[f] : DropLine(f, i)
        /\ edits' = [edits EXCEPT ![f] = @ + 1]
    /\ UNCHANGED <<entries, run, untracked>>

-----------------------------------------------------------------------------
(* wire, wire-harness *)

\* Where a command ends without saving, what it has written is untracked.
Leave(behind) == untracked' = untracked \cup behind

End ==
    /\ command' = Idle
    /\ todo' = <<>> /\ left' = {} /\ staged' = Nothing /\ handled' = {}
    /\ UNCHANGED commands

Staged == {f \in File : staged[f] # None}

CommandsLeft ==
    /\ command = Idle /\ commands < MaxCommands
    /\ \A f \in File : edits[f] + commands < MaxTurns

\* wire-harness --scope user works in the home directory, --scope repo in the
\* repository; wire, which has neither --scope nor --legacy, in the repository.
\* The proxy mode does not look at --force.
StartWire(root, harness, mode, scope, force) ==
    /\ CommandsLeft
    /\ root = Home => scope = "user"
    /\ root \in Repo /\ scope = "user" => mode = "proxy"
    /\ command' = [step |-> "write", mode |-> mode,
                   force |-> force /\ mode = "legacy"]
    /\ todo' = [i \in DOMAIN Names(harness, mode, scope) |->
                    FileAt(root, Names(harness, mode, scope)[i])]
    /\ commands' = commands + 1
    /\ UNCHANGED <<files, entries, left, staged, handled, untracked, edits>>

Existing(f) == IF files[f] = None THEN <<>> ELSE files[f]

\* Mutant: the edits are compared with nothing.
NeverEdited(f) == FALSE

\* The tamper check of _wire_legacy.
Edited(f) ==
    /\ command.mode = "legacy" /\ ~command.force
    /\ f.name \in Markdown
    /\ files[f] # None /\ entries[f] # None
    /\ HasBoth(files[f])
    /\ Inner(files[f]) # entries[f].sha

\* What makes a write stop the command: the checks, and in _wire_aider_conf
\* the ValueError of a BEGIN without an END.
Refused(f) ==
    \/ Edited(f)
    \/ f.name \in Markdown /\ Duplicates(Existing(f))
    \/ /\ f.name = ".aider.conf.yml" /\ command.mode = "legacy"
       /\ Has(Existing(f), "BEGIN") /\ ~Has(Existing(f), "END")

\* What _build_result will record: the hash of the body, or of the whole block,
\* and the text the file had, except for opencode's environment file.
EntryFor(f, body) ==
    [sha |-> IF f.name \in Config THEN Block(body) ELSE <<body>>,
     original |-> IF f.name = ".opencode/.agentalloy-env" THEN None
                  ELSE files[f]]

\* Before a block that is appended: _inject_sentinel_block leaves a blank line.
Gap(f) == IF f.name \in Config THEN <<>> ELSE <<NL>>

Write ==
    /\ command.step = "write" /\ todo # <<>>
    /\ LET f == Head(todo) IN
        /\ ~Refused(f)
        /\ files' = [files EXCEPT ![f] =
                IF f.name \in Dedicated THEN <<command.mode>>
                ELSE Injected(Existing(f), command.mode, Gap(f))]
        /\ staged' = [staged EXCEPT ![f] = EntryFor(f, command.mode)]
    /\ todo' = Tail(todo)
    /\ UNCHANGED <<entries, command, left, handled, untracked, commands, edits>>

Refuse ==
    /\ command.step = "write" /\ todo # <<>>
    /\ Refused(Head(todo))
    /\ Leave({f \in Staged : entries[f] = None})
    /\ End
    /\ UNCHANGED <<files, entries, edits>>

\* Mutant: the list of this command replaces the list of the earlier ones.
MergedOver(f) == staged[f]

\* The entry after _build_result: the new one in place of the prior one, whose
\* original is kept only when the new one has none.
Merged(f) ==
    IF staged[f] = None THEN entries[f]
    ELSE IF staged[f].original = None /\ entries[f] # None
    THEN [staged[f] EXCEPT !.original = entries[f].original]
    ELSE staged[f]

Record ==
    /\ command.step = "write" /\ todo = <<>>
    /\ entries' = [f \in File |-> Merged(f)]
    /\ untracked' = untracked \ Staged
    /\ End
    /\ UNCHANGED <<files, edits>>

\* A command is killed after some of its writes.
Killed ==
    /\ Staged # {} \/ handled # {}
    /\ Leave({f \in Staged : entries[f] = None})
    /\ End
    /\ UNCHANGED <<files, entries, edits>>

-----------------------------------------------------------------------------
(* unwire, uninstall *)

Recorded == {f \in File : entries[f] # None}

\* unwire keeps the state, and so does uninstall --preset keep-data.
StartRemoval(root, all, forget, force) ==
    /\ CommandsLeft
    /\ command' = [step |-> "examine", root |-> root, all |-> all,
                   forget |-> forget, force |-> force]
    /\ left' = Recorded
    /\ commands' = commands + 1
    /\ UNCHANGED <<files, entries, todo, staged, handled, untracked, edits>>

\* Mutant: an entry of any repository will do.
AuthorisedAnywhere(f) == f.name \in Allowed

\* The suffix and containment checks.
Authorised(f) ==
    /\ f.name \in Allowed
    /\ command.all \/ f.place = command.root \/ f \in UserPrefixed

\* The text after the entry's turn in the loop; the text itself when the loop
\* warns and passes on.
Outcome(f) ==
    LET text == files[f] IN
    IF ~Authorised(f) \/ text = None THEN text
    ELSE IF entries[f].original # None THEN entries[f].original
    ELSE IF f.name \in NewFile THEN None
    ELSE IF ~HasBoth(text) THEN IF command.force THEN None ELSE text
    ELSE IF Inner(text) # entries[f].sha /\ ~command.force THEN text
    ELSE LET stripped == Stripped(text) IN
         IF Empty(stripped) THEN None ELSE stripped

\* Whether the loop restores, cleans or deletes the file.
Handles(f) ==
    /\ Authorised(f) /\ files[f] # None
    /\ \/ entries[f].original # None
       \/ f.name \in NewFile
       \/ command.force
       \/ HasBoth(files[f]) /\ Inner(files[f]) = entries[f].sha

Examine ==
    /\ command.step = "examine"
    /\ \E f \in left :
        /\ files' = [files EXCEPT ![f] = Outcome(f)]
        /\ handled' = IF Handles(f) THEN handled \cup {f} ELSE handled
        /\ left' = left \ {f}
    /\ UNCHANGED <<entries, command, todo, staged, untracked, commands, edits>>

\* _unwire_proxy_aider and _unwire_proxy_opencode, for the files of the root
\* the command runs in; _unwire_proxy_hermes_agent and
\* _unwire_proxy_claude_code, for those at home and only for uninstall.
CleanedAider(f) ==
    LET conf == FileAt(command.root, ".aider.conf.yml") IN
    IF conf \in handled \/ files[conf] = None THEN files[f]
    ELSE IF f = conf THEN LineStripped(files[f])
    ELSE None

EmptyDeleted(text) ==
    LET stripped == LineStripped(text) IN
    IF Empty(stripped) /\ stripped # text THEN None ELSE stripped

CleanedOpencode(f) ==
    LET env == FileAt(command.root, ".opencode/.agentalloy-env")
        prompt == FileAt(command.root, ".opencode/system-prompt.md") IN
    IF {env, prompt} \cap handled # {} THEN files[f]
    ELSE IF f = env THEN None
    ELSE EmptyDeleted(files[f])

CleanedAtHome(f) ==
    IF ~command.all \/ f \in handled THEN files[f]
    ELSE IF f.name = ".hermes/config.yaml" THEN LineStripped(files[f])
    ELSE EmptyDeleted(files[f])

Cleaned(f) ==
    IF files[f] = None THEN None
    ELSE IF f.place = command.root
            /\ f.name \in {".aider.conf.yml", ".agentalloy-aider-instructions.md"}
    THEN CleanedAider(f)
    ELSE IF f.place = command.root
            /\ f.name \in {".opencode/.agentalloy-env",
                           ".opencode/system-prompt.md"}
    THEN CleanedOpencode(f)
    ELSE IF f.place = Home /\ f.name \in AtHome
    THEN CleanedAtHome(f)
    ELSE files[f]

Clean ==
    /\ command.step = "examine" /\ left = {}
    /\ files' = [f \in File |-> Cleaned(f)]
    /\ command' = [command EXCEPT !.step = "forget"]
    /\ UNCHANGED <<entries, todo, left, staged, handled, untracked, commands,
                   edits>>

\* The state directory goes, with the entries of the files that were passed
\* over, or everything in it stays.
Forget ==
    /\ command.step = "forget"
    /\ IF command.forget
       THEN /\ entries' = Nothing
            /\ Leave(Recorded)
       ELSE UNCHANGED <<entries, untracked>>
    /\ End
    /\ UNCHANGED <<files, edits>>

-----------------------------------------------------------------------------
Next ==
    \/ Edit
    \/ \E root \in Place, harness \in Harness, mode \in Body,
          scope \in Scope, force \in BOOLEAN :
            StartWire(root, harness, mode, scope, force)
    \/ Write \/ Refuse \/ Record
    \/ \E root \in Repo, all, forget, force \in BOOLEAN :
            StartRemoval(root, all, forget, force)
    \/ Examine \/ Clean \/ Forget
    \/ Killed

Spec == Init /\ [][Next]_vars

-----------------------------------------------------------------------------
(* Properties *)

\* The types of the variables, and what each command leaves alone: entries are
\* only in the making while files are written, and files only examined by a
\* command that removes.
WiringTypeOK ==
    /\ files \in [File -> Text \cup {None}]
    /\ entries \in [File -> Entry \cup {None}]
    /\ staged \in [File -> Entry \cup {None}]
    /\ command \in {Idle} \cup Wire \cup Removal
    /\ todo \in Seq(File)
    /\ left \subseteq Recorded /\ handled \subseteq File /\ untracked \subseteq File
    /\ commands \in 0..MaxCommands /\ edits \in [File -> 0..MaxEdits]
    /\ command \notin Wire => todo = <<>> /\ staged = Nothing
    /\ command \notin Removal => left = {} /\ handled = {}

\* Our lines are only in files that install-state.json lists or is about to,
\* unless a command was killed, refused or told to forget the state with
\* those files in its hands: wiring one repository never loses track of
\* another.
Tracked ==
    \A f \in File :
        files[f] # None /\ Ours(files[f]) # {} =>
            \/ entries[f] # None
            \/ staged[f] # None
            \/ f \in untracked

\* What the state file knows, between commands and in the middle of them.
WiringSound == WiringTypeOK /\ Tracked

\* A shared file never gets two blocks, whatever the user deletes:
\* _inject_sentinel_block refuses before that, as a second pair could not be
\* removed any more.
OneBlock ==
    \A f \in File :
        f.name \in Markdown /\ files[f] # None =>
            Cardinality(Pairs(files[f])) <= 1

\* A command, not the user, changes a file that we share with the user.
Changes(f) ==
    /\ edits' = edits
    /\ f.name \in Markdown
    /\ files[f] # None /\ files'[f] # files[f]

\* Wiring leaves what the user wrote around the block as it is, every line on
\* its own, in whatever state the sentinels are.  So does taking out the block
\* of a file that did not exist before wiring, without --force, but for one
\* thing: the line before the block and the line after it may run together.
SurroundingsKept ==
    [][\A f \in File :
        /\ Changes(f)
        /\ \/ command.step = "write"
           \/ /\ command.step = "examine" /\ left # {} /\ ~command.force
              /\ entries[f] # None /\ entries[f].original = None
        => KeptIn(files[f], Outside(files[f]), Existing(f)')]_vars

\* wire-harness --legacy without --force does not lose a line of the user's
\* even inside the block, in a file it has an entry for.
LegacyKeepsEdits ==
    [][\A f \in File :
        /\ Changes(f)
        /\ entries[f] # None
        /\ command.step = "write" /\ command.mode = "legacy" /\ ~command.force
        => KeptIn(files[f], Users(files[f]), Existing(f)')]_vars

\* unwire, and uninstall --no-all-repos, touch no file of another repository,
\* nor one at home but for those under the known prefixes.
UnwireStaysInRepo ==
    [][\A f \in File :
        /\ edits' = edits
        /\ command.step \in {"examine", "forget"} /\ ~command.all
        /\ f.place # command.root /\ f \notin UserPrefixed
        => files'[f] = files[f]]_vars
=============================================================================
