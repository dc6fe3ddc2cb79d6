------------------------------ MODULE PhaseFile ------------------------------
(***************************************************************************)
(* The phase file of a project, .agentalloy/phase, and everybody who       *)
(* touches it.                                                             *)
(*                                                                         *)
(*  - Requests: the proxy's evaluate_signal (api/proxy_signal.py), one per *)
(*    LLM request in flight, and the `signal evaluate-phase' command       *)
(*    (install/subcommands/signal.py), which does the same in a process of *)
(*    its own.  They read the phase, load its workflow skill, run the      *)
(*    pre-filter and the exit gates, and, when the gates are met, write    *)
(*    the next phase with _write_phase_atomic (signals/skill_loader.py).   *)
(*  - Operators: the `phase set' and `phase clear' commands                *)
(*    (install/subcommands/phase.py), which write the file in place.       *)
(*                                                                         *)
(* Nothing locks the file.  A writer that has the temporary file open      *)
(* keeps writing to the same inode after another writer has renamed it,    *)
(* so a descriptor is modelled by the name its inode has now: renaming     *)
(* phase.tmp to phase turns the descriptors of the one into descriptors of *)
(* the other, and those of the old phase into descriptors of no name.      *)
(***************************************************************************)
EXTENDS Naturals, Phases

CONSTANTS
    Request,    \* requests, in the proxy or on the command line
    Operator,   \* people at the `phase' command
    Choice,     \* the phases the operators choose from, and start from
    None        \* no file; no phase

\* Length of the name of a phase.
NameLength == [spec |-> 4, design |-> 6, build |-> 5, qa |-> 2, ship |-> 4,
               ops |-> 3, meta |-> 4, governance |-> 10]

\* The contents of a file: a phase, nothing (just truncated), or the text of one
\* phase over that of another with a longer name, which is not YAML.
Content == Phase \cup {"empty", "torn"}

Actor == Request \cup Operator

ASSUME PhaseAssumption ==
    /\ Choice \subseteq ValidPhases
    /\ None \notin Content
    /\ Request \cap Operator = {}

VARIABLES
    file,       \* what .agentalloy/phase holds, or None
    tmp,        \* what .agentalloy/phase.tmp holds, or None
    pc,         \* pc[a]: where actor a is
    fd,         \* fd[a]: what a has open for writing
    current,    \* current[a]: the phase request a read, or operator a chose
    seen,       \* history: the phases a reader could have read
    chosen      \* history: the initial phase and those set by operators

vars == <<file, tmp, pc, fd, current, seen, chosen>>

\* idle - between requests; evaluating - between _read_phase and
\* _write_phase_atomic; opened - the file is open and truncated; written - the
\* temporary file is complete, not yet renamed.
Location == {"idle", "evaluating", "opened", "written"}

\* The name of the inode a descriptor refers to; "lost" when it has none left.
Descriptor == {"closed", "phase", "tmp", "lost"}
-----------------------------------------------------------------------------
\* _read_phase: None when the file is absent, empty or malformed.
PhaseIn(c) == IF c \in Phase THEN c ELSE None

ReadPhase == PhaseIn(file)

\* What a file holding `old' may hold after the line of p is written at its
\* beginning without truncation: the tail of a longer text survives.  After a
\* name that is longer by one that is a line break, and p is read; after one that
\* is longer by more the tail begins with a piece of the name, which is not YAML.
\* Over the four lines of `phase set' the line of p ends within the first two,
\* and the rest of the second still has its colon.
Overlay(p, old) ==
    CASE old = "empty" -> {p}
      [] old = "torn"  -> {p, "torn"}
      [] OTHER -> IF NameLength[old] <= NameLength[p] + 1 THEN {p} ELSE {"torn"}

\* What the inode that actor a has open holds; nobody sees a lost one.
Held(a) == CASE fd[a] = "phase" -> file
             [] fd[a] = "tmp"   -> tmp
             [] OTHER           -> "empty"

\* Actor a leaves c in the inode it has open.
Put(a, c) ==
    /\ file' = IF fd[a] = "phase" THEN c ELSE file
    /\ tmp' = IF fd[a] = "tmp" THEN c ELSE tmp

\* The readers may have seen what the file now holds.
Observe == seen' = seen \cup ({PhaseIn(file')} \ {None})

\* The descriptors after a has closed its own and the name `phase' has gone to
\* the inode of phase.tmp, or to none.
Renamed(a) == [b \in Actor |-> CASE b = a            -> "closed"
                                 [] fd[b] = "tmp"    -> "phase"
                                 [] fd[b] = "phase"  -> "lost"
                                 [] OTHER            -> fd[b]]

Unlinked == [b \in Actor |-> IF fd[b] = "phase" THEN "lost" ELSE fd[b]]

Goto(a, l) == pc' = [pc EXCEPT ![a] = l]

Close(a) == fd' = [fd EXCEPT ![a] = "closed"]

Finish(a) == Goto(a, "idle") /\ current' = [current EXCEPT ![a] = None]

Init ==
    /\ \E p \in Choice : file = p /\ seen = {p} /\ chosen = {p}
    /\ tmp = None
    /\ pc = [a \in Actor |-> "idle"]
    /\ fd = [a \in Actor |-> "closed"]
    /\ current = [a \in Actor |-> None]
-----------------------------------------------------------------------------
(* Requests. *)

\* Mutant: a project without a phase is taken to be in the first one.
BeginRequestInSpec(r) ==
    /\ pc[r] = "idle"
    /\ Goto(r, "evaluating")
    /\ current' = [current EXCEPT ![r] = IF ReadPhase = None THEN "spec" ELSE ReadPhase]
    /\ UNCHANGED <<file, tmp, fd, seen, chosen>>

\* Step 1 of evaluate_signal.  Without a phase the request is passed through.
BeginRequest(r) ==
    /\ pc[r] = "idle"
    /\ IF ReadPhase = None
       THEN UNCHANGED <<pc, current>>
       ELSE Goto(r, "evaluating") /\ current' = [current EXCEPT ![r] = ReadPhase]
    /\ UNCHANGED <<file, tmp, fd, seen, chosen>>

\* No workflow skill for the phase, no pre-filter match, gates not met, or no
\* successor: the request writes nothing.
NoTransition(r) ==
    /\ pc[r] = "evaluating"
    /\ Finish(r)
    /\ UNCHANGED <<file, tmp, fd, seen, chosen>>

\* Mutant: the phase file is written in place.
OpenPhase(r) ==
    /\ pc[r] = "evaluating"
    /\ current[r] \in DOMAIN PhaseGraph
    /\ file' = "empty"
    /\ fd' = [fd EXCEPT ![r] = "phase"]
    /\ Goto(r, "opened")
    /\ UNCHANGED <<tmp, current, seen, chosen>>

\* The gates are met.  _write_phase_atomic opens the temporary file, whose name
\* is the same for every writer.
OpenTmp(r) ==
    /\ pc[r] = "evaluating"
    /\ current[r] \in DOMAIN PhaseGraph
    /\ tmp' = "empty"
    /\ fd' = [fd EXCEPT ![r] = "tmp"]
    /\ Goto(r, "opened")
    /\ UNCHANGED <<file, current, seen, chosen>>

\* Mutant: the successor is taken twice, by decide_transition and by its caller.
WriteTmpTwoAhead(r) ==
    /\ pc[r] = "opened"
    /\ \E c \in Overlay(PhaseGraph[PhaseGraph[current[r]]], Held(r)) : Put(r, c)
    /\ Goto(r, "written")
    /\ Observe
    /\ UNCHANGED <<fd, current, chosen>>

\* ... writes the next phase to it ...
WriteTmp(r) ==
    /\ pc[r] = "opened"
    /\ \E c \in Overlay(PhaseGraph[current[r]], Held(r)) : Put(r, c)
    /\ Goto(r, "written")
    /\ Observe
    /\ UNCHANGED <<fd, current, chosen>>

\* ... and renames it.  When another writer has renamed it already, os.replace
\* raises, which the proxy logs and the command dies of.
ReplacePhase(r) ==
    /\ pc[r] = "written"
    /\ IF tmp # None
       THEN file' = tmp /\ tmp' = None /\ fd' = Renamed(r)
       ELSE UNCHANGED <<file, tmp>> /\ Close(r)
    /\ Finish(r)
    /\ Observe
    /\ UNCHANGED chosen
-----------------------------------------------------------------------------
(* Operators. *)

\* run_phase_set(p): the file itself is opened and truncated ...
BeginSet(o, p) ==
    /\ pc[o] = "idle"
    /\ file' = "empty"
    /\ fd' = [fd EXCEPT ![o] = "phase"]
    /\ current' = [current EXCEPT ![o] = p]
    /\ Goto(o, "opened")
    /\ UNCHANGED <<tmp, seen, chosen>>

\* ... and then written.  The command writes four lines, of a length that is not
\* modelled, so over another writer's text both outcomes are possible.
EndSet(o) ==
    /\ pc[o] = "opened"
    /\ \E c \in IF Held(o) = "empty" THEN {current[o]} ELSE {current[o], "torn"} :
          Put(o, c)
    /\ chosen' = chosen \cup {current[o]}
    /\ Finish(o)
    /\ Close(o)
    /\ Observe

\* run_phase_clear.
ClearPhase(o) ==
    /\ pc[o] = "idle"
    /\ file # None
    /\ file' = None
    /\ fd' = Unlinked
    /\ UNCHANGED <<tmp, pc, current, seen, chosen>>
-----------------------------------------------------------------------------
\* The process of an actor dies, and its files are closed as they are.
Crash(a) ==
    /\ pc[a] # "idle"
    /\ Finish(a)
    /\ Close(a)
    /\ UNCHANGED <<file, tmp, seen, chosen>>

RequestStep(r) ==
    \/ BeginRequest(r) \/ NoTransition(r)
    \/ OpenTmp(r) \/ WriteTmp(r) \/ ReplacePhase(r)

OperatorStep(o) ==
    (\E p \in Choice : BeginSet(o, p)) \/ EndSet(o) \/ ClearPhase(o)

Next ==
    \/ \E r \in Request : RequestStep(r)
    \/ \E o \in Operator : OperatorStep(o)
    \/ \E a \in Actor : Crash(a)

Spec == Init /\ [][Next]_vars
-----------------------------------------------------------------------------
TypeOK ==
    /\ file \in Content \cup {None}
    /\ tmp \in Content \cup {None}
    /\ pc \in [Actor -> Location]
    /\ fd \in [Actor -> Descriptor]
    /\ current \in [Actor -> Phase \cup {None}]
    /\ seen \subseteq Phase
    /\ chosen \subseteq Phase

\* _write_phase_atomic's docstring: "concurrent writers never leave a
\* partially-written file".
NeverPartial == file \in Phase \cup {None}

\* A request that has the file to itself, and may die at any point.
AloneSound == TypeOK /\ NeverPartial

\* The phases that those in S lead to; that ship leads to ship is no way there.
Successors(S) ==
    {PhaseGraph[q] : q \in {p \in S \cap DOMAIN PhaseGraph : PhaseGraph[p] # p}}

\* Whatever the interleaving, no phase is reached without another that leads to
\* it having been the project's phase before it, unless an operator chose it:
\* the agent cannot be moved past a phase whose gates were never evaluated.
NoPhaseSkipped == seen \subseteq chosen \cup Successors(seen)

\* No readable phase, and no actor with one in its hands.
Dark == ReadPhase = None /\ \A a \in Actor : pc[a] = "idle"

\* A project that has lost its phase (cleared, or torn by two writers) gets no
\* more transitions, and no composition, until an operator sets one: requests
\* that arrive later never bring it back.
DarkUntilSet ==
    [][Dark => Dark' \/ \E o \in Operator : pc'[o] = "opened"]_vars

\* One request at a time and no operator: the file is the register.
Register == INSTANCE PhaseRegister WITH phase <- ReadPhase
ImplementsRegister == Register!Spec
=============================================================================
