------------------------------- MODULE Watcher -------------------------------
(***************************************************************************)
(* The sidecar watcher (watch/, install/subcommands/watch.py) of one       *)
(* profile and one project: processes that are started and stopped through *)
(* a pid file, the debounce timer of each, which is a thread, and the      *)
(* flushes in which such threads bring a rules file up to date.            *)
(*                                                                         *)
(* A version of the phase or of a contract is a number, 0 is none.  A file *)
(* of rules shows a version of each, or 0, and holds a version of what its *)
(* user wrote around the block, whose sentinels the user may delete.       *)
(* Events of other files below .agentalloy, which only start the timer     *)
(* again, are left out, and so are repeated events of one flush.           *)
(***************************************************************************)
EXTENDS Integers

CONSTANTS
    Pid,        \* process ids
    Thread,     \* the threads of timers that there are at once
    None,       \* no pid, no timer
    MaxWrites,  \* how many versions of the parts are written
    MaxEdits,   \* how often the user edits a rules file
    MaxStarts,  \* how many watchers and other programs are started
    MaxFaults   \* how many processes are killed, how many flushes fail

Part == {"phase", "contract"}

\* Harnesses that share their rules file with the user, and those that do not.
Harness == {"windsurf", "aider"}

Shared == {"windsurf"}

ASSUME WatcherAssumption ==
    /\ None \notin Pid \cup Thread
    /\ MaxWrites \in Nat /\ MaxEdits \in Nat
    /\ MaxStarts \in Nat /\ MaxFaults \in Nat

VARIABLES
    disk,     \* the versions in .agentalloy
    writer,   \* who is writing a part
    rules,    \* the rules file of each harness
    pidfile,  \* the pid in the file of the profile
    proc,     \* what a process is doing
    harness,  \* the harness it was started for
    inbox,    \* the events the observer has not dispatched yet
    pending,  \* _pending_events
    timer,    \* _debounce_timer
    thread,   \* the threads of the timers
    newest,   \* history: the last version of each part
    edits,    \* history: how often the user edited
    starts,   \* history: how many programs were started
    faults,   \* history: how many faults there were
    raced,    \* history: two starts overlapped
    left,     \* history: a watcher died and left its pid file
    edited,   \* history: the user edited what a flush had already read
    cut,      \* history: the last edit left text below a BEGIN without its END
    excuse    \* history: why the rules may show what is no longer on disk

project == <<disk, writer, newest>>
files == <<rules, edits, edited, cut>>
processes == <<pidfile, proc, harness, starts, raced, left>>
handlers == <<inbox, pending, timer, thread>>
vars == <<project, files, processes, handlers, faults, excuse>>

Nothing == [p \in Part |-> 0]

Idle == [of |-> None, at |-> "free", events |-> {}, content |-> Nothing, text |-> 0,
         marks |-> "none"]

Stage == {"free", "waiting", "fired", "taken", "composing", "ready", "truncated"}

\* "stale": a version may have been missed.  "torn": flushes overlapped, or a
\* process ended while the file was truncated.
Excuse == {"none", "stale", "torn"}

\* The sentinels of a rules file: none; one block; an END without a BEGIN before
\* it; a BEGIN without an END, the user's text above or below it; and the same
\* with a block appended to it.
Marks == {"none", "whole", "end", "open", "openText", "twice", "twiceText"}

RulesFile == [shows : [Part -> 0 .. MaxWrites], text : 0 .. MaxEdits, marks : Marks]

Empty == [shows |-> Nothing, text |-> 0, marks |-> "none"]

TypeOK ==
    /\ disk \in [Part -> 0 .. MaxWrites]
    /\ newest \in [Part -> 0 .. MaxWrites]
    /\ writer \in [Part -> {"none", "direct", "temp"}]
    /\ rules \in [Harness -> RulesFile]
    /\ pidfile \in Pid \cup {None}
    /\ proc \in [Pid -> {"free", "other", "checked", "noted", "up", "signalled", "ending"}]
    /\ harness \in [Pid -> Harness \cup {None}]
    /\ inbox \in [Pid -> SUBSET Part]
    /\ pending \in [Pid -> SUBSET Part]
    /\ timer \in [Pid -> Thread \cup {None}]
    /\ thread \in [Thread -> [of : Pid \cup {None}, at : Stage, events : SUBSET Part,
                              content : [Part -> 0 .. MaxWrites], text : 0 .. MaxEdits,
                              marks : Marks]]
    /\ edits \in 0 .. MaxEdits /\ starts \in 0 .. MaxStarts /\ faults \in 0 .. MaxFaults
    /\ raced \in BOOLEAN /\ left \in BOOLEAN
    /\ edited \in [Harness -> BOOLEAN] /\ cut \in [Harness -> BOOLEAN]
    /\ excuse \in [Harness -> Excuse]

Init ==
    /\ disk = Nothing /\ newest = Nothing
    /\ writer = [p \in Part |-> "none"]
    /\ rules = [h \in Harness |-> Empty]
    /\ pidfile = None
    /\ proc = [w \in Pid |-> "free"]
    /\ harness = [w \in Pid |-> None]
    /\ inbox = [w \in Pid |-> {}] /\ pending = [w \in Pid |-> {}]
    /\ timer = [w \in Pid |-> None]
    /\ thread = [t \in Thread |-> Idle]
    /\ edits = 0 /\ starts = 0 /\ faults = 0
    /\ raced = FALSE /\ left = FALSE
    /\ edited = [h \in Harness |-> FALSE] /\ cut = [h \in Harness |-> FALSE]
    /\ excuse = [h \in Harness |-> "none"]

-----------------------------------------------------------------------------
\* Who writes what is watched, and what the observer is told of it.

\* The observer runs from "up" until the process winds down.
Observing(w) == proc[w] \in {"up", "signalled"}

Watched(h) == \E w \in Pid : Observing(w) /\ harness[w] = h

Notify(p) == [w \in Pid |-> IF Observing(w) THEN inbox[w] \cup {p} ELSE inbox[w]]

Stale(H) ==
    [h \in Harness |-> IF h \in H /\ excuse[h] = "none" THEN "stale" ELSE excuse[h]]

Unwatched == {h \in Harness : ~Watched(h)}

Written == newest["phase"] + newest["contract"]

\* write_text truncates the file first: whoever reads now finds nothing in it.
WriteBegins(p) ==
    /\ writer[p] = "none" /\ Written < MaxWrites
    /\ writer' = [writer EXCEPT ![p] = "direct"]
    /\ disk' = [disk EXCEPT ![p] = 0]
    /\ inbox' = Notify(p)
    /\ UNCHANGED <<newest, files, processes, pending, timer, thread, faults, excuse>>

WriteEnds(p) ==
    /\ writer[p] = "direct"
    /\ writer' = [writer EXCEPT ![p] = "none"]
    /\ newest' = [newest EXCEPT ![p] = @ + 1]
    /\ disk' = [disk EXCEPT ![p] = newest[p] + 1]
    /\ inbox' = Notify(p)
    /\ excuse' = Stale(Unwatched)
    /\ UNCHANGED <<files, processes, pending, timer, thread, faults>>

\* _write_phase_atomic: the events are those of phase.tmp, ...
TempWritten ==
    /\ writer["phase"] = "none" /\ Written < MaxWrites
    /\ writer' = [writer EXCEPT !["phase"] = "temp"]
    /\ inbox' = Notify("phase")
    /\ excuse' = Stale(Unwatched)
    /\ UNCHANGED <<disk, newest, files, processes, pending, timer, thread, faults>>

\* ... and the handler does not listen to the file being moved.
TempReplaces ==
    /\ writer["phase"] = "temp"
    /\ writer' = [writer EXCEPT !["phase"] = "none"]
    /\ newest' = [newest EXCEPT !["phase"] = @ + 1]
    /\ disk' = [disk EXCEPT !["phase"] = newest["phase"] + 1]
    /\ excuse' = Stale(Unwatched)
    /\ UNCHANGED <<files, processes, handlers, faults>>

\* Nor does it listen to a file being deleted.
Delete(p) ==
    /\ writer[p] = "none" /\ disk[p] # 0
    /\ disk' = [disk EXCEPT ![p] = 0]
    /\ UNCHANGED <<writer, newest, files, processes, handlers, faults, excuse>>

\* The harness whose rules a thread of a timer brings up to date.
RulesOf(t) == IF thread[t].of = None THEN None ELSE harness[thread[t].of]

\* The user writes in a file that is shared with the watcher, outside the block,
\* and may delete the block, or one of its sentinels.
Edit(h) ==
    /\ h \in Shared
    /\ edits < MaxEdits
    /\ edits' = edits + 1
    /\ \E marks \in IF rules[h].marks = "none" THEN {"none"}
                    ELSE {rules[h].marks, "none", "whole", "end", "open", "openText"} :
          /\ rules' = [rules EXCEPT ![h] =
                [shows |-> IF marks = "none" THEN Nothing ELSE rules[h].shows,
                 text |-> edits + 1, marks |-> marks]]
          /\ cut' = [cut EXCEPT ![h] = marks \in {"openText", "twiceText"}]
    /\ edited' = [edited EXCEPT ![h] = @ \/ \E t \in Thread :
                      RulesOf(t) = h /\ thread[t].at \in {"ready", "truncated"}]
    /\ UNCHANGED <<project, processes, handlers, faults, excuse>>

-----------------------------------------------------------------------------
\* The debounce timer.

\* Cancelling has no effect on a thread that is past its wait.
Cancelled(w) ==
    [t \in Thread |-> IF t = timer[w] /\ thread[t].at = "waiting" THEN Idle ELSE thread[t]]

Started(w) == [Idle EXCEPT !.of = w, !.at = "waiting"]

\* Mutant: an event that comes while the process is flushing is dropped.
ScheduleWhenIdle(w, p) ==
    /\ p \in inbox[w]
    /\ inbox' = [inbox EXCEPT ![w] = @ \ {p}]
    /\ \/ /\ \E t \in Thread : thread[t].of = w /\ thread[t].at \notin {"waiting", "fired"}
          /\ UNCHANGED <<pending, timer, thread>>
       \/ /\ \A t \in Thread : thread[t].of = w => thread[t].at \in {"waiting", "fired"}
          /\ pending' = [pending EXCEPT ![w] = @ \cup {p}]
          /\ \E t \in Thread :
                 /\ Cancelled(w)[t].at = "free"
                 /\ timer' = [timer EXCEPT ![w] = t]
                 /\ thread' = [Cancelled(w) EXCEPT ![t] = Started(w)]
    /\ UNCHANGED <<project, files, processes, faults, excuse>>

Schedule(w, p) ==
    /\ p \in inbox[w]
    /\ inbox' = [inbox EXCEPT ![w] = @ \ {p}]
    /\ pending' = [pending EXCEPT ![w] = @ \cup {p}]
    /\ \E t \in Thread :
           /\ Cancelled(w)[t].at = "free"
           /\ timer' = [timer EXCEPT ![w] = t]
           /\ thread' = [Cancelled(w) EXCEPT ![t] = Started(w)]
    /\ UNCHANGED <<project, files, processes, faults, excuse>>

Fire(t) ==
    /\ thread[t].at = "waiting"
    /\ thread' = [thread EXCEPT ![t].at = "fired"]
    /\ UNCHANGED <<project, files, processes, inbox, pending, timer, faults, excuse>>

-----------------------------------------------------------------------------
\* _flush, which holds the lock only while it takes the events.

Working == {"taken", "composing", "ready", "truncated"}

Overlaps(t) ==
    \E u \in Thread \ {t} : RulesOf(u) = RulesOf(t) /\ thread[u].at \in Working

Take(w, t) ==
    /\ thread[t].of = w /\ thread[t].at = "fired"
    /\ pending' = [pending EXCEPT ![w] = {}]
    /\ timer' = [timer EXCEPT ![w] = None]
    /\ thread' = [thread EXCEPT ![t] =
          IF pending[w] = {} THEN Idle ELSE [@ EXCEPT !.at = "taken", !.events = pending[w]]]
    /\ excuse' = IF pending[w] # {} /\ Overlaps(t)
                 THEN [excuse EXCEPT ![RulesOf(t)] = "torn"] ELSE excuse
    /\ UNCHANGED <<project, files, processes, inbox, faults>>

\* What a flush finds of a part that an event named.
Found(t, p) == IF p \in thread[t].events THEN disk[p] ELSE 0

\* The phase is dealt with; the contract comes next.
Loaded(t, content) ==
    [thread[t] EXCEPT !.at = "composing", !.events = thread[t].events \ {"phase"},
                      !.content = content]

LoadPhase(t) ==
    /\ thread[t].at = "taken"
    /\ thread' = [thread EXCEPT ![t] =
          Loaded(t, [thread[t].content EXCEPT !["phase"] = Found(t, "phase")])]
    /\ excuse' = IF "phase" \in thread[t].events /\ writer["phase"] = "temp"
                 THEN Stale({RulesOf(t)}) ELSE excuse
    /\ UNCHANGED <<project, files, processes, inbox, pending, timer, faults>>

\* What becomes of a flush when its content is known: one that found nothing
\* ends, another reads the rules file (update_block).
Regenerates(t, content) ==
    IF content = Nothing THEN Idle
    ELSE [thread[t] EXCEPT !.at = "ready", !.events = {}, !.content = content,
                           !.text = rules[RulesOf(t)].text, !.marks = rules[RulesOf(t)].marks]

\* A subprocess composes the contract.
Compose(t) ==
    /\ thread[t].at = "composing"
    /\ thread' = [thread EXCEPT ![t] =
          Regenerates(t, [thread[t].content EXCEPT !["contract"] = Found(t, "contract")])]
    /\ UNCHANGED <<project, files, processes, inbox, pending, timer, faults, excuse>>

\* No prose for the phase, a compose that fails or takes more than 30 s, a
\* rules file that cannot be written: the flush goes on without it, or ends.
Fails(t) ==
    /\ faults < MaxFaults
    /\ faults' = faults + 1
    /\ \/ /\ thread[t].at = "taken"
          /\ thread' = [thread EXCEPT ![t] = Loaded(t, thread[t].content)]
       \/ /\ thread[t].at = "composing"
          /\ thread' = [thread EXCEPT ![t] = Regenerates(t, thread[t].content)]
       \/ /\ thread[t].at = "ready"
          /\ thread' = [thread EXCEPT ![t] = Idle]
    /\ excuse' = Stale({RulesOf(t)})
    /\ UNCHANGED <<project, files, processes, inbox, pending, timer>>

\* The rules file is truncated, ...
Truncate(t) ==
    /\ thread[t].at = "ready"
    /\ thread' = [thread EXCEPT ![t].at = "truncated"]
    /\ rules' = [rules EXCEPT ![RulesOf(t)] = Empty]
    /\ UNCHANGED <<project, edits, edited, cut, processes, inbox, pending, timer, faults, excuse>>

\* Mutant: the file is taken for the watcher's own.
RegeneratedWhole(t) == [shows |-> thread[t].content, text |-> 0, marks |-> "none"]

\* Where both sentinels are there, the block takes the place of what is between
\* the first BEGIN and the first END; elsewhere it is appended.  An END before
\* the first BEGIN stays there.
Remarked(marks) ==
    CASE marks = "open"     -> "twice"
      [] marks = "openText" -> "twiceText"
      [] marks = "end"      -> "end"
      [] OTHER              -> "whole"

\* ... and written with the new block and what was read before and after it.
\* The files of cursor and aider are the watcher's own and written whole.
Regenerated(t) ==
    IF RulesOf(t) \in Shared
    THEN [shows |-> thread[t].content,
          text |-> IF thread[t].marks = "twiceText" THEN 0 ELSE thread[t].text,
          marks |-> Remarked(thread[t].marks)]
    ELSE [shows |-> thread[t].content, text |-> 0, marks |-> "none"]

WriteRules(t) ==
    /\ thread[t].at = "truncated"
    /\ thread' = [thread EXCEPT ![t] = Idle]
    /\ rules' = [rules EXCEPT ![RulesOf(t)] = Regenerated(t)]
    /\ UNCHANGED <<project, edits, edited, cut, processes, inbox, pending, timer, faults, excuse>>

Flush(t) ==
    \/ \E w \in Pid : Take(w, t)
    \/ LoadPhase(t)
    \/ Compose(t)
    \/ Truncate(t)
    \/ WriteRules(t)

-----------------------------------------------------------------------------
\* Mutant: a pid in the file is not looked up.
StartUnchecked(w, h) ==
    /\ starts < MaxStarts
    /\ starts' = starts + 1
    /\ proc[w] = "free"
    /\ proc' = [proc EXCEPT ![w] = "checked"]
    /\ harness' = [harness EXCEPT ![w] = h]
    /\ raced' = (raced \/ \E v \in Pid : proc[v] = "checked")
    /\ UNCHANGED <<project, files, pidfile, left, handlers, faults, excuse>>

\* watch start, watch stop, and the life of a process.

\* What a new process w finds of the pid in the file, which may be its own.
InUse(w) == pidfile # None /\ (pidfile = w \/ proc[pidfile] # "free")

\* A process that finds the pid in use ends at once.
Start(w, h) ==
    /\ starts < MaxStarts
    /\ starts' = starts + 1
    /\ proc[w] = "free"
    /\ ~InUse(w)
    /\ proc' = [proc EXCEPT ![w] = "checked"]
    /\ harness' = [harness EXCEPT ![w] = h]
    /\ raced' = (raced \/ \E v \in Pid : proc[v] = "checked")
    /\ UNCHANGED <<project, files, pidfile, left, handlers, faults, excuse>>

WritePid(w) ==
    /\ proc[w] = "checked"
    /\ proc' = [proc EXCEPT ![w] = "noted"]
    /\ pidfile' = w
    /\ UNCHANGED <<project, files, harness, starts, raced, left, handlers, faults, excuse>>

\* The observer starts and the signals are handled; nothing is regenerated.
Observe(w) ==
    /\ proc[w] = "noted"
    /\ proc' = [proc EXCEPT ![w] = "up"]
    /\ UNCHANGED <<project, files, pidfile, harness, starts, raced, left, handlers, faults, excuse>>

\* What a process that ends leaves undone: events, or the rest of a file.
Missed(w) ==
    IF \E t \in Thread : thread[t].of = w /\ thread[t].at = "truncated"
    THEN [excuse EXCEPT ![harness[w]] = "torn"]
    ELSE IF inbox[w] # {} \/ \E t \in Thread : thread[t].of = w
    THEN Stale({harness[w]})
    ELSE excuse

\* The process is gone, with its threads: those of the timers are daemons, as
\* the observer's is that starts them.
Dies(w) ==
    /\ proc' = [proc EXCEPT ![w] = "free"]
    /\ harness' = [harness EXCEPT ![w] = None]
    /\ left' = (left \/ pidfile = w)
    /\ inbox' = [inbox EXCEPT ![w] = {}]
    /\ pending' = [pending EXCEPT ![w] = {}]
    /\ timer' = [timer EXCEPT ![w] = None]
    /\ thread' = [t \in Thread |-> IF thread[t].of = w THEN Idle ELSE thread[t]]
    /\ excuse' = Missed(w)
    /\ UNCHANGED <<project, files, pidfile, starts, raced>>

\* The signal ends a program that does not handle it, whatever program it is.
Signal(w) ==
    \/ /\ proc[w] \in {"other", "checked", "noted"}
       /\ Dies(w)
       /\ UNCHANGED faults
    \/ /\ proc[w] = "up"
       /\ proc' = [proc EXCEPT ![w] = "signalled"]
       /\ UNCHANGED <<project, files, pidfile, harness, starts, raced, left, handlers, faults, excuse>>

Stop == pidfile # None /\ Signal(pidfile)

\* Ctrl-C in the terminal of the watcher.
Interrupt(w) == proc[w] # "other" /\ Signal(w)

\* The observer stops, and with it the events it has not dispatched; the pid
\* file goes, whoever's pid is in it.
WindDown(w) ==
    /\ proc[w] = "signalled"
    /\ proc' = [proc EXCEPT ![w] = "ending"]
    /\ pidfile' = None
    /\ inbox' = [inbox EXCEPT ![w] = {}]
    /\ excuse' = IF inbox[w] # {} THEN Stale({harness[w]}) ELSE excuse
    /\ UNCHANGED <<project, files, harness, starts, raced, left, pending, timer, thread, faults>>

\* The process does not wait for its timers.
Exit(w) ==
    /\ proc[w] = "ending"
    /\ Dies(w)
    /\ UNCHANGED faults

Kill(w) ==
    /\ faults < MaxFaults
    /\ faults' = faults + 1
    /\ proc[w] \notin {"free", "other"}
    /\ Dies(w)

\* Another program is given a pid.
Other(w) ==
    /\ starts < MaxStarts
    /\ starts' = starts + 1
    /\ proc[w] = "free"
    /\ proc' = [proc EXCEPT ![w] = "other"]
    /\ UNCHANGED <<project, files, pidfile, harness, raced, left, handlers, faults, excuse>>

Next ==
    \/ \E p \in Part : WriteBegins(p) \/ WriteEnds(p) \/ Delete(p)
    \/ TempWritten \/ TempReplaces
    \/ \E h \in Harness : Edit(h)
    \/ \E w \in Pid, p \in Part : Schedule(w, p)
    \/ \E t \in Thread : Fire(t) \/ Flush(t) \/ Fails(t)
    \/ \E w \in Pid, h \in Harness : Start(w, h)
    \/ \E w \in Pid : WritePid(w) \/ Observe(w) \/ Interrupt(w) \/ WindDown(w)
                      \/ Exit(w) \/ Kill(w) \/ Other(w)
    \/ Stop

Spec == Init /\ [][Next]_vars

-----------------------------------------------------------------------------
(***************************************************************************)
(* Properties.                                                             *)
(***************************************************************************)

\* _schedule, _flush: events that wait for a flush have a timer that will make
\* one, also when a flush forgot the timer that was started meanwhile.
NothingForgotten ==
    \A w \in Pid : pending[w] # {} =>
        \E t \in Thread : thread[t].of = w /\ thread[t].at \in {"waiting", "fired"}

Quiet ==
    /\ \A p \in Part : writer[p] = "none"
    /\ \A w \in Pid : inbox[w] = {}
    /\ \A t \in Thread : thread[t].at = "free"

\* watcher.py:3-6, "keeps their static rules files in sync": once all is done,
\* a phase or contract that the rules show and the disk still has is the one
\* on disk, unless flushes overlapped, one failed, the phase was read before
\* phase.tmp was moved, nobody watched, or a block without its sentinels stays
\* in the file.
QuietIsCurrent ==
    Quiet => \A h \in Harness, p \in Part :
        excuse[h] = "none" /\ rules[h].marks \in {"none", "whole"}
          /\ rules[h].shows[p] # 0 /\ disk[p] # 0 => rules[h].shows[p] = disk[p]

\* update_block, "Preserves all content outside the block": between flushes
\* what the user wrote last is in the file, unless it was written after a flush
\* had read the file, a flush read what another had truncated, or a process
\* ended with the file truncated; or the user left it below a BEGIN without its
\* END, and a later flush took it for the block, after one that appended an END.
UserTextKept ==
    \A h \in Shared :
        \/ edited[h] \/ excuse[h] = "torn"
        \/ \E t \in Thread : RulesOf(t) = h /\ thread[t].at = "truncated"
        \/ cut[h] /\ rules[h].marks = "whole"
        \/ rules[h].text = edits

\* _read_pid, run_watcher: the pid in the file is a watcher's that has not
\* ended, so that watch stop signals a watcher, unless one died without
\* removing the file.
NamedIsAlive ==
    pidfile # None /\ ~left => proc[pidfile] \in {"noted", "up", "signalled"}

\* _start: unless two starts overlapped, a watcher that runs is the one that
\* the file names, and so there is one, and watch stop reaches it.
Stoppable ==
    ~raced => \A w \in Pid : proc[w] \in {"noted", "up", "signalled"} => pidfile = w

\* What holds however flushes, starts and ends interleave.
WatcherSound == TypeOK /\ NothingForgotten /\ NamedIsAlive /\ Stoppable
=============================================================================
