---------------------------- MODULE WatcherProofs ----------------------------
(***************************************************************************)
(* The types of the watcher and its properties for any number of           *)
(* processes, timers, writes, edits and faults.  First that events which   *)
(* wait for a flush have a timer, for which the timer that _schedule       *)
(* remembers must be one that waits or has just fired, and what watch      *)
(* start and watch stop may rely on, for which no two processes may be     *)
(* between the check of the pid file and the writing of it.  Then, from    *)
(* that, what the flushes bring: the user's text, which a flush has read   *)
(* whole and will put back, and the newest versions, of which an event is  *)
(* on its way to every watcher whose rules do not show them.               *)
(***************************************************************************)
EXTENDS Watcher, TLAPS

\* A part that is being written has a version left.
WritesLeft == \A p \in Part : writer[p] # "none" => newest[p] < MaxWrites

Typed == TypeOK /\ WritesLeft

\* Only a watcher has events and timers, and it has a harness.
Owned ==
    /\ \A w \in Pid :
          \/ proc[w] \in {"free", "other"} /\ inbox[w] = {} /\ \A t \in Thread : thread[t].of # w
          \/ proc[w] \notin {"free", "other"} /\ harness[w] \in Harness
    /\ \A t \in Thread : thread[t].at # "free" => thread[t].of # None

Armed(w, t) == thread[t].of = w /\ thread[t].at \in {"waiting", "fired"}

\* _debounce_timer is a timer of this handler that no flush has taken yet.
TimerOwned == \A w \in Pid : timer[w] # None => Armed(w, timer[w])

Alive(w) == proc[w] \in {"noted", "up", "signalled"}

\* Unless starts overlapped, a process that has found no other is alone.
CheckedAlone ==
    ~raced => \A w \in Pid : proc[w] = "checked" =>
        \A v \in Pid \ {w} : ~Alive(v) /\ proc[v] # "checked"

IInv == Typed /\ Owned /\ TimerOwned /\ NothingForgotten /\ NamedIsAlive /\ CheckedAlone /\ Stoppable

-----------------------------------------------------------------------------
\* The threads are those of Idle, or changed in the fields that a step names.

ThreadType == [of : Pid \cup {None}, at : Stage, events : SUBSET Part,
               content : [Part -> 0 .. MaxWrites], text : 0 .. MaxEdits, marks : Marks]

LEMMA IdleTyped ==
    /\ Nothing \in [Part -> 0 .. MaxWrites] /\ Idle \in ThreadType
    /\ Empty \in RulesFile
  BY WatcherAssumption DEF Nothing, Idle, ThreadType, Stage, Part, Empty, RulesFile, Marks

LEMMA StaleTyped ==
    ASSUME TypeOK, NEW H PROVE Stale(H) \in [Harness -> Excuse]
  BY DEF Stale, TypeOK, Excuse

LEMMA NotifyTyped ==
    ASSUME TypeOK, NEW p \in Part PROVE Notify(p) \in [Pid -> SUBSET Part]
  BY DEF Notify, TypeOK

\* What an edit makes of the file and its sentinels.
LEMMA EditChooses ==
    ASSUME TypeOK, NEW h \in Harness, Edit(h), edits' \in 0 .. MaxEdits
    PROVE  \E marks \in Marks :
              /\ rules' = [rules EXCEPT ![h] =
                    [shows |-> IF marks = "none" THEN Nothing ELSE rules[h].shows,
                     text |-> edits', marks |-> marks]]
              /\ cut' = [cut EXCEPT ![h] = marks \in {"openText", "twiceText"}]
              /\ rules' \in [Harness -> RulesFile] /\ cut' \in [Harness -> BOOLEAN]
<1>0. rules \in [Harness -> RulesFile] /\ cut \in [Harness -> BOOLEAN]
  BY DEF TypeOK
<1>1. PICK marks \in IF rules[h].marks = "none" THEN {"none"}
                    ELSE {rules[h].marks, "none", "whole", "end", "open", "openText"} :
          /\ rules' = [rules EXCEPT ![h] =
                [shows |-> IF marks = "none" THEN Nothing ELSE rules[h].shows,
                 text |-> edits + 1, marks |-> marks]]
          /\ cut' = [cut EXCEPT ![h] = marks \in {"openText", "twiceText"}]
  BY DEF Edit
<1>2. rules[h].marks \in Marks /\ rules[h].shows \in [Part -> 0 .. MaxWrites]
  BY <1>0 DEF RulesFile
<1>3. marks \in Marks
  BY <1>2 DEF Marks
<1>4. edits' = edits + 1
  BY DEF Edit
<1> DEFINE r == [shows |-> IF marks = "none" THEN Nothing ELSE rules[h].shows,
                 text |-> edits', marks |-> marks]
<1>5. r \in RulesFile
  BY <1>2, <1>3, IdleTyped DEF RulesFile
<1>6. rules' = [rules EXCEPT ![h] = r]
  BY <1>1, <1>4
<1>7. rules' \in [Harness -> RulesFile]
  <2> HIDE DEF r
  <2> QED
    BY <1>0, <1>5, <1>6
<1> DEFINE below == marks \in {"openText", "twiceText"}
<1>8. below \in BOOLEAN /\ cut' = [cut EXCEPT ![h] = below]
  BY <1>1
<1>9. cut' \in [Harness -> BOOLEAN]
  <2> HIDE DEF below
  <2> QED
    BY <1>0, <1>8
<1> QED
  BY <1>1, <1>3, <1>4, <1>7, <1>9

LEMMA InitTyped == Init => Typed
<1> SUFFICES ASSUME Init PROVE Typed
  OBVIOUS
<1> USE WatcherAssumption, IdleTyped DEF Init
<1>1. thread \in [Thread -> ThreadType]
  OBVIOUS
<1>2. rules \in [Harness -> RulesFile]
  OBVIOUS
<1>3. /\ disk \in [Part -> 0 .. MaxWrites] /\ newest \in [Part -> 0 .. MaxWrites]
      /\ writer \in [Part -> {"none", "direct", "temp"}]
  OBVIOUS
<1>4. /\ pidfile \in Pid \cup {None}
      /\ proc \in [Pid -> {"free", "other", "checked", "noted", "up", "signalled", "ending"}]
      /\ harness \in [Pid -> Harness \cup {None}]
      /\ inbox \in [Pid -> SUBSET Part] /\ pending \in [Pid -> SUBSET Part]
      /\ timer \in [Pid -> Thread \cup {None}]
  OBVIOUS
<1>5. /\ edits \in 0 .. MaxEdits /\ starts \in 0 .. MaxStarts /\ faults \in 0 .. MaxFaults
      /\ excuse \in [Harness -> Excuse]
  BY DEF Excuse
<1>6. /\ raced \in BOOLEAN /\ left \in BOOLEAN /\ edited \in [Harness -> BOOLEAN]
      /\ cut \in [Harness -> BOOLEAN]
  BY Zenon
<1>7. TypeOK
  BY <1>1, <1>2, <1>3, <1>4, <1>5, <1>6, Zenon DEF TypeOK, ThreadType
<1>8. WritesLeft
  BY DEF WritesLeft
<1> QED
  BY <1>7, <1>8 DEF Typed

\* Who writes the project's files keeps the types.
LEMMA WritersTyped ==
    ASSUME Typed,
           \/ \E p \in Part : WriteBegins(p) \/ WriteEnds(p) \/ Delete(p)
           \/ TempWritten \/ TempReplaces
           \/ \E h \in Harness : Edit(h)
    PROVE  Typed'
<1> USE WatcherAssumption DEF Typed
<1>1. ASSUME NEW p \in Part, WriteBegins(p) PROVE Typed'
  <2>1. newest[p] < MaxWrites
    BY <1>1 DEF WriteBegins, Written, TypeOK, Part
  <2>2. Notify(p) \in [Pid -> SUBSET Part]
    BY NotifyTyped
  <2>3. TypeOK'
    BY <1>1, <2>2 DEF WriteBegins, TypeOK, files, processes
  <2>4. WritesLeft'
    BY <1>1, <2>1 DEF WriteBegins, WritesLeft, TypeOK
  <2> QED
    BY <2>3, <2>4
<1>2. ASSUME NEW p \in Part, WriteEnds(p) PROVE Typed'
  <2>0. newest[p] \in 0 .. MaxWrites /\ newest[p] < MaxWrites
    BY <1>2 DEF WriteEnds, WritesLeft, TypeOK
  <2>1. newest[p] + 1 \in 0 .. MaxWrites
    BY <2>0
  <2>2. Notify(p) \in [Pid -> SUBSET Part] /\ Stale(Unwatched) \in [Harness -> Excuse]
    BY NotifyTyped, StaleTyped
  <2>3. TypeOK'
    BY <1>2, <2>1, <2>2 DEF WriteEnds, TypeOK, files, processes
  <2>4. WritesLeft'
    BY <1>2, <2>1 DEF WriteEnds, WritesLeft, TypeOK
  <2> QED
    BY <2>3, <2>4
<1>3. ASSUME NEW p \in Part, Delete(p) PROVE Typed'
  BY <1>3 DEF Delete, TypeOK, WritesLeft, files, processes, handlers
<1>4. ASSUME TempWritten PROVE Typed'
  <2>1. "phase" \in Part
    BY DEF Part
  <2>2. newest["phase"] < MaxWrites
    BY <1>4 DEF TempWritten, Written, TypeOK, Part
  <2>3. Notify("phase") \in [Pid -> SUBSET Part] /\ Stale(Unwatched) \in [Harness -> Excuse]
    BY <2>1, NotifyTyped, StaleTyped
  <2>4. TypeOK'
    BY <1>4, <2>1, <2>3 DEF TempWritten, TypeOK, files, processes
  <2>5. WritesLeft'
    BY <1>4, <2>2 DEF TempWritten, WritesLeft, TypeOK
  <2> QED
    BY <2>4, <2>5
<1>5. ASSUME TempReplaces PROVE Typed'
  <2>1. "phase" \in Part
    BY DEF Part
  <2>0. newest["phase"] \in 0 .. MaxWrites /\ newest["phase"] < MaxWrites
    BY <1>5, <2>1 DEF TempReplaces, WritesLeft, TypeOK
  <2>2. newest["phase"] + 1 \in 0 .. MaxWrites
    BY <2>0
  <2>3. Stale(Unwatched) \in [Harness -> Excuse]
    BY StaleTyped
  <2>4. TypeOK'
    BY <1>5, <2>2, <2>3 DEF TempReplaces, TypeOK, files, processes, handlers
  <2>5. WritesLeft'
    BY <1>5, <2>2 DEF TempReplaces, WritesLeft, TypeOK
  <2> QED
    BY <2>4, <2>5
<1>6. ASSUME NEW h \in Harness, Edit(h) PROVE Typed'
  <2>1. edits' \in 0 .. MaxEdits
    BY <1>6 DEF Edit, TypeOK
  <2>2. rules' \in [Harness -> RulesFile] /\ cut' \in [Harness -> BOOLEAN]
    BY <1>6, <2>1, EditChooses
  <2>3. edited' \in [Harness -> BOOLEAN]
    BY <1>6 DEF Edit, TypeOK
  <2> QED
    BY <1>6, <2>1, <2>2, <2>3 DEF Edit, TypeOK, WritesLeft, project, processes, handlers
<1> QED
  BY <1>1, <1>2, <1>3, <1>4, <1>5, <1>6

\* A process that ends keeps them, and leaves nothing of its handler.
LEMMA DiesTyped ==
    ASSUME Typed, NEW w \in Pid, Dies(w), faults' \in 0 .. MaxFaults PROVE Typed'
<1> USE WatcherAssumption DEF Typed
<1>1. thread' \in [Thread -> ThreadType]
  BY IdleTyped DEF Dies, TypeOK, ThreadType
<1>2. excuse' \in [Harness -> Excuse]
  BY StaleTyped DEF Dies, Missed, TypeOK, Excuse
<1>3. /\ proc' \in [Pid -> {"free", "other", "checked", "noted", "up", "signalled", "ending"}]
      /\ harness' \in [Pid -> Harness \cup {None}]
      /\ inbox' \in [Pid -> SUBSET Part] /\ pending' \in [Pid -> SUBSET Part]
      /\ timer' \in [Pid -> Thread \cup {None}]
  BY DEF Dies, TypeOK
<1>4. left' \in BOOLEAN
  BY DEF Dies, TypeOK
<1>5. UNCHANGED <<disk, writer, newest, rules, edits, edited, cut, pidfile, starts, raced>>
  BY DEF Dies, project, files
<1>6. TypeOK'
  BY <1>1, <1>2, <1>3, <1>4, <1>5 DEF TypeOK, ThreadType
<1>7. WritesLeft'
  BY <1>5 DEF WritesLeft
<1> QED
  BY <1>6, <1>7

\* A step that changes threads and the rules within their types keeps them.
LEMMA FlushTypes ==
    ASSUME Typed, thread' \in [Thread -> ThreadType],
           rules' \in [Harness -> RulesFile],
           timer' \in [Pid -> Thread \cup {None}], pending' \in [Pid -> SUBSET Part],
           inbox' \in [Pid -> SUBSET Part],
           excuse' \in [Harness -> Excuse], faults' \in 0 .. MaxFaults,
           UNCHANGED <<project, edits, edited, cut, processes>>
    PROVE  Typed'
  BY DEF Typed, TypeOK, ThreadType, WritesLeft, project, processes

\* A thread that has been started works for a harness.
LEMMA RulesOwned ==
    ASSUME Typed, Owned, NEW t \in Thread, thread[t].at # "free"
    PROVE  thread[t].of \in Pid /\ RulesOf(t) \in Harness
<1>1. thread[t].of \in Pid
  BY DEF Owned, Typed, TypeOK
<1>2. harness[thread[t].of] \in Harness
  BY <1>1 DEF Owned
<1> QED
  BY <1>1, <1>2, WatcherAssumption DEF RulesOf

\* The steps of timers and flushes keep the types.
LEMMA FlushTyped ==
    ASSUME Typed, Owned,
           \/ \E w \in Pid, p \in Part : Schedule(w, p)
           \/ \E t \in Thread : Fire(t) \/ Flush(t) \/ Fails(t)
    PROVE  Typed'
<1> USE WatcherAssumption, IdleTyped
<1>0. /\ thread \in [Thread -> ThreadType] /\ rules \in [Harness -> RulesFile]
      /\ timer \in [Pid -> Thread \cup {None}] /\ pending \in [Pid -> SUBSET Part]
      /\ inbox \in [Pid -> SUBSET Part] /\ disk \in [Part -> 0 .. MaxWrites]
      /\ excuse \in [Harness -> Excuse] /\ faults \in 0 .. MaxFaults
  BY DEF Typed, TypeOK, ThreadType
<1>1. ASSUME NEW w \in Pid, NEW p \in Part, Schedule(w, p) PROVE Typed'
  <2>1. Cancelled(w) \in [Thread -> ThreadType]
    BY <1>0 DEF Cancelled
  <2>2. Started(w) \in ThreadType
    BY DEF Started, Idle, ThreadType, Stage, Nothing
  <2>3. thread' \in [Thread -> ThreadType] /\ timer' \in [Pid -> Thread \cup {None}]
    BY <1>0, <1>1, <2>1, <2>2 DEF Schedule
  <2>4. inbox' \in [Pid -> SUBSET Part] /\ pending' \in [Pid -> SUBSET Part]
    BY <1>0, <1>1 DEF Schedule
  <2> QED
    BY <1>0, <1>1, <2>3, <2>4, FlushTypes DEF Schedule, files
<1>2. ASSUME NEW t \in Thread, Fire(t) PROVE Typed'
  <2>1. thread' \in [Thread -> ThreadType]
    BY <1>0, <1>2 DEF Fire, ThreadType, Stage
  <2> QED
    BY <1>0, <1>2, <2>1, FlushTypes DEF Fire, files
<1>3. ASSUME NEW t \in Thread, NEW w \in Pid, Take(w, t) PROVE Typed'
  <2>1. pending[w] \in SUBSET Part
    BY <1>0
  <2>2. thread' \in [Thread -> ThreadType]
    BY <1>0, <1>3, <2>1 DEF Take, ThreadType, Stage
  <2>3. excuse' \in [Harness -> Excuse]
    BY <1>0, <1>3 DEF Take, Excuse
  <2>4. timer' \in [Pid -> Thread \cup {None}] /\ pending' \in [Pid -> SUBSET Part]
    BY <1>0, <1>3 DEF Take
  <2> QED
    BY <1>0, <1>3, <2>2, <2>3, <2>4, FlushTypes DEF Take, files
<1>4. ASSUME NEW t \in Thread, LoadPhase(t) PROVE Typed'
  <2> DEFINE content == [thread[t].content EXCEPT !["phase"] = Found(t, "phase")]
  <2>1. Found(t, "phase") \in 0 .. MaxWrites
    BY <1>0 DEF Found, Part
  <2>2. content \in [Part -> 0 .. MaxWrites]
    BY <1>0, <2>1 DEF ThreadType
  <2> HIDE DEF content
  <2>3. Loaded(t, content) \in ThreadType
    BY <1>0, <2>2 DEF Loaded, ThreadType, Stage
  <2>4. thread' \in [Thread -> ThreadType]
    BY <1>0, <1>4, <2>3 DEF LoadPhase, content
  <2>5. excuse' \in [Harness -> Excuse]
    BY <1>0, <1>4, StaleTyped DEF LoadPhase, Typed
  <2> QED
    BY <1>0, <1>4, <2>4, <2>5, FlushTypes DEF LoadPhase, files
<1>5. ASSUME NEW t \in Thread, thread[t].at = "composing",
             NEW content \in [Part -> 0 .. MaxWrites]
      PROVE  Regenerates(t, content) \in ThreadType
  <2>1. rules[RulesOf(t)].text \in 0 .. MaxEdits /\ rules[RulesOf(t)].marks \in Marks
    BY <1>0, <1>5, RulesOwned DEF RulesFile
  <2>2. thread[t] \in ThreadType
    BY <1>0
  <2>3. [thread[t] EXCEPT !.at = "ready", !.events = {}, !.content = content,
                          !.text = rules[RulesOf(t)].text, !.marks = rules[RulesOf(t)].marks]
          \in ThreadType
    BY <2>1, <2>2 DEF ThreadType, Stage
  <2> QED
    BY <2>3 DEF Regenerates
<1>6. ASSUME NEW t \in Thread, Compose(t) PROVE Typed'
  <2> DEFINE content == [thread[t].content EXCEPT !["contract"] = Found(t, "contract")]
  <2>1. Found(t, "contract") \in 0 .. MaxWrites
    BY <1>0 DEF Found, Part
  <2>2. content \in [Part -> 0 .. MaxWrites]
    BY <1>0, <2>1 DEF ThreadType
  <2> HIDE DEF content
  <2>3. Regenerates(t, content) \in ThreadType
    BY <1>5, <1>6, <2>2 DEF Compose
  <2>4. thread' \in [Thread -> ThreadType]
    BY <1>0, <1>6, <2>3 DEF Compose, content
  <2> QED
    BY <1>0, <1>6, <2>4, FlushTypes DEF Compose, files
<1>7. ASSUME NEW t \in Thread, Truncate(t) PROVE Typed'
  <2>1. thread' \in [Thread -> ThreadType]
    BY <1>0, <1>7 DEF Truncate, ThreadType, Stage
  <2>2. Empty \in RulesFile
    BY IdleTyped
  <2>3. rules' \in [Harness -> RulesFile]
    BY <1>0, <1>7, <2>2 DEF Truncate
  <2> QED
    BY <1>0, <1>7, <2>1, <2>3, FlushTypes DEF Truncate
<1>8. ASSUME NEW t \in Thread, WriteRules(t) PROVE Typed'
  <2>1. Regenerated(t) \in RulesFile
    BY <1>0 DEF Regenerated, Remarked, RulesFile, ThreadType, Marks
  <2>2. thread' \in [Thread -> ThreadType] /\ rules' \in [Harness -> RulesFile]
    BY <1>0, <1>8, <2>1 DEF WriteRules
  <2> QED
    BY <1>0, <1>8, <2>2, FlushTypes DEF WriteRules
<1>9. ASSUME NEW t \in Thread, Fails(t) PROVE Typed'
  <2>1. Loaded(t, thread[t].content) \in ThreadType
    BY <1>0 DEF Loaded, ThreadType, Stage
  <2>2. thread[t].at = "composing" => Regenerates(t, thread[t].content) \in ThreadType
    BY <1>0, <1>5 DEF ThreadType
  <2>3. thread' \in [Thread -> ThreadType]
    BY <1>0, <1>9, <2>1, <2>2 DEF Fails
  <2>4. excuse' \in [Harness -> Excuse]
    BY <1>9, StaleTyped DEF Fails, Typed
  <2>5. faults' \in 0 .. MaxFaults
    BY <1>0, <1>9 DEF Fails
  <2> QED
    BY <1>0, <1>9, <2>3, <2>4, <2>5, FlushTypes DEF Fails, files
<1> QED
  BY <1>1, <1>2, <1>3, <1>4, <1>6, <1>7, <1>8, <1>9 DEF Flush

\* The steps of the processes keep the types.
LEMMA ProcessTyped ==
    ASSUME Typed,
           \/ \E w \in Pid, h \in Harness : Start(w, h)
           \/ \E w \in Pid : WritePid(w) \/ Observe(w) \/ Signal(w) \/ WindDown(w)
                             \/ Exit(w) \/ Kill(w) \/ Other(w)
    PROVE  Typed'
<1> USE WatcherAssumption
<1>0. faults \in 0 .. MaxFaults /\ starts \in 0 .. MaxStarts
  BY DEF Typed, TypeOK
<1>1. ASSUME NEW w \in Pid, NEW h \in Harness, Start(w, h) PROVE Typed'
  <2>1. raced' \in BOOLEAN
    BY <1>1 DEF Start
  <2>2. starts' \in 0 .. MaxStarts
    BY <1>0, <1>1 DEF Start
  <2> QED
    BY <1>1, <2>1, <2>2 DEF Start, Typed, TypeOK, WritesLeft, project, files, handlers
<1>2. ASSUME NEW w \in Pid, WritePid(w) PROVE Typed'
  BY <1>2 DEF WritePid, Typed, TypeOK, WritesLeft, project, files, handlers
<1>3. ASSUME NEW w \in Pid, Observe(w) PROVE Typed'
  BY <1>3 DEF Observe, Typed, TypeOK, WritesLeft, project, files, handlers
<1>4. ASSUME NEW w \in Pid, Signal(w) PROVE Typed'
  <2>1. CASE Dies(w) /\ UNCHANGED faults
    BY <1>0, <2>1, DiesTyped
  <2>2. CASE ~(Dies(w) /\ UNCHANGED faults)
    BY <1>4, <2>2 DEF Signal, Typed, TypeOK, WritesLeft, project, files, handlers
  <2> QED
    BY <2>1, <2>2
<1>5. ASSUME NEW w \in Pid, WindDown(w) PROVE Typed'
  <2>1. excuse' \in [Harness -> Excuse]
    BY <1>5, StaleTyped DEF WindDown, Typed, TypeOK
  <2> QED
    BY <1>5, <2>1 DEF WindDown, Typed, TypeOK, WritesLeft, project, files
<1>6. ASSUME NEW w \in Pid, Exit(w) PROVE Typed'
  BY <1>0, <1>6, DiesTyped DEF Exit
<1>7. ASSUME NEW w \in Pid, Kill(w) PROVE Typed'
  <2>1. faults' \in 0 .. MaxFaults
    BY <1>0, <1>7 DEF Kill
  <2> QED
    BY <1>7, <2>1, DiesTyped DEF Kill
<1>8. ASSUME NEW w \in Pid, Other(w) PROVE Typed'
  <2>1. starts' \in 0 .. MaxStarts
    BY <1>0, <1>8 DEF Other
  <2> QED
    BY <1>8, <2>1 DEF Other, Typed, TypeOK, WritesLeft, project, files, handlers
<1> QED
  BY <1>1, <1>2, <1>3, <1>4, <1>5, <1>6, <1>7, <1>8

\* Every step keeps the types.
LEMMA TypedKept == ASSUME Typed, Owned, [Next]_vars PROVE Typed'
<1>1. CASE UNCHANGED vars
  BY <1>1 DEF Typed, TypeOK, WritesLeft, vars, project, files, processes, handlers
<1>2. CASE Stop
  <2>1. pidfile \in Pid
    BY <1>2 DEF Stop, Typed, TypeOK
  <2> QED
    BY <1>2, <2>1, ProcessTyped DEF Stop
<1>3. CASE \E w \in Pid : Interrupt(w)
  BY <1>3, ProcessTyped DEF Interrupt
<1> QED
  BY <1>1, <1>2, <1>3, WritersTyped, FlushTyped, ProcessTyped DEF Next

-----------------------------------------------------------------------------
\* The steps, by what they do to processes and to threads.

\* Who writes the project's files changes neither processes nor threads, and
\* finds only watchers to tell of an event.
LEMMA WritersOnly ==
    ASSUME \/ \E p \in Part : WriteBegins(p) \/ WriteEnds(p) \/ Delete(p)
           \/ TempWritten \/ TempReplaces
           \/ \E h \in Harness : Edit(h)
    PROVE  /\ UNCHANGED <<processes, pending, timer, thread>>
           /\ \A w \in Pid : proc[w] \notin {"up", "signalled"} => inbox'[w] = inbox[w]
<1>1. \A p \in Part : inbox' = Notify(p) =>
          \A w \in Pid : proc[w] \notin {"up", "signalled"} => inbox'[w] = inbox[w]
  BY DEF Notify, Observing
<1>2. "phase" \in Part
  BY DEF Part
<1> QED
  BY <1>1, <1>2 DEF WriteBegins, WriteEnds, Delete, TempWritten, TempReplaces, Edit, handlers

\* A flush moves one thread, which goes on working for its process or is free.
Moves(t) ==
    /\ UNCHANGED <<processes, inbox>>
    /\ \A u \in Thread \ {t} : thread'[u] = thread[u]
    /\ thread[t].at # "free"
    /\ \/ thread'[t] = Idle
       \/ thread'[t].of = thread[t].of /\ thread'[t].at # "free"

LEMMA FlushMoves ==
    ASSUME Typed, NEW t \in Thread, Fire(t) \/ Flush(t) \/ Fails(t)
    PROVE  Moves(t)
<1>1. thread \in [Thread -> ThreadType]
  BY DEF Typed, TypeOK, ThreadType
<1>2. \A content : Loaded(t, content).of = thread[t].of /\ Loaded(t, content).at = "composing"
  BY <1>1 DEF Loaded, ThreadType
<1>3. \A content : \/ Regenerates(t, content) = Idle
                   \/ /\ Regenerates(t, content).of = thread[t].of
                      /\ Regenerates(t, content).at = "ready"
  BY <1>1 DEF Regenerates, ThreadType
<1>4. ASSUME Fire(t) PROVE Moves(t)
  BY <1>1, <1>4 DEF Fire, Moves, ThreadType
<1>5. ASSUME NEW w \in Pid, Take(w, t) PROVE Moves(t)
  BY <1>1, <1>5 DEF Take, Moves, ThreadType
<1>6. ASSUME LoadPhase(t) PROVE Moves(t)
  BY <1>1, <1>2, <1>6 DEF LoadPhase, Moves
<1>7. ASSUME Compose(t) PROVE Moves(t)
  BY <1>1, <1>3, <1>7 DEF Compose, Moves
<1>8. ASSUME Truncate(t) PROVE Moves(t)
  BY <1>1, <1>8 DEF Truncate, Moves, ThreadType
<1>9. ASSUME WriteRules(t) PROVE Moves(t)
  BY <1>1, <1>9 DEF WriteRules, Moves
<1>10. ASSUME Fails(t) PROVE Moves(t)
  BY <1>1, <1>2, <1>3, <1>10 DEF Fails, Moves
<1> QED
  BY <1>4, <1>5, <1>6, <1>7, <1>8, <1>9, <1>10 DEF Flush

\* A thread that is not in use has no process.
LEMMA IdleFree == Idle.of = None /\ Idle.at = "free"
  BY DEF Idle

\* Only a watcher has events and timers.
LEMMA OwnedKept == ASSUME Typed, Owned, [Next]_vars PROVE Owned'
<1> USE WatcherAssumption, IdleFree
<1>0. /\ proc \in [Pid -> {"free", "other", "checked", "noted", "up", "signalled", "ending"}]
      /\ harness \in [Pid -> Harness \cup {None}] /\ inbox \in [Pid -> SUBSET Part]
      /\ thread \in [Thread -> ThreadType]
  BY DEF Typed, TypeOK, ThreadType
<1>1. CASE UNCHANGED vars
  BY <1>1 DEF Owned, vars, processes, handlers
<1>2. CASE \/ \E p \in Part : WriteBegins(p) \/ WriteEnds(p) \/ Delete(p)
           \/ TempWritten \/ TempReplaces
           \/ \E h \in Harness : Edit(h)
  <2>1. /\ UNCHANGED <<processes, pending, timer, thread>>
        /\ \A w \in Pid : proc[w] \notin {"up", "signalled"} => inbox'[w] = inbox[w]
    BY <1>2, WritersOnly
  <2> QED
    BY <2>1 DEF Owned, processes
<1>3. ASSUME NEW t \in Thread, Fire(t) \/ Flush(t) \/ Fails(t) PROVE Owned'
  <2>1. Moves(t)
    BY <1>3, FlushMoves
  <2>2. \A u \in Thread : thread'[u].of = thread[u].of \/ thread'[u] = Idle
    BY <2>1 DEF Moves
  <2>3. \A u \in Thread : thread'[u].at # "free" =>
            thread'[u].of = thread[u].of /\ thread[u].at # "free"
    BY <2>1 DEF Moves
  <2> QED
    BY <2>1, <2>2, <2>3 DEF Owned, Moves, processes
<1>4. ASSUME NEW w \in Pid, NEW p \in Part, Schedule(w, p) PROVE Owned'
  <2>1. PICK t \in Thread : thread' = [Cancelled(w) EXCEPT ![t] = Started(w)]
    BY <1>4 DEF Schedule
  <2>2. proc[w] \notin {"free", "other"} /\ harness[w] \in Harness
    BY <1>4 DEF Schedule, Owned
  <2>3. Started(w).of = w
    BY DEF Started, Idle
  <2>4. \A u \in Thread : Cancelled(w)[u] \in {Idle, thread[u]}
    BY DEF Cancelled
  <2>5. \A u \in Thread : thread'[u] \in {Idle, thread[u], Started(w)}
    BY <2>1, <2>4 DEF Cancelled
  <2>6. \A v \in Pid : proc[v] \in {"free", "other"} => inbox'[v] = {}
    BY <1>0, <1>4, <2>2 DEF Schedule, Owned
  <2> QED
    BY <1>4, <2>2, <2>3, <2>5, <2>6 DEF Owned, Schedule, processes
<1>5. ASSUME NEW w \in Pid, Dies(w) PROVE Owned'
  <2>1. /\ proc'[w] = "free" /\ inbox'[w] = {}
        /\ \A v \in Pid \ {w} : proc'[v] = proc[v] /\ inbox'[v] = inbox[v]
                                /\ harness'[v] = harness[v]
    BY <1>0, <1>5 DEF Dies
  <2>2. \A t \in Thread : thread'[t] = IF thread[t].of = w THEN Idle ELSE thread[t]
    BY <1>5 DEF Dies
  <2> QED
    BY <2>1, <2>2 DEF Owned
<1>6. ASSUME NEW w \in Pid, NEW h \in Harness, Start(w, h) PROVE Owned'
  <2>1. /\ proc'[w] = "checked" /\ harness'[w] = h
        /\ \A v \in Pid \ {w} : proc'[v] = proc[v] /\ harness'[v] = harness[v]
    BY <1>0, <1>6 DEF Start
  <2> QED
    BY <1>6, <2>1 DEF Start, Owned, handlers
<1>7. ASSUME NEW w \in Pid, WritePid(w) \/ Observe(w) \/ (Signal(w) /\ proc[w] = "up")
      PROVE  Owned'
  <2>1. /\ proc[w] \notin {"free", "other"} /\ proc'[w] \notin {"free", "other"}
        /\ \A v \in Pid \ {w} : proc'[v] = proc[v]
        /\ UNCHANGED <<harness, inbox, thread>>
    BY <1>0, <1>7 DEF WritePid, Observe, Signal, handlers
  <2> QED
    BY <2>1 DEF Owned
<1>8. ASSUME NEW w \in Pid, WindDown(w) PROVE Owned'
  <2>1. /\ proc[w] \notin {"free", "other"} /\ proc'[w] \notin {"free", "other"}
        /\ \A v \in Pid \ {w} : proc'[v] = proc[v] /\ inbox'[v] = inbox[v]
        /\ UNCHANGED <<harness, thread>>
    BY <1>0, <1>8 DEF WindDown
  <2> QED
    BY <2>1 DEF Owned
<1>9. ASSUME NEW w \in Pid, Other(w) PROVE Owned'
  <2>1. /\ proc[w] = "free" /\ proc'[w] = "other"
        /\ \A v \in Pid \ {w} : proc'[v] = proc[v]
        /\ UNCHANGED <<harness, inbox, thread>>
    BY <1>0, <1>9 DEF Other, handlers
  <2> QED
    BY <2>1 DEF Owned
<1>10. ASSUME NEW w \in Pid, Signal(w) PROVE Owned'
  BY <1>5, <1>7, <1>10 DEF Signal
<1>11. CASE Stop
  <2>1. pidfile \in Pid
    BY <1>11 DEF Stop, Typed, TypeOK
  <2> QED
    BY <1>10, <1>11, <2>1 DEF Stop
<1> QED
  BY <1>1, <1>2, <1>3, <1>4, <1>5, <1>6, <1>7, <1>8, <1>9, <1>10, <1>11
  DEF Next, Interrupt, Exit, Kill

-----------------------------------------------------------------------------
\* Events that wait have a timer.

TimerInv == TimerOwned /\ NothingForgotten

LEMMA TimersKept ==
    ASSUME Typed, Owned, TimerInv, [Next]_vars PROVE TimerInv'
<1> USE WatcherAssumption, IdleFree DEF TimerInv
<1>0. /\ timer \in [Pid -> Thread \cup {None}] /\ pending \in [Pid -> SUBSET Part]
      /\ thread \in [Thread -> ThreadType]
  BY DEF Typed, TypeOK, ThreadType
<1>1. ASSUME UNCHANGED <<pending, timer, thread>> PROVE TimerInv'
  BY <1>1 DEF TimerOwned, NothingForgotten, Armed
<1>2. CASE \/ \E p \in Part : WriteBegins(p) \/ WriteEnds(p) \/ Delete(p)
           \/ TempWritten \/ TempReplaces
           \/ \E h \in Harness : Edit(h)
  BY <1>1, <1>2, WritersOnly
\* The thread that is started takes the place of the one that is cancelled.
<1>3. ASSUME NEW w \in Pid, NEW p \in Part, Schedule(w, p) PROVE TimerInv'
  <2>1. PICK t \in Thread : /\ Cancelled(w)[t].at = "free"
                            /\ timer' = [timer EXCEPT ![w] = t]
                            /\ thread' = [Cancelled(w) EXCEPT ![t] = Started(w)]
    BY <1>3 DEF Schedule
  <2>2. Started(w).of = w /\ Started(w).at = "waiting"
    BY DEF Started, Idle
  <2>3. timer'[w] = t /\ thread'[t] = Started(w)
    BY <1>0, <2>1 DEF Cancelled
  <2>4. Armed(w, t)'
    BY <2>2, <2>3 DEF Armed
  <2>5. ASSUME NEW v \in Pid \ {w}, NEW u \in Thread, Armed(v, u) PROVE Armed(v, u)'
    <3>1. u # timer[w]
      BY <2>5 DEF TimerOwned, Armed
    <3>2. Cancelled(w)[u] = thread[u]
      BY <3>1 DEF Cancelled
    <3>3. u # t
      BY <2>1, <2>5, <3>2 DEF Armed
    <3>4. thread'[u] = thread[u]
      BY <2>1, <3>2, <3>3 DEF Cancelled
    <3> QED
      BY <2>5, <3>4 DEF Armed
  <2>6. \A v \in Pid \ {w} : timer'[v] = timer[v] /\ pending'[v] = pending[v]
    BY <1>0, <1>3, <2>1 DEF Schedule
  <2>7. TimerOwned'
    <3> SUFFICES ASSUME NEW v \in Pid, timer'[v] # None PROVE Armed(v, timer[v])'
      BY DEF TimerOwned
    <3>1. CASE v = w
      BY <2>3, <2>4, <3>1 DEF Armed
    <3>2. CASE v # w
      <4>1. timer[v] \in Thread /\ Armed(v, timer[v])
        BY <1>0, <2>6, <3>2 DEF TimerOwned
      <4>2. Armed(v, timer[v])' <=> Armed(v, timer[v])' /\ timer'[v] = timer[v]
        BY <2>6, <3>2
      <4>3. thread'[timer[v]].of = v /\ thread'[timer[v]].at \in {"waiting", "fired"}
        BY <2>5, <3>2, <4>1 DEF Armed
      <4> QED
        BY <2>6, <3>2, <4>3 DEF Armed
    <3> QED
      BY <3>1, <3>2
  <2>8. NothingForgotten'
    <3> SUFFICES ASSUME NEW v \in Pid, pending'[v] # {}
                 PROVE  \E u \in Thread : Armed(v, u)'
      BY DEF NothingForgotten, Armed
    <3>1. CASE v = w
      BY <2>4, <3>1
    <3>2. CASE v # w
      <4>1. PICK u \in Thread : Armed(v, u)
        BY <2>6, <3>2 DEF NothingForgotten, Armed
      <4> QED
        BY <2>5, <3>2, <4>1
    <3> QED
      BY <3>1, <3>2
  <2> QED
    BY <2>7, <2>8
<1>4. ASSUME NEW t \in Thread, Fire(t) PROVE TimerInv'
  <2>1. \A v \in Pid, u \in Thread : Armed(v, u) => Armed(v, u)'
    BY <1>0, <1>4 DEF Fire, Armed, ThreadType
  <2>2. UNCHANGED <<pending, timer>>
    BY <1>4 DEF Fire
  <2> QED
    BY <1>0, <2>1, <2>2 DEF TimerOwned, NothingForgotten, Armed
\* A flush that takes the events of its process leaves no timer set.
<1>5. ASSUME NEW w \in Pid, NEW t \in Thread, Take(w, t) PROVE TimerInv'
  <2>1. /\ pending'[w] = {} /\ timer'[w] = None
        /\ \A v \in Pid \ {w} : pending'[v] = pending[v] /\ timer'[v] = timer[v]
    BY <1>0, <1>5 DEF Take
  <2>2. thread[t].of = w /\ \A u \in Thread \ {t} : thread'[u] = thread[u]
    BY <1>0, <1>5 DEF Take
  <2>3. \A v \in Pid \ {w}, u \in Thread : Armed(v, u) => Armed(v, u)'
    BY <2>2 DEF Armed
  <2> QED
    BY <1>0, <2>1, <2>3 DEF TimerOwned, NothingForgotten, Armed
\* Threads that flush are not timers that wait.
<1>6. ASSUME NEW t \in Thread,
             LoadPhase(t) \/ Compose(t) \/ Truncate(t) \/ WriteRules(t) \/ Fails(t)
      PROVE  TimerInv'
  <2>1. Moves(t)
    BY <1>6, FlushMoves DEF Flush
  <2>2. thread[t].at \notin {"waiting", "fired"} /\ UNCHANGED <<pending, timer>>
    BY <1>6 DEF LoadPhase, Compose, Truncate, WriteRules, Fails
  <2>3. \A v \in Pid, u \in Thread : Armed(v, u) => Armed(v, u)'
    BY <2>1, <2>2 DEF Moves, Armed
  <2> QED
    BY <1>0, <2>2, <2>3 DEF TimerOwned, NothingForgotten, Armed
<1>7. ASSUME NEW w \in Pid, Dies(w) PROVE TimerInv'
  <2>1. /\ pending'[w] = {} /\ timer'[w] = None
        /\ \A v \in Pid \ {w} : pending'[v] = pending[v] /\ timer'[v] = timer[v]
    BY <1>0, <1>7 DEF Dies
  <2>2. \A v \in Pid \ {w}, u \in Thread : Armed(v, u) => Armed(v, u)'
    BY <1>7 DEF Dies, Armed
  <2> QED
    BY <1>0, <2>1, <2>2 DEF TimerOwned, NothingForgotten, Armed
<1>8. ASSUME NEW w \in Pid, Signal(w) PROVE TimerInv'
  BY <1>1, <1>7, <1>8 DEF Signal, handlers
<1>9. CASE Stop
  <2>1. pidfile \in Pid
    BY <1>9 DEF Stop, Typed, TypeOK
  <2> QED
    BY <1>8, <1>9, <2>1 DEF Stop
<1>10. CASE \/ \E w \in Pid, h \in Harness : Start(w, h)
            \/ \E w \in Pid : WritePid(w) \/ Observe(w) \/ WindDown(w) \/ Other(w)
  BY <1>1, <1>10 DEF Start, WritePid, Observe, WindDown, Other, handlers
<1>11. CASE UNCHANGED vars
  BY <1>1, <1>11 DEF vars, handlers
<1> QED
  BY <1>2, <1>3, <1>4, <1>5, <1>6, <1>7, <1>8, <1>9, <1>10, <1>11
  DEF Next, Flush, Interrupt, Exit, Kill

-----------------------------------------------------------------------------
\* What the pid file says.

PidInv == NamedIsAlive /\ CheckedAlone /\ Stoppable

LEMMA PidsKept == ASSUME Typed, PidInv, [Next]_vars PROVE PidInv'
<1> USE WatcherAssumption DEF PidInv, Alive
<1>0. /\ proc \in [Pid -> {"free", "other", "checked", "noted", "up", "signalled", "ending"}]
      /\ pidfile \in Pid \cup {None}
  BY DEF Typed, TypeOK
<1>1. ASSUME UNCHANGED <<proc, pidfile, raced, left>> PROVE PidInv'
  BY <1>1 DEF NamedIsAlive, CheckedAlone, Stoppable
<1>2. CASE \/ \E p \in Part : WriteBegins(p) \/ WriteEnds(p) \/ Delete(p)
           \/ TempWritten \/ TempReplaces
           \/ \E h \in Harness : Edit(h)
  BY <1>1, <1>2, WritersOnly DEF processes
<1>3. CASE \/ \E w \in Pid, p \in Part : Schedule(w, p)
           \/ \E t \in Thread : Fire(t) \/ Flush(t) \/ Fails(t)
  <2>1. \A w \in Pid, p \in Part : Schedule(w, p) => UNCHANGED processes
    BY DEF Schedule
  <2>2. UNCHANGED processes
    BY <1>3, <2>1, FlushMoves DEF Moves
  <2> QED
    BY <1>1, <2>2 DEF processes
\* A process that dies leaves its pid file, or was not the one it names.
<1>4. ASSUME NEW w \in Pid, Dies(w) PROVE PidInv'
  <2>1. /\ proc'[w] = "free" /\ \A v \in Pid \ {w} : proc'[v] = proc[v]
        /\ left' = (left \/ pidfile = w) /\ UNCHANGED <<pidfile, raced>>
    BY <1>0, <1>4 DEF Dies
  <2> QED
    BY <1>0, <2>1 DEF NamedIsAlive, CheckedAlone, Stoppable
\* A start that finds no process alive: none is, unless starts overlapped.
<1>5. ASSUME NEW w \in Pid, NEW h \in Harness, Start(w, h) PROVE PidInv'
  <2>1. /\ proc'[w] = "checked" /\ proc[w] = "free"
        /\ \A v \in Pid \ {w} : proc'[v] = proc[v]
        /\ UNCHANGED <<pidfile, left>>
        /\ pidfile # None => pidfile # w /\ proc[pidfile] = "free"
    BY <1>0, <1>5 DEF Start, InUse
  <2>2. ~raced' => ~raced /\ \A v \in Pid : proc[v] # "checked"
    BY <1>5 DEF Start
  <2>3. ~raced' => \A v \in Pid : ~Alive(v)
    BY <2>1, <2>2 DEF Stoppable
  <2>4. NamedIsAlive'
    BY <1>0, <2>1 DEF NamedIsAlive
  <2>5. CheckedAlone' /\ Stoppable'
    BY <2>1, <2>2, <2>3 DEF CheckedAlone, Stoppable
  <2> QED
    BY <2>4, <2>5
<1>6. ASSUME NEW w \in Pid, WritePid(w) PROVE PidInv'
  <2>1. /\ proc[w] = "checked" /\ proc'[w] = "noted" /\ pidfile' = w
        /\ \A v \in Pid \ {w} : proc'[v] = proc[v]
        /\ UNCHANGED <<raced, left>>
    BY <1>0, <1>6 DEF WritePid
  <2> QED
    BY <2>1 DEF NamedIsAlive, CheckedAlone, Stoppable
<1>7. ASSUME NEW w \in Pid, Observe(w) \/ (Signal(w) /\ proc[w] = "up") PROVE PidInv'
  <2>1. /\ Alive(w) /\ proc'[w] \in {"up", "signalled"}
        /\ \A v \in Pid \ {w} : proc'[v] = proc[v]
        /\ UNCHANGED <<pidfile, raced, left>>
    BY <1>0, <1>7 DEF Observe, Signal
  <2> QED
    BY <1>0, <2>1 DEF NamedIsAlive, CheckedAlone, Stoppable
\* Who removes the pid file was alone, unless starts overlapped.
<1>8. ASSUME NEW w \in Pid, WindDown(w) PROVE PidInv'
  <2>1. /\ Alive(w) /\ proc'[w] = "ending" /\ pidfile' = None
        /\ \A v \in Pid \ {w} : proc'[v] = proc[v]
        /\ UNCHANGED <<raced, left>>
    BY <1>0, <1>8 DEF WindDown
  <2> QED
    BY <2>1 DEF NamedIsAlive, CheckedAlone, Stoppable
<1>9. ASSUME NEW w \in Pid, Other(w) PROVE PidInv'
  <2>1. /\ proc[w] = "free" /\ proc'[w] = "other"
        /\ \A v \in Pid \ {w} : proc'[v] = proc[v]
        /\ UNCHANGED <<pidfile, raced, left>>
    BY <1>0, <1>9 DEF Other
  <2> QED
    BY <1>0, <2>1 DEF NamedIsAlive, CheckedAlone, Stoppable
<1>10. ASSUME NEW w \in Pid, Signal(w) PROVE PidInv'
  BY <1>4, <1>7, <1>10 DEF Signal
<1>11. CASE Stop
  BY <1>0, <1>10, <1>11 DEF Stop
<1>12. CASE UNCHANGED vars
  BY <1>1, <1>12 DEF vars, processes
<1> QED
  BY <1>2, <1>3, <1>4, <1>5, <1>6, <1>7, <1>8, <1>9, <1>10, <1>11, <1>12
  DEF Next, Interrupt, Exit, Kill

-----------------------------------------------------------------------------
LEMMA InitIInv == Init => IInv
<1> SUFFICES ASSUME Init PROVE IInv
  OBVIOUS
<1>1. Typed
  BY InitTyped
<1>2. Owned
  BY WatcherAssumption DEF Init, Owned, Idle
<1>3. TimerOwned /\ NothingForgotten
  BY DEF Init, TimerOwned, NothingForgotten
<1>4. NamedIsAlive /\ CheckedAlone /\ Stoppable
  BY DEF Init, NamedIsAlive, CheckedAlone, Stoppable, Alive
<1> QED
  BY <1>1, <1>2, <1>3, <1>4 DEF IInv

\* The inductive invariant: the types, who owns what, and the three properties
\* with what makes them inductive.
THEOREM WatcherInvariant == Spec => []IInv
<1>1. Init => IInv
  BY InitIInv
<1>2. IInv /\ [Next]_vars => IInv'
  <2> SUFFICES ASSUME IInv, [Next]_vars PROVE IInv'
    OBVIOUS
  <2>1. Typed' /\ Owned'
    BY TypedKept, OwnedKept DEF IInv
  <2>2. TimerInv'
    BY TimersKept DEF IInv, TimerInv
  <2>3. PidInv'
    BY PidsKept DEF IInv, PidInv
  <2> QED
    BY <2>1, <2>2, <2>3 DEF IInv, TimerInv, PidInv
<1> QED
  BY <1>1, <1>2, PTL DEF Spec

\* Every variable keeps its type, and every version its bound.
THEOREM TypeCorrect == Spec => []TypeOK
<1>1. IInv => TypeOK
  BY DEF IInv, Typed
<1> QED
  BY <1>1, WatcherInvariant, PTL

\* _schedule, _flush: events that wait for a flush have a timer that will make
\* one, for any number of timers and of processes.
THEOREM EventsHaveTimers == Spec => []NothingForgotten
<1>1. IInv => NothingForgotten
  BY DEF IInv
<1> QED
  BY <1>1, WatcherInvariant, PTL

\* run_watcher: the pid in the file is that of a watcher that has not ended,
\* unless one died and left it.
THEOREM NamedWatcherLives == Spec => []NamedIsAlive
<1>1. IInv => NamedIsAlive
  BY DEF IInv
<1> QED
  BY <1>1, WatcherInvariant, PTL

\* _start, _stop: unless two starts overlapped, the watcher that runs is the one
\* that the pid file names, and so the only one.
THEOREM WatcherIsStoppable == Spec => []Stoppable
<1>1. IInv => Stoppable
  BY DEF IInv
<1> QED
  BY <1>1, WatcherInvariant, PTL

\* Theorem: types, waiting events and the pid file together.
THEOREM WatcherIsSound == Spec => []WatcherSound
<1>1. TypeOK /\ NothingForgotten /\ NamedIsAlive /\ Stoppable => WatcherSound
  BY DEF WatcherSound
<1> QED
  BY <1>1, TypeCorrect, EventsHaveTimers, NamedWatcherLives, WatcherIsStoppable, PTL

-----------------------------------------------------------------------------
(* What flushes read and write. *)

\* A flush finds the content of its thread as Idle has it, and that of the
\* contract until it has composed it.
Blank ==
    \A t \in Thread :
        /\ thread[t].at \in {"waiting", "fired", "taken"} => thread[t].content = Nothing
        /\ thread[t].at = "composing" => thread[t].content["contract"] = 0

\* Two flushes of the same rules at a time are an excuse for ever.
Alone ==
    \A t, u \in Thread :
        t # u /\ thread[t].at \in Working /\ thread[u].at \in Working /\ RulesOf(t) = RulesOf(u)
            => excuse[RulesOf(t)] = "torn"

\* What the file or a thread holds of it is the last text, or what a flush has
\* left when the text was below a BEGIN without its END.
Holds(h, r) ==
    /\ r.text = edits \/ (cut[h] /\ r.marks = "whole")
    /\ r.marks \in {"openText", "twiceText"} => cut[h]

\* Without excuse, the text that is in the file, or that a flush will put back,
\* is the last one.
TextHeld ==
    \A h \in Shared : ~edited[h] /\ excuse[h] # "torn" =>
        /\ \/ \E t \in Thread : RulesOf(t) = h /\ thread[t].at = "truncated"
           \/ Holds(h, rules[h])
        /\ \A t \in Thread : RulesOf(t) = h /\ thread[t].at \in {"ready", "truncated"} =>
              Holds(h, thread[t])

\* The parts that a flush has still to read.
Carries(t, p) ==
    /\ p \in thread[t].events
    /\ thread[t].at = "taken" \/ (thread[t].at = "composing" /\ p = "contract")

\* An event of p that has not been dealt with, for the rules of h.
OnTheWay(h, p) ==
    \/ \E w \in Pid : harness[w] = h /\ p \in inbox[w] \cup pending[w]
    \/ \E t \in Thread : RulesOf(t) = h /\ Carries(t, p)

\* A flush that has read its parts and will write them.
Late(t) == thread[t].at \in {"composing", "ready", "truncated"}

\* A flush that will write the newest version of p.
Brings(h, p) ==
    \E t \in Thread : /\ RulesOf(t) = h /\ Late(t)
                      /\ newest[p] # 0 /\ thread[t].content[p] = newest[p]

\* A version of p may be shown: it is the newest, there is none, or one will be
\* read.
Good(h, p, v) == v \in {0, newest[p]} \/ disk[p] = 0 \/ OnTheWay(h, p)

DiskIsNewest == \A p \in Part : disk[p] \in {0, newest[p]}

\* The event of phase.tmp is not dealt with before the file is moved.
TempAnnounced ==
    writer["phase"] = "temp" => \A h \in Harness : excuse[h] = "none" => OnTheWay(h, "phase")

RulesGood ==
    \A h \in Harness, p \in Part : excuse[h] = "none" =>
        Good(h, p, rules[h].shows[p]) \/ Brings(h, p)

ContentGood ==
    \A t \in Thread, p \in Part : Late(t) /\ excuse[RulesOf(t)] = "none" =>
        Good(RulesOf(t), p, thread[t].content[p])

Current == DiskIsNewest /\ TempAnnounced /\ RulesGood /\ ContentGood

-----------------------------------------------------------------------------
\* The steps, by what they do to flushes and to the excuses of the rules.

\* An excuse lasts, and the worst one for ever.
Lasts ==
    \A h \in Harness :
        /\ excuse'[h] = "none" => excuse[h] = "none"
        /\ excuse[h] = "torn" => excuse'[h] = "torn"

LEMMA StaleLasts ==
    ASSUME Typed, NEW H, excuse' = Stale(H)
    PROVE  Lasts /\ \A h \in H \cap Harness : excuse'[h] # "none"
  BY DEF Stale, Lasts

\* A step of which flushes take no notice.
Passes ==
    /\ UNCHANGED <<project, files, thread>>
    /\ \A t \in Thread : RulesOf(t)' = RulesOf(t)
    /\ Lasts
    /\ \A h \in Harness, p \in Part :
          excuse'[h] = "none" /\ OnTheWay(h, p) => OnTheWay(h, p)'

\* A process that ends takes its threads with it, and excuses what it leaves.
Leaves(w) ==
    /\ UNCHANGED <<project, files>>
    /\ Lasts
    /\ \A t \in Thread :
          \/ thread'[t] = Idle
          \/ thread'[t] = thread[t] /\ RulesOf(t)' = RulesOf(t)
    /\ \A t \in Thread : thread[t].of # w => thread'[t] = thread[t] /\ RulesOf(t)' = RulesOf(t)
    /\ \A v \in Pid \ {w} : UNCHANGED <<harness[v], inbox[v], pending[v]>>
    /\ \A h \in Harness : harness[w] = h /\ excuse'[h] # "torn" =>
          \A t \in Thread : thread[t].of = w => thread[t].at # "truncated"
    /\ \A h \in Harness : harness[w] = h /\ excuse'[h] = "none" =>
          inbox[w] = {} /\ \A t \in Thread : thread[t].of # w

LEMMA DiesLeaves ==
    ASSUME Typed, Owned, NEW w \in Pid, Dies(w) PROVE Leaves(w)
<1> USE WatcherAssumption, IdleFree
<1>0. /\ thread \in [Thread -> ThreadType] /\ harness \in [Pid -> Harness \cup {None}]
      /\ inbox \in [Pid -> SUBSET Part] /\ pending \in [Pid -> SUBSET Part]
      /\ excuse \in [Harness -> Excuse]
  BY DEF Typed, TypeOK, ThreadType
<1>1. \A v \in Pid \ {w} : UNCHANGED <<harness[v], inbox[v], pending[v]>>
  BY <1>0 DEF Dies
<1>2. \A t \in Thread : thread'[t] = IF thread[t].of = w THEN Idle ELSE thread[t]
  BY DEF Dies
<1>3. \A t \in Thread : thread[t].of # w => thread'[t] = thread[t] /\ RulesOf(t)' = RulesOf(t)
  BY <1>0, <1>1, <1>2 DEF RulesOf, ThreadType
<1>4. excuse' = Missed(w) /\ UNCHANGED <<project, files>>
  BY DEF Dies
<1>5. Lasts
  BY <1>0, <1>4, StaleLasts DEF Missed, Lasts
<1>6. ASSUME NEW h \in Harness, harness[w] = h
      PROVE  /\ excuse'[h] # "torn" =>
                   \A t \in Thread : thread[t].of = w => thread[t].at # "truncated"
             /\ excuse'[h] = "none" => inbox[w] = {} /\ \A t \in Thread : thread[t].of # w
  <2>1. Stale({h})[h] # "none"
    BY DEF Stale
  <2> QED
    BY <1>0, <1>4, <1>6, <2>1 DEF Missed
<1> QED
  BY <1>1, <1>2, <1>3, <1>4, <1>5, <1>6 DEF Leaves

\* Everything else that processes do passes flushes by: a process that starts
\* has no thread, and one that winds down excuses the events it drops.
LEMMA ProcessesPass ==
    ASSUME IInv,
           \/ \E w \in Pid, h \in Harness : Start(w, h)
           \/ \E w \in Pid : WritePid(w) \/ Observe(w) \/ Interrupt(w) \/ WindDown(w)
                             \/ Exit(w) \/ Kill(w) \/ Other(w)
           \/ Stop
           \/ UNCHANGED vars
    PROVE  Passes \/ \E w \in Pid : Leaves(w)
<1> USE WatcherAssumption
<1>0. /\ thread \in [Thread -> ThreadType] /\ harness \in [Pid -> Harness \cup {None}]
      /\ inbox \in [Pid -> SUBSET Part] /\ excuse \in [Harness -> Excuse]
      /\ Typed /\ Owned /\ NothingForgotten
  BY DEF IInv, Typed, TypeOK, ThreadType
<1>1. ASSUME UNCHANGED <<project, files, harness, handlers, excuse>> PROVE Passes
  BY <1>1 DEF Passes, Lasts, RulesOf, OnTheWay, Carries, handlers
<1>2. ASSUME NEW w \in Pid, NEW h \in Harness, Start(w, h) PROVE Passes
  <2>1. inbox[w] = {} /\ \A t \in Thread : thread[t].of # w
    BY <1>0, <1>2 DEF Start, Owned
  <2>2. pending[w] = {}
    BY <1>0, <2>1 DEF NothingForgotten
  <2>3. \A v \in Pid \ {w} : harness'[v] = harness[v]
    BY <1>0, <1>2 DEF Start
  <2>4. UNCHANGED <<project, files, handlers, excuse>>
    BY <1>2 DEF Start
  <2>5. \A t \in Thread : RulesOf(t)' = RulesOf(t)
    BY <1>0, <2>1, <2>3, <2>4 DEF RulesOf, ThreadType, handlers
  <2>6. \A k \in Harness, p \in Part : OnTheWay(k, p) => OnTheWay(k, p)'
    BY <2>1, <2>2, <2>3, <2>4, <2>5 DEF OnTheWay, Carries, handlers
  <2> QED
    BY <2>4, <2>5, <2>6 DEF Passes, Lasts, handlers
<1>3. ASSUME NEW w \in Pid, WindDown(w) PROVE Passes
  <2>1. /\ UNCHANGED <<project, files, harness, pending, thread>>
        /\ inbox' = [inbox EXCEPT ![w] = {}]
        /\ excuse' = IF inbox[w] # {} THEN Stale({harness[w]}) ELSE excuse
    BY <1>3 DEF WindDown
  <2>2. Lasts /\ \A h \in Harness : harness[w] = h /\ excuse'[h] = "none" => inbox[w] = {}
    BY <1>0, <2>1, StaleLasts DEF Lasts
  <2>3. \A t \in Thread : RulesOf(t)' = RulesOf(t)
    BY <2>1 DEF RulesOf
  <2>4. ASSUME NEW h \in Harness, NEW p \in Part, excuse'[h] = "none", OnTheWay(h, p)
        PROVE  OnTheWay(h, p)'
    <3>1. CASE harness[w] = h
      BY <1>0, <2>1, <2>2, <2>3, <2>4, <3>1 DEF OnTheWay, Carries
    <3>2. CASE harness[w] # h
      BY <1>0, <2>1, <2>3, <2>4, <3>2 DEF OnTheWay, Carries
    <3> QED
      BY <3>1, <3>2
  <2> QED
    BY <2>1, <2>2, <2>3, <2>4 DEF Passes
<1>4. ASSUME NEW w \in Pid, Signal(w) PROVE Passes \/ Leaves(w)
  BY <1>0, <1>1, <1>4, DiesLeaves DEF Signal
<1>5. ASSUME Stop PROVE Passes \/ \E w \in Pid : Leaves(w)
  <2>1. pidfile \in Pid
    BY <1>0, <1>5 DEF Stop, Typed, TypeOK
  <2> QED
    BY <1>4, <1>5, <2>1 DEF Stop
<1>6. ASSUME NEW w \in Pid, Exit(w) \/ Kill(w) PROVE Leaves(w)
  BY <1>0, <1>6, DiesLeaves DEF Exit, Kill
<1>7. ASSUME NEW w \in Pid, WritePid(w) \/ Observe(w) \/ Other(w) PROVE Passes
  BY <1>1, <1>7 DEF WritePid, Observe, Other
<1>8. ASSUME UNCHANGED vars PROVE Passes
  BY <1>1, <1>8 DEF vars, processes
<1> QED
  BY <1>2, <1>3, <1>4, <1>5, <1>6, <1>7, <1>8 DEF Interrupt

\* A timer that is started keeps the other threads, but for the one that it
\* cancels, which has not fired.
LEMMA ScheduleStarts ==
    ASSUME Typed, Owned, NEW w \in Pid, NEW p \in Part, Schedule(w, p)
    PROVE  /\ UNCHANGED <<project, files, processes, excuse>>
           /\ \A t \in Thread :
                 \/ thread'[t] = Idle /\ thread[t].at \in {"free", "waiting"}
                 \/ thread'[t] = Started(w) /\ thread[t].at \in {"free", "waiting"}
                 \/ thread'[t] = thread[t] /\ RulesOf(t)' = RulesOf(t)
<1> USE IdleFree
<1>0. thread \in [Thread -> ThreadType]
  BY DEF Typed, TypeOK, ThreadType
<1>1. PICK t \in Thread : /\ Cancelled(w)[t].at = "free"
                          /\ thread' = [Cancelled(w) EXCEPT ![t] = Started(w)]
  BY DEF Schedule
<1>2. \A u \in Thread : \/ Cancelled(w)[u] = thread[u]
                        \/ Cancelled(w)[u] = Idle /\ thread[u].at = "waiting"
  BY DEF Cancelled
<1>3. thread'[t] = Started(w) /\ \A u \in Thread \ {t} : thread'[u] = Cancelled(w)[u]
  BY <1>1 DEF Cancelled
<1>4. \A u \in Thread : thread'[u] = thread[u] => RulesOf(u)' = RulesOf(u)
  BY DEF Schedule, RulesOf, processes
<1> QED
  BY <1>1, <1>2, <1>3, <1>4 DEF Schedule

\* A flush moves one thread, whose rules stay the same.
LEMMA FlushStays ==
    ASSUME Typed, Owned, NEW t \in Thread, Fire(t) \/ Flush(t) \/ Fails(t)
    PROVE  /\ Moves(t) /\ UNCHANGED project
           /\ Lasts
           /\ \A u \in Thread \ {t} : thread'[u] = thread[u] /\ RulesOf(u)' = RulesOf(u)
           /\ thread'[t] # Idle => RulesOf(t)' = RulesOf(t)
<1>1. Moves(t)
  BY FlushMoves
<1>2. UNCHANGED project
  BY DEF Fire, Flush, Take, LoadPhase, Compose, Truncate, WriteRules, Fails
<1>3. Lasts
  <2>1. CASE UNCHANGED excuse
    BY <2>1 DEF Lasts
  <2>2. ASSUME NEW w \in Pid, Take(w, t) PROVE Lasts
    BY <2>2 DEF Take, Lasts, Typed, TypeOK
  <2>3. CASE LoadPhase(t) \/ Fails(t)
    BY <2>1, <2>3, StaleLasts DEF LoadPhase, Fails
  <2> QED
    BY <2>1, <2>2, <2>3 DEF Fire, Flush, Compose, Truncate, WriteRules
<1> QED
  BY <1>1, <1>2, <1>3 DEF Moves, RulesOf, processes

\* The project's writers and the users leave threads alone, and take away no
\* excuse.
LEMMA WritersLast ==
    ASSUME Typed,
           \/ \E p \in Part : WriteBegins(p) \/ WriteEnds(p) \/ Delete(p)
           \/ TempWritten \/ TempReplaces
           \/ \E h \in Harness : Edit(h)
    PROVE  /\ UNCHANGED <<processes, pending, timer, thread>>
           /\ Lasts
           /\ \A t \in Thread : RulesOf(t)' = RulesOf(t)
<1>1. UNCHANGED <<processes, pending, timer, thread>>
  BY WritersOnly
<1>2. UNCHANGED excuse \/ excuse' = Stale(Unwatched)
  BY DEF WriteBegins, WriteEnds, Delete, TempWritten, TempReplaces, Edit
<1>3. Lasts
  BY <1>2, StaleLasts DEF Lasts
<1> QED
  BY <1>1, <1>3 DEF RulesOf, processes

\* An excuse lasts.
LEMMA ExcusesLast == ASSUME IInv, [Next]_vars PROVE Lasts
<1>0. Typed /\ Owned
  BY DEF IInv
<1>1. ASSUME NEW w \in Pid, NEW p \in Part, Schedule(w, p) PROVE Lasts
  BY <1>1 DEF Schedule, Lasts
<1> QED
  BY <1>0, <1>1, WritersLast, FlushStays, ProcessesPass DEF Next, Passes, Leaves

\* What a thread that has fired was, and that its rules stay the same.
LEMMA WorkersStay ==
    ASSUME IInv, [Next]_vars, NEW t \in Thread, thread'[t].at \notin {"free", "waiting"}
    PROVE  /\ thread[t].at # "free"
           /\ RulesOf(t)' = RulesOf(t)
           /\ RulesOf(t) \in Harness
           /\ thread'[t].at \in Working => thread[t].at \in Working \/ \E w \in Pid : Take(w, t)
<1> USE IdleFree
<1>0. Typed /\ Owned /\ thread \in [Thread -> ThreadType]
  BY DEF IInv, Typed, TypeOK, ThreadType
<1>1. CASE thread'[t] = thread[t] /\ RulesOf(t)' = RulesOf(t)
  BY <1>0, <1>1, RulesOwned
<1>2. ASSUME NEW w \in Pid, NEW p \in Part, Schedule(w, p)
      PROVE  thread'[t] = thread[t] /\ RulesOf(t)' = RulesOf(t)
  <2>1. Started(w).at = "waiting"
    BY DEF Started, Idle
  <2> QED
    BY <1>0, <1>2, <2>1, ScheduleStarts
<1>3. ASSUME NEW u \in Thread, Fire(u) \/ Flush(u) \/ Fails(u)
      PROVE  \/ thread'[t] = thread[t] /\ RulesOf(t)' = RulesOf(t)
             \/ /\ thread[t].at # "free" /\ RulesOf(t)' = RulesOf(t)
                /\ thread'[t].at \in Working =>
                      thread[t].at \in Working \/ \E w \in Pid : Take(w, t)
  <2>1. CASE t # u
    BY <1>0, <1>3, <2>1, FlushStays
  <2>2. CASE t = u
    <3>1. thread[t].at # "free" /\ RulesOf(t)' = RulesOf(t)
      BY <1>0, <1>3, <2>2, FlushStays DEF Moves
    <3>2. Fire(t) => thread'[t].at = "fired"
      BY <1>0 DEF Fire, ThreadType
    <3>3. Fire(t) \/ (\E w \in Pid : Take(w, t)) \/ thread[t].at \in Working
      BY <1>3, <2>2 DEF Flush, LoadPhase, Compose, Truncate, WriteRules, Fails, Working
    <3> QED
      BY <3>1, <3>2, <3>3 DEF Working
  <2> QED
    BY <2>1, <2>2
<1>4. ASSUME UNCHANGED thread, \A u \in Thread : RulesOf(u)' = RulesOf(u)
      PROVE  thread'[t] = thread[t] /\ RulesOf(t)' = RulesOf(t)
  BY <1>4
<1>5. ASSUME NEW w \in Pid, Leaves(w) PROVE thread'[t] = thread[t] /\ RulesOf(t)' = RulesOf(t)
  BY <1>5 DEF Leaves
<1>6. ASSUME Passes PROVE thread'[t] = thread[t] /\ RulesOf(t)' = RulesOf(t)
  BY <1>6 DEF Passes
<1>7. CASE \/ \E p \in Part : WriteBegins(p) \/ WriteEnds(p) \/ Delete(p)
           \/ TempWritten \/ TempReplaces
           \/ \E h \in Harness : Edit(h)
  BY <1>0, <1>1, <1>4, <1>7, WritersLast
<1>8. CASE \/ \E w \in Pid, p \in Part : Schedule(w, p)
           \/ \E u \in Thread : Fire(u) \/ Flush(u) \/ Fails(u)
  <2>1. \/ thread'[t] = thread[t] /\ RulesOf(t)' = RulesOf(t)
        \/ /\ thread[t].at # "free" /\ RulesOf(t)' = RulesOf(t)
           /\ thread'[t].at \in Working =>
                 thread[t].at \in Working \/ \E w \in Pid : Take(w, t)
    BY <1>2, <1>3, <1>8
  <2> QED
    BY <1>0, <1>1, <2>1, RulesOwned
<1> QED
  BY <1>1, <1>5, <1>6, <1>7, <1>8, ProcessesPass DEF Next

\* A flush composes after it has read the phase, and starts from nothing.
LEMMA BlankKept == ASSUME IInv, Blank, [Next]_vars PROVE Blank'
<1> USE IdleFree
<1> DEFINE B(t) == /\ thread[t].at \in {"waiting", "fired", "taken"} => thread[t].content = Nothing
                   /\ thread[t].at = "composing" => thread[t].content["contract"] = 0
<1>0. Typed /\ Owned /\ thread \in [Thread -> ThreadType]
  BY DEF IInv, Typed, TypeOK, ThreadType
<1>1. ASSUME NEW t \in Thread, thread'[t] = thread[t] \/ thread'[t] = Idle PROVE B(t)'
  BY <1>1 DEF Blank
<1>2. ASSUME NEW w \in Pid, NEW p \in Part, Schedule(w, p), NEW t \in Thread PROVE B(t)'
  <2>1. Started(w).at = "waiting" /\ Started(w).content = Nothing
    BY DEF Started, Idle
  <2> QED
    BY <1>0, <1>1, <1>2, <2>1, ScheduleStarts
<1>3. ASSUME NEW u \in Thread, Fire(u) \/ Flush(u) \/ Fails(u), NEW t \in Thread PROVE B(t)'
  <2>1. CASE t # u
    BY <1>0, <1>1, <1>3, <2>1, FlushStays
  <2>2. ASSUME Fire(t) PROVE B(t)'
    BY <1>0, <2>2 DEF Fire, Blank, ThreadType
  <2>3. ASSUME NEW w \in Pid, Take(w, t) PROVE B(t)'
    BY <1>0, <2>3 DEF Take, Blank, ThreadType
  <2>4. ASSUME LoadPhase(t) \/ Fails(t), thread[t].at = "taken" PROVE B(t)'
    <3>1. thread[t].content = Nothing /\ Nothing["contract"] = 0
      BY <2>4 DEF Blank, Nothing, Part
    <3>2. \A content : /\ Loaded(t, content).at = "composing"
                       /\ Loaded(t, content).content = content
      BY <1>0 DEF Loaded, ThreadType
    <3>3. \A v : [Nothing EXCEPT !["phase"] = v]["contract"] = 0
      BY DEF Nothing, Part
    <3>4. \/ thread' = [thread EXCEPT ![t] =
                 Loaded(t, [thread[t].content EXCEPT !["phase"] = Found(t, "phase")])]
          \/ thread' = [thread EXCEPT ![t] = Loaded(t, thread[t].content)]
      BY <2>4 DEF LoadPhase, Fails
    <3>5. \/ thread'[t] = Loaded(t, [Nothing EXCEPT !["phase"] = Found(t, "phase")])
          \/ thread'[t] = Loaded(t, Nothing)
      BY <1>0, <3>1, <3>4
    <3>6. \E content : thread'[t] = Loaded(t, content) /\ content["contract"] = 0
      BY <3>1, <3>3, <3>5, Zenon
    <3>7. thread'[t].at = "composing" /\ thread'[t].content["contract"] = 0
      BY <3>2, <3>6, Zenon
    <3> QED
      BY <3>7
  <2>5. ASSUME Compose(t) \/ Truncate(t) \/ WriteRules(t) \/ Fails(t), thread[t].at # "taken"
        PROVE  B(t)'
    <3>1. \A content : Regenerates(t, content) = Idle \/ Regenerates(t, content).at = "ready"
      BY <1>0 DEF Regenerates, ThreadType
    <3>2. thread'[t] = Idle \/ thread'[t].at \in {"ready", "truncated"}
      BY <1>0, <2>5, <3>1 DEF Compose, Truncate, WriteRules, Fails, ThreadType
    <3> QED
      BY <3>2
  <2>6. CASE t = u
    <3>1. Compose(t) \/ Truncate(t) \/ WriteRules(t) => thread[t].at # "taken"
      BY DEF Compose, Truncate, WriteRules
    <3>2. LoadPhase(t) => thread[t].at = "taken"
      BY DEF LoadPhase
    <3> QED
      BY <1>3, <2>2, <2>3, <2>4, <2>5, <2>6, <3>1, <3>2 DEF Flush
  <2> QED
    BY <2>1, <2>6
<1>4. ASSUME NEW t \in Thread, UNCHANGED thread \/ \E w \in Pid : Leaves(w) PROVE B(t)'
  BY <1>1, <1>4 DEF Leaves
<1>5. \A t \in Thread : B(t)'
  BY <1>0, <1>2, <1>3, <1>4, WritersLast, ProcessesPass DEF Next, Passes
<1> QED
  BY <1>5 DEF Blank

\* A second flush of the same rules is excused when it takes its events.
LEMMA AloneKept == ASSUME IInv, Alone, [Next]_vars PROVE Alone'
<1> SUFFICES ASSUME NEW t \in Thread, NEW u \in Thread, t # u,
                    thread'[t].at \in Working, thread'[u].at \in Working,
                    RulesOf(t)' = RulesOf(u)'
             PROVE  (excuse[RulesOf(t)] = "torn")'
  BY DEF Alone
<1>1. /\ RulesOf(t)' = RulesOf(t) /\ RulesOf(t) \in Harness
      /\ RulesOf(u)' = RulesOf(u)
      /\ thread[t].at \in Working \/ \E w \in Pid : Take(w, t)
      /\ thread[u].at \in Working \/ \E w \in Pid : Take(w, u)
  BY WorkersStay DEF Working
<1>2. CASE thread[t].at \in Working /\ thread[u].at \in Working
  BY <1>1, <1>2, ExcusesLast DEF Alone, Lasts
<1>3. ASSUME NEW x \in Thread, NEW y \in Thread, x # y, RulesOf(x) \in Harness,
             RulesOf(x) = RulesOf(y), NEW w \in Pid, Take(w, x),
             thread'[x].at \in Working, thread'[y].at \in Working
      PROVE  excuse'[RulesOf(x)] = "torn"
  <2>0. thread \in [Thread -> ThreadType] /\ excuse \in [Harness -> Excuse]
    BY DEF IInv, Typed, TypeOK, ThreadType
  <2>1. thread'[y] = thread[y]
    BY <1>3, <2>0 DEF Take
  <2>2. pending[w] # {}
    BY <1>3, <2>0, IdleFree DEF Take, Working
  <2>3. Overlaps(x)
    BY <1>3, <2>1 DEF Overlaps
  <2> QED
    BY <1>3, <2>0, <2>2, <2>3 DEF Take
<1>4. excuse'[RulesOf(t)] = "torn"
  BY <1>1, <1>2, <1>3
<1> QED
  BY <1>1, <1>4

\* A flush reads the text when no other has truncated the file, and puts back
\* what it read.
LEMMA TextHeldKept ==
    ASSUME IInv, Alone, TextHeld, [Next]_vars PROVE TextHeld'
<1> USE IdleFree, WatcherAssumption
<1> DEFINE Same(t) == thread'[t].text = thread[t].text /\ thread'[t].marks = thread[t].marks
           Reads(t) == /\ thread'[t].text = rules[RulesOf(t)].text
                       /\ thread'[t].marks = rules[RulesOf(t)].marks
           Cut(t, h) == RulesOf(t) = h /\ thread[t].at = "truncated"
           Has(t, h) == RulesOf(t) = h /\ thread[t].at \in {"ready", "truncated"}
           Text(h) == /\ (\E t \in Thread : Cut(t, h)) \/ Holds(h, rules[h])
                      /\ \A t \in Thread : Has(t, h) => Holds(h, thread[t])
<1>0. /\ Typed /\ Owned /\ Lasts /\ thread \in [Thread -> ThreadType]
      /\ rules \in [Harness -> RulesFile]
      /\ edited \in [Harness -> BOOLEAN] /\ cut \in [Harness -> BOOLEAN]
  BY ExcusesLast DEF IInv, Typed, TypeOK, ThreadType
<1>h. "windsurf" \in Harness /\ Shared = {"windsurf"}
  BY DEF Harness, Shared
<1>s. SUFFICES ASSUME NEW h \in Shared, ~edited'[h], excuse'[h] # "torn" PROVE Text(h)'
  BY DEF TextHeld
<1>t. h \in Harness /\ (~edited[h] => Text(h))
  BY <1>0, <1>h, <1>s DEF TextHeld, Lasts
\* A step that leaves the file and the threads that hold its text.
<1>1. ASSUME UNCHANGED <<rules, edits, edited, cut>>,
             \A t \in Thread : Has(t, h)' =>
                 Has(t, h) /\ Same(t),
             \A t \in Thread : Cut(t, h) => Cut(t, h)'
      PROVE  Text(h)'
  <2>1. Text(h)
    BY <1>1, <1>s, <1>t
  <2>2. \A t \in Thread : Has(t, h)' => Holds(h, thread[t])'
    BY <1>1, <2>1 DEF Holds
  <2>3. (\E t \in Thread : Cut(t, h))' \/ Holds(h, rules[h])'
    BY <1>1, <2>1 DEF Holds
  <2> QED
    BY <2>2, <2>3
<1>2. ASSUME UNCHANGED <<rules, edits, edited, cut, thread>>,
             \A t \in Thread : RulesOf(t)' = RulesOf(t)
      PROVE  Text(h)'
  BY <1>1, <1>2
<1>3. ASSUME NEW w \in Pid, Leaves(w) PROVE Text(h)'
  <2>1. \A t \in Thread : Has(t, h)' => Has(t, h) /\ Same(t)
    BY <1>3 DEF Leaves
  <2>2. ASSUME NEW t \in Thread, Cut(t, h) PROVE Cut(t, h)'
    <3>1. thread[t].of \in Pid /\ harness[thread[t].of] = h
      BY <1>0, <1>t, <2>2, RulesOwned DEF RulesOf
    <3>2. thread[t].of # w
      BY <1>3, <1>s, <1>t, <2>2, <3>1 DEF Leaves
    <3> QED
      BY <1>3, <2>2, <3>2 DEF Leaves
  <2>3. UNCHANGED <<rules, edits, edited, cut>>
    BY <1>3 DEF Leaves, files
  <2> QED
    BY <1>1, <2>1, <2>2, <2>3
<1>4. ASSUME NEW w \in Pid, NEW p \in Part, Schedule(w, p) PROVE Text(h)'
  <2>1. Started(w).at = "waiting"
    BY DEF Started, Idle
  <2>2. UNCHANGED <<rules, edits, edited, cut>>
    BY <1>4 DEF Schedule, files
  <2> QED
    BY <1>0, <1>1, <1>4, <2>1, <2>2, ScheduleStarts
<1>5. ASSUME NEW k \in Harness, Edit(k) PROVE Text(h)'
  <2>1. k = h
    BY <1>5, <1>h DEF Edit
  <2>2. \A t \in Thread : ~Has(t, h)
    BY <1>0, <1>5, <1>s, <1>t, <2>1 DEF Edit
  <2>3. UNCHANGED thread /\ \A t \in Thread : RulesOf(t)' = RulesOf(t)
    BY <1>0, <1>5, WritersLast
  <2>4. Holds(h, rules[h])'
    <3>1. edits' \in 0 .. MaxEdits
      BY <1>0, <1>5 DEF Edit, Typed, TypeOK
    <3>2. PICK marks \in Marks :
              /\ rules' = [rules EXCEPT ![h] =
                    [shows |-> IF marks = "none" THEN Nothing ELSE rules[h].shows,
                     text |-> edits', marks |-> marks]]
              /\ cut' = [cut EXCEPT ![h] = marks \in {"openText", "twiceText"}]
      BY <1>0, <1>5, <1>t, <2>1, <3>1, EditChooses DEF Typed
    <3>3. /\ rules'[h].text = edits' /\ rules'[h].marks = marks
          /\ cut'[h] = (marks \in {"openText", "twiceText"})
      BY <1>0, <1>t, <3>2
    <3> QED
      BY <3>3 DEF Holds
  <2> QED
    BY <2>2, <2>3, <2>4
<1>6. CASE (\E p \in Part : WriteBegins(p) \/ WriteEnds(p) \/ Delete(p))
              \/ TempWritten \/ TempReplaces
  <2>1. UNCHANGED thread /\ \A t \in Thread : RulesOf(t)' = RulesOf(t)
    BY <1>0, <1>6, WritersLast
  <2>2. UNCHANGED <<rules, edits, edited, cut>>
    BY <1>6 DEF WriteBegins, WriteEnds, Delete, TempWritten, TempReplaces, files
  <2> QED
    BY <1>2, <2>1, <2>2
\* The steps of a flush: t is the thread that moves.
<1>7. ASSUME NEW t \in Thread, Fire(t) \/ Flush(t) \/ Fails(t) PROVE Text(h)'
  <2>0. /\ \A u \in Thread \ {t} : thread'[u] = thread[u] /\ RulesOf(u)' = RulesOf(u)
        /\ thread'[t] # Idle => RulesOf(t)' = RulesOf(t)
        /\ thread[t].at # "free"
    BY <1>0, <1>7, FlushStays DEF Moves
  <2>1. UNCHANGED <<edits, edited, cut>>
    BY <1>7 DEF Fire, Flush, Take, LoadPhase, Compose, Fails, Truncate, WriteRules, files
  <2>t. Text(h)
    BY <1>s, <1>t, <2>1
  <2>2. ASSUME thread'[t].at \notin {"ready", "truncated"}, ~Cut(t, h), UNCHANGED rules
        PROVE  Text(h)'
    BY <1>1, <2>0, <2>1, <2>2
  <2>3. ASSUME thread[t].at = "composing", thread'[t].at = "ready", UNCHANGED rules,
               Reads(t)
        PROVE  Text(h)'
    <3>1. RulesOf(t)' = RulesOf(t)
      BY <2>0, <2>3
    <3>2. ASSUME RulesOf(t) = h PROVE Holds(h, rules[h])
      <4>1. \A u \in Thread : ~Cut(u, h)
        BY <1>0, <1>s, <1>t, <2>3, <3>2 DEF Alone, Working, Lasts
      <4> QED
        BY <2>t, <4>1
    <3>3. \A u \in Thread : Has(u, h)' => Holds(h, thread[u])'
      BY <2>0, <2>1, <2>t, <2>3, <3>1, <3>2 DEF Holds
    <3>4. \A u \in Thread : Cut(u, h) => Cut(u, h)'
      BY <2>0, <2>3
    <3>5. (\E u \in Thread : Cut(u, h))' \/ Holds(h, rules[h])'
      BY <2>1, <2>3, <2>t, <3>4 DEF Holds
    <3> QED
      BY <3>3, <3>5
  <2>4. ASSUME Truncate(t) PROVE Text(h)'
    <3>1. /\ thread'[t].at = "truncated" /\ Same(t)
          /\ thread[t].at = "ready" /\ RulesOf(t)' = RulesOf(t)
      BY <1>0, <2>0, <2>4 DEF Truncate, ThreadType
    <3>2. RulesOf(t) # h => rules'[h] = rules[h]
      BY <1>0, <1>t, <2>4 DEF Truncate
    <3>3. RulesOf(t) = h => Cut(t, h)'
      BY <3>1
    <3>4. \A u \in Thread : Has(u, h)' => Holds(h, thread[u])'
      BY <2>0, <2>1, <2>t, <3>1 DEF Holds
    <3>5. (\E u \in Thread : Cut(u, h))' \/ Holds(h, rules[h])'
      BY <2>0, <2>1, <2>t, <3>1, <3>2, <3>3 DEF Holds
    <3> QED
      BY <3>4, <3>5
  <2>5. ASSUME WriteRules(t) PROVE Text(h)'
    <3>1. thread'[t] = Idle /\ thread[t].at = "truncated"
      BY <1>0, <2>5 DEF WriteRules
    <3>2. RulesOf(t) # h => rules'[h] = rules[h]
      BY <1>0, <1>t, <2>5 DEF WriteRules
    <3>3. RulesOf(t) = h =>
            /\ rules'[h].text = IF thread[t].marks = "twiceText" THEN 0 ELSE thread[t].text
            /\ rules'[h].marks = Remarked(thread[t].marks)
      BY <1>0, <1>t, <2>5 DEF WriteRules, Regenerated
    <3>4. RulesOf(t) = h => Holds(h, rules[h])'
      <4>1. RulesOf(t) = h => Holds(h, thread[t])
        BY <2>t, <3>1
      <4> QED
        BY <2>1, <3>3, <4>1 DEF Holds, Remarked
    <3>5. \A u \in Thread : Has(u, h)' => Holds(h, thread[u])'
      BY <2>0, <2>1, <2>t, <3>1 DEF Holds
    <3>6. (\E u \in Thread : Cut(u, h))' \/ Holds(h, rules[h])'
      BY <2>0, <2>1, <2>t, <3>1, <3>2, <3>4 DEF Holds
    <3> QED
      BY <3>5, <3>6
  <2>6. ASSUME Fire(t) \/ (\E w \in Pid : Take(w, t)) \/ LoadPhase(t)
                  \/ (Fails(t) /\ thread[t].at # "composing")
        PROVE  Text(h)'
    <3>1. \A content : Loaded(t, content).at = "composing"
      BY <1>0 DEF Loaded, ThreadType
    <3>2. thread'[t].at \notin {"ready", "truncated"}
      <4>1. CASE Fire(t)
        BY <1>0, <4>1 DEF Fire, ThreadType
      <4>2. ASSUME NEW w \in Pid, Take(w, t) PROVE thread'[t].at \notin {"ready", "truncated"}
        BY <1>0, <4>2 DEF Take, ThreadType
      <4>3. CASE LoadPhase(t)
        BY <1>0, <3>1, <4>3 DEF LoadPhase
      <4>4. CASE Fails(t) /\ thread[t].at # "composing"
        BY <1>0, <3>1, <4>4 DEF Fails
      <4> QED
        BY <2>6, <4>1, <4>2, <4>3, <4>4
    <3>3. thread[t].at # "truncated" /\ UNCHANGED rules
      BY <2>6 DEF Fire, Take, LoadPhase, Fails, files
    <3> QED
      BY <2>2, <3>2, <3>3
  <2>7. ASSUME Compose(t) \/ (Fails(t) /\ thread[t].at = "composing") PROVE Text(h)'
    <3>1. \A content : \/ Regenerates(t, content).at = "free"
                       \/ /\ Regenerates(t, content).at = "ready"
                          /\ Regenerates(t, content).text = rules[RulesOf(t)].text
                          /\ Regenerates(t, content).marks = rules[RulesOf(t)].marks
      BY <1>0 DEF Regenerates, ThreadType
    <3>2. \/ thread'[t].at = "free"
          \/ thread'[t].at = "ready" /\ Reads(t)
      BY <1>0, <2>7, <3>1 DEF Compose, Fails
    <3>3. thread[t].at = "composing" /\ UNCHANGED rules
      BY <2>7 DEF Compose, Fails, files
    <3> QED
      BY <2>2, <2>3, <3>2, <3>3
  <2> QED
    BY <1>7, <2>4, <2>5, <2>6, <2>7 DEF Flush
<1>8. ASSUME Passes PROVE Text(h)'
  BY <1>2, <1>8 DEF Passes, files
<1> QED
  BY <1>3, <1>4, <1>5, <1>6, <1>7, <1>8, ProcessesPass DEF Next

\* A part keeps its version, or loses it, or is given the next one.
LEMMA VersionsMove ==
    ASSUME IInv, [Next]_vars, NEW p \in Part
    PROVE  \/ newest'[p] = newest[p] /\ disk'[p] \in {0, disk[p]}
           \/ /\ disk'[p] = newest'[p]
              /\ WriteEnds(p) \/ (p = "phase" /\ TempReplaces)
<1>0. /\ Typed /\ Owned /\ "phase" \in Part
      /\ disk \in [Part -> 0 .. MaxWrites] /\ newest \in [Part -> 0 .. MaxWrites]
  BY DEF IInv, Typed, TypeOK, Part
<1>1. CASE UNCHANGED project
  BY <1>1 DEF project
<1>2. CASE \/ \E q \in Part : WriteBegins(q) \/ WriteEnds(q) \/ Delete(q)
           \/ TempWritten \/ TempReplaces
           \/ \E h \in Harness : Edit(h)
  BY <1>0, <1>2 DEF WriteBegins, WriteEnds, Delete, TempWritten, TempReplaces, Edit, project
<1>3. CASE \/ \E w \in Pid, q \in Part : Schedule(w, q)
           \/ \E t \in Thread : Fire(t) \/ Flush(t) \/ Fails(t)
  BY <1>0, <1>1, <1>3, ScheduleStarts, FlushStays
<1> QED
  BY <1>1, <1>2, <1>3, ProcessesPass DEF Next, Passes, Leaves

\* A flush of the rules of h reads the version of p that is on disk.
Reads(t, h, p) ==
    /\ RulesOf(t) = h /\ p \in thread[t].events
    /\ \/ p = "phase" /\ LoadPhase(t)
       \/ p = "contract" /\ Compose(t)

\* An event stays on its way until a flush reads the part.
LEMMA WayKept ==
    ASSUME IInv, [Next]_vars, NEW h \in Harness, NEW p \in Part,
           OnTheWay(h, p), excuse'[h] = "none"
    PROVE  OnTheWay(h, p)' \/ \E t \in Thread : Reads(t, h, p)
<1> USE WatcherAssumption, IdleFree
<1> DEFINE Waits(w) == harness[w] = h /\ p \in inbox[w] \cup pending[w]
           Works(t) == RulesOf(t) = h /\ Carries(t, p)
<1>0. /\ Typed /\ Owned /\ thread \in [Thread -> ThreadType] /\ NothingForgotten
      /\ inbox \in [Pid -> SUBSET Part] /\ pending \in [Pid -> SUBSET Part]
      /\ excuse \in [Harness -> Excuse]
  BY DEF IInv, Typed, TypeOK, ThreadType
<1>w. (\E w \in Pid : Waits(w)) \/ (\E t \in Thread : Works(t))
  BY DEF OnTheWay
<1>1. ASSUME \A w \in Pid : Waits(w) => Waits(w)' \/ (\E t \in Thread : Works(t))',
             \A t \in Thread : Works(t) => Works(t)'
      PROVE  OnTheWay(h, p)'
  BY <1>1, <1>w DEF OnTheWay
<1>2. CASE \/ \E q \in Part : WriteBegins(q) \/ WriteEnds(q) \/ Delete(q)
           \/ TempWritten \/ TempReplaces
           \/ \E k \in Harness : Edit(k)
  <2>1. UNCHANGED <<harness, pending, thread>> /\ \A t \in Thread : RulesOf(t)' = RulesOf(t)
    BY <1>0, <1>2, WritersLast DEF processes
  <2>2. \A q \in Part, w \in Pid : inbox[w] \subseteq Notify(q)[w]
    BY DEF Notify
  <2>3. \A w \in Pid : inbox[w] \subseteq inbox'[w]
    BY <1>2, <2>2
    DEF WriteBegins, WriteEnds, Delete, TempWritten, TempReplaces, Edit, handlers, Part
  <2>4. \A t \in Thread : Works(t) => Works(t)'
    BY <2>1 DEF Carries
  <2>5. \A w \in Pid : Waits(w) => Waits(w)'
    BY <2>1, <2>3
  <2> QED
    BY <1>1, <2>4, <2>5
<1>3. ASSUME NEW w \in Pid, NEW q \in Part, Schedule(w, q) PROVE OnTheWay(h, p)'
  <2>1. \A v \in Pid : inbox'[v] \cup pending'[v] = inbox[v] \cup pending[v]
    BY <1>0, <1>3 DEF Schedule
  <2>2. \A t \in Thread : Works(t) => thread'[t] = thread[t] /\ RulesOf(t)' = RulesOf(t)
    BY <1>0, <1>3, ScheduleStarts DEF Carries
  <2>3. \A t \in Thread : Works(t) => Works(t)'
    BY <2>2 DEF Carries
  <2>4. \A v \in Pid : Waits(v) => Waits(v)'
    BY <1>3, <2>1 DEF Schedule, processes
  <2> QED
    BY <1>1, <2>3, <2>4
<1>4. ASSUME NEW t \in Thread, Fire(t) \/ Flush(t) \/ Fails(t)
      PROVE  OnTheWay(h, p)' \/ Reads(t, h, p)
  <2>0. /\ \A u \in Thread \ {t} : thread'[u] = thread[u] /\ RulesOf(u)' = RulesOf(u)
        /\ thread'[t] # Idle => RulesOf(t)' = RulesOf(t)
        /\ UNCHANGED <<processes, inbox>>
    BY <1>0, <1>4, FlushStays DEF Moves
  <2>1. \A u \in Thread \ {t} : Works(u) => Works(u)'
    BY <2>0 DEF Carries
  <2>2. ASSUME UNCHANGED pending, ~Works(t) \/ Works(t)' PROVE OnTheWay(h, p)'
    <3>1. \A w \in Pid : Waits(w) => Waits(w)'
      BY <2>0, <2>2 DEF processes
    <3> QED
      BY <1>1, <2>1, <2>2, <3>1
  <2>3. ASSUME NEW w \in Pid, Take(w, t) PROVE OnTheWay(h, p)'
    <3>1. /\ thread[t].of = w /\ thread[t].at = "fired" /\ ~Works(t)
          /\ \A v \in Pid \ {w} : pending'[v] = pending[v]
      BY <1>0, <2>3 DEF Take, Carries
    <3>2. pending[w] # {} =>
              thread'[t].at = "taken" /\ thread'[t].of = w /\ thread'[t].events = pending[w]
      BY <1>0, <2>3 DEF Take, ThreadType
    <3>3. ASSUME harness[w] = h, p \in pending[w] PROVE Works(t)'
      <4>1. RulesOf(t) = h
        BY <3>1, <3>3 DEF RulesOf
      <4> QED
        BY <2>0, <3>2, <3>3, <4>1 DEF Carries
    <3>4. \A v \in Pid : Waits(v) => Waits(v)' \/ Works(t)'
      BY <2>0, <3>1, <3>3 DEF processes
    <3> QED
      BY <1>1, <2>1, <3>1, <3>4
  <2>4. ASSUME Fire(t) \/ Truncate(t) \/ WriteRules(t) PROVE OnTheWay(h, p)'
    BY <2>2, <2>4 DEF Fire, Truncate, WriteRules, Carries
  <2>5. ASSUME Fails(t) PROVE OnTheWay(h, p)'
    <3>1. RulesOf(t) # h
      BY <1>0, <2>5, StaleLasts DEF Fails
    <3> QED
      BY <2>2, <2>5, <3>1 DEF Fails
  <2>6. ASSUME LoadPhase(t) PROVE OnTheWay(h, p)' \/ Reads(t, h, p)
    <3>1. UNCHANGED pending
      BY <2>6 DEF LoadPhase
    <3>2. ASSUME Works(t), p # "phase" PROVE Works(t)'
      <4>1. \A content : /\ Loaded(t, content).at = "composing"
                         /\ Loaded(t, content).events = thread[t].events \ {"phase"}
        BY <1>0 DEF Loaded, ThreadType
      <4>2. thread'[t].at = "composing" /\ thread'[t].events = thread[t].events \ {"phase"}
        BY <1>0, <2>6, <4>1 DEF LoadPhase
      <4>3. p = "contract" /\ p \in thread'[t].events /\ RulesOf(t)' = h
        BY <2>0, <3>2, <4>2 DEF Carries, Part
      <4> QED
        BY <4>2, <4>3 DEF Carries
    <3>3. Works(t) /\ p = "phase" => Reads(t, h, p)
      BY <2>6 DEF Reads, Carries
    <3> QED
      BY <2>2, <3>1, <3>2, <3>3
  <2>7. ASSUME Compose(t) PROVE OnTheWay(h, p)' \/ Reads(t, h, p)
    <3>1. UNCHANGED pending /\ thread[t].at = "composing"
      BY <2>7 DEF Compose
    <3>2. Works(t) => Reads(t, h, p)
      BY <2>7, <3>1 DEF Carries, Reads
    <3> QED
      BY <2>2, <3>1, <3>2
  <2> QED
    BY <1>4, <2>3, <2>4, <2>5, <2>6, <2>7 DEF Flush
<1>5. ASSUME NEW w \in Pid, Leaves(w) PROVE OnTheWay(h, p)'
  <2>1. CASE harness[w] = h
    <3>1. inbox[w] = {} /\ \A t \in Thread : thread[t].of # w
      BY <1>5, <2>1 DEF Leaves
    <3>2. pending[w] = {}
      BY <1>0, <3>1 DEF NothingForgotten
    <3>3. \A t \in Thread : Works(t) => Works(t)'
      BY <1>5, <3>1 DEF Leaves, Carries
    <3>4. \A v \in Pid : Waits(v) => Waits(v)'
      BY <1>5, <3>1, <3>2 DEF Leaves
    <3> QED
      BY <1>1, <3>3, <3>4
  <2>2. CASE harness[w] # h
    <3>1. \A t \in Thread : Works(t) => thread[t].of # w
      BY <2>2 DEF RulesOf
    <3>2. \A t \in Thread : Works(t) => Works(t)'
      BY <1>5, <3>1 DEF Leaves, Carries
    <3>3. \A v \in Pid : Waits(v) => Waits(v)'
      BY <1>5, <2>2 DEF Leaves
    <3> QED
      BY <1>1, <3>2, <3>3
  <2> QED
    BY <2>1, <2>2
<1>6. ASSUME Passes PROVE OnTheWay(h, p)'
  BY <1>6 DEF Passes
<1> QED
  BY <1>2, <1>3, <1>4, <1>5, <1>6, ProcessesPass DEF Next

\* Who watches is told of a new version, and of phase.tmp before the phase is
\* moved.
LEMMA NewVersionsAnnounced ==
    ASSUME IInv, TempAnnounced, [Next]_vars, NEW h \in Harness, NEW p \in Part,
           excuse'[h] = "none", WriteEnds(p) \/ (p = "phase" /\ TempReplaces)
    PROVE  OnTheWay(h, p)'
<1>0. /\ Typed /\ Lasts /\ inbox \in [Pid -> SUBSET Part] /\ excuse \in [Harness -> Excuse]
  BY ExcusesLast DEF IInv, Typed, TypeOK
<1>1. Watched(h)
  <2>1. excuse' = Stale(Unwatched)
    BY DEF WriteEnds, TempReplaces
  <2> QED
    BY <1>0, <2>1, StaleLasts DEF Unwatched
<1>2. CASE WriteEnds(p)
  <2>1. PICK w \in Pid : Observing(w) /\ harness[w] = h
    BY <1>1 DEF Watched
  <2>2. p \in inbox'[w] /\ harness'[w] = h
    BY <1>0, <1>2, <2>1 DEF WriteEnds, Notify, processes
  <2> QED
    BY <2>2 DEF OnTheWay
<1>3. CASE p = "phase" /\ TempReplaces
  <2>1. OnTheWay(h, p)
    BY <1>0, <1>3 DEF TempReplaces, TempAnnounced, Lasts
  <2>2. \A t \in Thread : RulesOf(t)' = RulesOf(t)
    BY <1>0, <1>3, WritersLast
  <2>3. UNCHANGED <<harness, inbox, pending, thread>>
    BY <1>3 DEF TempReplaces, processes, handlers
  <2> QED
    BY <2>1, <2>2, <2>3 DEF OnTheWay, Carries
<1> QED
  BY <1>2, <1>3

\* The phase is not read between phase.tmp and the phase without an excuse.
LEMMA TempAnnouncedKept ==
    ASSUME IInv, TempAnnounced, [Next]_vars PROVE TempAnnounced'
<1> SUFFICES ASSUME writer'["phase"] = "temp", NEW h \in Harness, excuse'[h] = "none"
             PROVE  OnTheWay(h, "phase")'
  BY DEF TempAnnounced
<1>0. /\ Typed /\ Owned /\ Lasts /\ "phase" \in Part
      /\ inbox \in [Pid -> SUBSET Part] /\ excuse \in [Harness -> Excuse]
      /\ writer \in [Part -> {"none", "direct", "temp"}]
  BY ExcusesLast DEF IInv, Typed, TypeOK, Part
<1>1. CASE TempWritten
  <2>1. excuse' = Stale(Unwatched)
    BY <1>1 DEF TempWritten
  <2>2. PICK w \in Pid : Observing(w) /\ harness[w] = h
    BY <1>0, <2>1, StaleLasts DEF Unwatched, Watched
  <2>3. "phase" \in inbox'[w] /\ harness'[w] = h
    BY <1>0, <1>1, <2>2 DEF TempWritten, Notify, processes
  <2> QED
    BY <1>0, <2>3 DEF OnTheWay
<1>2. CASE writer["phase"] = "temp"
  <2>1. OnTheWay(h, "phase")
    BY <1>0, <1>2 DEF TempAnnounced, Lasts
  <2>2. ASSUME NEW t \in Thread PROVE ~Reads(t, h, "phase")
    <3>1. SUFFICES ASSUME Reads(t, h, "phase") PROVE FALSE
      OBVIOUS
    <3>2. LoadPhase(t) /\ RulesOf(t) = h /\ "phase" \in thread[t].events
      BY <3>1 DEF Reads
    <3>3. excuse' = Stale({h})
      BY <1>2, <3>2 DEF LoadPhase
    <3> QED
      BY <1>0, <3>3, StaleLasts
  <2> QED
    BY <1>0, <2>1, <2>2, WayKept
<1>3. writer["phase"] = "temp" \/ TempWritten
  <2>1. CASE UNCHANGED project
    BY <2>1 DEF project
  <2>2. CASE \/ \E q \in Part : WriteBegins(q) \/ WriteEnds(q) \/ Delete(q)
             \/ TempWritten \/ TempReplaces
             \/ \E k \in Harness : Edit(k)
    BY <1>0, <2>2 DEF WriteBegins, WriteEnds, Delete, TempReplaces, Edit, project
  <2>3. CASE \/ \E w \in Pid, q \in Part : Schedule(w, q)
             \/ \E t \in Thread : Fire(t) \/ Flush(t) \/ Fails(t)
    BY <1>0, <2>1, <2>3, ScheduleStarts, FlushStays
  <2> QED
    BY <2>1, <2>2, <2>3, ProcessesPass DEF Next, Passes, Leaves
<1> QED
  BY <1>1, <1>2, <1>3

\* What may be shown may be shown still, unless a flush reads the part.
LEMMA GoodKept ==
    ASSUME IInv, TempAnnounced, [Next]_vars, NEW h \in Harness, NEW p \in Part, NEW v,
           Good(h, p, v), excuse'[h] = "none"
    PROVE  Good(h, p, v)' \/ \E t \in Thread : Reads(t, h, p)
<1>1. CASE WriteEnds(p) \/ (p = "phase" /\ TempReplaces)
  <2>1. OnTheWay(h, p)'
    BY <1>1, NewVersionsAnnounced
  <2> QED
    BY <2>1 DEF Good
<1>2. CASE newest'[p] = newest[p] /\ disk'[p] \in {0, disk[p]}
  BY <1>2, WayKept DEF Good
<1> QED
  BY <1>1, <1>2, VersionsMove

\* A flush that will bring the newest version brings it, unless there is a newer
\* one.
LEMMA BringsKept ==
    ASSUME IInv, Blank, [Next]_vars, NEW h \in Harness, NEW p \in Part,
           newest'[p] = newest[p], Brings(h, p), excuse'[h] = "none"
    PROVE  \/ Brings(h, p)'
           \/ \E t \in Thread : /\ WriteRules(t) /\ RulesOf(t) = h
                                /\ thread[t].content[p] = newest[p]
<1> USE IdleFree, WatcherAssumption
<1>0. /\ Typed /\ Owned /\ thread \in [Thread -> ThreadType] /\ excuse \in [Harness -> Excuse]
      /\ newest \in [Part -> 0 .. MaxWrites]
  BY DEF IInv, Typed, TypeOK, ThreadType
<1>1. PICK t \in Thread : /\ RulesOf(t) = h /\ Late(t)
                          /\ newest[p] # 0 /\ thread[t].content[p] = newest[p]
  BY DEF Brings
<1>2. ASSUME Late(t)', RulesOf(t)' = RulesOf(t), thread'[t].content[p] = thread[t].content[p]
      PROVE  Brings(h, p)'
  BY <1>1, <1>2 DEF Brings
<1>3. ASSUME thread'[t] = thread[t], RulesOf(t)' = RulesOf(t) PROVE Brings(h, p)'
  BY <1>1, <1>2, <1>3 DEF Late
<1>4. ASSUME NEW w \in Pid, NEW q \in Part, Schedule(w, q) PROVE Brings(h, p)'
  BY <1>0, <1>1, <1>3, <1>4, ScheduleStarts DEF Late
<1>5. ASSUME NEW u \in Thread, u # t, Fire(u) \/ Flush(u) \/ Fails(u) PROVE Brings(h, p)'
  BY <1>0, <1>3, <1>5, FlushStays
<1>6. ASSUME Truncate(t) PROVE Brings(h, p)'
  <2>1. thread'[t].at = "truncated" /\ thread'[t].content = thread[t].content
    BY <1>0, <1>6 DEF Truncate, ThreadType
  <2> QED
    BY <1>0, <1>2, <1>6, <2>1, FlushStays DEF Flush, Late
<1>7. ASSUME Compose(t) PROVE Brings(h, p)'
  <2> DEFINE content == [thread[t].content EXCEPT !["contract"] = Found(t, "contract")]
  <2>1. p = "phase"
    BY <1>1, <1>7 DEF Compose, Blank, Part
  <2>2. content[p] = thread[t].content[p]
    BY <1>0, <2>1 DEF ThreadType
  <2>3. content # Nothing
    BY <1>1, <2>2 DEF Nothing
  <2> HIDE DEF content
  <2>4. /\ Regenerates(t, content).at = "ready"
        /\ Regenerates(t, content).content = content
    BY <1>0, <2>3 DEF Regenerates, ThreadType
  <2>5. thread'[t].at = "ready" /\ thread'[t].content = content
    BY <1>0, <1>7, <2>4 DEF Compose, content
  <2> QED
    BY <1>0, <1>2, <1>7, <2>2, <2>5, FlushStays DEF Flush, Late
<1>8. ASSUME Fire(t) \/ (\E w \in Pid : Take(w, t)) \/ LoadPhase(t) PROVE FALSE
  BY <1>1, <1>8 DEF Fire, Take, LoadPhase, Late
<1>9. ASSUME Fails(t) PROVE FALSE
  BY <1>0, <1>1, <1>9, StaleLasts DEF Fails
<1>10. ASSUME NEW w \in Pid, Leaves(w) PROVE Brings(h, p)'
  <2>1. thread[t].of # w
    BY <1>1, <1>10 DEF Leaves, RulesOf
  <2> QED
    BY <1>3, <1>10, <2>1 DEF Leaves
<1>11. CASE UNCHANGED thread /\ \A u \in Thread : RulesOf(u)' = RulesOf(u)
  BY <1>3, <1>11
<1> QED
  BY <1>0, <1>1, <1>4, <1>5, <1>6, <1>7, <1>8, <1>9, <1>10, <1>11, WritersLast, ProcessesPass
  DEF Next, Flush, Passes

\* A flush that reads a part has its version on disk, and goes on with it if
\* there is one.
LEMMA ReadsDisk ==
    ASSUME IInv, NEW h \in Harness, NEW p \in Part, NEW t \in Thread, Reads(t, h, p)
    PROVE  /\ UNCHANGED project
           /\ Late(t)' => thread'[t].content[p] = disk[p]
           /\ disk[p] # 0 => Late(t)' /\ RulesOf(t)' = h
<1> USE IdleFree
<1>0. /\ Typed /\ Owned /\ thread \in [Thread -> ThreadType]
      /\ disk \in [Part -> 0 .. MaxWrites]
  BY DEF IInv, Typed, TypeOK, ThreadType
<1>1. Found(t, p) = disk[p]
  BY DEF Reads, Found
<1>2. UNCHANGED project /\ (thread'[t] # Idle => RulesOf(t)' = h)
  BY <1>0, FlushStays DEF Reads, Flush
<1> DEFINE content == [thread[t].content EXCEPT ![p] = Found(t, p)]
<1>3. content[p] = disk[p]
  BY <1>0, <1>1 DEF ThreadType
<1>4. CASE p = "phase" /\ LoadPhase(t)
  <2>1. \A c : Loaded(t, c).at = "composing" /\ Loaded(t, c).content = c
    BY <1>0 DEF Loaded, ThreadType
  <2>2. thread' = [thread EXCEPT ![t] = Loaded(t, content)]
    BY <1>4 DEF LoadPhase
  <2> HIDE DEF content
  <2>3. thread'[t].at = "composing" /\ thread'[t].content = content
    BY <1>0, <2>1, <2>2
  <2> QED
    BY <1>2, <1>3, <2>3 DEF Late
<1>5. CASE p = "contract" /\ Compose(t)
  <2>1. \A c : \/ c = Nothing /\ Regenerates(t, c) = Idle
               \/ Regenerates(t, c).at = "ready" /\ Regenerates(t, c).content = c
    BY <1>0 DEF Regenerates, ThreadType
  <2>2. thread' = [thread EXCEPT ![t] = Regenerates(t, content)]
    BY <1>5 DEF Compose
  <2> HIDE DEF content
  <2>3. \/ content = Nothing /\ thread'[t] = Idle
        \/ thread'[t].at = "ready" /\ thread'[t].content = content
    BY <1>0, <2>1, <2>2
  <2>4. content = Nothing => disk[p] = 0
    BY <1>3 DEF Nothing
  <2> QED
    BY <1>2, <1>3, <2>3, <2>4 DEF Late
<1> QED
  BY <1>4, <1>5 DEF Reads

\* So what may be shown may be shown still, or a flush brings what is newest.
LEMMA GoodOrBrings ==
    ASSUME IInv, DiskIsNewest, TempAnnounced, [Next]_vars, NEW h \in Harness, NEW p \in Part,
           NEW v, Good(h, p, v), excuse'[h] = "none"
    PROVE  Good(h, p, v)' \/ Brings(h, p)'
<1>1. CASE \E t \in Thread : Reads(t, h, p)
  <2>1. PICK t \in Thread : Reads(t, h, p)
    BY <1>1
  <2>2. CASE disk[p] = 0
    BY <2>1, <2>2, ReadsDisk DEF Good, project
  <2>3. CASE disk[p] # 0
    <3>1. Late(t)' /\ RulesOf(t)' = h /\ thread'[t].content[p] = disk[p]
      BY <2>1, <2>3, ReadsDisk
    <3>2. newest'[p] = disk[p]
      BY <2>1, <2>3, ReadsDisk DEF DiskIsNewest, project
    <3> QED
      BY <2>3, <3>1, <3>2 DEF Brings
  <2> QED
    BY <2>2, <2>3
<1> QED
  BY <1>1, GoodKept

\* What rules show changes when a flush truncates or writes them.
LEMMA RulesMove ==
    ASSUME IInv, [Next]_vars, NEW h \in Harness
    PROVE  \/ rules'[h].shows \in {rules[h].shows, Nothing}
           \/ \E t \in Thread : /\ WriteRules(t) /\ RulesOf(t) = h
                                /\ rules'[h].shows = thread[t].content
<1>0. /\ Typed /\ Owned
      /\ rules \in [Harness -> RulesFile]
  BY DEF IInv, Typed, TypeOK
<1>1. CASE UNCHANGED files
  BY <1>1 DEF files
<1>2. CASE \/ \E p \in Part : WriteBegins(p) \/ WriteEnds(p) \/ Delete(p)
           \/ TempWritten \/ TempReplaces
  BY <1>1, <1>2 DEF WriteBegins, WriteEnds, Delete, TempWritten, TempReplaces
<1>3. ASSUME NEW k \in Harness, Edit(k) PROVE rules'[h].shows \in {rules[h].shows, Nothing}
  BY <1>0, <1>3 DEF Edit
<1>4. ASSUME NEW w \in Pid, NEW p \in Part, Schedule(w, p) PROVE rules'[h] = rules[h]
  BY <1>0, <1>4, ScheduleStarts DEF files
<1>5. ASSUME NEW t \in Thread, Fire(t) \/ Flush(t) \/ Fails(t)
      PROVE  \/ rules'[h].shows \in {rules[h].shows, Nothing}
             \/ /\ WriteRules(t) /\ RulesOf(t) = h
                /\ rules'[h].shows = thread[t].content
  <2>1. CASE Truncate(t)
    BY <1>0, <2>1 DEF Truncate, Empty
  <2>2. CASE WriteRules(t)
    BY <1>0, <2>2 DEF WriteRules, Regenerated
  <2> QED
    <3>1. ASSUME NEW w \in Pid, Take(w, t) PROVE UNCHANGED files
      BY <3>1 DEF Take
    <3>2. Fire(t) \/ LoadPhase(t) \/ Compose(t) \/ Fails(t) => UNCHANGED files
      BY DEF Fire, LoadPhase, Compose, Fails
    <3> QED
      BY <1>5, <2>1, <2>2, <3>1, <3>2 DEF Flush, files
<1> QED
  BY <1>1, <1>2, <1>3, <1>4, <1>5, ProcessesPass DEF Next, Passes, Leaves

LEMMA RulesGoodKept ==
    ASSUME IInv, Blank, Current, [Next]_vars PROVE RulesGood'
<1> SUFFICES ASSUME NEW h \in Harness, NEW p \in Part, excuse'[h] = "none"
             PROVE  (Good(h, p, rules[h].shows[p]) \/ Brings(h, p))'
  BY DEF RulesGood
<1> DEFINE shown == rules'[h].shows[p]
<1>0. DiskIsNewest /\ TempAnnounced /\ RulesGood /\ ContentGood
  BY DEF Current
<1>1. excuse[h] = "none"
  BY ExcusesLast DEF Lasts
<1>2. ASSUME NEW v, v = shown, Good(h, p, v)' \/ Brings(h, p)'
      PROVE  (Good(h, p, rules[h].shows[p]) \/ Brings(h, p))'
  BY <1>2 DEF Good
<1>3. CASE shown = rules[h].shows[p]
  <2>1. CASE Good(h, p, rules[h].shows[p])
    BY <1>0, <1>2, <1>3, <2>1, GoodOrBrings
  <2>2. CASE Brings(h, p) /\ newest'[p] = newest[p]
    <3>1. ASSUME NEW t \in Thread, WriteRules(t), RulesOf(t) = h,
                 thread[t].content[p] = newest[p]
          PROVE  shown = newest'[p]
      BY <2>2, <3>1 DEF WriteRules, Regenerated, IInv, Typed, TypeOK
    <3>2. Brings(h, p)' \/ shown = newest'[p]
      BY <2>2, <3>1, BringsKept
    <3> QED
      BY <3>2 DEF Good
  <2>3. CASE newest'[p] # newest[p]
    <3>1. OnTheWay(h, p)'
      BY <1>0, <2>3, VersionsMove, NewVersionsAnnounced
    <3> QED
      BY <3>1 DEF Good
  <2> QED
    BY <1>0, <1>1, <2>1, <2>2, <2>3 DEF RulesGood
<1>4. CASE rules'[h].shows = Nothing
  BY <1>4 DEF Good, Nothing
<1>5. ASSUME NEW t \in Thread, WriteRules(t), RulesOf(t) = h,
             rules'[h].shows = thread[t].content
      PROVE  (Good(h, p, rules[h].shows[p]) \/ Brings(h, p))'
  <2>1. Good(h, p, thread[t].content[p])
    BY <1>0, <1>1, <1>5 DEF ContentGood, Late, WriteRules
  <2> QED
    BY <1>0, <1>2, <1>5, <2>1, GoodOrBrings
<1> QED
  BY <1>3, <1>4, <1>5, RulesMove

\* A flush keeps what it has read, or reads a part.
LEMMA ContentMoves ==
    ASSUME IInv, Blank, [Next]_vars, NEW t \in Thread, NEW p \in Part, Late(t)'
    PROVE  \/ Late(t) /\ (thread'[t].content[p] = thread[t].content[p])
           \/ thread'[t].content[p] = 0
           \/ \E h \in Harness : Reads(t, h, p)
           \/ Fails(t)
<1> USE IdleFree
<1>0. Typed /\ Owned /\ thread \in [Thread -> ThreadType]
  BY DEF IInv, Typed, TypeOK, ThreadType
<1>1. thread[t].at # "free" /\ RulesOf(t) \in Harness
  BY WorkersStay DEF Late
<1>2. CASE thread'[t] = thread[t]
  BY <1>2 DEF Late
<1>3. ASSUME NEW w \in Pid, NEW q \in Part, Schedule(w, q) PROVE thread'[t] = thread[t]
  <2>1. Started(w).at = "waiting"
    BY DEF Started, Idle
  <2> QED
    BY <1>0, <1>3, <2>1, ScheduleStarts DEF Late
<1>4. ASSUME NEW u \in Thread, u # t, Fire(u) \/ Flush(u) \/ Fails(u)
      PROVE  thread'[t] = thread[t]
  BY <1>0, <1>4, FlushStays
<1>5. ASSUME Fire(t) \/ (\E w \in Pid : Take(w, t)) \/ WriteRules(t) PROVE FALSE
  <2>1. ~Fire(t)
    BY <1>0 DEF Fire, Late, ThreadType
  <2>2. ASSUME NEW w \in Pid, Take(w, t) PROVE FALSE
    BY <1>0, <2>2 DEF Take, Late, ThreadType
  <2>3. ~WriteRules(t)
    BY <1>0 DEF WriteRules, Late
  <2> QED
    BY <1>5, <2>1, <2>2, <2>3
<1>6. ASSUME Truncate(t)
      PROVE  Late(t) /\ (thread'[t].content[p] = thread[t].content[p])
  BY <1>0, <1>6 DEF Truncate, Late, ThreadType
\* What is read of a part that no event names is nothing.
<1>7. ASSUME LoadPhase(t)
      PROVE  thread'[t].content[p] = 0 \/ Reads(t, RulesOf(t), p)
  <2> DEFINE content == [Nothing EXCEPT !["phase"] = Found(t, "phase")]
  <2>1. thread[t].content = Nothing
    BY <1>7 DEF LoadPhase, Blank
  <2>2. Loaded(t, content).content = content
    BY <1>0 DEF Loaded, ThreadType
  <2>3. thread'[t].content = content
    BY <1>0, <1>7, <2>1, <2>2 DEF LoadPhase
  <2>4. content[p] = IF p = "phase" THEN Found(t, "phase") ELSE 0
    BY DEF Nothing, Part
  <2> QED
    BY <1>7, <2>3, <2>4 DEF Found, Reads
<1>8. ASSUME Compose(t)
      PROVE  \/ Late(t) /\ (thread'[t].content[p] = thread[t].content[p])
             \/ thread'[t].content[p] = 0
             \/ Reads(t, RulesOf(t), p)
  <2> DEFINE content == [thread[t].content EXCEPT !["contract"] = Found(t, "contract")]
  <2>1. content[p] = IF p = "contract" THEN Found(t, "contract") ELSE thread[t].content[p]
    BY <1>0 DEF ThreadType
  <2> HIDE DEF content
  <2>2. Regenerates(t, content) = Idle \/ Regenerates(t, content).content = content
    BY <1>0 DEF Regenerates, ThreadType
  <2>3. thread'[t].content = content
    BY <1>0, <1>8, <2>2 DEF Compose, Late, content
  <2> QED
    BY <1>8, <2>1, <2>3 DEF Found, Reads, Late, Compose
<1>9. ASSUME \E u \in Thread : Fire(u) \/ Flush(u) \/ Fails(u)
      PROVE  \/ Late(t) /\ (thread'[t].content[p] = thread[t].content[p])
             \/ thread'[t].content[p] = 0
             \/ \E h \in Harness : Reads(t, h, p)
             \/ Fails(t)
  BY <1>1, <1>2, <1>4, <1>5, <1>6, <1>7, <1>8, <1>9 DEF Flush
<1>10. ASSUME NEW w \in Pid, Leaves(w) PROVE thread'[t] = thread[t]
  BY <1>10 DEF Leaves, Late
<1> QED
  BY <1>0, <1>2, <1>3, <1>9, <1>10, WritersLast, ProcessesPass DEF Next, Passes

LEMMA ContentGoodKept ==
    ASSUME IInv, Blank, Alone, Current, [Next]_vars PROVE ContentGood'
<1> SUFFICES ASSUME NEW t \in Thread, NEW p \in Part, Late(t)', excuse'[RulesOf(t)'] = "none"
             PROVE  Good(RulesOf(t), p, thread[t].content[p])'
  BY DEF ContentGood
<1>0. /\ DiskIsNewest /\ TempAnnounced /\ ContentGood
      /\ Typed /\ excuse \in [Harness -> Excuse]
  BY DEF Current, IInv, Typed, TypeOK
<1>1. PICK h \in Harness : h = RulesOf(t) /\ RulesOf(t)' = h
  BY WorkersStay DEF Late
<1>2. excuse'[h] = "none" /\ excuse[h] = "none"
  BY <1>1, ExcusesLast DEF Lasts
<1>3. ASSUME NEW v, v = thread'[t].content[p], Good(h, p, v)'
      PROVE  Good(RulesOf(t), p, thread[t].content[p])'
  BY <1>1, <1>3 DEF Good
<1>4. CASE thread'[t].content[p] = 0
  BY <1>4 DEF Good
<1>5. CASE \E k \in Harness : Reads(t, k, p)
  <2>1. /\ thread'[t].content[p] = disk[p]
        /\ UNCHANGED project
    BY <1>5, ReadsDisk
  <2> QED
    BY <1>0, <2>1 DEF Good, DiskIsNewest, project
\* Another flush of the same rules is one too many.
<1>6. CASE Late(t) /\ (thread'[t].content[p] = thread[t].content[p])
  <2>1. Good(h, p, thread[t].content[p])
    BY <1>0, <1>1, <1>2, <1>6 DEF ContentGood
  <2>2. ASSUME NEW u \in Thread, u # t, Reads(u, h, p) PROVE FALSE
    BY <1>1, <1>2, <1>6, <2>2 DEF Alone, Reads, LoadPhase, Compose, Late, Working
  <2>3. (\E u \in Thread : Reads(u, h, p)) => \E k \in Harness : Reads(t, k, p)
    BY <2>2
  <2>4. ASSUME NEW v, v = thread[t].content[p] PROVE Good(h, p, v)' \/ \E u \in Thread : Reads(u, h, p)
    BY <1>0, <1>2, <2>1, <2>4, GoodKept
  <2> QED
    BY <1>3, <1>5, <1>6, <2>3, <2>4
<1>7. CASE Fails(t)
  BY <1>0, <1>1, <1>2, <1>7, StaleLasts DEF Fails
<1> QED
  BY <1>4, <1>5, <1>6, <1>7, ContentMoves

\* What is on disk is the newest version, or none.
LEMMA CurrentKept ==
    ASSUME IInv, Blank, Alone, Current, [Next]_vars PROVE Current'
<1>1. DiskIsNewest'
  BY VersionsMove DEF Current, DiskIsNewest
<1>2. TempAnnounced'
  BY TempAnnouncedKept DEF Current
<1> QED
  BY <1>1, <1>2, RulesGoodKept, ContentGoodKept DEF Current

-----------------------------------------------------------------------------
\* What flushes read and write, for which the invariant above says whose the
\* threads and the events are.
FlushInv == Blank /\ Alone /\ TextHeld /\ Current

LEMMA InitFlushInv == Init => FlushInv
<1> SUFFICES ASSUME Init PROVE FlushInv
  OBVIOUS
<1>1. \A t \in Thread : thread[t].at = "free"
  BY DEF Init, Idle
<1>2. Blank /\ Alone
  BY <1>1 DEF Blank, Alone, Working
<1>3. TextHeld
  BY <1>1 DEF TextHeld, Init, Shared, Harness, Empty, Holds
<1>4. DiskIsNewest /\ TempAnnounced
  BY DEF Init, DiskIsNewest, TempAnnounced, Nothing, Part
<1>5. RulesGood /\ ContentGood
  BY <1>1 DEF Init, RulesGood, ContentGood, Late, Good, Nothing
<1> QED
  BY <1>2, <1>3, <1>4, <1>5 DEF FlushInv, Current

\* What rules show and the text around it may be, while flushes interleave.
THEOREM FlushInvariant == Spec => []FlushInv
<1>1. Init => FlushInv
  BY InitFlushInv
<1>2. IInv /\ FlushInv /\ [Next]_vars => FlushInv'
  BY BlankKept, AloneKept, TextHeldKept, CurrentKept DEF FlushInv
<1> QED
  BY <1>1, <1>2, WatcherInvariant, PTL DEF Spec

\* update_block: what the user wrote last is in the file, or it was written after
\* a flush had read the file, or a flush read what another had truncated, or a
\* process ended with the file truncated, or the user left it below a BEGIN
\* without its END, and two flushes have made one block of that since.
THEOREM UserTextIsKept == Spec => []UserTextKept
<1>1. FlushInv => UserTextKept
  BY DEF FlushInv, TextHeld, Holds, UserTextKept
<1> QED
  BY <1>1, FlushInvariant, PTL

\* watcher.py:3-6, "keeps their static rules files in sync": once all is done,
\* rules that are not excused show no older version than the disk has.
THEOREM RulesAreCurrent == Spec => []QuietIsCurrent
<1>1. IInv /\ FlushInv => QuietIsCurrent
  <2> SUFFICES ASSUME IInv, FlushInv, Quiet, NEW h \in Harness, NEW p \in Part,
                      excuse[h] = "none", rules[h].shows[p] # 0, disk[p] # 0
               PROVE  rules[h].shows[p] = disk[p]
    BY DEF QuietIsCurrent
  <2>1. \A w \in Pid : inbox[w] = {} /\ pending[w] = {}
    BY DEF IInv, NothingForgotten, Quiet
  <2>2. ~OnTheWay(h, p) /\ ~Brings(h, p)
    BY <2>1 DEF OnTheWay, Carries, Brings, Late, Quiet
  <2>3. rules[h].shows[p] = newest[p]
    BY <2>2 DEF FlushInv, Current, RulesGood, Good
  <2> QED
    BY <2>3 DEF FlushInv, Current, DiskIsNewest
<1> QED
  BY <1>1, WatcherInvariant, FlushInvariant, PTL
=============================================================================
