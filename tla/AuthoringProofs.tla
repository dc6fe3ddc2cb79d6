---------------------------- MODULE AuthoringProofs ----------------------------
(***************************************************************************)
(* The types of the authoring pipeline, and that no id is sent back more   *)
(* often than the budget allows, for any sources, ids, budget and kills.   *)
(* The count lives in memory while the gate may be passed and in the file  *)
(* at other times; a kill loses at most what the memory holds, and that    *)
(* never exceeds the budget.  Then that no draft is lost, that each is     *)
(* revised with its own report, and what a run leaves when it ends well.   *)
(***************************************************************************)
EXTENDS Authoring, TLAPS

\* The count that is up to date.
Count == IF StoreOpen THEN mem ELSE disk

\* When which count is: no command runs in phase `idle' alone, a skill that is
\* processed alone begins with what is saved, and its revision has a draft.
PhaseInv ==
    /\ cmd = None <=> phase = "idle"
    /\ cmd = "single" /\ phase = "author" => mem = disk
    /\ cmd = "single" /\ phase = "revise" => todo # {}
    /\ phase \in {"report", "unlink", "tidy"} => hand # None

\* What was sent back is counted, but for what kills have lost.
Counted == \A i \in Id : revisions[i] <= Budget * faults + Count[i]

IInv == TypeOK /\ PhaseInv /\ Counted

\* A finding is sent to one of four directories, and back only within the budget.
LEMMA RouteTo ==
    ASSUME NEW i \in Id, NEW finding \in Finding(i), NEW b \in 0 .. Budget
    PROVE  /\ Route(finding, b) \in Dir
           /\ Route(finding, b) = "revision" => b < Budget
<1>1. finding \in {"unreadable", "errors", "duplicate"} \cup CriticVerdict
  BY DEF Finding
<1> QED
  BY <1>1 DEF Route, CriticVerdict, Dir

\* The commands begin and end with types kept.
LEMMA InitIInv == Init => IInv
<1> SUFFICES ASSUME Init PROVE IInv
  OBVIOUS
<1> USE AuthoringAssumption
<1>1. TypeOK
  <2>1. corpus \in [Id -> Source \cup {None, Torn, Bundled}]
    BY DEF Init
  <2>2. draft \in [Dir -> [Id -> Source \cup {None, Torn}]]
    BY DEF Init
  <2>3. NoBounces \in Bounces
    BY DEF NoBounces, Bounces
  <2>4. /\ report \in [Id -> {"none", "fresh", "stale"}]
        /\ revisions \in [Id -> Nat]
    BY DEF Init
  <2>5. disk \in Bounces /\ mem \in Bounces
    BY <2>3 DEF Init
  <2>6. /\ sources \subseteq Source /\ todo \subseteq Id
        /\ hand \in [id : Id, to : Dir] \cup {None}
        /\ cmd \in Command \cup {None}
        /\ round \in 0 .. MaxRounds + Budget + 1
        /\ faults \in 0 .. MaxFaults /\ commands \in 0 .. MaxCommands
    BY DEF Init
  <2> QED
    BY <2>1, <2>2, <2>4, <2>5, <2>6 DEF Init, TypeOK
<1>2. PhaseInv
  BY DEF Init, PhaseInv
<1>3. Counted
  <2>1. \A i \in Id : revisions[i] = 0 /\ Count[i] = 0
    BY DEF Init, Count, StoreOpen, NoBounces
  <2>2. Budget * faults = 0
    BY DEF Init
  <2> QED
    BY <2>1, <2>2 DEF Counted
<1> QED
  BY <1>1, <1>2, <1>3 DEF IInv

\* The start of a command.
LEMMA StartKeeps == IInv /\ Start => IInv'
<1> SUFFICES ASSUME IInv, Start PROVE IInv'
  OBVIOUS
<1> USE AuthoringAssumption DEF IInv
<1>1. ASSUME NEW name \in {"author", "run", "single"}, NEW chosen \in SUBSET Source \ {{}},
             AuthorBegins(name, chosen)
      PROVE  IInv'
  <2>1. TypeOK'
    BY <1>1 DEF AuthorBegins, Begin, LoadBounces, TypeOK, Command, files, Bounces
  <2>2. PhaseInv'
    BY <1>1, AuthoringAssumption DEF AuthorBegins, Begin, LoadBounces, PhaseInv, TypeOK, Command
  <2>3. Counted'
    BY <1>1 DEF AuthorBegins, Begin, LoadBounces, Counted, Count, StoreOpen, PhaseInv, Command
  <2> QED
    BY <2>1, <2>2, <2>3
<1>2. ASSUME QaBegins PROVE IInv'
  <2>1. TypeOK'
    BY <1>2 DEF QaBegins, EnterQa, Begin, LoadBounces, TypeOK, Command, files, Bounces, In
  <2>2. PhaseInv'
    BY <1>2 DEF QaBegins, EnterQa, Begin, PhaseInv, TypeOK, Command
  <2>3. Counted'
    BY <1>2 DEF QaBegins, EnterQa, Begin, LoadBounces, Counted, Count, StoreOpen, PhaseInv, Command
  <2> QED
    BY <2>1, <2>2, <2>3
<1>3. ASSUME ReviseBegins PROVE IInv'
  <2>1. TypeOK'
    BY <1>3 DEF ReviseBegins, Begin, TypeOK, Command, files, Bounces, In
  <2>2. PhaseInv'
    BY <1>3 DEF ReviseBegins, Begin, PhaseInv, TypeOK, Command
  <2>3. Counted'
    BY <1>3 DEF ReviseBegins, Begin, Counted, Count, StoreOpen, PhaseInv, Command
  <2> QED
    BY <2>1, <2>2, <2>3
<1> QED
  BY <1>1, <1>2, <1>3 DEF Start

\* The end of a command, where the file holds the count.
LEMMA OverKeeps ==
    ASSUME IInv, NEW code \in {"ok", "errors"}, Over(code), UNCHANGED files,
           disk' \in Bounces, \A i \in Id : Count[i] <= disk'[i]
    PROVE  IInv'
<1> USE AuthoringAssumption DEF IInv
<1>1. TypeOK'
  <2>1. mem' \in Bounces
    BY DEF Over, NoBounces, Bounces
  <2>2. round' \in 0 .. MaxRounds + Budget + 1
    BY DEF Over
  <2>3. cmd' \in Command \cup {None} /\ hand' \in [id : Id, to : Dir] \cup {None}
    BY DEF Over
  <2> QED
    BY <2>1, <2>2, <2>3 DEF Over, TypeOK, files
<1>2. PhaseInv'
  BY DEF Over, PhaseInv
<1>3. Counted'
  <2>1. Count' = disk'
    BY DEF Over, Count, StoreOpen, Command
  <2>2. ASSUME NEW i \in Id PROVE revisions'[i] <= Budget * faults' + Count'[i]
    <3>1. revisions'[i] = revisions[i] /\ faults' = faults
      BY DEF Over
    <3>2. revisions[i] <= Budget * faults + Count[i] /\ Count[i] <= disk'[i]
      BY DEF Counted
    <3>3. revisions[i] \in Int /\ Count[i] \in Int /\ disk'[i] \in Int
      BY DEF TypeOK, Count, Bounces
    <3>4. Budget * faults \in Int
      BY DEF TypeOK
    <3> QED
      BY <2>1, <3>1, <3>2, <3>3, <3>4
  <2> QED
    BY <2>2 DEF Counted
<1> QED
  BY <1>1, <1>2, <1>3

\* A step that sends nothing back and keeps the count keeps it right.
LEMMA SameCount ==
    ASSUME Counted, UNCHANGED <<revisions, faults>>, Count' = Count
    PROVE  Counted'
BY DEF Counted

\* The author's steps.
LEMMA AuthorKeeps ==
    ASSUME IInv,
           (\E s \in Source : AuthorFails(s) \/ (\E i \in Id : AuthorWrites(s, i))) \/ Authored
    PROVE  IInv'
<1> USE AuthoringAssumption DEF IInv
<1>1. ASSUME NEW s \in Source, AuthorFails(s) PROVE IInv'
  <2>1. TypeOK'
    BY <1>1 DEF AuthorFails, TypeOK, files, history, Bounces
  <2>2. PhaseInv'
    BY <1>1 DEF AuthorFails, PhaseInv, Command
  <2>3. Count' = Count
    BY <1>1 DEF AuthorFails, Count, StoreOpen, PhaseInv
  <2> QED
    BY <1>1, <2>1, <2>2, <2>3, SameCount DEF AuthorFails, history
<1>2. ASSUME NEW s \in Source, NEW i \in Id, AuthorWrites(s, i) PROVE IInv'
  <2>1. draft' \in [Dir -> [Id -> Source \cup {None, Torn}]]
    BY <1>2 DEF AuthorWrites, Written, TypeOK, Dir
  <2>2. TypeOK'
    BY <1>2, <2>1 DEF AuthorWrites, EnterQa, TypeOK, history, Bounces
  <2>3. PhaseInv'
    BY <1>2 DEF AuthorWrites, EnterQa, PhaseInv, Command
  <2>4. Count' = Count
    BY <1>2 DEF AuthorWrites, EnterQa, Count, StoreOpen, PhaseInv
  <2> QED
    BY <1>2, <2>2, <2>3, <2>4, SameCount DEF AuthorWrites, history
<1>3. CASE Authored
  <2>1. CASE cmd = "run"
    <3>1. TypeOK'
      <4>1. round' \in 0 .. MaxRounds + Budget + 1
        BY <1>3, <2>1 DEF Authored, EnterQa
      <4>2. todo' \subseteq Id /\ phase' = "qa" /\ mem' \in Bounces /\ errors' = FALSE
        BY <1>3, <2>1 DEF Authored, EnterQa, LoadBounces, In, TypeOK
      <4>3. UNCHANGED <<files, disk, cmd, sources, hand, history>>
        BY <1>3, <2>1 DEF Authored
      <4> QED
        BY <4>1, <4>2, <4>3 DEF TypeOK, files, history
    <3>2. PhaseInv'
      BY <1>3, <2>1 DEF Authored, EnterQa, PhaseInv, Command
    <3>3. Count' = Count
      BY <1>3, <2>1 DEF Authored, EnterQa, LoadBounces, Count, StoreOpen
    <3> QED
      BY <1>3, <2>1, <3>1, <3>2, <3>3, SameCount DEF Authored, history
  <2>2. CASE cmd # "run"
    <3>1. Count = disk /\ disk' = disk /\ UNCHANGED files
      BY <1>3 DEF Authored, Count, StoreOpen, PhaseInv
    <3>2. disk' \in Bounces /\ \A i \in Id : Count[i] <= disk'[i]
      BY <3>1 DEF TypeOK, Bounces
    <3>3. PICK code \in {"ok", "errors"} : Over(code)
      BY <1>3, <2>2 DEF Authored
    <3> QED
      BY <3>1, <3>2, <3>3, OverKeeps
  <2> QED
    BY <2>1, <2>2
<1> QED
  BY <1>1, <1>2, <1>3

\* The gate's steps.
LEMMA JudgeKeeps ==
    ASSUME IInv, NEW i \in Id, NEW finding \in Finding(i), Judge(i, finding)
    PROVE  IInv'
<1> USE AuthoringAssumption DEF IInv
<1> DEFINE to == Route(finding, mem[i])
<1>1. mem[i] \in 0 .. Budget
  BY DEF TypeOK, Bounces
<1>2. to \in Dir /\ (to = "revision" => mem[i] < Budget)
  BY <1>1, RouteTo
<1> HIDE DEF to
<1>3. /\ phase = "qa" /\ phase' = "report" /\ hand' = [id |-> i, to |-> to]
      /\ draft' = Moved(i, "qa", to) /\ todo' = todo \ {i}
      /\ UNCHANGED <<corpus, disk, cmd, sources, round, errors, exit, renamed, faults, commands>>
  BY DEF Judge, to
<1>4. /\ to = "revision" => /\ mem' = [mem EXCEPT ![i] = @ + 1]
                            /\ revisions' = [revisions EXCEPT ![i] = @ + 1]
                            /\ report' = [report EXCEPT ![i] = IF @ = "none" THEN "none" ELSE "stale"]
      /\ to # "revision" => UNCHANGED <<mem, revisions, report>>
  BY DEF Judge, to
<1>5. TypeOK'
  <2>1. draft' \in [Dir -> [Id -> Source \cup {None, Torn}]]
    BY <1>2, <1>3 DEF Moved, TypeOK, Dir
  <2>2. mem' \in Bounces /\ revisions' \in [Id -> Nat]
    <3>1. CASE to = "revision"
      <4>1. mem' = [mem EXCEPT ![i] = mem[i] + 1] /\ mem[i] + 1 \in 0 .. Budget
        BY <1>1, <1>2, <1>4, <3>1
      <4>2. revisions' = [revisions EXCEPT ![i] = revisions[i] + 1] /\ revisions[i] + 1 \in Nat
        BY <1>4, <3>1 DEF TypeOK
      <4> QED
        BY <4>1, <4>2 DEF TypeOK, Bounces
    <3>2. CASE to # "revision"
      BY <1>4, <3>2 DEF TypeOK
    <3> QED
      BY <3>1, <3>2
  <2>3. report' \in [Id -> {"none", "fresh", "stale"}]
    BY <1>4 DEF TypeOK
  <2> QED
    BY <1>2, <1>3, <2>1, <2>2, <2>3 DEF TypeOK
<1>6. PhaseInv'
  BY <1>2, <1>3 DEF PhaseInv
<1>7. Counted'
  <2>1. Count = mem /\ Count' = mem'
    BY <1>3 DEF Count, StoreOpen
  <2>2. ASSUME NEW j \in Id PROVE revisions'[j] <= Budget * faults' + mem'[j]
    <3>1. revisions[j] <= Budget * faults + mem[j]
      BY <2>1 DEF Counted
    <3>2. revisions'[j] - revisions[j] = mem'[j] - mem[j]
      BY <1>4 DEF TypeOK, Bounces
    <3>3. /\ revisions[j] \in Int /\ revisions'[j] \in Int /\ mem[j] \in Int /\ mem'[j] \in Int
          /\ Budget * faults \in Int
      BY <1>5 DEF TypeOK, Bounces
    <3> QED
      BY <1>3, <3>1, <3>2, <3>3
  <2> QED
    BY <2>1, <2>2 DEF Counted
<1> QED
  BY <1>5, <1>6, <1>7

LEMMA GateKeeps ==
    ASSUME IInv, Report \/ Judged \/ Save
    PROVE  IInv'
<1> USE AuthoringAssumption DEF IInv
<1>1. CASE Report
  <2>1. hand \in [id : Id, to : Dir]
    BY <1>1 DEF Report, PhaseInv, TypeOK
  <2>2. TypeOK'
    BY <1>1, <2>1 DEF Report, AfterReport, TypeOK, history, Bounces
  <2>3. PhaseInv'
    BY <1>1 DEF Report, AfterReport, PhaseInv, Command
  <2>4. Count' = Count
    BY <1>1 DEF Report, AfterReport, Count, StoreOpen
  <2> QED
    BY <1>1, <2>2, <2>3, <2>4, SameCount DEF Report, history
<1>2. CASE Judged
  <2>1. TypeOK'
    BY <1>2 DEF Judged, TypeOK, files, history, Bounces
  <2>2. PhaseInv'
    BY <1>2 DEF Judged, PhaseInv, Command
  <2>3. Count' = Count
    BY <1>2 DEF Judged, Count, StoreOpen
  <2> QED
    BY <1>2, <2>1, <2>2, <2>3, SameCount DEF Judged, history
<1>3. CASE Save
  <2>1. Count = mem /\ disk' = mem /\ UNCHANGED files
    BY <1>3 DEF Save, Count, StoreOpen
  <2>2. CASE cmd = "single"
    <3>1. TypeOK'
      BY <1>3, <2>1, <2>2 DEF Save, TypeOK, files, history, Bounces
    <3>2. PhaseInv'
      BY <1>3, <2>2 DEF Save, PhaseInv, Command
    <3>3. Count' = Count
      BY <1>3, <2>1, <2>2 DEF Save, Count, StoreOpen
    <3> QED
      BY <1>3, <2>2, <3>1, <3>2, <3>3, SameCount DEF Save, history
  <2>3. CASE cmd = "run" /\ In("revision") # {}
    <3>1. TypeOK'
      BY <1>3, <2>1, <2>3 DEF Save, In, TypeOK, files, history, Bounces
    <3>2. PhaseInv'
      BY <1>3, <2>3 DEF Save, PhaseInv, Command
    <3>3. Count' = Count
      BY <1>3, <2>1, <2>3 DEF Save, Count, StoreOpen
    <3> QED
      BY <1>3, <2>3, <3>1, <3>2, <3>3, SameCount DEF Save, history
  <2>4. CASE cmd # "single" /\ ~(cmd = "run" /\ In("revision") # {})
    <3>1. Over("ok")
      BY <1>3, <2>4 DEF Save
    <3>2. disk' \in Bounces /\ \A i \in Id : Count[i] <= disk'[i]
      BY <2>1 DEF TypeOK, Bounces
    <3> QED
      BY <2>1, <3>1, <3>2, OverKeeps
  <2> QED
    BY <2>2, <2>3, <2>4
<1> QED
  BY <1>1, <1>2, <1>3

\* The reviser's steps.
LEMMA ReviseKeeps ==
    ASSUME IInv, NEW i \in Id, ReviseFails(i) \/ (\E j \in Id : ReviseWrites(i, j))
    PROVE  IInv'
<1> USE AuthoringAssumption DEF IInv
<1>1. CASE ReviseFails(i)
  <2>1. TypeOK'
    BY <1>1 DEF ReviseFails, TypeOK, files, history, Bounces
  <2>2. PhaseInv'
    BY <1>1 DEF ReviseFails, PhaseInv, Command
  <2>3. Count' = Count
    BY <1>1 DEF ReviseFails, Count, StoreOpen
  <2> QED
    BY <1>1, <2>1, <2>2, <2>3, SameCount DEF ReviseFails, history
<1>2. ASSUME NEW j \in Id, ReviseWrites(i, j) PROVE IInv'
  <2>1. draft' \in [Dir -> [Id -> Source \cup {None, Torn}]]
    BY <1>2 DEF ReviseWrites, Written, TypeOK, Dir
  <2>2. TypeOK'
    BY <1>2, <2>1 DEF ReviseWrites, TypeOK, Bounces, Dir
  <2>3. PhaseInv'
    BY <1>2, <2>2 DEF ReviseWrites, PhaseInv, Dir
  <2>4. Count' = Count
    BY <1>2 DEF ReviseWrites, Count, StoreOpen
  <2> QED
    BY <1>2, <2>2, <2>3, <2>4, SameCount DEF ReviseWrites
<1> QED
  BY <1>1, <1>2

LEMMA TidyKeeps ==
    ASSUME IInv, UnlinkDraft \/ UnlinkReport \/ Revised
    PROVE  IInv'
<1> USE AuthoringAssumption DEF IInv
<1>1. CASE UnlinkDraft
  <2>1. hand \in [id : Id, to : Dir]
    BY <1>1 DEF UnlinkDraft, PhaseInv, TypeOK
  <2>2. draft' \in [Dir -> [Id -> Source \cup {None, Torn}]]
    BY <1>1, <2>1 DEF UnlinkDraft, TypeOK, Dir
  <2>3. TypeOK'
    BY <1>1, <2>1, <2>2 DEF UnlinkDraft, TypeOK, history, Bounces
  <2>4. PhaseInv'
    BY <1>1 DEF UnlinkDraft, PhaseInv, Command
  <2>5. Count' = Count
    BY <1>1 DEF UnlinkDraft, Count, StoreOpen
  <2> QED
    BY <1>1, <2>3, <2>4, <2>5, SameCount DEF UnlinkDraft, history
<1>2. CASE UnlinkReport
  <2>1. TypeOK'
    <3>1. round' \in 0 .. MaxRounds + Budget + 1
      BY <1>2 DEF UnlinkReport, EnterQa, TypeOK
    <3>2. report' \in [Id -> {"none", "fresh", "stale"}] /\ todo' \subseteq Id
      BY <1>2 DEF UnlinkReport, EnterQa, TypeOK
    <3>3. phase' \in {"revise", "qa", "save"}
      BY <1>2 DEF UnlinkReport, EnterQa
    <3> QED
      BY <1>2, <3>1, <3>2, <3>3 DEF UnlinkReport, TypeOK, history
  <2>2. PhaseInv'
    BY <1>2 DEF UnlinkReport, EnterQa, PhaseInv, Command
  <2>3. Count' = Count
    BY <1>2 DEF UnlinkReport, EnterQa, Count, StoreOpen
  <2> QED
    BY <1>2, <2>1, <2>2, <2>3, SameCount DEF UnlinkReport, history
<1>3. CASE Revised
  <2>1. Count = disk /\ disk' = disk /\ UNCHANGED files
    BY <1>3 DEF Revised, Count, StoreOpen, PhaseInv
  <2>2. CASE cmd = "run" /\ ~errors /\ round < MaxRounds
    <3>1. TypeOK'
      BY <1>3, <2>2 DEF Revised, EnterQa, LoadBounces, In, TypeOK, files, history, Bounces
    <3>2. PhaseInv'
      BY <1>3, <2>2 DEF Revised, EnterQa, PhaseInv, Command
    <3>3. Count' = Count
      BY <1>3, <2>1, <2>2 DEF Revised, EnterQa, LoadBounces, Count, StoreOpen
    <3> QED
      BY <1>3, <2>2, <3>1, <3>2, <3>3, SameCount DEF Revised, history
  <2>3. CASE ~(cmd = "run" /\ ~errors /\ round < MaxRounds)
    <3>1. PICK code \in {"ok", "errors"} : Over(code)
      BY <1>3, <2>3 DEF Revised
    <3>2. disk' \in Bounces /\ \A i \in Id : Count[i] <= disk'[i]
      BY <2>1 DEF TypeOK, Bounces
    <3> QED
      BY <2>1, <3>1, <3>2, OverKeeps
  <2> QED
    BY <2>2, <2>3
<1> QED
  BY <1>1, <1>2, <1>3

\* A kill loses what the memory holds, at most Budget.
LEMMA KillKeeps ==
    ASSUME IInv, Kill
    PROVE  IInv'
<1> USE AuthoringAssumption DEF IInv
<1>1. disk' \in Bounces /\ (~StoreOpen => disk' = disk)
  BY DEF Kill, StoreOpen, TypeOK, NoBounces, Bounces
<1>2. TypeOK'
  <2>1. draft' \in [Dir -> [Id -> Source \cup {None, Torn}]]
    <3>1. CASE draft' = draft
      BY <3>1 DEF TypeOK
    <3>2. CASE draft' # draft
      <4>1. PICK i \in Id : draft' = Written("qa", i, Torn)
        BY <3>2 DEF Kill, TornDrafts
      <4> QED
        BY <4>1 DEF Written, TypeOK, Dir
    <3> QED
      BY <3>1, <3>2
  <2>2. mem' \in Bounces
    BY DEF Kill, NoBounces, Bounces
  <2>3. round' \in 0 .. MaxRounds + Budget + 1 /\ faults' \in 0 .. MaxFaults
    BY DEF Kill, TypeOK
  <2>4. cmd' \in Command \cup {None} /\ hand' \in [id : Id, to : Dir] \cup {None}
    BY DEF Kill
  <2> QED
    BY <1>1, <2>1, <2>2, <2>3, <2>4 DEF Kill, TypeOK
<1>3. PhaseInv'
  BY DEF Kill, PhaseInv
<1>4. Counted'
  <2>1. Count' = disk'
    BY DEF Kill, Count, StoreOpen, Command
  <2>2. ASSUME NEW i \in Id PROVE revisions'[i] <= Budget * faults' + disk'[i]
    <3>1. revisions[i] <= Budget * faults + Count[i] /\ revisions'[i] = revisions[i]
      BY DEF Counted, Kill
    <3>2. faults' = faults + 1 /\ faults \in Nat
      BY DEF Kill, TypeOK
    <3>3. Budget * faults' = Budget * faults + Budget
      BY <3>2
    <3>4. Count[i] \in 0 .. Budget /\ disk'[i] \in 0 .. Budget /\ revisions[i] \in Int
      BY <1>1 DEF TypeOK, Count, Bounces
    <3>5. Budget * faults \in Int
      BY <3>2
    <3> QED
      BY <3>1, <3>3, <3>4, <3>5
  <2> QED
    BY <2>1, <2>2 DEF Counted
<1> QED
  BY <1>2, <1>3, <1>4

\* The operator changes the graph only.
LEMMA IngestKeeps ==
    ASSUME IInv, NEW i \in Id, Ingest(i)
    PROVE  IInv'
<1> USE AuthoringAssumption DEF IInv
<1>1. corpus' \in [Id -> Source \cup {None, Torn, Bundled}]
  BY DEF Ingest, TypeOK, Dir
<1>2. TypeOK'
  BY <1>1 DEF Ingest, work, history, TypeOK
<1>3. PhaseInv'
  BY DEF Ingest, work, PhaseInv
<1>4. Count' = Count
  BY DEF Ingest, work, Count, StoreOpen
<1> QED
  BY <1>2, <1>3, <1>4, SameCount DEF Ingest, history

\* The invariant holds.
THEOREM AuthoringInvariant == Spec => []IInv
<1>1. IInv /\ [Next]_vars => IInv'
  <2> SUFFICES ASSUME IInv, [Next]_vars PROVE IInv'
    OBVIOUS
  <2>1. ASSUME Step PROVE IInv'
    BY <2>1, AuthorKeeps, JudgeKeeps, GateKeeps, ReviseKeeps, TidyKeeps DEF Step
  <2>2. CASE UNCHANGED vars
    <3>1. TypeOK' /\ PhaseInv'
      BY <2>2 DEF vars, files, work, history, IInv, TypeOK, PhaseInv
    <3>2. Count' = Count /\ UNCHANGED <<revisions, faults>>
      BY <2>2 DEF vars, work, history, Count, StoreOpen
    <3> QED
      BY <3>1, <3>2, SameCount DEF IInv
  <2> QED
    BY <2>1, <2>2, StartKeeps, KillKeeps, IngestKeeps DEF Next
<1> QED
  BY <1>1, InitIInv, PTL DEF Spec

\* The directories, the file of bounces and the commands keep their types.
THEOREM TypeCorrect == Spec => []TypeOK
<1>1. IInv => TypeOK
  BY DEF IInv
<1> QED
  BY <1>1, AuthoringInvariant, PTL

\* No id is sent back more than Budget times for every process that was killed,
\* and Budget times besides.
THEOREM BudgetKept == Spec => []BudgetHolds
<1>1. IInv => BudgetHolds
  <2> SUFFICES ASSUME IInv, NEW i \in Id PROVE revisions[i] <= Budget * (1 + faults)
    BY DEF BudgetHolds
  <2> USE AuthoringAssumption
  <2>1. revisions[i] <= Budget * faults + Count[i]
    BY DEF IInv, Counted
  <2>2. Count[i] \in 0 .. Budget /\ revisions[i] \in Int /\ faults \in Nat
    BY DEF IInv, TypeOK, Count, Bounces
  <2>3. Budget * (1 + faults) = Budget * faults + Budget /\ Budget * faults \in Int
    BY <2>2
  <2> QED
    BY <2>1, <2>2, <2>3
<1> QED
  BY <1>1, AuthoringInvariant, PTL

\* What is served under the id of an approved draft is that draft: nothing is
\* approved while its id is taken.
THEOREM ReviewedServed == Spec => []ReviewedIsServed
<1>1. Init => ReviewedIsServed
  BY DEF Init, ReviewedIsServed, Dir
<1>2. IInv /\ ReviewedIsServed /\ [Next]_vars => ReviewedIsServed'
  <2> SUFFICES ASSUME IInv, ReviewedIsServed, [Next]_vars PROVE ReviewedIsServed'
    OBVIOUS
  <2>1. ASSUME draft'["review"] = draft["review"], corpus' = corpus PROVE ReviewedIsServed'
    BY <2>1 DEF ReviewedIsServed
  <2>2. ASSUME draft' \in {draft} \cup {Written("qa", i, t) : i \in Id, t \in Source \cup {None, Torn}}
        PROVE  draft'["review"] = draft["review"]
    BY <2>2 DEF Written, IInv, TypeOK, Dir
  <2>3. CASE Start
    BY <2>3, <2>1 DEF Start, AuthorBegins, QaBegins, ReviseBegins, Begin, files
  <2>4. ASSUME NEW i \in Id, NEW finding \in Finding(i), Judge(i, finding)
        PROVE  ReviewedIsServed'
    <3> DEFINE to == Route(finding, mem[i])
    <3>1. draft' = Moved(i, "qa", to) /\ corpus' = corpus
      BY <2>4 DEF Judge
    <3>2. to \in Dir
      BY RouteTo DEF IInv, TypeOK, Bounces
    <3>3. to = "review" => corpus[i] = None
      BY DEF Finding, Route, CriticVerdict
    <3>4. \A j \in Id : j # i \/ to # "review" => draft'["review"][j] = draft["review"][j]
      BY <3>1, <3>2 DEF Moved, IInv, TypeOK, Dir
    <3> QED
      BY <3>1, <3>3, <3>4 DEF ReviewedIsServed
  <2>5. CASE \E s \in Source : AuthorFails(s) \/ (\E i \in Id : AuthorWrites(s, i))
    <3>1. ASSUME NEW s \in Source, AuthorFails(s) PROVE ReviewedIsServed'
      BY <3>1, <2>1 DEF AuthorFails, files
    <3>2. ASSUME NEW s \in Source, NEW i \in Id, AuthorWrites(s, i) PROVE ReviewedIsServed'
      <4>1. draft' = Written("qa", i, s) /\ corpus' = corpus
        BY <3>2 DEF AuthorWrites
      <4> QED
        BY <4>1, <2>1, <2>2
    <3> QED
      BY <2>5, <3>1, <3>2
  <2>6. CASE Authored \/ Report \/ Judged \/ Save \/ Revised
    BY <2>6, <2>1 DEF Authored, Report, Judged, Save, Revised, files
  <2>7. CASE \E i \in Id : ReviseFails(i) \/ (\E j \in Id : ReviseWrites(i, j))
    <3>1. \A i \in Id : draft["revision"][i] \in Source \cup {None, Torn}
      BY DEF IInv, TypeOK, Dir
    <3> QED
      BY <2>7, <3>1, <2>1, <2>2 DEF ReviseFails, ReviseWrites, files
  <2>8. CASE UnlinkDraft \/ UnlinkReport
    <3>1. draft'["review"] = draft["review"] /\ corpus' = corpus
      BY <2>8 DEF UnlinkDraft, UnlinkReport, IInv, TypeOK, Dir
    <3> QED
      BY <3>1, <2>1
  <2>9. CASE Kill
    <3>1. draft' \in {draft} \cup {Written("qa", i, t) : i \in Id, t \in Source \cup {None, Torn}}
      BY <2>9 DEF Kill, TornDrafts
    <3> QED
      BY <2>9, <3>1, <2>1, <2>2 DEF Kill
  <2>10. ASSUME NEW i \in Id, Ingest(i) PROVE ReviewedIsServed'
    BY <2>10 DEF Ingest, ReviewedIsServed, IInv, TypeOK
  <2>11. CASE UNCHANGED vars
    BY <2>11, <2>1 DEF vars, files
  <2> QED
    BY <2>3, <2>4, <2>5, <2>6, <2>7, <2>8, <2>9, <2>10, <2>11 DEF Next, Step
<1> QED
  BY <1>1, <1>2, AuthoringInvariant, PTL DEF Spec

-----------------------------------------------------------------------------
(* Drafts, their reports and the rounds of a run *)

\* What the handling of drafts may rely on: those to be judged are in
\* pending-qa, those to be revised in pending-revision, and a draft is removed
\* from there only when what was written over it is in pending-qa.
InHand ==
    /\ phase = "qa" => todo \subseteq In("qa")
    /\ phase = "report" =>
        /\ todo \subseteq In("qa")
        /\ hand.to = "revision" => hand.id \in In("revision")
    /\ phase = "revise" => todo \subseteq In("revision")
    /\ phase \in {"unlink", "tidy"} =>
        IF cmd = "single" THEN todo \subseteq In("qa")
        ELSE todo \subseteq In("revision") \ {hand.id}
    /\ phase = "unlink" => \E j \in Id : draft["qa"][j] = draft["revision"][hand.id]
    /\ phase = "tidy" => hand.id \notin In("revision")

\* A draft in pending-revision was sent back: its report is beside it or the
\* next thing to be written, and it was counted.
SentBack ==
    faults = 0 =>
        \A i \in In("revision") :
            /\ report[i] = "fresh" \/ (phase = "report" /\ hand = [id |-> i, to |-> "revision"])
            /\ Count[i] >= 1

\* How far a run has got with its drafts.
RunInv ==
    cmd = "run" =>
        /\ phase \in {"qa", "report"} => In("qa") \subseteq todo
        /\ phase = "save" => In("qa") = {}
        /\ phase \in {"revise", "tidy"} /\ ~errors => In("revision") \subseteq todo
        /\ phase = "unlink" /\ ~errors => In("revision") \subseteq todo \cup {hand.id}

\* A draft that is still there in a round was sent back in every round before,
\* if it kept its id and no count was lost.
RoundInv ==
    cmd = "run" /\ faults = 0 /\ ~renamed =>
        /\ phase \in {"qa", "report"} => \A i \in In("qa") : mem[i] >= round - 1
        /\ phase \in {"qa", "report", "save"} => \A i \in In("revision") : mem[i] >= round
        /\ phase \in {"revise", "unlink", "tidy"} /\ ~errors =>
            /\ round <= Budget
            /\ \A i \in In("qa") \cup In("revision") : disk[i] >= round

DraftInv == InHand /\ SentBack /\ RunInv /\ RoundInv

\* The steps but those of the gate's verdict and of a kill leave the count
\* as it is, in the memory or in the file.
LEMMA CountKept ==
    ASSUME IInv,
           \/ Start \/ Authored \/ Report \/ Judged \/ Save
           \/ \E s \in Source : AuthorFails(s) \/ (\E i \in Id : AuthorWrites(s, i))
           \/ \E i \in Id : ReviseFails(i) \/ (\E j \in Id : ReviseWrites(i, j))
           \/ UnlinkDraft \/ UnlinkReport \/ Revised
           \/ \E i \in Id : Ingest(i)
    PROVE  Count' = Count /\ faults' = faults
<1> USE AuthoringAssumption DEF IInv, PhaseInv, Count, StoreOpen
<1>1. CASE Start
  BY <1>1 DEF Start, AuthorBegins, QaBegins, ReviseBegins, Begin, EnterQa, LoadBounces, Command
<1>2. CASE Authored
  <2>1. CASE cmd = "run"
    BY <1>2, <2>1 DEF Authored, EnterQa, LoadBounces, history
  <2>2. CASE cmd # "run"
    BY <1>2, <2>2 DEF Authored, Over, Command
  <2> QED
    BY <2>1, <2>2
<1>3. CASE Report \/ Judged
  BY <1>3 DEF Report, AfterReport, Judged, history
<1>4. CASE Save
  <2>1. CASE cmd = "single"
    BY <1>4, <2>1 DEF Save, history
  <2>2. CASE cmd = "run" /\ In("revision") # {}
    BY <1>4, <2>2 DEF Save, history
  <2>3. CASE cmd # "single" /\ ~(cmd = "run" /\ In("revision") # {})
    <3>1. Over("ok") /\ disk' = mem
      BY <1>4, <2>3 DEF Save
    <3> QED
      BY <1>4, <3>1 DEF Over, Save, Command
  <2> QED
    BY <2>1, <2>2, <2>3
<1>5. CASE \E s \in Source : AuthorFails(s) \/ (\E i \in Id : AuthorWrites(s, i))
  BY <1>5 DEF AuthorFails, AuthorWrites, EnterQa, history
<1>6. CASE \E i \in Id : ReviseFails(i) \/ (\E j \in Id : ReviseWrites(i, j))
  BY <1>6 DEF ReviseFails, ReviseWrites, history
<1>7. CASE UnlinkDraft \/ UnlinkReport
  BY <1>7 DEF UnlinkDraft, UnlinkReport, EnterQa, history
<1>8. CASE Revised
  <2>1. CASE cmd = "run" /\ ~errors /\ round < MaxRounds
    BY <1>8, <2>1 DEF Revised, EnterQa, LoadBounces, history
  <2>2. CASE ~(cmd = "run" /\ ~errors /\ round < MaxRounds)
    BY <1>8, <2>2 DEF Revised, Over, Command
  <2> QED
    BY <2>1, <2>2
<1>9. CASE \E i \in Id : Ingest(i)
  BY <1>9 DEF Ingest, work, history
<1> QED
  BY <1>1, <1>2, <1>3, <1>4, <1>5, <1>6, <1>7, <1>8, <1>9

\* What was sent back stays so while nothing else is.
LEMMA StaysSentBack ==
    ASSUME IInv, SentBack, Count' = Count, faults' = faults, phase # "report",
           In("revision")' \subseteq In("revision"),
           \A i \in In("revision")' : report'[i] = report[i]
    PROVE  SentBack'
BY DEF SentBack

\* The directories after a draft is written into pending-qa.
LEMMA AfterWriting ==
    ASSUME TypeOK, NEW j \in Id, NEW text \in Source, draft' = Written("qa", j, text)
    PROVE  /\ In("qa")' = In("qa") \cup {j}
           /\ In("revision")' = In("revision")
           /\ draft'["revision"] = draft["revision"]
           /\ draft'["qa"][j] = text
<1>1. text # None
  BY AuthoringAssumption
<1>2. \A i \in Id : draft'["qa"][i] = IF i = j THEN text ELSE draft["qa"][i]
  BY DEF Written, TypeOK, Dir
<1>3. draft'["revision"] = draft["revision"]
  BY DEF Written, TypeOK, Dir
<1>4. In("qa")' = In("qa") \cup {j}
  BY <1>1, <1>2 DEF In
<1>5. In("revision")' = In("revision")
  BY <1>3 DEF In
<1> QED
  BY <1>2, <1>3, <1>4, <1>5

\* ... and after one is moved from there.
LEMMA AfterMoving ==
    ASSUME TypeOK, NEW i \in In("qa"), NEW to \in Dir \ {"qa"},
           draft' = Moved(i, "qa", to)
    PROVE  /\ In("qa")' = In("qa") \ {i}
           /\ In("revision")' = IF to = "revision" THEN In("revision") \cup {i}
                                ELSE In("revision")
           /\ draft'[to][i] = draft["qa"][i] /\ draft["qa"][i] # None
           /\ \A d \in Dir, j \in Id :
                d \notin {"qa", to} \/ j # i => draft'[d][j] = draft[d][j]
<1>1. i \in Id /\ draft["qa"][i] # None
  BY DEF In
<1>2. \A d \in Dir, j \in Id :
        draft'[d][j] = IF d = to /\ j = i THEN draft["qa"][i]
                       ELSE IF d = "qa" /\ j = i THEN None
                       ELSE draft[d][j]
  BY <1>1 DEF Moved, TypeOK, Dir
<1>3. In("qa")' = In("qa") \ {i}
  BY <1>1, <1>2 DEF In, Dir
<1>4. In("revision")' = IF to = "revision" THEN In("revision") \cup {i} ELSE In("revision")
  BY <1>1, <1>2 DEF In, Dir
<1> QED
  BY <1>1, <1>2, <1>3, <1>4

LEMMA RouteAway ==
    ASSUME NEW i \in Id, NEW finding \in Finding(i), NEW b \in 0 .. Budget
    PROVE  Route(finding, b) \in Dir \ {"qa"}
<1>1. finding \in {"unreadable", "errors", "duplicate"} \cup CriticVerdict
  BY DEF Finding
<1> QED
  BY <1>1 DEF Route, CriticVerdict, Dir

\* Between commands there is nothing in hand.
LEMMA DraftsOver ==
    ASSUME IInv, DraftInv, NEW code, Over(code), draft' = draft, report' = report,
           Count' = Count, phase # "report"
    PROVE  DraftInv'
<1>1. In("revision")' = In("revision") /\ faults' = faults
  BY DEF In, Over
<1>2. phase' = "idle" /\ cmd' = None
  BY DEF Over
<1>3. SentBack'
  BY <1>1, StaysSentBack DEF DraftInv
<1>4. cmd' # "run"
  BY <1>2, AuthoringAssumption DEF Command
<1> QED
  BY <1>2, <1>3, <1>4 DEF DraftInv, InHand, RunInv, RoundInv

LEMMA DraftsStart ==
    ASSUME IInv, DraftInv, Start
    PROVE  DraftInv'
<1>1. /\ draft' = draft /\ report' = report
      /\ phase = "idle"
  BY DEF Start, AuthorBegins, QaBegins, ReviseBegins, Begin, files, IInv, PhaseInv
<1>2. In("qa")' = In("qa") /\ In("revision")' = In("revision")
  BY <1>1 DEF In
<1>3. SentBack'
  BY <1>1, <1>2, CountKept, StaysSentBack DEF DraftInv
<1>4. /\ phase' \in {"author", "qa", "revise"}
      /\ phase' = "qa" => todo' = In("qa")
      /\ phase' = "revise" => todo' = In("revision")
      /\ phase' # "author" => cmd' # "run"
  BY DEF Start, AuthorBegins, QaBegins, ReviseBegins, Begin, EnterQa
<1>5. InHand'
  BY <1>2, <1>4 DEF InHand
<1>6. RunInv' /\ RoundInv'
  BY <1>4 DEF RunInv, RoundInv
<1> QED
  BY <1>3, <1>5, <1>6 DEF DraftInv

LEMMA DraftsAuthor ==
    ASSUME IInv, DraftInv,
           (\E s \in Source : AuthorFails(s) \/ (\E i \in Id : AuthorWrites(s, i))) \/ Authored
    PROVE  DraftInv'
<1>1. ASSUME NEW s \in Source, AuthorFails(s) PROVE DraftInv'
  <2>1. /\ draft' = draft /\ report' = report
        /\ phase = "author" /\ phase' \in {"author", "save"}
        /\ phase' = "save" => cmd' = "single"
    BY <1>1 DEF AuthorFails, files
  <2>2. In("qa")' = In("qa") /\ In("revision")' = In("revision")
    BY <2>1 DEF In
  <2>3. SentBack'
    BY <1>1, <2>1, <2>2, CountKept, StaysSentBack DEF DraftInv
  <2> QED
    BY <2>1, <2>3 DEF DraftInv, InHand, RunInv, RoundInv
<1>2. ASSUME NEW s \in Source, NEW i \in Id, AuthorWrites(s, i) PROVE DraftInv'
  <2>1. /\ draft' = Written("qa", i, s) /\ report' = report
        /\ phase = "author"
        /\ \/ phase' = "author"
           \/ phase' = "qa" /\ todo' = {i} /\ cmd' = "single"
    BY <1>2 DEF AuthorWrites, EnterQa
  <2>2. In("qa")' = In("qa") \cup {i} /\ In("revision")' = In("revision")
    BY <2>1, AfterWriting DEF IInv
  <2>3. SentBack'
    BY <1>2, <2>1, <2>2, CountKept, StaysSentBack DEF DraftInv
  <2> QED
    BY <2>1, <2>2, <2>3 DEF DraftInv, InHand, RunInv, RoundInv
<1>3. CASE Authored
  <2>1. draft' = draft /\ report' = report /\ phase = "author"
    BY <1>3 DEF Authored, files
  <2>2. In("qa")' = In("qa") /\ In("revision")' = In("revision")
    BY <2>1 DEF In
  <2>3. Count' = Count /\ faults' = faults
    BY <1>3, CountKept
  <2>4. CASE cmd = "run"
    <3>1. phase' = "qa" /\ todo' = In("qa") /\ round' = 1 /\ mem' = disk
      BY <1>3, <2>4 DEF Authored, EnterQa, LoadBounces
    <3>2. SentBack'
      BY <2>1, <2>2, <2>3, StaysSentBack DEF DraftInv
    <3>3. RoundInv'
      <4>1. Count' = mem'
        BY <3>1 DEF Count, StoreOpen
      <4>2. ASSUME NEW i \in In("qa")' PROVE mem'[i] >= round' - 1
        BY <3>1 DEF IInv, TypeOK, Bounces, In
      <4>3. faults' = 0 => \A i \in In("revision")' : mem'[i] >= round'
        BY <3>1, <3>2, <4>1 DEF SentBack
      <4> QED
        BY <3>1, <4>2, <4>3 DEF RoundInv
    <3>4. InHand' /\ RunInv'
      BY <2>2, <3>1 DEF InHand, RunInv
    <3> QED
      BY <3>2, <3>3, <3>4 DEF DraftInv
  <2>5. CASE cmd # "run"
    <3>1. PICK code \in {"ok", "errors"} : Over(code)
      BY <1>3, <2>5 DEF Authored
    <3> QED
      BY <2>1, <2>3, <3>1, DraftsOver
  <2> QED
    BY <2>4, <2>5
<1> QED
  BY <1>1, <1>2, <1>3

LEMMA DraftsJudge ==
    ASSUME IInv, DraftInv, NEW i \in Id, NEW finding \in Finding(i), Judge(i, finding)
    PROVE  DraftInv'
<1> USE AuthoringAssumption
<1> DEFINE to == Route(finding, mem[i])
<1>1. mem[i] \in 0 .. Budget
  BY DEF IInv, TypeOK, Bounces
<1>2. to \in Dir \ {"qa"}
  BY <1>1, RouteAway
<1> HIDE DEF to
<1>3. /\ phase = "qa" /\ phase' = "report" /\ hand' = [id |-> i, to |-> to]
      /\ draft' = Moved(i, "qa", to) /\ todo' = todo \ {i} /\ i \in todo
      /\ UNCHANGED <<corpus, disk, cmd, sources, round, errors, exit, renamed, faults, commands>>
  BY DEF Judge, Turn, to
<1>4. /\ to = "revision" => /\ mem' = [mem EXCEPT ![i] = @ + 1]
                            /\ report' = [report EXCEPT ![i] = IF @ = "none" THEN "none" ELSE "stale"]
      /\ to # "revision" => UNCHANGED <<mem, report>>
  BY DEF Judge, to
<1>5. todo \subseteq In("qa") /\ i \in In("qa")
  BY <1>3 DEF DraftInv, InHand
<1>6. /\ In("qa")' = In("qa") \ {i}
      /\ In("revision")' = IF to = "revision" THEN In("revision") \cup {i} ELSE In("revision")
  BY <1>2, <1>3, <1>5, AfterMoving DEF IInv
<1>7. hand'.id = i /\ hand'.to = to
  BY <1>3
<1>8. InHand'
  BY <1>3, <1>5, <1>6, <1>7 DEF InHand
<1>9. \A j \in Id :
        /\ mem'[j] = IF to = "revision" /\ j = i THEN mem[j] + 1 ELSE mem[j]
        /\ j # i \/ to # "revision" => report'[j] = report[j]
        /\ mem[j] \in Nat
  BY <1>4 DEF IInv, TypeOK, Bounces
<1>10. In("qa") \subseteq Id /\ In("revision") \subseteq Id
  BY DEF In
<1>11. SentBack'
  <2>1. Count = mem /\ Count' = mem'
    BY <1>3 DEF Count, StoreOpen
  <2>2. ASSUME faults' = 0, NEW j \in In("revision")'
        PROVE  /\ report'[j] = "fresh" \/ (phase' = "report" /\ hand' = [id |-> j, to |-> "revision"])
               /\ mem'[j] >= 1
    <3>1. CASE j = i /\ to = "revision"
      BY <1>1, <1>3, <1>9, <3>1
    <3>2. CASE ~(j = i /\ to = "revision")
      <4>1. j \in In("revision") /\ j \in Id
        BY <1>6, <1>10, <2>2, <3>2
      <4>2. report[j] = "fresh" /\ mem[j] >= 1
        BY <1>3, <2>1, <2>2, <4>1 DEF DraftInv, SentBack
      <4> QED
        BY <1>9, <3>2, <4>1, <4>2
    <3> QED
      BY <3>1, <3>2
  <2> QED
    BY <2>1, <2>2 DEF SentBack
<1>12. RunInv'
  BY <1>3, <1>5, <1>6 DEF DraftInv, RunInv
<1>13. RoundInv'
  <2> SUFFICES ASSUME cmd' = "run", faults' = 0, ~renamed'
               PROVE  /\ \A j \in In("qa")' : mem'[j] >= round' - 1
                      /\ \A j \in In("revision")' : mem'[j] >= round'
    BY <1>3 DEF RoundInv
  <2>1. /\ \A j \in In("qa") : mem[j] >= round - 1
        /\ \A j \in In("revision") : mem[j] >= round
        /\ round' = round /\ round \in Nat
    BY <1>3 DEF DraftInv, RoundInv, IInv, TypeOK
  <2>2. ASSUME NEW j \in In("qa")' PROVE mem'[j] >= round' - 1
    BY <1>6, <1>9, <1>10, <2>1, <2>2
  <2>3. ASSUME NEW j \in In("revision")' PROVE mem'[j] >= round'
    <3>1. CASE j = i /\ to = "revision"
      BY <1>5, <1>9, <2>1, <3>1
    <3>2. CASE ~(j = i /\ to = "revision")
      BY <1>6, <1>9, <1>10, <2>1, <2>3, <3>2
    <3> QED
      BY <3>1, <3>2
  <2> QED
    BY <2>2, <2>3
<1> QED
  BY <1>8, <1>11, <1>12, <1>13 DEF DraftInv

LEMMA DraftsGate ==
    ASSUME IInv, DraftInv, Report \/ Judged \/ Save
    PROVE  DraftInv'
<1> USE AuthoringAssumption
<1>1. Count' = Count /\ faults' = faults
  BY CountKept
<1>2. draft' = draft /\ In("qa")' = In("qa") /\ In("revision")' = In("revision")
  BY DEF Report, Judged, Save, files, In
<1>3. CASE Report
  <2>1. hand \in [id : Id, to : Dir]
    BY <1>3 DEF Report, IInv, PhaseInv, TypeOK
  <2>2. /\ phase = "report" /\ UNCHANGED <<cmd, errors, mem, disk, round, renamed>>
        /\ report' = IF hand.to = "revision" THEN [report EXCEPT ![hand.id] = "fresh"] ELSE report
        /\ \/ cmd # "single" /\ phase' = "qa" /\ todo' = todo
           \/ cmd = "single" /\ hand.to = "revision" /\ phase' = "revise" /\ todo' = {hand.id}
           \/ cmd = "single" /\ phase' = "save" /\ todo' = todo
    BY <1>3 DEF Report, AfterReport, history
  <2>3. todo \subseteq In("qa") /\ (hand.to = "revision" => hand.id \in In("revision"))
    BY <2>2 DEF DraftInv, InHand
  <2>4. InHand'
    BY <1>2, <2>2, <2>3 DEF InHand
  <2>5. SentBack'
    <3>1. ASSUME faults' = 0, NEW i \in In("revision")'
          PROVE  report'[i] = "fresh" /\ Count'[i] >= 1
      <4>1. i \in In("revision") /\ i \in Id
        BY <1>2, <3>1 DEF In
      <4>2. /\ report[i] = "fresh" \/ hand = [id |-> i, to |-> "revision"]
            /\ Count[i] >= 1
        BY <1>1, <3>1, <4>1 DEF DraftInv, SentBack
      <4>3. report'[i] = "fresh"
        BY <2>1, <2>2, <4>1, <4>2 DEF IInv, TypeOK
      <4> QED
        BY <1>1, <4>2, <4>3
    <3> QED
      BY <3>1 DEF SentBack
  <2>6. RunInv' /\ RoundInv'
    BY <1>1, <1>2, <2>2 DEF DraftInv, RunInv, RoundInv
  <2> QED
    BY <2>4, <2>5, <2>6 DEF DraftInv
<1>4. CASE Judged
  <2>1. /\ phase = "qa" /\ phase' = "save" /\ todo = {}
        /\ report' = report
        /\ UNCHANGED <<cmd, errors, mem, disk, round, renamed>>
    BY <1>4 DEF Judged, files, history
  <2>2. SentBack'
    BY <1>1, <1>2, <2>1, StaysSentBack DEF DraftInv
  <2> QED
    BY <1>1, <1>2, <2>1, <2>2 DEF DraftInv, InHand, RunInv, RoundInv
<1>5. CASE Save
  <2>1. phase = "save" /\ disk' = mem /\ report' = report
    BY <1>5 DEF Save, files
  <2>2. SentBack'
    BY <1>1, <1>2, <2>1, StaysSentBack DEF DraftInv
  <2>3. CASE cmd = "single"
    <3>1. phase' = "author" /\ cmd' = "single"
      BY <1>5, <2>3 DEF Save
    <3> QED
      BY <2>2, <3>1 DEF DraftInv, InHand, RunInv, RoundInv
  <2>4. CASE cmd = "run" /\ In("revision") # {}
    <3>1. /\ phase' = "revise" /\ todo' = In("revision")
          /\ UNCHANGED <<cmd, errors, mem, round, renamed>>
      BY <1>5, <2>4 DEF Save, history
    <3>2. In("qa") = {}
      BY <2>1, <2>4 DEF DraftInv, RunInv
    <3>3. RoundInv'
      <4> SUFFICES ASSUME faults' = 0, ~renamed'
                   PROVE  /\ round' <= Budget
                          /\ \A i \in In("qa")' \cup In("revision")' : disk'[i] >= round'
        BY <3>1 DEF RoundInv
      <4>1. \A i \in In("revision") : mem[i] >= round
        BY <1>1, <2>1, <2>4, <3>1 DEF DraftInv, RoundInv
      <4>2. PICK i \in In("revision") : TRUE
        BY <2>4
      <4>3. mem[i] \in 0 .. Budget /\ round \in Nat
        BY <4>2 DEF In, IInv, TypeOK, Bounces
      <4>4. round <= Budget
        BY <4>1, <4>3
      <4> QED
        BY <1>2, <2>1, <3>1, <3>2, <4>1, <4>4
    <3>4. InHand' /\ RunInv'
      BY <1>2, <3>1 DEF InHand, RunInv
    <3> QED
      BY <2>2, <3>3, <3>4 DEF DraftInv
  <2>5. CASE cmd # "single" /\ ~(cmd = "run" /\ In("revision") # {})
    <3>1. Over("ok")
      BY <1>5, <2>5 DEF Save
    <3> QED
      BY <1>1, <1>2, <2>1, <3>1, DraftsOver
  <2> QED
    BY <2>3, <2>4, <2>5
<1> QED
  BY <1>3, <1>4, <1>5

LEMMA DraftsRevise ==
    ASSUME IInv, DraftInv, NEW i \in Id,
           ReviseFails(i) \/ (\E j \in Id : ReviseWrites(i, j))
    PROVE  DraftInv'
<1> USE AuthoringAssumption
<1>1. Count' = Count /\ faults' = faults
  BY CountKept
<1>2. CASE ReviseFails(i)
  <2>1. /\ phase = "revise" /\ draft' = draft /\ report' = report /\ cmd' = cmd
        /\ errors' = (cmd # "single") /\ todo' = todo \ {i}
        /\ phase' = IF cmd = "single" THEN "save" ELSE "revise"
    BY <1>2 DEF ReviseFails, files
  <2>2. In("qa")' = In("qa") /\ In("revision")' = In("revision")
    BY <2>1 DEF In
  <2>3. SentBack'
    BY <1>1, <2>1, <2>2, StaysSentBack DEF DraftInv
  <2>4. InHand'
    BY <2>1, <2>2 DEF DraftInv, InHand
  <2>5. RunInv' /\ RoundInv'
    BY <2>1 DEF RunInv, RoundInv
  <2> QED
    BY <2>3, <2>4, <2>5 DEF DraftInv
<1>3. ASSUME NEW j \in Id, ReviseWrites(i, j) PROVE DraftInv'
  <2>1. /\ phase = "revise" /\ phase' = "unlink" /\ i \in todo
        /\ draft' = Written("qa", j, draft["revision"][i])
        /\ renamed' = (renamed \/ i # j)
        /\ hand' = [id |-> i, to |-> "qa"]
        /\ todo' = IF cmd = "single" THEN {j} ELSE todo \ {i}
        /\ UNCHANGED <<report, disk, cmd, round, errors, mem, faults>>
    BY <1>3 DEF ReviseWrites, Turn
  <2>2. todo \subseteq In("revision") /\ i \in In("revision") /\ hand'.id = i
    BY <2>1 DEF DraftInv, InHand
  <2>3. /\ In("qa")' = In("qa") \cup {j} /\ In("revision")' = In("revision")
        /\ draft'["qa"][j] = draft'["revision"][i]
    <3> DEFINE text == draft["revision"][i]
    <3>1. text # None /\ text \in Source \cup {None, Torn}
      BY <2>2 DEF In, IInv, TypeOK, Dir
    <3> HIDE DEF text
    <3>2. \A k \in Id : draft'["qa"][k] = IF k = j THEN text ELSE draft["qa"][k]
      BY <2>1 DEF Written, IInv, TypeOK, Dir, text
    <3>3. draft'["revision"] = draft["revision"]
      BY <2>1 DEF Written, IInv, TypeOK, Dir
    <3>4. In("qa")' = In("qa") \cup {j}
      BY <3>1, <3>2 DEF In
    <3>5. In("revision")' = In("revision")
      BY <3>3 DEF In
    <3> QED
      BY <3>2, <3>3, <3>4, <3>5 DEF text
  <2>4. SentBack'
    BY <1>1, <2>1, <2>3, StaysSentBack DEF DraftInv
  <2>5. InHand'
    BY <2>1, <2>2, <2>3 DEF InHand
  <2>6. RunInv'
    BY <2>1, <2>2, <2>3 DEF DraftInv, RunInv
  <2>7. RoundInv'
    BY <2>1, <2>2, <2>3 DEF DraftInv, RoundInv
  <2> QED
    BY <2>4, <2>5, <2>6, <2>7 DEF DraftInv
<1> QED
  BY <1>2, <1>3

LEMMA DraftsTidy ==
    ASSUME IInv, DraftInv, UnlinkDraft \/ UnlinkReport \/ Revised
    PROVE  DraftInv'
<1> USE AuthoringAssumption
<1>1. Count' = Count /\ faults' = faults
  BY CountKept
<1>2. CASE UnlinkDraft
  <2>1. /\ phase = "unlink" /\ phase' = "tidy"
        /\ draft' = [draft EXCEPT !["revision"][hand.id] = None]
        /\ report' = [report EXCEPT ![hand.id] = IF @ = "none" THEN "none" ELSE "stale"]
        /\ UNCHANGED <<disk, cmd, todo, hand, round, errors, mem, renamed>>
    BY <1>2 DEF UnlinkDraft, history
  <2>2. hand \in [id : Id, to : Dir]
    BY <2>1 DEF IInv, PhaseInv, TypeOK
  <2>3. /\ In("qa")' = In("qa") /\ In("revision")' = In("revision") \ {hand.id}
        /\ \A k \in Id : k # hand.id => report'[k] = report[k]
    <3>1. \A k \in Id :
            /\ draft'["qa"][k] = draft["qa"][k]
            /\ draft'["revision"][k] = IF k = hand.id THEN None ELSE draft["revision"][k]
            /\ k # hand.id => report'[k] = report[k]
      BY <2>1, <2>2 DEF IInv, TypeOK, Dir
    <3> QED
      BY <2>2, <3>1 DEF In
  <2>4. SentBack'
    <3>1. In("revision") \subseteq Id
      BY DEF In
    <3> QED
      BY <1>1, <2>1, <2>3, <3>1, StaysSentBack DEF DraftInv
  <2>5. InHand'
    BY <2>1, <2>3 DEF DraftInv, InHand
  <2>6. RunInv'
    BY <2>1, <2>3 DEF DraftInv, RunInv
  <2>7. RoundInv'
    BY <1>1, <2>1, <2>3 DEF DraftInv, RoundInv
  <2> QED
    BY <2>4, <2>5, <2>6, <2>7 DEF DraftInv
<1>3. CASE UnlinkReport
  <2>1. /\ phase = "tidy" /\ draft' = draft
        /\ report' = [report EXCEPT ![hand.id] = "none"]
        /\ UNCHANGED <<disk, cmd, errors, mem, renamed>>
        /\ \/ cmd # "single" /\ phase' = "revise" /\ todo' = todo /\ round' = round
           \/ cmd = "single" /\ phase' = "qa" /\ todo' = todo
           \/ cmd = "single" /\ phase' = "save"
    BY <1>3 DEF UnlinkReport, EnterQa, history
  <2>2. In("qa")' = In("qa") /\ In("revision")' = In("revision")
    BY <2>1 DEF In
  <2>3. hand.id \notin In("revision")
    BY <2>1 DEF DraftInv, InHand
  <2>4. \A k \in In("revision") : report'[k] = report[k]
    BY <2>1, <2>3 DEF In, IInv, TypeOK
  <2>5. SentBack'
    BY <1>1, <2>1, <2>2, <2>4, StaysSentBack DEF DraftInv
  <2>6. InHand'
    BY <2>1, <2>2 DEF DraftInv, InHand
  <2>7. RunInv' /\ RoundInv'
    BY <1>1, <2>1, <2>2 DEF DraftInv, RunInv, RoundInv
  <2> QED
    BY <2>5, <2>6, <2>7 DEF DraftInv
<1>4. CASE Revised
  <2>1. phase = "revise" /\ todo = {} /\ draft' = draft /\ report' = report
    BY <1>4 DEF Revised, files
  <2>2. In("qa")' = In("qa") /\ In("revision")' = In("revision")
    BY <2>1 DEF In
  <2>3. CASE cmd = "run" /\ ~errors /\ round < MaxRounds
    <3>1. /\ phase' = "qa" /\ todo' = In("qa") /\ round' = round + 1 /\ mem' = disk
          /\ UNCHANGED <<cmd, errors, renamed>>
      BY <1>4, <2>3 DEF Revised, EnterQa, LoadBounces, history
    <3>2. In("revision") = {}
      BY <2>1, <2>3 DEF DraftInv, RunInv
    <3>3. SentBack'
      BY <2>2, <3>2 DEF SentBack
    <3>4. InHand' /\ RunInv'
      BY <2>2, <3>1 DEF InHand, RunInv
    <3>5. RoundInv'
      <4>1. round \in Nat /\ round' - 1 = round
        BY <3>1 DEF IInv, TypeOK
      <4> QED
        BY <1>1, <2>1, <2>2, <2>3, <3>1, <3>2, <4>1 DEF DraftInv, RoundInv
    <3> QED
      BY <3>3, <3>4, <3>5 DEF DraftInv
  <2>4. CASE ~(cmd = "run" /\ ~errors /\ round < MaxRounds)
    <3>1. PICK code \in {"ok", "errors"} : Over(code)
      BY <1>4, <2>4 DEF Revised
    <3> QED
      BY <1>1, <2>1, <3>1, DraftsOver
  <2> QED
    BY <2>3, <2>4
<1> QED
  BY <1>2, <1>3, <1>4

LEMMA DraftsIngest ==
    ASSUME IInv, DraftInv, NEW i \in Id, Ingest(i)
    PROVE  DraftInv'
<1>1. /\ draft' = draft /\ report' = report
      /\ UNCHANGED <<disk, cmd, phase, todo, hand, round, errors, mem, renamed, faults>>
  BY DEF Ingest, work, history
<1>2. In("qa")' = In("qa") /\ In("revision")' = In("revision") /\ Count' = Count
  BY <1>1 DEF In, Count, StoreOpen
<1>3. InHand'
  BY <1>1, <1>2 DEF DraftInv, InHand
<1> QED
  BY <1>1, <1>2, <1>3 DEF DraftInv, SentBack, RunInv, RoundInv

LEMMA DraftsFollowed == Spec => []DraftInv
<1>1. Init => DraftInv
  <2> SUFFICES ASSUME Init PROVE DraftInv
    OBVIOUS
  <2>1. In("revision") = {}
    BY DEF Init, In, Dir
  <2>2. phase = "idle" /\ cmd = None /\ cmd # "run"
    BY AuthoringAssumption DEF Init, Command
  <2> QED
    BY <2>1, <2>2 DEF DraftInv, InHand, SentBack, RunInv, RoundInv
<1>2. IInv /\ DraftInv /\ [Next]_vars => DraftInv'
  <2> SUFFICES ASSUME IInv, DraftInv, [Next]_vars PROVE DraftInv'
    OBVIOUS
  <2>1. CASE Kill
    <3>1. phase' = "idle" /\ cmd' = None /\ cmd' # "run" /\ faults' # 0
      BY <2>1, AuthoringAssumption DEF Kill, IInv, TypeOK, Command
    <3> QED
      BY <3>1 DEF DraftInv, InHand, SentBack, RunInv, RoundInv
  <2>2. CASE UNCHANGED vars
    <3>1. /\ UNCHANGED <<draft, report, disk, cmd, phase, todo, hand, round,
                         errors, mem, renamed, faults>>
      BY <2>2 DEF vars, files, work, history
    <3>2. In("qa")' = In("qa") /\ In("revision")' = In("revision") /\ Count' = Count
      BY <3>1 DEF In, Count, StoreOpen
    <3>3. InHand'
      BY <3>1, <3>2 DEF DraftInv, InHand
    <3> QED
      BY <3>1, <3>2, <3>3 DEF DraftInv, SentBack, RunInv, RoundInv
  <2>3. ASSUME Step PROVE DraftInv'
    BY <2>3, DraftsAuthor, DraftsJudge, DraftsGate, DraftsRevise, DraftsTidy DEF Step
  <2> QED
    BY <2>1, <2>2, <2>3, DraftsStart, DraftsIngest DEF Next
<1> QED
  BY <1>1, <1>2, AuthoringInvariant, PTL DEF Spec

\* The author never sees another draft's report, unless a process was killed:
\* what is to be revised was sent back since, and its report written.
THEOREM FeedbackIsOwn == Spec => OwnFeedback
<1> DEFINE Fed(i) == faults = 0 /\ phase = "revise" /\ i \in todo => report[i] = "fresh"
<1>1. DraftInv => \A i \in Id : Fed(i)
  BY DEF DraftInv, InHand, SentBack
<1>2. DraftInv /\ [Next]_vars => [\A i \in Id : Fed(i)]_vars
  BY <1>1
<1>3. [][\A i \in Id : Fed(i)]_vars => OwnFeedback
  BY PTL DEF OwnFeedback
<1> QED
  BY <1>2, <1>3, DraftsFollowed, PTL DEF Spec

\* A run that ends well has nothing left to revise; and nothing to judge, if
\* there are more rounds than an id may be sent back, no count was lost and no
\* draft changed its id.
THEOREM RunsClear == Spec => RunClears
<1> DEFINE Clears ==
        cmd = "run" /\ cmd' = None /\ exit' = "ok" =>
            /\ In("revision") = {}
            /\ MaxRounds > Budget /\ faults = 0 /\ ~renamed => In("qa") = {}
<1>1. IInv /\ DraftInv /\ [Next]_vars => [Clears]_vars
  <2> SUFFICES ASSUME IInv, DraftInv, Next, cmd = "run", cmd' = None, exit' = "ok"
               PROVE  /\ In("revision") = {}
                      /\ MaxRounds > Budget /\ faults = 0 /\ ~renamed => In("qa") = {}
    OBVIOUS
  <2> USE AuthoringAssumption
  <2>1. cmd' # cmd
    BY DEF Command
  <2>2. CASE Save
    <3>1. In("revision") = {} /\ phase = "save"
      BY <2>1, <2>2 DEF Save
    <3> QED
      BY <3>1 DEF DraftInv, RunInv
  <2>3. CASE Revised
    <3>1. phase = "revise" /\ todo = {} /\ ~(~errors /\ round < MaxRounds)
      BY <2>1, <2>3 DEF Revised
    <3>2. ~errors
      BY <2>1, <2>3, <3>1 DEF Revised, Over
    <3>3. In("revision") = {}
      BY <3>1, <3>2 DEF DraftInv, RunInv
    <3>4. faults = 0 /\ ~renamed => round <= Budget
      BY <3>1, <3>2 DEF DraftInv, RoundInv
    <3>5. round \in Nat
      BY DEF IInv, TypeOK
    <3> QED
      BY <3>1, <3>2, <3>3, <3>4, <3>5
  <2>4. ~Kill
    BY DEF Kill
  <2>5. ~Start
    BY DEF Start, AuthorBegins, QaBegins, ReviseBegins, Begin
  <2>6. ~Authored
    BY <2>1 DEF Authored
  <2> QED
    BY <2>1, <2>2, <2>3, <2>4, <2>5, <2>6
       DEF Next, Step, AuthorFails, AuthorWrites, Judge, Report, Judged, ReviseFails,
           ReviseWrites, UnlinkDraft, UnlinkReport, Ingest, work
<1>2. [][Clears]_vars => RunClears
  BY PTL DEF RunClears
<1> QED
  BY <1>1, <1>2, AuthoringInvariant, DraftsFollowed, PTL DEF Spec

\* No draft is lost but by one that is written over it: moving keeps it, and
\* what is removed from pending-revision has been written to pending-qa.
THEOREM DraftsStay == Spec => DraftKept
<1> DEFINE Stays(d, i) ==
        draft[d][i] # None /\ draft'[d][i] = None =>
            \E e \in Dir, j \in Id : draft'[e][j] = draft[d][i]
<1>1. IInv /\ DraftInv /\ [Next]_vars => [\A d \in Dir, i \in Id : Stays(d, i)]_vars
  <2> SUFFICES ASSUME IInv, DraftInv, Next, NEW d \in Dir, NEW i \in Id,
                      draft[d][i] # None, draft'[d][i] = None
               PROVE  \E e \in Dir, j \in Id : draft'[e][j] = draft[d][i]
    OBVIOUS
  <2> USE AuthoringAssumption
  <2>1. draft' # draft
    OBVIOUS
  <2>2. ASSUME NEW k \in Id, NEW text, text # None
        PROVE  draft' # Written("qa", k, text)
    BY <2>2 DEF Written, IInv, TypeOK, Dir
  <2>3. ASSUME NEW k \in Id, NEW finding \in Finding(k), Judge(k, finding)
        PROVE  \E e \in Dir, j \in Id : draft'[e][j] = draft[d][i]
    <3> DEFINE to == Route(finding, mem[k])
    <3>1. to \in Dir \ {"qa"}
      BY RouteAway DEF IInv, TypeOK, Bounces
    <3>2. draft' = Moved(k, "qa", to) /\ k \in In("qa")
      BY <2>3 DEF Judge, Turn, DraftInv, InHand
    <3> HIDE DEF to
    <3>3. /\ draft'[to][k] = draft["qa"][k] /\ draft["qa"][k] # None
          /\ \A e \in Dir, j \in Id :
                e \notin {"qa", to} \/ j # k => draft'[e][j] = draft[e][j]
      BY <3>1, <3>2, AfterMoving DEF IInv
    <3>4. d = "qa" /\ i = k
      BY <3>3
    <3> QED
      BY <3>1, <3>3, <3>4
  <2>4. CASE UnlinkDraft
    <3>1. /\ phase = "unlink"
          /\ draft' = [draft EXCEPT !["revision"][hand.id] = None]
      BY <2>4 DEF UnlinkDraft
    <3>2. PICK j \in Id : draft["qa"][j] = draft["revision"][hand.id]
      BY <3>1 DEF DraftInv, InHand
    <3>3. d = "revision" /\ i = hand.id
      BY <3>1 DEF IInv, TypeOK, Dir
    <3>4. draft'["qa"][j] = draft["qa"][j] /\ "qa" \in Dir
      BY <3>1 DEF IInv, TypeOK, Dir
    <3> QED
      BY <3>2, <3>3, <3>4
  <2>5. ~(\E s \in Source, j \in Id : AuthorWrites(s, j))
    BY <2>2 DEF AuthorWrites
  <2>6. ~(\E k \in Id, j \in Id : ReviseWrites(k, j))
    <3> SUFFICES ASSUME NEW k \in Id, NEW j \in Id, ReviseWrites(k, j) PROVE FALSE
      OBVIOUS
    <3>1. draft' = Written("qa", j, draft["revision"][k]) /\ k \in In("revision")
      BY DEF ReviseWrites, Turn, DraftInv, InHand
    <3> QED
      BY <2>2, <3>1 DEF In
  <2>7. ~Kill
    <3>1. Torn # None
      OBVIOUS
    <3> QED
      BY <2>1, <2>2, <3>1 DEF Kill, TornDrafts
  <2>8. ~Start
    BY <2>1 DEF Start, AuthorBegins, QaBegins, ReviseBegins, Begin, files
  <2> QED
    BY <2>1, <2>3, <2>4, <2>5, <2>6, <2>7, <2>8
       DEF Next, Step, AuthorFails, Authored, Report, Judged, Save, ReviseFails,
           UnlinkReport, Revised, Ingest, files
<1>2. [][\A d \in Dir, i \in Id : Stays(d, i)]_vars => DraftKept
  BY PTL DEF DraftKept
<1> QED
  BY <1>1, <1>2, AuthoringInvariant, DraftsFollowed, PTL DEF Spec

-----------------------------------------------------------------------------
\* Theorem: types, counts and approved drafts together.
THEOREM AuthoringIsSound == Spec => []AuthoringSound
<1>1. TypeOK /\ BudgetHolds /\ ReviewedIsServed => AuthoringSound
  BY DEF AuthoringSound
<1> QED
  BY <1>1, TypeCorrect, BudgetKept, ReviewedServed, PTL
=============================================================================
