--------------------------- MODULE PhaseFileProofs ---------------------------
(***************************************************************************)
(* What holds of the phase file for any number of requests and operators,  *)
(* and for a request that has the file to itself.                          *)
(***************************************************************************)
EXTENDS PhaseFile, TLAPS

\* Lemma: the phase graph stays among the phases.
LEMMA GraphTyped ==
    /\ DOMAIN PhaseGraph = {"spec", "design", "build", "qa", "ship"}
    /\ DOMAIN PhaseGraph \subseteq Phase
    /\ \A q \in DOMAIN PhaseGraph : PhaseGraph[q] \in Phase
<1>1. DOMAIN PhaseGraph = {"spec", "design", "build", "qa", "ship"}
  BY DEF PhaseGraph
<1> QED  BY <1>1 DEF PhaseGraph, Phase, ValidPhases

\* Lemma: what a write over old contents leaves is the new phase or torn text.
LEMMA OverlayTyped ==
    ASSUME NEW p \in Phase, NEW old, NEW c \in Overlay(p, old)
    PROVE  c = p \/ c = "torn"
BY DEF Overlay

-----------------------------------------------------------------------------
\* The phases that may be the project's next: those an operator chose and the
\* successors of those that were its phase.
Allowed == chosen \cup Successors(seen)

\* A request carries a phase that was the project's, an operator a phase.
Carrying ==
    /\ \A r \in Request :
          /\ pc[r] # "idle" => current[r] \in seen
          /\ pc[r] = "opened" => current[r] \in DOMAIN PhaseGraph
    /\ \A o \in Operator : pc[o] # "idle" => current[o] \in Phase

\* The files hold allowed phases only, those a reader sees are recorded.
Justified ==
    /\ file \in Phase => file \in seen
    /\ tmp \in Phase => tmp \in Allowed
    /\ seen \subseteq Allowed

\* The inductive invariant.
IInv == TypeOK /\ Carrying /\ Justified

\* Lemma: a step that leaves allowed phases in the files, records what readers
\* may see and forgets nothing keeps the files justified.
LEMMA KeepsJustified ==
    ASSUME TypeOK, Justified, chosen \subseteq chosen', Observe,
           file' \in Phase => file' \in Allowed \cup chosen',
           tmp' \in Phase => tmp' \in Allowed \cup chosen'
    PROVE  seen \subseteq seen' /\ Justified'
<1>1. seen \subseteq seen'
  BY DEF Observe
<1>2. Allowed \cup chosen' \subseteq Allowed'
  BY <1>1 DEF Allowed, Successors
<1>3. file' \in Phase => file' \in seen'
  BY PhaseAssumption DEF Observe, PhaseIn, Content
<1>4. seen' \subseteq Allowed'
  BY <1>2 DEF Justified, Observe, PhaseIn
<1> QED  BY <1>1, <1>2, <1>3, <1>4 DEF Justified

\* Lemma: a step that leaves the files and the histories alone, or only empties
\* a file, keeps them justified.
LEMMA EmptyingKeepsJustified ==
    ASSUME Justified, UNCHANGED <<seen, chosen>>,
           file' \in {file, "empty", None}, tmp' \in {tmp, "empty"}
    PROVE  Justified'
BY PhaseAssumption DEF Justified, Allowed, Successors, Content, Phase, ValidPhases

\* Lemma: the invariant holds initially.
LEMMA InitiallyIInv == Init => IInv
<1> SUFFICES ASSUME Init PROVE IInv
  OBVIOUS
<1>1. TypeOK
  BY PhaseAssumption DEF Init, TypeOK, Content, Location, Descriptor, Phase
<1>2. Carrying
  BY DEF Init, Carrying, Actor
<1>3. Justified
  BY PhaseAssumption DEF Init, Justified, Allowed, Content
<1> QED  BY <1>1, <1>2, <1>3 DEF IInv

\* Lemma: every step of a request preserves the invariant.
LEMMA RequestKeepsIInv ==
    ASSUME IInv, NEW r \in Request, RequestStep(r)
    PROVE  IInv'
<1> USE DEF IInv, TypeOK, Location, Descriptor, Goto, Close, Finish
<1>a. r \in Actor
  BY DEF Actor
<1>1. CASE BeginRequest(r)
  <2>1. Justified'
    BY <1>1, EmptyingKeepsJustified DEF BeginRequest
  <2>2. ReadPhase # None => ReadPhase \in Phase \cap seen
    BY DEF ReadPhase, PhaseIn, Justified
  <2>3. TypeOK'
    BY <1>a, <1>1, <2>2 DEF BeginRequest
  <2>4. Carrying'
    BY <1>a, <1>1, <2>2 DEF BeginRequest, Carrying, Actor
  <2> QED  BY <2>1, <2>3, <2>4
<1>2. CASE NoTransition(r)
  <2>1. Justified'
    BY <1>2, EmptyingKeepsJustified DEF NoTransition
  <2>2. TypeOK' /\ Carrying'
    BY <1>a, <1>2 DEF NoTransition, Carrying, Actor
  <2> QED  BY <2>1, <2>2
<1>3. CASE OpenTmp(r)
  <2>1. Justified'
    BY <1>3, EmptyingKeepsJustified DEF OpenTmp
  <2>2. TypeOK'
    BY <1>a, <1>3 DEF OpenTmp, Content
  <2>3. Carrying'
    BY <1>a, <1>3 DEF OpenTmp, Carrying, Actor
  <2> QED  BY <2>1, <2>2, <2>3
<1>4. CASE WriteTmp(r)
  <2>1. PICK c \in Overlay(PhaseGraph[current[r]], Held(r)) : Put(r, c)
    BY <1>4 DEF WriteTmp
  <2>2. /\ current[r] \in seen \cap DOMAIN PhaseGraph
        /\ PhaseGraph[current[r]] \in Phase
    BY <1>4, GraphTyped DEF WriteTmp, Carrying
  <2>3. c \in Content /\ (c \in Phase => c \in Allowed)
    <3>1. c = PhaseGraph[current[r]] \/ c = "torn"
      BY <2>2, OverlayTyped
    <3>2. PhaseGraph[current[r]] \in Allowed
      <4>1. CASE PhaseGraph[current[r]] = current[r]
        BY <2>2, <4>1 DEF Justified
      <4>2. CASE PhaseGraph[current[r]] # current[r]
        BY <2>2, <4>2 DEF Allowed, Successors
      <4> QED  BY <4>1, <4>2
    <3> QED  BY <2>2, <3>1, <3>2 DEF Content, Phase, ValidPhases
  <2>4. seen \subseteq seen' /\ Justified'
    BY <1>4, <2>1, <2>3, KeepsJustified DEF WriteTmp, Put, Justified
  <2>5. TypeOK'
    BY <1>a, <1>4, <2>1, <2>3 DEF WriteTmp, Put, Observe, PhaseIn
  <2>6. Carrying'
    BY <1>a, <1>4, <2>4 DEF WriteTmp, Carrying, Actor
  <2> QED  BY <2>4, <2>5, <2>6
<1>5. CASE ReplacePhase(r)
  <2>1. seen \subseteq seen' /\ Justified'
    BY <1>5, KeepsJustified, PhaseAssumption DEF ReplacePhase, Justified, Content
  <2>2. TypeOK'
    BY <1>a, <1>5 DEF ReplacePhase, Renamed, Observe, PhaseIn
  <2>3. Carrying'
    BY <1>a, <1>5, <2>1 DEF ReplacePhase, Carrying, Actor
  <2> QED  BY <2>1, <2>2, <2>3
<1> QED  BY <1>1, <1>2, <1>3, <1>4, <1>5 DEF RequestStep

\* Lemma: every step of an operator preserves the invariant.
LEMMA OperatorKeepsIInv ==
    ASSUME IInv, NEW o \in Operator, OperatorStep(o)
    PROVE  IInv'
<1> USE DEF IInv, TypeOK, Location, Descriptor, Goto, Close, Finish
<1>a. o \in Actor /\ o \notin Request
  BY PhaseAssumption DEF Actor
<1>1. ASSUME NEW p \in Choice, BeginSet(o, p) PROVE IInv'
  <2>1. Justified'
    BY <1>1, EmptyingKeepsJustified DEF BeginSet
  <2>2. TypeOK'
    BY <1>a, <1>1, PhaseAssumption DEF BeginSet, Content, Phase
  <2>3. Carrying'
    BY <1>a, <1>1, PhaseAssumption DEF BeginSet, Carrying, Actor, Phase
  <2> QED  BY <2>1, <2>2, <2>3
<1>2. CASE EndSet(o)
  <2>1. PICK c \in {current[o], "torn"} : Put(o, c)
    BY <1>2 DEF EndSet
  <2>2. current[o] \in Phase
    BY <1>2 DEF EndSet, Carrying
  <2>3. c \in Content /\ (c \in Phase => c \in chosen')
    <3>1. current[o] \in chosen'
      BY <1>2 DEF EndSet
    <3> QED  BY <2>2, <3>1 DEF Content, Phase, ValidPhases
  <2>4. seen \subseteq seen' /\ Justified'
    BY <1>2, <2>1, <2>3, KeepsJustified DEF EndSet, Put, Justified, Allowed
  <2>5. TypeOK'
    BY <1>a, <1>2, <2>1, <2>2, <2>3 DEF EndSet, Put, Observe, PhaseIn
  <2>6. Carrying'
    BY <1>a, <1>2, <2>4 DEF EndSet, Carrying, Actor
  <2> QED  BY <2>4, <2>5, <2>6
<1>3. CASE ClearPhase(o)
  <2>1. Justified'
    BY <1>3, EmptyingKeepsJustified DEF ClearPhase
  <2>2. TypeOK' /\ Carrying'
    BY <1>a, <1>3 DEF ClearPhase, Carrying, Unlinked
  <2> QED  BY <2>1, <2>2
<1> QED  BY <1>1, <1>2, <1>3 DEF OperatorStep

\* Lemma: the death of an actor preserves the invariant.
LEMMA CrashKeepsIInv ==
    ASSUME IInv, NEW a \in Actor, Crash(a)
    PROVE  IInv'
<1>1. Justified'
  BY EmptyingKeepsJustified DEF IInv, Crash
<1>2. TypeOK' /\ Carrying'
  BY DEF IInv, TypeOK, Location, Descriptor, Crash, Carrying, Goto, Close, Finish,
         Actor
<1> QED  BY <1>1, <1>2 DEF IInv

\* Lemma: the invariant is inductive.
LEMMA Inductive == Spec => []IInv
<1>1. IInv /\ [Next]_vars => IInv'
  <2> SUFFICES ASSUME IInv, [Next]_vars PROVE IInv'
    OBVIOUS
  <2>1. CASE UNCHANGED vars
    BY <2>1 DEF vars, IInv, TypeOK, Carrying, Justified, Allowed, Successors
  <2> QED
    BY <2>1, RequestKeepsIInv, OperatorKeepsIInv, CrashKeepsIInv DEF Next
<1> QED  BY <1>1, InitiallyIInv, PTL DEF Spec

\* Theorem: files, descriptors and histories stay in their types.
THEOREM TypeCorrect == Spec => []TypeOK
BY Inductive, PTL DEF IInv

\* Theorem: however many requests and operators interleave and crash, no phase
\* is skipped.
THEOREM PhasesNeverSkipped == Spec => []NoPhaseSkipped
<1>1. IInv => NoPhaseSkipped
  BY DEF IInv, Justified, Allowed, NoPhaseSkipped
<1> QED  BY <1>1, Inductive, PTL

\* Theorem: a project whose phase is lost stays without one until an operator
\* sets it, for any number of requests and operators.
THEOREM DarkStaysDark == Spec => DarkUntilSet
<1>1. IInv /\ [Next]_vars => (Dark => Dark' \/ \E o \in Operator : pc'[o] = "opened")
  <2> SUFFICES ASSUME IInv, [Next]_vars, Dark
               PROVE  Dark' \/ \E o \in Operator : pc'[o] = "opened"
    OBVIOUS
  <2> USE DEF IInv, TypeOK, Dark
  <2>1. ASSUME NEW r \in Request, RequestStep(r) PROVE Dark'
    BY <2>1 DEF RequestStep, BeginRequest, NoTransition, OpenTmp, WriteTmp,
                ReplacePhase, ReadPhase, Actor
  <2>2. ASSUME NEW o \in Operator, NEW p \in Choice, BeginSet(o, p)
        PROVE  pc'[o] = "opened"
    BY <2>2 DEF BeginSet, Goto, Actor
  <2>3. ASSUME NEW o \in Operator, EndSet(o) \/ ClearPhase(o) PROVE Dark'
    BY <2>3, PhaseAssumption DEF EndSet, ClearPhase, ReadPhase, PhaseIn, Actor, Content
  <2>4. ASSUME NEW a \in Actor, Crash(a) PROVE FALSE
    BY <2>4 DEF Crash
  <2>5. CASE UNCHANGED vars
    BY <2>5 DEF vars, ReadPhase
  <2> QED  BY <2>1, <2>2, <2>3, <2>4, <2>5 DEF Next, OperatorStep
<1> QED  BY <1>1, Inductive, PTL DEF Spec, DarkUntilSet
-----------------------------------------------------------------------------
(* A request that has the file to itself. *)

\* One request at a time, and nobody at the `phase' command.
Alone == Operator = {} /\ \E r : Request = {r}

\* The only request's temporary file is its own: while it is being written the
\* phase is still the one the request read.
Exclusive ==
    /\ file \in Phase
    /\ \A r \in Request :
          /\ pc[r] # "idle" => current[r] = file
          /\ pc[r] \in {"opened", "written"} => fd[r] = "tmp" /\ file \in DOMAIN PhaseGraph
          /\ pc[r] = "opened" => tmp = "empty"
          /\ pc[r] = "written" => tmp = PhaseGraph[file]

\* Lemma: a step of a request that is alone advances the phase or leaves it, and
\* keeps the temporary file its own.
LEMMA AloneStep ==
    ASSUME Alone, TypeOK, Exclusive, [Next]_vars
    PROVE  Exclusive' /\ (file' = file \/ Register!Advance)
<1>1. PICK r : Request = {r}
  BY DEF Alone
<1>2. Actor = {r} /\ Operator = {}
  BY <1>1 DEF Alone, Actor
<1>3. None \notin Phase /\ ReadPhase = file
  BY PhaseAssumption DEF Exclusive, ReadPhase, PhaseIn, Content
<1> USE <1>1, <1>2, <1>3
        DEF TypeOK, Exclusive, Location, Goto, Close, Finish
<1>4. CASE BeginRequest(r) \/ NoTransition(r) \/ Crash(r)
  BY <1>4 DEF BeginRequest, NoTransition, Crash
<1>5. CASE OpenTmp(r)
  BY <1>5 DEF OpenTmp
<1>6. CASE WriteTmp(r)
  <2>1. PICK c \in Overlay(PhaseGraph[file], "empty") : Put(r, c)
    BY <1>6 DEF WriteTmp, Held
  <2>2. c = PhaseGraph[file]
    BY <2>1 DEF Overlay
  <2> QED  BY <1>6, <2>1, <2>2 DEF WriteTmp, Put
<1>7. CASE ReplacePhase(r)
  <2>1. file' = PhaseGraph[file] /\ file' \in Phase /\ file \in DOMAIN PhaseGraph
    BY <1>7, GraphTyped DEF ReplacePhase
  <2>2. ReadPhase' = file'
    BY <2>1 DEF ReadPhase, PhaseIn
  <2> QED  BY <1>7, <2>1, <2>2 DEF ReplacePhase, Register!Advance
<1>8. CASE UNCHANGED vars
  BY <1>8 DEF vars
<1> QED
  BY <1>4, <1>5, <1>6, <1>7, <1>8 DEF Next, RequestStep

\* Lemma: Exclusive is an invariant of a request that is alone.
LEMMA AloneInvariant == Alone => (Spec => [](TypeOK /\ Exclusive))
<1> SUFFICES ASSUME Alone PROVE Spec => [](TypeOK /\ Exclusive)
  OBVIOUS
<1>1. Init => Exclusive
  BY PhaseAssumption DEF Init, Exclusive, Actor, Phase
<1>2. TypeOK /\ Exclusive /\ [Next]_vars => Exclusive'
  BY AloneStep
<1> QED  BY <1>1, <1>2, TypeCorrect, PTL DEF Spec

\* Theorem: a request that is alone never shows anybody a partial file, wherever
\* it crashes.
THEOREM AloneNeverPartial == Alone => (Spec => []NeverPartial)
<1>1. Exclusive => NeverPartial
  BY DEF Exclusive, NeverPartial
<1> QED  BY <1>1, AloneInvariant, PTL

\* Theorem: the file of a project whose requests come one at a time implements
\* the phase register: every change of the phase is one step of the phase graph.
THEOREM AloneImplementsRegister == Alone => (Spec => ImplementsRegister)
<1> SUFFICES ASSUME Alone PROVE Spec => ImplementsRegister
  OBVIOUS
<1>1. Init => ReadPhase \in Phase
  BY PhaseAssumption DEF Init, ReadPhase, PhaseIn, Phase
<1>2. TypeOK /\ Exclusive /\ [Next]_vars => [Register!Advance]_ReadPhase
  BY AloneStep DEF ReadPhase
<1> QED
  BY <1>1, <1>2, AloneInvariant, PTL DEF Spec, ImplementsRegister, Register!Spec

\* Theorem: the phase file of a request that has it to itself keeps its type and
\* is never partial, wherever the request dies.
THEOREM AloneIsSound == Alone => (Spec => []AloneSound)
<1>1. TypeOK /\ NeverPartial => AloneSound
  BY DEF AloneSound
<1> QED  BY <1>1, TypeCorrect, AloneNeverPartial, PTL
=============================================================================
