------------------------------ MODULE ProxyProofs ------------------------------
(***************************************************************************)
(* What holds of the embedding breaker for any number of threads and any   *)
(* thresholds, and of the proxy for any number of requests and any phases  *)
(* an operator may write: it uses the breaker as EmbeddingBreaker has it,  *)
(* accounts for every request, and names the phase that was judged.        *)
(*                                                                         *)
(* Almost every action of the proxy replaces the state of one handler and  *)
(* leaves the project's phase alone, so its proofs go through StepsOf:     *)
(* what such a step may make of the handler's state.                       *)
(***************************************************************************)
EXTENDS Proxy, TLAPS

-----------------------------------------------------------------------------
(* The breaker. *)

\* Lemma: every method of the breaker, and the passing of the recovery
\* timeout, keeps a breaker a breaker.
LEMMA MethodsTyped ==
    ASSUME NEW b \in Breaker
    PROVE  /\ MaybeHalfOpen(b) \in Breaker
           /\ AfterAllowRequest(b) \in Breaker
           /\ RecordSuccess(b) \in Breaker
           /\ RecordFailure(b) \in Breaker
           /\ [b EXCEPT !.cooled = TRUE] \in Breaker
<1>1. MaybeHalfOpen(b) \in Breaker
  BY DEF MaybeHalfOpen, Breaker, BreakerState
<1>2. AfterAllowRequest(b) \in Breaker
  BY <1>1 DEF AfterAllowRequest, Breaker
<1>3. RecordSuccess(b) \in Breaker
  <2>1. InitialBreaker \in Breaker
    BY ThresholdAssumption DEF InitialBreaker, Breaker, BreakerState
  <2>2. b.successCount + 1 \in Nat /\ 0 \in 0 .. FailureCap
    BY ThresholdAssumption DEF Breaker
  <2>3. [b EXCEPT !.successCount = b.successCount + 1, !.probeInFlight = FALSE]
          \in Breaker
    BY <2>2 DEF Breaker
  <2>4. [b EXCEPT !.failureCount = 0, !.successCount = 0] \in Breaker
    BY <2>2 DEF Breaker
  <2> QED  BY <2>1, <2>3, <2>4 DEF RecordSuccess
<1>4. OneMoreFailure(b) \in 0 .. FailureCap
  BY ThresholdAssumption DEF OneMoreFailure, Breaker
<1>5. RecordFailure(b) \in Breaker
  BY <1>4 DEF RecordFailure, Breaker, BreakerState
<1>6. [b EXCEPT !.cooled = TRUE] \in Breaker
  BY DEF Breaker
<1> QED  BY <1>1, <1>2, <1>3, <1>5, <1>6

\* Theorem: the breaker and the request locations stay in their types, however
\* calls, late results and time-outs interleave.
THEOREM TypeCorrect == Spec => []TypeOK
<1>1. Init => TypeOK
  BY ThresholdAssumption
     DEF Init, TypeOK, InitialBreaker, Breaker, BreakerState, Location
<1>2. TypeOK /\ [Next]_vars => TypeOK'
  <2> SUFFICES ASSUME TypeOK, [Next]_vars PROVE TypeOK'
    OBVIOUS
  <2> USE DEF TypeOK, Location, Goto, Return
  <2>1. ASSUME NEW r \in Request, PrecheckBreaker(r) PROVE TypeOK'
    BY <2>1, MethodsTyped DEF PrecheckBreaker
  <2>2. ASSUME NEW r \in Request, EnterSafeEmbed(r) PROVE TypeOK'
    BY <2>2 DEF EnterSafeEmbed
  <2>3. ASSUME NEW r \in Request, ReadIsOpen(r) PROVE TypeOK'
    BY <2>3 DEF ReadIsOpen
  <2>4. ASSUME NEW r \in Request, RecheckBreaker(r) PROVE TypeOK'
    BY <2>4, MethodsTyped DEF RecheckBreaker
  <2>5. ASSUME NEW r \in Request, RaiseCircuitOpen(r) PROVE TypeOK'
    BY <2>5, MethodsTyped DEF RaiseCircuitOpen
  <2>6. ASSUME NEW r \in Request, EmbedSucceeds(r) PROVE TypeOK'
    BY <2>6, MethodsTyped DEF EmbedSucceeds
  <2>7. ASSUME NEW r \in Request, EmbedFails(r) PROVE TypeOK'
    BY <2>7, MethodsTyped DEF EmbedFails
  <2>8. CASE RecoveryTimeout
    BY <2>8, MethodsTyped DEF RecoveryTimeout
  <2>9. CASE UNCHANGED vars
    BY <2>9 DEF vars
  <2> QED
    BY <2>1, <2>2, <2>3, <2>4, <2>5, <2>6, <2>7, <2>8, <2>9
       DEF Next, Begin, Step, Embed
<1> QED  BY <1>1, <1>2, PTL DEF Spec

\* CountersAgree as a predicate of the breaker alone.
Agrees(b) ==
    /\ b.state = "closed" => b.failureCount < FailureThreshold
    /\ b.state # "closed" => b.failureCount >= FailureThreshold
    /\ b.state = "half_open" => b.successCount < SuccessThreshold
    /\ b.state # "half_open" => b.successCount = 0
    /\ b.probeInFlight => b.state = "half_open"
    /\ b.cooled => b.state = "open"

\* Lemma: every method keeps a breaker's counters in agreement with its state.
LEMMA MethodsAgree ==
    ASSUME NEW b \in Breaker, Agrees(b)
    PROVE  /\ Agrees(MaybeHalfOpen(b))
           /\ Agrees(AfterAllowRequest(b))
           /\ Agrees(RecordSuccess(b))
           /\ Agrees(RecordFailure(b))
           /\ b.state = "open" => Agrees([b EXCEPT !.cooled = TRUE])
<1> USE ThresholdAssumption
<1>1. Agrees(MaybeHalfOpen(b))
  BY DEF Agrees, MaybeHalfOpen, Breaker, BreakerState
<1>2. Agrees(AfterAllowRequest(b))
  BY <1>1, MethodsTyped DEF Agrees, AfterAllowRequest, Breaker, BreakerState
<1>3. Agrees(RecordSuccess(b))
  BY DEF Agrees, RecordSuccess, InitialBreaker, Breaker, BreakerState
<1>4. Agrees(RecordFailure(b))
  BY DEF Agrees, RecordFailure, OneMoreFailure, Breaker, BreakerState
<1>5. b.state = "open" => Agrees([b EXCEPT !.cooled = TRUE])
  BY DEF Agrees, Breaker, BreakerState
<1> QED  BY <1>1, <1>2, <1>3, <1>4, <1>5

\* Theorem: whatever order the threads' results arrive in, the counters, the
\* probe slot and the clock agree with the breaker's state.
THEOREM CountersAlwaysAgree == Spec => []CountersAgree
<1>1. Init => CountersAgree
  BY ThresholdAssumption DEF Init, CountersAgree, InitialBreaker
<1>2. TypeOK /\ CountersAgree /\ [Next]_vars => CountersAgree'
  <2> SUFFICES ASSUME TypeOK, Agrees(breaker), [Next]_vars PROVE Agrees(breaker)'
    BY DEF CountersAgree, Agrees
  <2>0. breaker \in Breaker
    BY DEF TypeOK
  <2>1. ASSUME NEW r \in Request, PrecheckBreaker(r) \/ RecheckBreaker(r)
        PROVE  Agrees(breaker)'
    BY <2>0, <2>1, MethodsAgree DEF PrecheckBreaker, RecheckBreaker, Agrees
  <2>2. ASSUME NEW r \in Request, EnterSafeEmbed(r) \/ ReadIsOpen(r)
        PROVE  Agrees(breaker)'
    BY <2>2 DEF EnterSafeEmbed, ReadIsOpen, Agrees
  <2>3. ASSUME NEW r \in Request, RaiseCircuitOpen(r) PROVE Agrees(breaker)'
    BY <2>0, <2>3, MethodsAgree DEF RaiseCircuitOpen, Agrees
  <2>4. ASSUME NEW r \in Request, Embed(r) PROVE Agrees(breaker)'
    BY <2>0, <2>4, MethodsAgree DEF Embed, EmbedSucceeds, EmbedFails, Agrees
  <2>5. CASE RecoveryTimeout
    BY <2>0, <2>5, MethodsAgree DEF RecoveryTimeout, Agrees
  <2>6. CASE UNCHANGED vars
    BY <2>6 DEF vars, Agrees
  <2> QED
    BY <2>1, <2>2, <2>3, <2>4, <2>5, <2>6 DEF Next, Begin, Step
<1> QED  BY <1>1, <1>2, TypeCorrect, PTL DEF Spec

\* Theorem: when requests call safe_embed directly, the probe slot is never
\* taken by nobody: whoever took it is in the call whose end releases it.
THEOREM SafeEmbedHoldsSlot == ~Precheck => (Spec => []ProbeSlotHeld)
<1> SUFFICES ASSUME ~Precheck PROVE Spec => []ProbeSlotHeld
  OBVIOUS
<1>1. Init => ProbeSlotHeld
  BY DEF Init, ProbeSlotHeld, InitialBreaker
<1>2. TypeOK /\ CountersAgree /\ ProbeSlotHeld /\ [Next]_vars => ProbeSlotHeld'
  <2> SUFFICES ASSUME TypeOK, CountersAgree, ProbeSlotHeld, [Next]_vars
               PROVE  ProbeSlotHeld'
    OBVIOUS
  <2> USE DEF ProbeSlotHeld, TypeOK, Goto, Return
  <2>1. ASSUME NEW r \in Request, EnterSafeEmbed(r) \/ ReadIsOpen(r)
        PROVE  ProbeSlotHeld'
    BY <2>1 DEF EnterSafeEmbed, ReadIsOpen, Location
  <2>2. ASSUME NEW r \in Request, RecheckBreaker(r) PROVE ProbeSlotHeld'
    <3>1. CASE Admits(breaker)
      BY <2>2, <3>1 DEF RecheckBreaker, Location
    <3>2. CASE ~Admits(breaker)
      <4>1. breaker'.probeInFlight => breaker.probeInFlight
        BY <2>2, <3>2 DEF RecheckBreaker, Admits, AfterAllowRequest, MaybeHalfOpen,
                          Breaker, BreakerState
      <4> QED  BY <2>2, <3>2, <4>1 DEF RecheckBreaker, Location
    <3> QED  BY <3>1, <3>2
  <2>3. ASSUME NEW r \in Request, RaiseCircuitOpen(r) PROVE ProbeSlotHeld'
    BY <2>3 DEF RaiseCircuitOpen, MaybeHalfOpen, Breaker, Location
  <2>4. ASSUME NEW r \in Request, Embed(r) PROVE ProbeSlotHeld'
    <3>1. ~RecordSuccess(breaker).probeInFlight
      BY DEF RecordSuccess, InitialBreaker, CountersAgree, Breaker, BreakerState
    <3>2. ~RecordFailure(breaker).probeInFlight
      BY DEF RecordFailure, CountersAgree, Breaker, BreakerState
    <3>3. ~breaker'.probeInFlight
      BY <2>4, <3>1, <3>2 DEF Embed, EmbedSucceeds, EmbedFails
    <3> QED  BY <3>3
  <2>5. CASE RecoveryTimeout
    BY <2>5 DEF RecoveryTimeout, Breaker
  <2>6. CASE UNCHANGED vars
    BY <2>6 DEF vars
  <2> QED
    BY <2>1, <2>2, <2>3, <2>4, <2>5, <2>6 DEF Next, Begin, Step
<1> QED  BY <1>1, <1>2, TypeCorrect, CountersAlwaysAgree, PTL DEF Spec

\* Theorem: a wedged breaker is wedged forever, for any number of threads; no
\* request that arrives later reaches the embedding service.
THEOREM WedgeIsPermanent == Spec => WedgedForever
<1>1. TypeOK /\ [Next]_vars => (Wedged => Wedged')
  <2> SUFFICES ASSUME TypeOK, [Next]_vars, Wedged PROVE Wedged'
    OBVIOUS
  <2> USE DEF Wedged, TypeOK, Goto, Return
  <2>0. /\ ~Admits(breaker)
        /\ AfterAllowRequest(breaker) = breaker
        /\ MaybeHalfOpen(breaker) = breaker
        /\ IsOpen(breaker)
    BY DEF Admits, AfterAllowRequest, MaybeHalfOpen, IsOpen, Breaker, BreakerState
  <2>1. ASSUME NEW r \in Request, Begin(r) PROVE Wedged'
    BY <2>0, <2>1 DEF Begin, PrecheckBreaker, EnterSafeEmbed, Location
  <2>2. ASSUME NEW r \in Request, Step(r) PROVE Wedged'
    BY <2>0, <2>2 DEF Step, ReadIsOpen, RecheckBreaker, RaiseCircuitOpen, Embed,
                      EmbedSucceeds, EmbedFails, Location
  <2>3. CASE RecoveryTimeout
    BY <2>3 DEF RecoveryTimeout
  <2>4. CASE UNCHANGED vars
    BY <2>4 DEF vars
  <2> QED  BY <2>1, <2>2, <2>3, <2>4 DEF Next
<1> QED  BY <1>1, TypeCorrect, PTL DEF Spec, WedgedForever

\* Theorem: safe_embed called directly keeps the breaker well typed, consistent
\* in its own fields, and its probe slot in the hands of a call.
THEOREM BreakerIsSound == ~Precheck => (Spec => []BreakerSound)
<1>1. TypeOK /\ CountersAgree /\ ProbeSlotHeld => BreakerSound
  BY DEF BreakerSound
<1> QED  BY <1>1, TypeCorrect, CountersAlwaysAgree, SafeEmbedHoldsSlot, PTL

-----------------------------------------------------------------------------
(* The proxy. *)

\* Theorem: whatever the handlers do around the retrieving threads, each step
\* of the proxy is one of the breaker or leaves it alone.
THEOREM UsesBreaker == ProxySpec => ImplementsBreaker
<1>1. ProxyInit => Init
  BY DEF ProxyInit
<1>2. [ProxyNext]_proxyVars => [Next]_vars
  BY RetrievalAssumption
     DEF ProxyNext, proxyVars, Next, Begin, Handle, Signal, Composition, Forwarding,
         Arrive, ReadSignalPhase, NoMatch, Match, SignalRaises, GatesStay, GatesMove,
         ComposeRefused, Compose, SystemRaises, CategoriesRaise, StoreRaises,
         FindNothing, Inject, Respond, StreamEnds, Work, Rewrite, Cool
<1> QED  BY <1>1, <1>2, PTL DEF ProxySpec, ImplementsBreaker, Spec

\* Theorem: so a breaker that is wedged stays wedged, whatever requests come.
THEOREM ProxyWedged == ProxySpec => WedgedForever
BY UsesBreaker, WedgeIsPermanent DEF ImplementsBreaker
-----------------------------------------------------------------------------
\* What is true of a handler in state f that has not forwarded its request ...
Unsent(f) == /\ f.traces = <<>>
             /\ f.forwarded = "nothing"
             /\ f.composed <=> f.telemetry = "compose"

\* ... and of one that has.
Sent(f) == /\ f.forwarded = (IF f.composed THEN "injected" ELSE "original")
           /\ f.composed <=> f.telemetry = "compose"

TracedOnce(f) == f.traces = <<[phase |-> f.arrived, composed |-> f.composed]>>

Early == {"arrived", "skill", "gates", "compose", "retrieving"}

\* The inductive invariant, for one handler whose state is f: what it has done
\* agrees with its stage, and only an early stage is without consequences.
Sound(f) ==
    /\ f \in Flow
    /\ f.stage \notin Resting => upstream
    /\ f.stage \in Early => Unsent(f) /\ ~f.composed
    /\ f.stage = "arrived" => f.judged = None
    /\ f.stage = "posting" => f.traces = <<>> /\ Sent(f)
    /\ f.stage = "streaming" => TracedOnce(f) /\ Sent(f)
    /\ f.stage = "idle" => Unsent(f) /\ f.judged = f.arrived
    /\ f.stage = "answered" =>
         \/ ~upstream /\ Unsent(f) /\ f.judged = f.arrived
         \/ upstream /\ TracedOnce(f) /\ Sent(f)

\* The phase of the trace is the phase judged, or the one about to be judged.
Named(f) == IF f.stage = "arrived" THEN f.arrived = phase ELSE f.arrived = f.judged

ProxyInv == /\ phase \in AnyPhase \cup {None}
            /\ upstream \in BOOLEAN
            /\ disturbed \subseteq Request
            /\ flow \in [Request -> Flow]
            /\ \A r \in Request : Sound(flow[r])
            /\ \A r \in Request \ disturbed : Named(flow[r])

\* r's handler reads the phase to judge or keeps the one it has, and is sound.
Advances(r) ==
    \E g \in Flow :
       /\ Become(r, g)
       /\ Sound(g)
       /\ g.stage # "arrived"
       /\ g.arrived = flow[r].arrived
       /\ g.judged = (IF At(r, "arrived") THEN phase ELSE flow[r].judged)

\* Lemma: a request that is forwarded is sent as it was composed, and traced
\* once if it is streamed.
LEMMA ForwardGives ==
    ASSUME NEW r \in Request, NEW f \in Flow, Unsent(f), upstream, Forward(r, f)
    PROVE  \E g \in Flow : /\ Become(r, g)
                           /\ Sound(g)
                           /\ g.stage # "arrived"
                           /\ g.arrived = f.arrived
                           /\ g.judged = f.judged
<1> DEFINE way == IF f.composed THEN "injected" ELSE "original"
           sent == [f EXCEPT !.forwarded = way]
           post == [sent EXCEPT !.stage = "posting"]
           streaming == [Traced(sent) EXCEPT !.stage = "streaming"]
           t == [phase |-> f.arrived, composed |-> f.composed]
<1>0. /\ way \in {"injected", "original"}
      /\ way = (IF f.composed THEN "injected" ELSE "original")
  OBVIOUS
<1>6. Become(r, post) \/ Become(r, streaming)
  BY DEF Forward
<1> HIDE DEF way
<1>1. /\ sent \in Flow
      /\ sent.forwarded = way
      /\ sent.composed = f.composed /\ sent.telemetry = f.telemetry
      /\ sent.traces = <<>> /\ sent.arrived = f.arrived /\ sent.judged = f.judged
  BY <1>0 DEF Flow, Unsent
<1>2. t \in Trace /\ <<t>> \in Seq(Trace)
  BY DEF Flow, Trace
<1>3. Traced(sent) = [sent EXCEPT !.traces = <<t>>]
  <2>1. Append(sent.traces, t) = <<t>>
    <3> HIDE DEF sent, t
    <3>1. sent.traces = <<>>
      BY <1>1
    <3>2. Append(<<>>, t) = <<t>>
      BY <1>2
    <3> QED  BY <3>1, <3>2
  <2>2. t = [phase |-> sent.arrived, composed |-> sent.composed]
    BY <1>1
  <2>3. Traced(sent) = [sent EXCEPT !.traces = Append(sent.traces, t)]
    <3> HIDE DEF sent, t
    <3> QED  BY <2>2 DEF Traced
  <2> HIDE DEF sent, t
  <2> QED  BY <2>1, <2>3
<1> HIDE DEF sent
<1>4. /\ post \in Flow /\ post.stage = "posting" /\ post.traces = <<>> /\ Sent(post)
      /\ post.arrived = f.arrived /\ post.judged = f.judged
  BY <1>0, <1>1 DEF Flow, Unsent, Sent, Stage
<1>5. /\ streaming \in Flow /\ streaming.stage = "streaming"
      /\ TracedOnce(streaming) /\ Sent(streaming)
      /\ streaming.arrived = f.arrived /\ streaming.judged = f.judged
  <2>1. streaming = [[sent EXCEPT !.traces = <<t>>] EXCEPT !.stage = "streaming"]
    BY <1>3
  <2> HIDE DEF streaming, t
  <2>2. /\ streaming \in Flow /\ streaming.stage = "streaming"
        /\ streaming.traces = <<t>> /\ Sent(streaming)
        /\ streaming.arrived = f.arrived /\ streaming.judged = f.judged
        /\ streaming.composed = f.composed
    BY <2>1, <1>0, <1>1, <1>2 DEF Flow, Unsent, Sent, Stage
  <2> QED  BY <2>2 DEF TracedOnce, t
<1> HIDE DEF post, streaming
<1>7. Sound(post) /\ Sound(streaming)
  BY <1>4, <1>5 DEF Sound, Early
<1> QED  BY <1>4, <1>5, <1>6, <1>7

\* Lemma: nothing composed, the request goes as it came.
LEMMA PassThroughAdvances ==
    ASSUME NEW r \in Request, Sound(flow[r]), flow[r].stage \in Early, PassThrough(r),
           At(r, "arrived") => phase = None
    PROVE  Advances(r)
<1>1. /\ flow[r] \in Flow /\ Unsent(flow[r]) /\ upstream
      /\ flow[r].stage = "arrived" => flow[r].judged = None
  BY DEF Sound, Early, Resting
<1>2. Forward(r, flow[r])
  BY DEF PassThrough
<1>3. PICK g \in Flow : /\ Become(r, g) /\ Sound(g) /\ g.stage # "arrived"
                        /\ g.arrived = flow[r].arrived /\ g.judged = flow[r].judged
  BY <1>1, <1>2, ForwardGives
<1> QED  BY <1>1, <1>3 DEF Advances, At

\* Lemma: a handler that goes on to another early stage stays sound.
LEMMA GoAdvances ==
    ASSUME NEW r \in Request, Sound(flow[r]),
           NEW s \in {"gates", "compose", "retrieving"},
           flow[r].stage \in Early \ {"arrived"}, Go(r, s)
    PROVE  Advances(r)
<1> DEFINE g == [flow[r] EXCEPT !.stage = s]
<1>1. Unsent(flow[r]) /\ ~flow[r].composed /\ upstream /\ flow[r] \in Flow
  BY DEF Sound, Early, Resting
<1>2. /\ g \in Flow /\ g.stage = s /\ Unsent(g) /\ ~g.composed
      /\ g.arrived = flow[r].arrived /\ g.judged = flow[r].judged
  BY <1>1 DEF Flow, Stage, Unsent
<1>3. Become(r, g)
  BY DEF Go
<1> HIDE DEF g
<1>4. Sound(g)
  BY <1>1, <1>2 DEF Sound, Early
<1> QED  BY <1>2, <1>3, <1>4 DEF Advances, At, Early

\* Lemma: every step of a handler but its arrival advances it.
LEMMA HandlerAdvances ==
    ASSUME NEW r \in Request, Sound(flow[r]), phase \in AnyPhase \cup {None},
           Handle(r) \/ SystemRaises(r)
    PROVE  Advances(r)
<1>a. flow[r] \in Flow
  BY DEF Sound
<1>1. CASE Signal(r)
  <2>1. CASE ReadSignalPhase(r)
    <3>1. CASE phase = None
      BY <2>1, <3>1, PassThroughAdvances DEF ReadSignalPhase, At, Early
    <3>2. CASE phase # None
      <4> DEFINE f == [flow[r] EXCEPT !.judged = phase]
                 g == [f EXCEPT !.stage = "skill"]
      <4>1. Unsent(flow[r]) /\ ~flow[r].composed /\ upstream /\ At(r, "arrived")
        BY <2>1 DEF ReadSignalPhase, Sound, Early, At, Resting
      <4>2. f \in Flow /\ f.judged = phase /\ f.arrived = flow[r].arrived
            /\ Unsent(f) /\ ~f.composed
        BY <4>1, <1>a DEF Flow, Unsent
      <4>4. Become(r, g)
        BY <2>1, <3>2 DEF ReadSignalPhase
      <4> HIDE DEF f
      <4>3. /\ g \in Flow /\ g.stage = "skill" /\ g.judged = phase
            /\ g.arrived = flow[r].arrived /\ Unsent(g) /\ ~g.composed
        BY <4>2 DEF Flow, Stage, Unsent
      <4> HIDE DEF g
      <4>5. Sound(g)
        BY <4>1, <4>3 DEF Sound, Early
      <4> QED  BY <4>1, <4>3, <4>4, <4>5 DEF Advances
    <3> QED  BY <3>1, <3>2
  <2>2. CASE NoMatch(r)
    BY <2>2, PassThroughAdvances DEF NoMatch, At, Early
  <2>3. CASE Match(r)
    BY <2>3, GoAdvances DEF Match, At, Early
  <2>4. CASE SignalRaises(r)
    BY <2>4, PassThroughAdvances DEF SignalRaises, At, Early
  <2>5. CASE GatesStay(r)
    BY <2>5, GoAdvances DEF GatesStay, At, Early
  <2>6. CASE GatesMove(r)
    BY <2>6, GoAdvances DEF GatesMove, At, Early
  <2> QED  BY <1>1, <2>1, <2>2, <2>3, <2>4, <2>5, <2>6 DEF Signal
<1>2. ASSUME Embedded(r), NEW f \in Flow, Unsent(f), Forward(r, f),
             f.arrived = flow[r].arrived, f.judged = flow[r].judged
      PROVE  Advances(r)
  <2>1. upstream /\ ~At(r, "arrived")
    BY <1>2 DEF Embedded, At, Sound, Resting
  <2> QED  BY <1>2, <2>1, ForwardGives DEF Advances
<1>3. CASE Composition(r)
  <2>1. CASE ComposeRefused(r)
    BY <2>1, PassThroughAdvances DEF ComposeRefused, At, Early
  <2>2. CASE Compose(r)
    BY <2>2, GoAdvances DEF Compose, At, Early
  <2>3. CASE CategoriesRaise(r) \/ StoreRaises(r)
    BY <2>3, PassThroughAdvances DEF CategoriesRaise, StoreRaises, Embedded, At, Early
  <2>a. ASSUME Embedded(r) PROVE Unsent(flow[r]) /\ ~flow[r].composed
    BY <2>a DEF Embedded, At, Sound, Early
  <2>4. CASE FindNothing(r)
    <3> DEFINE f == [flow[r] EXCEPT !.telemetry = "compose_empty"]
    <3>1. Embedded(r) /\ Forward(r, f)
      BY <2>4 DEF FindNothing
    <3>2. /\ f \in Flow /\ Unsent(f)
          /\ f.arrived = flow[r].arrived /\ f.judged = flow[r].judged
      BY <1>a, <2>a, <3>1 DEF Flow, Unsent
    <3> HIDE DEF f
    <3> QED  BY <3>1, <3>2, <1>2
  <2>5. CASE Inject(r)
    <3> DEFINE e == [flow[r] EXCEPT !.telemetry = "compose"]
               f == [e EXCEPT !.composed = TRUE]
    <3>1. Embedded(r) /\ Forward(r, f)
      BY <2>5 DEF Inject
    <3>2. /\ e \in Flow /\ e.telemetry = "compose" /\ e.traces = <<>>
          /\ e.forwarded = "nothing"
          /\ e.arrived = flow[r].arrived /\ e.judged = flow[r].judged
      BY <1>a, <2>a, <3>1 DEF Flow, Unsent
    <3> HIDE DEF e
    <3>3. /\ f \in Flow /\ f.telemetry = "compose" /\ f.composed = TRUE
          /\ f.traces = <<>> /\ f.forwarded = "nothing"
          /\ f.arrived = flow[r].arrived /\ f.judged = flow[r].judged
      BY <3>2 DEF Flow
    <3> HIDE DEF f
    <3> QED  BY <3>1, <3>3, <1>2 DEF Unsent
  <2> QED  BY <1>3, <2>1, <2>2, <2>3, <2>4, <2>5 DEF Composition
<1>4. CASE Respond(r)
  <2> DEFINE f == flow[r]
             t == [phase |-> f.arrived, composed |-> f.composed]
             g == [[f EXCEPT !.traces = <<t>>] EXCEPT !.stage = "answered"]
  <2>1. f.stage = "posting" /\ f.traces = <<>> /\ Sent(f) /\ upstream
    BY <1>4 DEF Respond, At, Sound, Resting
  <2>2. t \in Trace /\ <<t>> \in Seq(Trace)
    BY <1>a DEF Flow, Trace
  <2>3. Append(f.traces, t) = <<t>>
    <3> HIDE DEF t, f
    <3>1. Append(<<>>, t) = <<t>>
      BY <2>2
    <3> QED  BY <2>1, <3>1
  <2>4. Become(r, g)
    <3>1. Traced(f) = [f EXCEPT !.traces = Append(f.traces, t)]
      BY DEF Traced
    <3>2. Become(r, [Traced(f) EXCEPT !.stage = "answered"])
      BY <1>4 DEF Respond
    <3> HIDE DEF t, f
    <3> QED  BY <2>3, <3>1, <3>2
  <2>5. /\ g \in Flow /\ g.stage = "answered" /\ g.traces = <<t>> /\ Sent(g)
        /\ g.arrived = f.arrived /\ g.judged = f.judged /\ g.composed = f.composed
    <3> HIDE DEF t
    <3> QED  BY <1>a, <2>1, <2>2 DEF Flow, Stage, Sent
  <2> HIDE DEF g
  <2>6. Sound(g)
    BY <2>1, <2>5 DEF Sound, TracedOnce, Early
  <2> QED  BY <2>1, <2>4, <2>5, <2>6 DEF Advances, At
<1>5. CASE StreamEnds(r)
  <2> DEFINE g == [flow[r] EXCEPT !.stage = "answered"]
  <2>1. /\ flow[r].stage = "streaming" /\ upstream
        /\ TracedOnce(flow[r]) /\ Sent(flow[r])
    BY <1>5 DEF StreamEnds, At, Sound, Resting
  <2>2. /\ g \in Flow /\ g.stage = "answered" /\ TracedOnce(g) /\ Sent(g)
        /\ g.arrived = flow[r].arrived /\ g.judged = flow[r].judged
    BY <1>a, <2>1 DEF Flow, Stage, Sent, TracedOnce
  <2>3. Become(r, g)
    BY <1>5 DEF StreamEnds, Go
  <2> HIDE DEF g
  <2>4. Sound(g)
    BY <2>1, <2>2 DEF Sound, Early
  <2> QED  BY <2>1, <2>2, <2>3, <2>4 DEF Advances, At
<1>6. CASE SystemRaises(r)
  BY <1>6, PassThroughAdvances DEF SystemRaises, At, Early
<1> QED  BY <1>1, <1>3, <1>4, <1>5, <1>6 DEF Handle, Forwarding
-----------------------------------------------------------------------------
\* Lemma: the invariant holds at first.
LEMMA InvInit == ProxyInit => ProxyInv
<1> SUFFICES ASSUME ProxyInit PROVE ProxyInv
  OBVIOUS
<1> DEFINE f == NewFlow("idle", None)
<1>1. f \in Flow /\ Sound(f) /\ Named(f)
  BY DEF NewFlow, Flow, Stage, Sound, Named, Early, Resting, Unsent
<1>2. \A r \in Request : flow[r] = f
  BY DEF ProxyInit
<1>3. phase \in AnyPhase \cup {None}
  BY ChoiceAssumption DEF ProxyInit
<1>4. flow \in [Request -> Flow]
  BY <1>1 DEF ProxyInit
<1> HIDE DEF f
<1> QED  BY <1>1, <1>2, <1>3, <1>4 DEF ProxyInit, ProxyInv

\* Lemma: every phase that a transition or an operator writes is a phase, and
\* who has read the phase for the trace only is disturbed by it.
LEMMA RephaseKeeps ==
    ASSUME ProxyInv, NEW p \in AnyPhase \cup {None}, Rephase(p), upstream' = upstream,
           NEW q \in Request, flow'[q] = flow[q]
    PROVE  Sound(flow[q])' /\ (q \notin disturbed' => Named(flow[q])')
<1>1. Sound(flow[q])'
  BY DEF ProxyInv, Sound, Unsent, Sent, TracedOnce
<1>2. ASSUME q \notin disturbed'
      PROVE  Named(flow[q])'
  <2>1. q \notin disturbed /\ (p = phase \/ flow[q].stage # "arrived")
    BY <1>2 DEF Rephase, At
  <2>2. Named(flow[q])
    BY <2>1 DEF ProxyInv
  <2> QED  BY <2>1, <2>2 DEF Named, Rephase
<1> QED  BY <1>1, <1>2

LEMMA InvNext == ProxyInv /\ [ProxyNext]_proxyVars => ProxyInv'
<1> SUFFICES ASSUME ProxyInv, [ProxyNext]_proxyVars PROVE ProxyInv'
  OBVIOUS
<1>1. ASSUME NEW r \in Request, Advances(r), upstream' = upstream,
             \/ UNCHANGED <<phase, disturbed>>
             \/ GatesMove(r)
      PROVE  ProxyInv'
  <2>1. PICK g \in Flow : /\ Become(r, g)
                          /\ Sound(g)
                          /\ g.stage # "arrived"
                          /\ g.arrived = flow[r].arrived
                          /\ g.judged = (IF At(r, "arrived") THEN phase ELSE flow[r].judged)
    BY <1>1 DEF Advances
  <2>2. /\ flow' \in [Request -> Flow] /\ flow'[r] = g
        /\ \A q \in Request \ {r} : flow'[q] = flow[q]
    BY <2>1 DEF Become, ProxyInv
  <2>3. Sound(flow[r])'
    BY <1>1, <2>1, <2>2 DEF Sound, Unsent, Sent, TracedOnce
  <2>4. r \notin disturbed => Named(flow[r])'
    BY <2>1, <2>2 DEF ProxyInv, Named, At
  <2>5. CASE UNCHANGED <<phase, disturbed>>
    <3>1. \A q \in Request \ {r} : Sound(flow[q])'
      BY <1>1, <2>2 DEF ProxyInv, Sound, Unsent, Sent, TracedOnce
    <3>2. \A q \in Request \ disturbed : Named(flow[q])'
      BY <2>2, <2>4, <2>5 DEF ProxyInv, Named
    <3> QED  BY <1>1, <2>2, <2>3, <2>5, <3>1, <3>2 DEF ProxyInv
  <2>6. CASE GatesMove(r)
    <3> DEFINE p == PhaseGraph[flow[r].judged]
    <3>1. p \in AnyPhase \cup {None} /\ Rephase(p)
      BY <2>6 DEF GatesMove, PhaseGraph, AnyPhase, Phase, ValidPhases
    <3> HIDE DEF p
    <3>2. \A q \in Request \ {r} : Sound(flow[q])' /\ (q \notin disturbed' => Named(flow[q])')
      BY <1>1, <2>2, <3>1, RephaseKeeps
    <3>3. phase' = p /\ disturbed' \subseteq Request /\ disturbed \subseteq disturbed'
      BY <3>1 DEF Rephase, ProxyInv
    <3> QED  BY <1>1, <2>2, <2>3, <2>4, <3>1, <3>2, <3>3 DEF ProxyInv
  <2> QED  BY <1>1, <2>5, <2>6
<1>2. ASSUME NEW r \in Request, Handle(r) \/ SystemRaises(r)
      PROVE  ProxyInv'
  <2>1. Advances(r)
    BY <1>2, HandlerAdvances DEF ProxyInv
  <2>2. upstream' = upstream /\ (UNCHANGED <<phase, disturbed>> \/ GatesMove(r))
    BY <1>2 DEF Handle, Signal, Composition, Forwarding, ReadSignalPhase, NoMatch, Match,
         SignalRaises, GatesStay, GatesMove, ComposeRefused, Compose, SystemRaises,
         CategoriesRaise, StoreRaises, FindNothing, Inject, Respond, StreamEnds
  <2> QED  BY <1>1, <2>1, <2>2
<1>3. ASSUME NEW r \in Request, Arrive(r)
      PROVE  ProxyInv'
  <2> DEFINE g == IF upstream THEN NewFlow("arrived", phase) ELSE NewFlow("answered", None)
  <2>1. /\ g \in Flow /\ Sound(g) /\ Named(g)
    BY DEF ProxyInv, NewFlow, Flow, Stage, Sound, Named, Early, Resting, Unsent
  <2>2. flow' = [flow EXCEPT ![r] = g] /\ disturbed' = disturbed \ {r}
        /\ UNCHANGED <<phase, upstream>>
    BY <1>3 DEF Arrive, Become
  <2> HIDE DEF g
  <2>3. /\ flow' \in [Request -> Flow] /\ flow'[r] = g
        /\ \A q \in Request \ {r} : flow'[q] = flow[q]
    BY <2>1, <2>2 DEF ProxyInv
  <2>4. \A q \in Request : Sound(flow[q])'
    BY <2>1, <2>2, <2>3 DEF ProxyInv, Sound, Unsent, Sent, TracedOnce
  <2>5. \A q \in Request \ disturbed' : Named(flow[q])'
    BY <2>1, <2>2, <2>3 DEF ProxyInv, Named
  <2> QED  BY <2>2, <2>3, <2>4, <2>5 DEF ProxyInv
<1>4. CASE Rewrite
  <2>1. PICK p \in Choice \cup {None} : Rephase(p)
    BY <1>4 DEF Rewrite
  <2>2. p \in AnyPhase \cup {None}
    BY ChoiceAssumption
  <2>3. UNCHANGED <<flow, upstream>>
    BY <1>4 DEF Rewrite
  <2>4. phase' = p /\ disturbed' \subseteq Request
    BY <2>1 DEF Rephase, ProxyInv
  <2>5. \A q \in Request : Sound(flow[q])' /\ (q \notin disturbed' => Named(flow[q])')
    BY <2>1, <2>2, <2>3, RephaseKeeps
  <2> QED  BY <2>2, <2>3, <2>4, <2>5 DEF ProxyInv
<1>5. CASE UNCHANGED <<phase, upstream, flow, disturbed>>
  BY <1>5 DEF ProxyInv, Sound, Named, Unsent, Sent, TracedOnce
<1> QED
  BY <1>2, <1>3, <1>4, <1>5 DEF ProxyNext, proxyVars, Work, Cool

\* Theorem: the invariant.
THEOREM ProxyInvariant == ProxySpec => []ProxyInv
BY InvInit, InvNext, PTL DEF ProxySpec

\* Theorem: the handlers' states, the phase and the breaker keep their types.
THEOREM ProxyTyped == ProxySpec => []ProxyTypeOK
<1>1. ProxyInv /\ TypeOK => ProxyTypeOK
  BY DEF ProxyInv, ProxyTypeOK
<1> QED  BY <1>1, ProxyInvariant, UsesBreaker, TypeCorrect, PTL DEF ImplementsBreaker

\* Lemma: what a single trace says.
LEMMA OnceIs ==
    ASSUME NEW f, TracedOnce(f)
    PROVE  /\ Len(f.traces) = 1
           /\ f.traces[1].phase = f.arrived
           /\ f.traces[1].composed = f.composed
<1> DEFINE t == [phase |-> f.arrived, composed |-> f.composed]
<1>1. f.traces = <<t>>
  BY DEF TracedOnce
<1>2. t.phase = f.arrived /\ t.composed = f.composed
  OBVIOUS
<1> HIDE DEF t
<1>3. Len(<<t>>) = 1 /\ <<t>>[1] = t
  OBVIOUS
<1> QED  BY <1>1, <1>2, <1>3

\* Theorem: every answered request is accounted for, whatever failed.
THEOREM EveryRequestAccounted == ProxySpec => []Accounted
<1>1. ProxyInv => Accounted
  <2> SUFFICES ASSUME ProxyInv, NEW r \in Request, At(r, "answered")
               PROVE  LET f == flow[r]
                      IN  IF f.forwarded = "nothing" THEN f.traces = <<>> /\ ~upstream
                          ELSE /\ Len(f.traces) = 1
                               /\ f.traces[1].composed = (f.forwarded = "injected")
    BY DEF Accounted
  <2>1. Sound(flow[r])
    BY DEF ProxyInv
  <2>2. CASE ~upstream
    BY <2>1, <2>2 DEF Sound, At, Unsent
  <2>3. CASE upstream
    <3>1. TracedOnce(flow[r]) /\ Sent(flow[r])
      BY <2>1, <2>3 DEF Sound, At
    <3>2. flow[r].composed \in BOOLEAN
      BY <2>1 DEF Sound, Flow
    <3> QED  BY <3>1, <3>2, OnceIs DEF Sent
  <2> QED  BY <2>2, <2>3 DEF ProxyInv
<1> QED  BY <1>1, ProxyInvariant, PTL

\* Theorem: the proxy's log and the composition's agree.
THEOREM LogsAlwaysAgree == ProxySpec => []LogsAgree
<1>1. ProxyInv => LogsAgree
  <2> SUFFICES ASSUME ProxyInv, NEW r \in Request, flow[r].traces # <<>>
               PROVE  flow[r].traces[1].composed <=> flow[r].telemetry = "compose"
    BY DEF LogsAgree
  <2>1. Sound(flow[r])
    BY DEF ProxyInv
  <2>2. TracedOnce(flow[r]) /\ Sent(flow[r])
    BY <2>1 DEF Sound, Flow, Stage, Early, Unsent
  <2>3. flow[r].traces[1].composed = flow[r].composed
    BY <2>2, OnceIs
  <2> QED  BY <2>2, <2>3 DEF Sent
<1> QED  BY <1>1, ProxyInvariant, PTL

\* Theorem: a trace names the phase that was judged unless somebody else
\* changed it between the two reads.
THEOREM TracesNameTheJudged == ProxySpec => []TraceNamesJudged
<1>1. ProxyInv => TraceNamesJudged
  <2> SUFFICES ASSUME ProxyInv, NEW r \in Request \ disturbed, flow[r].traces # <<>>
               PROVE  flow[r].traces[1].phase = flow[r].judged
    BY DEF TraceNamesJudged
  <2>1. Sound(flow[r]) /\ Named(flow[r])
    BY DEF ProxyInv
  <2>2. TracedOnce(flow[r]) /\ flow[r].stage # "arrived"
    BY <2>1 DEF Sound, Flow, Stage, Early, Unsent
  <2>3. flow[r].traces[1].phase = flow[r].arrived
    BY <2>2, OnceIs
  <2> QED  BY <2>1, <2>2, <2>3 DEF Named
<1> QED  BY <1>1, ProxyInvariant, PTL

\* Theorem: types, accounts, logs and traces together.
THEOREM RequestsAreSound == ProxySpec => []RequestsSound
<1>1. ProxyTypeOK /\ Accounted /\ LogsAgree /\ TraceNamesJudged => RequestsSound
  BY DEF RequestsSound
<1> QED
  BY <1>1, ProxyTyped, EveryRequestAccounted, LogsAlwaysAgree, TracesNameTheJudged, PTL
=============================================================================
