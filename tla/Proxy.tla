-------------------------------- MODULE Proxy --------------------------------
(***************************************************************************)
(* POST /v1/chat/completions: signal, compose, inject, forward, trace      *)
(* (proxy_chat_completions of api/proxy_router.py and all it calls).       *)
(*                                                                         *)
(* The handlers of several requests interleave at every await.  They share *)
(* the phase of one project and the embedding breaker: a request that      *)
(* composes retrieves in worker thread r of EmbeddingBreaker.  The system  *)
(* skills are retrieved at the same time, and if that fails the handler    *)
(* goes on and leaves the thread behind; its next request here waits for   *)
(* the thread, where the code would take another.                          *)
(*                                                                         *)
(* Messages are abstract: what is forwarded is the original or the         *)
(* injected request.  An insert of a trace that fails is swallowed, so     *)
(* `traces' counts the calls of write_proxy_trace.  Not modelled: the      *)
(* death of the service, and clients that hang up.                         *)
(***************************************************************************)
EXTENDS EmbeddingBreaker, Phases, Sequences

CONSTANTS
    Choice,     \* the phases an operator may write into the phase file
    None        \* no readable phase

\* A phase file edited by hand may hold any word.
AnyPhase == Phase \cup {"other"}

\* The threads come to safe_embed through retrieve_domain_candidates.
ASSUME RetrievalAssumption == Precheck

ASSUME ChoiceAssumption == Choice \subseteq AnyPhase /\ None \notin AnyPhase

VARIABLES
    phase,      \* what _read_phase returns of the project's phase file
    upstream,   \* upstream_client is not None: UPSTREAM_URL and _MODEL are set
    flow,       \* flow[r]: the handler of the request that r serves
    disturbed   \* history: requests between whose two reads of the phase
                \* somebody changed it

proxyVars == <<vars, phase, upstream, flow, disturbed>>

\* arrived    - read the phase for the trace; evaluate_signal not yet begun
\* skill      - loading the workflow skill of the phase and its pre-filter
\* gates      - evaluating the exit gates in a thread
\* compose    - should_compose
\* retrieving - compose() awaits both retrievals
\* posting    - awaiting the upstream's response
\* streaming  - the upstream's events are passed on
Stage == {"idle", "arrived", "skill", "gates", "compose", "retrieving",
          "posting", "streaming", "answered"}

Resting == {"idle", "answered"}

\* What write_proxy_trace is told of the request: its phase and its status.
Trace == [phase : AnyPhase \cup {None}, composed : BOOLEAN]

Flow == [stage     : Stage,
         arrived   : AnyPhase \cup {None},  \* `phase' of the handler
         judged    : AnyPhase \cup {None},  \* `phase' of evaluate_signal
         telemetry : {"none", "compose", "compose_empty"},
                                            \* the composition's own record
         composed  : BOOLEAN,
         forwarded : {"nothing", "original", "injected"},
         traces    : Seq(Trace)]

NewFlow(stage, read) ==
    [stage |-> stage, arrived |-> read, judged |-> None,
     telemetry |-> "none", composed |-> FALSE, forwarded |-> "nothing",
     traces |-> <<>>]

ProxyInit ==
    /\ Init
    /\ phase \in Choice \cup {None}
    /\ upstream \in BOOLEAN
    /\ flow = [r \in Request |-> NewFlow("idle", None)]
    /\ disturbed = {}

At(r, stage) == flow[r].stage = stage
Become(r, f) == flow' = [flow EXCEPT ![r] = f]
Go(r, stage) == Become(r, [flow[r] EXCEPT !.stage = stage])

\* The phase file now holds p.
Rephase(p) ==
    /\ phase' = p
    /\ disturbed' = IF p = phase THEN disturbed
                    ELSE disturbed \cup {r \in Request : At(r, "arrived")}

\* Mutant: the trace reads the phase when it is written.
TracedLate(f) == [f EXCEPT !.traces = Append(@, [phase |-> phase, composed |-> f.composed])]

\* _write_flow_telemetry.
Traced(f) == [f EXCEPT !.traces = Append(@, [phase |-> f.arrived, composed |-> f.composed])]

\* The end of every way through signal and composition, f being the handler's
\* state: the payload is built and given to the upstream client.  If the
\* request asks for a stream, its trace is written before the first byte.
Forward(r, f) ==
    LET sent == [f EXCEPT !.forwarded = IF f.composed THEN "injected" ELSE "original"]
    IN  \/ Become(r, [sent EXCEPT !.stage = "posting"])
        \/ Become(r, [Traced(sent) EXCEPT !.stage = "streaming"])

\* ... when nothing was composed.
PassThrough(r) == Forward(r, flow[r])
-----------------------------------------------------------------------------
\* A request arrives.  Without an upstream it is refused at once; otherwise
\* the handler reads the phase for its trace.
Arrive(r) ==
    /\ flow[r].stage \in Resting
    /\ pc[r] = "idle"
    /\ Become(r, IF upstream THEN NewFlow("arrived", phase) ELSE NewFlow("answered", None))
    /\ disturbed' = disturbed \ {r}
    /\ UNCHANGED <<vars, phase, upstream>>

\* evaluate_signal reads the phase again; without one there is nothing to judge.
ReadSignalPhase(r) ==
    /\ At(r, "arrived")
    /\ IF phase = None THEN PassThrough(r)
       ELSE Become(r, [flow[r] EXCEPT !.judged = phase, !.stage = "skill"])
    /\ UNCHANGED <<vars, phase, upstream, disturbed>>

\* No workflow skill has the phase, or the pre-filter does not match.
NoMatch(r) ==
    /\ At(r, "skill")
    /\ PassThrough(r)
    /\ UNCHANGED <<vars, phase, upstream, disturbed>>

\* The pre-filter matches: the gates are evaluated in a thread.
Match(r) ==
    /\ At(r, "skill")
    /\ Go(r, "gates")
    /\ UNCHANGED <<vars, phase, upstream, disturbed>>

\* The pre-filter or the evaluation of the gates raises; the handler goes on.
SignalRaises(r) ==
    /\ flow[r].stage \in {"skill", "gates"}
    /\ PassThrough(r)
    /\ UNCHANGED <<vars, phase, upstream, disturbed>>

\* The gates are not met, the phase has no successor, or its file cannot be
\* written: composition is warranted all the same.
GatesStay(r) ==
    /\ At(r, "gates")
    /\ Go(r, "compose")
    /\ UNCHANGED <<vars, phase, upstream, disturbed>>

\* The gates are met: the phase becomes the successor of the one judged,
\* whatever it is by now.
GatesMove(r) ==
    /\ At(r, "gates")
    /\ flow[r].judged \in DOMAIN PhaseGraph
    /\ Rephase(PhaseGraph[flow[r].judged])
    /\ Go(r, "compose")
    /\ UNCHANGED <<vars, upstream>>
-----------------------------------------------------------------------------
\* compose_phase of compose_and_inject: words that are no phase count as build.
ComposePhase(p) == IF p \in Phase THEN p ELSE "build"

\* The keys of _PHASE_TO_CATEGORIES.
HasCategories == {"spec", "design", "qa", "build", "ops", "meta", "governance"}

\* A request without a user's message has no task: ComposeRequest refuses it.
ComposeRefused(r) ==
    /\ At(r, "compose")
    /\ PassThrough(r)
    /\ UNCHANGED <<vars, phase, upstream, disturbed>>

\* Both retrievals start; the first step of the thread is the breaker's check.
Compose(r) ==
    /\ At(r, "compose")
    /\ PrecheckBreaker(r)
    /\ Go(r, "retrieving")
    /\ UNCHANGED <<phase, upstream, disturbed>>

\* Mutant: the failure of the system skills also ends the retrieving thread.
CancelsThread(r) ==
    /\ At(r, "retrieving")
    /\ PassThrough(r)
    /\ pc' = [pc EXCEPT ![r] = "idle"]
    /\ UNCHANGED <<breaker, phase, upstream, disturbed>>

\* retrieve_system raises and gather with it, while the thread runs on.
SystemRaises(r) ==
    /\ At(r, "retrieving")
    /\ PassThrough(r)
    /\ UNCHANGED <<vars, phase, upstream, disturbed>>

\* The thread has its vectors, or its reason to go without them.
Embedded(r) == At(r, "retrieving") /\ pc[r] = "idle"

\* phase_to_categories raises KeyError, with vectors or without.
CategoriesRaise(r) ==
    /\ Embedded(r)
    /\ ComposePhase(flow[r].judged) \notin HasCategories
    /\ PassThrough(r)
    /\ UNCHANGED <<vars, phase, upstream, disturbed>>

\* A search of the store raises.
StoreRaises(r) ==
    /\ Embedded(r)
    /\ PassThrough(r)
    /\ UNCHANGED <<vars, phase, upstream, disturbed>>

\* No fragment is eligible: recorded as such, and the request stays as it was.
FindNothing(r) ==
    /\ Embedded(r)
    /\ ComposePhase(flow[r].judged) \in HasCategories
    /\ Forward(r, [flow[r] EXCEPT !.telemetry = "compose_empty"])
    /\ UNCHANGED <<vars, phase, upstream, disturbed>>

\* Fragments are found: recorded, and injected into the system message.
Inject(r) ==
    /\ Embedded(r)
    /\ ComposePhase(flow[r].judged) \in HasCategories
    /\ Forward(r, [flow[r] EXCEPT !.telemetry = "compose", !.composed = TRUE])
    /\ UNCHANGED <<vars, phase, upstream, disturbed>>
-----------------------------------------------------------------------------
\* The upstream answers, with JSON or without, or it is unreachable, too late
\* or in error: the code has a path, and a trace, for each.
Respond(r) ==
    /\ At(r, "posting")
    /\ Become(r, [Traced(flow[r]) EXCEPT !.stage = "answered"])
    /\ UNCHANGED <<vars, phase, upstream, disturbed>>

\* The stream ends, or fails with an event or an exception; nothing is traced.
StreamEnds(r) ==
    /\ At(r, "streaming")
    /\ Go(r, "answered")
    /\ UNCHANGED <<vars, phase, upstream, disturbed>>
-----------------------------------------------------------------------------
\* The retrieving thread, with a handler that waits for it or without.
Work(r) == Step(r) /\ UNCHANGED <<phase, upstream, flow, disturbed>>

\* `phase set', `phase clear' or an editor.
Rewrite ==
    /\ \E p \in Choice \cup {None} : Rephase(p)
    /\ UNCHANGED <<vars, upstream, flow>>

Cool == RecoveryTimeout /\ UNCHANGED <<phase, upstream, flow, disturbed>>

Signal(r) == \/ ReadSignalPhase(r) \/ NoMatch(r) \/ Match(r) \/ SignalRaises(r)
             \/ GatesStay(r) \/ GatesMove(r)
Composition(r) == \/ ComposeRefused(r) \/ Compose(r) \/ CategoriesRaise(r)
                  \/ StoreRaises(r) \/ FindNothing(r) \/ Inject(r)
Forwarding(r) == Respond(r) \/ StreamEnds(r)
Handle(r) == Signal(r) \/ Composition(r) \/ Forwarding(r)

ProxyNext ==
    \/ \E r \in Request : Arrive(r) \/ Handle(r) \/ SystemRaises(r) \/ Work(r)
    \/ Rewrite
    \/ Cool

ProxySpec == ProxyInit /\ [][ProxyNext]_proxyVars

\* The event loop and the threads run, and every wait ends: the embedding and
\* the upstream client have read timeouts.  Nothing is ever sure to raise while
\* the retrieving thread is still at work.
FairProxySpec ==
    /\ ProxySpec
    /\ \A r \in Request : WF_proxyVars(Handle(r) \/ Work(r))
-----------------------------------------------------------------------------
ProxyTypeOK ==
    /\ TypeOK
    /\ phase \in AnyPhase \cup {None}
    /\ upstream \in BOOLEAN
    /\ flow \in [Request -> Flow]
    /\ disturbed \subseteq Request

\* Whatever fails on the way, an answered request went upstream and left one
\* trace, or neither for want of an upstream; and the trace says `composed'
\* just when the injected request is the one that went.
Accounted ==
    \A r \in Request : At(r, "answered") =>
        LET f == flow[r]
        IN  IF f.forwarded = "nothing" THEN f.traces = <<>> /\ ~upstream
            ELSE /\ Len(f.traces) = 1
                 /\ f.traces[1].composed = (f.forwarded = "injected")

\* The two logs of one request agree: it is traced as composed just when the
\* composition recorded fragments for it.
LogsAgree ==
    \A r \in Request : flow[r].traces # <<>> =>
        (flow[r].traces[1].composed <=> flow[r].telemetry = "compose")

\* The trace is given a phase read before the one that decided; unless someone
\* else changed it in between, it names the phase that was judged, also when
\* the request itself has moved the project on.
TraceNamesJudged ==
    \A r \in Request \ disturbed :
        flow[r].traces # <<>> => flow[r].traces[1].phase = flow[r].judged

\* What holds of the requests at every moment, whichever stage fails.
RequestsSound == ProxyTypeOK /\ Accounted /\ LogsAgree /\ TraceNamesJudged

\* Every request is answered, also while the breaker is wedged.  The requests
\* are alike, so it is enough to say so of one.
Answered ==
    LET r == CHOOSE q \in Request : TRUE
    IN  flow[r].stage \notin Resting ~> flow[r].stage \in Resting

\* Whatever the handlers do around them, the retrieving threads use the
\* breaker as EmbeddingBreaker has it.
ImplementsBreaker == Spec
=============================================================================
