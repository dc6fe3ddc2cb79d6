-------------------------- MODULE EmbeddingBreaker --------------------------
(***************************************************************************)
(* The threads that share embedding_breaker, the process-wide breaker: the *)
(* worker threads in which ComposeOrchestrator.retrieve runs               *)
(* retrieve_domain_candidates (retrieval/domain.py), which calls           *)
(* safe_embed (retrieval/embedding_errors.py) to reach the service.        *)
(*                                                                         *)
(* Each call of a method of the breaker is one action, because each takes  *)
(* the lock anew; the call to the service lies between two of them and     *)
(* takes as long as the service likes, up to the client's read timeout.    *)
(***************************************************************************)
EXTENDS CircuitBreaker

CONSTANTS
    Request,    \* the worker threads, each serving one request after another
    Precheck    \* TRUE: requests enter through retrieve_domain_candidates;
                \* FALSE: safe_embed is called directly, as its docstring has it

ASSUME PrecheckAssumption == Precheck \in BOOLEAN

VARIABLES
    breaker,    \* embedding_breaker
    pc          \* pc[r]: where request r is

vars == <<breaker, pc>>

\* idle     - no request in this thread
\* entered  - retrieve_domain_candidates was admitted; about to call safe_embed
\* recheck  - safe_embed saw is_open and is about to call allow_request
\* refused  - allow_request said no; the error message reads .state
\* calling  - in client.embed
Location == {"idle", "entered", "recheck", "refused", "calling"}

Init ==
    /\ breaker = InitialBreaker
    /\ pc = [r \in Request |-> "idle"]

Goto(r, l) == pc' = [pc EXCEPT ![r] = l]

\* The embedding of r's retrieval is over: with vectors to search by, or with
\* an error after which only the lexical search is left.
Return(r) == Goto(r, "idle")

\* Stage 1 of retrieve_domain_candidates: allow_request() before the embedding.
PrecheckBreaker(r) ==
    /\ pc[r] = "idle"
    /\ breaker' = AfterAllowRequest(breaker)
    /\ IF Admits(breaker) THEN Goto(r, "entered") ELSE Return(r)

\* safe_embed is called directly.
EnterSafeEmbed(r) ==
    /\ pc[r] = "idle"
    /\ Goto(r, "entered")
    /\ UNCHANGED breaker

\* The left operand of `is_open and not allow_request()' in safe_embed.
ReadIsOpen(r) ==
    /\ pc[r] = "entered"
    /\ Goto(r, IF IsOpen(breaker) THEN "recheck" ELSE "calling")
    /\ UNCHANGED breaker

\* Mutant: a refused request waits for the slot.
RecheckWaits(r) ==
    /\ pc[r] = "recheck"
    /\ Admits(breaker)
    /\ breaker' = AfterAllowRequest(breaker)
    /\ Goto(r, "calling")

\* The right operand.
RecheckBreaker(r) ==
    /\ pc[r] = "recheck"
    /\ breaker' = AfterAllowRequest(breaker)
    /\ Goto(r, IF Admits(breaker) THEN "calling" ELSE "refused")

\* CIRCUIT_OPEN is raised; its message reads .state, which may itself turn the
\* breaker half-open.  CIRCUIT_OPEN is degradable: the request falls back.
RaiseCircuitOpen(r) ==
    /\ pc[r] = "refused"
    /\ breaker' = MaybeHalfOpen(breaker)
    /\ Return(r)

\* client.embed returned vectors.
EmbedSucceeds(r) ==
    /\ pc[r] = "calling"
    /\ breaker' = RecordSuccess(breaker)
    /\ Return(r)

\* client.embed raised: time-out, unreachable, or a malformed response.  All
\* the errors embed can raise are degradable, so the request falls back.
EmbedFails(r) ==
    /\ pc[r] = "calling"
    /\ breaker' = RecordFailure(breaker)
    /\ Return(r)

\* recovery_timeout seconds have passed since the breaker opened.
RecoveryTimeout ==
    /\ breaker.state = "open"
    /\ ~breaker.cooled
    /\ breaker' = [breaker EXCEPT !.cooled = TRUE]
    /\ UNCHANGED pc

Begin(r) == IF Precheck THEN PrecheckBreaker(r) ELSE EnterSafeEmbed(r)
Embed(r) == EmbedSucceeds(r) \/ EmbedFails(r)
Step(r) == ReadIsOpen(r) \/ RecheckBreaker(r) \/ RaiseCircuitOpen(r) \/ Embed(r)

Next == (\E r \in Request : Begin(r) \/ Step(r)) \/ RecoveryTimeout

Spec == Init /\ [][Next]_vars

\* The scheduler runs every thread, a call to the service ends (it returns,
\* fails or times out), time passes, and requests keep arriving.
Fairness ==
    /\ \A r \in Request : WF_vars(Begin(r)) /\ WF_vars(Step(r))
    /\ WF_vars(RecoveryTimeout)

FairSpec == Spec /\ Fairness
-----------------------------------------------------------------------------
TypeOK ==
    /\ breaker \in Breaker
    /\ pc \in [Request -> Location]

\* The counters, the probe slot and the clock agree with the state: a closed
\* breaker is below its failure threshold, an open one has reached it, a
\* half-open one is below its success threshold; only a half-open breaker has
\* a probe out.  No interleaving of late results breaks this.
CountersAgree ==
    /\ breaker.state = "closed" => breaker.failureCount < FailureThreshold
    /\ breaker.state # "closed" => breaker.failureCount >= FailureThreshold
    /\ breaker.state = "half_open" => breaker.successCount < SuccessThreshold
    /\ breaker.state # "half_open" => breaker.successCount = 0
    /\ breaker.probeInFlight => breaker.state = "half_open"
    /\ breaker.cooled => breaker.state = "open"

\* allow_request's docstring: the probe slot is reserved for a caller that
\* releases it with record_success() or record_failure().  So when it is taken,
\* some request is in the call whose end releases it.
ProbeSlotHeld ==
    breaker.probeInFlight => \E r \in Request : pc[r] = "calling"

\* The breaker of safe_embed called directly: well typed, consistent in its own
\* fields, and never with a probe slot that nobody will give back.
BreakerSound == TypeOK /\ CountersAgree /\ ProbeSlotHeld

\* The class's docstring: open until the recovery timeout, then half_open, which
\* allows a probe; success closes the breaker, failure opens it again.  It does
\* not stay open, though only a caller notices the timeout, nor half-open.
MovesOn == \A s \in {"open", "half_open"} : breaker.state = s ~> breaker.state # s

\* The probe slot is taken and no request is in a call, nor can any get into
\* one without the slot.
Wedged ==
    /\ breaker.state = "half_open"
    /\ breaker.probeInFlight
    /\ \A r \in Request : pc[r] # "calling"

\* What the two checks in a row really do: once the breaker is wedged it is
\* wedged for the life of the process, and every request gets BM25 only.
WedgedForever == [][Wedged => Wedged']_vars
=============================================================================
