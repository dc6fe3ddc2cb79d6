\* EmbeddingBreaker, Precheck = FALSE.
CONSTANTS
    Request = {r1, r2, r3}
    Precheck = FALSE
    FailureThreshold = 2
    SuccessThreshold = 2
    FailureCap = 3
SPECIFICATION FairSpec
INVARIANTS BreakerSound
PROPERTIES MovesOn
