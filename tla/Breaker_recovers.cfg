\* EmbeddingBreaker, Precheck = TRUE.
CONSTANTS
    Request = {r1, r2, r3}
    Precheck = TRUE
    FailureThreshold = 2
    SuccessThreshold = 2
    FailureCap = 3
SPECIFICATION FairSpec
PROPERTIES MovesOn
