\* Proxy.
CONSTANTS
    Request = {r1, r2}
    Precheck = TRUE
    FailureThreshold = 1
    SuccessThreshold = 1
    FailureCap = 1
    Choice = {"qa"}
    None = None
SPECIFICATION FairProxySpec
INVARIANTS RequestsSound
PROPERTIES Answered ImplementsBreaker WedgedForever
