\* Two requests and an operator.
CONSTANTS
    Request = {r1, r2}
    Operator = {o1}
    Choice = {"spec", "qa"}
    None = None
SPECIFICATION Spec
INVARIANTS NoPhaseSkipped
PROPERTIES DarkUntilSet
