\* Two requests.
CONSTANTS
    Request = {r1, r2}
    Operator = {}
    Choice = {"spec", "qa"}
    None = None
SPECIFICATION Spec
INVARIANTS NeverPartial
