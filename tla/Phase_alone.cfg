\* One request at a time, no operator.
CONSTANTS
    Request = {r1}
    Operator = {}
    Choice = {"spec", "design", "build", "qa", "ops"}
    None = None
SPECIFICATION Spec
INVARIANTS AloneSound
PROPERTIES ImplementsRegister
