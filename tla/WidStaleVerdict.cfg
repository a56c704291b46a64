CONSTANTS
    MaxTests = 2
    MaxWids = 1
    Deferring = {}
    Retries = {}
SPECIFICATION Spec
INVARIANTS VerdictOwn
CHECK_DEADLOCK FALSE
