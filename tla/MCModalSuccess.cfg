SPECIFICATION Spec
CONSTANTS
    d1 = d1  d2 = d2
    Domains = {d1, d2}
    Short = {d2}
    NoDomain = NoDomain
    MaxLaunches = 2
    MaxChecks = 2
INVARIANTS
    SuccessHasAResult
CHECK_DEADLOCK FALSE
