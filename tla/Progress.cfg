CONSTANTS
    Handlers = {h1, h2}
    c1 = c1
    r1 = r1
    r2 = r2
    v1 = v1
    a1 = a1
    d1 = d1
    Claims = {c1, r1, r2}
    Risks = {r1, r2}
    Evidence = {v1}
    Actions = {a1}
    Todos = {d1}
    Events <- AllEvents
    Reviews <- Verdicts
    MaxCalls = 4
    RacingCalls = 3
    MaxCrashes = 1
SYMMETRY HandlerSymmetry
SPECIFICATION Spec
CHECK_DEADLOCK FALSE
INVARIANT TypeOK
INVARIANT StatusFitsSteps
INVARIANT ProgressCurrent
INVARIANT GateTruthful
