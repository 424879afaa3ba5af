CONSTANTS
    Handlers = {h1, h2}
    Thinkers = {t1, t2}
    Tasks = {k1}
    Reported <- Update
    NoThinker = NoThinker
    FindLimit = 2
    MaxRuns = 2
    MaxCrashes = 1
SYMMETRY HandlerSymmetry
SPECIFICATION Spec
CHECK_DEADLOCK FALSE
INVARIANT TypeOK
INVARIANT ActiveRunOpen
INVARIANT ActiveRunServed
INVARIANT StaleRunSilent
INVARIANT OneOpenNotification
PROPERTY NeverRequeued
PROPERTY EndSticks
PROPERTY SoleClaim
