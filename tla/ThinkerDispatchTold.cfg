CONSTANTS
    Handlers = {h1, h2}
    Thinkers = {t1}
    Tasks = {k1}
    Reported <- Failure
    NoThinker = NoThinker
    FindLimit = 1
    MaxRuns = 2
    MaxCrashes = 0
SPECIFICATION Spec
CHECK_DEADLOCK FALSE
PROPERTY EndedRunTold
