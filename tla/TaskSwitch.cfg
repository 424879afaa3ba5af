CONSTANTS
    Handlers = {h1, h2}
    Outcomes = {"running", "completed"}
    MaxRuns = 3
    RacingRuns = 2
    MaxCrashes = 1
    MaxRebuilds = 1
SYMMETRY HandlerSymmetry
SPECIFICATION Spec
CHECK_DEADLOCK FALSE
INVARIANT TypeOK
INVARIANT PointersHaveRows
INVARIANT OneActiveTask
INVARIANT DirectoryInStep
INVARIANT BriefOfActiveTask
PROPERTY GoalsKept
