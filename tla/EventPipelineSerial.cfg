CONSTANTS
    Requests = {1, 2, 3, 4}
    Sends = {"event", "message", "dispatch", "complete", "archive"}
    Goals = {g1, g2}
    Reported = {"running", "failed"}
    Stated = {0, 1}
    NoRun = NoRun
    NoGoal = NoGoal
    MaxInFlight = 1
    MaxCrashes = 1
SYMMETRY GoalSymmetry
SPECIFICATION Spec
CONSTRAINT InOrder
CHECK_DEADLOCK FALSE
INVARIANT TypeOK
INVARIANT LiveRunCanWrite
INVARIANT RowsMatchLog
INVARIANT IntentVersionsMonotone
INVARIANT RetargetRaisesToken
PROPERTY StaleRunRefused
PROPERTY TakeoverRecorded
PROPERTY CancelSticks
