CONSTANTS
    Handlers = {h1, h2}
    Messages <- Sent
    Confidences <- Stated
    Outcomes = {"completed", "blocked"}
    ListLimit = 2
    MaxSessions = 2
    MaxMessages = 4
    RacingMessages = 2
SYMMETRY HandlerSymmetry
SPECIFICATION Spec
CHECK_DEADLOCK FALSE
INVARIANT TypeOK
INVARIANT AtHome
PROPERTY RightTask
