SPECIFICATION Spec
CHECK_DEADLOCK FALSE
CONSTANTS
    session = session
    weekly = weekly
    Key = {session, weekly}
    Provider <- oneProvider
    Helper = {h1, h2}
    Observed <- fewReadings
    Reminder = 2
    Jitter = 1
    MaxTime = 2
    MaxEvaluations = 3
SYMMETRY Symmetry
INVARIANTS
    RowsAreHeard
    OnlyOneUnrecorded
PROPERTIES
    SteadyWindowIsSpaced
    FollowsTheWindow
