SPECIFICATION FairSpec
CHECK_DEADLOCK FALSE
CONSTANTS
    Provider = {"claude", "grok", "codex", "amp"}
    Timeout = 4
    RetryDelay = 1
    Grace = 2
INVARIANTS
    EndsInTime
PROPERTIES
    CollectionEnds
    ReceivedLimitsAreShown
