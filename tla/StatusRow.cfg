SPECIFICATION RowSpec
CONSTANTS
    Provider = {"claude", "codex", "amp", "grok"}
    Payload <- Payloads
    Sanitize <- sanitizes
INVARIANTS
    RowsFollowTheTable
    AnswersAreShown
PROPERTY ModelIdsAreStable
