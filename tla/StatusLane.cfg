SPECIFICATION FairSpec
CONSTANTS
    claude = claude
    codex = codex
    grok = grok
    All = All
    Provider <- MCProvider
    Enabled <- MCEnabled
    MaxGeneration = 2
INVARIANTS
    CollectsOnlyAfterVersion
PROPERTIES
    CoalescesAsPromised
    SnapshotOnlyAdvances
    BusyRunEnds
    ForcedIsEventuallyTaken
