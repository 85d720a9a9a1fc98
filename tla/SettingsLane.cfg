SPECIFICATION FairSpec
CONSTANTS
    Widget = {left, right}
    NoWidget = NoWidget
    MaxSettingsGeneration = 4
    MaxStored = 4
INVARIANTS
    DialogAgreesWithBar
    DialogMatchesLanes
PROPERTIES
    AppliedNeverRegresses
    EditsAreKept
    SaveIsAnswered
