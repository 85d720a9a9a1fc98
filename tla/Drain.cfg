SPECIFICATION Spec
CONSTANTS
    Provider = {claude}
    Enabled = {claude}
    All = All
    MaxGeneration = 0
    Widget = {left}
    NoWidget = NoWidget
    MaxSettingsGeneration = 1
    MaxStored = 1
INVARIANT DrainedHandoffIsDetached
