SPECIFICATION FairSpec
CONSTANTS
    Provider = {claude}
    Enabled = {claude}
    All = All
    MaxGeneration = 0
    Widget = {left}
    NoWidget = NoWidget
    MaxSettingsGeneration = 2
    MaxStored = 2
INVARIANTS
    MaintenanceRunsAlone
    OneOperationAtATime
PROPERTIES
    StatusAsSpecified
    SettingsAsSpecified
    MaintenanceAsSpecified
    WriteDrainLaunches
    UninstallIsConsented
