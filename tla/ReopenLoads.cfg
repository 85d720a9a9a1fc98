SPECIFICATION Spec
CONSTANTS
    Widget = {left}
    NoWidget = NoWidget
    MaxSettingsGeneration = 2
    MaxStored = 1
PROPERTY ReopenLoadsAgain
