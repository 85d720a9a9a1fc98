SPECIFICATION Spec
CONSTANTS
    Setup = {s1, s2}
    NoSetup = NoSetup
    a = a
    b = b
    other = other
    AllProviders <- Providers
    Interval = {1, 2}
    Word = 16
    DefaultInterval = 1
    Settings0 <- Found
    Shell0 <- FoundShell
    Applied <- AnyApplied
    MaxApplies = 1
    MaxEdits = 1
SYMMETRY SymmetricSetups
CHECK_DEADLOCK FALSE
INVARIANT PreservesSettings
PROPERTIES
    MigratedIsLeftAlone
    ReplacesWhatItRead
