SPECIFICATION Spec
CHECK_DEADLOCK FALSE
CONSTANTS
    Provider = {claude, codex}
    LogBacked = {codex}
    Helper = {h1, h2}
    NoHelper = NoHelper
    Ttl = 1
    MaxTime = 1
    MaxMaintenance = 1
SYMMETRY Symmetry
INVARIANTS
    ForcedIsCollected
    DataKeepsItsAge
    MaintenanceExcludesHelpers
PROPERTIES
    MergesKeepSiblings
