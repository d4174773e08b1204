CONSTANTS
    MaxPort = 2
    DefaultPort = 1
    Targets = {t1, t2}
    NoFile = NoFile
    MaxOps = 3
    MaxForeign = 2
SPECIFICATION Spec
INVARIANTS RunsAsConfigured AppliedOrKept
PROPERTY OnlyNeededRestarts
CHECK_DEADLOCK FALSE
