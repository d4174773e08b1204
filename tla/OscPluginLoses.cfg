CONSTANTS
    MaxPort = 3
    DefaultPort = 1
    Targets = {t1}
    NoFile = NoFile
    MaxOps = 2
    MaxForeign = 1
SPECIFICATION Spec
INVARIANT SuccessKeepsServer
CHECK_DEADLOCK FALSE
