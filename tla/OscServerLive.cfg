CONSTANTS
    Publishers = {p1, p2}
    Endpoints = {e1}
    Nobody = Nobody
    Fds = {f1}
    NoFd = NoFd
    MaxQueue = 1
    MaxCalls = 2
    MaxOps = 2
    MaxForeign = 0
SPECIFICATION FairSpec
PROPERTIES EveryAcceptedLeaves StopReturns
CHECK_DEADLOCK FALSE
