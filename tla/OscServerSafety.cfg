CONSTANTS
    Publishers = {p1, p2}
    Endpoints = {e1}
    Nobody = Nobody
    Fds = {f1, f2}
    NoFd = NoFd
    MaxQueue = 2
    MaxCalls = 3
    MaxOps = 2
    MaxForeign = 1
SPECIFICATION Spec
SYMMETRY Symmetry
INVARIANTS SenderOwnsSocket Accounting Quiescent HandlerOutlivesReceiver
PROPERTIES StopDrains ImplementsChannel
CHECK_DEADLOCK FALSE
