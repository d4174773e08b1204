CONSTANTS
    Clients = {a, b}
    Publishers = {p}
    Tokens = {t1, t2}
    NoToken = NoToken
    Fds = {f1, f2, f3}
    NoFd = NoFd
    Free = Free
    Listening = Listening
    Nobody = Nobody
    MaxClients = 2
    MaxStarts = 2
SPECIFICATION Spec
SYMMETRY Symmetry
INVARIANTS SocketsOwned ListenersAlive FramesWhole ClientLimit
CHECK_DEADLOCK FALSE
