CONSTANTS
    Clients = {a, b}
    Publishers = {p}
    Tokens = {t1}
    NoToken = NoToken
    Fds = {f1, f2, f3}
    NoFd = NoFd
    Free = Free
    Listening = Listening
    Nobody = Nobody
    MaxClients = 1
    MaxStarts = 1
SPECIFICATION Spec
INVARIANTS ServeClosesSocket
CHECK_DEADLOCK FALSE
