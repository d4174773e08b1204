------------------------------- MODULE OscWs -------------------------------
(***************************************************************************)
(* Websocket connections (src/osc-ws.cpp).  A connection has a thread of   *)
(* its own that serves it; publishers send on it through the map of        *)
(* connections and its write mutex; shutdown_all() closes it from the UI   *)
(* thread.  A connection's token is its address, which is given to a new   *)
(* connection once nobody holds the old one, and a descriptor number goes  *)
(* to the next socket once it is closed.  What frames contain is left out, *)
(* except what they make the server do; so are the paths of LISTEN, which  *)
(* OscSubscribe models.                                                    *)
(***************************************************************************)
EXTENDS Integers, FiniteSets

CONSTANTS
    Clients,      \* TCP connections that clients make, each at most once
    Publishers,   \* threads that publish events
    Tokens,       \* addresses a conn may be allocated at
    NoToken,
    Fds,          \* descriptor numbers
    NoFd,         \* osc_net::invalid_socket
    Free,         \* an unused descriptor number, a socket that is not read
    Listening,    \* the socket of the HTTP server
    Nobody

ASSUME OscWsAssumption ==
    /\ IsFiniteSet(Clients)
    /\ {Free, Listening, Nobody} \cap Clients = {}
    /\ Free # Listening
    /\ NoToken \notin Tokens
    /\ NoFd \notin Fds

VARIABLES
    fds,        \* whose socket each descriptor number names
    thr,        \* where the thread of a client is
    sock,       \* its fd: a copy, which others may close
    reading,    \* whose socket its recv() waits on
    conn,       \* the conn object, from Register on
    conns,      \* the map from tokens to connections
    listeners,  \* the tokens of listening peers in the LISTEN registry
    pub,        \* what each publisher is doing
    ui,         \* where the UI thread is in osc_http_stop()
    dying       \* what shutdown_all() has yet to do with a connection

connVars == <<conn, conns, listeners>>
wsVars   == <<fds, thr, sock, reading, connVars, pub, ui, dying>>

-----------------------------------------------------------------------------

\* In handle_client() and before it, in serve() up to the map, and after it.
ThreadStates ==
    {"none", "accepted", "request", "lookup", "respond", "handshake", "register",
     "read", "blocked", "text", "ping", "bye", "sendPing", "sendBye",
     "drop", "unmap", "close", "count", "gone"}

\* The thread holds its conn.
Serving ==
    {"read", "blocked", "text", "ping", "bye", "sendPing", "sendBye",
     "drop", "unmap", "close"}

Conn ==
    [token  : Tokens \cup {NoToken},
     fd     : Fds \cup {NoFd},
     open   : BOOLEAN,
     locked : BOOLEAN]   \* write_mutex

NoConn == [token |-> NoToken, fd |-> NoFd, open |-> FALSE, locked |-> FALSE]

Pub ==
    [pc    : {"idle", "find", "lock", "send"},
     token : Tokens \cup {NoToken},
     conn  : Clients \cup {Nobody}]

Idle == [pc |-> "idle", token |-> NoToken, conn |-> Nobody]

UiStates == {"idle", "collect", "shutdown", "unlisten", "join"}

WsInit ==
    /\ fds = [f \in Fds |-> Free]
    /\ thr = [c \in Clients |-> "none"]
    /\ sock = [c \in Clients |-> NoFd]
    /\ reading = [c \in Clients |-> Free]
    /\ conn = [c \in Clients |-> NoConn]
    /\ conns = [t \in Tokens |-> Nobody]
    /\ listeners = {}
    /\ pub = [p \in Publishers |-> Idle]
    /\ ui = "idle"
    /\ dying = [c \in Clients |-> "no"]

\* Somebody holds a shared_ptr to the connection.
Held(c) ==
    \/ thr[c] \in Serving
    \/ \E t \in Tokens : conns[t] = c
    \/ \E p \in Publishers : pub[p].conn = c
    \/ dying[c] # "no"

InUse == {conn[c].token : c \in {d \in Clients : Held(d)}}

Goes(c, next) == thr' = [thr EXCEPT ![c] = next]

CloseFd(f) == fds' = [fds EXCEPT ![f] = Free]

-----------------------------------------------------------------------------
(***************************************************************************)
(* send_frame() and close_conn().                                          *)
(***************************************************************************)

\* Mutant: the open flag is not tested.
MutantMaySend(c) == TRUE

MaySend(c) == conn[c].open

Lock(c)   == conn' = [conn EXCEPT ![c].locked = TRUE]
Unlock(c) == conn' = [conn EXCEPT ![c].locked = FALSE]

\* Mutant: write_mutex is not taken.
MutantMutexFree(c) == TRUE

MutexFree(c) == ~conn[c].locked

\* send() failed: the connection counts as closed and keeps its descriptor.
UnlockBroken(c) ==
    conn' = [conn EXCEPT ![c].locked = FALSE, ![c].open = FALSE]

\* shutdown() of a socket ends the recv() of whoever waits on it.
Woken(threads, s) ==
    [d \in Clients |->
        IF threads[d] = "blocked" /\ reading[d] = s THEN "drop" ELSE threads[d]]

\* close_conn(), by a caller that leaves the threads as given.
CloseConn(c, threads) ==
    /\ MutexFree(c)
    /\ IF conn[c].open
       THEN /\ CloseFd(conn[c].fd)
            /\ conn' = [conn EXCEPT ![c].open = FALSE, ![c].fd = NoFd]
            /\ thr' = Woken(threads, c)
       ELSE /\ thr' = threads
            /\ UNCHANGED <<fds, conn>>

-----------------------------------------------------------------------------
(***************************************************************************)
(* serve(), on the thread of client c.                                     *)
(***************************************************************************)

\* The answer to the upgrade; what fails here closes its own descriptor.
Handshake(c) ==
    /\ thr[c] = "handshake"
    /\ \/ Goes(c, "register") /\ UNCHANGED fds
       \/ Goes(c, "count") /\ CloseFd(sock[c])
    /\ UNCHANGED <<sock, reading, connVars, pub, ui, dying>>

\* The conn is private until the map has it.
Register(c) ==
    /\ thr[c] = "register"
    /\ \E t \in Tokens \ InUse :
        /\ conn' = [conn EXCEPT ![c] =
               [token |-> t, fd |-> sock[c], open |-> TRUE, locked |-> FALSE]]
        /\ conns' = [conns EXCEPT ![t] = c]
    /\ Goes(c, "read")
    /\ UNCHANGED <<fds, sock, reading, listeners, pub, ui, dying>>

\* recv() on the thread's own copy of the descriptor, whatever that is now.
Read(c) ==
    /\ thr[c] = "read"
    /\ IF fds[sock[c]] \in Clients
       THEN Goes(c, "blocked") /\ reading' = [reading EXCEPT ![c] = fds[sock[c]]]
       ELSE Goes(c, "drop") /\ UNCHANGED reading
    /\ UNCHANGED <<fds, sock, connVars, pub, ui, dying>>

\* A frame: text, ping, close, or one that changes nothing; or the end, an
\* error or a frame that breaks the protocol.
Receive(c) ==
    /\ thr[c] = "blocked"
    /\ \E next \in {"text", "ping", "bye", "read", "drop"} : Goes(c, next)
    /\ reading' = [reading EXCEPT ![c] = Free]
    /\ UNCHANGED <<fds, sock, connVars, pub, ui, dying>>

\* handle_text(): LISTEN, IGNORE, or something else.
Text(c) ==
    /\ thr[c] = "text"
    /\ \/ listeners' = listeners \cup {conn[c].token}
       \/ listeners' = listeners \ {conn[c].token}
       \/ UNCHANGED listeners
    /\ Goes(c, "read")
    /\ UNCHANGED <<fds, sock, reading, conn, conns, pub, ui, dying>>

\* A ping or a close frame is answered with a frame.
Answer(c) ==
    /\ thr[c] \in {"ping", "bye"}
    /\ MutexFree(c)
    /\ IF MaySend(c)
       THEN /\ Lock(c)
            /\ Goes(c, IF thr[c] = "ping" THEN "sendPing" ELSE "sendBye")
       ELSE Goes(c, "drop") /\ UNCHANGED conn
    /\ UNCHANGED <<fds, sock, reading, conns, listeners, pub, ui, dying>>

Answered(c) ==
    /\ thr[c] \in {"sendPing", "sendBye"}
    /\ \/ /\ Unlock(c)
          /\ Goes(c, IF thr[c] = "sendPing" THEN "read" ELSE "drop")
       \/ UnlockBroken(c) /\ Goes(c, "drop")
    /\ UNCHANGED <<fds, sock, reading, conns, listeners, pub, ui, dying>>

\* Mutant: the LISTEN registrations stay behind.
MutantWithout(token) == listeners

\* osc_listen_remove_peer()
Without(token) == listeners \ {token}

Drop(c) ==
    /\ thr[c] = "drop"
    /\ listeners' = Without(conn[c].token)
    /\ Goes(c, "unmap")
    /\ UNCHANGED <<fds, sock, reading, conn, conns, pub, ui, dying>>

Unmap(c) ==
    /\ thr[c] = "unmap"
    /\ conns' = [conns EXCEPT ![conn[c].token] = Nobody]
    /\ Goes(c, "close")
    /\ UNCHANGED <<fds, sock, reading, conn, listeners, pub, ui, dying>>

Close(c) ==
    /\ thr[c] = "close"
    /\ CloseConn(c, [thr EXCEPT ![c] = "count"])
    /\ UNCHANGED <<sock, reading, conns, listeners, pub, ui, dying>>

Serve(c) ==
    \/ Handshake(c) \/ Register(c) \/ Read(c) \/ Text(c)
    \/ Answer(c) \/ Answered(c) \/ Drop(c) \/ Unmap(c) \/ Close(c)

-----------------------------------------------------------------------------
(***************************************************************************)
(* send_binary(), on the thread of publisher p.                            *)
(***************************************************************************)

PubGoes(p, state) ==
    /\ pub' = [pub EXCEPT ![p] = state]
    /\ UNCHANGED <<fds, thr, sock, reading, conns, listeners, ui, dying>>

\* osc_publish() copied the token from the registry.
Pick(p) ==
    /\ pub[p].pc = "idle"
    /\ \E t \in listeners :
          PubGoes(p, [pc |-> "find", token |-> t, conn |-> Nobody])
    /\ UNCHANGED conn

Find(p) ==
    /\ pub[p].pc = "find"
    /\ LET c == conns[pub[p].token]
       IN  PubGoes(p, IF c = Nobody THEN Idle
                      ELSE [pc |-> "lock", token |-> NoToken, conn |-> c])
    /\ UNCHANGED conn

SendFrame(p) ==
    /\ pub[p].pc = "lock"
    /\ MutexFree(pub[p].conn)
    /\ IF MaySend(pub[p].conn)
       THEN Lock(pub[p].conn) /\ PubGoes(p, [pub[p] EXCEPT !.pc = "send"])
       ELSE PubGoes(p, Idle) /\ UNCHANGED conn

Sent(p) ==
    /\ pub[p].pc = "send"
    /\ Unlock(pub[p].conn) \/ UnlockBroken(pub[p].conn)
    /\ PubGoes(p, Idle)

SendBinary(p) == Find(p) \/ SendFrame(p) \/ Sent(p)

-----------------------------------------------------------------------------
(***************************************************************************)
(* shutdown_all(), on the UI thread: first empty the map, then drop and    *)
(* close one connection after the other.                                   *)
(***************************************************************************)

Mapped == {conns[t] : t \in Tokens} \ {Nobody}

Collect ==
    /\ ui = "collect"
    /\ dying' = [c \in Clients |-> IF c \in Mapped THEN "drop" ELSE "no"]
    /\ conns' = [t \in Tokens |-> Nobody]
    /\ ui' = "shutdown"
    /\ UNCHANGED <<fds, thr, sock, reading, conn, listeners, pub>>

ShutdownDrop(c) ==
    /\ ui = "shutdown"
    /\ dying[c] = "drop"
    /\ \A d \in Clients : dying[d] # "close"
    /\ dying' = [dying EXCEPT ![c] = "close"]
    /\ listeners' = Without(conn[c].token)
    /\ UNCHANGED <<fds, thr, sock, reading, conn, conns, pub, ui>>

ShutdownClose(c) ==
    /\ ui = "shutdown"
    /\ dying[c] = "close"
    /\ CloseConn(c, thr)
    /\ dying' = [dying EXCEPT ![c] = "done"]
    /\ UNCHANGED <<sock, reading, conns, listeners, pub, ui>>

ShutdownReturn ==
    /\ ui = "shutdown"
    /\ \A c \in Clients : dying[c] \in {"no", "done"}
    /\ dying' = [c \in Clients |-> "no"]
    /\ ui' = "unlisten"
    /\ UNCHANGED <<fds, thr, sock, reading, connVars, pub>>

ShutdownAll ==
    \/ Collect
    \/ \E c \in Clients : ShutdownDrop(c) \/ ShutdownClose(c)
    \/ ShutdownReturn

-----------------------------------------------------------------------------

Owns(c, f) == f \in Fds /\ fds[f] = c

\* Closing and sending by number is safe: whoever is about to do either has a
\* number that still names its own socket, whatever the other threads close
\* and whichever numbers are given out again.
SocketsOwned ==
    \A c \in Clients :
        /\ thr[c] \in {"accepted", "request", "lookup", "respond", "handshake", "register"}
              => Owns(c, sock[c])
        /\ conn[c].open => Owns(c, conn[c].fd)
        /\ thr[c] \in {"sendPing", "sendBye"} => Owns(c, conn[c].fd)
        /\ \A p \in Publishers :
              pub[p].pc = "send" /\ pub[p].conn = c => Owns(c, conn[c].fd)

\* A LISTEN registration belongs to a connection whose thread has yet to drop
\* it, also when it came in after shutdown_all() had dropped the others: no
\* address that is given out again starts with listeners of its former owner.
ListenersAlive ==
    \A t \in listeners :
        \E c \in Clients : conn[c].token = t /\ thr[c] \in Serving \ {"unmap", "close"}

\* One frame at a time is written to a connection.
FramesWhole ==
    \A c \in Clients :
        Cardinality({p \in Publishers : pub[p].pc = "send" /\ pub[p].conn = c})
          + (IF thr[c] \in {"sendPing", "sendBye"} THEN 1 ELSE 0)
        = (IF conn[c].locked THEN 1 ELSE 0)

=============================================================================
