---------------------------- MODULE OscHttpProofs ----------------------------
(***************************************************************************)
(* What TLAPS proves of the HTTP server and its websockets, for any number *)
(* of clients, publishers, descriptors, addresses and restarts, and any    *)
(* limit.                                                                  *)
(***************************************************************************)
EXTENDS OscHttp, FiniteSetTheorems, TLAPS

\* The thread of a client that has a descriptor and no connection object.
Early == {"accepted", "request", "lookup", "respond", "handshake", "register"}

Sending == {"sendPing", "sendBye"}

\* The accept thread has a client on its hands.
Accepting == {"got", "count", "spawn", "uncount", "refuse"}

WsTypes ==
    /\ fds \in [Fds -> Clients \cup {Free, Listening}]
    /\ thr \in [Clients -> ThreadStates]
    /\ sock \in [Clients -> Fds \cup {NoFd}]
    /\ conn \in [Clients -> Conn]
    /\ conns \in [Tokens -> Clients \cup {Nobody}]
    /\ listeners \subseteq Tokens
    /\ pub \in [Publishers -> Pub]
    /\ \A p \in Publishers :
          /\ pub[p].pc = "find" => pub[p].token \in Tokens
          /\ pub[p].pc \in {"lock", "send"} => pub[p].conn \in Clients

\* A descriptor is its client's until its thread or shutdown_all() closes it,
\* and while write_mutex is held the connection is open.
SocketOK(c) ==
    /\ thr[c] \in Early => Owns(c, sock[c])
    /\ thr[c] \in Early \cup {"none"} => conn[c] = NoConn
    /\ thr[c] \in Serving => conn[c].token \in Tokens
    /\ conn[c].open => conn[c].fd = sock[c] /\ Owns(c, sock[c]) /\ thr[c] \in Serving
    /\ conn[c].locked => conn[c].open

Sockets == \A c \in Clients : SocketOK(c)

Server ==
    /\ listen_fd # NoFd => Owns(Listening, listen_fd)
    /\ http_running => ui = "idle" /\ listen_fd # NoFd
    /\ ui \in {"collect", "shutdown", "unlisten"} => listen_fd # NoFd
    /\ ~http_running /\ ui = "idle" => accept \in {"none", "done"}
    /\ accept \in Accepting => client \in Clients /\ thr[client] = "accepted"

\* write_mutex: one thread at a time is inside send_frame().
Senders ==
    /\ \A c \in Clients : thr[c] \in Sending => conn[c].locked
    /\ \A p \in Publishers : pub[p].pc = "send" =>
          conn[pub[p].conn].locked /\ thr[pub[p].conn] \notin Sending
    /\ \A p, q \in Publishers :
          pub[p].pc = "send" /\ pub[q].pc = "send" /\ pub[p].conn = pub[q].conn => p = q
    /\ \A c \in Clients : conn[c].locked =>
          thr[c] \in Sending \/ \E p \in Publishers : pub[p].pc = "send" /\ pub[p].conn = c

-----------------------------------------------------------------------------
LEMMA ConnUpdates ==
  ASSUME conn \in [Clients -> Conn], NEW c \in Clients
  PROVE  /\ Lock(c) => conn' \in [Clients -> Conn]
         /\ Unlock(c) => conn' \in [Clients -> Conn]
         /\ UnlockBroken(c) => conn' \in [Clients -> Conn]
         /\ [conn EXCEPT ![c].open = FALSE, ![c].fd = NoFd] \in [Clients -> Conn]
<1>1. /\ [conn[c] EXCEPT !.locked = TRUE] \in Conn
      /\ [conn[c] EXCEPT !.locked = FALSE] \in Conn
      /\ [conn[c] EXCEPT !.locked = FALSE, !.open = FALSE] \in Conn
      /\ [conn[c] EXCEPT !.open = FALSE, !.fd = NoFd] \in Conn
  <2>1. conn[c] \in Conn
    OBVIOUS
  <2> QED
    BY <2>1 DEF Conn
<1> QED
  BY <1>1 DEF Lock, Unlock, UnlockBroken

\* What they change: nothing of other connections, neither address nor descriptor.
Touched(c, open, locked) ==
    /\ \A d \in Clients \ {c} : conn'[d] = conn[d]
    /\ conn'[c].token = conn[c].token /\ conn'[c].fd = conn[c].fd
    /\ conn'[c].open = open /\ conn'[c].locked = locked

LEMMA ConnEffects ==
  ASSUME conn \in [Clients -> Conn], NEW c \in Clients
  PROVE  /\ Lock(c) => Touched(c, conn[c].open, TRUE)
         /\ Unlock(c) => Touched(c, conn[c].open, FALSE)
         /\ UnlockBroken(c) => Touched(c, FALSE, FALSE)
BY DEF Lock, Unlock, UnlockBroken, Touched, Conn

\* What it does to a thread that waits in recv().
Wakes(old, new) == new = old \/ (old = "blocked" /\ new = "drop")

\* close_conn(): it does nothing, or closes the connection's descriptor.
LEMMA CloseConnEffect ==
  ASSUME WsTypes, NEW c \in Clients, NEW threads \in [Clients -> ThreadStates],
         CloseConn(c, threads)
  PROVE  /\ ~conn[c].locked
         /\ \/ ~conn[c].open /\ thr' = threads /\ fds' = fds /\ conn' = conn
            \/ /\ conn[c].open /\ fds' = [fds EXCEPT ![conn[c].fd] = Free]
               /\ \A d \in Clients \ {c} : conn'[d] = conn[d]
               /\ conn'[c].token = conn[c].token
               /\ conn'[c].open = FALSE /\ conn'[c].locked = FALSE
         /\ \A d \in Clients : Wakes(threads[d], thr'[d])
<1>1. conn[c] \in Conn
  BY DEF WsTypes
<1>2. [conn EXCEPT ![c].open = FALSE, ![c].fd = NoFd] =
        [conn EXCEPT ![c] = [conn[c] EXCEPT !.open = FALSE, !.fd = NoFd]]
  BY DEF WsTypes
<1>3. /\ [conn[c] EXCEPT !.open = FALSE, !.fd = NoFd].token = conn[c].token
      /\ [conn[c] EXCEPT !.open = FALSE, !.fd = NoFd].open = FALSE
      /\ [conn[c] EXCEPT !.open = FALSE, !.fd = NoFd].locked = conn[c].locked
      /\ conn[c].locked \in BOOLEAN
  BY <1>1 DEF Conn
<1>4. CASE conn[c].open
  <2>1. conn' = [conn EXCEPT ![c] = [conn[c] EXCEPT !.open = FALSE, !.fd = NoFd]]
    BY <1>2, <1>4 DEF CloseConn
  <2>2. conn'[c] = [conn[c] EXCEPT !.open = FALSE, !.fd = NoFd]
        /\ \A d \in Clients \ {c} : conn'[d] = conn[d]
    BY <2>1 DEF WsTypes
  <2>3. ~conn[c].locked /\ fds' = [fds EXCEPT ![conn[c].fd] = Free] /\ thr' = Woken(threads, c)
    BY <1>4 DEF CloseConn, CloseFd, MutexFree
  <2>4. \A d \in Clients : Wakes(threads[d], thr'[d])
    BY <2>3 DEF Woken, Wakes
  <2>5. /\ conn'[c].token = conn[c].token
        /\ conn'[c].open = FALSE /\ conn'[c].locked = FALSE
    BY <1>3, <2>2, <2>3
  <2> QED
    BY <1>4, <2>2, <2>3, <2>4, <2>5
<1>5. CASE ~conn[c].open
  BY <1>5 DEF CloseConn, MutexFree, Wakes
<1> QED
  BY <1>4, <1>5

LEMMA CloseConnTypes ==
  ASSUME WsTypes, NEW c \in Clients, NEW threads \in [Clients -> ThreadStates],
         CloseConn(c, threads)
  PROVE  /\ fds' \in [Fds -> Clients \cup {Free, Listening}]
         /\ conn' \in [Clients -> Conn]
         /\ thr' \in [Clients -> ThreadStates]
<1>1. CASE conn[c].open
  <2>1. conn' = [conn EXCEPT ![c].open = FALSE, ![c].fd = NoFd]
    BY <1>1 DEF CloseConn
  <2>2. fds' = [fds EXCEPT ![conn[c].fd] = Free] /\ thr' = Woken(threads, c)
    BY <1>1 DEF CloseConn, CloseFd
  <2>3. conn' \in [Clients -> Conn]
    BY <2>1, ConnUpdates DEF WsTypes
  <2>4. Woken(threads, c) \in [Clients -> ThreadStates]
    BY DEF Woken, ThreadStates
  <2>5. fds' \in [Fds -> Clients \cup {Free, Listening}]
    BY <2>2 DEF WsTypes
  <2> QED
    BY <2>2, <2>3, <2>4, <2>5
<1>2. CASE ~conn[c].open
  BY <1>2 DEF CloseConn, WsTypes
<1> QED
  BY <1>1, <1>2

LEMMA IdleInPub == Idle \in Pub /\ Idle.pc = "idle"
BY DEF Idle, Pub

LEMMA HttpInit == Init => WsTypes /\ Sockets /\ Server /\ Senders
<1> SUFFICES ASSUME Init PROVE WsTypes /\ Sockets /\ Server /\ Senders
  OBVIOUS
<1>1. NoConn \in Conn /\ Idle \in Pub /\ ~NoConn.open /\ ~NoConn.locked /\ Idle.pc = "idle"
  BY DEF NoConn, Conn, Idle, Pub
<1>2. WsTypes
  BY <1>1 DEF Init, WsInit, WsTypes, ThreadStates
<1>3. Sockets
  BY <1>1 DEF Init, WsInit, Sockets, SocketOK, Early, Serving
<1>4. Server
  BY DEF Init, WsInit, Server, Accepting
<1>5. Senders
  BY <1>1 DEF Init, WsInit, Senders, Sending
<1> QED
  BY <1>2, <1>3, <1>4, <1>5

-----------------------------------------------------------------------------
LEMMA TypesStep ==
  ASSUME WsTypes, Sockets, Server, [Next]_vars
  PROVE  WsTypes'
<1> USE DEF WsTypes
<1>1. CASE Start
  BY <1>1 DEF Start, connVars, ThreadStates, Conn, Pub
<1>2. CASE StopBegin
  BY <1>2 DEF StopBegin, connVars, ThreadStates, Conn, Pub
<1>3. CASE StopUnlisten
  BY <1>3 DEF StopUnlisten, CloseFd, WokenAccept, connVars, ThreadStates, Conn, Pub
<1>4. CASE StopJoin
  BY <1>4 DEF StopJoin, AcceptEnded, connVars, ThreadStates, Conn, Pub
<1>5. CASE Collect
  BY <1>5 DEF Collect, connVars, ThreadStates, Conn, Pub
<1>6. ASSUME NEW c \in Clients, ShutdownDrop(c)
      PROVE  WsTypes'
  BY <1>6 DEF ShutdownDrop, Without, connVars, ThreadStates, Conn, Pub
<1>7. ASSUME NEW c \in Clients, ShutdownClose(c)
      PROVE  WsTypes'
  <2>1. CloseConn(c, thr)
    BY <1>7 DEF ShutdownClose
  <2>2. thr \in [Clients -> ThreadStates]
    BY DEF ThreadStates
  <2> QED
    BY <1>7, <2>1, <2>2, CloseConnTypes DEF ShutdownClose
<1>8. CASE ShutdownReturn
  BY <1>8 DEF ShutdownReturn, connVars, ThreadStates, Conn, Pub
<1>9. CASE AcceptCheck
  BY <1>9 DEF AcceptCheck, AcceptGoes, connVars, ThreadStates, Conn, Pub
<1>10. CASE AcceptCall
  BY <1>10 DEF AcceptCall, AcceptGoes, connVars, ThreadStates, Conn, Pub
<1>11. CASE AcceptClient
  BY <1>11 DEF AcceptClient, Goes, connVars, ThreadStates, Conn, Pub
<1>12. CASE AcceptFails
  BY <1>12 DEF AcceptFails, AcceptGoes, connVars, ThreadStates, Conn, Pub
<1>13. CASE AcceptGot
  BY <1>13 DEF AcceptGot, Goes, AcceptGoes, connVars, ThreadStates, Conn, Pub
<1>14. CASE AcceptCount
  BY <1>14 DEF AcceptCount, AcceptGoes, Full, connVars, ThreadStates, Conn, Pub
<1>15. CASE AcceptSpawn
  BY <1>15 DEF AcceptSpawn, Goes, AcceptGoes, connVars, ThreadStates, Conn, Pub
<1>16. CASE AcceptUncount
  BY <1>16 DEF AcceptUncount, AcceptGoes, connVars, ThreadStates, Conn, Pub
<1>17. CASE AcceptRefuse
  BY <1>17 DEF AcceptRefuse, Goes, AcceptGoes, CloseFd, connVars, ThreadStates, Conn, Pub
<1>18. ASSUME NEW c \in Clients, Request(c)
      PROVE  WsTypes'
  BY <1>18 DEF Request, Goes, connVars, ThreadStates, Conn, Pub
<1>19. ASSUME NEW c \in Clients, Lookup(c)
      PROVE  WsTypes'
  BY <1>19 DEF Lookup, Goes, connVars, ThreadStates, Conn, Pub
<1>20. ASSUME NEW c \in Clients, Respond(c)
      PROVE  WsTypes'
  BY <1>20 DEF Respond, Goes, CloseFd, connVars, ThreadStates, Conn, Pub
<1>21. ASSUME NEW c \in Clients, CountOut(c)
      PROVE  WsTypes'
  BY <1>21 DEF CountOut, Goes, CountedOut, connVars, ThreadStates, Conn, Pub
<1>22. ASSUME NEW c \in Clients, Handshake(c)
      PROVE  WsTypes'
  BY <1>22 DEF Handshake, Goes, CloseFd, connVars, ThreadStates, Conn, Pub
<1>23. ASSUME NEW c \in Clients, Register(c)
      PROVE  WsTypes'
  BY <1>23 DEF Register, Goes, connVars, ThreadStates, Conn, Pub
<1>24. ASSUME NEW c \in Clients, Read(c)
      PROVE  WsTypes'
  BY <1>24 DEF Read, Goes, connVars, ThreadStates, Conn, Pub
<1>25. ASSUME NEW c \in Clients, Receive(c)
      PROVE  WsTypes'
  BY <1>25 DEF Receive, Goes, connVars, ThreadStates, Conn, Pub
<1>26. ASSUME NEW c \in Clients, Text(c)
      PROVE  WsTypes'
  <2>1. conn[c].token \in Tokens
    BY <1>26 DEF Text, Sockets, SocketOK, Serving
  <2> QED
    BY <1>26, <2>1 DEF Text, Goes, connVars, ThreadStates
<1>27. ASSUME NEW c \in Clients, Answer(c)
      PROVE  WsTypes'
  <2>1. conn' \in [Clients -> Conn]
    BY <1>27, ConnUpdates DEF Answer
  <2> QED
    BY <1>27, <2>1 DEF Answer, Goes, ThreadStates
<1>28. ASSUME NEW c \in Clients, Answered(c)
      PROVE  WsTypes'
  <2>1. conn' \in [Clients -> Conn]
    BY <1>28, ConnUpdates DEF Answered
  <2> QED
    BY <1>28, <2>1 DEF Answered, Goes, ThreadStates
<1>29. ASSUME NEW c \in Clients, Drop(c)
      PROVE  WsTypes'
  BY <1>29 DEF Drop, Goes, Without, connVars, ThreadStates, Conn, Pub
<1>30. ASSUME NEW c \in Clients, Unmap(c)
      PROVE  WsTypes'
  BY <1>30 DEF Unmap, Goes, connVars, ThreadStates, Conn, Pub
<1>31. ASSUME NEW c \in Clients, Close(c)
      PROVE  WsTypes'
  <2>1. CloseConn(c, [thr EXCEPT ![c] = "count"])
    BY <1>31 DEF Close
  <2>2. [thr EXCEPT ![c] = "count"] \in [Clients -> ThreadStates]
    BY DEF ThreadStates
  <2> QED
    BY <1>31, <2>1, <2>2, CloseConnTypes DEF Close
<1>32. ASSUME NEW p \in Publishers, Pick(p)
      PROVE  WsTypes'
  BY <1>32 DEF Pick, PubGoes, connVars, ThreadStates, Conn, Pub
<1>33. ASSUME NEW p \in Publishers, Find(p)
      PROVE  WsTypes'
  BY <1>33 DEF Find, PubGoes, Idle, connVars, ThreadStates, Conn, Pub
<1>34. ASSUME NEW p \in Publishers, SendFrame(p)
      PROVE  WsTypes'
  <2>1. pub[p].conn \in Clients
    BY <1>34 DEF SendFrame
  <2>2. conn' \in [Clients -> Conn]
    BY <1>34, <2>1, ConnUpdates DEF SendFrame
  <2>3. CASE pub' = [pub EXCEPT ![p] = Idle]
    BY <1>34, <2>2, <2>3, IdleInPub DEF SendFrame, PubGoes
  <2>4. CASE pub' = [pub EXCEPT ![p] = [pub[p] EXCEPT !.pc = "send"]]
    <3>1. /\ [pub[p] EXCEPT !.pc = "send"] \in Pub
          /\ [pub[p] EXCEPT !.pc = "send"].pc = "send"
          /\ [pub[p] EXCEPT !.pc = "send"].conn = pub[p].conn
      <4>1. pub[p] \in Pub
        OBVIOUS
      <4> QED
        BY <4>1 DEF Pub
    <3> QED
      BY <1>34, <2>1, <2>2, <2>4, <3>1 DEF SendFrame, PubGoes
  <2> QED
    BY <1>34, <2>3, <2>4 DEF SendFrame, PubGoes
<1>35. ASSUME NEW p \in Publishers, Sent(p)
      PROVE  WsTypes'
  <2>1. conn' \in [Clients -> Conn]
    BY <1>35, ConnUpdates DEF Sent
  <2>2. pub' = [pub EXCEPT ![p] = Idle]
    BY <1>35 DEF Sent, PubGoes
  <2> QED
    BY <1>35, <2>1, <2>2, IdleInPub DEF Sent, PubGoes
<1>36. CASE UNCHANGED vars
  BY <1>36 DEF vars, wsVars, httpVars, connVars, ThreadStates, Conn, Pub
<1> QED
  BY <1>1, <1>2, <1>3, <1>4, <1>5, <1>6, <1>7, <1>8, <1>9, <1>10, <1>11, <1>12, <1>13, <1>14, <1>15, <1>16, <1>17, <1>18, <1>19, <1>20, <1>21, <1>22, <1>23, <1>24, <1>25, <1>26, <1>27, <1>28, <1>29, <1>30, <1>31, <1>32, <1>33, <1>34, <1>35, <1>36
     DEF Next, Stop, ShutdownAll, AcceptLoop, HandleClient, Serve, Publisher, SendBinary

LEMMA SocketsStep ==
  ASSUME WsTypes, WsTypes', Sockets, Server, Senders, [Next]_vars
  PROVE  Sockets'
<1>a. /\ fds \in [Fds -> Clients \cup {Free, Listening}] /\ thr \in [Clients -> ThreadStates]
      /\ sock \in [Clients -> Fds \cup {NoFd}] /\ conn \in [Clients -> Conn]
  BY DEF WsTypes
<1>b. NoConn.open = FALSE /\ NoConn.locked = FALSE
  BY DEF NoConn
<1> USE OscWsAssumption DEF Sockets, SocketOK, Owns, Early, Serving
<1>1. CASE Start
  BY <1>1, <1>a, <1>b DEF Start, connVars
<1>2. CASE StopBegin
  BY <1>2, <1>a, <1>b DEF StopBegin, connVars
<1>3. CASE StopUnlisten
  BY <1>3, <1>a DEF StopUnlisten, CloseFd, WokenAccept, connVars, Server, Accepting
<1>4. CASE StopJoin
  BY <1>4, <1>a, <1>b DEF StopJoin, AcceptEnded, connVars
<1>5. CASE Collect
  BY <1>5, <1>a, <1>b DEF Collect, connVars
<1>6. ASSUME NEW c \in Clients, ShutdownDrop(c)
      PROVE  Sockets'
  BY <1>6, <1>a, <1>b DEF ShutdownDrop, Without, connVars
<1>7. ASSUME NEW c \in Clients, ShutdownClose(c)
      PROVE  Sockets'
  <2>1. CloseConn(c, thr) /\ sock' = sock
    BY <1>7 DEF ShutdownClose
  <2>2. thr \in [Clients -> ThreadStates]
    BY <1>a DEF ThreadStates
  <2>3. \/ ~conn[c].open /\ thr' = thr /\ fds' = fds /\ conn' = conn
        \/ /\ conn[c].open /\ fds' = [fds EXCEPT ![conn[c].fd] = Free]
           /\ \A d \in Clients \ {c} : conn'[d] = conn[d]
           /\ conn'[c].token = conn[c].token
           /\ conn'[c].open = FALSE /\ conn'[c].locked = FALSE
    BY <2>1, <2>2, CloseConnEffect
  <2>4. \A d \in Clients : Wakes(thr[d], thr'[d])
    BY <2>1, <2>2, CloseConnEffect
  <2>5. SocketOK(c)'
    BY <1>7, <1>a, <2>1, <2>3, <2>4 DEF ShutdownClose, Wakes
  <2>6. ASSUME NEW d \in Clients \ {c}
        PROVE  SocketOK(d)'
    <3>1. conn'[d] = conn[d] /\ SocketOK(d)
      BY <2>3
    <3>2. Wakes(thr[d], thr'[d])
      BY <1>a, <2>4
    <3>3. \A f \in Fds : fds[f] = d => fds'[f] = d
      BY <1>a, <2>3
    <3> QED
      BY <2>1, <3>1, <3>2, <3>3 DEF Wakes
  <2> QED
    BY <2>5, <2>6
<1>8. CASE ShutdownReturn
  BY <1>8, <1>a, <1>b DEF ShutdownReturn, connVars
<1>9. CASE AcceptCheck
  BY <1>9, <1>a, <1>b DEF AcceptCheck, AcceptGoes, connVars
<1>10. CASE AcceptCall
  BY <1>10, <1>a, <1>b DEF AcceptCall, AcceptGoes, connVars
<1>11. CASE AcceptClient
  BY <1>11, <1>a, <1>b DEF AcceptClient, Goes, connVars
<1>12. CASE AcceptFails
  BY <1>12, <1>a, <1>b DEF AcceptFails, AcceptGoes, connVars
<1>13. CASE AcceptGot
  BY <1>13, <1>a DEF AcceptGot, Goes, AcceptGoes, connVars, Server, Accepting
<1>14. CASE AcceptCount
  BY <1>14, <1>a, <1>b DEF AcceptCount, AcceptGoes, Full, connVars
<1>15. CASE AcceptSpawn
  BY <1>15, <1>a DEF AcceptSpawn, Goes, AcceptGoes, connVars, Server, Accepting
<1>16. CASE AcceptUncount
  BY <1>16, <1>a, <1>b DEF AcceptUncount, AcceptGoes, connVars
<1>17. CASE AcceptRefuse
  BY <1>17, <1>a DEF AcceptRefuse, Goes, AcceptGoes, CloseFd, connVars, Server, Accepting
<1>18. ASSUME NEW c \in Clients, Request(c)
      PROVE  Sockets'
  BY <1>18, <1>a, <1>b DEF Request, Goes, connVars
<1>19. ASSUME NEW c \in Clients, Lookup(c)
      PROVE  Sockets'
  BY <1>19, <1>a, <1>b DEF Lookup, Goes, connVars
<1>20. ASSUME NEW c \in Clients, Respond(c)
      PROVE  Sockets'
  BY <1>20, <1>a, <1>b DEF Respond, Goes, CloseFd, connVars
<1>21. ASSUME NEW c \in Clients, CountOut(c)
      PROVE  Sockets'
  BY <1>21, <1>a, <1>b DEF CountOut, Goes, CountedOut, connVars
<1>22. ASSUME NEW c \in Clients, Handshake(c)
      PROVE  Sockets'
  BY <1>22, <1>a, <1>b DEF Handshake, Goes, CloseFd, connVars
<1>23. ASSUME NEW c \in Clients, Register(c)
      PROVE  Sockets'
  BY <1>23, <1>a, <1>b DEF Register, Goes, connVars
<1>24. ASSUME NEW c \in Clients, Read(c)
      PROVE  Sockets'
  BY <1>24, <1>a, <1>b DEF Read, Goes, connVars
<1>25. ASSUME NEW c \in Clients, Receive(c)
      PROVE  Sockets'
  BY <1>25, <1>a, <1>b DEF Receive, Goes, connVars
<1>26. ASSUME NEW c \in Clients, Text(c)
      PROVE  Sockets'
  BY <1>26, <1>a, <1>b DEF Text, Goes, connVars
<1>27. ASSUME NEW c \in Clients, Answer(c)
      PROVE  Sockets'
  <2>1. (Touched(c, conn[c].open, TRUE) /\ conn[c].open) \/ conn' = conn
    BY <1>27, <1>a, ConnEffects DEF Answer, MaySend
  <2> QED
    BY <1>27, <1>a, <2>1 DEF Answer, Goes, Touched
<1>28. ASSUME NEW c \in Clients, Answered(c)
      PROVE  Sockets'
  <2>1. \E open \in {FALSE, conn[c].open} : Touched(c, open, FALSE)
    BY <1>28, <1>a, ConnEffects DEF Answered
  <2>2. \/ thr' = [thr EXCEPT ![c] = "read"]
        \/ thr' = [thr EXCEPT ![c] = "drop"]
    BY <1>28 DEF Answered, Goes
  <2>3. sock' = sock /\ fds' = fds /\ thr[c] \in Sending
    BY <1>28 DEF Answered, Sending
  <2>4. SocketOK(c)'
    <3>1. /\ conn'[c].token = conn[c].token /\ conn'[c].fd = conn[c].fd
          /\ conn'[c].open => conn[c].open
          /\ ~conn'[c].locked
      BY <2>1 DEF Touched
    <3>2. thr[c] \in Serving /\ thr'[c] \in {"read", "drop"}
      BY <1>a, <2>2, <2>3 DEF Sending
    <3> QED
      BY <2>3, <3>1, <3>2
  <2>5. \A d \in Clients \ {c} : SocketOK(d)'
    BY <1>a, <2>1, <2>2, <2>3 DEF Touched
  <2> QED
    BY <2>4, <2>5
<1>29. ASSUME NEW c \in Clients, Drop(c)
      PROVE  Sockets'
  BY <1>29, <1>a, <1>b DEF Drop, Goes, Without, connVars
<1>30. ASSUME NEW c \in Clients, Unmap(c)
      PROVE  Sockets'
  BY <1>30, <1>a, <1>b DEF Unmap, Goes, connVars
<1>31. ASSUME NEW c \in Clients, Close(c)
      PROVE  Sockets'
  <2>1. CloseConn(c, [thr EXCEPT ![c] = "count"]) /\ sock' = sock
    BY <1>31 DEF Close
  <2>2. [thr EXCEPT ![c] = "count"] \in [Clients -> ThreadStates]
    BY <1>a DEF ThreadStates
  <2>3. \/ ~conn[c].open /\ thr' = [thr EXCEPT ![c] = "count"] /\ fds' = fds /\ conn' = conn
        \/ /\ conn[c].open /\ fds' = [fds EXCEPT ![conn[c].fd] = Free]
           /\ \A d \in Clients \ {c} : conn'[d] = conn[d]
           /\ conn'[c].token = conn[c].token
           /\ conn'[c].open = FALSE /\ conn'[c].locked = FALSE
    BY <2>1, <2>2, CloseConnEffect
  <2>4. \A d \in Clients : Wakes([thr EXCEPT ![c] = "count"][d], thr'[d])
    BY <2>1, <2>2, CloseConnEffect
  <2>5. SocketOK(c)'
    BY <1>31, <1>a, <2>1, <2>3, <2>4 DEF Close, Wakes
  <2>6. ASSUME NEW d \in Clients \ {c}
        PROVE  SocketOK(d)'
    <3>1. conn'[d] = conn[d] /\ SocketOK(d)
      BY <2>3
    <3>2. Wakes(thr[d], thr'[d])
      BY <1>a, <2>4
    <3>3. \A f \in Fds : fds[f] = d => fds'[f] = d
      BY <1>a, <2>3
    <3> QED
      BY <2>1, <3>1, <3>2, <3>3 DEF Wakes
  <2> QED
    BY <2>5, <2>6
<1>32. ASSUME NEW p \in Publishers, Pick(p)
      PROVE  Sockets'
  BY <1>32, <1>a, <1>b DEF Pick, PubGoes, connVars
<1>33. ASSUME NEW p \in Publishers, Find(p)
      PROVE  Sockets'
  BY <1>33, <1>a, <1>b DEF Find, PubGoes, Idle, connVars
<1>34. ASSUME NEW p \in Publishers, SendFrame(p)
      PROVE  Sockets'
  <2>1. pub[p].conn \in Clients
    BY <1>34 DEF SendFrame, WsTypes
  <2>2. \/ Touched(pub[p].conn, conn[pub[p].conn].open, TRUE) /\ conn[pub[p].conn].open
        \/ conn' = conn
    BY <1>34, <1>a, <2>1, ConnEffects DEF SendFrame, MaySend
  <2> QED
    BY <1>34, <1>a, <2>1, <2>2 DEF SendFrame, PubGoes, Touched
<1>35. ASSUME NEW p \in Publishers, Sent(p)
      PROVE  Sockets'
  <2>1. pub[p].conn \in Clients /\ conn[pub[p].conn].locked
    BY <1>35 DEF Sent, WsTypes, Senders
  <2>2. \E open \in {FALSE, conn[pub[p].conn].open} : Touched(pub[p].conn, open, FALSE)
    BY <1>35, <1>a, <2>1, ConnEffects DEF Sent
  <2> QED
    BY <1>35, <1>a, <2>1, <2>2 DEF Sent, PubGoes, Touched
<1>36. CASE UNCHANGED vars
  BY <1>36 DEF vars, wsVars, httpVars, connVars
<1> QED
  BY <1>1, <1>2, <1>3, <1>4, <1>5, <1>6, <1>7, <1>8, <1>9, <1>10, <1>11, <1>12, <1>13, <1>14, <1>15, <1>16, <1>17, <1>18, <1>19, <1>20, <1>21, <1>22, <1>23, <1>24, <1>25, <1>26, <1>27, <1>28, <1>29, <1>30, <1>31, <1>32, <1>33, <1>34, <1>35, <1>36
     DEF Next, Stop, ShutdownAll, AcceptLoop, HandleClient, Serve, Publisher, SendBinary

LEMMA ServerStep ==
  ASSUME WsTypes, WsTypes', Sockets, Server, [Next]_vars
  PROVE  Server'
<1>a. /\ fds \in [Fds -> Clients \cup {Free, Listening}] /\ thr \in [Clients -> ThreadStates]
  BY DEF WsTypes
<1>b. \A c \in Clients : SocketOK(c)
  BY DEF Sockets
<1> USE OscWsAssumption DEF Server, Owns, Accepting
<1>1. CASE Start
  BY <1>1, <1>a DEF Start, connVars, httpVars
<1>2. CASE StopBegin
  BY <1>2, <1>a DEF StopBegin, connVars, httpVars
<1>3. CASE StopUnlisten
  BY <1>3, <1>a DEF StopUnlisten, CloseFd, WokenAccept, connVars, httpVars
<1>4. CASE StopJoin
  BY <1>4, <1>a DEF StopJoin, AcceptEnded, connVars, httpVars
<1>5. CASE Collect /\ UNCHANGED httpVars
  BY <1>5, <1>a DEF Collect, connVars, httpVars
<1>6. ASSUME NEW c \in Clients, ShutdownDrop(c), UNCHANGED httpVars
      PROVE  Server'
  BY <1>6, <1>a DEF ShutdownDrop, Without, connVars, httpVars
<1>7. ASSUME NEW c \in Clients, ShutdownClose(c), UNCHANGED httpVars
      PROVE  Server'
  <2>1. CloseConn(c, thr)
    BY <1>7 DEF ShutdownClose
  <2>2. thr \in [Clients -> ThreadStates]
    BY <1>a DEF ThreadStates
  <2>3. fds' = fds \/ (fds' = [fds EXCEPT ![conn[c].fd] = Free] /\ Owns(c, conn[c].fd))
    BY <1>b, <2>1, <2>2, CloseConnEffect, ZenonT(40) DEF SocketOK
  <2>4. \A f \in Fds : fds[f] = Listening => fds'[f] = Listening
    BY <1>a, <2>3
  <2>5. \A d \in Clients : thr[d] = "accepted" => thr'[d] = "accepted"
    BY <1>7, <1>a, <2>1, <2>2, CloseConnEffect DEF ShutdownClose, Wakes
  <2> QED
    BY <1>7, <2>4, <2>5 DEF ShutdownClose, httpVars
<1>8. CASE ShutdownReturn /\ UNCHANGED httpVars
  BY <1>8, <1>a DEF ShutdownReturn, connVars, httpVars
<1>9. CASE AcceptCheck
  BY <1>9, <1>a DEF AcceptCheck, AcceptGoes, connVars, httpVars
<1>10. CASE AcceptCall
  BY <1>10, <1>a DEF AcceptCall, AcceptGoes, connVars, httpVars
<1>11. CASE AcceptClient
  BY <1>11, <1>a DEF AcceptClient, Goes, connVars, httpVars
<1>12. CASE AcceptFails
  BY <1>12, <1>a DEF AcceptFails, AcceptGoes, connVars, httpVars
<1>13. CASE AcceptGot
  BY <1>13, <1>a DEF AcceptGot, Goes, AcceptGoes, connVars, httpVars
<1>14. CASE AcceptCount
  BY <1>14, <1>a DEF AcceptCount, AcceptGoes, Full, connVars, httpVars
<1>15. CASE AcceptSpawn
  BY <1>15, <1>a DEF AcceptSpawn, Goes, AcceptGoes, connVars, httpVars
<1>16. CASE AcceptUncount
  BY <1>16, <1>a DEF AcceptUncount, AcceptGoes, connVars, httpVars
<1>17. CASE AcceptRefuse
  <2>1. Owns(client, sock[client])
    BY <1>17, <1>b DEF AcceptRefuse, SocketOK, Early
  <2> QED
    BY <1>17, <1>a, <2>1 DEF AcceptRefuse, AcceptGoes, Goes, CloseFd
<1>18. ASSUME NEW c \in Clients, Request(c)
      PROVE  Server'
  BY <1>18, <1>a DEF Request, Goes, connVars, httpVars
<1>19. ASSUME NEW c \in Clients, Lookup(c)
      PROVE  Server'
  BY <1>19, <1>a DEF Lookup, Goes, connVars, httpVars
<1>20. ASSUME NEW c \in Clients, Respond(c)
      PROVE  Server'
  <2>1. Owns(c, sock[c]) /\ thr[c] # "accepted"
    BY <1>20, <1>b DEF Respond, SocketOK, Early
  <2> QED
    BY <1>20, <1>a, <2>1 DEF Respond, Goes, CloseFd, connVars, httpVars
<1>21. ASSUME NEW c \in Clients, CountOut(c)
      PROVE  Server'
  BY <1>21, <1>a DEF CountOut, Goes, CountedOut, connVars, httpVars
<1>22. ASSUME NEW c \in Clients, Handshake(c), UNCHANGED httpVars
      PROVE  Server'
  <2>1. Owns(c, sock[c]) /\ thr[c] # "accepted"
    BY <1>22, <1>b DEF Handshake, SocketOK, Early
  <2> QED
    BY <1>22, <1>a, <2>1 DEF Handshake, Goes, CloseFd, connVars, httpVars
<1>23. ASSUME NEW c \in Clients, Register(c), UNCHANGED httpVars
      PROVE  Server'
  BY <1>23, <1>a DEF Register, Goes, connVars, httpVars
<1>24. ASSUME NEW c \in Clients, Read(c), UNCHANGED httpVars
      PROVE  Server'
  BY <1>24, <1>a DEF Read, Goes, connVars, httpVars
<1>25. ASSUME NEW c \in Clients, Receive(c), UNCHANGED httpVars
      PROVE  Server'
  BY <1>25, <1>a DEF Receive, Goes, connVars, httpVars
<1>26. ASSUME NEW c \in Clients, Text(c), UNCHANGED httpVars
      PROVE  Server'
  BY <1>26, <1>a DEF Text, Goes, connVars, httpVars
<1>27. ASSUME NEW c \in Clients, Answer(c), UNCHANGED httpVars
      PROVE  Server'
  BY <1>27, <1>a DEF Answer, Goes, Lock, MutexFree, MaySend, connVars, httpVars
<1>28. ASSUME NEW c \in Clients, Answered(c), UNCHANGED httpVars
      PROVE  Server'
  BY <1>28, <1>a DEF Answered, Goes, Unlock, UnlockBroken, connVars, httpVars
<1>29. ASSUME NEW c \in Clients, Drop(c), UNCHANGED httpVars
      PROVE  Server'
  BY <1>29, <1>a DEF Drop, Goes, Without, connVars, httpVars
<1>30. ASSUME NEW c \in Clients, Unmap(c), UNCHANGED httpVars
      PROVE  Server'
  BY <1>30, <1>a DEF Unmap, Goes, connVars, httpVars
<1>31. ASSUME NEW c \in Clients, Close(c), UNCHANGED httpVars
      PROVE  Server'
  <2>1. CloseConn(c, [thr EXCEPT ![c] = "count"])
    BY <1>31 DEF Close
  <2>2. [thr EXCEPT ![c] = "count"] \in [Clients -> ThreadStates]
    BY <1>a DEF ThreadStates
  <2>3. fds' = fds \/ (fds' = [fds EXCEPT ![conn[c].fd] = Free] /\ Owns(c, conn[c].fd))
    BY <1>b, <2>1, <2>2, CloseConnEffect, ZenonT(40) DEF SocketOK
  <2>4. \A f \in Fds : fds[f] = Listening => fds'[f] = Listening
    BY <1>a, <2>3
  <2>5. \A d \in Clients : thr[d] = "accepted" => thr'[d] = "accepted"
    BY <1>31, <1>a, <2>1, <2>2, CloseConnEffect DEF Close, Wakes
  <2> QED
    BY <1>31, <2>4, <2>5 DEF Close, httpVars
<1>32. ASSUME NEW p \in Publishers, Pick(p), UNCHANGED httpVars
      PROVE  Server'
  BY <1>32, <1>a DEF Pick, PubGoes, connVars, httpVars
<1>33. ASSUME NEW p \in Publishers, Find(p), UNCHANGED httpVars
      PROVE  Server'
  BY <1>33, <1>a DEF Find, PubGoes, Idle, connVars, httpVars
<1>34. ASSUME NEW p \in Publishers, SendFrame(p), UNCHANGED httpVars
      PROVE  Server'
  BY <1>34, <1>a DEF SendFrame, PubGoes, Lock, MutexFree, MaySend, Idle, connVars, httpVars
<1>35. ASSUME NEW p \in Publishers, Sent(p), UNCHANGED httpVars
      PROVE  Server'
  BY <1>35, <1>a DEF Sent, PubGoes, Unlock, UnlockBroken, Idle, connVars, httpVars
<1>36. CASE UNCHANGED vars
  BY <1>36 DEF vars, wsVars, httpVars, connVars, httpVars
<1> QED
  BY <1>1, <1>2, <1>3, <1>4, <1>5, <1>6, <1>7, <1>8, <1>9, <1>10, <1>11, <1>12, <1>13, <1>14, <1>15, <1>16, <1>17, <1>18, <1>19, <1>20, <1>21, <1>22, <1>23, <1>24, <1>25, <1>26, <1>27, <1>28, <1>29, <1>30, <1>31, <1>32, <1>33, <1>34, <1>35, <1>36
     DEF Next, Stop, ShutdownAll, AcceptLoop, HandleClient, Serve, Publisher, SendBinary

LEMMA SendersStep ==
  ASSUME WsTypes, WsTypes', Sockets, Server, Senders, [Next]_vars
  PROVE  Senders'
<1>a. /\ thr \in [Clients -> ThreadStates] /\ conn \in [Clients -> Conn]
      /\ pub \in [Publishers -> Pub]
      /\ \A p \in Publishers : pub[p].pc \in {"lock", "send"} => pub[p].conn \in Clients
  BY DEF WsTypes
<1>b. Idle.pc = "idle"
  BY DEF Idle
<1> USE DEF Senders, Sending
<1>1. CASE Start
  BY <1>1, <1>a, <1>b DEF Start, connVars
<1>2. CASE StopBegin
  BY <1>2, <1>a, <1>b DEF StopBegin, connVars
<1>3. CASE StopUnlisten
  BY <1>3, <1>a, <1>b DEF StopUnlisten, CloseFd, WokenAccept, connVars
<1>4. CASE StopJoin
  BY <1>4, <1>a, <1>b DEF StopJoin, AcceptEnded, connVars
<1>5. CASE Collect
  BY <1>5, <1>a, <1>b DEF Collect, connVars
<1>6. ASSUME NEW c \in Clients, ShutdownDrop(c)
      PROVE  Senders'
  BY <1>6, <1>a, <1>b DEF ShutdownDrop, Without, connVars
<1>7. ASSUME NEW c \in Clients, ShutdownClose(c)
      PROVE  Senders'
  <2>1. CloseConn(c, thr) /\ pub' = pub
    BY <1>7 DEF ShutdownClose
  <2>2. thr \in [Clients -> ThreadStates]
    BY <1>a DEF ThreadStates
  <2>3. \A d \in Clients : conn'[d].locked <=> conn[d].locked
    BY <2>1, <2>2, CloseConnEffect
  <2>4. \A d \in Clients : Wakes(thr[d], thr'[d])
    BY <2>1, <2>2, CloseConnEffect
  <2>5. \A d \in Clients : thr'[d] \in Sending <=> thr[d] \in Sending
    BY <1>7, <1>a, <2>4 DEF ShutdownClose, Wakes
  <2> QED
    BY <1>a, <2>1, <2>3, <2>5
<1>8. CASE ShutdownReturn
  BY <1>8, <1>a, <1>b DEF ShutdownReturn, connVars
<1>9. CASE AcceptCheck
  BY <1>9, <1>a, <1>b DEF AcceptCheck, AcceptGoes, connVars
<1>10. CASE AcceptCall
  BY <1>10, <1>a, <1>b DEF AcceptCall, AcceptGoes, connVars
<1>11. CASE AcceptClient
  BY <1>11, <1>a, <1>b DEF AcceptClient, Goes, connVars
<1>12. CASE AcceptFails
  BY <1>12, <1>a, <1>b DEF AcceptFails, AcceptGoes, connVars
<1>13. CASE AcceptGot
  BY <1>13, <1>a DEF AcceptGot, Goes, AcceptGoes, connVars, Server, Accepting
<1>14. CASE AcceptCount
  BY <1>14, <1>a, <1>b DEF AcceptCount, AcceptGoes, Full, connVars
<1>15. CASE AcceptSpawn
  BY <1>15, <1>a DEF AcceptSpawn, Goes, AcceptGoes, connVars, Server, Accepting
<1>16. CASE AcceptUncount
  BY <1>16, <1>a, <1>b DEF AcceptUncount, AcceptGoes, connVars
<1>17. CASE AcceptRefuse
  BY <1>17, <1>a DEF AcceptRefuse, Goes, AcceptGoes, CloseFd, connVars, Server, Accepting
<1>18. ASSUME NEW c \in Clients, Request(c)
      PROVE  Senders'
  BY <1>18, <1>a, <1>b DEF Request, Goes, connVars
<1>19. ASSUME NEW c \in Clients, Lookup(c)
      PROVE  Senders'
  BY <1>19, <1>a, <1>b DEF Lookup, Goes, connVars
<1>20. ASSUME NEW c \in Clients, Respond(c)
      PROVE  Senders'
  BY <1>20, <1>a, <1>b DEF Respond, Goes, CloseFd, connVars
<1>21. ASSUME NEW c \in Clients, CountOut(c)
      PROVE  Senders'
  BY <1>21, <1>a, <1>b DEF CountOut, Goes, CountedOut, connVars
<1>22. ASSUME NEW c \in Clients, Handshake(c)
      PROVE  Senders'
  BY <1>22, <1>a, <1>b DEF Handshake, Goes, CloseFd, connVars
<1>23. ASSUME NEW c \in Clients, Register(c)
      PROVE  Senders'
  <2>1. ~conn[c].locked /\ thr[c] = "register"
    BY <1>23 DEF Register, Sockets, SocketOK, Early, NoConn
  <2>2. PICK t \in Tokens \ InUse :
          conn' = [conn EXCEPT ![c] =
             [token |-> t, fd |-> sock[c], open |-> TRUE, locked |-> FALSE]]
    BY <1>23 DEF Register
  <2>3. ~conn'[c].locked /\ \A d \in Clients \ {c} : conn'[d] = conn[d]
    BY <1>a, <2>2
  <2> QED
    BY <1>23, <1>a, <2>1, <2>3 DEF Register, Goes
<1>24. ASSUME NEW c \in Clients, Read(c)
      PROVE  Senders'
  BY <1>24, <1>a, <1>b DEF Read, Goes, connVars
<1>25. ASSUME NEW c \in Clients, Receive(c)
      PROVE  Senders'
  BY <1>25, <1>a, <1>b DEF Receive, Goes, connVars
<1>26. ASSUME NEW c \in Clients, Text(c)
      PROVE  Senders'
  BY <1>26, <1>a, <1>b DEF Text, Goes, connVars
<1>27. ASSUME NEW c \in Clients, Answer(c)
      PROVE  Senders'
  <2>1. \/ Touched(c, conn[c].open, TRUE) /\ ~conn[c].locked
              /\ thr' = [thr EXCEPT ![c] = IF thr[c] = "ping" THEN "sendPing" ELSE "sendBye"]
        \/ conn' = conn /\ thr' = [thr EXCEPT ![c] = "drop"]
    BY <1>27, <1>a, ConnEffects DEF Answer, MaySend, MutexFree, Goes
  <2> QED
    BY <1>27, <1>a, <2>1 DEF Answer, Touched
<1>28. ASSUME NEW c \in Clients, Answered(c)
      PROVE  Senders'
  <2>1. \E open \in {FALSE, conn[c].open} : Touched(c, open, FALSE)
    BY <1>28, <1>a, ConnEffects DEF Answered
  <2>2. \/ thr' = [thr EXCEPT ![c] = "read"]
        \/ thr' = [thr EXCEPT ![c] = "drop"]
    BY <1>28 DEF Answered, Goes
  <2>3. thr[c] \in Sending /\ pub' = pub
    BY <1>28 DEF Answered
  <2>4. ~conn'[c].locked /\ \A d \in Clients \ {c} : conn'[d] = conn[d]
    BY <2>1 DEF Touched
  <2>5. \A p \in Publishers : pub[p].pc = "send" => pub[p].conn # c
    BY <1>a, <2>3
  <2> QED
    BY <1>a, <2>2, <2>3, <2>4, <2>5
<1>29. ASSUME NEW c \in Clients, Drop(c)
      PROVE  Senders'
  BY <1>29, <1>a, <1>b DEF Drop, Goes, Without, connVars
<1>30. ASSUME NEW c \in Clients, Unmap(c)
      PROVE  Senders'
  BY <1>30, <1>a, <1>b DEF Unmap, Goes, connVars
<1>31. ASSUME NEW c \in Clients, Close(c)
      PROVE  Senders'
  <2>1. CloseConn(c, [thr EXCEPT ![c] = "count"]) /\ pub' = pub
    BY <1>31 DEF Close
  <2>2. [thr EXCEPT ![c] = "count"] \in [Clients -> ThreadStates]
    BY <1>a DEF ThreadStates
  <2>3. \A d \in Clients : conn'[d].locked <=> conn[d].locked
    <3>1. /\ ~conn[c].locked
          /\ conn' = conn \/ (~conn'[c].locked /\ \A d \in Clients \ {c} : conn'[d] = conn[d])
      BY <2>1, <2>2, CloseConnEffect
    <3> QED
      BY <3>1
  <2>4. \A d \in Clients : Wakes([thr EXCEPT ![c] = "count"][d], thr'[d])
    BY <2>1, <2>2, CloseConnEffect
  <2>5. \A d \in Clients : thr'[d] \in Sending <=> thr[d] \in Sending
    BY <1>31, <1>a, <2>4 DEF Close, Wakes
  <2> QED
    BY <1>a, <2>1, <2>3, <2>5
<1>32. ASSUME NEW p \in Publishers, Pick(p)
      PROVE  Senders'
  BY <1>32, <1>a, <1>b DEF Pick, PubGoes, connVars
<1>33. ASSUME NEW p \in Publishers, Find(p)
      PROVE  Senders'
  BY <1>33, <1>a, <1>b DEF Find, PubGoes, Idle, connVars
<1>34. ASSUME NEW p \in Publishers, SendFrame(p)
      PROVE  Senders'
  <2>1. pub[p].conn \in Clients /\ ~conn[pub[p].conn].locked /\ thr' = thr
    BY <1>34, <1>a DEF SendFrame, MutexFree, PubGoes
  <2>2. \/ /\ Touched(pub[p].conn, conn[pub[p].conn].open, TRUE)
           /\ pub' = [pub EXCEPT ![p] = [pub[p] EXCEPT !.pc = "send"]]
        \/ conn' = conn /\ pub' = [pub EXCEPT ![p] = Idle]
    BY <1>34, <1>a, <2>1, ConnEffects DEF SendFrame, MaySend, PubGoes
  <2>3. pub[p].pc = "lock"
    BY <1>34 DEF SendFrame
  <2>4. CASE conn' = conn /\ pub' = [pub EXCEPT ![p] = Idle]
    BY <1>a, <1>b, <2>1, <2>3, <2>4
  <2>5. CASE /\ Touched(pub[p].conn, conn[pub[p].conn].open, TRUE)
             /\ pub' = [pub EXCEPT ![p] = [pub[p] EXCEPT !.pc = "send"]]
    <3>1. pub'[p].pc = "send" /\ pub'[p].conn = pub[p].conn
          /\ \A q \in Publishers \ {p} : pub'[q] = pub[q]
      <4>1. [pub[p] EXCEPT !.pc = "send"].pc = "send"
            /\ [pub[p] EXCEPT !.pc = "send"].conn = pub[p].conn
        BY <1>a DEF Pub
      <4> QED
        BY <1>a, <2>5, <4>1
    <3>2. conn'[pub[p].conn].locked
          /\ \A d \in Clients \ {pub[p].conn} : conn'[d] = conn[d]
      BY <2>5 DEF Touched
    <3> QED
      BY <1>a, <2>1, <3>1, <3>2
  <2> QED
    BY <2>2, <2>4, <2>5
<1>35. ASSUME NEW p \in Publishers, Sent(p)
      PROVE  Senders'
  <2>1. pub[p].conn \in Clients /\ conn[pub[p].conn].locked /\ pub[p].pc = "send"
    BY <1>35, <1>a DEF Sent
  <2>2. \E open \in {FALSE, conn[pub[p].conn].open} : Touched(pub[p].conn, open, FALSE)
    BY <1>35, <1>a, <2>1, ConnEffects DEF Sent
  <2>3. pub' = [pub EXCEPT ![p] = Idle] /\ thr' = thr
    BY <1>35 DEF Sent, PubGoes
  <2>4. ~conn'[pub[p].conn].locked
        /\ \A d \in Clients \ {pub[p].conn} : conn'[d] = conn[d]
    BY <2>2 DEF Touched
  <2>5. thr[pub[p].conn] \notin Sending
        /\ \A q \in Publishers \ {p} : pub[q].pc = "send" => pub[q].conn # pub[p].conn
    BY <1>a, <2>1
  <2> QED
    BY <1>a, <1>b, <2>1, <2>3, <2>4, <2>5
<1>36. CASE UNCHANGED vars
  BY <1>36 DEF vars, wsVars, httpVars, connVars
<1> QED
  BY <1>1, <1>2, <1>3, <1>4, <1>5, <1>6, <1>7, <1>8, <1>9, <1>10, <1>11, <1>12, <1>13, <1>14, <1>15, <1>16, <1>17, <1>18, <1>19, <1>20, <1>21, <1>22, <1>23, <1>24, <1>25, <1>26, <1>27, <1>28, <1>29, <1>30, <1>31, <1>32, <1>33, <1>34, <1>35, <1>36
     DEF Next, Stop, ShutdownAll, AcceptLoop, HandleClient, Serve, Publisher, SendBinary

LEMMA ListenersStep ==
  ASSUME WsTypes, WsTypes', Server, ListenersAlive, [Next]_vars
  PROVE  ListenersAlive'
<1>a. /\ thr \in [Clients -> ThreadStates] /\ conn \in [Clients -> Conn]
      /\ pub \in [Publishers -> Pub] /\ thr' \in [Clients -> ThreadStates]
      /\ \A p \in Publishers : pub[p].pc \in {"lock", "send"} => pub[p].conn \in Clients
  BY DEF WsTypes
<1> USE DEF ListenersAlive, Serving
<1>1. CASE Start
  BY <1>1, <1>a DEF Start, connVars
<1>2. CASE StopBegin
  BY <1>2, <1>a DEF StopBegin, connVars
<1>3. CASE StopUnlisten
  BY <1>3, <1>a DEF StopUnlisten, CloseFd, WokenAccept, connVars
<1>4. CASE StopJoin
  BY <1>4, <1>a DEF StopJoin, AcceptEnded, connVars
<1>5. CASE Collect
  BY <1>5, <1>a DEF Collect, connVars
<1>6. ASSUME NEW c \in Clients, ShutdownDrop(c)
      PROVE  ListenersAlive'
  BY <1>6, <1>a DEF ShutdownDrop, Without, connVars
<1>7. ASSUME NEW c \in Clients, ShutdownClose(c)
      PROVE  ListenersAlive'
  <2>1. CloseConn(c, thr) /\ listeners' = listeners
    BY <1>7 DEF ShutdownClose
  <2>2. thr \in [Clients -> ThreadStates]
    BY <1>a DEF ThreadStates
  <2>3. \A d \in Clients : conn'[d].token = conn[d].token
    <3>1. \/ conn' = conn
          \/ /\ conn'[c].token = conn[c].token
             /\ \A d \in Clients \ {c} : conn'[d] = conn[d]
      BY <2>1, <2>2, CloseConnEffect
    <3> QED
      BY <3>1
  <2>4. \A d \in Clients : Wakes(thr[d], thr'[d])
    BY <2>1, <2>2, CloseConnEffect
  <2> QED
    BY <1>7, <1>a, <2>1, <2>3, <2>4 DEF ShutdownClose, Wakes
<1>8. CASE ShutdownReturn
  BY <1>8, <1>a DEF ShutdownReturn, connVars
<1>9. CASE AcceptCheck
  BY <1>9, <1>a DEF AcceptCheck, AcceptGoes, connVars
<1>10. CASE AcceptCall
  BY <1>10, <1>a DEF AcceptCall, AcceptGoes, connVars
<1>11. CASE AcceptClient
  BY <1>11, <1>a DEF AcceptClient, Goes, connVars
<1>12. CASE AcceptFails
  BY <1>12, <1>a DEF AcceptFails, AcceptGoes, connVars
<1>13. CASE AcceptGot
  BY <1>13, <1>a DEF AcceptGot, Goes, AcceptGoes, connVars, Server, Accepting
<1>14. CASE AcceptCount
  BY <1>14, <1>a DEF AcceptCount, AcceptGoes, Full, connVars
<1>15. CASE AcceptSpawn
  BY <1>15, <1>a DEF AcceptSpawn, Goes, AcceptGoes, connVars, Server, Accepting
<1>16. CASE AcceptUncount
  BY <1>16, <1>a DEF AcceptUncount, AcceptGoes, connVars
<1>17. CASE AcceptRefuse
  BY <1>17, <1>a DEF AcceptRefuse, Goes, AcceptGoes, CloseFd, connVars, Server, Accepting
<1>18. ASSUME NEW c \in Clients, Request(c)
      PROVE  ListenersAlive'
  BY <1>18, <1>a DEF Request, Goes, connVars
<1>19. ASSUME NEW c \in Clients, Lookup(c)
      PROVE  ListenersAlive'
  BY <1>19, <1>a DEF Lookup, Goes, connVars
<1>20. ASSUME NEW c \in Clients, Respond(c)
      PROVE  ListenersAlive'
  BY <1>20, <1>a DEF Respond, Goes, CloseFd, connVars
<1>21. ASSUME NEW c \in Clients, CountOut(c)
      PROVE  ListenersAlive'
  BY <1>21, <1>a DEF CountOut, Goes, CountedOut, connVars
<1>22. ASSUME NEW c \in Clients, Handshake(c)
      PROVE  ListenersAlive'
  BY <1>22, <1>a DEF Handshake, Goes, CloseFd, connVars
<1>23. ASSUME NEW c \in Clients, Register(c)
      PROVE  ListenersAlive'
  <2>1. \A d \in Clients \ {c} : conn'[d] = conn[d] /\ thr'[d] = thr[d]
    BY <1>23, <1>a DEF Register, Goes
  <2> QED
    BY <1>23, <2>1 DEF Register
<1>24. ASSUME NEW c \in Clients, Read(c)
      PROVE  ListenersAlive'
  BY <1>24, <1>a DEF Read, Goes, connVars
<1>25. ASSUME NEW c \in Clients, Receive(c)
      PROVE  ListenersAlive'
  BY <1>25, <1>a DEF Receive, Goes, connVars
<1>26. ASSUME NEW c \in Clients, Text(c)
      PROVE  ListenersAlive'
  BY <1>26, <1>a DEF Text, Goes, connVars
<1>27. ASSUME NEW c \in Clients, Answer(c)
      PROVE  ListenersAlive'
  <2>1. \A d \in Clients : conn'[d].token = conn[d].token
    BY <1>27, <1>a, ConnEffects DEF Answer, Touched
  <2> QED
    BY <1>27, <1>a, <2>1 DEF Answer, Goes
<1>28. ASSUME NEW c \in Clients, Answered(c)
      PROVE  ListenersAlive'
  <2>1. \A d \in Clients : conn'[d].token = conn[d].token
    BY <1>28, <1>a, ConnEffects DEF Answered, Touched
  <2> QED
    BY <1>28, <1>a, <2>1 DEF Answered, Goes
<1>29. ASSUME NEW c \in Clients, Drop(c)
      PROVE  ListenersAlive'
  BY <1>29, <1>a DEF Drop, Goes, Without, connVars
<1>30. ASSUME NEW c \in Clients, Unmap(c)
      PROVE  ListenersAlive'
  BY <1>30, <1>a DEF Unmap, Goes, connVars
<1>31. ASSUME NEW c \in Clients, Close(c)
      PROVE  ListenersAlive'
  <2>1. CloseConn(c, [thr EXCEPT ![c] = "count"]) /\ listeners' = listeners
    BY <1>31 DEF Close
  <2>2. [thr EXCEPT ![c] = "count"] \in [Clients -> ThreadStates]
    BY <1>a DEF ThreadStates
  <2>3. \A d \in Clients : conn'[d].token = conn[d].token
    <3>1. \/ conn' = conn
          \/ /\ conn'[c].token = conn[c].token
             /\ \A d \in Clients \ {c} : conn'[d] = conn[d]
      BY <2>1, <2>2, CloseConnEffect
    <3> QED
      BY <3>1
  <2>4. \A d \in Clients : Wakes([thr EXCEPT ![c] = "count"][d], thr'[d])
    BY <2>1, <2>2, CloseConnEffect
  <2> QED
    BY <1>31, <1>a, <2>1, <2>3, <2>4 DEF Close, Wakes
<1>32. ASSUME NEW p \in Publishers, Pick(p)
      PROVE  ListenersAlive'
  BY <1>32, <1>a DEF Pick, PubGoes, connVars
<1>33. ASSUME NEW p \in Publishers, Find(p)
      PROVE  ListenersAlive'
  BY <1>33, <1>a DEF Find, PubGoes, Idle, connVars
<1>34. ASSUME NEW p \in Publishers, SendFrame(p)
      PROVE  ListenersAlive'
  <2>1. \A d \in Clients : conn'[d].token = conn[d].token
    <3>1. pub[p].conn \in Clients
      BY <1>34, <1>a DEF SendFrame
    <3>2. (Touched(pub[p].conn, conn[pub[p].conn].open, TRUE)) \/ conn' = conn
      BY <1>34, <1>a, <3>1, ConnEffects DEF SendFrame
    <3> QED
      BY <3>1, <3>2 DEF Touched
  <2> QED
    BY <1>34, <1>a, <2>1 DEF SendFrame, PubGoes
<1>35. ASSUME NEW p \in Publishers, Sent(p)
      PROVE  ListenersAlive'
  <2>1. \A d \in Clients : conn'[d].token = conn[d].token
    <3>1. pub[p].conn \in Clients
      BY <1>35, <1>a DEF Sent
    <3>2. (\E open \in {FALSE, conn[pub[p].conn].open} : Touched(pub[p].conn, open, FALSE)) \/ conn' = conn
      BY <1>35, <1>a, <3>1, ConnEffects DEF Sent
    <3> QED
      BY <3>1, <3>2 DEF Touched
  <2> QED
    BY <1>35, <1>a, <2>1 DEF Sent, PubGoes
<1>36. CASE UNCHANGED vars
  BY <1>36 DEF vars, wsVars, httpVars, connVars
<1> QED
  BY <1>1, <1>2, <1>3, <1>4, <1>5, <1>6, <1>7, <1>8, <1>9, <1>10, <1>11, <1>12, <1>13, <1>14, <1>15, <1>16, <1>17, <1>18, <1>19, <1>20, <1>21, <1>22, <1>23, <1>24, <1>25, <1>26, <1>27, <1>28, <1>29, <1>30, <1>31, <1>32, <1>33, <1>34, <1>35, <1>36
     DEF Next, Stop, ShutdownAll, AcceptLoop, HandleClient, Serve, Publisher, SendBinary

\* What ClientLimit says, and that a client is let in below the limit only.
Limit ==
    /\ live_clients = Cardinality(Threads) + (IF accept \in {"spawn", "uncount"} THEN 1 ELSE 0)
    /\ Cardinality(Threads) <= MaxClients
    /\ accept = "spawn" => live_clients <= MaxClients

LEMMA LimitStep ==
  ASSUME WsTypes, WsTypes', Server, Limit, [Next]_vars
  PROVE  Limit'
<1>a. /\ thr \in [Clients -> ThreadStates] /\ conn \in [Clients -> Conn]
      /\ thr' \in [Clients -> ThreadStates]
  BY DEF WsTypes
<1>b. Cardinality(Threads) \in Nat /\ IsFiniteSet(Threads)
  BY OscWsAssumption, FS_Subset, FS_CardinalityType DEF Threads
<1> USE OscHttpAssumption
<1>1. CASE Start
  <2>1. Threads' = Threads
    BY <1>1, <1>a DEF Start, Threads
  <2> QED
    BY <1>1, <1>b, <2>1 DEF Start, Limit, httpVars, Server
<1>2. CASE StopBegin
  <2>1. Threads' = Threads
    BY <1>2, <1>a DEF StopBegin, Threads
  <2> QED
    BY <1>2, <1>b, <2>1 DEF StopBegin, Limit, httpVars
<1>3. CASE StopUnlisten
  <2>1. Threads' = Threads
    BY <1>3, <1>a DEF StopUnlisten, CloseFd, WokenAccept, Threads
  <2> QED
    BY <1>3, <1>b, <2>1 DEF StopUnlisten, WokenAccept, Limit, httpVars
<1>4. CASE StopJoin
  <2>1. Threads' = Threads
    BY <1>4, <1>a DEF StopJoin, AcceptEnded, Threads
  <2> QED
    BY <1>4, <1>b, <2>1 DEF StopJoin, AcceptEnded, Limit, httpVars
<1>5. CASE Collect /\ UNCHANGED httpVars
  <2>1. Threads' = Threads
    BY <1>5, <1>a DEF Collect, Threads
  <2> QED
    BY <1>5, <1>b, <2>1 DEF Collect, Limit, httpVars
<1>6. ASSUME NEW c \in Clients, ShutdownDrop(c), UNCHANGED httpVars
      PROVE  Limit'
  <2>1. Threads' = Threads
    BY <1>6, <1>a DEF ShutdownDrop, Without, Threads
  <2> QED
    BY <1>6, <1>b, <2>1 DEF ShutdownDrop, Without, Limit, httpVars
<1>7. ASSUME NEW c \in Clients, ShutdownClose(c), UNCHANGED httpVars
      PROVE  Limit'
  <2>1. CloseConn(c, thr)
    BY <1>7 DEF ShutdownClose
  <2>2. thr \in [Clients -> ThreadStates]
    BY <1>a DEF ThreadStates
  <2>3. \A d \in Clients : Wakes(thr[d], thr'[d])
    BY <2>1, <2>2, CloseConnEffect
  <2>4. Threads' = Threads
    BY <1>7, <1>a, <2>3 DEF ShutdownClose, Wakes, Threads
  <2> QED
    BY <1>7, <1>b, <2>4 DEF Limit, httpVars
<1>8. CASE ShutdownReturn /\ UNCHANGED httpVars
  <2>1. Threads' = Threads
    BY <1>8, <1>a DEF ShutdownReturn, Threads
  <2> QED
    BY <1>8, <1>b, <2>1 DEF ShutdownReturn, Limit, httpVars
<1>9. CASE AcceptCheck
  <2>1. Threads' = Threads
    BY <1>9, <1>a DEF AcceptCheck, AcceptGoes, Threads
  <2> QED
    BY <1>9, <1>b, <2>1 DEF AcceptCheck, AcceptGoes, Limit, httpVars
<1>10. CASE AcceptCall
  <2>1. Threads' = Threads
    BY <1>10, <1>a DEF AcceptCall, AcceptGoes, Threads
  <2> QED
    BY <1>10, <1>b, <2>1 DEF AcceptCall, AcceptGoes, Limit, httpVars
<1>11. CASE AcceptClient
  <2>1. Threads' = Threads
    BY <1>11, <1>a DEF AcceptClient, Goes, Threads
  <2> QED
    BY <1>11, <1>b, <2>1 DEF AcceptClient, Goes, Limit, httpVars
<1>12. CASE AcceptFails
  <2>1. Threads' = Threads
    BY <1>12, <1>a DEF AcceptFails, AcceptGoes, Threads
  <2> QED
    BY <1>12, <1>b, <2>1 DEF AcceptFails, AcceptGoes, Limit, httpVars
<1>13. CASE AcceptGot
  <2>1. Threads' = Threads
    BY <1>13, <1>a DEF AcceptGot, Goes, AcceptGoes, Threads, Server, Accepting
  <2> QED
    BY <1>13, <1>b, <2>1 DEF AcceptGot, Goes, AcceptGoes, Limit, httpVars
<1>14. CASE AcceptCount
  <2>1. Threads' = Threads
    BY <1>14, <1>a DEF AcceptCount, AcceptGoes, Full, Threads
  <2> QED
    BY <1>14, <1>b, <2>1 DEF AcceptCount, AcceptGoes, Full, Limit, httpVars
<1>15. CASE AcceptSpawn
  <2>1. Threads' = Threads \cup {client} /\ client \notin Threads
    BY <1>15, <1>a DEF AcceptSpawn, Goes, Threads, Server, Accepting
  <2>2. Cardinality(Threads') = Cardinality(Threads) + 1
    BY <1>b, <2>1, FS_AddElement
  <2> QED
    BY <1>15, <1>b, <2>2 DEF AcceptSpawn, AcceptGoes, Limit
<1>16. CASE AcceptUncount
  <2>1. Threads' = Threads
    BY <1>16, <1>a DEF AcceptUncount, AcceptGoes, Threads
  <2> QED
    BY <1>16, <1>b, <2>1 DEF AcceptUncount, AcceptGoes, Limit, httpVars
<1>17. CASE AcceptRefuse
  <2>1. Threads' = Threads
    BY <1>17, <1>a DEF AcceptRefuse, Goes, AcceptGoes, CloseFd, Threads, Server, Accepting
  <2> QED
    BY <1>17, <1>b, <2>1 DEF AcceptRefuse, Goes, AcceptGoes, Limit, httpVars
<1>18. ASSUME NEW c \in Clients, Request(c)
      PROVE  Limit'
  <2>1. Threads' = Threads
    BY <1>18, <1>a DEF Request, Goes, Threads
  <2> QED
    BY <1>18, <1>b, <2>1 DEF Request, Goes, Limit, httpVars
<1>19. ASSUME NEW c \in Clients, Lookup(c)
      PROVE  Limit'
  <2>1. Threads' = Threads
    BY <1>19, <1>a DEF Lookup, Goes, Threads
  <2> QED
    BY <1>19, <1>b, <2>1 DEF Lookup, Goes, Limit, httpVars
<1>20. ASSUME NEW c \in Clients, Respond(c)
      PROVE  Limit'
  <2>1. Threads' = Threads
    BY <1>20, <1>a DEF Respond, Goes, CloseFd, Threads
  <2> QED
    BY <1>20, <1>b, <2>1 DEF Respond, Goes, Limit, httpVars
<1>21. ASSUME NEW c \in Clients, CountOut(c)
      PROVE  Limit'
  <2>1. Threads' = Threads \ {c} /\ c \in Threads
    BY <1>21, <1>a DEF CountOut, Goes, Threads
  <2>2. Cardinality(Threads') = Cardinality(Threads) - 1
    BY <1>b, <2>1, FS_RemoveElement
  <2> QED
    BY <1>21, <1>b, <2>2 DEF CountOut, CountedOut, Limit
<1>22. ASSUME NEW c \in Clients, Handshake(c), UNCHANGED httpVars
      PROVE  Limit'
  <2>1. Threads' = Threads
    BY <1>22, <1>a DEF Handshake, Goes, CloseFd, Threads
  <2> QED
    BY <1>22, <1>b, <2>1 DEF Handshake, Goes, Limit, httpVars
<1>23. ASSUME NEW c \in Clients, Register(c), UNCHANGED httpVars
      PROVE  Limit'
  <2>1. Threads' = Threads
    BY <1>23, <1>a DEF Register, Goes, Threads
  <2> QED
    BY <1>23, <1>b, <2>1 DEF Register, Goes, Limit, httpVars
<1>24. ASSUME NEW c \in Clients, Read(c), UNCHANGED httpVars
      PROVE  Limit'
  <2>1. Threads' = Threads
    BY <1>24, <1>a DEF Read, Goes, Threads
  <2> QED
    BY <1>24, <1>b, <2>1 DEF Read, Goes, Limit, httpVars
<1>25. ASSUME NEW c \in Clients, Receive(c), UNCHANGED httpVars
      PROVE  Limit'
  <2>1. Threads' = Threads
    BY <1>25, <1>a DEF Receive, Goes, Threads
  <2> QED
    BY <1>25, <1>b, <2>1 DEF Receive, Goes, Limit, httpVars
<1>26. ASSUME NEW c \in Clients, Text(c), UNCHANGED httpVars
      PROVE  Limit'
  <2>1. Threads' = Threads
    BY <1>26, <1>a DEF Text, Goes, Threads
  <2> QED
    BY <1>26, <1>b, <2>1 DEF Text, Goes, Limit, httpVars
<1>27. ASSUME NEW c \in Clients, Answer(c), UNCHANGED httpVars
      PROVE  Limit'
  <2>1. Threads' = Threads
    BY <1>27, <1>a DEF Answer, Goes, Lock, MutexFree, MaySend, Threads
  <2> QED
    BY <1>27, <1>b, <2>1 DEF Answer, Goes, Lock, MaySend, Limit, httpVars
<1>28. ASSUME NEW c \in Clients, Answered(c), UNCHANGED httpVars
      PROVE  Limit'
  <2>1. Threads' = Threads
    BY <1>28, <1>a DEF Answered, Goes, Unlock, UnlockBroken, Threads
  <2> QED
    BY <1>28, <1>b, <2>1 DEF Answered, Goes, Unlock, UnlockBroken, Limit, httpVars
<1>29. ASSUME NEW c \in Clients, Drop(c), UNCHANGED httpVars
      PROVE  Limit'
  <2>1. Threads' = Threads
    BY <1>29, <1>a DEF Drop, Goes, Without, Threads
  <2> QED
    BY <1>29, <1>b, <2>1 DEF Drop, Goes, Without, Limit, httpVars
<1>30. ASSUME NEW c \in Clients, Unmap(c), UNCHANGED httpVars
      PROVE  Limit'
  <2>1. Threads' = Threads
    BY <1>30, <1>a DEF Unmap, Goes, Threads
  <2> QED
    BY <1>30, <1>b, <2>1 DEF Unmap, Goes, Limit, httpVars
<1>31. ASSUME NEW c \in Clients, Close(c), UNCHANGED httpVars
      PROVE  Limit'
  <2>1. CloseConn(c, [thr EXCEPT ![c] = "count"])
    BY <1>31 DEF Close
  <2>2. [thr EXCEPT ![c] = "count"] \in [Clients -> ThreadStates]
    BY <1>a DEF ThreadStates
  <2>3. \A d \in Clients : Wakes([thr EXCEPT ![c] = "count"][d], thr'[d])
    BY <2>1, <2>2, CloseConnEffect
  <2>4. Threads' = Threads
    BY <1>31, <1>a, <2>3 DEF Close, Wakes, Threads
  <2> QED
    BY <1>31, <1>b, <2>4 DEF Limit, httpVars
<1>32. ASSUME NEW p \in Publishers, Pick(p), UNCHANGED httpVars
      PROVE  Limit'
  <2>1. Threads' = Threads
    BY <1>32, <1>a DEF Pick, PubGoes, Threads
  <2> QED
    BY <1>32, <1>b, <2>1 DEF Pick, PubGoes, Limit, httpVars
<1>33. ASSUME NEW p \in Publishers, Find(p), UNCHANGED httpVars
      PROVE  Limit'
  <2>1. Threads' = Threads
    BY <1>33, <1>a DEF Find, PubGoes, Idle, Threads
  <2> QED
    BY <1>33, <1>b, <2>1 DEF Find, PubGoes, Idle, Limit, httpVars
<1>34. ASSUME NEW p \in Publishers, SendFrame(p), UNCHANGED httpVars
      PROVE  Limit'
  <2>1. Threads' = Threads
    BY <1>34, <1>a DEF SendFrame, PubGoes, Lock, MutexFree, MaySend, Idle, Threads
  <2> QED
    BY <1>34, <1>b, <2>1 DEF SendFrame, PubGoes, Lock, MaySend, Idle, Limit, httpVars
<1>35. ASSUME NEW p \in Publishers, Sent(p), UNCHANGED httpVars
      PROVE  Limit'
  <2>1. Threads' = Threads
    BY <1>35, <1>a DEF Sent, PubGoes, Unlock, UnlockBroken, Idle, Threads
  <2> QED
    BY <1>35, <1>b, <2>1 DEF Sent, PubGoes, Unlock, UnlockBroken, Idle, Limit, httpVars
<1>36. CASE UNCHANGED vars
  <2>1. Threads' = Threads
    BY <1>36 DEF vars, wsVars, Threads
  <2> QED
    BY <1>36, <2>1 DEF vars, httpVars, Limit
<1> QED
  BY <1>1, <1>2, <1>3, <1>4, <1>5, <1>6, <1>7, <1>8, <1>9, <1>10, <1>11, <1>12, <1>13, <1>14, <1>15, <1>16, <1>17, <1>18, <1>19, <1>20, <1>21, <1>22, <1>23, <1>24, <1>25, <1>26, <1>27, <1>28, <1>29, <1>30, <1>31, <1>32, <1>33, <1>34, <1>35, <1>36
     DEF Next, Stop, ShutdownAll, AcceptLoop, HandleClient, Serve, Publisher, SendBinary

-----------------------------------------------------------------------------
LEMMA ListenersLimitInit ==
  ASSUME Init
  PROVE  ListenersAlive /\ Limit
<1>1. ListenersAlive
  BY DEF Init, WsInit, ListenersAlive
<1>2. Threads = {}
  BY DEF Init, WsInit, Threads
<1> QED
  BY <1>1, <1>2, FS_EmptySet, OscHttpAssumption DEF Init, Limit

HttpInv == WsTypes /\ Sockets /\ Server /\ Senders /\ ListenersAlive /\ Limit

\* Over any number of restarts, the descriptors, write mutexes, registrations
\* and counters of the HTTP server agree with each other.
THEOREM HttpInvAlways == Spec => []HttpInv
<1>1. Init => HttpInv
  BY HttpInit, ListenersLimitInit DEF HttpInv
<1>2. HttpInv /\ [Next]_vars => HttpInv'
  <2> SUFFICES ASSUME HttpInv, [Next]_vars
               PROVE  HttpInv'
    OBVIOUS
  <2>1. WsTypes'
    BY TypesStep DEF HttpInv
  <2>2. Sockets' /\ Server' /\ Senders'
    BY <2>1, SocketsStep, ServerStep, SendersStep DEF HttpInv
  <2>3. ListenersAlive' /\ Limit'
    BY <2>1, ListenersStep, LimitStep DEF HttpInv
  <2> QED
    BY <2>1, <2>2, <2>3 DEF HttpInv
<1> QED
  BY <1>1, <1>2, PTL DEF Spec

\* No thread closes, reads the request from or writes to a descriptor that has
\* become somebody else's.
THEOREM SocketsOwnedAlways == Spec => []SocketsOwned
<1>1. HttpInv => SocketsOwned
  BY DEF HttpInv, Sockets, SocketOK, Senders, SocketsOwned, Early, Sending
<1> QED
  BY <1>1, HttpInvAlways, PTL

\* Whoever is inside send_frame() for a connection is there alone: frames of
\* publishers and the answers of the connection's thread are never mixed.
THEOREM FramesWholeAlways == Spec => []FramesWhole
<1>1. HttpInv => FramesWhole
  <2> SUFFICES ASSUME HttpInv, NEW c \in Clients
               PROVE  Cardinality({p \in Publishers : pub[p].pc = "send" /\ pub[p].conn = c})
                        + (IF thr[c] \in {"sendPing", "sendBye"} THEN 1 ELSE 0)
                      = (IF conn[c].locked THEN 1 ELSE 0)
    BY DEF FramesWhole
  <2> DEFINE inside == {p \in Publishers : pub[p].pc = "send" /\ pub[p].conn = c}
  <2> USE DEF HttpInv, Senders, Sending
  <2>1. CASE ~conn[c].locked
    <3>1. inside = {} /\ thr[c] \notin Sending
      BY <2>1
    <3>2. Cardinality(inside) = 0
      BY <3>1, FS_EmptySet
    <3> QED
      BY <2>1, <3>1, <3>2
  <2>2. CASE thr[c] \in Sending
    <3>1. inside = {} /\ conn[c].locked
      BY <2>2
    <3> QED
      BY <2>2, <3>1, FS_EmptySet
  <2>3. CASE conn[c].locked /\ thr[c] \notin Sending
    <3>1. PICK p \in Publishers : pub[p].pc = "send" /\ pub[p].conn = c
      BY <2>3
    <3>2. inside = {p}
      BY <3>1
    <3>3. Cardinality(inside) = 1
      BY <3>2, FS_Singleton
    <3> QED
      BY <2>3, <3>3
  <2> QED
    BY <2>1, <2>2, <2>3
<1> QED
  BY <1>1, HttpInvAlways, PTL

\* No LISTEN registration outlives its connection, although shutdown_all()
\* drops the registrations of connections whose threads may still add some.
THEOREM ListenersAliveAlways == Spec => []ListenersAlive
<1>1. HttpInv => ListenersAlive
  BY DEF HttpInv
<1> QED
  BY <1>1, HttpInvAlways, PTL

\* live_clients is the number of client threads, which never exceeds max_clients.
THEOREM ClientLimitAlways == Spec => []ClientLimit
<1>1. HttpInv => ClientLimit
  BY DEF HttpInv, Limit, ClientLimit
<1> QED
  BY <1>1, HttpInvAlways, PTL

=============================================================================
