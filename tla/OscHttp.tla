------------------------------ MODULE OscHttp ------------------------------
(***************************************************************************)
(* The HTTP server of OSCQuery (src/osc-query-http.cpp) and the websocket  *)
(* connections it hands over to OscWs: an accept thread, a detached thread *)
(* per client up to a limit, and the UI thread that starts and stops it.   *)
(***************************************************************************)
EXTENDS OscWs

CONSTANTS
    MaxClients,   \* max_clients
    MaxStarts     \* bound: calls of osc_http_start()

ASSUME OscHttpAssumption == MaxClients \in Nat \ {0} /\ MaxStarts \in Nat

VARIABLES
    http_running,
    listen_fd,
    live_clients,
    accept,       \* where the accept thread is
    accept_fd,    \* its copy of the listening descriptor
    client,       \* the client it has accepted
    starts        \* counts towards MaxStarts

httpVars == <<http_running, listen_fd, live_clients, accept, accept_fd, client, starts>>
vars     == <<wsVars, httpVars>>

AcceptStates ==
    {"none", "check", "call", "blocked", "got", "count", "spawn",
     "uncount", "refuse", "done"}

Init ==
    /\ WsInit
    /\ http_running = FALSE
    /\ listen_fd = NoFd
    /\ live_clients = 0
    /\ accept = "none"
    /\ accept_fd = NoFd
    /\ client = Nobody
    /\ starts = 0

-----------------------------------------------------------------------------
(***************************************************************************)
(* The UI thread.                                                          *)
(***************************************************************************)

\* osc_http_start().  Nobody looks at what it sets before the accept thread
\* is there, so it is one step; when the port cannot be bound it changes nothing.
Start ==
    /\ ui = "idle"
    /\ ~http_running
    /\ starts < MaxStarts
    /\ starts' = starts + 1
    /\ \E f \in Fds :
        /\ fds[f] = Free
        /\ fds' = [fds EXCEPT ![f] = Listening]
        /\ listen_fd' = f
        /\ accept_fd' = f
    /\ http_running' = TRUE
    /\ accept' = "check"
    /\ UNCHANGED <<thr, sock, reading, connVars, pub, ui, dying, live_clients, client>>

\* osc_http_stop(), up to shutdown_all().
StopBegin ==
    /\ ui = "idle"
    /\ http_running
    /\ http_running' = FALSE
    /\ ui' = "collect"
    /\ UNCHANGED <<fds, thr, sock, reading, connVars, pub, dying, listen_fd,
                   live_clients, accept, accept_fd, client, starts>>

\* Mutant: close() without shutdown() leaves the accept thread waiting.
MutantWokenAccept == accept

WokenAccept == IF accept = "blocked" THEN "done" ELSE accept

\* close_wake() on the listening socket.
StopUnlisten ==
    /\ ui = "unlisten"
    /\ CloseFd(listen_fd)
    /\ listen_fd' = NoFd
    /\ accept' = WokenAccept
    /\ ui' = "join"
    /\ UNCHANGED <<thr, sock, reading, connVars, pub, dying, http_running,
                   live_clients, accept_fd, client, starts>>

\* Mutant: stop() waits for the threads of clients, too.
MutantJoinsClients == accept = "done" /\ live_clients = 0

AcceptEnded == accept = "done"

StopJoin ==
    /\ ui = "join"
    /\ AcceptEnded
    /\ accept_fd' = NoFd
    /\ ui' = "idle"
    /\ UNCHANGED <<fds, thr, sock, reading, connVars, pub, dying, http_running,
                   listen_fd, live_clients, accept, client, starts>>

Stop == StopUnlisten \/ StopJoin \/ (ShutdownAll /\ UNCHANGED httpVars)

-----------------------------------------------------------------------------
(***************************************************************************)
(* accept_loop().                                                          *)
(***************************************************************************)

AcceptGoes(next) ==
    /\ accept' = next
    /\ UNCHANGED <<sock, reading, connVars, pub, ui, dying, http_running, listen_fd,
                   accept_fd, starts>>

AcceptCheck ==
    /\ accept = "check"
    /\ AcceptGoes(IF http_running THEN "call" ELSE "done")
    /\ UNCHANGED <<fds, thr, live_clients, client>>

AcceptCall ==
    /\ accept = "call"
    /\ AcceptGoes(IF fds[accept_fd] = Listening THEN "blocked" ELSE "done")
    /\ UNCHANGED <<fds, thr, live_clients, client>>

\* A client connects and is given a descriptor.
AcceptClient ==
    /\ accept = "blocked"
    /\ \E c \in Clients, f \in Fds :
        /\ thr[c] = "none"
        /\ fds[f] = Free
        /\ fds' = [fds EXCEPT ![f] = c]
        /\ sock' = [sock EXCEPT ![c] = f]
        /\ client' = c
        /\ Goes(c, "accepted")
    /\ accept' = "got"
    /\ UNCHANGED <<reading, connVars, pub, ui, dying, http_running, listen_fd,
                   live_clients, accept_fd, starts>>

\* accept() fails, because a client has gone or there is no descriptor.
AcceptFails ==
    /\ accept = "blocked"
    /\ AcceptGoes("done")
    /\ UNCHANGED <<fds, thr, live_clients, client>>

\* A client that comes while the server stops is forgotten, not closed.
AcceptGot ==
    /\ accept = "got"
    /\ IF http_running
       THEN AcceptGoes("count") /\ UNCHANGED <<thr, client>>
       ELSE AcceptGoes("done") /\ Goes(client, "gone") /\ client' = Nobody
    /\ UNCHANGED <<fds, live_clients>>

\* Mutant: one client too many.
MutantFull == live_clients > MaxClients

Full == live_clients >= MaxClients

AcceptCount ==
    /\ accept = "count"
    /\ live_clients' = live_clients + 1
    /\ AcceptGoes(IF Full THEN "uncount" ELSE "spawn")
    /\ UNCHANGED <<fds, thr, client>>

AcceptSpawn ==
    /\ accept = "spawn"
    /\ Goes(client, "request")
    /\ client' = Nobody
    /\ AcceptGoes("check")
    /\ UNCHANGED <<fds, live_clients>>

AcceptUncount ==
    /\ accept = "uncount"
    /\ live_clients' = live_clients - 1
    /\ AcceptGoes("refuse")
    /\ UNCHANGED <<fds, thr, client>>

AcceptRefuse ==
    /\ accept = "refuse"
    /\ CloseFd(sock[client])
    /\ Goes(client, "gone")
    /\ client' = Nobody
    /\ AcceptGoes("check")
    /\ UNCHANGED live_clients

AcceptLoop ==
    \/ AcceptCheck \/ AcceptCall \/ AcceptGot \/ AcceptCount
    \/ AcceptSpawn \/ AcceptUncount \/ AcceptRefuse

-----------------------------------------------------------------------------
(***************************************************************************)
(* The thread of a client.                                                 *)
(***************************************************************************)

\* handle_client(): an upgrade, a GET whose path is looked up, or anything
\* else, an incomplete request included, which is answered at once.
Request(c) ==
    /\ thr[c] = "request"
    /\ \E next \in {"handshake", "lookup", "respond"} : Goes(c, next)
    /\ UNCHANGED <<fds, sock, reading, connVars, pub, ui, dying, httpVars>>

\* osc_ui_run() waits until the UI thread, which may be in osc_http_stop(),
\* has run the task.
Lookup(c) ==
    /\ thr[c] = "lookup"
    /\ ui = "idle"
    /\ Goes(c, "respond")
    /\ UNCHANGED <<fds, sock, reading, connVars, pub, ui, dying, httpVars>>

Respond(c) ==
    /\ thr[c] = "respond"
    /\ CloseFd(sock[c])
    /\ Goes(c, "count")
    /\ UNCHANGED <<sock, reading, connVars, pub, ui, dying, httpVars>>

\* Mutant: a websocket thread is not counted out.
MutantCountedOut(c) == IF conn[c] = NoConn THEN 1 ELSE 0

CountedOut(c) == 1

CountOut(c) ==
    /\ thr[c] = "count"
    /\ live_clients' = live_clients - CountedOut(c)
    /\ Goes(c, "gone")
    /\ UNCHANGED <<fds, sock, reading, connVars, pub, ui, dying, http_running,
                   listen_fd, accept, accept_fd, client, starts>>

HandleClient(c) ==
    \/ Request(c)
    \/ Lookup(c)
    \/ Respond(c)
    \/ CountOut(c)
    \/ Serve(c) /\ UNCHANGED httpVars

Publisher(p) == (Pick(p) \/ SendBinary(p)) /\ UNCHANGED httpVars

Next ==
    \/ Start \/ StopBegin \/ Stop
    \/ AcceptLoop \/ AcceptClient \/ AcceptFails
    \/ \E c \in Clients : HandleClient(c) \/ (Receive(c) /\ UNCHANGED httpVars)
    \/ \E p \in Publishers : Publisher(p)

Spec == Init /\ [][Next]_vars

(***************************************************************************)
(* Threads that can run do.  A send ends: the peer reads, or the           *)
(* connection breaks.  The UI thread in the end has a mutex that others    *)
(* take and release again and again, hence SF.  Nobody has to connect, to  *)
(* say anything, to publish or to stop the server.                         *)
(***************************************************************************)
Fairness ==
    /\ SF_vars(Stop)
    /\ WF_vars(AcceptLoop)
    /\ \A c \in Clients : WF_vars(HandleClient(c))
    /\ \A p \in Publishers : WF_vars(SendBinary(p) /\ UNCHANGED httpVars)

FairSpec == Spec /\ Fairness

-----------------------------------------------------------------------------

\* The threads of clients, however they end, are counted in and out exactly
\* once over any number of restarts, and there are never more than max_clients.
Threads == {c \in Clients : thr[c] \notin {"none", "accepted", "gone"}}

ClientLimit ==
    /\ Cardinality(Threads) <= MaxClients
    /\ live_clients =
         Cardinality(Threads) + (IF accept \in {"spawn", "uncount"} THEN 1 ELSE 0)

\* osc_http_stop() returns: it wakes the accept thread, and no lock it waits
\* for is held for ever.
HttpStopReturns == ui = "collect" ~> ui = "idle"

\* A request that needs the UI thread is answered, although the UI thread may
\* be stopping the server at that moment and wait for threads itself.
LookupsAnswered ==
    \A c \in Clients : thr[c] = "lookup" ~> thr[c] = "gone"

\* "Drops all of the connection's LISTEN registrations on exit and closes fd":
\* a websocket's descriptor is closed by the time its thread ends.
ServeClosesSocket ==
    \A c \in Clients :
        thr[c] = "gone" /\ conn[c] # NoConn => \A f \in Fds : fds[f] # c

=============================================================================
