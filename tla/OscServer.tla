----------------------------- MODULE OscServer -----------------------------
(***************************************************************************)
(* The UDP transport of the plugin (src/osc-server.cpp): one receive       *)
(* thread, one sender thread that drains a bounded queue, any number of    *)
(* publishing threads (OBS signal callbacks, the UI thread answering       *)
(* polls), and the UI thread that starts, stops and reconfigures it all.   *)
(*                                                                         *)
(* One action is one critical section, one system call or one thread       *)
(* operation, so every interleaving of the threads' unlocked steps is a    *)
(* behaviour.  The two mutexes are not variables: each is held across a    *)
(* step boundary at one place only, which TargetMutexFree and              *)
(* SendMutexFree name.  A local variable is cleared when the code is done  *)
(* with it.                                                                *)
(***************************************************************************)
EXTENDS Integers, Sequences, FiniteSets

CONSTANTS
    Publishers,   \* threads that call send_to, send_last and send_fixed
    Endpoints,    \* UDP peers
    Nobody,       \* no peer: have_sender or have_target is false
    Fds,          \* descriptor numbers of the process
    NoFd,         \* osc_net::invalid_socket
    MaxQueue,     \* max_send_queue
    MaxCalls,     \* bound: datagrams the publishers offer
    MaxOps,       \* bound: start() and set_feedback_target() calls
    MaxForeign    \* bound: descriptors other threads of the process open

ASSUME OscServerAssumption ==
    /\ Nobody \notin Endpoints
    /\ NoFd \notin Fds
    /\ IsFiniteSet(Publishers)
    /\ MaxQueue \in Nat \ {0}
    /\ MaxCalls \in Nat
    /\ MaxOps \in Nat
    /\ MaxForeign \in Nat

VARIABLES
    running, handler, fd, resolved_target, last_sender, send_running,
    send_queue,
    ctl,          \* where the UI thread is inside start/stop/set_feedback_target
    ctl_fd,       \* stop()'s local copy of the socket it closes
    sender,       \* where the sender thread is
    held,         \* the packet the sender thread popped
    sender_fd,    \* the socket it is about to send on
    receiver,     \* where the receive thread is
    receiver_fd,  \* the socket it calls recvfrom() on
    pub,          \* where each publishing thread is
    msg,          \* the datagram each publishing thread offers
    fds,          \* descriptor table: who owns each descriptor number
    ops,          \* counts towards MaxOps
    accepted,     \* history: datagrams pushed so far
    dropped,      \* history: datagrams the full queue gave up
    wire          \* history: what sendto() was called with, in order

uiVars     == <<ctl, ctl_fd, ops>>
stateVars  == <<running, handler, fd, resolved_target, last_sender>>
queueVars  == <<send_running, send_queue, accepted, dropped>>
senderVars == <<sender, held, sender_fd, wire>>
recvVars   == <<receiver, receiver_fd>>
pubVars    == <<pub, msg>>

vars == <<uiVars, stateVars, queueVars, senderVars, recvVars, pubVars, fds>>

-----------------------------------------------------------------------------

Via == {"to", "last", "fixed"}

Datagram == [to : Endpoints, via : Via]

\* out_packet; seq is a history field, the position in the order of pushes.
Packet == [to : Endpoints, via : Via, seq : Nat]

CtlStates ==
    {"idle", "start_send", "start_threads", "stop_send", "stop_notify",
     "join_send", "snap_fd", "close", "join_recv", "forget", "clear",
     "resolving"}

SenderStates == {"none", "check", "asleep", "popped", "sendto", "done"}

RecvStates ==
    {"none", "loop", "snap", "call", "blocked", "woken", "got", "handle", "done"}

PubStates == {"idle", "snap", "push", "notify"}

FlagsOK ==
    /\ running \in BOOLEAN
    /\ handler \in BOOLEAN
    /\ send_running \in BOOLEAN

DataOK ==
    /\ fd \in Fds \cup {NoFd}
    /\ resolved_target \in Endpoints \cup {Nobody}
    /\ last_sender \in Endpoints \cup {Nobody}
    /\ send_queue \in Seq(Packet)
    /\ ctl \in CtlStates
    /\ ctl_fd \in Fds \cup {NoFd}
    /\ sender \in SenderStates
    /\ held \in Packet \cup {Nobody}
    /\ sender_fd \in Fds \cup {NoFd}
    /\ receiver \in RecvStates
    /\ receiver_fd \in Fds \cup {NoFd}
    /\ pub \in [Publishers -> PubStates]
    /\ msg \in [Publishers -> Datagram \cup {Nobody}]
    /\ fds \in [Fds -> {"free", "udp", "foreign"}]
    /\ ops \in Nat
    /\ accepted \in Nat
    /\ dropped \in Nat
    /\ wire \in Seq(Packet)

TypeOK == FlagsOK /\ DataOK

Init ==
    /\ running = FALSE
    /\ handler = FALSE
    /\ fd = NoFd
    /\ resolved_target = Nobody
    /\ last_sender = Nobody
    /\ send_running = FALSE
    /\ send_queue = <<>>
    /\ ctl = "idle"
    /\ ctl_fd = NoFd
    /\ sender = "none"
    /\ held = Nobody
    /\ sender_fd = NoFd
    /\ receiver = "none"
    /\ receiver_fd = NoFd
    /\ pub = [p \in Publishers |-> "idle"]
    /\ msg = [p \in Publishers |-> Nobody]
    /\ fds = [f \in Fds |-> "free"]
    /\ ops = 0
    /\ accepted = 0
    /\ dropped = 0
    /\ wire = <<>>

\* set_feedback_target() resolves the host with target_mutex held.
TargetMutexFree == ctl # "resolving"

\* send_loop() takes target_mutex with send_mutex held.
SendMutexFree == sender # "popped"

-----------------------------------------------------------------------------
(***************************************************************************)
(* The UI thread.  A start() that cannot bind, or that finds the transport *)
(* running, changes nothing and is not an action.                          *)
(***************************************************************************)

StartListen ==
    /\ ctl = "idle"
    /\ ~running
    /\ ops < MaxOps
    /\ \E f \in Fds :
        /\ fds[f] = "free"
        /\ fds' = [fds EXCEPT ![f] = "udp"]
        /\ fd' = f
    /\ handler' = TRUE
    /\ running' = TRUE
    /\ ops' = ops + 1
    /\ ctl' = "start_send"
    /\ UNCHANGED <<ctl_fd, resolved_target, last_sender, queueVars,
                   senderVars, recvVars, pubVars>>

StartSend ==
    /\ ctl = "start_send"
    /\ SendMutexFree
    /\ send_running' = TRUE
    /\ ctl' = "start_threads"
    /\ UNCHANGED <<ctl_fd, ops, stateVars, send_queue, accepted, dropped,
                   senderVars, recvVars, pubVars, fds>>

StartThreads ==
    /\ ctl = "start_threads"
    /\ sender' = "check"
    /\ receiver' = "loop"
    /\ ctl' = "idle"
    /\ UNCHANGED <<ctl_fd, ops, stateVars, queueVars, held, sender_fd, wire,
                   receiver_fd, pubVars, fds>>

\* running_.exchange(false)
StopBegin ==
    /\ ctl = "idle"
    /\ running
    /\ running' = FALSE
    /\ ctl' = "stop_send"
    /\ UNCHANGED <<ctl_fd, ops, handler, fd, resolved_target, last_sender,
                   queueVars, senderVars, recvVars, pubVars, fds>>

StopSend ==
    /\ ctl = "stop_send"
    /\ SendMutexFree
    /\ send_running' = FALSE
    /\ ctl' = "stop_notify"
    /\ UNCHANGED <<ctl_fd, ops, stateVars, send_queue, accepted, dropped,
                   senderVars, recvVars, pubVars, fds>>

\* Mutant: the notification is lost.
MutantNoWake == sender

\* What notify_one() and notify_all() make of the sender thread.
Woken == IF sender = "asleep" THEN "check" ELSE sender

StopNotify ==
    /\ ctl = "stop_notify"
    /\ sender' = Woken
    /\ ctl' = "join_send"
    /\ UNCHANGED <<ctl_fd, ops, stateVars, queueVars, held, sender_fd, wire,
                   recvVars, pubVars, fds>>

\* Mutant: the sender thread is not waited for.
MutantNoJoin ==
    /\ ctl = "join_send"
    /\ ctl' = "snap_fd"
    /\ UNCHANGED <<ctl_fd, ops, stateVars, queueVars, senderVars, recvVars,
                   pubVars, fds>>

StopJoinSender ==
    /\ ctl = "join_send"
    /\ sender = "done"
    /\ sender' = "none"
    /\ ctl' = "snap_fd"
    /\ UNCHANGED <<ctl_fd, ops, stateVars, queueVars, held, sender_fd, wire,
                   recvVars, pubVars, fds>>

\* Mutant: the handler goes away before the receive thread is joined.
MutantEarlyHandler ==
    /\ ctl = "snap_fd"
    /\ ctl_fd' = fd
    /\ fd' = NoFd
    /\ handler' = FALSE
    /\ ctl' = "close"
    /\ UNCHANGED <<ops, running, resolved_target, last_sender, queueVars,
                   senderVars, recvVars, pubVars, fds>>

StopInvalidate ==
    /\ ctl = "snap_fd"
    /\ ctl_fd' = fd
    /\ fd' = NoFd
    /\ ctl' = "close"
    /\ UNCHANGED <<ops, running, handler, resolved_target, last_sender,
                   queueVars, senderVars, recvVars, pubVars, fds>>

\* shutdown() wakes a thread already blocked in recvfrom(); close() then
\* gives the descriptor number back to the process.
StopClose ==
    /\ ctl = "close"
    /\ fds' = [fds EXCEPT ![ctl_fd] = "free"]
    /\ IF receiver = "blocked" /\ receiver_fd = ctl_fd
       THEN receiver' = "woken" /\ receiver_fd' = NoFd
       ELSE UNCHANGED recvVars
    /\ ctl_fd' = NoFd
    /\ ctl' = "join_recv"
    /\ UNCHANGED <<ops, stateVars, queueVars, senderVars, pubVars>>

StopJoinReceiver ==
    /\ ctl = "join_recv"
    /\ receiver = "done"
    /\ receiver' = "none"
    /\ handler' = FALSE
    /\ ctl' = "forget"
    /\ UNCHANGED <<ctl_fd, ops, running, fd, resolved_target, last_sender,
                   queueVars, senderVars, receiver_fd, pubVars, fds>>

\* Mutant: the last sender survives a restart.
MutantKeepsSender ==
    /\ ctl = "forget"
    /\ ctl' = "clear"
    /\ UNCHANGED <<ctl_fd, ops, stateVars, queueVars, senderVars, recvVars,
                   pubVars, fds>>

StopForget ==
    /\ ctl = "forget"
    /\ last_sender' = Nobody
    /\ ctl' = "clear"
    /\ UNCHANGED <<ctl_fd, ops, running, handler, fd, resolved_target,
                   queueVars, senderVars, recvVars, pubVars, fds>>

StopClear ==
    /\ ctl = "clear"
    /\ SendMutexFree
    /\ send_queue' = <<>>
    /\ ctl' = "idle"
    /\ UNCHANGED <<ctl_fd, ops, stateVars, send_running, accepted, dropped,
                   senderVars, recvVars, pubVars, fds>>

TargetBegin ==
    /\ ctl = "idle"
    /\ ops < MaxOps
    /\ resolved_target' = Nobody
    /\ ops' = ops + 1
    /\ ctl' = "resolving"
    /\ UNCHANGED <<ctl_fd, running, handler, fd, last_sender, queueVars,
                   senderVars, recvVars, pubVars, fds>>

\* Nobody: the host is empty, the port is out of range or the name does not
\* resolve.
TargetEnd ==
    /\ ctl = "resolving"
    /\ resolved_target' \in Endpoints \cup {Nobody}
    /\ ctl' = "idle"
    /\ UNCHANGED <<ctl_fd, ops, running, handler, fd, last_sender, queueVars,
                   senderVars, recvVars, pubVars, fds>>

UiThread ==
    \/ StartListen \/ StartSend \/ StartThreads
    \/ StopBegin \/ StopSend \/ StopNotify \/ StopJoinSender
    \/ StopInvalidate \/ StopClose \/ StopJoinReceiver
    \/ StopForget \/ StopClear
    \/ TargetBegin \/ TargetEnd

-----------------------------------------------------------------------------
(***************************************************************************)
(* Publishing threads.                                                     *)
(***************************************************************************)

MayOffer(p) ==
    /\ pub[p] = "idle"
    /\ accepted + Cardinality({q \in Publishers : pub[q] # "idle"}) < MaxCalls

Offer(p, e, via) ==
    /\ msg' = [msg EXCEPT ![p] = [to |-> e, via |-> via]]
    /\ pub' = [pub EXCEPT ![p] = "snap"]
    /\ UNCHANGED <<uiVars, stateVars, queueVars, senderVars, recvVars, fds>>

SendTo(p) ==
    /\ MayOffer(p)
    /\ \E e \in Endpoints : Offer(p, e, "to")

HaveSender == last_sender # Nobody

SendLast(p) ==
    /\ MayOffer(p)
    /\ TargetMutexFree
    /\ HaveSender
    /\ Offer(p, last_sender, "last")

SendFixed(p) ==
    /\ MayOffer(p)
    /\ TargetMutexFree
    /\ resolved_target # Nobody
    /\ Offer(p, resolved_target, "fixed")

\* enqueue() samples fd under target_mutex and gives up without a socket.
EnqueueSnapshot(p) ==
    /\ pub[p] = "snap"
    /\ TargetMutexFree
    /\ IF fd = NoFd
       THEN pub' = [pub EXCEPT ![p] = "idle"] /\ msg' = [msg EXCEPT ![p] = Nobody]
       ELSE pub' = [pub EXCEPT ![p] = "push"] /\ UNCHANGED msg
    /\ UNCHANGED <<uiVars, stateVars, queueVars, senderVars, recvVars, fds>>

\* Mutant: the bound is off by one.
MutantFull == Len(send_queue) > MaxQueue

Full == Len(send_queue) >= MaxQueue

\* Mutant: the newest queued datagram makes room, not the oldest.
MutantDropNewest ==
    IF Full THEN SubSeq(send_queue, 1, Len(send_queue) - 1) ELSE send_queue

Kept == IF Full THEN Tail(send_queue) ELSE send_queue

EnqueueRefused(p) ==
    /\ pub[p] = "push"
    /\ SendMutexFree
    /\ ~send_running
    /\ pub' = [pub EXCEPT ![p] = "idle"]
    /\ msg' = [msg EXCEPT ![p] = Nobody]
    /\ UNCHANGED <<uiVars, stateVars, queueVars, senderVars, recvVars, fds>>

EnqueuePush(p) ==
    /\ pub[p] = "push"
    /\ SendMutexFree
    /\ send_running
    /\ send_queue' = Append(Kept, [to  |-> msg[p].to, via |-> msg[p].via,
                                   seq |-> accepted + 1])
    /\ dropped' = IF Full THEN dropped + 1 ELSE dropped
    /\ accepted' = accepted + 1
    /\ pub' = [pub EXCEPT ![p] = "notify"]
    /\ msg' = [msg EXCEPT ![p] = Nobody]
    /\ UNCHANGED <<uiVars, stateVars, send_running, senderVars, recvVars, fds>>

EnqueueNotify(p) ==
    /\ pub[p] = "notify"
    /\ sender' = Woken
    /\ pub' = [pub EXCEPT ![p] = "idle"]
    /\ UNCHANGED <<uiVars, stateVars, queueVars, held, sender_fd, wire,
                   recvVars, msg, fds>>

Enqueue(p) ==
    EnqueueSnapshot(p) \/ EnqueueRefused(p) \/ EnqueuePush(p) \/ EnqueueNotify(p)

Publisher(p) == SendTo(p) \/ SendLast(p) \/ SendFixed(p) \/ Enqueue(p)

-----------------------------------------------------------------------------
(***************************************************************************)
(* The sender thread, send_loop().                                         *)
(***************************************************************************)

SenderPop ==
    /\ sender = "check"
    /\ send_queue # <<>>
    /\ held' = Head(send_queue)
    /\ send_queue' = Tail(send_queue)
    /\ sender' = "popped"
    /\ UNCHANGED <<uiVars, stateVars, send_running, accepted, dropped,
                   sender_fd, wire, recvVars, pubVars, fds>>

\* The wait on send_cv: the predicate is false, the mutex is released.
SenderWait ==
    /\ sender = "check"
    /\ send_queue = <<>>
    /\ send_running
    /\ sender' = "asleep"
    /\ UNCHANGED <<uiVars, stateVars, queueVars, held, sender_fd, wire,
                   recvVars, pubVars, fds>>

\* A condition variable may wake with no notification.
SenderSpurious ==
    /\ sender = "asleep"
    /\ sender' = "check"
    /\ UNCHANGED <<uiVars, stateVars, queueVars, held, sender_fd, wire,
                   recvVars, pubVars, fds>>

\* Mutant: the loop ends as soon as send_running is false.
MutantNoDrain == TRUE

Drained == send_queue = <<>>

SenderExit ==
    /\ sender = "check"
    /\ Drained
    /\ ~send_running
    /\ sender' = "done"
    /\ UNCHANGED <<uiVars, stateVars, queueVars, held, sender_fd, wire,
                   recvVars, pubVars, fds>>

SenderSnapshot ==
    /\ sender = "popped"
    /\ TargetMutexFree
    /\ sender_fd' = fd
    /\ sender' = "sendto"
    /\ UNCHANGED <<uiVars, stateVars, queueVars, held, wire, recvVars,
                   pubVars, fds>>

SenderSend ==
    /\ sender = "sendto"
    /\ wire' = IF sender_fd = NoFd THEN wire ELSE Append(wire, held)
    /\ held' = Nobody
    /\ sender_fd' = NoFd
    /\ sender' = "check"
    /\ UNCHANGED <<uiVars, stateVars, queueVars, recvVars, pubVars, fds>>

SenderStep ==
    SenderPop \/ SenderWait \/ SenderExit \/ SenderSnapshot \/ SenderSend

-----------------------------------------------------------------------------
(***************************************************************************)
(* The receive thread, recv_loop().                                        *)
(***************************************************************************)

RecvMove(to) ==
    /\ receiver' = to
    /\ receiver_fd' = IF to = "blocked" THEN receiver_fd ELSE NoFd
    /\ UNCHANGED <<uiVars, stateVars, queueVars, senderVars, pubVars, fds>>

RecvLoop ==
    /\ receiver = "loop"
    /\ RecvMove(IF running THEN "snap" ELSE "done")

RecvSnapshot ==
    /\ receiver = "snap"
    /\ TargetMutexFree
    /\ receiver_fd' = fd
    /\ receiver' = IF fd = NoFd THEN "done" ELSE "call"
    /\ UNCHANGED <<uiVars, stateVars, queueVars, senderVars, pubVars, fds>>

\* recvfrom() on a closed descriptor fails at once; on an open one, whoever
\* owns it by now, it blocks.
RecvCall ==
    /\ receiver = "call"
    /\ RecvMove(IF fds[receiver_fd] = "free" THEN "woken" ELSE "blocked")

\* An empty datagram, or an error: n <= 0.
RecvNothing ==
    /\ receiver = "blocked"
    /\ RecvMove("woken")

RecvWoken ==
    /\ receiver = "woken"
    /\ RecvMove(IF running THEN "loop" ELSE "done")

RecvDatagram ==
    /\ receiver = "blocked"
    /\ RecvMove("got")

\* last_sender and have_sender under target_mutex.
RecvRemember ==
    /\ receiver = "got"
    /\ TargetMutexFree
    /\ last_sender' \in Endpoints
    /\ receiver' = "handle"
    /\ UNCHANGED <<uiVars, running, handler, fd, resolved_target, queueVars,
                   senderVars, receiver_fd, pubVars, fds>>

\* handler_ only parses and queues work for the UI thread.
RecvHandle ==
    /\ receiver = "handle"
    /\ RecvMove("loop")

ReceiverStep ==
    \/ RecvLoop \/ RecvSnapshot \/ RecvCall
    \/ RecvWoken \/ RecvRemember \/ RecvHandle

-----------------------------------------------------------------------------

\* Any other thread of the process opens a socket or a file and is given a
\* free descriptor number.
ForeignOpen ==
    /\ Cardinality({f \in Fds : fds[f] = "foreign"}) < MaxForeign
    /\ \E f \in Fds :
        /\ fds[f] = "free"
        /\ fds' = [fds EXCEPT ![f] = "foreign"]
    /\ UNCHANGED <<uiVars, stateVars, queueVars, senderVars, recvVars, pubVars>>

Next ==
    \/ UiThread
    \/ \E p \in Publishers : Publisher(p)
    \/ SenderStep
    \/ SenderSpurious
    \/ ReceiverStep
    \/ RecvNothing
    \/ RecvDatagram
    \/ ForeignOpen

Spec == Init /\ [][Next]_vars

(***************************************************************************)
(* The scheduler keeps running every thread that can run.  Nobody has to   *)
(* call start(), stop() or a send; no datagram has to arrive; no spurious  *)
(* wakeup has to happen.  A name lookup returns or times out.              *)
(***************************************************************************)
Fairness ==
    /\ WF_vars(UiThread /\ ctl # "idle")
    /\ WF_vars(SenderStep)
    /\ WF_vars(ReceiverStep)
    /\ \A p \in Publishers : WF_vars(Enqueue(p))

FairSpec == Spec /\ Fairness

-----------------------------------------------------------------------------
(***************************************************************************)
(* Properties.                                                             *)
(***************************************************************************)

Holding == sender \in {"popped", "sendto"}

\* The sender thread never calls sendto() on a socket that stop() has closed,
\* nor on a number that now names somebody else's descriptor: stop() joins it
\* before it takes the socket away.
SenderOwnsSocket ==
    sender = "sendto" => sender_fd = fd /\ fd # NoFd /\ fds[fd] = "udp"

QueueBounded == Len(send_queue) <= MaxQueue

NewestWait ==
    \A i \in 1..Len(send_queue) :
        send_queue[i].seq = accepted - Len(send_queue) + i

SentInOrder ==
    \A i, j \in 1..Len(wire) : i < j => wire[i].seq < wire[j].seq

HeldIsNext ==
    /\ Holding => held.seq <= accepted - Len(send_queue)
    /\ \A i \in 1..Len(wire) :
          /\ wire[i].seq <= accepted - Len(send_queue)
          /\ Holding => wire[i].seq < held.seq

NumbersAddUp ==
    accepted = Len(wire) + (IF Holding THEN 1 ELSE 0) + Len(send_queue) + dropped

\* A datagram that was accepted leaves in order, once, and is lost to the full
\* queue only: what waits is always exactly the newest accepted datagrams
\* ("freshest state wins"), what was sent is in order and older, and the
\* numbers add up, across any number of stops and restarts.
Accounting ==
    QueueBounded /\ NewestWait /\ SentInOrder /\ HeldIsNext /\ NumbersAddUp

\* Once stop() has returned nothing of the run is left: no thread, no socket,
\* no handler, no last sender, and an empty queue.
Quiescent ==
    ctl = "idle" /\ ~running =>
        /\ sender = "none"
        /\ receiver = "none"
        /\ fd = NoFd
        /\ \A f \in Fds : fds[f] # "udp"
        /\ ~handler
        /\ last_sender = Nobody
        /\ send_queue = <<>>

\* The receive thread calls handler_ unlocked: it is there until the thread
\* has been joined.
HandlerOutlivesReceiver == receiver \in {"got", "handle"} => handler

\* stop() drains: by the time it closes the socket, and in particular when it
\* clears the queue, there is nothing left to clear.
StopDrains ==
    [][ (ctl \in {"join_send", "clear"} /\ ctl' # ctl)
          => send_queue = <<>> /\ Len(wire) + dropped = accepted ]_vars

\* A datagram that was accepted is sent or dropped by overflow, also when no
\* further datagram follows to wake the sender thread up again.
EveryAcceptedLeaves ==
    \A n \in 1..MaxCalls :
        accepted >= n ~>
            /\ \A i \in 1..Len(send_queue) : send_queue[i].seq # n
            /\ Holding => held.seq # n

\* stop() returns: both joins end.
StopReturns == ctl = "stop_send" ~> ctl = "idle"

\* The outbound side is a bounded channel that drops its oldest item when it
\* is full and closes only when it is empty: the clear() at the end of stop()
\* never throws anything away.
Channel == INSTANCE DropOldestChannel WITH
    Items     <- Packet,
    Capacity  <- MaxQueue,
    phase     <- IF send_running THEN "open"
                 ELSE IF sender \in {"none", "done"} THEN "closed" ELSE "draining",
    buffer    <- send_queue,
    outgoing  <- IF Holding THEN <<held>> ELSE <<>>,
    delivered <- wire

\* Every step of the transport is a step of that channel or leaves it alone.
ImplementsChannel == Channel!Spec

=============================================================================
