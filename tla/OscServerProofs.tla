-------------------------- MODULE OscServerProofs --------------------------
(***************************************************************************)
(* What TLAPS proves of OscServer, for any number of publishing threads,   *)
(* endpoints and descriptors, any queue bound and any number of calls.     *)
(***************************************************************************)
EXTENDS OscServer, TLAPS

(***************************************************************************)
(* The strengthening.  TypeOK says nothing of which local variables are in *)
(* use, and Quiescent nothing of the steps inside start() and stop():      *)
(* Locals and Lifecycle do.                                                *)
(***************************************************************************)

\* A local variable holds a value where the code reads it.
Locals ==
    /\ \A p \in Publishers : pub[p] \in {"snap", "push"} => msg[p] \in Datagram
    /\ Holding => held \in Packet

TypeInv == TypeOK /\ Locals

Up == running /\ ctl \in {"idle", "resolving"}

Starting == ctl \in {"start_send", "start_threads"}

\* Inside stop(), up to and including the step that ends the sender thread.
StoppingSender == ctl \in {"stop_send", "stop_notify", "join_send"}

\* Inside stop(), up to and including the step that ends the receive thread.
StoppingReceiver == StoppingSender \/ ctl \in {"snap_fd", "close", "join_recv"}

SocketOpen == Up \/ Starting \/ StoppingSender \/ ctl = "snap_fd"

Lifecycle ==
    /\ Starting => running
    /\ running => Up \/ Starting
    /\ send_running <=> (Up \/ ctl \in {"start_threads", "stop_send"})
    /\ sender # "none" <=> (Up \/ StoppingSender)
    /\ receiver # "none" <=> (Up \/ StoppingReceiver)
    /\ handler <=> (Up \/ Starting \/ StoppingReceiver)
    /\ IF SocketOpen THEN fd \in Fds /\ fds[fd] = "udp" ELSE fd = NoFd
    /\ ctl = "close" => ctl_fd \in Fds
    /\ \A f \in Fds : fds[f] = "udp" => f = fd \/ (ctl = "close" /\ f = ctl_fd)
    /\ sender = "sendto" => sender_fd = fd
    /\ sender = "done" => ~send_running
    /\ ~send_running /\ sender \in {"none", "done"} => send_queue = <<>>
    /\ last_sender # Nobody => Up \/ StoppingReceiver \/ ctl = "forget"

Inv == TypeInv /\ Lifecycle

-----------------------------------------------------------------------------

USE OscServerAssumption

LEMMA FlagsInit == Init => FlagsOK
BY DEF Init, FlagsOK

LEMMA DataInit == Init => DataOK /\ Locals
BY DEF Init, DataOK, Locals, CtlStates, SenderStates, RecvStates, PubStates,
       Holding

\* Only the UI thread writes the flags.
LEMMA FlagsKept ==
  ASSUME \/ \E p \in Publishers : Publisher(p)
         \/ SenderStep \/ SenderSpurious \/ ReceiverStep
         \/ RecvNothing \/ RecvDatagram \/ ForeignOpen
         \/ UNCHANGED vars
  PROVE  UNCHANGED <<running, handler, send_running>>
<1> USE DEF vars, uiVars, stateVars, queueVars, senderVars, recvVars, pubVars
<1>1. CASE \E p \in Publishers : Publisher(p)
  BY <1>1 DEF Publisher, SendTo, SendLast, SendFixed, Offer, Enqueue,
     EnqueueSnapshot, EnqueueRefused, EnqueuePush, EnqueueNotify
<1>2. CASE SenderStep \/ SenderSpurious
  BY <1>2 DEF SenderStep, SenderPop, SenderWait, SenderSpurious, SenderExit,
     SenderSnapshot, SenderSend
<1>3. CASE ReceiverStep \/ RecvNothing \/ RecvDatagram
  BY <1>3 DEF ReceiverStep, RecvLoop, RecvSnapshot, RecvCall, RecvNothing,
     RecvWoken, RecvDatagram, RecvRemember, RecvHandle, RecvMove
<1>4. CASE ForeignOpen
  BY <1>4 DEF ForeignOpen
<1>5. CASE UNCHANGED vars
  BY <1>5
<1> QED
  BY <1>1, <1>2, <1>3, <1>4, <1>5

LEMMA FlagsUi == FlagsOK /\ UiThread => FlagsOK'
<1> SUFFICES ASSUME FlagsOK, UiThread PROVE FlagsOK'
  OBVIOUS
<1> USE DEF FlagsOK, uiVars, stateVars, queueVars, senderVars, recvVars, pubVars
<1>1. CASE StartListen
  BY <1>1 DEF StartListen
<1>2. CASE StartSend
  BY <1>2 DEF StartSend
<1>3. CASE StartThreads
  BY <1>3 DEF StartThreads
<1>4. CASE StopBegin
  BY <1>4 DEF StopBegin
<1>5. CASE StopSend
  BY <1>5 DEF StopSend
<1>6. CASE StopNotify
  BY <1>6 DEF StopNotify
<1>7. CASE StopJoinSender
  BY <1>7 DEF StopJoinSender
<1>8. CASE StopInvalidate
  BY <1>8 DEF StopInvalidate
<1>9. CASE StopClose
  BY <1>9 DEF StopClose
<1>10. CASE StopJoinReceiver
  BY <1>10 DEF StopJoinReceiver
<1>11. CASE StopForget
  BY <1>11 DEF StopForget
<1>12. CASE StopClear
  BY <1>12 DEF StopClear
<1>13. CASE TargetBegin
  BY <1>13 DEF TargetBegin
<1>14. CASE TargetEnd
  BY <1>14 DEF TargetEnd
<1> QED
  BY <1>1, <1>2, <1>3, <1>4, <1>5, <1>6, <1>7, <1>8, <1>9, <1>10, <1>11,
     <1>12, <1>13, <1>14 DEF UiThread

LEMMA FlagsNext == FlagsOK /\ [Next]_vars => FlagsOK'
BY FlagsUi, FlagsKept DEF Next, FlagsOK

LEMMA DataUi == DataOK /\ Locals /\ UiThread => DataOK' /\ Locals'
<1> SUFFICES ASSUME DataOK, Locals, UiThread PROVE DataOK' /\ Locals'
  OBVIOUS
<1> USE DEF DataOK, Locals, CtlStates, SenderStates, RecvStates,
            Holding, uiVars, stateVars, queueVars, senderVars,
            recvVars, pubVars
<1>1. CASE StartListen
  BY <1>1 DEF StartListen
<1>2. CASE StartSend
  BY <1>2 DEF StartSend
<1>3. CASE StartThreads
  BY <1>3 DEF StartThreads
<1>4. CASE StopBegin
  BY <1>4 DEF StopBegin
<1>5. CASE StopSend
  BY <1>5 DEF StopSend
<1>6. CASE StopNotify
  BY <1>6 DEF StopNotify, Woken
<1>7. CASE StopJoinSender
  BY <1>7 DEF StopJoinSender
<1>8. CASE StopInvalidate
  BY <1>8 DEF StopInvalidate
<1>9. CASE StopClose
  BY <1>9, ZenonT(40) DEF StopClose
<1>10. CASE StopJoinReceiver
  BY <1>10 DEF StopJoinReceiver
<1>11. CASE StopForget
  BY <1>11 DEF StopForget
<1>12. CASE StopClear
  BY <1>12 DEF StopClear
<1>13. CASE TargetBegin
  BY <1>13 DEF TargetBegin
<1>14. CASE TargetEnd
  BY <1>14 DEF TargetEnd
<1> QED
  BY <1>1, <1>2, <1>3, <1>4, <1>5, <1>6, <1>7, <1>8, <1>9, <1>10, <1>11,
     <1>12, <1>13, <1>14 DEF UiThread

LEMMA DataPublisher ==
  ASSUME DataOK, Locals, NEW p \in Publishers, Publisher(p)
  PROVE  DataOK' /\ Locals'
<1> USE DEF DataOK, Locals, CtlStates, SenderStates, RecvStates, PubStates,
            Holding, uiVars, stateVars, queueVars, senderVars,
            recvVars, pubVars
<1> USE DEF Datagram, Via
<1>1. CASE SendTo(p)
  BY <1>1 DEF SendTo, MayOffer, Offer
<1>2. CASE SendLast(p)
  BY <1>2 DEF SendLast, MayOffer, Offer, HaveSender
<1>3. CASE SendFixed(p)
  BY <1>3 DEF SendFixed, MayOffer, Offer
<1>4. CASE EnqueueSnapshot(p)
  BY <1>4 DEF EnqueueSnapshot
<1>5. CASE EnqueueRefused(p)
  BY <1>5 DEF EnqueueRefused
<1>6. CASE EnqueuePush(p)
  BY <1>6 DEF EnqueuePush, Packet, Kept, Full
<1>7. CASE EnqueueNotify(p)
  BY <1>7 DEF EnqueueNotify, Woken
<1> QED
  BY <1>1, <1>2, <1>3, <1>4, <1>5, <1>6, <1>7 DEF Publisher, Enqueue

LEMMA DataSender ==
  ASSUME DataOK, Locals, SenderStep \/ SenderSpurious
  PROVE  DataOK' /\ Locals'
<1> USE DEF DataOK, Locals, CtlStates, SenderStates, RecvStates, PubStates,
            Holding, uiVars, stateVars, queueVars, senderVars,
            recvVars, pubVars
<1>1. CASE SenderPop
  BY <1>1 DEF SenderPop
<1>2. CASE SenderWait
  BY <1>2 DEF SenderWait
<1>3. CASE SenderSpurious
  BY <1>3 DEF SenderSpurious
<1>4. CASE SenderExit
  BY <1>4 DEF SenderExit, Drained
<1>5. CASE SenderSnapshot
  BY <1>5 DEF SenderSnapshot
<1>6. CASE SenderSend
  BY <1>6 DEF SenderSend
<1> QED
  BY <1>1, <1>2, <1>3, <1>4, <1>5, <1>6 DEF SenderStep

LEMMA DataReceiver ==
  ASSUME DataOK, Locals, ReceiverStep \/ RecvNothing \/ RecvDatagram
  PROVE  DataOK' /\ Locals'
<1> USE DEF DataOK, Locals, CtlStates, SenderStates, RecvStates, PubStates,
            Holding, uiVars, stateVars, queueVars, senderVars,
            recvVars, pubVars
<1>1. CASE RecvLoop
  BY <1>1 DEF RecvLoop, RecvMove
<1>2. CASE RecvSnapshot
  BY <1>2 DEF RecvSnapshot
<1>3. CASE RecvCall
  BY <1>3 DEF RecvCall, RecvMove
<1>4. CASE RecvNothing
  BY <1>4 DEF RecvNothing, RecvMove
<1>5. CASE RecvWoken
  BY <1>5 DEF RecvWoken, RecvMove
<1>6. CASE RecvDatagram
  BY <1>6 DEF RecvDatagram, RecvMove
<1>7. CASE RecvRemember
  BY <1>7 DEF RecvRemember
<1>8. CASE RecvHandle
  BY <1>8 DEF RecvHandle, RecvMove
<1> QED
  BY <1>1, <1>2, <1>3, <1>4, <1>5, <1>6, <1>7, <1>8 DEF ReceiverStep

LEMMA TypeInit == Init => TypeInv
BY FlagsInit, DataInit DEF TypeInv, TypeOK

LEMMA TypeNext == TypeInv /\ [Next]_vars => TypeInv'
<1> SUFFICES ASSUME TypeInv, [Next]_vars PROVE TypeInv'
  OBVIOUS
<1>1. FlagsOK'
  BY FlagsNext DEF TypeInv, TypeOK
<1>2. DataOK' /\ Locals'
  <2> USE DEF TypeInv, TypeOK
  <2>1. CASE UiThread
    BY <2>1, DataUi
  <2>2. CASE \E p \in Publishers : Publisher(p)
    BY <2>2, DataPublisher
  <2>3. CASE SenderStep \/ SenderSpurious
    BY <2>3, DataSender
  <2>4. CASE ReceiverStep \/ RecvNothing \/ RecvDatagram
    BY <2>4, DataReceiver
  <2>5. CASE ForeignOpen
    BY <2>5 DEF ForeignOpen, DataOK, Locals, Holding, uiVars, stateVars,
       queueVars, senderVars, recvVars, pubVars
  <2>6. CASE UNCHANGED vars
    BY <2>6 DEF DataOK, Locals, Holding, vars, uiVars, stateVars, queueVars,
       senderVars, recvVars, pubVars
  <2> QED
    BY <2>1, <2>2, <2>3, <2>4, <2>5, <2>6 DEF Next
<1> QED
  BY <1>1, <1>2 DEF TypeInv, TypeOK

\* Every variable keeps its type and every local variable holds a value
\* wherever the code reads it.
THEOREM TypeCorrect == Spec => []TypeOK
<1>1. Spec => []TypeInv
  BY TypeInit, TypeNext, PTL DEF Spec
<1> QED
  BY <1>1, PTL DEF TypeInv

-----------------------------------------------------------------------------
LEMMA LifecycleInit == Init => Lifecycle
BY DEF Init, Lifecycle, Up, Starting, StoppingSender, StoppingReceiver,
       SocketOpen

LEMMA LifecycleUi == Inv /\ UiThread => Lifecycle'
<1> SUFFICES ASSUME Inv, UiThread PROVE Lifecycle'
  OBVIOUS
<1> USE DEF Inv, TypeInv, TypeOK, FlagsOK, DataOK, Locals, Holding, Lifecycle, Up, Starting,
            StoppingSender, StoppingReceiver, SocketOpen, CtlStates,
            SenderStates, RecvStates,
            uiVars, stateVars, queueVars, senderVars, recvVars, pubVars
<1>1. CASE StartListen
  BY <1>1 DEF StartListen
<1>2. CASE StartSend
  BY <1>2 DEF StartSend
<1>3. CASE StartThreads
  BY <1>3 DEF StartThreads
<1>4. CASE StopBegin
  BY <1>4 DEF StopBegin
<1>5. CASE StopSend
  BY <1>5 DEF StopSend
<1>6. CASE StopNotify
  BY <1>6 DEF StopNotify, Woken
<1>7. CASE StopJoinSender
  BY <1>7 DEF StopJoinSender
<1>8. CASE StopInvalidate
  BY <1>8 DEF StopInvalidate
<1>9. CASE StopClose
  BY <1>9 DEF StopClose
<1>10. CASE StopJoinReceiver
  BY <1>10 DEF StopJoinReceiver
<1>11. CASE StopForget
  BY <1>11 DEF StopForget
<1>12. CASE StopClear
  BY <1>12 DEF StopClear
<1>13. CASE TargetBegin
  BY <1>13 DEF TargetBegin
<1>14. CASE TargetEnd
  BY <1>14 DEF TargetEnd
<1> QED
  BY <1>1, <1>2, <1>3, <1>4, <1>5, <1>6, <1>7, <1>8, <1>9, <1>10, <1>11,
     <1>12, <1>13, <1>14 DEF UiThread

LEMMA LifecyclePublisher ==
  ASSUME Inv, NEW p \in Publishers, Publisher(p)
  PROVE  Lifecycle'
<1> USE DEF Inv, TypeInv, TypeOK, FlagsOK, DataOK, Locals, Holding, Lifecycle, Up, Starting,
            StoppingSender, StoppingReceiver, SocketOpen, CtlStates,
            SenderStates, RecvStates,
            uiVars, stateVars, queueVars, senderVars, recvVars, pubVars
<1>1. CASE SendTo(p)
  BY <1>1 DEF SendTo, MayOffer, Offer
<1>2. CASE SendLast(p)
  BY <1>2 DEF SendLast, MayOffer, Offer, HaveSender
<1>3. CASE SendFixed(p)
  BY <1>3 DEF SendFixed, MayOffer, Offer
<1>4. CASE EnqueueSnapshot(p)
  BY <1>4 DEF EnqueueSnapshot
<1>5. CASE EnqueueRefused(p)
  BY <1>5 DEF EnqueueRefused
<1>6. CASE EnqueuePush(p)
  BY <1>6 DEF EnqueuePush, Kept, Full
<1>7. CASE EnqueueNotify(p)
  BY <1>7 DEF EnqueueNotify, Woken
<1> QED
  BY <1>1, <1>2, <1>3, <1>4, <1>5, <1>6, <1>7 DEF Publisher, Enqueue

LEMMA LifecycleSender == Inv /\ (SenderStep \/ SenderSpurious) => Lifecycle'
<1> SUFFICES ASSUME Inv, SenderStep \/ SenderSpurious PROVE Lifecycle'
  OBVIOUS
<1> USE DEF Inv, TypeInv, TypeOK, FlagsOK, DataOK, Locals, Holding, Lifecycle, Up, Starting,
            StoppingSender, StoppingReceiver, SocketOpen, CtlStates,
            SenderStates, RecvStates,
            uiVars, stateVars, queueVars, senderVars, recvVars, pubVars
<1>1. CASE SenderPop
  BY <1>1 DEF SenderPop
<1>2. CASE SenderWait
  BY <1>2 DEF SenderWait
<1>3. CASE SenderSpurious
  BY <1>3 DEF SenderSpurious
<1>4. CASE SenderExit
  BY <1>4 DEF SenderExit, Drained
<1>5. CASE SenderSnapshot
  BY <1>5 DEF SenderSnapshot
<1>6. CASE SenderSend
  BY <1>6 DEF SenderSend
<1> QED
  BY <1>1, <1>2, <1>3, <1>4, <1>5, <1>6 DEF SenderStep

LEMMA LifecycleReceiver ==
  Inv /\ (ReceiverStep \/ RecvNothing \/ RecvDatagram) => Lifecycle'
<1> SUFFICES ASSUME Inv, ReceiverStep \/ RecvNothing \/ RecvDatagram PROVE Lifecycle'
  OBVIOUS
<1> USE DEF Inv, TypeInv, TypeOK, FlagsOK, DataOK, Locals, Holding, Lifecycle, Up, Starting,
            StoppingSender, StoppingReceiver, SocketOpen, CtlStates,
            SenderStates, RecvStates,
            uiVars, stateVars, queueVars, senderVars, recvVars, pubVars
<1>1. CASE RecvLoop
  BY <1>1 DEF RecvLoop, RecvMove
<1>2. CASE RecvSnapshot
  BY <1>2 DEF RecvSnapshot
<1>3. CASE RecvCall
  BY <1>3 DEF RecvCall, RecvMove
<1>4. CASE RecvNothing
  BY <1>4 DEF RecvNothing, RecvMove
<1>5. CASE RecvWoken
  BY <1>5 DEF RecvWoken, RecvMove
<1>6. CASE RecvDatagram
  BY <1>6 DEF RecvDatagram, RecvMove
<1>7. CASE RecvRemember
  BY <1>7 DEF RecvRemember
<1>8. CASE RecvHandle
  BY <1>8 DEF RecvHandle, RecvMove
<1> QED
  BY <1>1, <1>2, <1>3, <1>4, <1>5, <1>6, <1>7, <1>8 DEF ReceiverStep

LEMMA LifecycleNext == Inv /\ [Next]_vars => Lifecycle'
<1> SUFFICES ASSUME Inv, [Next]_vars PROVE Lifecycle'
  OBVIOUS
<1> USE DEF Inv, TypeInv, TypeOK, DataOK, Lifecycle, Up, Starting,
            StoppingSender, StoppingReceiver, SocketOpen, uiVars, stateVars,
            queueVars, senderVars, recvVars, pubVars
<1>1. CASE ForeignOpen
  BY <1>1 DEF ForeignOpen
<1>2. CASE UNCHANGED vars
  BY <1>2 DEF vars
<1> QED
  BY <1>1, <1>2, LifecycleUi, LifecyclePublisher, LifecycleSender,
     LifecycleReceiver DEF Next

\* The invariant that carries the others: who runs and which socket is open at
\* each point of start() and stop(), and that every variable has its type.
THEOREM InvAlways == Spec => []Inv
<1>1. Init => Inv
  BY TypeInit, LifecycleInit DEF Inv
<1>2. Inv /\ [Next]_vars => Inv'
  BY TypeNext, LifecycleNext DEF Inv
<1> QED
  BY <1>1, <1>2, PTL DEF Spec

\* The sender thread sends on the open socket of its own run only.
THEOREM SenderSafe == Spec => []SenderOwnsSocket
<1>1. Inv => SenderOwnsSocket
  BY DEF Inv, TypeInv, TypeOK, FlagsOK, DataOK, Lifecycle, SenderOwnsSocket, Up, Starting, StoppingSender,
         SocketOpen
<1> QED
  BY <1>1, InvAlways, PTL

\* Nothing of a run is left when stop() has returned.
THEOREM StopIsClean == Spec => []Quiescent
<1>1. Inv => Quiescent
  BY DEF Inv, TypeInv, TypeOK, FlagsOK, DataOK, Lifecycle, Quiescent, Up, Starting, StoppingSender,
         StoppingReceiver, SocketOpen
<1> QED
  BY <1>1, InvAlways, PTL

\* The receive thread always finds its handler.
THEOREM HandlerSafe == Spec => []HandlerOutlivesReceiver
<1>1. Inv => HandlerOutlivesReceiver
  BY DEF Inv, TypeInv, TypeOK, FlagsOK, DataOK, Lifecycle, HandlerOutlivesReceiver, Up, Starting
<1> QED
  BY <1>1, InvAlways, PTL

-----------------------------------------------------------------------------
(***************************************************************************)
(* Accounting.  Four steps touch what it is about: a push, a pop, a send   *)
(* and the clear() at the end of stop(), which finds the queue empty.      *)
(***************************************************************************)

AccountVars == <<send_queue, accepted, dropped, wire, held>>

LEMMA AccountingKept ==
  ASSUME Accounting, UNCHANGED AccountVars, Holding' <=> Holding
  PROVE  Accounting'
BY DEF Accounting, AccountVars, QueueBounded, NewestWait, SentInOrder,
       HeldIsNext, NumbersAddUp

\* What Accounting is about has the types the arithmetic needs.
LEMMA AccountTypes ==
  ASSUME TypeInv
  PROVE  /\ accepted \in Nat /\ dropped \in Nat
         /\ send_queue \in Seq(Packet) /\ Len(send_queue) \in Nat
         /\ wire \in Seq(Packet) /\ Len(wire) \in Nat
         /\ \A i \in 1..Len(send_queue) : send_queue[i].seq \in Nat
         /\ \A i \in 1..Len(wire) : wire[i].seq \in Nat
         /\ Holding => held \in Packet /\ held.seq \in Nat
<1>1. /\ accepted \in Nat /\ dropped \in Nat
      /\ send_queue \in Seq(Packet)
      /\ wire \in Seq(Packet)
      /\ Holding => held \in Packet
  BY DEF TypeInv, TypeOK, DataOK, Locals
<1>2. /\ Len(send_queue) \in Nat
      /\ Len(wire) \in Nat
      /\ \A i \in 1..Len(send_queue) : send_queue[i] \in Packet
      /\ \A i \in 1..Len(wire) : wire[i] \in Packet
  BY <1>1
<1>3. \A x \in Packet : x.seq \in Nat
  BY DEF Packet
<1> QED
  BY <1>1, <1>2, <1>3

LEMMA AccountingPush ==
  ASSUME Inv, Accounting, NEW p \in Publishers, EnqueuePush(p)
  PROVE  Accounting'
<1> DEFINE k == Len(send_queue)
<1>0. TypeInv
  BY DEF Inv
<1>1. /\ send_queue' = Append(Kept, [to |-> msg[p].to, via |-> msg[p].via,
                                     seq |-> accepted + 1])
      /\ UNCHANGED <<held, wire>>
      /\ Holding' <=> Holding
      /\ accepted' = accepted + 1
      /\ dropped' = IF Full THEN dropped + 1 ELSE dropped
  BY DEF EnqueuePush, senderVars, Holding
<1>2. /\ Kept \in Seq(Packet)
      /\ Len(Kept) = IF Full THEN k - 1 ELSE k
      /\ \A i \in 1..Len(Kept) :
            Kept[i] = send_queue[IF Full THEN i + 1 ELSE i]
  BY <1>0, AccountTypes DEF Kept, Full, Accounting, QueueBounded
<1>3. /\ Len(send_queue') = Len(Kept) + 1
      /\ \A i \in 1..Len(Kept) : send_queue'[i] = Kept[i]
      /\ send_queue'[Len(Kept) + 1].seq = accepted + 1
  BY <1>1, <1>2
<1>4. QueueBounded'
  BY <1>0, <1>2, <1>3, AccountTypes DEF Accounting, QueueBounded, Full
<1>5. NewestWait'
  <2> SUFFICES ASSUME NEW i \in 1..(Len(Kept) + 1)
               PROVE  send_queue'[i].seq = accepted' - Len(send_queue') + i
    BY <1>3 DEF NewestWait
  <2>0. accepted' - Len(send_queue') + i = accepted - Len(Kept) + i
    BY <1>0, <1>1, <1>2, <1>3, AccountTypes, SMTT(30)
  <2>1. CASE i = Len(Kept) + 1
    BY <2>0, <2>1, <1>0, <1>2, <1>3, AccountTypes
  <2>2. CASE i # Len(Kept) + 1
    <3>1. i \in 1..Len(Kept) /\ k \in Nat
      BY <2>2, <1>0, <1>2, AccountTypes
    <3> DEFINE j == IF Full THEN i + 1 ELSE i
    <3>2. j \in 1..k /\ send_queue'[i] = send_queue[j]
      BY <3>1, <1>2, <1>3, SMTT(30)
    <3>3. send_queue[j].seq = accepted - k + j
      BY <3>2 DEF Accounting, NewestWait
    <3> QED
      BY <2>0, <3>1, <3>2, <3>3, <1>0, <1>2, AccountTypes
  <2> QED
    BY <2>1, <2>2
<1>6. SentInOrder'
  BY <1>1 DEF Accounting, SentInOrder
<1>7. accepted - k <= accepted' - Len(send_queue')
  BY <1>0, <1>1, <1>2, <1>3, AccountTypes
<1>8. /\ accepted - k \in Int
      /\ accepted' - Len(send_queue') \in Int
  BY <1>0, <1>1, <1>2, <1>3, AccountTypes
<1>9. HeldIsNext'
  <2>1. ASSUME NEW x \in Nat, x <= accepted - k
        PROVE  x <= accepted' - Len(send_queue')
    BY <2>1, <1>7, <1>8
  <2> QED
    BY <2>1, <1>0, <1>1, AccountTypes DEF Accounting, HeldIsNext
<1>10. NumbersAddUp'
  <2>1. Len(send_queue') = IF Full THEN k ELSE k + 1
    BY <1>0, <1>2, <1>3, AccountTypes
  <2> DEFINE h == IF Holding THEN 1 ELSE 0
  <2>2. accepted = Len(wire) + h + k + dropped
    BY DEF Accounting, NumbersAddUp
  <2>3. h \in Nat /\ k \in Nat
    BY <1>0, AccountTypes
  <2>4. accepted' = Len(wire) + h + Len(send_queue') + dropped'
    <3> HIDE DEF h
    <3>1. CASE Full
      BY <3>1, <2>1, <2>2, <2>3, <1>0, <1>1, AccountTypes
    <3>2. CASE ~Full
      BY <3>2, <2>1, <2>2, <2>3, <1>0, <1>1, AccountTypes
    <3> QED
      BY <3>1, <3>2
  <2> QED
    BY <2>4, <1>1 DEF NumbersAddUp
<1> QED
  BY <1>4, <1>5, <1>6, <1>9, <1>10 DEF Accounting

LEMMA AccountingPop == Inv /\ Accounting /\ SenderPop => Accounting'
<1> SUFFICES ASSUME Inv, Accounting, SenderPop PROVE Accounting'
  OBVIOUS
<1> DEFINE k == Len(send_queue)
<1>0. TypeInv
  BY DEF Inv
<1>1. /\ held' = Head(send_queue)
      /\ send_queue' = Tail(send_queue)
      /\ send_queue # <<>>
      /\ Holding' /\ ~Holding
      /\ UNCHANGED <<accepted, dropped, wire>>
  BY DEF SenderPop, Holding
<1>2. /\ Len(send_queue') = k - 1
      /\ k \in Nat /\ k > 0
      /\ held' = send_queue[1]
      /\ \A i \in 1..(k - 1) : send_queue'[i] = send_queue[i + 1]
  BY <1>0, <1>1, AccountTypes
<1>3. held'.seq = accepted - k + 1
  BY <1>0, <1>2, AccountTypes DEF Accounting, NewestWait
<1>4. QueueBounded'
  BY <1>2 DEF Accounting, QueueBounded
<1>5. NewestWait'
  <2> SUFFICES ASSUME NEW i \in 1..(k - 1)
               PROVE  send_queue'[i].seq = accepted - (k - 1) + i
    BY <1>1, <1>2 DEF NewestWait
  <2>1. i + 1 \in 1..k
    BY <1>2
  <2>2. send_queue[i + 1].seq = accepted - k + (i + 1)
    BY <2>1 DEF Accounting, NewestWait
  <2> QED
    BY <2>2, <1>0, <1>2, AccountTypes
<1>6. SentInOrder'
  BY <1>1 DEF Accounting, SentInOrder
<1>7. HeldIsNext'
  <2>1. accepted' - Len(send_queue') = accepted - k + 1
    BY <1>0, <1>1, <1>2, AccountTypes
  <2>2. ASSUME NEW x \in Nat, x <= accepted - k
        PROVE  x <= accepted - k + 1 /\ x < accepted - k + 1
    BY <2>2, <1>0, <1>2, AccountTypes
  <2>3. accepted - k + 1 <= accepted - k + 1
    BY <1>0, <1>2, AccountTypes
  <2> QED
    BY <2>1, <2>2, <2>3, <1>0, <1>1, <1>3, AccountTypes
       DEF Accounting, HeldIsNext
<1>8. NumbersAddUp'
  BY <1>0, <1>1, <1>2, AccountTypes DEF Accounting, NumbersAddUp
<1> QED
  BY <1>4, <1>5, <1>6, <1>7, <1>8 DEF Accounting

LEMMA AccountingSend == Inv /\ Accounting /\ SenderSend => Accounting'
<1> SUFFICES ASSUME Inv, Accounting, SenderSend PROVE Accounting'
  OBVIOUS
<1> DEFINE n == Len(wire)
<1>0. TypeInv
  BY DEF Inv
<1>1. sender_fd # NoFd
  BY DEF Inv, TypeInv, TypeOK, FlagsOK, DataOK, SenderSend, Lifecycle,
         SocketOpen, Up, StoppingSender, Starting
<1>2. /\ wire' = Append(wire, held)
      /\ Holding /\ ~Holding'
      /\ UNCHANGED <<accepted, dropped, send_queue>>
  BY <1>1 DEF SenderSend, Holding, queueVars
<1>3. /\ Len(wire') = n + 1
      /\ \A i \in 1..n : wire'[i] = wire[i]
      /\ wire'[n + 1] = held
  BY <1>0, <1>2, AccountTypes
<1>4. QueueBounded' /\ NewestWait'
  BY <1>2 DEF Accounting, QueueBounded, NewestWait
<1>5. ASSUME NEW i \in 1..(n + 1), i # n + 1
      PROVE  i \in 1..n
  BY <1>5, <1>0, AccountTypes
<1>6. SentInOrder'
  <2> SUFFICES ASSUME NEW i \in 1..(n + 1), NEW j \in 1..(n + 1), i < j
               PROVE  wire'[i].seq < wire'[j].seq
    BY <1>3 DEF SentInOrder
  <2>1. i \in 1..n
    BY <1>0, AccountTypes
  <2>2. CASE j = n + 1
    BY <2>1, <2>2, <1>2, <1>3 DEF Accounting, HeldIsNext
  <2>3. CASE j # n + 1
    BY <2>1, <2>3, <1>3, <1>5 DEF Accounting, SentInOrder
  <2> QED
    BY <2>2, <2>3
<1>7. HeldIsNext'
  <2> SUFFICES ASSUME NEW i \in 1..(n + 1)
               PROVE  wire'[i].seq <= accepted - Len(send_queue)
    BY <1>2, <1>3 DEF HeldIsNext
  <2> QED
    BY <1>2, <1>3, <1>5 DEF Accounting, HeldIsNext
<1>8. NumbersAddUp'
  BY <1>0, <1>2, <1>3, AccountTypes DEF Accounting, NumbersAddUp
<1> QED
  BY <1>4, <1>6, <1>7, <1>8 DEF Accounting

LEMMA AccountingInit == Init => Accounting
BY DEF Init, Accounting, QueueBounded, NewestWait, SentInOrder, HeldIsNext,
       NumbersAddUp, Holding

LEMMA AccountingNext == Inv /\ Accounting /\ [Next]_vars => Accounting'
<1> SUFFICES ASSUME Inv, Accounting, [Next]_vars PROVE Accounting'
  OBVIOUS
<1> USE DEF AccountVars, Holding, uiVars, stateVars, queueVars, senderVars,
            recvVars, pubVars
<1>1. CASE UiThread
  <2>1. CASE StopClear
    <3>1. send_queue = <<>>
      BY <2>1 DEF Inv, TypeInv, TypeOK, DataOK, FlagsOK, Lifecycle, StopClear,
         Up, StoppingSender
    <3> QED
      BY <2>1, <3>1, AccountingKept DEF StopClear
  <2>2. CASE ~StopClear
    <3>1. UNCHANGED AccountVars
      BY <1>1, <2>2 DEF UiThread, StartListen, StartSend, StartThreads,
         StopBegin, StopSend, StopNotify, StopJoinSender, StopInvalidate,
         StopClose, StopJoinReceiver, StopForget, TargetBegin, TargetEnd
    <3>2. Holding' <=> Holding
      BY <1>1, <2>2 DEF UiThread, StartListen, StartSend, StartThreads,
         StopBegin, StopSend, StopNotify, StopJoinSender, StopInvalidate,
         StopClose, StopJoinReceiver, StopForget, TargetBegin, TargetEnd,
         Woken, Inv, Lifecycle, Up, StoppingSender
    <3> QED
      BY <3>1, <3>2, AccountingKept
  <2> QED
    BY <2>1, <2>2
<1>2. ASSUME NEW p \in Publishers, Publisher(p)
      PROVE  Accounting'
  <2>1. CASE EnqueuePush(p)
    BY <2>1, AccountingPush
  <2>2. CASE ~EnqueuePush(p)
    BY <1>2, <2>2, AccountingKept DEF Publisher, SendTo, SendLast, SendFixed,
       Offer, Enqueue, EnqueueSnapshot, EnqueueRefused, EnqueueNotify, Woken
  <2> QED
    BY <2>1, <2>2
<1>3. CASE SenderStep \/ SenderSpurious
  <2>1. CASE SenderPop
    BY <2>1, AccountingPop
  <2>2. CASE SenderSend
    BY <2>2, AccountingSend
  <2>3. CASE ~SenderPop /\ ~SenderSend
    BY <1>3, <2>3, AccountingKept DEF SenderStep, SenderWait, SenderSpurious,
       SenderExit, SenderSnapshot
  <2> QED
    BY <2>1, <2>2, <2>3
<1>4. CASE ReceiverStep \/ RecvNothing \/ RecvDatagram
  BY <1>4, AccountingKept DEF ReceiverStep, RecvLoop, RecvSnapshot, RecvCall,
     RecvNothing, RecvWoken, RecvDatagram, RecvRemember, RecvHandle, RecvMove
<1>5. CASE ForeignOpen
  BY <1>5, AccountingKept DEF ForeignOpen
<1>6. CASE UNCHANGED vars
  BY <1>6, AccountingKept DEF vars
<1> QED
  BY <1>1, <1>2, <1>3, <1>4, <1>5, <1>6 DEF Next

\* Accepted datagrams leave in order and are lost to a full queue only.
THEOREM AccountingAlways == Spec => []Accounting
<1>1. Inv /\ Accounting /\ [Next]_vars => Accounting'
  BY AccountingNext
<1> QED
  BY <1>1, AccountingInit, InvAlways, PTL DEF Spec

LEMMA DrainedStop ==
  ASSUME Inv, Accounting, [Next]_vars, ctl \in {"join_send", "clear"}, ctl' # ctl
  PROVE  send_queue = <<>> /\ Len(wire) + dropped = accepted
<1>1. CASE ctl = "join_send"
  <2>1. sender = "done"
    BY <1>1 DEF Next, UiThread, StartListen, StartSend, StartThreads, StopBegin,
       StopSend, StopNotify, StopJoinSender, StopInvalidate, StopClose,
       StopJoinReceiver, StopForget, StopClear, TargetBegin, TargetEnd,
       Publisher, SendTo, SendLast, SendFixed, Offer, Enqueue,
       EnqueueSnapshot, EnqueueRefused, EnqueuePush, EnqueueNotify,
       SenderStep, SenderPop, SenderWait, SenderSpurious, SenderExit,
       SenderSnapshot, SenderSend, ReceiverStep, RecvLoop, RecvSnapshot,
       RecvCall, RecvNothing, RecvWoken, RecvDatagram, RecvRemember,
       RecvHandle, RecvMove, ForeignOpen, vars, uiVars
  <2>2. send_queue = <<>> /\ ~Holding
    BY <2>1 DEF Inv, Lifecycle, Holding
  <2> QED
    BY <2>2, AccountTypes DEF Inv, Accounting, NumbersAddUp
<1>2. CASE ctl = "clear"
  <2>1. send_queue = <<>> /\ ~Holding
    BY <1>2 DEF Inv, Lifecycle, Holding, Up, StoppingSender
  <2> QED
    BY <2>1, AccountTypes DEF Inv, Accounting, NumbersAddUp
<1> QED
  BY <1>1, <1>2

\* By the time stop() takes the socket away every accepted datagram has been
\* sent or was dropped earlier, and its clear() finds nothing to throw away.
THEOREM StopDrainsAlways == Spec => StopDrains
<1>1. Inv /\ Accounting /\ [Next]_vars =>
        [ (ctl \in {"join_send", "clear"} /\ ctl' # ctl)
          => send_queue = <<>> /\ Len(wire) + dropped = accepted ]_vars
  BY DrainedStop
<1> QED
  BY <1>1, InvAlways, AccountingAlways, PTL DEF Spec, StopDrains

-----------------------------------------------------------------------------
(***************************************************************************)
(* The transport implements DropOldestChannel.                             *)
(***************************************************************************)

LEMMA ChannelInit == Init => Channel!Init
BY DEF Init, Channel!Init, Holding

LEMMA ChannelUi ==
  ASSUME Inv, UiThread
  PROVE  Channel!Open \/ Channel!BeginClose \/ UNCHANGED Channel!chanVars
<1> USE DEF Inv, TypeInv, TypeOK, FlagsOK, DataOK, Lifecycle, Up, Starting,
            StoppingSender, Holding, uiVars, stateVars, queueVars, senderVars,
            recvVars, pubVars
<1>1. CASE StartSend
  <2>1. Channel!Open
    BY <1>1 DEF StartSend, Channel!Open
  <2> QED
    BY <2>1
<1>2. CASE StopSend
  <2>1. Channel!BeginClose
    BY <1>2 DEF StopSend, Channel!BeginClose
  <2> QED
    BY <2>1
<1>3. CASE StopClear
  BY <1>3 DEF StopClear, Channel!chanVars
<1>4. CASE StartThreads
  BY <1>4 DEF StartThreads, Channel!chanVars
<1>5. CASE StopNotify
  BY <1>5 DEF StopNotify, Woken, Channel!chanVars
<1>6. CASE StopJoinSender
  BY <1>6 DEF StopJoinSender, Channel!chanVars
<1>7. CASE \/ StartListen \/ StopBegin \/ StopInvalidate \/ StopClose
           \/ StopJoinReceiver \/ StopForget \/ TargetBegin \/ TargetEnd
  <2>1. UNCHANGED <<send_running, send_queue, sender, held, wire>>
    BY <1>7 DEF StartListen, StopBegin, StopInvalidate, StopClose,
       StopJoinReceiver, StopForget, TargetBegin, TargetEnd
  <2> QED
    BY <2>1 DEF Channel!chanVars
<1> QED
  BY <1>1, <1>2, <1>3, <1>4, <1>5, <1>6, <1>7 DEF UiThread

LEMMA ChannelPublisher ==
  ASSUME Inv, Accounting, NEW p \in Publishers, Publisher(p)
  PROVE  Channel!Put \/ Channel!PutDroppingOldest \/ UNCHANGED Channel!chanVars
<1> USE DEF uiVars, stateVars, queueVars, senderVars, recvVars, pubVars
<1>1. CASE EnqueuePush(p)
  <2> DEFINE new == [to |-> msg[p].to, via |-> msg[p].via, seq |-> accepted + 1]
  <2>1. /\ send_running
        /\ send_queue' = Append(Kept, new)
        /\ UNCHANGED <<send_running, senderVars>>
    BY <1>1 DEF EnqueuePush
  <2>2. /\ send_queue \in Seq(Packet)
        /\ Len(send_queue) <= MaxQueue
        /\ Kept \in Seq(Packet)
    BY AccountTypes DEF Inv, Accounting, QueueBounded, Kept, Full
  <2>3. new \in Packet
    BY <1>1 DEF EnqueuePush, Inv, TypeInv, TypeOK, DataOK, Locals, Datagram, Packet
  <2>4. /\ send_queue' # <<>>
        /\ send_queue'[Len(send_queue')] = new
    BY <2>1, <2>2, <2>3, SMTT(30)
  <2> HIDE DEF new
  <2>5. CASE Full
    <3>1. Kept = Tail(send_queue) /\ Len(send_queue) = MaxQueue
      BY <2>5, <2>2 DEF Kept, Full
    <3>2. Channel!PutDroppingOldest
      BY <2>1, <2>3, <2>4, <3>1 DEF Channel!PutDroppingOldest, Channel!PutOnto,
         Channel!Newest, Holding
    <3> QED
      BY <3>2
  <2>6. CASE ~Full
    <3>1. Kept = send_queue /\ Len(send_queue) < MaxQueue
      BY <2>6, <2>2 DEF Kept, Full
    <3>2. Channel!Put
      BY <2>1, <2>3, <2>4, <3>1 DEF Channel!Put, Channel!PutOnto,
         Channel!Newest, Holding
    <3> QED
      BY <3>2
  <2> QED
    BY <2>5, <2>6
<1>2. CASE EnqueueNotify(p)
  BY <1>2 DEF EnqueueNotify, Woken, Channel!chanVars, Holding
<1>3. CASE ~EnqueuePush(p) /\ ~EnqueueNotify(p)
  <2>1. UNCHANGED <<send_running, send_queue, sender, held, wire>>
    BY <1>3 DEF Publisher, SendTo, SendLast, SendFixed, Offer, Enqueue,
       EnqueueSnapshot, EnqueueRefused
  <2> QED
    BY <2>1 DEF Channel!chanVars, Holding
<1> QED
  BY <1>1, <1>2, <1>3

LEMMA ChannelSender ==
  ASSUME Inv, SenderStep \/ SenderSpurious
  PROVE  Channel!Take \/ Channel!Deliver \/ Channel!EndClose
         \/ UNCHANGED Channel!chanVars
<1> USE DEF Holding, queueVars
<1>1. CASE SenderPop
  <2>1. Channel!Take
    BY <1>1 DEF SenderPop, Channel!Take
  <2> QED
    BY <2>1
<1>2. CASE SenderWait
  BY <1>2 DEF SenderWait, Channel!chanVars
<1>3. CASE SenderSpurious
  BY <1>3 DEF SenderSpurious, Channel!chanVars
<1>4. CASE SenderExit
  <2>1. Channel!EndClose
    BY <1>4 DEF SenderExit, Drained, Channel!EndClose
  <2> QED
    BY <2>1
<1>5. CASE SenderSnapshot
  BY <1>5 DEF SenderSnapshot, Channel!chanVars
<1>6. CASE SenderSend
  <2>1. sender_fd # NoFd
    BY <1>6 DEF Inv, TypeInv, TypeOK, FlagsOK, DataOK, SenderSend, Lifecycle,
       SocketOpen, Up, StoppingSender, Starting
  <2>2. Channel!Deliver
    BY <1>6, <2>1 DEF SenderSend, Channel!Deliver
  <2> QED
    BY <2>2
<1> QED
  BY <1>1, <1>2, <1>3, <1>4, <1>5, <1>6 DEF SenderStep

LEMMA ChannelNext ==
  ASSUME Inv, Accounting, [Next]_vars
  PROVE  [Channel!Next]_(Channel!chanVars)
<1> USE DEF uiVars, stateVars, queueVars, senderVars, recvVars, pubVars
<1>1. CASE UiThread
  BY <1>1, ChannelUi DEF Channel!Next
<1>2. CASE \E p \in Publishers : Publisher(p)
  BY <1>2, ChannelPublisher DEF Channel!Next
<1>3. CASE SenderStep \/ SenderSpurious
  BY <1>3, ChannelSender DEF Channel!Next
<1>4. CASE \/ ReceiverStep \/ RecvNothing \/ RecvDatagram \/ ForeignOpen
           \/ UNCHANGED vars
  <2>1. UNCHANGED <<send_running, send_queue, sender, held, wire>>
    BY <1>4 DEF ReceiverStep, RecvLoop, RecvSnapshot, RecvCall, RecvNothing,
       RecvWoken, RecvDatagram, RecvRemember, RecvHandle, RecvMove,
       ForeignOpen, vars
  <2> QED
    BY <2>1 DEF Channel!chanVars, Holding
<1> QED
  BY <1>1, <1>2, <1>3, <1>4 DEF Next

\* Callers may think of the whole sending side as one bounded channel that
\* drops its oldest item when full and closes only when it is empty.
THEOREM ServerImplementsChannel == Spec => ImplementsChannel
<1>1. Init => Channel!Init
  BY ChannelInit
<1>2. Inv /\ Accounting /\ [Next]_vars => [Channel!Next]_(Channel!chanVars)
  BY ChannelNext
<1> QED
  BY <1>1, <1>2, InvAlways, AccountingAlways, PTL
     DEF Spec, ImplementsChannel, Channel!Spec

=============================================================================
