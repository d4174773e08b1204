---------------------------- MODULE OscFeedback ----------------------------
(***************************************************************************)
(* How one feedback event reaches its receivers: osc_feedback_send()       *)
(* (src/osc-feedback.cpp) and osc_publish() (src/osc-subscribe.cpp), on    *)
(* any OBS thread, while the UI thread runs /subscribe and /unsubscribe,   *)
(* websocket threads add and drop LISTEN registrations and the receive     *)
(* thread moves the last sender.  No lock is held from one step of an      *)
(* emission to the next, so what the gate sampled may be stale when used.  *)
(***************************************************************************)
EXTENDS OscSubscribe

CONSTANTS Emitters, Nobody

ASSUME OscFeedbackAssumption == Nobody \notin Endpoint

VARIABLES
    last,    \* the transport's last sender, or Nobody
    fixed,   \* a feedback host is configured
    open,    \* websocket connections osc_ws::send_binary() can find
    em       \* the emission each thread is in

vars == <<registry, last, fixed, open, em>>

(***************************************************************************)
(* An emission: the address, the sample of osc_has_subscribers(), the      *)
(* snapshot osc_publish() took, and the last sender it was sent to.  The   *)
(* rest is history: stood and stoodPeer wanted the event at every moment   *)
(* since the sample, ever at some moment until the snapshot; missed and    *)
(* unasked compare them with who was served; alwaysSub and alwaysOld tell  *)
(* whether there was a subscriber, or an audience for the broadcast only,  *)
(* all along.                                                              *)
(***************************************************************************)
Emission ==
    [pc        : {"idle", "gate", "gateLast", "publish", "deliver",
                  "fixed", "last", "done"},
     address   : Addresses,
     had       : BOOLEAN,
     copies    : [Endpoint -> Nat],
     peers     : SUBSET Peers,
     toLast    : Endpoint \cup {Nobody},
     skipped   : BOOLEAN,
     stood     : SUBSET Endpoint,
     stoodPeer : SUBSET Peers,
     ever      : SUBSET Endpoint,
     missed    : SUBSET Endpoint,
     unasked   : SUBSET Endpoint,
     missedPeer: SUBSET Peers,
     alwaysSub : BOOLEAN,
     alwaysOld : BOOLEAN]

NoCopies == [e \in Endpoint |-> 0]

FeedbackTypeOK ==
    /\ RegistryTypeOK
    /\ last \in Endpoint \cup {Nobody}
    /\ fixed \in BOOLEAN
    /\ open \subseteq Peers
    /\ em \in [Emitters -> Emission]

HasSubscribers == subscribers # <<>>

Wanting == [address \in Addresses |-> {e \in Endpoint : Copies(e, address) > 0}]

\* The audience of the reply-to-last broadcast and of nothing else.
OldAudience == ~HasSubscribers /\ last # Nobody

Fresh(address) ==
    [pc |-> "idle", address |-> address, had |-> FALSE, copies |-> NoCopies,
     peers |-> {}, toLast |-> Nobody, skipped |-> FALSE,
     stood |-> {}, stoodPeer |-> {}, ever |-> {},
     missed |-> {}, unasked |-> {}, missedPeer |-> {},
     alwaysSub |-> FALSE, alwaysOld |-> FALSE]

Init ==
    /\ RegistryInit
    /\ last = Nobody
    /\ fixed = FALSE
    /\ open = {}
    /\ \E a \in Addresses : em = [t \in Emitters |-> Fresh(a)]

BeforeSnapshot == {"gate", "gateLast", "publish"}

\* History: what the emissions under way make of a change around them.
Watch(m) ==
    IF m.pc \in {"idle", "done"} THEN m
    ELSE [m EXCEPT
        !.alwaysSub = @ /\ HasSubscribers',
        !.alwaysOld = @ /\ OldAudience',
        !.stood     = IF m.pc \in BeforeSnapshot
                      THEN @ \cap Wanting'[m.address] ELSE @,
        !.ever      = IF m.pc \in BeforeSnapshot
                      THEN @ \cup Wanting'[m.address] ELSE @,
        !.stoodPeer = @ \cap Listening'[m.address] \cap open']

\* History: compare who was served, at an address and as a peer, with who
\* should have been.
Served(m, told, streamed) ==
    [m EXCEPT !.missed     = m.stood \ told,
              !.unasked    = told \ m.ever,
              !.missedPeer = m.stoodPeer \ streamed,
              !.copies = NoCopies, !.peers = {},
              !.stood = {}, !.ever = {}, !.stoodPeer = {}]

Watched == em' = [t \in Emitters |-> Watch(em[t])]

-----------------------------------------------------------------------------
(***************************************************************************)
(* The other threads.                                                      *)
(***************************************************************************)

UiSubscription ==
    /\ HandleSubscription
    /\ UNCHANGED <<last, fixed, open>>
    /\ Watched

\* set_feedback_target(), or a failed lookup.
UiTarget ==
    /\ fixed' = ~fixed
    /\ UNCHANGED <<registry, last, open>>
    /\ Watched

\* The receive thread hears of a sender; a restart of the listener forgets it.
LastSender ==
    /\ last' \in (Endpoint \cup {Nobody}) \ {last}
    /\ UNCHANGED <<registry, fixed, open>>
    /\ Watched

PeerConnect(peer) ==
    /\ peer \notin open
    /\ open' = open \cup {peer}
    /\ UNCHANGED <<registry, last, fixed>>
    /\ Watched

PeerListen(peer, path) ==
    /\ peer \in open
    /\ ListenAdd(peer, path) \/ ListenRemove(peer, path)
    /\ UNCHANGED <<last, fixed, open>>
    /\ Watched

\* osc_listen_remove_peer(), then the connection is forgotten; here one step,
\* and the moment between them is as if the peer had said IGNORE first.
PeerGone(peer) ==
    /\ peer \in open
    /\ ListenRemovePeer(peer)
    /\ open' = open \ {peer}
    /\ UNCHANGED <<last, fixed>>
    /\ Watched

Others ==
    \/ UiSubscription
    \/ UiTarget
    \/ LastSender
    \/ \E peer \in Peers : PeerConnect(peer) \/ PeerGone(peer)
    \/ \E peer \in Peers, path \in Addresses : PeerListen(peer, path)

-----------------------------------------------------------------------------
(***************************************************************************)
(* osc_feedback_send().                                                    *)
(***************************************************************************)

Step(t, m) ==
    /\ em' = [em EXCEPT ![t] = m]
    /\ UNCHANGED <<registry, last, fixed, open>>

Begin(t) ==
    /\ em[t].pc = "idle"
    /\ \E a \in Addresses :
          Step(t, [Fresh(a) EXCEPT
              !.pc = "gate", !.had = HasSubscribers,
              !.stood = Wanting[a], !.ever = Wanting[a],
              !.stoodPeer = Listening[a] \cap open,
              !.alwaysSub = HasSubscribers, !.alwaysOld = OldAudience])

\* Mutant: the gate looks at the fixed host and the last sender only.
MutantReceiver(m) == fixed

\* "no receiver could possibly exist": there was a subscriber, or there is a
\* fixed host, or else (the next read) a last sender.
Receiver(m) == m.had \/ fixed

Gate(t) ==
    /\ em[t].pc = "gate"
    /\ Step(t, [em[t] EXCEPT
           !.pc = IF Receiver(em[t]) THEN "publish" ELSE "gateLast"])

GateLast(t) ==
    /\ em[t].pc = "gateLast"
    /\ IF last # Nobody
       THEN Step(t, [em[t] EXCEPT !.pc = "publish"])
       ELSE Step(t, [Served(em[t], {}, {}) EXCEPT !.pc = "done", !.skipped = TRUE])

\* The snapshot under registry_mutex.
Publish(t) ==
    /\ em[t].pc = "publish"
    /\ Step(t, [em[t] EXCEPT
           !.pc = "deliver",
           !.copies = [e \in Endpoint |-> Copies(e, em[t].address)],
           !.peers = Listening[em[t].address]])

\* Mutant: websocket peers are not served.
MutantReached(m) == {}

\* send_binary() does nothing for a connection that is gone.
Reached(m) == m.peers \cap open

Deliver(t) ==
    /\ em[t].pc = "deliver"
    /\ LET told == {e \in Endpoint : em[t].copies[e] > 0}
       IN  Step(t, [Served(em[t], told, Reached(em[t])) EXCEPT !.pc = "fixed"])

\* The fixed host gets every event that passes the gate.
SendFixed(t) ==
    /\ em[t].pc = "fixed"
    /\ Step(t, [em[t] EXCEPT !.pc = "last"])

\* Mutant: the broadcast does not look at the subscribers.
MutantSuspended(m) == FALSE

\* The broadcast pauses while anybody subscribes, going by the first sample.
Suspended(m) == m.had

SendLast(t) ==
    /\ em[t].pc = "last"
    /\ Step(t, [em[t] EXCEPT !.pc = "done",
                             !.toLast = IF Suspended(em[t]) THEN Nobody ELSE last])

Return(t) ==
    /\ em[t].pc = "done"
    /\ Step(t, Fresh(em[t].address))

Emit(t) ==
    \/ Begin(t) \/ Gate(t) \/ GateLast(t) \/ Publish(t) \/ Deliver(t)
    \/ SendFixed(t) \/ SendLast(t) \/ Return(t)

Next == Others \/ \E t \in Emitters : Emit(t)

Spec == Init /\ [][Next]_vars

-----------------------------------------------------------------------------

Done(t) == em[t].pc = "done"

\* A client that wants the event all the time from the first sample to the
\* snapshot gets it, and nobody gets it as a topic who never wanted it then.
SubscribersServed ==
    \A t \in Emitters : Done(t) => em[t].missed = {} /\ em[t].unasked = {}

\* Who is connected and listening until the event is delivered gets it, if the
\* event passes the gate.
ListenersServed ==
    \A t \in Emitters : Done(t) /\ ~em[t].skipped => em[t].missedPeer = {}

\* The reply-to-last broadcast is suspended while there are subscribers, and
\* goes out when there are none and somebody has spoken.
LegacyBroadcast ==
    \A t \in Emitters : Done(t) =>
        /\ em[t].alwaysSub => em[t].toLast = Nobody
        /\ em[t].alwaysOld => em[t].toLast # Nobody

\* Subscribing never makes an event arrive more often than the client has
\* entries, and a client that was never redirected has one.
ToldOnce ==
    [][\A t \in Emitters :
          em[t].pc = "publish" /\ em'[t].pc = "deliver" =>
              \A e \in Endpoint :
                  (\A i \in 1..Len(subscribers) :
                      subscribers[i].endpoint = e => ~subscribers[i].redirected)
                  => em'[t].copies[e] <= 1]_vars

\* "no receiver could possibly exist" when an event is skipped: also no LISTEN
\* peer that was connected and listening all along.
SkippedForNobody ==
    \A t \in Emitters : em[t].skipped => em[t].missedPeer = {}

=============================================================================
