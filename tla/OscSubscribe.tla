---------------------------- MODULE OscSubscribe ----------------------------
(***************************************************************************)
(* The change-notification registries (src/osc-subscribe.cpp): UDP clients *)
(* with their topic patterns, and websocket peers with the exact addresses *)
(* they LISTEN to.  Every operation holds registry_mutex from its first    *)
(* read to its last write, so each is one action.  A client's patterns are *)
(* a set: they are stored once and their order has no effect.  The order   *)
(* of the subscribers has: add and remove stop at the first match.         *)
(***************************************************************************)
EXTENDS Integers, Sequences, FiniteSets

CONSTANTS
    Ips, Ports,         \* an endpoint is an address and a port
    DeliveryPorts,      \* ports /subscribe may ask delivery to
    Patterns,           \* valid topic patterns
    Addresses,          \* OSC addresses of feedback events
    Peers,              \* websocket connection tokens
    Matches,            \* osc_glob_match(): a set of <<pattern, address>>
    MaxSubscribers,     \* max_subscribers
    MaxPatterns,        \* max_patterns
    MaxListeners        \* max_listeners

ASSUME OscSubscribeAssumption ==
    /\ DeliveryPorts \subseteq Ports
    /\ IsFiniteSet(Patterns)
    /\ Matches \subseteq Patterns \X Addresses
    /\ MaxSubscribers \in Nat \ {0}
    /\ MaxPatterns \in Nat \ {0}
    /\ MaxListeners \in Nat \ {0}

VARIABLES
    subscribers,   \* a sequence: one entry per client
    listeners      \* a set of [peer, path]

registry == <<subscribers, listeners>>

Endpoint == [ip : Ips, port : Ports]

\* redirected is a history field: the entry asked for another delivery port.
Subscriber ==
    [endpoint : Endpoint, patterns : SUBSET Patterns, redirected : BOOLEAN]

Listener == [peer : Peers, path : Addresses]

\* No port given, or one that is out of range.
NoPort == 0

RegistryInit == subscribers = <<>> /\ listeners = {}

-----------------------------------------------------------------------------

\* endpoint_set_port(), for a valid port.
Redirect(s, port) ==
    IF port = NoPort THEN s
    ELSE [s EXCEPT !.endpoint.port = port, !.redirected = TRUE]

\* Mutant: the pattern limit is not tested.
MutantAddPattern(s, pattern) == [s EXCEPT !.patterns = @ \cup {pattern}]

\* One more pattern, unless the client has as many as it may.
AddPattern(s, pattern) ==
    IF Cardinality(s.patterns) >= MaxPatterns THEN s
    ELSE [s EXCEPT !.patterns = @ \cup {pattern}]

\* The entry that add and remove work on: the first with the sender's endpoint.
IsFirst(i, who) ==
    /\ i \in 1..Len(subscribers)
    /\ subscribers[i].endpoint = who
    /\ \A j \in 1..(i - 1) : subscribers[j].endpoint # who

Known(who) == \E i \in 1..Len(subscribers) : subscribers[i].endpoint = who

SubscribeAgain(who, pattern, port) ==
    \E i \in 1..Len(subscribers) :
        /\ IsFirst(i, who)
        /\ subscribers' = [subscribers EXCEPT
               ![i] = AddPattern(Redirect(subscribers[i], port), pattern)]
        /\ UNCHANGED listeners

SubscribeNew(who, pattern, port) ==
    /\ ~Known(who)
    /\ Len(subscribers) < MaxSubscribers
    /\ subscribers' = Append(subscribers,
           Redirect([endpoint |-> who, patterns |-> {pattern},
                     redirected |-> FALSE], port))
    /\ UNCHANGED listeners

\* osc_subscribe_add(); beyond the limits it changes nothing.
Subscribe(who, pattern, port) ==
    SubscribeAgain(who, pattern, port) \/ SubscribeNew(who, pattern, port)

Without(i) ==
    [j \in 1..(Len(subscribers) - 1) |->
        IF j < i THEN subscribers[j] ELSE subscribers[j + 1]]

\* osc_subscribe_remove(): one pattern, or all of them; an entry that is left
\* with none goes.
Unsubscribe(who, patterns) ==
    \E i \in 1..Len(subscribers) :
        /\ IsFirst(i, who)
        /\ LET left == subscribers[i].patterns \ patterns
           IN  subscribers' = IF left = {} THEN Without(i)
                              ELSE [subscribers EXCEPT ![i].patterns = left]
        /\ UNCHANGED listeners

ListenAdd(peer, path) ==
    /\ Cardinality(listeners) < MaxListeners
    /\ listeners' = listeners \cup {[peer |-> peer, path |-> path]}
    /\ UNCHANGED subscribers

ListenRemove(peer, path) ==
    /\ listeners' = listeners \ {[peer |-> peer, path |-> path]}
    /\ UNCHANGED subscribers

ListenRemovePeer(peer) ==
    /\ listeners' = {l \in listeners : l.peer # peer}
    /\ UNCHANGED subscribers

\* osc_handle_subscription(), on the UI thread.
HandleSubscription ==
    \E who \in Endpoint :
        \/ \E pattern \in Patterns, port \in DeliveryPorts \cup {NoPort} :
              Subscribe(who, pattern, port)
        \/ \E pattern \in Patterns : Unsubscribe(who, {pattern})
        \/ Unsubscribe(who, Patterns)

-----------------------------------------------------------------------------

Wants(s, address) == \E pattern \in s.patterns : <<pattern, address>> \in Matches

\* Mutant: the loop over the patterns goes on after the first match.
MutantCopies(e, address) ==
    Cardinality({x \in (1..Len(subscribers)) \X Patterns :
        /\ subscribers[x[1]].endpoint = e
        /\ x[2] \in subscribers[x[1]].patterns
        /\ <<x[2], address>> \in Matches})

\* How often osc_publish() lists an endpoint among its targets: once for every
\* entry of that endpoint that has a matching pattern.
Copies(e, address) ==
    Cardinality({i \in 1..Len(subscribers) :
        subscribers[i].endpoint = e /\ Wants(subscribers[i], address)})

Listening == [address \in Addresses |->
    {peer \in Peers : [peer |-> peer, path |-> address] \in listeners}]

-----------------------------------------------------------------------------

RegistryTypeOK ==
    /\ subscribers \in Seq(Subscriber)
    /\ listeners \subseteq Listener

\* The bounds that "keep a hostile network from growing the state without
\* end", and no client is kept that wants nothing.
RegistryBounded ==
    /\ Len(subscribers) <= MaxSubscribers
    /\ \A i \in 1..Len(subscribers) :
          /\ Cardinality(subscribers[i].patterns) <= MaxPatterns
          /\ subscribers[i].patterns # {}
    /\ Cardinality(listeners) <= MaxListeners

(***************************************************************************)
(* "endpoints are unique in the registry" (osc-subscribe.cpp:171), on the  *)
(* strength of which osc_subscribe_remove() stops at its first match. They *)
(* are not: osc_subscribe_add() looks the sender up and then stores the    *)
(* endpoint that delivery is redirected to.                                *)
(***************************************************************************)
EndpointsUnique ==
    \A i, j \in 1..Len(subscribers) :
        i # j => subscribers[i].endpoint # subscribers[j].endpoint

=============================================================================
