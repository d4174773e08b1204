------------------------- MODULE OscFeedbackProofs -------------------------
(***************************************************************************)
(* What TLAPS proves of the subscription registries and of an emission     *)
(* under every schedule of OscFeedback, for any set of clients, patterns,  *)
(* addresses and peers and any limits.                                     *)
(***************************************************************************)
EXTENDS OscFeedback, FiniteSetTheorems, TLAPS

USE OscSubscribeAssumption

\* Endpoints repeat by redirection only: SubscribeNew looks a client up first.
DirectClientsUnique ==
    \A i, j \in 1..Len(subscribers) :
        i < j /\ subscribers[i].endpoint = subscribers[j].endpoint =>
            subscribers[i].redirected \/ subscribers[j].redirected

\* Bounds are about cardinalities, which need finite sets.
RegistryInv ==
    /\ RegistryTypeOK
    /\ IsFiniteSet(listeners)
    /\ RegistryBounded
    /\ DirectClientsUnique

LEMMA PatternSets ==
  ASSUME NEW S \in SUBSET Patterns
  PROVE  IsFiniteSet(S) /\ Cardinality(S) \in Nat
BY FS_Subset, FS_CardinalityType DEF OscSubscribeAssumption

LEMMA AddPatternBounded ==
  ASSUME NEW s \in Subscriber, NEW pattern \in Patterns,
         Cardinality(s.patterns) <= MaxPatterns, s.patterns # {}
  PROVE  /\ AddPattern(s, pattern) \in Subscriber
         /\ Cardinality(AddPattern(s, pattern).patterns) <= MaxPatterns
         /\ AddPattern(s, pattern).patterns # {}
         /\ AddPattern(s, pattern).endpoint = s.endpoint
         /\ AddPattern(s, pattern).redirected = s.redirected
<1>1. s.patterns \in SUBSET Patterns
  BY DEF Subscriber
<1>2. IsFiniteSet(s.patterns) /\ Cardinality(s.patterns) \in Nat
  BY <1>1, PatternSets
<1>3. CASE Cardinality(s.patterns) >= MaxPatterns
  BY <1>3 DEF AddPattern
<1>4. CASE ~(Cardinality(s.patterns) >= MaxPatterns)
  <2> DEFINE S == s.patterns \cup {pattern}
  <2>1. AddPattern(s, pattern) = [s EXCEPT !.patterns = S]
    BY <1>4 DEF AddPattern
  <2>2. Cardinality(S) = Cardinality(s.patterns)
        \/ Cardinality(S) = Cardinality(s.patterns) + 1
    <3>1. IsFiniteSet(s.patterns)
      BY <1>2
    <3> QED
      BY <3>1, FS_AddElement
  <2>3. S \in SUBSET Patterns /\ S # {} /\ Cardinality(S) \in Nat
    BY <1>1, PatternSets
  <2>4. Cardinality(S) <= MaxPatterns
    BY <1>2, <1>4, <2>2, <2>3
  <2> HIDE DEF S
  <2> QED
    BY <2>1, <2>3, <2>4 DEF Subscriber
<1> QED
  BY <1>3, <1>4

LEMMA RedirectKeeps ==
  ASSUME NEW s \in Subscriber, NEW port \in Ports \cup {NoPort}
  PROVE  /\ Redirect(s, port) \in Subscriber
         /\ Redirect(s, port).patterns = s.patterns
         /\ Redirect(s, port).endpoint # s.endpoint => Redirect(s, port).redirected
         /\ s.redirected => Redirect(s, port).redirected
BY DEF Redirect, Subscriber, Endpoint

-----------------------------------------------------------------------------
(***************************************************************************)
(* One lemma per registry operation.                                       *)
(***************************************************************************)

\* What an entry must be like, and what two entries may not both be.
Sound(s) ==
    /\ s \in Subscriber
    /\ Cardinality(s.patterns) <= MaxPatterns
    /\ s.patterns # {}

MayCoexist(r, s) == r.endpoint = s.endpoint => r.redirected \/ s.redirected

\* The subscriber half of RegistryInv.
SubscriberInv ==
    /\ subscribers \in Seq(Subscriber)
    /\ Len(subscribers) <= MaxSubscribers
    /\ \A i \in 1..Len(subscribers) : Sound(subscribers[i])
    /\ \A i, j \in 1..Len(subscribers) :
          i < j => MayCoexist(subscribers[i], subscribers[j])

\* The listener half.
ListenerInv ==
    /\ listeners \subseteq Listener
    /\ IsFiniteSet(listeners)
    /\ Cardinality(listeners) <= MaxListeners

LEMMA Halves == RegistryInv <=> SubscriberInv /\ ListenerInv
<1>1. subscribers \in Seq(Subscriber) =>
        \A i \in 1..Len(subscribers) : subscribers[i] \in Subscriber
  OBVIOUS
<1> QED
  BY <1>1 DEF RegistryInv, SubscriberInv, ListenerInv, RegistryTypeOK, RegistryBounded,
     DirectClientsUnique, Sound, MayCoexist

\* Replacing an entry by one that is as good keeps the list good.
LEMMA Replace ==
  ASSUME SubscriberInv, NEW i \in 1..Len(subscribers), NEW s, Sound(s),
         \/ s.endpoint = subscribers[i].endpoint
         \/ s.redirected,
         subscribers[i].redirected => s.redirected,
         subscribers' = [subscribers EXCEPT ![i] = s]
  PROVE  SubscriberInv'
<1>1. /\ subscribers \in Seq(Subscriber)
      /\ s \in Subscriber
  BY DEF SubscriberInv, Sound
<1>2. /\ subscribers' \in Seq(Subscriber)
      /\ Len(subscribers') = Len(subscribers)
      /\ \A j \in 1..Len(subscribers) :
            subscribers'[j] = IF j = i THEN s ELSE subscribers[j]
  BY <1>1
<1>3. \A j \in 1..Len(subscribers') : Sound(subscribers'[j])
  BY <1>2 DEF SubscriberInv
<1>4. ASSUME NEW j \in 1..Len(subscribers'), NEW k \in 1..Len(subscribers'), j < k
      PROVE  MayCoexist(subscribers'[j], subscribers'[k])
  <2>1. MayCoexist(subscribers[j], subscribers[k])
    BY <1>2, <1>4 DEF SubscriberInv
  <2> QED
    BY <1>2, <1>4, <2>1 DEF MayCoexist
<1> QED
  BY <1>2, <1>3, <1>4 DEF SubscriberInv

LEMMA SubscribeAgainKeeps ==
  ASSUME SubscriberInv, NEW who, NEW pattern \in Patterns,
         NEW port \in Ports \cup {NoPort}, SubscribeAgain(who, pattern, port)
  PROVE  SubscriberInv'
<1>1. PICK i \in 1..Len(subscribers) :
        subscribers' = [subscribers EXCEPT
            ![i] = AddPattern(Redirect(subscribers[i], port), pattern)]
  BY DEF SubscribeAgain
<1> DEFINE r == Redirect(subscribers[i], port)
           s == AddPattern(r, pattern)
<1>2. Sound(subscribers[i])
  BY DEF SubscriberInv
<1>3. /\ r \in Subscriber
      /\ r.patterns = subscribers[i].patterns
      /\ r.endpoint # subscribers[i].endpoint => r.redirected
      /\ subscribers[i].redirected => r.redirected
  BY <1>2, RedirectKeeps DEF Sound
<1>4. Cardinality(r.patterns) <= MaxPatterns /\ r.patterns # {}
  BY <1>2, <1>3 DEF Sound
<1> HIDE DEF r
<1>5. Sound(s) /\ s.endpoint = r.endpoint /\ s.redirected = r.redirected
  BY <1>3, <1>4, AddPatternBounded DEF Sound
<1>6. subscribers' = [subscribers EXCEPT ![i] = s]
  BY <1>1 DEF r
<1> HIDE DEF s
<1> QED
  BY <1>3, <1>5, <1>6, Replace

LEMMA SubscribeNewKeeps ==
  ASSUME SubscriberInv, NEW who \in Endpoint, NEW pattern \in Patterns,
         NEW port \in Ports \cup {NoPort}, SubscribeNew(who, pattern, port)
  PROVE  SubscriberInv'
<1> DEFINE f == [endpoint |-> who, patterns |-> {pattern}, redirected |-> FALSE]
           s == Redirect(f, port)
           n == Len(subscribers)
<1>1. /\ subscribers' = Append(subscribers, s)
      /\ n < MaxSubscribers
      /\ \A i \in 1..n : subscribers[i].endpoint # who
  BY DEF SubscribeNew, Known
<1>2. /\ f \in Subscriber
      /\ f.patterns = {pattern}
      /\ f.endpoint = who
  BY DEF Subscriber
<1> HIDE DEF f
<1>3. /\ s \in Subscriber
      /\ s.patterns = {pattern}
      /\ s.endpoint # who => s.redirected
  BY <1>2, RedirectKeeps
<1>4. Cardinality({pattern}) = 1
  BY FS_Singleton
<1>5. Sound(s)
  BY <1>3, <1>4 DEF Sound, OscSubscribeAssumption
<1> HIDE DEF s
<1>6. /\ subscribers \in Seq(Subscriber)
      /\ n \in Nat
  BY DEF SubscriberInv
<1>7. /\ subscribers' \in Seq(Subscriber)
      /\ Len(subscribers') = n + 1
      /\ \A i \in 1..n : subscribers'[i] = subscribers[i]
      /\ subscribers'[n + 1] = s
  BY <1>1, <1>3, <1>6
<1>8. \A i \in 1..(n + 1) : i # n + 1 => i \in 1..n
  BY <1>6
<1>9. \A i \in 1..Len(subscribers') : Sound(subscribers'[i])
  BY <1>5, <1>7, <1>8 DEF SubscriberInv
<1>10. ASSUME NEW i \in 1..Len(subscribers'), NEW j \in 1..Len(subscribers'), i < j
       PROVE  MayCoexist(subscribers'[i], subscribers'[j])
  <2>1. i \in 1..n
    BY <1>6, <1>7, <1>10
  <2>2. CASE j = n + 1
    BY <2>1, <2>2, <1>1, <1>3, <1>7 DEF MayCoexist
  <2>3. CASE j # n + 1
    BY <2>1, <2>3, <1>7, <1>8, <1>10 DEF SubscriberInv
  <2> QED
    BY <2>2, <2>3
<1>11. Len(subscribers') <= MaxSubscribers
  BY <1>1, <1>6, <1>7 DEF OscSubscribeAssumption
<1> QED
  BY <1>7, <1>9, <1>10, <1>11 DEF SubscriberInv

LEMMA UnsubscribeKeeps ==
  ASSUME SubscriberInv, NEW who, NEW patterns, Unsubscribe(who, patterns)
  PROVE  SubscriberInv'
<1> DEFINE n == Len(subscribers)
<1>1. PICK i \in 1..n :
        subscribers' = IF subscribers[i].patterns \ patterns = {} THEN Without(i)
                       ELSE [subscribers EXCEPT
                                ![i].patterns = subscribers[i].patterns \ patterns]
  BY DEF Unsubscribe
<1>2. /\ subscribers \in Seq(Subscriber)
      /\ n \in Nat
      /\ Sound(subscribers[i])
  BY DEF SubscriberInv
<1> DEFINE left == subscribers[i].patterns \ patterns
<1>3. CASE left = {}
  <2>1. subscribers' = Without(i)
    BY <1>1, <1>3
  <2>2. /\ subscribers' \in Seq(Subscriber)
        /\ Len(subscribers') = n - 1
        /\ \A k \in 1..(n - 1) :
              subscribers'[k] = subscribers[IF k < i THEN k ELSE k + 1]
    BY <1>2, <2>1 DEF Without
  <2>3. \A k \in 1..(n - 1) : (IF k < i THEN k ELSE k + 1) \in 1..n
    BY <1>2
  <2>4. \A k \in 1..Len(subscribers') : Sound(subscribers'[k])
    BY <2>2, <2>3 DEF SubscriberInv
  <2>5. ASSUME NEW j \in 1..(n - 1), NEW k \in 1..(n - 1), j < k
        PROVE  MayCoexist(subscribers'[j], subscribers'[k])
    <3>1. (IF j < i THEN j ELSE j + 1) < (IF k < i THEN k ELSE k + 1)
      BY <1>2, <2>5
    <3> QED
      BY <2>2, <2>3, <3>1 DEF SubscriberInv
  <2>6. Len(subscribers') <= MaxSubscribers
    BY <1>2, <2>2 DEF SubscriberInv, OscSubscribeAssumption
  <2> QED
    BY <2>2, <2>4, <2>5, <2>6 DEF SubscriberInv
<1>4. CASE left # {}
  <2> DEFINE s == [subscribers[i] EXCEPT !.patterns = left]
  <2>1. subscribers' = [subscribers EXCEPT ![i] = s]
    BY <1>1, <1>4
  <2>2. subscribers[i] \in Subscriber
    BY <1>2 DEF Sound
  <2>3. /\ s \in Subscriber
        /\ s.patterns = left
        /\ s.endpoint = subscribers[i].endpoint
        /\ s.redirected = subscribers[i].redirected
    BY <2>2 DEF Subscriber
  <2>4. Cardinality(left) <= MaxPatterns
    <3>1. subscribers[i].patterns \in SUBSET Patterns
      BY <2>2 DEF Subscriber
    <3>2. left \in SUBSET subscribers[i].patterns /\ left \in SUBSET Patterns
      BY <3>1
    <3>3. Cardinality(left) <= Cardinality(subscribers[i].patterns)
      BY <3>1, <3>2, PatternSets, FS_Subset
    <3>4. Cardinality(left) \in Nat /\ Cardinality(subscribers[i].patterns) \in Nat
      BY <3>1, <3>2, PatternSets
    <3>5. Cardinality(subscribers[i].patterns) <= MaxPatterns
      BY <1>2 DEF Sound
    <3> HIDE DEF left
    <3> QED
      BY <3>3, <3>4, <3>5 DEF OscSubscribeAssumption
  <2>5. Sound(s)
    BY <1>4, <2>3, <2>4 DEF Sound
  <2> HIDE DEF s
  <2> QED
    BY <2>1, <2>3, <2>5, Replace
<1> QED
  BY <1>3, <1>4

LEMMA ListenAddKeeps ==
  ASSUME ListenerInv, NEW peer \in Peers, NEW path \in Addresses,
         ListenAdd(peer, path)
  PROVE  ListenerInv'
<1> DEFINE l == [peer |-> peer, path |-> path]
<1>1. listeners' = listeners \cup {l} /\ Cardinality(listeners) < MaxListeners
  BY DEF ListenAdd
<1>2. l \in Listener
  BY DEF Listener
<1> HIDE DEF l
<1>3. Cardinality(listeners) \in Nat
  BY FS_CardinalityType DEF ListenerInv
<1>4. /\ IsFiniteSet(listeners')
      /\ \/ Cardinality(listeners') = Cardinality(listeners)
         \/ Cardinality(listeners') = Cardinality(listeners) + 1
  BY <1>1, FS_AddElement DEF ListenerInv
<1>5. Cardinality(listeners') <= MaxListeners
  BY <1>1, <1>3, <1>4 DEF OscSubscribeAssumption
<1> QED
  BY <1>1, <1>2, <1>4, <1>5 DEF ListenerInv

LEMMA FewerListeners ==
  ASSUME ListenerInv, listeners' \subseteq listeners
  PROVE  ListenerInv'
<1>1. IsFiniteSet(listeners') /\ Cardinality(listeners') <= Cardinality(listeners)
  BY FS_Subset DEF ListenerInv
<1>2. Cardinality(listeners) \in Nat /\ Cardinality(listeners') \in Nat
  BY <1>1, FS_CardinalityType DEF ListenerInv
<1> QED
  BY <1>1, <1>2 DEF ListenerInv, OscSubscribeAssumption

-----------------------------------------------------------------------------

LEMMA SubscriberStutter == SubscriberInv /\ UNCHANGED subscribers => SubscriberInv'
BY DEF SubscriberInv

LEMMA HandleKeeps ==
  ASSUME SubscriberInv, HandleSubscription
  PROVE  SubscriberInv' /\ UNCHANGED listeners
<1>1. PICK who \in Endpoint :
        \/ \E pattern \in Patterns, port \in DeliveryPorts \cup {NoPort} :
              Subscribe(who, pattern, port)
        \/ \E pattern \in Patterns : Unsubscribe(who, {pattern})
        \/ Unsubscribe(who, Patterns)
  BY DEF HandleSubscription
<1>2. ASSUME NEW pattern \in Patterns, NEW port \in DeliveryPorts \cup {NoPort},
             Subscribe(who, pattern, port)
      PROVE  SubscriberInv' /\ UNCHANGED listeners
  <2>1. port \in Ports \cup {NoPort}
    BY DEF OscSubscribeAssumption
  <2>2. UNCHANGED listeners
    BY <1>2 DEF Subscribe, SubscribeAgain, SubscribeNew
  <2> QED
    BY <1>2, <2>1, <2>2, SubscribeAgainKeeps, SubscribeNewKeeps DEF Subscribe
<1>3. ASSUME NEW patterns, Unsubscribe(who, patterns)
      PROVE  SubscriberInv' /\ UNCHANGED listeners
  BY <1>3, UnsubscribeKeeps DEF Unsubscribe
<1> QED
  BY <1>1, <1>2, <1>3

LEMMA RegistryNext == SubscriberInv /\ ListenerInv /\ [Next]_vars
                      => SubscriberInv' /\ ListenerInv'
<1> SUFFICES ASSUME SubscriberInv, ListenerInv, [Next]_vars
             PROVE  SubscriberInv' /\ ListenerInv'
  OBVIOUS
<1>0. ASSUME UNCHANGED listeners PROVE ListenerInv'
  BY <1>0 DEF ListenerInv
<1>1. CASE UiSubscription
  BY <1>1, <1>0, HandleKeeps DEF UiSubscription
<1>2. CASE \E peer \in Peers, path \in Addresses : PeerListen(peer, path)
  <2>1. PICK peer \in Peers, path \in Addresses :
          ListenAdd(peer, path) \/ ListenRemove(peer, path)
    BY <1>2 DEF PeerListen
  <2>2. UNCHANGED subscribers
    BY <2>1 DEF ListenAdd, ListenRemove
  <2> QED
    BY <2>1, <2>2, SubscriberStutter, ListenAddKeeps, FewerListeners DEF ListenRemove
<1>3. CASE \E peer \in Peers : PeerGone(peer)
  BY <1>3, SubscriberStutter, FewerListeners DEF PeerGone, ListenRemovePeer
<1>4. CASE \/ UiTarget \/ LastSender
           \/ \E peer \in Peers : PeerConnect(peer)
           \/ \E t \in Emitters : Emit(t)
           \/ UNCHANGED vars
  <2>1. UNCHANGED <<subscribers, listeners>>
    BY <1>4 DEF UiTarget, LastSender, PeerConnect, Emit, Begin, Gate, GateLast, Publish,
       Deliver, SendFixed, SendLast, Return, Step, vars, registry
  <2> QED
    BY <2>1, <1>0, SubscriberStutter
<1> QED
  BY <1>1, <1>2, <1>3, <1>4 DEF Next, Others

LEMMA RegistryInitOK == Init => SubscriberInv /\ ListenerInv
BY FS_EmptySet DEF Init, RegistryInit, SubscriberInv, ListenerInv,
   OscSubscribeAssumption

\* The registries never outgrow their limits and keep no client that wants
\* nothing, and a client that was never redirected has one entry: under every
\* interleaving of subscriptions, listeners, disconnects and emissions.
THEOREM RegistryAlways ==
  Spec => [](RegistryTypeOK /\ RegistryBounded /\ DirectClientsUnique)
<1>1. Spec => [](SubscriberInv /\ ListenerInv)
  BY RegistryInitOK, RegistryNext, PTL DEF Spec
<1>2. SubscriberInv /\ ListenerInv =>
        RegistryTypeOK /\ RegistryBounded /\ DirectClientsUnique
  BY Halves DEF RegistryInv
<1> QED
  BY <1>1, <1>2, PTL

-----------------------------------------------------------------------------
(***************************************************************************)
(* An emission that runs beside subscriptions, LISTEN registrations,       *)
(* disconnects and other emissions: who stood by gets it.                  *)
(***************************************************************************)
\* Everything but the registries.
EmissionType ==
    /\ last \in Endpoint \cup {Nobody}
    /\ fixed \in BOOLEAN
    /\ open \subseteq Peers
    /\ em \in [Emitters -> Emission]

\* What the history of an emission says of the present, phase by phase.
BeforeOK(m) ==
    m.pc \in BeforeSnapshot =>
        /\ m.stood \subseteq Wanting[m.address]
        /\ Wanting[m.address] \subseteq m.ever
        /\ m.stood # {} => m.had
        /\ m.stoodPeer \subseteq Listening[m.address] \cap open

DeliverOK(m) ==
    m.pc = "deliver" =>
        /\ m.stood \subseteq {e \in Endpoint : m.copies[e] > 0}
        /\ {e \in Endpoint : m.copies[e] > 0} \subseteq m.ever
        /\ m.stoodPeer \subseteq m.peers \cap open

ServedOK(m) ==
    m.pc \in {"fixed", "last", "done"} =>
        /\ m.missed = {} /\ m.unasked = {}
        /\ ~m.skipped => m.missedPeer = {}

BroadcastOK(m) ==
    /\ m.pc = "gateLast" => ~m.had
    /\ m.pc \notin {"idle", "done"} =>
          /\ m.alwaysSub => m.had
          /\ m.alwaysOld => ~m.had /\ OldAudience
          /\ m.toLast = Nobody
    /\ m.pc = "done" =>
          /\ m.alwaysSub => m.toLast = Nobody
          /\ m.alwaysOld => m.toLast # Nobody

EmissionOK(m) == BeforeOK(m) /\ DeliverOK(m) /\ ServedOK(m) /\ BroadcastOK(m)

EmissionInv == EmissionType /\ \A t \in Emitters : EmissionOK(em[t])

-----------------------------------------------------------------------------
(***************************************************************************)
(* Counting the entries of an endpoint.                                    *)
(***************************************************************************)

Entries(e, address) ==
    {i \in 1..Len(subscribers) :
        subscribers[i].endpoint = e /\ Wants(subscribers[i], address)}

LEMMA CopiesAreEntries ==
  ASSUME SubscriberInv, NEW e, NEW address
  PROVE  /\ IsFiniteSet(Entries(e, address))
         /\ Copies(e, address) = Cardinality(Entries(e, address))
         /\ Copies(e, address) \in Nat
<1>1. Len(subscribers) \in Nat
  BY DEF SubscriberInv
<1>2. IsFiniteSet(1..Len(subscribers))
  BY <1>1, FS_Interval
<1>3. IsFiniteSet(Entries(e, address))
  BY <1>2, FS_Subset DEF Entries
<1>4. Copies(e, address) = Cardinality(Entries(e, address))
  BY DEF Copies, Entries
<1> QED
  BY <1>3, <1>4, FS_CardinalityType

\* Nobody wants anything when there is no subscriber.
LEMMA WantingNeedsSubscribers ==
  ASSUME SubscriberInv, NEW address \in Addresses, Wanting[address] # {}
  PROVE  HasSubscribers
<1>1. PICK e \in Endpoint : Copies(e, address) > 0
  BY DEF Wanting
<1> SUFFICES ASSUME subscribers = <<>> PROVE FALSE
  BY DEF HasSubscribers
<1>2. Entries(e, address) = {}
  BY DEF Entries
<1>3. Copies(e, address) = 0
  BY <1>2, CopiesAreEntries, FS_EmptySet
<1> QED
  BY <1>1, <1>3

\* An endpoint without redirected entries has one at most.
LEMMA DirectCopies ==
  ASSUME SubscriberInv, NEW e \in Endpoint, NEW address,
         \A i \in 1..Len(subscribers) :
            subscribers[i].endpoint = e => ~subscribers[i].redirected
  PROVE  Copies(e, address) <= 1
<1>1. ASSUME NEW i \in Entries(e, address), NEW j \in Entries(e, address), i < j
      PROVE  FALSE
  BY <1>1 DEF Entries, SubscriberInv, MayCoexist
<1>2. Entries(e, address) \subseteq Int
  BY DEF Entries
<1>3. \A i, j \in Entries(e, address) : i = j
  BY <1>1, <1>2
<1>4. CASE Entries(e, address) = {}
  BY <1>4, CopiesAreEntries, FS_EmptySet
<1>5. ASSUME NEW i \in Entries(e, address) PROVE Copies(e, address) <= 1
  <2>1. Entries(e, address) = {i}
    BY <1>3
  <2>2. Cardinality(Entries(e, address)) = 1
    BY <2>1, FS_Singleton
  <2> QED
    BY <2>2, CopiesAreEntries
<1> QED
  BY <1>4, <1>5

-----------------------------------------------------------------------------
(***************************************************************************)
(* One step seen by one emission.                                          *)
(***************************************************************************)

LEMMA WantingType ==
  ASSUME NEW address \in Addresses
  PROVE  /\ Wanting[address] = {e \in Endpoint : Copies(e, address) > 0}
         /\ Wanting[address] \subseteq Endpoint
         /\ Listening[address] \subseteq Peers
BY DEF Wanting, Listening

\* Whatever the other threads do, an emission they watch over stays sound.
LEMMA WatchKeeps ==
  ASSUME NEW m \in Emission, NEW n, n = Watch(m), EmissionOK(m)
  PROVE  n \in Emission /\ EmissionOK(n)'
<1>1. m.address \in Addresses
  BY DEF Emission
<1>2. Wanting'[m.address] \subseteq Endpoint
  BY <1>1 DEF Wanting
<1>3. CASE m.pc \in {"idle", "done"}
  <2>1. n = m
    BY <1>3 DEF Watch
  <2> QED
    BY <1>3, <2>1 DEF EmissionOK, BeforeOK, DeliverOK, ServedOK, BroadcastOK,
       BeforeSnapshot
<1>4. CASE m.pc \in BeforeSnapshot
  <2>1. n = [m EXCEPT
               !.alwaysSub = @ /\ HasSubscribers',
               !.alwaysOld = @ /\ OldAudience',
               !.stood     = @ \cap Wanting'[m.address],
               !.ever      = @ \cup Wanting'[m.address],
               !.stoodPeer = @ \cap Listening'[m.address] \cap open']
    BY <1>4 DEF Watch, BeforeSnapshot
  <2>2. n \in Emission
    <3> DEFINE b == m.alwaysSub /\ HasSubscribers'
               c == m.alwaysOld /\ OldAudience'
               S == m.stood \cap Wanting'[m.address]
               T == m.ever \cup Wanting'[m.address]
               P == m.stoodPeer \cap Listening'[m.address] \cap open'
    <3>1. b \in BOOLEAN /\ c \in BOOLEAN
      OBVIOUS
    <3>2. S \in SUBSET Endpoint /\ T \in SUBSET Endpoint /\ P \in SUBSET Peers
      BY <1>2 DEF Emission
    <3>3. n = [m EXCEPT !.alwaysSub = b, !.alwaysOld = c, !.stood = S, !.ever = T,
                        !.stoodPeer = P]
      BY <2>1
    <3> HIDE DEF b, c, S, T, P
    <3> QED
      BY <3>1, <3>2, <3>3, ZenonT(40) DEF Emission
  <2>3. EmissionOK(n)'
    BY <1>4, <2>1 DEF EmissionOK, BeforeOK, DeliverOK, ServedOK, BroadcastOK,
       BeforeSnapshot, Emission
  <2> QED
    BY <2>2, <2>3
<1>5. CASE m.pc \in {"deliver", "fixed", "last"}
  <2>1. n = [m EXCEPT
               !.alwaysSub = @ /\ HasSubscribers',
               !.alwaysOld = @ /\ OldAudience',
               !.stood     = @,
               !.ever      = @,
               !.stoodPeer = @ \cap Listening'[m.address] \cap open']
    BY <1>5 DEF Watch, BeforeSnapshot
  <2>2. n \in Emission
    <3> DEFINE b == m.alwaysSub /\ HasSubscribers'
               c == m.alwaysOld /\ OldAudience'
               P == m.stoodPeer \cap Listening'[m.address] \cap open'
    <3>1. b \in BOOLEAN /\ c \in BOOLEAN
      OBVIOUS
    <3>2. P \in SUBSET Peers
      BY DEF Emission
    <3>3. n = [m EXCEPT !.alwaysSub = b, !.alwaysOld = c, !.stood = m.stood,
                        !.ever = m.ever, !.stoodPeer = P]
      BY <2>1
    <3> HIDE DEF b, c, P
    <3> QED
      BY <3>1, <3>2, <3>3, ZenonT(40) DEF Emission
  <2>3. EmissionOK(n)'
    BY <1>5, <2>1 DEF EmissionOK, BeforeOK, DeliverOK, ServedOK, BroadcastOK,
       BeforeSnapshot, Emission
  <2> QED
    BY <2>2, <2>3
<1> QED
  BY <1>3, <1>4, <1>5 DEF Emission, BeforeSnapshot

LEMMA EmissionKept ==
  ASSUME UNCHANGED <<registry, last, fixed, open>>, NEW m \in Emission, EmissionOK(m)
  PROVE  EmissionOK(m)'
<1>1. Wanting' = Wanting /\ Listening' = Listening /\ OldAudience' = OldAudience
  BY DEF Wanting, Listening, OldAudience, HasSubscribers, Copies, Wants, registry
<1> QED
  BY <1>1 DEF EmissionOK, BeforeOK, DeliverOK, ServedOK, BroadcastOK

\* An emission moves on: it is enough to look at its new state.
LEMMA StepKeeps ==
  ASSUME EmissionInv, NEW t \in Emitters, NEW m \in Emission, EmissionOK(m), Step(t, m)
  PROVE  EmissionInv'
<1>1. UNCHANGED <<registry, last, fixed, open>> /\ em' = [em EXCEPT ![t] = m]
  BY DEF Step
<1>2. EmissionType'
  BY <1>1 DEF EmissionInv, EmissionType
<1>3. ASSUME NEW u \in Emitters PROVE EmissionOK(em[u])'
  <2>1. em[u] \in Emission /\ em \in [Emitters -> Emission]
    BY DEF EmissionInv, EmissionType
  <2>2. PICK n \in Emission : n = em'[u] /\ EmissionOK(n)
    BY <1>1, <2>1 DEF EmissionInv
  <2>3. EmissionOK(n)'
    BY <1>1, <2>2, EmissionKept
  <2> QED
    BY <2>2, <2>3 DEF EmissionOK, BeforeOK, DeliverOK, ServedOK, BroadcastOK
<1> QED
  BY <1>2, <1>3 DEF EmissionInv

\* Another thread moves on, watched.
LEMMA WatchedKeeps ==
  ASSUME EmissionInv, Watched,
         last' \in Endpoint \cup {Nobody}, fixed' \in BOOLEAN, open' \subseteq Peers
  PROVE  EmissionInv'
<1>1. em' = [t \in Emitters |-> Watch(em[t])]
  BY DEF Watched
<1>2. ASSUME NEW t \in Emitters PROVE em'[t] \in Emission /\ EmissionOK(em[t])'
  <2>1. em[t] \in Emission /\ EmissionOK(em[t])
    BY DEF EmissionInv, EmissionType
  <2>2. PICK n : n = em'[t] /\ n = Watch(em[t])
    BY <1>1
  <2>3. n \in Emission /\ EmissionOK(n)'
    BY <2>1, <2>2, WatchKeeps
  <2> QED
    BY <2>2, <2>3 DEF EmissionOK, BeforeOK, DeliverOK, ServedOK, BroadcastOK
<1>3. EmissionType'
  BY <1>1, <1>2 DEF EmissionType
<1> QED
  BY <1>2, <1>3 DEF EmissionInv

LEMMA OthersKeep == EmissionInv /\ Others => EmissionInv'
<1> SUFFICES ASSUME EmissionInv, Others PROVE EmissionInv'
  OBVIOUS
<1>1. Watched
  BY DEF Others, UiSubscription, UiTarget, LastSender, PeerConnect, PeerGone, PeerListen
<1>2. /\ last \in Endpoint \cup {Nobody} /\ fixed \in BOOLEAN /\ open \subseteq Peers
  BY DEF EmissionInv, EmissionType
<1>3. last' \in Endpoint \cup {Nobody}
  BY <1>2 DEF Others, UiSubscription, UiTarget, LastSender, PeerConnect, PeerGone,
     PeerListen
<1>4. fixed' \in BOOLEAN
  BY <1>2 DEF Others, UiSubscription, UiTarget, LastSender, PeerConnect, PeerGone,
     PeerListen
<1>5. open' \subseteq Peers
  BY <1>2 DEF Others, UiSubscription, UiTarget, LastSender, PeerConnect, PeerGone,
     PeerListen
<1> QED
  BY <1>1, <1>3, <1>4, <1>5, WatchedKeeps

-----------------------------------------------------------------------------
(***************************************************************************)
(* The steps of an emission.                                               *)
(***************************************************************************)

LEMMA FreshType ==
  ASSUME NEW a \in Addresses
  PROVE  Fresh(a) \in Emission /\ EmissionOK(Fresh(a))
<1>1. NoCopies \in [Endpoint -> Nat]
  BY DEF NoCopies
<1>2. Fresh(a) \in Emission
  BY <1>1 DEF Fresh, Emission
<1>3. Fresh(a).pc = "idle"
  BY DEF Fresh
<1> QED
  BY <1>2, <1>3 DEF EmissionOK, BeforeOK, DeliverOK, ServedOK, BroadcastOK,
     BeforeSnapshot

LEMMA BeginKeeps ==
  ASSUME EmissionInv, SubscriberInv, NEW t \in Emitters, Begin(t)
  PROVE  EmissionInv'
<1>1. PICK a \in Addresses :
        Step(t, [Fresh(a) EXCEPT
              !.pc = "gate", !.had = HasSubscribers,
              !.stood = Wanting[a], !.ever = Wanting[a],
              !.stoodPeer = Listening[a] \cap open,
              !.alwaysSub = HasSubscribers, !.alwaysOld = OldAudience])
  BY DEF Begin
<1> DEFINE m == [Fresh(a) EXCEPT
              !.pc = "gate", !.had = HasSubscribers,
              !.stood = Wanting[a], !.ever = Wanting[a],
              !.stoodPeer = Listening[a] \cap open,
              !.alwaysSub = HasSubscribers, !.alwaysOld = OldAudience]
<1>2. HasSubscribers \in BOOLEAN /\ OldAudience \in BOOLEAN
  BY DEF HasSubscribers, OldAudience
<1>3. OldAudience => ~HasSubscribers
  BY DEF OldAudience
<1>4. m \in Emission
  <2> DEFINE b == HasSubscribers
             c == OldAudience
             S == Wanting[a]
             P == Listening[a] \cap open
             f == Fresh(a)
  <2>1. b \in BOOLEAN /\ c \in BOOLEAN
    BY <1>2
  <2>2. S \in SUBSET Endpoint /\ P \in SUBSET Peers
    BY WantingType
  <2>3. f \in Emission
    BY FreshType
  <2>4. m = [f EXCEPT !.pc = "gate", !.had = b, !.stood = S, !.ever = S,
                      !.stoodPeer = P, !.alwaysSub = b, !.alwaysOld = c]
    OBVIOUS
  <2> HIDE DEF b, c, S, P, f, m
  <2> QED
    BY <2>1, <2>2, <2>3, <2>4 DEF Emission
<1>5. /\ m.pc = "gate" /\ m.address = a /\ m.toLast = Nobody
      /\ m.had = HasSubscribers /\ m.alwaysSub = HasSubscribers
      /\ m.alwaysOld = OldAudience
      /\ m.stood = Wanting[a] /\ m.ever = Wanting[a]
      /\ m.stoodPeer = Listening[a] \cap open
  BY DEF Fresh
<1>6. Wanting[a] # {} => HasSubscribers
  BY WantingNeedsSubscribers
<1> HIDE DEF m
<1>7. EmissionOK(m)
  BY <1>3, <1>5, <1>6 DEF EmissionOK, BeforeOK, DeliverOK, ServedOK, BroadcastOK,
     BeforeSnapshot
<1>8. Step(t, m)
  BY <1>1 DEF m
<1> QED
  BY <1>4, <1>7, <1>8, StepKeeps

LEMMA GateKeeps ==
  ASSUME EmissionInv, NEW t \in Emitters, Gate(t) \/ GateLast(t)
  PROVE  EmissionInv'
<1>1. em[t] \in Emission /\ EmissionOK(em[t])
  BY DEF EmissionInv, EmissionType
<1>2. ASSUME NEW pc \in {"gateLast", "publish"}, em[t].pc \in {"gate", "gateLast"},
             pc = "gateLast" => ~em[t].had, Step(t, [em[t] EXCEPT !.pc = pc])
      PROVE  EmissionInv'
  <2> DEFINE m == [em[t] EXCEPT !.pc = pc]
  <2>1. m \in Emission
    BY <1>1, <1>2 DEF Emission
  <2>2. EmissionOK(m)
    BY <1>1, <1>2 DEF EmissionOK, BeforeOK, DeliverOK, ServedOK, BroadcastOK,
       BeforeSnapshot, Emission
  <2> QED
    BY <1>2, <2>1, <2>2, StepKeeps
<1>3. CASE Gate(t)
  BY <1>2, <1>3 DEF Gate, Receiver
<1>4. CASE GateLast(t) /\ last # Nobody
  BY <1>2, <1>4 DEF GateLast
<1>5. CASE GateLast(t) /\ last = Nobody
  <2> DEFINE m == [Served(em[t], {}, {}) EXCEPT !.pc = "done", !.skipped = TRUE]
  <2>1. em[t].pc = "gateLast" /\ Step(t, m)
    BY <1>5 DEF GateLast
  <2>2. NoCopies \in [Endpoint -> Nat]
    BY DEF NoCopies
  <2>3. em[t].stood = {}
    BY <1>1, <2>1 DEF EmissionOK, BeforeOK, BroadcastOK, BeforeSnapshot
  <2>4. m = [em[t] EXCEPT !.pc = "done", !.skipped = TRUE,
              !.missed = {}, !.unasked = {}, !.missedPeer = em[t].stoodPeer,
              !.copies = NoCopies, !.peers = {},
              !.stood = {}, !.ever = {}, !.stoodPeer = {}]
    BY <1>1, <2>3, ZenonT(40) DEF Served, Emission
  <2> HIDE DEF m
  <2>5. m \in Emission
    BY <1>1, <2>2, <2>4 DEF Emission
  <2>6. ~em[t].alwaysOld
    BY <1>1, <1>5, <2>1 DEF EmissionOK, BroadcastOK, OldAudience
  <2>7. em[t].toLast = Nobody
    BY <1>1, <2>1 DEF EmissionOK, BroadcastOK
  <2>8. /\ m.pc = "done" /\ m.skipped = TRUE /\ m.missed = {} /\ m.unasked = {}
        /\ m.toLast = Nobody /\ m.alwaysOld = em[t].alwaysOld
    BY <1>1, <2>4, <2>7 DEF Emission
  <2>9. EmissionOK(m)
    BY <2>6, <2>8 DEF EmissionOK, BeforeOK, DeliverOK, ServedOK, BroadcastOK,
       BeforeSnapshot
  <2> QED
    BY <2>1, <2>5, <2>9, StepKeeps
<1> QED
  BY <1>3, <1>4, <1>5

LEMMA PublishKeeps ==
  ASSUME EmissionInv, SubscriberInv, NEW t \in Emitters, Publish(t)
  PROVE  EmissionInv'
<1> DEFINE a == em[t].address
           C == [e \in Endpoint |-> Copies(e, a)]
           m == [em[t] EXCEPT !.pc = "deliver", !.copies = C, !.peers = Listening[a]]
<1>1. em[t] \in Emission /\ EmissionOK(em[t]) /\ a \in Addresses
  BY DEF EmissionInv, EmissionType, Emission
<1>2. em[t].pc = "publish" /\ Step(t, m)
  BY DEF Publish
<1>3. C \in [Endpoint -> Nat]
  BY CopiesAreEntries
<1>4. Wanting[a] = {e \in Endpoint : C[e] > 0} /\ Listening[a] \in SUBSET Peers
  BY <1>1, WantingType
<1> HIDE DEF C
<1>5. m \in Emission
  BY <1>1, <1>3, <1>4 DEF Emission
<1>6. /\ m.pc = "deliver" /\ m.copies = C /\ m.peers = Listening[a]
      /\ m.stood = em[t].stood /\ m.ever = em[t].ever
      /\ m.stoodPeer = em[t].stoodPeer /\ m.had = em[t].had
      /\ m.alwaysSub = em[t].alwaysSub /\ m.alwaysOld = em[t].alwaysOld
      /\ m.toLast = em[t].toLast
  BY <1>1 DEF Emission
<1> HIDE DEF m
<1>7. BeforeOK(m) /\ ServedOK(m)
  BY <1>6 DEF BeforeOK, ServedOK, BeforeSnapshot
<1>8. DeliverOK(m)
  BY <1>1, <1>2, <1>4, <1>6 DEF EmissionOK, BeforeOK, DeliverOK, BeforeSnapshot
<1>9. BroadcastOK(m)
  BY <1>1, <1>2, <1>6 DEF EmissionOK, BroadcastOK
<1> QED
  BY <1>2, <1>5, <1>7, <1>8, <1>9, StepKeeps DEF EmissionOK

LEMMA DeliverKeeps ==
  ASSUME EmissionInv, NEW t \in Emitters, Deliver(t)
  PROVE  EmissionInv'
<1> DEFINE told == {e \in Endpoint : em[t].copies[e] > 0}
           R == Reached(em[t])
           m == [Served(em[t], told, R) EXCEPT !.pc = "fixed"]
<1>1. em[t] \in Emission /\ EmissionOK(em[t])
  BY DEF EmissionInv, EmissionType
<1>2. em[t].pc = "deliver" /\ Step(t, m)
  BY DEF Deliver
<1>3. /\ em[t].stood \ told = {} /\ told \ em[t].ever = {}
      /\ em[t].stoodPeer \ R = {}
  BY <1>1, <1>2 DEF EmissionOK, DeliverOK, Reached
<1>4. m = [em[t] EXCEPT !.pc = "fixed", !.missed = {}, !.unasked = {},
              !.missedPeer = {}, !.copies = NoCopies, !.peers = {},
              !.stood = {}, !.ever = {}, !.stoodPeer = {}]
  BY <1>1, <1>3 DEF Served, Emission
<1> HIDE DEF told, R, m
<1>5. NoCopies \in [Endpoint -> Nat]
  BY DEF NoCopies
<1>6. m \in Emission
  BY <1>1, <1>4, <1>5 DEF Emission
<1>7. /\ m.pc = "fixed" /\ m.missed = {} /\ m.unasked = {} /\ m.missedPeer = {}
      /\ m.had = em[t].had /\ m.toLast = em[t].toLast
      /\ m.alwaysSub = em[t].alwaysSub /\ m.alwaysOld = em[t].alwaysOld
  BY <1>1, <1>4 DEF Emission
<1>8. EmissionOK(m)
  BY <1>1, <1>2, <1>7 DEF EmissionOK, BeforeOK, DeliverOK, ServedOK, BroadcastOK,
     BeforeSnapshot
<1> QED
  BY <1>2, <1>6, <1>8, StepKeeps

LEMMA SendKeeps ==
  ASSUME EmissionInv, NEW t \in Emitters, SendFixed(t) \/ SendLast(t)
  PROVE  EmissionInv'
<1>1. em[t] \in Emission /\ EmissionOK(em[t])
  BY DEF EmissionInv, EmissionType
<1>2. CASE SendFixed(t)
  <2> DEFINE m == [em[t] EXCEPT !.pc = "last"]
  <2>1. em[t].pc = "fixed" /\ Step(t, m)
    BY <1>2 DEF SendFixed
  <2>2. m \in Emission /\ EmissionOK(m)
    BY <1>1, <2>1 DEF Emission, EmissionOK, BeforeOK, DeliverOK, ServedOK, BroadcastOK,
       BeforeSnapshot
  <2> QED
    BY <2>1, <2>2, StepKeeps
<1>3. CASE SendLast(t)
  <2> DEFINE to == IF em[t].had THEN Nobody ELSE last
             m == [em[t] EXCEPT !.pc = "done", !.toLast = to]
  <2>1. em[t].pc = "last" /\ Step(t, m)
    BY <1>3 DEF SendLast, Suspended
  <2>2. to \in Endpoint \cup {Nobody}
    BY DEF EmissionInv, EmissionType
  <2>3. /\ em[t].alwaysSub => to = Nobody
        /\ em[t].alwaysOld => to # Nobody
    BY <1>1, <2>1 DEF EmissionOK, BroadcastOK, OldAudience
  <2> HIDE DEF to
  <2>4. m \in Emission /\ EmissionOK(m)
    BY <1>1, <2>1, <2>2, <2>3 DEF Emission, EmissionOK, BeforeOK, DeliverOK, ServedOK,
       BroadcastOK, BeforeSnapshot
  <2> QED
    BY <2>1, <2>4, StepKeeps
<1> QED
  BY <1>2, <1>3

LEMMA ReturnKeeps ==
  ASSUME EmissionInv, NEW t \in Emitters, Return(t)
  PROVE  EmissionInv'
<1>1. em[t].address \in Addresses
  BY DEF EmissionInv, EmissionType, Emission
<1> QED
  BY <1>1, FreshType, StepKeeps DEF Return

LEMMA EmissionNext ==
  EmissionInv /\ SubscriberInv /\ [Next]_vars => EmissionInv'
<1> SUFFICES ASSUME EmissionInv, SubscriberInv, [Next]_vars PROVE EmissionInv'
  OBVIOUS
<1>1. CASE Others
  BY <1>1, OthersKeep
<1>2. ASSUME NEW t \in Emitters, Emit(t) PROVE EmissionInv'
  BY <1>2, BeginKeeps, GateKeeps, PublishKeeps, DeliverKeeps, SendKeeps, ReturnKeeps
     DEF Emit
<1>3. CASE UNCHANGED vars
  <2>1. UNCHANGED <<registry, last, fixed, open>> /\ em' = em
    BY <1>3 DEF vars
  <2>2. ASSUME NEW t \in Emitters PROVE EmissionOK(em[t])'
    <3>1. PICK n \in Emission : n = em[t] /\ EmissionOK(n)
      BY DEF EmissionInv, EmissionType
    <3>2. EmissionOK(n)'
      BY <2>1, <3>1, EmissionKept
    <3> QED
      BY <2>1, <3>1, <3>2 DEF EmissionOK, BeforeOK, DeliverOK, ServedOK, BroadcastOK
  <2> QED
    BY <2>1, <2>2 DEF EmissionInv, EmissionType
<1> QED
  BY <1>1, <1>2, <1>3 DEF Next

LEMMA EmissionInit == Init => EmissionInv
<1> SUFFICES ASSUME Init PROVE EmissionInv
  OBVIOUS
<1>1. PICK a \in Addresses : em = [t \in Emitters |-> Fresh(a)]
  BY DEF Init
<1>2. \A t \in Emitters : em[t] = Fresh(a)
  BY <1>1
<1>3. em \in [Emitters -> Emission]
  BY <1>1, FreshType
<1> QED
  BY <1>2, <1>3, FreshType DEF Init, EmissionInv, EmissionType

\* Every invariant of this module, together.
LEMMA AllAlways == Spec => [](SubscriberInv /\ ListenerInv /\ EmissionInv)
<1>1. Init => SubscriberInv /\ ListenerInv /\ EmissionInv
  BY RegistryInitOK, EmissionInit
<1>2. SubscriberInv /\ ListenerInv /\ EmissionInv /\ [Next]_vars
        => (SubscriberInv /\ ListenerInv /\ EmissionInv)'
  BY RegistryNext, EmissionNext
<1> QED
  BY <1>1, <1>2, PTL DEF Spec

-----------------------------------------------------------------------------

\* Type correctness of the registries and of every emission.
THEOREM FeedbackTypeCorrect == Spec => []FeedbackTypeOK
<1>1. SubscriberInv /\ ListenerInv /\ EmissionInv => FeedbackTypeOK
  BY DEF SubscriberInv, ListenerInv, EmissionInv, EmissionType, FeedbackTypeOK,
     RegistryTypeOK
<1> QED
  BY <1>1, AllAlways, PTL

\* Whatever subscriptions come and go, a client whose wish stands from the first
\* sample of an emission to its snapshot is served, and nobody else.
THEOREM SubscribersServedAlways == Spec => []SubscribersServed
<1>1. EmissionInv => SubscribersServed
  BY DEF EmissionInv, EmissionOK, ServedOK, SubscribersServed, Done
<1> QED
  BY <1>1, AllAlways, PTL

\* A websocket peer that listens until the event is delivered gets every event
\* that passes the gate.
THEOREM ListenersServedAlways == Spec => []ListenersServed
<1>1. EmissionInv => ListenersServed
  BY DEF EmissionInv, EmissionOK, ServedOK, ListenersServed, Done
<1> QED
  BY <1>1, AllAlways, PTL

\* The reply-to-last broadcast stops for subscribers and goes out without them.
THEOREM LegacyBroadcastAlways == Spec => []LegacyBroadcast
<1>1. EmissionInv => LegacyBroadcast
  BY DEF EmissionInv, EmissionOK, BroadcastOK, LegacyBroadcast, Done
<1> QED
  BY <1>1, AllAlways, PTL

\* Only its own snapshot takes an emission from publish to deliver.
LEMMA OnlyPublish ==
  ASSUME EmissionType, Next, NEW t \in Emitters,
         em[t].pc = "publish", em'[t].pc = "deliver"
  PROVE  Publish(t)
<1>1. em \in [Emitters -> Emission] /\ em[t] \in Emission
  BY DEF EmissionType
<1>2. CASE Others
  <2>1. em' = [u \in Emitters |-> Watch(em[u])]
    BY <1>2 DEF Others, UiSubscription, UiTarget, LastSender, PeerConnect, PeerGone,
       PeerListen, Watched
  <2>2. em'[t] = Watch(em[t])
    BY <2>1
  <2>3. Watch(em[t]).pc = em[t].pc
    BY <1>1 DEF Watch, Emission
  <2> QED
    BY <2>2, <2>3
<1>3. ASSUME NEW u \in Emitters, Emit(u), ~Publish(t) PROVE FALSE
  <2>1. CASE u = t
    <3>1. ASSUME NEW m, Step(t, m) PROVE em'[t] = m
      BY <1>1, <3>1 DEF Step
    <3> QED
      BY <1>3, <2>1, <3>1 DEF Emit, Begin, Gate, GateLast, Deliver, SendFixed, SendLast,
         Return
  <2>2. CASE u # t
    <3>1. ASSUME NEW m, Step(u, m) PROVE em'[t] = em[t]
      BY <1>1, <2>2, <3>1 DEF Step
    <3> QED
      BY <1>3, <3>1 DEF Emit, Begin, Gate, GateLast, Publish, Deliver, SendFixed,
         SendLast, Return
  <2> QED
    BY <2>1, <2>2
<1> QED
  BY <1>2, <1>3 DEF Next

\* A client that was never redirected is told of an event once.
THEOREM ToldOnceAlways == Spec => ToldOnce
<1> DEFINE Told(t) ==
      em[t].pc = "publish" /\ em'[t].pc = "deliver" =>
          \A e \in Endpoint :
              (\A i \in 1..Len(subscribers) :
                  subscribers[i].endpoint = e => ~subscribers[i].redirected)
              => em'[t].copies[e] <= 1
<1>1. ASSUME SubscriberInv, EmissionInv, [Next]_vars, NEW t \in Emitters PROVE Told(t)
  <2> SUFFICES ASSUME em[t].pc = "publish", em'[t].pc = "deliver", NEW e \in Endpoint,
                      \A i \in 1..Len(subscribers) :
                          subscribers[i].endpoint = e => ~subscribers[i].redirected
               PROVE  em'[t].copies[e] <= 1
    OBVIOUS
  <2>1. Next
    BY <1>1 DEF vars
  <2>2. Publish(t)
    BY <1>1, <2>1, OnlyPublish DEF EmissionInv
  <2>3. em'[t].copies = [x \in Endpoint |-> Copies(x, em[t].address)]
    BY <1>1, <2>2 DEF Publish, Step, EmissionInv, EmissionType, Emission
  <2>4. em'[t].copies[e] = Copies(e, em[t].address)
    BY <2>3
  <2> QED
    BY <1>1, <2>4, DirectCopies
<1>2. SubscriberInv /\ ListenerInv /\ EmissionInv /\ [Next]_vars
        => [\A t \in Emitters : Told(t)]_vars
  BY <1>1
<1> QED
  BY <1>2, AllAlways, PTL DEF Spec, ToldOnce

=============================================================================
