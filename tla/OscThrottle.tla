---------------------------- MODULE OscThrottle ----------------------------
(***************************************************************************)
(* The rate limiter of osc-feedback.cpp, throttled(), and the three        *)
(* signals that go through it: volume (33 ms, per source), item_transform  *)
(* (100 ms, per scene and item) and reorder (100 ms, per scene). Its mutex *)
(* makes a call one step.                                                  *)
(***************************************************************************)
EXTENDS Integers, FiniteSets, Functions

CONSTANTS
    Keys,        \* what a key stands for: a source, an item, a scene
    Interval,    \* its callback's number of milliseconds
    PruneAt,     \* prune_at, 256
    StaleAfter,  \* stale_after, 5000
    MaxTime      \* bound on the clock

ASSUME IntervalAssumption ==
    /\ Interval \in [Keys -> Nat] /\ StaleAfter \in Nat /\ PruneAt \in Nat
    /\ \A k \in Keys : Interval[k] <= StaleAfter

VARIABLES
    now,         \* steady_clock
    last_sent,   \* the map
    sent_at      \* history: when feedback of a key was last sent; -StaleAfter: never

throttle_vars == <<now, last_sent, sent_at>>

Never == [k \in Keys |-> -StaleAfter]

ThrottleInit ==
    /\ now = 0 /\ last_sent = <<>>
    /\ sent_at = Never

Tick == now < MaxTime /\ now' = now + 1 /\ UNCHANGED <<last_sent, sent_at>>

PrunedEarly(m) ==
    IF Cardinality(DOMAIN m) >= PruneAt THEN Restrict(m, {k \in DOMAIN m : m[k] = now}) ELSE m

Pruned(m) ==
    IF Cardinality(DOMAIN m) >= PruneAt
    THEN Restrict(m, {k \in DOMAIN m : now - m[k] <= StaleAfter})
    ELSE m

Throttled(k) ==
    k \in DOMAIN Pruned(last_sent) /\ now - Pruned(last_sent)[k] < Interval[k]

\* A callback; what is throttled is not sent, then or later (OscCommands has
\* what that does to a client's copy).
Signal(k) ==
    /\ IF Throttled(k)
       THEN last_sent' = Pruned(last_sent) /\ UNCHANGED sent_at
       ELSE /\ last_sent' = [j \in {k} \cup DOMAIN Pruned(last_sent) |->
                                IF j = k THEN now ELSE Pruned(last_sent)[j]]
            /\ sent_at' = [sent_at EXCEPT ![k] = now]
    /\ UNCHANGED now

ThrottleNext == Tick \/ \E k \in Keys : Signal(k)

ThrottleSpec == ThrottleInit /\ [][ThrottleNext]_throttle_vars

-----------------------------------------------------------------------------
(***************************************************************************)
(* "Volume feedback is rate limited": two messages of one key are at least *)
(* its interval apart, whatever pruning has removed from the map between.  *)
(***************************************************************************)
SendsSpaced ==
    [][\A k \in Keys : sent_at'[k] # sent_at[k] => now - sent_at[k] >= Interval[k]]_throttle_vars

=============================================================================
