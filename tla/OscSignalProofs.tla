-------------------------- MODULE OscSignalProofs --------------------------
(***************************************************************************)
(* What TLAPS proves of the callbacks of libobs signals, however long they *)
(* run: the rate limiter, for any keys, intervals and pruning limits, and  *)
(* the hooks of sources and filters, for any sources and filters.          *)
(***************************************************************************)
EXTENDS OscThrottle, OscFilterHooks, TLAPS

(***************************************************************************)
(* The rate limiter.                                                       *)
(***************************************************************************)
\* The map knows when a key was sent, unless that is longer ago than the
\* key's interval: pruning, at stale_after, forgets nothing that matters.
MapInv ==
    /\ now \in Nat /\ sent_at \in [Keys -> Int] /\ DOMAIN last_sent \subseteq Keys
    /\ \A k \in Keys :
          /\ sent_at[k] <= now
          /\ k \in DOMAIN last_sent => last_sent[k] = sent_at[k]
          /\ k \notin DOMAIN last_sent => now - sent_at[k] >= Interval[k]

\* throttled() decides by the time since the key was sent.
LEMMA ThrottledMeans ==
  ASSUME MapInv, NEW k \in Keys
  PROVE  /\ Throttled(k) <=> now - sent_at[k] < Interval[k]
         /\ DOMAIN Pruned(last_sent) \subseteq DOMAIN last_sent
         /\ k \in DOMAIN Pruned(last_sent) => Pruned(last_sent)[k] = sent_at[k]
         /\ k \notin DOMAIN Pruned(last_sent) => now - sent_at[k] >= Interval[k]
<1>1. Interval[k] \in Nat /\ StaleAfter \in Nat /\ Interval[k] <= StaleAfter
  BY IntervalAssumption
<1>2. now \in Int /\ sent_at[k] \in Int
  BY DEF MapInv
<1>3. /\ DOMAIN Pruned(last_sent) \subseteq DOMAIN last_sent
      /\ k \in DOMAIN Pruned(last_sent) => Pruned(last_sent)[k] = last_sent[k]
  BY DEF Pruned, Restrict
<1>4. k \in DOMAIN last_sent \ DOMAIN Pruned(last_sent) => now - last_sent[k] > StaleAfter
  BY <1>1, <1>2 DEF Pruned, Restrict, MapInv
<1>5. k \in DOMAIN Pruned(last_sent) => Pruned(last_sent)[k] = sent_at[k]
  BY <1>3 DEF MapInv
<1>6. k \notin DOMAIN Pruned(last_sent) => now - sent_at[k] >= Interval[k]
  BY <1>1, <1>2, <1>4 DEF MapInv
<1> QED
  BY <1>1, <1>2, <1>3, <1>5, <1>6 DEF Throttled

LEMMA MapInit == ThrottleInit => MapInv
<1> SUFFICES ASSUME ThrottleInit PROVE MapInv
  OBVIOUS
<1>1. DOMAIN last_sent = {}
  BY DEF ThrottleInit
<1>2. \A k \in Keys : Interval[k] \in Nat /\ StaleAfter \in Nat /\ Interval[k] <= StaleAfter
  BY IntervalAssumption
<1>3. StaleAfter \in Nat
  BY IntervalAssumption
<1> QED
  BY <1>1, <1>2, <1>3 DEF ThrottleInit, Never, MapInv

LEMMA MapStep ==
  ASSUME MapInv, [ThrottleNext]_throttle_vars
  PROVE  MapInv'
<1>1. \A k \in Keys : Interval[k] \in Nat
  BY IntervalAssumption
<1>2. CASE Tick
  BY <1>1, <1>2 DEF Tick, MapInv
<1>3. ASSUME NEW k \in Keys, Signal(k)
      PROVE  MapInv'
  <2>1. now' = now /\ now \in Nat
    BY <1>3 DEF Signal, MapInv
  <2>2. CASE Throttled(k)
    <3>1. last_sent' = Pruned(last_sent) /\ sent_at' = sent_at
      BY <1>3, <2>2 DEF Signal
    <3>2. ASSUME NEW j \in Keys
          PROVE  /\ sent_at'[j] <= now'
                 /\ j \in DOMAIN last_sent' => last_sent'[j] = sent_at'[j]
                 /\ j \notin DOMAIN last_sent' => now' - sent_at'[j] >= Interval[j]
      BY <2>1, <3>1, ThrottledMeans DEF MapInv
    <3>3. DOMAIN last_sent' \subseteq Keys
      BY <3>1, ThrottledMeans DEF MapInv
    <3> QED
      BY <2>1, <3>1, <3>2, <3>3 DEF MapInv
  <2>3. CASE ~Throttled(k)
    <3>1. /\ last_sent' = [j \in {k} \cup DOMAIN Pruned(last_sent) |->
                             IF j = k THEN now ELSE Pruned(last_sent)[j]]
          /\ sent_at' = [sent_at EXCEPT ![k] = now]
      BY <1>3, <2>3 DEF Signal
    <3>2. DOMAIN last_sent' = {k} \cup DOMAIN Pruned(last_sent)
      BY <3>1
    <3>3. ASSUME NEW j \in Keys
          PROVE  /\ sent_at'[j] <= now'
                 /\ j \in DOMAIN last_sent' => last_sent'[j] = sent_at'[j]
                 /\ j \notin DOMAIN last_sent' => now' - sent_at'[j] >= Interval[j]
      <4>1. CASE j = k
        BY <2>1, <3>1, <3>2, <4>1 DEF MapInv
      <4>2. CASE j # k
        <5>1. sent_at'[j] = sent_at[j] /\ sent_at[j] <= now
          BY <3>1, <4>2 DEF MapInv
        <5>2. j \in DOMAIN last_sent' =>
                j \in DOMAIN Pruned(last_sent) /\ last_sent'[j] = Pruned(last_sent)[j]
          BY <3>1, <4>2
        <5>3. j \notin DOMAIN last_sent' => j \notin DOMAIN Pruned(last_sent)
          BY <3>2
        <5> QED
          BY <2>1, <5>1, <5>2, <5>3, ThrottledMeans
      <4> QED
        BY <4>1, <4>2
    <3>4. DOMAIN last_sent' \subseteq Keys
      BY <3>2, ThrottledMeans DEF MapInv
    <3>5. sent_at' \in [Keys -> Int]
      BY <2>1, <3>1 DEF MapInv
    <3> QED
      BY <2>1, <3>3, <3>4, <3>5 DEF MapInv
  <2> QED
    BY <2>2, <2>3
<1>4. CASE UNCHANGED throttle_vars
  BY <1>4 DEF throttle_vars, MapInv
<1> QED
  BY <1>2, <1>3, <1>4 DEF ThrottleNext

(***************************************************************************)
(* "Volume feedback is rate limited": two messages of a key are its        *)
(* interval apart, although the map forgets.                               *)
(***************************************************************************)
THEOREM SendsSpacedAlways == ThrottleSpec => SendsSpaced
<1>1. ASSUME MapInv, [ThrottleNext]_throttle_vars
      PROVE  [\A k \in Keys : sent_at'[k] # sent_at[k] => now - sent_at[k] >= Interval[k]]_throttle_vars
  <2>1. ASSUME NEW j \in Keys, Signal(j), NEW k \in Keys, sent_at'[k] # sent_at[k]
        PROVE  now - sent_at[k] >= Interval[k]
    <3>1. ~Throttled(j) /\ sent_at' = [sent_at EXCEPT ![j] = now]
      BY <2>1 DEF Signal
    <3>2. k = j
      BY <2>1, <3>1 DEF MapInv
    <3>3. Interval[k] \in Nat /\ now \in Nat /\ sent_at[k] \in Int
      BY <1>1, IntervalAssumption DEF MapInv
    <3> QED
      BY <1>1, <3>1, <3>2, <3>3, ThrottledMeans
  <2>2. CASE Tick
    BY <2>2 DEF Tick
  <2> QED
    BY <1>1, <2>1, <2>2 DEF ThrottleNext
<1> QED
  BY <1>1, MapInit, MapStep, PTL DEF ThrottleSpec, SendsSpaced

-----------------------------------------------------------------------------
(***************************************************************************)
(* The hooks.                                                              *)
(***************************************************************************)
\* The states of a source that is in OBS's list.
ListedStates == {"inserted", "late", "hooking", "live", "missed"}

\* The UI thread has not begun to shut down.
Before == {"off", "init", "gap", "half", "on"}

HookTypes ==
    /\ ui \in Before \cup {"exit_half", "exit_gap", "exit", "down"}
    /\ todo \subseteq Sources /\ at \in Sources \cup {NoSource}
    /\ life \in [Sources -> ListedStates \cup {"absent", "removed", "unhooking"}]
    /\ tables \subseteq Sources /\ strays \subseteq Sources
    /\ chain \in [Sources -> SUBSET Filters]
    /\ signals \subseteq {"filter_add", "filter_remove"} \X Sources \X Filters
    /\ hooks \in [Pairs -> {0, 1}]
    /\ enable = {p \in Pairs : hooks[p] = 1}

\* What goes on with a source in its states, and what is known of an address
\* that nobody uses.
Lives ==
    /\ ~Enumerating => todo = {} /\ at = NoSource
    /\ \A s \in Sources :
        /\ s \in todo \/ s = at => life[s] \in ListedStates
        /\ ui = "init" /\ s = at => s \in tables
        /\ life[s] \notin ListedStates => \A e \in signals : e[2] # s
        /\ life[s] \in {"absent", "unhooking"} => s \notin tables
        /\ life[s] = "hooking" => s \in tables /\ ui \in {"half", "on"}
        /\ life[s] = "unhooking" => ui \in {"on", "exit_half"}
        /\ s \notin strays /\ life[s] = "absent" => \A f \in Filters : hooks[<<s, f>>] = 0
        /\ ui = "off" => s \notin tables /\ s \notin strays /\ \A f \in Filters : hooks[<<s, f>>] = 0

\* Hooks follow the chain, by the signals that are on their way, the
\* enumeration that is half done and the callback that runs.
Follows ==
    /\ \A e \in signals : e[1] = "filter_add" <=> e[3] \in chain[e[2]]
    /\ ui \in Before => \A s \in Sources \ strays :
        /\ s \notin tables /\ life[s] \in ListedStates => \A f \in Filters : hooks[<<s, f>>] = 0
        /\ s \in tables \cap Inputs /\ life[s] \in ListedStates =>
             \A f \in Filters : (\A e \in signals : ~(e[2] = s /\ e[3] = f)) =>
               /\ f \notin chain[s] => hooks[<<s, f>>] = 0
               /\ f \in chain[s] => hooks[<<s, f>>] = 1 \/ at = s \/ life[s] = "hooking"
        /\ s \in Enumerable =>
            /\ ui = "init" /\ life[s] \in ListedStates => s \in todo \/ s \in tables
            /\ ui = "gap" /\ life[s] = "inserted" => s \in tables
            /\ ui \in {"gap", "half", "on"} /\ life[s] = "live" => s \in tables

\* The enumeration of osc_feedback_shutdown().
Released ==
    ui \in {"exit", "down"} => \A s \in Enumerable \ strays :
         \/ life[s] = "removed" \/ s \in todo
         \/ s \notin tables /\ (at = s \/ \A f \in Filters : hooks[<<s, f>>] = 0)

-----------------------------------------------------------------------------
\* What hook_filter(), unhook_filter() and unhook_filters_of_parent() do to an
\* entry; nobody holds two.
LEMMA HookEffect ==
  ASSUME HookTypes, NEW s \in Sources, NEW fs \in SUBSET Filters, Hook(s, fs)
  PROVE  /\ hooks' \in [Pairs -> {0, 1}] /\ enable' = {p \in Pairs : hooks'[p] = 1}
         /\ \A t \in Sources, g \in Filters :
               hooks'[<<t, g>>] = IF t = s /\ g \in fs THEN 1 ELSE hooks[<<t, g>>]
<1>1. hooks' \in [Pairs -> {0, 1}]
  BY DEF Hook, HookTypes
<1>2. ASSUME NEW p \in Pairs
      PROVE  p \in enable' <=> hooks'[p] = 1
  <2>1. PICK t \in Sources, g \in Filters : p = <<t, g>>
    BY <1>2 DEF Pairs
  <2>2. p \in {s} \X fs <=> t = s /\ g \in fs
    BY <2>1
  <2>3. hooks'[p] = IF t = s /\ g \in fs /\ hooks[p] = 0 THEN 1 ELSE hooks[p]
    BY <1>2, <2>1 DEF Hook
  <2>4. hooks[p] \in {0, 1} /\ (p \in enable <=> hooks[p] = 1)
    BY <1>2 DEF HookTypes
  <2> QED
    BY <2>2, <2>3, <2>4 DEF Hook
<1>3. enable' \subseteq Pairs
  BY DEF Hook, HookTypes, Pairs
<1>4. ASSUME NEW t \in Sources, NEW g \in Filters
      PROVE  hooks'[<<t, g>>] = IF t = s /\ g \in fs THEN 1 ELSE hooks[<<t, g>>]
  <2>1. <<t, g>> \in Pairs
    BY DEF Pairs
  <2>2. hooks[<<t, g>>] \in {0, 1}
    BY <2>1 DEF HookTypes
  <2> QED
    BY <2>1, <2>2 DEF Hook
<1> QED
  BY <1>1, <1>2, <1>3, <1>4

LEMMA UnhookOneEffect ==
  ASSUME HookTypes, NEW s \in Sources, NEW f \in Filters, UnhookOne(s, f)
  PROVE  /\ hooks' \in [Pairs -> {0, 1}] /\ enable' = {p \in Pairs : hooks'[p] = 1}
         /\ \A t \in Sources, g \in Filters :
               hooks'[<<t, g>>] = IF t = s /\ g = f THEN 0 ELSE hooks[<<t, g>>]
<1>1. <<s, f>> \in Pairs /\ hooks[<<s, f>>] \in {0, 1}
  BY DEF Pairs, HookTypes
<1>2. hooks' = [hooks EXCEPT ![<<s, f>>] = 0]
  <2>1. (IF hooks[<<s, f>>] > 0 THEN hooks[<<s, f>>] - 1 ELSE 0) = 0
    BY <1>1
  <2> QED
    BY <2>1, Zenon DEF UnhookOne
<1>3. hooks' \in [Pairs -> {0, 1}]
  BY <1>2 DEF HookTypes
<1>4. enable' = {p \in Pairs : hooks'[p] = 1}
  <2>1. enable' = enable \ {<<s, f>>}
    BY <1>1 DEF UnhookOne, HookTypes
  <2>2. \A p \in Pairs : hooks'[p] = IF p = <<s, f>> THEN 0 ELSE hooks[p]
    BY <1>1, <1>2 DEF HookTypes
  <2>3. \A p \in Pairs : p \in enable' <=> hooks'[p] = 1
    BY <2>1, <2>2 DEF HookTypes
  <2>4. enable' \subseteq Pairs
    BY <2>1 DEF HookTypes
  <2> QED
    BY <2>3, <2>4
<1>5. \A t \in Sources, g \in Filters :
         hooks'[<<t, g>>] = IF t = s /\ g = f THEN 0 ELSE hooks[<<t, g>>]
  BY <1>2 DEF HookTypes, Pairs
<1> QED
  BY <1>3, <1>4, <1>5

LEMMA UnhookParentEffect ==
  ASSUME HookTypes, NEW s \in Sources, UnhookParent(s)
  PROVE  /\ hooks' \in [Pairs -> {0, 1}] /\ enable' = {p \in Pairs : hooks'[p] = 1}
         /\ \A t \in Sources, g \in Filters :
               hooks'[<<t, g>>] = IF t = s THEN 0 ELSE hooks[<<t, g>>]
<1>1. hooks' \in [Pairs -> {0, 1}]
  BY DEF UnhookParent, HookTypes
<1>2. enable' = {p \in Pairs : hooks'[p] = 1}
  BY DEF UnhookParent, HookTypes
<1>3. \A t \in Sources, g \in Filters : <<t, g>> \in Pairs
  BY DEF Pairs
<1> QED
  BY <1>1, <1>2, <1>3 DEF UnhookParent


\* What the actions that call them do to an entry.
LEMMA EnumFiltersEffect ==
  ASSUME HookTypes, EnumFilters
  PROVE  /\ at \in Sources /\ at # NoSource
         /\ ui = "init" => \A t \in Sources, g \in Filters :
               hooks'[<<t, g>>] = IF t = at /\ g \in chain[t] THEN 1 ELSE hooks[<<t, g>>]
         /\ ui # "init" => \A t \in Sources, g \in Filters :
               hooks'[<<t, g>>] = IF t = at THEN 0 ELSE hooks[<<t, g>>]
<1>1. at \in Sources /\ at # NoSource /\ chain[at] \in SUBSET Filters
  BY DEF EnumFilters, HookTypes
<1>2. CASE ui = "init"
  <2>1. Hook(at, chain[at])
    BY <1>2 DEF EnumFilters
  <2> QED
    BY <1>1, <1>2, <2>1, HookEffect
<1>3. CASE ui # "init"
  <2>1. UnhookParent(at)
    BY <1>3 DEF EnumFilters
  <2> QED
    BY <1>1, <1>3, <2>1, UnhookParentEffect
<1> QED
  BY <1>1, <1>2, <1>3

LEMMA CreatedFiltersEffect ==
  ASSUME HookTypes, NEW s \in Sources, CreatedFilters(s)
  PROVE  \A t \in Sources, g \in Filters :
           hooks'[<<t, g>>] = IF t = s /\ g \in chain[t] THEN 1 ELSE hooks[<<t, g>>]
<1>1. chain[s] \in SUBSET Filters
  BY DEF HookTypes
<1>2. Hook(s, chain[s])
  BY DEF CreatedFilters
<1>3. \A t \in Sources, g \in Filters :
         hooks'[<<t, g>>] = IF t = s /\ g \in chain[s] THEN 1 ELSE hooks[<<t, g>>]
  BY <1>1, <1>2, HookEffect
<1> QED
  BY <1>3

LEMMA DestroyedFiltersEffect ==
  ASSUME HookTypes, NEW s \in Sources, DestroyedFilters(s)
  PROVE  \A t \in Sources, g \in Filters :
           hooks'[<<t, g>>] = IF t = s THEN 0 ELSE hooks[<<t, g>>]
<1>1. UnhookParent(s)
  BY DEF DestroyedFilters
<1> QED
  BY <1>1, UnhookParentEffect

LEMMA FilterSignalEffect ==
  ASSUME HookTypes, NEW e \in signals, FilterSignal(e)
  PROVE  \E b \in {"filter_add", "filter_remove"}, s \in Sources, f \in Filters :
           /\ e = <<b, s, f>>
           /\ s \notin tables \cap Inputs => hooks' = hooks
           /\ s \in tables \cap Inputs => \A t \in Sources, g \in Filters :
                hooks'[<<t, g>>] = IF t = s /\ g = f
                                   THEN IF b = "filter_add" THEN 1 ELSE 0
                                   ELSE hooks[<<t, g>>]
<1>1. PICK b \in {"filter_add", "filter_remove"}, s \in Sources, f \in Filters : e = <<b, s, f>>
  BY DEF HookTypes
<1>2. e[1] = b /\ e[2] = s /\ e[3] = f
  BY <1>1
<1>3. CASE s \notin tables \cap Inputs
  BY <1>1, <1>2, <1>3 DEF FilterSignal
<1>4. CASE s \in tables \cap Inputs /\ b = "filter_add"
  <2>1. Hook(s, {f})
    BY <1>2, <1>4 DEF FilterSignal
  <2>2. {f} \in SUBSET Filters
    BY <1>1
  <2>3. \A t \in Sources, g \in Filters :
           hooks'[<<t, g>>] = IF t = s /\ g \in {f} THEN 1 ELSE hooks[<<t, g>>]
    BY <2>1, <2>2, HookEffect
  <2> QED
    BY <1>1, <1>4, <2>3
<1>5. CASE s \in tables \cap Inputs /\ b = "filter_remove"
  <2>1. UnhookOne(s, f)
    BY <1>2, <1>5 DEF FilterSignal
  <2>3. \A t \in Sources, g \in Filters :
           hooks'[<<t, g>>] = IF t = s /\ g = f THEN 0 ELSE hooks[<<t, g>>]
    BY <2>1, UnhookOneEffect
  <2> QED
    BY <1>1, <1>5, <2>3
<1> QED
  BY <1>1, <1>3, <1>4, <1>5

\* What the types say of the parts of the state.
LEMMA TypesRead ==
  ASSUME HookTypes
  PROVE  /\ todo \subseteq Sources /\ at \in Sources \cup {NoSource}
         /\ life \in [Sources -> ListedStates \cup {"absent", "removed", "unhooking"}]
         /\ tables \subseteq Sources /\ strays \subseteq Sources
         /\ chain \in [Sources -> SUBSET Filters]
         /\ \A t \in Sources, g \in Filters : hooks[<<t, g>>] \in {0, 1}
         /\ \A e \in signals :
              \E b \in {"filter_add", "filter_remove"}, s \in Sources, f \in Filters :
                e = <<b, s, f>> /\ e[1] = b /\ e[2] = s /\ e[3] = f
<1>1. \A t \in Sources, g \in Filters : hooks[<<t, g>>] \in {0, 1}
  BY DEF HookTypes, Pairs
<1>2. \A e \in signals :
        \E b \in {"filter_add", "filter_remove"}, s \in Sources, f \in Filters :
           e = <<b, s, f>> /\ e[1] = b /\ e[2] = s /\ e[3] = f
  BY DEF HookTypes
<1> QED
  BY <1>1, <1>2 DEF HookTypes

\* The types are kept.
LEMMA HookTypesStep ==
  ASSUME HookTypes, [HooksNext]_hook_vars
  PROVE  HookTypes'
<1>h. HookTypes
  OBVIOUS
<1> USE DEF HookTypes, ListedStates, Before, Enumerating
<1>1. CASE Enumerate("off", "init")
  BY <1>1 DEF Enumerate, Listed
<1>2. CASE Enumerate("exit_gap", "exit")
  BY <1>2 DEF Enumerate, Listed
<1>3. CASE EnumFilters
  <2>1. at \in Sources /\ chain[at] \in SUBSET Filters
    BY <1>3 DEF EnumFilters
  <2>2. hooks' \in [Pairs -> {0, 1}] /\ enable' = {p \in Pairs : hooks'[p] = 1}
    <3>1. CASE ui = "init"
      BY <1>3, <2>1, <3>1, <1>h, HookEffect DEF EnumFilters
    <3>2. CASE ui # "init"
      BY <1>3, <2>1, <3>2, <1>h, UnhookParentEffect DEF EnumFilters
    <3> QED
      BY <3>1, <3>2
  <2> QED
    BY <1>3, <2>2 DEF EnumFilters
<1>4. CASE EnumEnd
  BY <1>4 DEF EnumEnd
<1>5. CASE Connect
  BY <1>5 DEF Connect
<1>6. CASE Disconnect
  BY <1>6 DEF Disconnect
<1>7. ASSUME NEW s \in Sources, EnumTable(s)
      PROVE  HookTypes'
  BY <1>7 DEF EnumTable
<1>8. ASSUME NEW s \in Sources, Enter(s)
      PROVE  HookTypes'
  BY <1>8 DEF Enter
<1>9. ASSUME NEW s \in Sources, Created(s)
      PROVE  HookTypes'
  BY <1>9 DEF Created, Connected
<1>10. ASSUME NEW s \in Sources, CreatedFilters(s)
      PROVE  HookTypes'
  <2>1. hooks' \in [Pairs -> {0, 1}] /\ enable' = {p \in Pairs : hooks'[p] = 1}
    BY <1>10, <1>h, HookEffect DEF CreatedFilters
  <2> QED
    BY <1>10, <2>1 DEF CreatedFilters
<1>11. ASSUME NEW s \in Sources, Leave(s)
      PROVE  HookTypes'
  BY <1>11 DEF Leave
<1>12. ASSUME NEW s \in Sources, Destroyed(s)
      PROVE  HookTypes'
  BY <1>12 DEF Destroyed, Connected
<1>13. ASSUME NEW s \in Sources, DestroyedFilters(s)
      PROVE  HookTypes'
  <2>1. hooks' \in [Pairs -> {0, 1}] /\ enable' = {p \in Pairs : hooks'[p] = 1}
    BY <1>13, <1>h, UnhookParentEffect DEF DestroyedFilters
  <2> QED
    BY <1>13, <2>1 DEF DestroyedFilters
<1>14. ASSUME NEW s \in Sources, NEW f \in Filters, AddFilter(s, f)
      PROVE  HookTypes'
  BY <1>14 DEF AddFilter, Listed
<1>15. ASSUME NEW s \in Sources, NEW f \in Filters, RemoveFilter(s, f)
      PROVE  HookTypes'
  BY <1>15 DEF RemoveFilter, Listed
<1>16. ASSUME NEW e \in signals, FilterSignal(e)
      PROVE  HookTypes'
  <2>1. e[2] \in Sources /\ e[3] \in Filters
    BY <1>16
  <2>2. hooks' \in [Pairs -> {0, 1}] /\ enable' = {p \in Pairs : hooks'[p] = 1}
    <3>1. \/ Hook(e[2], {e[3]}) \/ UnhookOne(e[2], e[3]) \/ UNCHANGED <<hooks, enable>>
      BY <1>16 DEF FilterSignal
    <3> QED
      BY <2>1, <3>1, <1>h, HookEffect, UnhookOneEffect
  <2> QED
    BY <1>16, <2>2 DEF FilterSignal
<1>17. CASE UNCHANGED hook_vars
  BY <1>17 DEF hook_vars
<1> QED
  BY <1>1, <1>2, <1>3, <1>4, <1>5, <1>6, <1>7, <1>8, <1>9, <1>10, <1>11,
      <1>12, <1>13, <1>14, <1>15, <1>16, <1>17 DEF HooksNext

\* Lives is kept.
LEMMA LivesStep ==
  ASSUME HookTypes, Lives, [HooksNext]_hook_vars
  PROVE  Lives'
<1>h. HookTypes
  OBVIOUS
<1>t. /\ todo \subseteq Sources /\ at \in Sources \cup {NoSource}
     /\ life \in [Sources -> ListedStates \cup {"absent", "removed", "unhooking"}]
     /\ tables \subseteq Sources /\ strays \subseteq Sources
     /\ chain \in [Sources -> SUBSET Filters]
     /\ \A t \in Sources, g \in Filters : hooks[<<t, g>>] \in {0, 1}
     /\ \A e \in signals :
          \E b \in {"filter_add", "filter_remove"}, s \in Sources, f \in Filters :
            e = <<b, s, f>> /\ e[1] = b /\ e[2] = s /\ e[3] = f
  BY TypesRead
<1>1. CASE Enumerate("off", "init")
  BY <1>1, <1>t, SourcesAssumption DEF Enumerate, Listed, ListedStates,
      Before, Enumerating, Sources, Lives
<1>2. CASE Enumerate("exit_gap", "exit")
  BY <1>2, <1>t, SourcesAssumption DEF Enumerate, Listed, ListedStates,
      Before, Enumerating, Sources, Lives
<1>3. CASE EnumFilters
  <2>1. at \in Sources /\ at # NoSource
    BY <1>3, <1>h, EnumFiltersEffect
  <2>2. CASE ui = "init"
    <3>1. \A t \in Sources, g \in Filters :
             hooks'[<<t, g>>] = IF t = at /\ g \in chain[t] THEN 1 ELSE hooks[<<t, g>>]
      BY <1>3, <2>2, <1>h, EnumFiltersEffect
    <3>2. at' = NoSource /\ UNCHANGED <<ui, todo, life, tables, chain, signals, strays>>
      BY <1>3 DEF EnumFilters
    <3> QED
      BY <2>1, <2>2, <3>1, <3>2, <1>t, SourcesAssumption DEF
          ListedStates, Before, Enumerating, Sources, Lives
  <2>3. CASE ui = "exit"
    <3>1. \A t \in Sources, g \in Filters :
             hooks'[<<t, g>>] = IF t = at THEN 0 ELSE hooks[<<t, g>>]
      BY <1>3, <2>3, <1>h, EnumFiltersEffect
    <3>2. at' = NoSource /\ UNCHANGED <<ui, todo, life, tables, chain, signals, strays>>
      BY <1>3 DEF EnumFilters
    <3> QED
      BY <2>1, <2>3, <3>1, <3>2, <1>t, SourcesAssumption DEF
          ListedStates, Before, Enumerating, Sources, Lives
  <2> QED
    BY <1>3, <2>2, <2>3 DEF EnumFilters, Enumerating
<1>4. CASE EnumEnd
  BY <1>4, <1>t, SourcesAssumption DEF EnumEnd, ListedStates, Before,
      Enumerating, Sources, Lives
<1>5. CASE Connect
  BY <1>5, <1>t, SourcesAssumption DEF Connect, ListedStates, Before,
      Enumerating, Sources, Lives
<1>6. CASE Disconnect
  BY <1>6, <1>t, SourcesAssumption DEF Disconnect, ListedStates, Before,
      Enumerating, Sources, Lives
<1>7. ASSUME NEW s \in Sources, EnumTable(s)
      PROVE  Lives'
  BY <1>7, <1>t, SourcesAssumption DEF EnumTable, ListedStates, Before,
      Enumerating, Sources, Lives
<1>8. ASSUME NEW s \in Sources, Enter(s)
      PROVE  Lives'
  BY <1>8, <1>t, SourcesAssumption DEF Enter, ListedStates, Before,
      Enumerating, Sources, Lives
<1>9. ASSUME NEW s \in Sources, Created(s)
      PROVE  Lives'
  BY <1>9, <1>t, SourcesAssumption DEF Created, Connected, ListedStates,
      Before, Enumerating, Sources, Lives
<1>10. ASSUME NEW s \in Sources, CreatedFilters(s)
      PROVE  Lives'
  <2>1. \A t \in Sources, g \in Filters :
           hooks'[<<t, g>>] = IF t = s /\ g \in chain[t] THEN 1 ELSE hooks[<<t, g>>]
    BY <1>10, <1>h, CreatedFiltersEffect
  <2>2. /\ life[s] = "hooking" /\ life' = [life EXCEPT ![s] = "live"]
        /\ UNCHANGED <<ui, todo, at, tables, chain, signals, strays>>
    BY <1>10 DEF CreatedFilters
  <2> QED
    BY <2>1, <2>2, <1>t DEF ListedStates, Before, Enumerating, Sources, Lives
<1>11. ASSUME NEW s \in Sources, Leave(s)
      PROVE  Lives'
  BY <1>11, <1>t, SourcesAssumption DEF Leave, ListedStates, Before,
      Enumerating, Sources, Lives
<1>12. ASSUME NEW s \in Sources, Destroyed(s)
      PROVE  Lives'
  BY <1>12, <1>t, SourcesAssumption DEF Destroyed, Connected, ListedStates,
      Before, Enumerating, Sources, Lives
<1>13. ASSUME NEW s \in Sources, DestroyedFilters(s)
      PROVE  Lives'
  <2>1. \A t \in Sources, g \in Filters :
           hooks'[<<t, g>>] = IF t = s THEN 0 ELSE hooks[<<t, g>>]
    BY <1>13, <1>h, DestroyedFiltersEffect
  <2>2. /\ life[s] = "unhooking" /\ life' = [life EXCEPT ![s] = "absent"]
        /\ UNCHANGED <<ui, todo, at, tables, chain, signals, strays>>
    BY <1>13 DEF DestroyedFilters
  <2> QED
    BY <2>1, <2>2, <1>t DEF ListedStates, Before, Enumerating, Sources, Lives
<1>14. ASSUME NEW s \in Sources, NEW f \in Filters, AddFilter(s, f)
      PROVE  Lives'
  BY <1>14, <1>t, SourcesAssumption DEF AddFilter, Listed, ListedStates,
      Before, Enumerating, Sources, Lives
<1>15. ASSUME NEW s \in Sources, NEW f \in Filters, RemoveFilter(s, f)
      PROVE  Lives'
  BY <1>15, <1>t, SourcesAssumption DEF RemoveFilter, Listed, ListedStates,
      Before, Enumerating, Sources, Lives
<1>16. ASSUME NEW e \in signals, FilterSignal(e)
      PROVE  Lives'
  <2>1. PICK b \in {"filter_add", "filter_remove"}, s \in Sources, f \in Filters :
           /\ e = <<b, s, f>>
           /\ s \notin tables \cap Inputs => hooks' = hooks
           /\ s \in tables \cap Inputs => \A t \in Sources, g \in Filters :
                hooks'[<<t, g>>] = IF t = s /\ g = f
                                   THEN IF b = "filter_add" THEN 1 ELSE 0
                                   ELSE hooks[<<t, g>>]
    BY <1>16, <1>h, FilterSignalEffect
  <2>2. /\ e \in signals /\ signals' = signals \ {e}
        /\ UNCHANGED <<ui, todo, at, life, tables, chain, strays>>
    BY <1>16 DEF FilterSignal
  <2>3. e[1] = b /\ e[2] = s /\ e[3] = f
    BY <2>1
  <2>4. CASE s \notin tables \cap Inputs
    BY <2>1, <2>2, <2>3, <2>4, <1>t, SourcesAssumption DEF ListedStates,
        Before, Enumerating, Sources, Lives
  <2>5. CASE s \in tables \cap Inputs
    <3>1. \A t \in Sources, g \in Filters :
                hooks'[<<t, g>>] = IF t = s /\ g = f
                                   THEN IF b = "filter_add" THEN 1 ELSE 0
                                   ELSE hooks[<<t, g>>]
      BY <2>1, <2>5
    <3> QED
      BY <2>1, <2>2, <2>3, <2>5, <3>1, <1>t, SourcesAssumption DEF
          ListedStates, Before, Enumerating, Sources, Lives
  <2> QED
    BY <2>4, <2>5
<1>17. CASE UNCHANGED hook_vars
  BY <1>17 DEF hook_vars, ListedStates, Before, Enumerating, Sources, Lives
<1> QED
  BY <1>1, <1>2, <1>3, <1>4, <1>5, <1>6, <1>7, <1>8, <1>9, <1>10, <1>11,
      <1>12, <1>13, <1>14, <1>15, <1>16, <1>17 DEF HooksNext

\* Follows is kept.
LEMMA FollowsStep ==
  ASSUME HookTypes, Lives, Follows, [HooksNext]_hook_vars
  PROVE  Follows'
<1>h. HookTypes
  OBVIOUS
<1>t. /\ todo \subseteq Sources /\ at \in Sources \cup {NoSource}
     /\ life \in [Sources -> ListedStates \cup {"absent", "removed", "unhooking"}]
     /\ tables \subseteq Sources /\ strays \subseteq Sources
     /\ chain \in [Sources -> SUBSET Filters]
     /\ \A t \in Sources, g \in Filters : hooks[<<t, g>>] \in {0, 1}
     /\ \A e \in signals :
          \E b \in {"filter_add", "filter_remove"}, s \in Sources, f \in Filters :
            e = <<b, s, f>> /\ e[1] = b /\ e[2] = s /\ e[3] = f
  BY TypesRead
<1>1. CASE Enumerate("off", "init")
  BY <1>1, <1>t, SourcesAssumption DEF Enumerate, Listed, ListedStates,
      Before, Enumerating, Sources, Lives, Follows
<1>2. CASE Enumerate("exit_gap", "exit")
  BY <1>2, <1>t, SourcesAssumption DEF Enumerate, Listed, ListedStates,
      Before, Enumerating, Sources, Lives, Follows
<1>3. CASE EnumFilters
  <2>1. at \in Sources /\ at # NoSource
    BY <1>3, <1>h, EnumFiltersEffect
  <2>2. CASE ui = "init"
    <3>1. \A t \in Sources, g \in Filters :
             hooks'[<<t, g>>] = IF t = at /\ g \in chain[t] THEN 1 ELSE hooks[<<t, g>>]
      BY <1>3, <2>2, <1>h, EnumFiltersEffect
    <3>2. at' = NoSource /\ UNCHANGED <<ui, todo, life, tables, chain, signals, strays>>
      BY <1>3 DEF EnumFilters
    <3> QED
      BY <2>1, <2>2, <3>1, <3>2, <1>t, SourcesAssumption DEF
          ListedStates, Before, Enumerating, Sources, Lives, Follows
  <2>3. CASE ui = "exit"
    <3>1. \A t \in Sources, g \in Filters :
             hooks'[<<t, g>>] = IF t = at THEN 0 ELSE hooks[<<t, g>>]
      BY <1>3, <2>3, <1>h, EnumFiltersEffect
    <3>2. at' = NoSource /\ UNCHANGED <<ui, todo, life, tables, chain, signals, strays>>
      BY <1>3 DEF EnumFilters
    <3> QED
      BY <2>1, <2>3, <3>1, <3>2, <1>t, SourcesAssumption DEF
          ListedStates, Before, Enumerating, Sources, Lives, Follows
  <2> QED
    BY <1>3, <2>2, <2>3 DEF EnumFilters, Enumerating
<1>4. CASE EnumEnd
  BY <1>4, <1>t, SourcesAssumption DEF EnumEnd, ListedStates, Before,
      Enumerating, Sources, Lives, Follows
<1>5. CASE Connect
  BY <1>5, <1>t, SourcesAssumption DEF Connect, ListedStates, Before,
      Enumerating, Sources, Lives, Follows
<1>6. CASE Disconnect
  BY <1>6, <1>t, SourcesAssumption DEF Disconnect, ListedStates, Before,
      Enumerating, Sources, Lives, Follows
<1>7. ASSUME NEW s \in Sources, EnumTable(s)
      PROVE  Follows'
  BY <1>7, <1>t, SourcesAssumption DEF EnumTable, ListedStates, Before,
      Enumerating, Sources, Lives, Follows
<1>8. ASSUME NEW s \in Sources, Enter(s)
      PROVE  Follows'
  BY <1>8, <1>t, SourcesAssumption DEF Enter, ListedStates, Before,
      Enumerating, Sources, Lives, Follows
<1>9. ASSUME NEW s \in Sources, Created(s)
      PROVE  Follows'
  BY <1>9, <1>t, SourcesAssumption DEF Created, Connected, ListedStates,
      Before, Enumerating, Sources, Lives, Follows
<1>10. ASSUME NEW s \in Sources, CreatedFilters(s)
      PROVE  Follows'
  <2>1. \A t \in Sources, g \in Filters :
           hooks'[<<t, g>>] = IF t = s /\ g \in chain[t] THEN 1 ELSE hooks[<<t, g>>]
    BY <1>10, <1>h, CreatedFiltersEffect
  <2>2. /\ life[s] = "hooking" /\ life' = [life EXCEPT ![s] = "live"]
        /\ UNCHANGED <<ui, todo, at, tables, chain, signals, strays>>
    BY <1>10 DEF CreatedFilters
  <2> QED
    BY <2>1, <2>2, <1>t DEF ListedStates, Before, Enumerating, Sources,
        Lives, Follows
<1>11. ASSUME NEW s \in Sources, Leave(s)
      PROVE  Follows'
  BY <1>11, <1>t, SourcesAssumption DEF Leave, ListedStates, Before,
      Enumerating, Sources, Lives, Follows
<1>12. ASSUME NEW s \in Sources, Destroyed(s)
      PROVE  Follows'
  BY <1>12, <1>t, SourcesAssumption DEF Destroyed, Connected, ListedStates,
      Before, Enumerating, Sources, Lives, Follows
<1>13. ASSUME NEW s \in Sources, DestroyedFilters(s)
      PROVE  Follows'
  <2>1. \A t \in Sources, g \in Filters :
           hooks'[<<t, g>>] = IF t = s THEN 0 ELSE hooks[<<t, g>>]
    BY <1>13, <1>h, DestroyedFiltersEffect
  <2>2. /\ life[s] = "unhooking" /\ life' = [life EXCEPT ![s] = "absent"]
        /\ UNCHANGED <<ui, todo, at, tables, chain, signals, strays>>
    BY <1>13 DEF DestroyedFilters
  <2> QED
    BY <2>1, <2>2, <1>t DEF ListedStates, Before, Enumerating, Sources,
        Lives, Follows
<1>14. ASSUME NEW s \in Sources, NEW f \in Filters, AddFilter(s, f)
      PROVE  Follows'
  <2>1. /\ s \in Listed /\ \A d \in signals : d[3] # f
        /\ signals' = signals \cup {<<"filter_add", s, f>>}
        /\ UNCHANGED <<ui, todo, at, life, tables, hooks, strays>>
    BY <1>14 DEF AddFilter
  <2>2. /\ chain'[s] = chain[s] \cup {f}
        /\ \A t \in Sources : t # s => chain'[t] = chain[t]
    BY <1>14, <1>t DEF AddFilter
  <2>3. \A t \in Sources, g \in Filters :
           (\A d \in signals' : ~(d[2] = t /\ d[3] = g)) =>
              /\ \A d \in signals : ~(d[2] = t /\ d[3] = g)
              /\ g \in chain'[t] <=> g \in chain[t]
    <3>1. <<"filter_add", s, f>> \in signals'
      BY <2>1
    <3>2. ASSUME NEW t \in Sources, NEW g \in Filters,
                 \A d \in signals' : ~(d[2] = t /\ d[3] = g)
          PROVE  ~(t = s /\ g = f)
      BY <3>1, <3>2
    <3> QED
      BY <2>1, <2>2, <3>2
  <2>4. \A d \in signals' : d[1] = "filter_add" <=> d[3] \in chain'[d[2]]
    <3>1. ASSUME NEW d \in signals
          PROVE  d[1] = "filter_add" <=> d[3] \in chain'[d[2]]
      <4>1. d[2] \in Sources /\ d[3] # f
        BY <1>t, <2>1
      <4>2. d[3] \in chain'[d[2]] <=> d[3] \in chain[d[2]]
        BY <4>1, <2>2
      <4> QED
        BY <4>2 DEF Follows
    <3> QED
      BY <2>1, <2>2, <3>1
  <2> QED
    BY <2>1, <2>3, <2>4, <1>t DEF ListedStates, Before, Follows
<1>15. ASSUME NEW s \in Sources, NEW f \in Filters, RemoveFilter(s, f)
      PROVE  Follows'
  <2>1. /\ s \in Listed /\ \A d \in signals : d[3] # f
        /\ signals' = signals \cup {<<"filter_remove", s, f>>}
        /\ UNCHANGED <<ui, todo, at, life, tables, hooks, strays>>
    BY <1>15 DEF RemoveFilter
  <2>2. /\ chain'[s] = chain[s] \ {f}
        /\ \A t \in Sources : t # s => chain'[t] = chain[t]
    BY <1>15, <1>t DEF RemoveFilter
  <2>3. \A t \in Sources, g \in Filters :
           (\A d \in signals' : ~(d[2] = t /\ d[3] = g)) =>
              /\ \A d \in signals : ~(d[2] = t /\ d[3] = g)
              /\ g \in chain'[t] <=> g \in chain[t]
    <3>1. <<"filter_remove", s, f>> \in signals'
      BY <2>1
    <3>2. ASSUME NEW t \in Sources, NEW g \in Filters,
                 \A d \in signals' : ~(d[2] = t /\ d[3] = g)
          PROVE  ~(t = s /\ g = f)
      BY <3>1, <3>2
    <3> QED
      BY <2>1, <2>2, <3>2
  <2>4. \A d \in signals' : d[1] = "filter_add" <=> d[3] \in chain'[d[2]]
    <3>1. ASSUME NEW d \in signals
          PROVE  d[1] = "filter_add" <=> d[3] \in chain'[d[2]]
      <4>1. d[2] \in Sources /\ d[3] # f
        BY <1>t, <2>1
      <4>2. d[3] \in chain'[d[2]] <=> d[3] \in chain[d[2]]
        BY <4>1, <2>2
      <4> QED
        BY <4>2 DEF Follows
    <3> QED
      BY <2>1, <2>2, <3>1
  <2> QED
    BY <2>1, <2>3, <2>4, <1>t DEF ListedStates, Before, Follows
<1>16. ASSUME NEW e \in signals, FilterSignal(e)
      PROVE  Follows'
  <2>1. PICK b \in {"filter_add", "filter_remove"}, s \in Sources, f \in Filters :
           /\ e = <<b, s, f>>
           /\ s \notin tables \cap Inputs => hooks' = hooks
           /\ s \in tables \cap Inputs => \A t \in Sources, g \in Filters :
                hooks'[<<t, g>>] = IF t = s /\ g = f
                                   THEN IF b = "filter_add" THEN 1 ELSE 0
                                   ELSE hooks[<<t, g>>]
    BY <1>16, <1>h, FilterSignalEffect
  <2>2. /\ e \in signals /\ signals' = signals \ {e}
        /\ UNCHANGED <<ui, todo, at, life, tables, chain, strays>>
    BY <1>16 DEF FilterSignal
  <2>3. e[1] = b /\ e[2] = s /\ e[3] = f
    BY <2>1
  <2>4. CASE s \notin tables \cap Inputs
    BY <2>1, <2>2, <2>3, <2>4, <1>t, SourcesAssumption DEF ListedStates,
        Before, Enumerating, Sources, Lives, Follows
  <2>5. CASE s \in tables \cap Inputs
    <3>1. \A t \in Sources, g \in Filters :
                hooks'[<<t, g>>] = IF t = s /\ g = f
                                   THEN IF b = "filter_add" THEN 1 ELSE 0
                                   ELSE hooks[<<t, g>>]
      BY <2>1, <2>5
    <3> QED
      BY <2>1, <2>2, <2>3, <2>5, <3>1, <1>t, SourcesAssumption DEF
          ListedStates, Before, Enumerating, Sources, Lives, Follows
  <2> QED
    BY <2>4, <2>5
<1>17. CASE UNCHANGED hook_vars
  BY <1>17 DEF hook_vars, ListedStates, Before, Enumerating, Sources, Lives,
      Follows
<1> QED
  BY <1>1, <1>2, <1>3, <1>4, <1>5, <1>6, <1>7, <1>8, <1>9, <1>10, <1>11,
      <1>12, <1>13, <1>14, <1>15, <1>16, <1>17 DEF HooksNext

\* Released is kept.
LEMMA ReleasedStep ==
  ASSUME HookTypes, Lives, Follows, Released, [HooksNext]_hook_vars
  PROVE  Released'
<1>h. HookTypes
  OBVIOUS
<1>t. /\ todo \subseteq Sources /\ at \in Sources \cup {NoSource}
     /\ life \in [Sources -> ListedStates \cup {"absent", "removed", "unhooking"}]
     /\ tables \subseteq Sources /\ strays \subseteq Sources
     /\ chain \in [Sources -> SUBSET Filters]
     /\ \A t \in Sources, g \in Filters : hooks[<<t, g>>] \in {0, 1}
     /\ \A e \in signals :
          \E b \in {"filter_add", "filter_remove"}, s \in Sources, f \in Filters :
            e = <<b, s, f>> /\ e[1] = b /\ e[2] = s /\ e[3] = f
  BY TypesRead
<1>1. CASE Enumerate("off", "init")
  BY <1>1, <1>t, SourcesAssumption DEF Enumerate, Listed, ListedStates,
      Before, Enumerating, Sources, Lives, Released
<1>2. CASE Enumerate("exit_gap", "exit")
  BY <1>2, <1>t, SourcesAssumption DEF Enumerate, Listed, ListedStates,
      Before, Enumerating, Sources, Lives, Released
<1>3. CASE EnumFilters
  <2>1. at \in Sources /\ at # NoSource
    BY <1>3, <1>h, EnumFiltersEffect
  <2>2. CASE ui = "init"
    <3>1. \A t \in Sources, g \in Filters :
             hooks'[<<t, g>>] = IF t = at /\ g \in chain[t] THEN 1 ELSE hooks[<<t, g>>]
      BY <1>3, <2>2, <1>h, EnumFiltersEffect
    <3>2. at' = NoSource /\ UNCHANGED <<ui, todo, life, tables, chain, signals, strays>>
      BY <1>3 DEF EnumFilters
    <3> QED
      BY <2>1, <2>2, <3>1, <3>2, <1>t, SourcesAssumption DEF
          ListedStates, Before, Enumerating, Sources, Lives, Released
  <2>3. CASE ui = "exit"
    <3>1. \A t \in Sources, g \in Filters :
             hooks'[<<t, g>>] = IF t = at THEN 0 ELSE hooks[<<t, g>>]
      BY <1>3, <2>3, <1>h, EnumFiltersEffect
    <3>2. at' = NoSource /\ UNCHANGED <<ui, todo, life, tables, chain, signals, strays>>
      BY <1>3 DEF EnumFilters
    <3> QED
      BY <2>1, <2>3, <3>1, <3>2, <1>t, SourcesAssumption DEF
          ListedStates, Before, Enumerating, Sources, Lives, Released
  <2> QED
    BY <1>3, <2>2, <2>3 DEF EnumFilters, Enumerating
<1>4. CASE EnumEnd
  BY <1>4, <1>t, SourcesAssumption DEF EnumEnd, ListedStates, Before,
      Enumerating, Sources, Lives, Released
<1>5. CASE Connect
  BY <1>5, <1>t, SourcesAssumption DEF Connect, ListedStates, Before,
      Enumerating, Sources, Lives, Released
<1>6. CASE Disconnect
  BY <1>6, <1>t, SourcesAssumption DEF Disconnect, ListedStates, Before,
      Enumerating, Sources, Lives, Released
<1>7. ASSUME NEW s \in Sources, EnumTable(s)
      PROVE  Released'
  BY <1>7, <1>t, SourcesAssumption DEF EnumTable, ListedStates, Before,
      Enumerating, Sources, Lives, Released
<1>8. ASSUME NEW s \in Sources, Enter(s)
      PROVE  Released'
  BY <1>8, <1>t, SourcesAssumption DEF Enter, ListedStates, Before,
      Enumerating, Sources, Lives, Released
<1>9. ASSUME NEW s \in Sources, Created(s)
      PROVE  Released'
  BY <1>9, <1>t, SourcesAssumption DEF Created, Connected, ListedStates,
      Before, Enumerating, Sources, Lives, Released
<1>10. ASSUME NEW s \in Sources, CreatedFilters(s)
      PROVE  Released'
  <2>1. \A t \in Sources, g \in Filters :
           hooks'[<<t, g>>] = IF t = s /\ g \in chain[t] THEN 1 ELSE hooks[<<t, g>>]
    BY <1>10, <1>h, CreatedFiltersEffect
  <2>2. /\ life[s] = "hooking" /\ life' = [life EXCEPT ![s] = "live"]
        /\ UNCHANGED <<ui, todo, at, tables, chain, signals, strays>>
    BY <1>10 DEF CreatedFilters
  <2> QED
    BY <2>1, <2>2, <1>t DEF ListedStates, Before, Enumerating, Sources,
        Lives, Released
<1>11. ASSUME NEW s \in Sources, Leave(s)
      PROVE  Released'
  BY <1>11, <1>t, SourcesAssumption DEF Leave, ListedStates, Before,
      Enumerating, Sources, Lives, Released
<1>12. ASSUME NEW s \in Sources, Destroyed(s)
      PROVE  Released'
  BY <1>12, <1>t, SourcesAssumption DEF Destroyed, Connected, ListedStates,
      Before, Enumerating, Sources, Lives, Released
<1>13. ASSUME NEW s \in Sources, DestroyedFilters(s)
      PROVE  Released'
  <2>1. \A t \in Sources, g \in Filters :
           hooks'[<<t, g>>] = IF t = s THEN 0 ELSE hooks[<<t, g>>]
    BY <1>13, <1>h, DestroyedFiltersEffect
  <2>2. /\ life[s] = "unhooking" /\ life' = [life EXCEPT ![s] = "absent"]
        /\ UNCHANGED <<ui, todo, at, tables, chain, signals, strays>>
    BY <1>13 DEF DestroyedFilters
  <2> QED
    BY <2>1, <2>2, <1>t DEF ListedStates, Before, Enumerating, Sources,
        Lives, Released
<1>14. ASSUME NEW s \in Sources, NEW f \in Filters, AddFilter(s, f)
      PROVE  Released'
  BY <1>14, <1>t, SourcesAssumption DEF AddFilter, Listed, ListedStates,
      Before, Enumerating, Sources, Lives, Released
<1>15. ASSUME NEW s \in Sources, NEW f \in Filters, RemoveFilter(s, f)
      PROVE  Released'
  BY <1>15, <1>t, SourcesAssumption DEF RemoveFilter, Listed, ListedStates,
      Before, Enumerating, Sources, Lives, Released
<1>16. ASSUME NEW e \in signals, FilterSignal(e)
      PROVE  Released'
  <2>1. PICK b \in {"filter_add", "filter_remove"}, s \in Sources, f \in Filters :
           /\ e = <<b, s, f>>
           /\ s \notin tables \cap Inputs => hooks' = hooks
           /\ s \in tables \cap Inputs => \A t \in Sources, g \in Filters :
                hooks'[<<t, g>>] = IF t = s /\ g = f
                                   THEN IF b = "filter_add" THEN 1 ELSE 0
                                   ELSE hooks[<<t, g>>]
    BY <1>16, <1>h, FilterSignalEffect
  <2>2. /\ e \in signals /\ signals' = signals \ {e}
        /\ UNCHANGED <<ui, todo, at, life, tables, chain, strays>>
    BY <1>16 DEF FilterSignal
  <2>3. e[1] = b /\ e[2] = s /\ e[3] = f
    BY <2>1
  <2>4. CASE s \notin tables \cap Inputs
    BY <2>1, <2>2, <2>3, <2>4, <1>t, SourcesAssumption DEF ListedStates,
        Before, Enumerating, Sources, Lives, Released
  <2>5. CASE s \in tables \cap Inputs
    <3>1. \A t \in Sources, g \in Filters :
                hooks'[<<t, g>>] = IF t = s /\ g = f
                                   THEN IF b = "filter_add" THEN 1 ELSE 0
                                   ELSE hooks[<<t, g>>]
      BY <2>1, <2>5
    <3> QED
      BY <2>1, <2>2, <2>3, <2>5, <3>1, <1>t, SourcesAssumption DEF
          ListedStates, Before, Enumerating, Sources, Lives, Released
  <2> QED
    BY <2>4, <2>5
<1>17. CASE UNCHANGED hook_vars
  BY <1>17 DEF hook_vars, ListedStates, Before, Enumerating, Sources, Lives,
      Released
<1> QED
  BY <1>1, <1>2, <1>3, <1>4, <1>5, <1>6, <1>7, <1>8, <1>9, <1>10, <1>11,
      <1>12, <1>13, <1>14, <1>15, <1>16, <1>17 DEF HooksNext

-----------------------------------------------------------------------------
HooksInv == HookTypes /\ Lives /\ Follows /\ Released

\* The module is loaded with sources in any state, and no hooks.
LEMMA HooksInvInit == HooksInit => HooksInv
<1> SUFFICES ASSUME HooksInit PROVE HooksInv
  OBVIOUS
<1>1. HookTypes
  BY DEF HooksInit, HookTypes, Before, ListedStates
<1>2. \A s \in Sources, f \in Filters : hooks[<<s, f>>] = 0
  BY DEF HooksInit, Pairs
<1>3. Lives
  BY <1>2, SourcesAssumption DEF HooksInit, Lives, Enumerating, ListedStates, Sources
<1>4. Follows /\ Released
  BY <1>2 DEF HooksInit, Follows, Released, ListedStates, Before
<1> QED
  BY <1>1, <1>3, <1>4 DEF HooksInv

LEMMA HooksInvAlways == HooksSpec => []HooksInv
<1>1. HooksInv /\ [HooksNext]_hook_vars => HooksInv'
  BY HookTypesStep, LivesStep, FollowsStep, ReleasedStep DEF HooksInv
<1> QED
  BY HooksInvInit, <1>1, PTL DEF HooksSpec

(***************************************************************************)
(* While the module runs, an input that is alive and has no signal on its  *)
(* way has one hook for each filter of its chain and no other, unless it   *)
(* slipped through the gap of osc_feedback_init().                         *)
(***************************************************************************)
THEOREM InputFiltersTrackedAlways == HooksSpec => []InputFiltersTracked
<1>1. HooksInv => InputFiltersTracked
  <2> SUFFICES ASSUME HooksInv PROVE InputFiltersTracked
    OBVIOUS
  <2>1. HookedOnce
    BY DEF HooksInv, HookTypes, HookedOnce
  <2>2. ASSUME ui = "on", NEW s \in Inputs, Quiet(s)
        PROVE  /\ s \in tables \cup (Inputs \ Enumerable)
               /\ s \in tables => {f \in Filters : hooks[<<s, f>>] = 1} = chain[s]
    <3>1. s \in Sources \ strays /\ life[s] = "live" /\ \A e \in signals : e[2] # s
      BY <2>2 DEF Quiet, Sources
    <3>2. at # s
      BY <2>2, SourcesAssumption DEF HooksInv, Lives, Enumerating
    <3>3. chain[s] \in SUBSET Filters
      BY <3>1 DEF HooksInv, HookTypes
    <3>4. s \in Enumerable => s \in tables
      BY <2>2, <3>1 DEF HooksInv, Follows, Before
    <3>5. s \in tables => \A f \in Filters :
             /\ f \notin chain[s] => hooks[<<s, f>>] = 0
             /\ f \in chain[s] => hooks[<<s, f>>] = 1
      BY <2>2, <3>1, <3>2 DEF HooksInv, Follows, Before, ListedStates
    <3> QED
      BY <2>2, <3>3, <3>4, <3>5
  <2> QED
    BY <2>1, <2>2 DEF InputFiltersTracked
<1> QED
  BY HooksInvAlways, <1>1, PTL

(***************************************************************************)
(* No entry outlives its parent, and after osc_feedback_shutdown() nothing *)
(* is connected or referenced, for every source that can be enumerated and *)
(* did not end unseen.                                                     *)
(***************************************************************************)
THEOREM EntriesHaveParentsAlways == HooksSpec => []EntriesHaveParents
<1>1. HooksInv => EntriesHaveParents
  <2> SUFFICES ASSUME HooksInv PROVE EntriesHaveParents
    OBVIOUS
  <2>1. ASSUME NEW p \in Pairs, hooks[p] > 0, p[1] \notin strays
        PROVE  life[p[1]] # "absent"
    <3>1. PICK s \in Sources, f \in Filters : p = <<s, f>>
      BY DEF Pairs
    <3>2. p[1] = s
      BY <3>1
    <3> QED
      BY <2>1, <3>1, <3>2 DEF HooksInv, Lives
  <2>2. ASSUME ui = "down", NEW s \in Enumerable \ strays, life[s] # "removed"
        PROVE  s \notin tables /\ \A f \in Filters : hooks[<<s, f>>] = 0
    <3>1. todo = {} /\ at = NoSource
      BY <2>2 DEF HooksInv, Lives, Enumerating
    <3>2. s \in Sources /\ at # s
      BY <3>1, SourcesAssumption DEF Sources
    <3> QED
      BY <2>2, <3>1, <3>2 DEF HooksInv, Released
  <2> QED
    BY <2>1, <2>2 DEF EntriesHaveParents
<1> QED
  BY HooksInvAlways, <1>1, PTL

=============================================================================
