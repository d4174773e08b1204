--------------------------- MODULE OscFilterHooks ---------------------------
(***************************************************************************)
(* The signal and filter hooks of osc-feedback.cpp: init and shutdown on   *)
(* the UI thread, source_create and source_destroy on the threads that     *)
(* make and end sources, filter_add and filter_remove on those that edit   *)
(* chains. libobs (external) runs the callbacks of one signal one at a     *)
(* time, makes a disconnect wait for them, keeps its list of sources still *)
(* during an enumeration, and changes a list before it sends the signal    *)
(* about it.                                                               *)
(***************************************************************************)
EXTENDS Integers

CONSTANTS
    Inputs, Scenes,  \* addresses of sources, used again when they are free
    Filters,
    Enumerable,      \* those that obs_enum_sources() yields
    NoSource

ASSUME SourcesAssumption ==
    /\ Inputs \cap Scenes = {}
    /\ Enumerable \subseteq Inputs \cup Scenes
    /\ NoSource \notin Inputs \cup Scenes

Sources == Inputs \cup Scenes
Pairs == Sources \X Filters

VARIABLES
    ui,       \* where the UI thread is in osc_feedback_init() and _shutdown()
    todo, at, \* its enumeration: the sources to come, the one half done
    life,     \* where each source is between its creation and its end
    tables,   \* sources whose hook table is connected
    chain,    \* the filters of each source
    signals,  \* filter_add and filter_remove signals on their way
    hooks,    \* s_filter_hooks: the number of entries of each pair
    enable,   \* the connections of the enable signal of filters
    strays    \* history: ended while source_destroy was not connected

hook_vars == <<ui, todo, at, life, tables, chain, signals, hooks, enable, strays>>

Listed == {s \in Sources : life[s] \in {"inserted", "late", "hooking", "live", "missed"}}

Enumerating == ui \in {"init", "exit"}

HooksInit ==
    /\ ui = "off" /\ todo = {} /\ at = NoSource
    /\ life \in [Sources -> {"absent", "live"}]
    /\ chain \in [Sources -> SUBSET Filters]
    /\ \A s, t \in Sources : s # t => chain[s] \cap chain[t] = {}
    /\ \A s \in Sources : life[s] = "absent" => chain[s] = {}
    /\ tables = {} /\ signals = {} /\ enable = {} /\ strays = {}
    /\ hooks = [p \in Pairs |-> 0]

\* hook_filter() for each of a set of filters of one source.
Hook(s, fs) ==
    /\ hooks' = [p \in Pairs |->
                    IF p[1] = s /\ p[2] \in fs /\ hooks[p] = 0 THEN 1 ELSE hooks[p]]
    /\ enable' = enable \cup ({s} \X fs)

\* unhook_filter() and unhook_filters_of_parent(), by drop_hook_at().
UnhookOne(s, f) ==
    /\ hooks' = [hooks EXCEPT ![<<s, f>>] = IF @ > 0 THEN @ - 1 ELSE 0]
    /\ enable' = IF hooks[<<s, f>>] > 0 THEN enable \ {<<s, f>>} ELSE enable

UnhookParentNever(s) == UNCHANGED <<hooks, enable>>

UnhookParent(s) ==
    /\ hooks' = [p \in Pairs |-> IF p[1] = s THEN 0 ELSE hooks[p]]
    /\ enable' = {p \in enable : p[1] # s \/ hooks[p] = 0}

-----------------------------------------------------------------------------
(***************************************************************************)
(* The UI thread. A source is changed in two steps: its hook table, then   *)
(* the filters it has (change_hook_connections()).                         *)
(***************************************************************************)
Enumerate(from, during) ==
    /\ ui = from
    /\ ui' = during /\ todo' = Listed \cap Enumerable
    /\ UNCHANGED <<at, life, tables, chain, signals, hooks, enable, strays>>

EnumTable(s) ==
    /\ Enumerating /\ at = NoSource /\ s \in todo
    /\ at' = s /\ todo' = todo \ {s}
    /\ tables' = IF ui = "init" THEN tables \cup {s} ELSE tables \ {s}
    /\ UNCHANGED <<ui, life, chain, signals, hooks, enable, strays>>

EnumFilters ==
    /\ Enumerating /\ at # NoSource
    /\ IF ui = "init" THEN Hook(at, chain[at]) ELSE UnhookParent(at)
    /\ at' = NoSource
    /\ UNCHANGED <<ui, todo, life, tables, chain, signals, strays>>

EnumEnd ==
    /\ Enumerating /\ at = NoSource /\ todo = {}
    /\ ui' = IF ui = "init" THEN "gap" ELSE "down"
    /\ UNCHANGED <<todo, at, life, tables, chain, signals, hooks, enable, strays>>

\* osc_feedback_init() connects source_create, then source_destroy;
\* osc_feedback_shutdown() disconnects them in the same order.
Connected(signal) ==
    IF signal = "source_create" THEN ui \in {"half", "on"} ELSE ui \in {"on", "exit_half"}

Connect ==
    /\ ui \in {"gap", "half"}
    /\ ui' = IF ui = "gap" THEN "half" ELSE "on"
    /\ UNCHANGED <<todo, at, life, tables, chain, signals, hooks, enable, strays>>

Disconnect ==
    /\ \/ ui = "on" /\ ui' = "exit_half" /\ \A s \in Sources : life[s] # "hooking"
       \/ ui = "exit_half" /\ ui' = "exit_gap" /\ \A s \in Sources : life[s] # "unhooking"
    /\ UNCHANGED <<todo, at, life, tables, chain, signals, hooks, enable, strays>>

-----------------------------------------------------------------------------
(***************************************************************************)
(* Sources. "late" is a source that enters the list after the enumeration  *)
(* and before source_create is connected, "missed" one whose signal went   *)
(* by in that time too.                                                    *)
(***************************************************************************)
Enter(s) ==
    /\ life[s] = "absent" /\ ~Enumerating
    /\ life' = [life EXCEPT ![s] = IF ui = "gap" THEN "late" ELSE "inserted"]
    /\ UNCHANGED <<ui, todo, at, tables, chain, signals, hooks, enable, strays>>

\* source_create_cb(), its first half, or a signal nobody is connected to.
Created(s) ==
    /\ life[s] \in {"inserted", "late"}
    /\ IF Connected("source_create")
       THEN /\ \A t \in Sources : life[t] # "hooking"
            /\ life' = [life EXCEPT ![s] = "hooking"]
            /\ tables' = tables \cup {s}
       ELSE /\ life' = [life EXCEPT ![s] = IF @ = "late" THEN "missed" ELSE "live"]
            /\ UNCHANGED tables
    /\ UNCHANGED <<ui, todo, at, chain, signals, hooks, enable, strays>>

\* Its second half, hook_existing_filters().
CreatedNoFilters(s) ==
    /\ life[s] = "hooking"
    /\ life' = [life EXCEPT ![s] = "live"]
    /\ UNCHANGED <<ui, todo, at, tables, chain, signals, hooks, enable, strays>>

CreatedFilters(s) ==
    /\ life[s] = "hooking"
    /\ Hook(s, chain[s])
    /\ life' = [life EXCEPT ![s] = "live"]
    /\ UNCHANGED <<ui, todo, at, tables, chain, signals, strays>>

Leave(s) ==
    /\ life[s] \in {"live", "missed"} /\ ~Enumerating
    /\ \A e \in signals : e[2] # s
    /\ life' = [life EXCEPT ![s] = "removed"]
    /\ UNCHANGED <<ui, todo, at, tables, chain, signals, hooks, enable, strays>>

\* source_destroy_cb(), its first half, or a signal nobody is connected to.
Destroyed(s) ==
    /\ life[s] = "removed"
    /\ IF Connected("source_destroy")
       THEN /\ \A t \in Sources : life[t] # "unhooking"
            /\ life' = [life EXCEPT ![s] = "unhooking"]
            /\ UNCHANGED strays
       ELSE /\ life' = [life EXCEPT ![s] = "absent"]
            /\ strays' = IF ui = "off" THEN strays ELSE strays \cup {s}
    /\ tables' = tables \ {s}
    /\ chain' = [chain EXCEPT ![s] = {}]
    /\ UNCHANGED <<ui, todo, at, signals, hooks, enable>>

DestroyedFilters(s) ==
    /\ life[s] = "unhooking"
    /\ UnhookParent(s)
    /\ life' = [life EXCEPT ![s] = "absent"]
    /\ UNCHANGED <<ui, todo, at, tables, chain, signals, strays>>

-----------------------------------------------------------------------------
(***************************************************************************)
(* Filters. input_hooks has filter_add and filter_remove, scene_hooks has  *)
(* neither. A filter that still has an entry is referenced, so its address *)
(* is not used again.                                                      *)
(***************************************************************************)
AddFilter(s, f) ==
    /\ s \in Listed
    /\ \A t \in Sources : f \notin chain[t] /\ hooks[<<t, f>>] = 0
    /\ \A e \in signals : e[3] # f
    /\ chain' = [chain EXCEPT ![s] = @ \cup {f}]
    /\ signals' = signals \cup {<<"filter_add", s, f>>}
    /\ UNCHANGED <<ui, todo, at, life, tables, hooks, enable, strays>>

RemoveFilter(s, f) ==
    /\ f \in chain[s] /\ s \in Listed
    /\ \A e \in signals : e[3] # f
    /\ chain' = [chain EXCEPT ![s] = @ \ {f}]
    /\ signals' = signals \cup {<<"filter_remove", s, f>>}
    /\ UNCHANGED <<ui, todo, at, life, tables, hooks, enable, strays>>

FilterSignal(e) ==
    /\ e \in signals
    /\ signals' = signals \ {e}
    /\ CASE e[2] \notin tables \cap Inputs -> UNCHANGED <<hooks, enable>>
         [] e[2] \in tables \cap Inputs /\ e[1] = "filter_add" -> Hook(e[2], {e[3]})
         [] e[2] \in tables \cap Inputs /\ e[1] = "filter_remove" -> UnhookOne(e[2], e[3])
    /\ UNCHANGED <<ui, todo, at, life, tables, chain, strays>>

HooksNext ==
    \/ Enumerate("off", "init") \/ Enumerate("exit_gap", "exit")
    \/ EnumFilters \/ EnumEnd \/ Connect \/ Disconnect
    \/ \E s \in Sources :
        \/ EnumTable(s)
        \/ Enter(s) \/ Created(s) \/ CreatedFilters(s)
        \/ Leave(s) \/ Destroyed(s) \/ DestroyedFilters(s)
        \/ \E f \in Filters : AddFilter(s, f) \/ RemoveFilter(s, f)
    \/ \E e \in signals : FilterSignal(e)

HooksSpec == HooksInit /\ [][HooksNext]_hook_vars

-----------------------------------------------------------------------------
(***************************************************************************)
(* A pair is hooked once, also when the enumeration of a chain and the     *)
(* filter_add signal of one of its filters meet: each entry holds one      *)
(* reference and one connection, and dropping it gives both back.          *)
(***************************************************************************)
HookedOnce ==
    \A p \in Pairs : hooks[p] \in {0, 1} /\ (p \in enable <=> hooks[p] = 1)

(***************************************************************************)
(* Between init and shutdown, with no signal about it on its way, every    *)
(* input has hooks for exactly the filters in its chain, one each, except  *)
(* an input that came in the gap of osc_feedback_init() or has the address *)
(* of one that ended in it.                                                *)
(***************************************************************************)
Quiet(s) == life[s] = "live" /\ s \notin strays /\ \A e \in signals : e[2] # s

InputFiltersTracked ==
    /\ HookedOnce
    /\ ui = "on" => \A s \in Inputs : Quiet(s) =>
          s \in tables \cup (Inputs \ Enumerable)
              /\ (s \in tables => {f \in Filters : hooks[<<s, f>>] = 1} = chain[s])

(***************************************************************************)
(* An entry names its parent by a bare pointer: none is left when the      *)
(* parent is gone, except for parents that ended unseen, before            *)
(* source_destroy was connected or after it was disconnected. After        *)
(* osc_feedback_shutdown() no table is connected and no filter is          *)
(* referenced, as far as sources can be enumerated: those that were on     *)
(* their way out when source_destroy was disconnected cannot.              *)
(***************************************************************************)
EntriesHaveParents ==
    /\ \A p \in Pairs : hooks[p] > 0 /\ p[1] \notin strays => life[p[1]] # "absent"
    /\ ui = "down" => \A s \in Enumerable \ strays : life[s] # "removed" =>
          s \notin tables /\ \A f \in Filters : hooks[<<s, f>>] = 0

=============================================================================
