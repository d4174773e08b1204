---------------------------- MODULE OscCommands ----------------------------
(***************************************************************************)
(* What a message does to OBS and what a poll answers:                     *)
(* osc_dispatch_command and poll_dispatch (osc-controls.cpp), the object   *)
(* routes behind them (osc-objects.cpp), the visitors of osc-util.cpp, and *)
(* the feedback that OBS's signals and events cause (osc-feedback.cpp).    *)
(*                                                                         *)
(* The state of OBS is a function of cells, and a cell is the address of   *)
(* its feedback: cells[<<"visible", s, i>>] is the visibility of item i of *)
(* scene s. An address is the sequence of its segments, a pattern of a     *)
(* segment is a name or "*" (OscGlob has the matching itself), a message   *)
(* has at most the one argument that is looked at.                         *)
(***************************************************************************)
EXTENDS Integers, SequencesExt

CONSTANTS
    Outputs,      \* osc_addr::outputs
    Scenes,       \* the scenes, in OBS's order
    Inputs,       \* the inputs
    Items,        \* [scene -> sequence of its inputs], in their first order
    Chain,        \* [source -> sequence of its filters]
    Params,       \* [property of a filter -> "bool", "int", "text" or "list"]
    Fields,       \* osc_transform_fields
    Names,        \* [transition, profile, collection -> the names there are]
    Full,         \* the fader position 1.0, in steps
    RouteGroups,  \* bound: a behaviour's clients use the routes of one group
    Addresses, Arguments  \* bound: the messages they send

SceneNames == Range(Scenes)

\* A selector that is one of these is a position, "*" selects all: the names
\* of objects are others. OBS allows such names; the code cannot tell them.
Digits == [d \in {"0", "1", "2", "3"} |-> CHOOSE n \in 0..3 : ToString(n) = d]

Plain(names) == names \cap ({"*"} \cup DOMAIN Digits) = {}

ASSUME CommandsAssumption ==
    /\ "record" \in Outputs /\ Outputs \subseteq {"stream", "record", "replay", "virtualcam"}
    /\ Full \in Nat \ {0}
    /\ Scenes \in Seq(SceneNames) /\ Scenes # <<>> /\ Plain(SceneNames)
    /\ IsFiniteSet(Inputs) /\ Plain(Inputs)
    /\ \A s \in SceneNames : Items[s] \in Seq(Inputs) /\ IsInjective(Items[s])
    /\ Plain(DOMAIN Chain)
    /\ \A src \in DOMAIN Chain : Chain[src] \in Seq(Range(Chain[src])) /\ Plain(Range(Chain[src]))
    /\ IsFiniteSet(DOMAIN Params) /\ "params" \notin DOMAIN Params
    /\ \A p \in DOMAIN Params : Params[p] \in {"bool", "int", "text", "list"}
    /\ IsFiniteSet(Fields)
    /\ \A selection \in {"transition", "profile", "collection"} : Names[selection] # {}

\* An address has a segment; the types of an argument.
ASSUME MessagesAssumption ==
    /\ Addresses \subseteq Seq(STRING) \ {<<>>}
    /\ \A args \in Arguments \ {<<>>} : args[1][1] \in {"i", "f", "T", "F"} => args[1][2] \in Int

VARIABLES
    cells,   \* the state of OBS
    copy,    \* a client's copy, kept up by feedback alone
    open,    \* the keys of throttled() whose interval has not passed
    missed,  \* history: keys and cells whose last change the copy does not have
    routes   \* the group of this behaviour

vars == <<cells, copy, open, missed, routes>>

Selections == {"program", "preview", "transition", "profile", "collection"}
ItemNames == {x \in SceneNames \X Inputs : x[2] \in Range(Items[x[1]])}
FilterNames == UNION {{<<src, f>> : f \in Range(Chain[src])} : src \in DOMAIN Chain}
Scalars == {p \in DOMAIN Params : Params[p] # "list"}

Bare == {<<r>> : r \in {"studio"} \cup Selections \cup Outputs} \cup {<<"record", "paused">>}

Cells ==
    Bare
    \cup {<<r, i>> : r \in {"mute", "volume"}, i \in Inputs}
    \cup {<<"media", i, "state">> : i \in Inputs}
    \cup {<<r, x[1], x[2]>> : r \in {"visible", "locked", "order"}, x \in ItemNames}
    \cup {<<"transform", x[1], x[2], f>> : x \in ItemNames, f \in Fields}
    \cup {<<"filter", x[1], x[2]>> : x \in FilterNames}
    \cup {<<"filter", x[1], x[2], p>> : x \in FilterNames, p \in Scalars}

Tallies == {<<r, i>> : r \in {"active", "showing"}, i \in Inputs}

OutputStates == {"off", "starting", "on", "stopping"}
MediaStates == [none |-> 0, playing |-> 1, paused |-> 4, stopped |-> 5, ended |-> 6]

Bit(b) == IF b THEN 1 ELSE 0

\* The argument, by type, as osc_message::arg_bool() and its like read it.
ArgBoolTags(args, def) == IF args # <<>> /\ args[1][1] \in {"T", "F"} THEN args[1][2] # 0 ELSE def

ArgBool(args, def) ==
    IF args # <<>> /\ args[1][1] \in {"i", "f", "T", "F"} THEN args[1][2] # 0 ELSE def

ArgInt(args, def) ==
    IF args # <<>> /\ args[1][1] \in {"i", "f", "T", "F"} THEN args[1][2] ELSE def

ArgFloat(args, def) ==
    IF args # <<>> /\ args[1][1] \in {"i", "f"} THEN args[1][2] ELSE def

ArgString(args, def) == IF args # <<>> /\ args[1][1] = "s" THEN args[1][2] ELSE def

ArgIsToggle(args) == args # <<>> /\ args[1] \in {<<"i", -1>>, <<"f", -1>>}

-----------------------------------------------------------------------------
\* Reading OBS. A fader position p is the multiplier p * p.

Active(o, out) == o[<<out>>] \in {"on", "stopping"}

MultiplierLinear(p) == IF p < 0 THEN 0 ELSE IF p > Full THEN Full ELSE p

Multiplier(p) == LET q == IF p < 0 THEN 0 ELSE IF p > Full THEN Full ELSE p IN q * q

Position(m) == CHOOSE p \in 0..m : p * p <= m /\ m < (p + 1) * (p + 1)

\* A dB value counts steps of 6 dB, which double the position; silence is -100.
Gain(db) == LET q == IF db < 0 THEN Full \div 2 ELSE IF db > 0 THEN 2 * Full ELSE Full IN q * q

Decibels(m) ==
    CASE m = 0 -> -100 [] m = Full * Full -> 0 [] OTHER -> IF m < Full * Full THEN -1 ELSE 1

\* The inputs a scene shows.
Shown(o, s) == {i \in Range(Items[s]) : o[<<"visible", s, i>>] = 1}

Value(o, c) ==
    CASE c[1] \in Outputs /\ Len(c) = 1 -> Bit(Active(o, c[1]))
      [] c[1] = "preview" -> IF o[<<"studio">>] = 1 THEN o[c] ELSE ""
      [] c[1] = "volume" -> Position(o[c])
      [] c[1] = "db" -> Decibels(o[<<"volume", c[2]>>])
      [] c[1] = "active" -> Bit(c[2] \in Shown(o, o[<<"program">>]))
      [] c[1] = "showing" ->
            Bit(\/ c[2] \in Shown(o, o[<<"program">>])
                \/ o[<<"studio">>] = 1 /\ c[2] \in Shown(o, o[<<"preview">>]))
      [] OTHER -> o[c]

-----------------------------------------------------------------------------
\* Which objects a pattern selects.

Matches(pattern, name) == pattern \in {"*", name}

SelectorMatches(selector, name, index) ==
    IF selector \in DOMAIN Digits THEN Digits[selector] = index ELSE Matches(selector, name)

VisitInputs(pattern) == {i \in Inputs : Matches(pattern, i)}

\* Sources of any kind: a name finds scenes too, OBS's enumeration does not.
VisitSources(pattern) == IF pattern = "*" THEN Inputs ELSE {pattern} \cap DOMAIN Chain

VisitItems(o, scene, selector) ==
    {x \in ItemNames : /\ Matches(scene, x[1])
                       /\ SelectorMatches(selector, x[2], o[<<"order", x[1], x[2]>>])}

Selected(src, selector) ==
    {n \in DOMAIN Chain[src] : SelectorMatches(selector, Chain[src][n], n - 1)}

VisitFilters(source, selector) ==
    UNION {{<<src, Chain[src][n]>> : n \in Selected(src, selector)} :
              src \in VisitSources(source) \cap DOMAIN Chain}

\* resolve_filter(): of several filters that match it keeps the last.
ResolveFilter(src, selector) == <<src, Chain[src][Max(Selected(src, selector))]>>

ResolveFilters(source, selector) ==
    {ResolveFilter(src, selector) :
        src \in {s \in VisitSources(source) \cap DOMAIN Chain : Selected(s, selector) # {}}}

-----------------------------------------------------------------------------
(***************************************************************************)
(* poll_dispatch(). Pollable: it answers, maybe with nothing; otherwise    *)
(* the message goes on to the commands. A selector that is left out reads  *)
(* all.                                                                    *)
(***************************************************************************)
PollPrefix(a) ==
    \/ a[1] \in {"visible", "locked", "order", "filter", "active", "showing", "transform"}
    \/ Len(a) > 1 /\ a[1] \in {"mute", "volume", "db"}
    \/ Len(a) = 2 /\ a[1] = "media"
    \/ Len(a) = 3 /\ a[1] = "media" /\ a[3] = "state"

PollableButPaused(a) == a \in Bare \ {<<"record", "paused">>} \/ PollPrefix(a)

Pollable(a) == a \in Bare \/ PollPrefix(a)

\* The poll functions of osc-objects.cpp: what they answer for.
PollItems(o, r, scene, item) == {<<r, x[1], x[2]>> : x \in VisitItems(o, scene, item)}

PollTransform(o, scene, item, fields) ==
    {<<"transform", x[1], x[2], f>> : x \in VisitItems(o, scene, item), f \in fields}

PollFilterEnabled(source, selector) ==
    {<<"filter", x[1], x[2]>> : x \in VisitFilters(source, selector)}

PollFilterParams(source, selector, params) ==
    {<<"filter", x[1], x[2], p>> : x \in ResolveFilters(source, selector), p \in params \cap Scalars}

PollInputState(r, pattern) == {<<r, i>> : i \in VisitInputs(pattern)}

Polled(o, a) ==
    LET at(n) == IF n <= Len(a) THEN a[n] ELSE "*"
    IN CASE a \in Bare -> {a}
         [] a[1] = "mute" /\ Len(a) = 2 -> {<<"mute", i>> : i \in VisitInputs(a[2])}
         [] a[1] \in {"volume", "db"} /\ Len(a) = 2 -> {<<a[1], i>> : i \in {a[2]} \cap Inputs}
         [] a[1] = "media" -> {<<"media", i, "state">> : i \in {a[2]} \cap Inputs}
         [] a[1] \in {"visible", "locked", "order"} /\ Len(a) <= 3 -> PollItems(o, a[1], at(2), at(3))
         [] a[1] = "transform" /\ Len(a) <= 4 ->
               PollTransform(o, at(2), at(3), IF Len(a) = 4 THEN {a[4]} \cap Fields ELSE Fields)
         [] a[1] = "filter" /\ Len(a) <= 3 -> PollFilterEnabled(at(2), at(3))
         [] a[1] = "filter" /\ Len(a) = 4 ->
               PollFilterParams(a[2], a[3], IF a[4] = "params" THEN Scalars ELSE {a[4]})
         [] a[1] \in {"active", "showing"} /\ Len(a) <= 2 -> PollInputState(a[1], at(2))
         [] OTHER -> {}

-----------------------------------------------------------------------------
\* The commands.

Set(o, cs, v) == [c \in DOMAIN o |-> IF c \in cs THEN v ELSE o[c]]

FlipTogether(o, cs) == Set(o, cs, Bit(\E c \in cs : o[c] = 0))

Flip(o, cs) == [c \in DOMAIN o |-> IF c \in cs THEN 1 - o[c] ELSE o[c]]

SetOrFlip(o, cs, args) ==
    IF ArgIsToggle(args) THEN Flip(o, cs) ELSE Set(o, cs, Bit(ArgBool(args, FALSE)))

\* Studio mode starts with the program scene in the preview (OBS).
StudioMode(o, on) ==
    IF on /\ o[<<"studio">>] = 0
    THEN [o EXCEPT ![<<"studio">>] = 1, ![<<"preview">>] = o[<<"program">>]]
    ELSE [o EXCEPT ![<<"studio">>] = Bit(on)]

Studio(o, args) ==
    StudioMode(o, IF ArgIsToggle(args) THEN o[<<"studio">>] = 0 ELSE ArgBool(args, FALSE))

\* OBS acts on the preview in studio mode only.
TriggerTransition(o) ==
    IF o[<<"studio">>] = 1 THEN [o EXCEPT ![<<"program">>] = o[<<"preview">>]] ELSE o

Select(o, selection, name, names) ==
    IF name \in names THEN [o EXCEPT ![<<selection>>] = name] ELSE o

ProgramIndex(o, index) ==
    IF index \in DOMAIN Digits /\ Digits[index] \in DOMAIN Scenes
    THEN [o EXCEPT ![<<"program">>] = Scenes[Digits[index]]]
    ELSE o

\* OBS pauses what it records.
Pause(o, args) ==
    [o EXCEPT ![<<"record", "paused">>] =
        Bit(Active(o, "record") /\ ArgBool(args, o[<<"record", "paused">>] = 0))]

\* start() and stop() only begin; OutputEvent is what comes of it.
StartOrStop(o, out, start_it) ==
    CASE start_it /\ ~Active(o, out) -> [o EXCEPT ![<<out>>] = "starting"]
      [] ~start_it /\ Active(o, out) -> [o EXCEPT ![<<out>>] = "stopping"]
      [] OTHER -> o

RunOutputCommand(o, out, sub, args) ==
    CASE out = "replay" /\ sub = "save" -> o
      [] out = "record" /\ sub = "pause" -> Pause(o, args)
      [] sub = "start" -> StartOrStop(o, out, TRUE)
      [] sub = "stop" -> StartOrStop(o, out, FALSE)
      [] sub = "toggle" -> StartOrStop(o, out, ~Active(o, out))
      [] OTHER -> StartOrStop(o, out, ArgBool(args, ~Active(o, out)))

\* What the media source makes of a verb (OBS); next and prev keep its state.
MediaCommand(o, i, verb) ==
    LET c == <<"media", i, "state">>
    IN IF i \notin Inputs THEN o
       ELSE CASE verb \in {"play", "restart"} -> [o EXCEPT ![c] = MediaStates.playing]
              [] verb = "pause" -> [o EXCEPT ![c] = MediaStates.paused]
              [] verb = "toggle" ->
                    [o EXCEPT ![c] = IF @ = MediaStates.playing THEN MediaStates.paused
                                                                ELSE MediaStates.playing]
              [] verb = "stop" -> [o EXCEPT ![c] = MediaStates.stopped]
              [] OTHER -> o

\* Position p of an item: beyond the top is the top, below 0 is 1 (libobs).
Moved(o, s, i, p) ==
    LET top == Len(Items[s]) - 1
        from == o[<<"order", s, i>>]
        to == IF p < 0 THEN Min({1, top}) ELSE Min({p, top})
        shift(n) == IF from < n /\ n <= to THEN n - 1
                    ELSE IF to <= n /\ n < from THEN n + 1 ELSE n
    IN [c \in DOMAIN o |->
            IF c[1] # "order" THEN o[c]
            ELSE IF c[2] # s THEN o[c] ELSE IF c[3] = i THEN to ELSE shift(o[c])]

\* The items of a scene from the bottom, each looked at with the order that
\* the moves before it have left.
MovedIn(o, s, selector, p) ==
    LET stack == [k \in DOMAIN Items[s] |-> CHOOSE i \in Range(Items[s]) : o[<<"order", s, i>>] = k - 1]
        after[k \in 0..Len(stack)] ==
            IF k = 0 THEN o
            ELSE IF SelectorMatches(selector, stack[k], after[k - 1][<<"order", s, stack[k]>>])
            THEN Moved(after[k - 1], s, stack[k], p) ELSE after[k - 1]
    IN after[Len(stack)]

MoveItems(o, scene, selector, p) ==
    [c \in DOMAIN o |-> IF c[1] = "order" /\ Matches(scene, c[2])
                        THEN MovedIn(o, c[2], selector, p)[c] ELSE o[c]]

\* write_property()
ParamValue(p, args) ==
    CASE Params[p] = "bool" -> Bit(ArgBool(args, FALSE))
      [] Params[p] = "int" -> ArgInt(args, 0)
      [] OTHER -> ArgString(args, "")

WriteParam(o, source, selector, p, args) ==
    IF p \in Scalars
    THEN Set(o, {<<"filter", x[1], x[2], p>> : x \in ResolveFilters(source, selector)},
             ParamValue(p, args))
    ELSE o

WriteTransform(o, scene, item, f, v) ==
    IF f \in Fields THEN Set(o, PollTransform(o, scene, item, {f}), v) ELSE o

Command(o, a, args) ==
    CASE a = <<"studio">> -> Studio(o, args)
      [] a \in {<<"transition">>, <<"transition", "go">>} -> TriggerTransition(o)
      [] a[1] \in {"transition", "profile", "collection"} /\ Len(a) = 2 /\ a # <<"transition", "go">> ->
            Select(o, a[1], a[2], Names[a[1]])
      [] a[1] = "program" /\ Len(a) = 3 /\ a[2] = "index" -> ProgramIndex(o, a[3])
      [] a[1] = "program" /\ Len(a) = 2 -> Select(o, "program", a[2], SceneNames)
      [] a[1] = "preview" /\ Len(a) = 2 ->
            IF o[<<"studio">>] = 1 THEN Select(o, "preview", a[2], SceneNames) ELSE o
      [] a[1] \in Outputs -> RunOutputCommand(o, a[1], IF Len(a) = 2 THEN a[2] ELSE "", args)
      [] a[1] = "mute" /\ Len(a) = 2 ->
            SetOrFlip(o, {<<"mute", i>> : i \in VisitInputs(a[2])}, args)
      [] a[1] = "volume" /\ Len(a) = 2 ->
            Set(o, {<<"volume", i>> : i \in {a[2]} \cap Inputs}, Multiplier(ArgFloat(args, -1)))
      [] a[1] = "db" /\ Len(a) = 2 ->
            Set(o, {<<"volume", i>> : i \in {a[2]} \cap Inputs}, Gain(ArgFloat(args, 0)))
      [] a[1] = "media" /\ Len(a) = 3 -> MediaCommand(o, a[2], a[3])
      [] a[1] \in {"visible", "locked"} /\ Len(a) = 3 ->
            SetOrFlip(o, {<<a[1], x[1], x[2]>> : x \in VisitItems(o, a[2], a[3])}, args)
      [] a[1] = "order" /\ Len(a) = 3 -> MoveItems(o, a[2], a[3], ArgInt(args, -1))
      [] a[1] = "filter" /\ Len(a) = 3 ->
            SetOrFlip(o, {<<"filter", x[1], x[2]>> : x \in VisitFilters(a[2], a[3])}, args)
      [] a[1] = "filter" /\ Len(a) = 4 /\ a[4] \in DOMAIN Params ->
            WriteParam(o, a[2], a[3], a[4], args)
      [] a[1] = "transform" /\ Len(a) = 4 ->
            WriteTransform(o, a[2], a[3], a[4], ArgFloat(args, 0))
      [] OTHER -> o

\* osc_dispatch_command(): a message without arguments reads if it can.
Dispatch(o, a, args) == IF args = <<>> /\ Pollable(a) THEN o ELSE Command(o, a, args)

-----------------------------------------------------------------------------
(***************************************************************************)
(* Feedback: the messages that OBS's signals and frontend events cause     *)
(* when its state goes from o to n. OBS says nothing of parameters, of the *)
(* preview when studio mode begins or ends, or of a pause that ends with   *)
(* the recording; the filters of scenes are not hooked, and of the signals *)
(* of media "media_ended" is none of the input_hooks.                      *)
(***************************************************************************)
Announced(o, n, c) ==
    /\ c = <<"preview">> => o[<<"studio">>] = 1 /\ n[<<"studio">>] = 1
    /\ c = <<"record", "paused">> => Active(n, "record")
    /\ c[1] = "filter" => Len(c) = 3 /\ c[2] \in Inputs
    /\ c[1] = "media" => n[c] # MediaStates.ended

\* What throttled() limits the reports by: an input for its volume, a scene
\* for its order, an item for all the fields of its transform.
LimitKey(c) ==
    CASE c[1] = "volume" -> c
      [] c[1] = "order" -> <<"order", c[2]>>
      [] c[1] = "transform" -> <<"transform", c[2], c[3]>>
      [] OTHER -> <<>>

\* The limited signals of a command; they come even if nothing changes (OBS).
Signals(o, a, args) ==
    CASE args = <<>> /\ Pollable(a) -> {}
      [] a[1] \in {"volume", "db"} /\ Len(a) = 2 -> {<<"volume", i>> : i \in {a[2]} \cap Inputs}
      [] a[1] = "order" /\ Len(a) = 3 -> {<<"order", x[1]>> : x \in VisitItems(o, a[2], a[3])}
      [] a[1] = "transform" /\ Len(a) = 4 /\ a[4] \in Fields ->
            {<<"transform", x[1], x[2]>> : x \in VisitItems(o, a[2], a[3])}
      [] OTHER -> {}

VisitedIn(o, s, scene, selector) == {i \in Inputs : <<s, i>> \in VisitItems(o, scene, selector)}

Lowest(o, s, items) ==
    CHOOSE i \in items : \A j \in items : o[<<"order", s, i>>] <= o[<<"order", s, j>>]

\* One command may move several items of a scene, from the bottom, with a
\* signal each: the interval lets the first one through.
FirstMove(o, scene, selector, p) ==
    [c \in DOMAIN o |->
        LET moved == VisitedIn(o, c[2], scene, selector)
        IN IF c[1] = "order" /\ moved # {} THEN Moved(o, c[2], Lowest(o, c[2], moved), p)[c] ELSE o[c]]

\* The state that the reports of a command's limited signals show.
Seen(o, a, args) ==
    IF a[1] = "order" /\ Len(a) = 3
    THEN FirstMove(o, a[2], a[3], ArgInt(args, -1)) ELSE Dispatch(o, a, args)

Changed(o, n) == {c \in Cells \cup Tallies : LimitKey(c) = <<>> /\ Value(o, c) # Value(n, c)}

FeedbackBefore(o, n, sent, seen) ==
    {<<c, Value(o, c)>> : c \in {d \in Changed(o, n) : Announced(o, n, d)}}
    \cup {<<c, Value(seen, c)>> : c \in {d \in Cells : LimitKey(d) \in sent}}

\* One reorder signal reports every item, one transform signal every field.
Feedback(o, n, sent, seen) ==
    {<<c, Value(n, c)>> : c \in {d \in Changed(o, n) : Announced(o, n, d)}}
    \cup {<<c, Value(seen, c)>> : c \in {d \in Cells : LimitKey(d) \in sent}}

\* What the copy does not learn: signals inside the interval, what the first
\* of several did not show yet, and the two cells OBS may be silent about.
Unheard(o, n, signals, seen) ==
    (signals \cap open)
    \cup {k \in signals : \E c \in Cells : LimitKey(c) = k /\ Value(seen, c) # Value(n, c)}
    \cup {c \in Changed(o, n) \cap {<<"preview">>, <<"record", "paused">>} : ~Announced(o, n, c)}

Heard(old, feedback) ==
    [c \in DOMAIN old |-> IF \E m \in feedback : m[1] = c
                          THEN (CHOOSE m \in feedback : m[1] = c)[2] ELSE old[c]]

-----------------------------------------------------------------------------
Init ==
    /\ cells = [c \in Cells |->
                  CASE c[1] \in {"program", "preview"} -> Scenes[1]
                    [] c[1] \in {"transition", "profile", "collection"} -> CHOOSE n \in Names[c[1]] : TRUE
                    [] c[1] \in Outputs /\ Len(c) = 1 -> "off"
                    [] c[1] = "volume" -> Multiplier(Full)
                    [] c[1] = "order" -> (CHOOSE n \in DOMAIN Items[c[2]] : Items[c[2]][n] = c[3]) - 1
                    [] c[1] = "filter" /\ Len(c) = 4 -> IF Params[c[4]] = "text" THEN "" ELSE 0
                    [] c[1] = "visible" -> 1
                    [] OTHER -> 0]
    /\ copy = [c \in Cells \cup Tallies |-> Value(cells, c)]
    /\ open = {} /\ missed = {}
    /\ routes \in RouteGroups

Becomes(n, signals, seen) ==
    /\ cells' = n
    /\ copy' = Heard(copy, Feedback(cells, n, signals \ open, seen))
    /\ open' = open \cup signals
    /\ missed' = (missed \ (signals \cup Changed(cells, n))) \cup Unheard(cells, n, signals, seen)
    /\ UNCHANGED routes

Receive(a, args) ==
    /\ a[1] \in routes
    /\ Becomes(Dispatch(cells, a, args), Signals(cells, a, args), Seen(cells, a, args))

\* An output gets going, fails or ends; a pause does not outlive its recording.
OutputEvent(out, state) ==
    /\ out \in routes
    /\ \/ cells[<<out>>] = "starting" /\ state \in {"on", "off"}
       \/ cells[<<out>>] \in {"on", "stopping"} /\ state = "off"
    /\ LET n == [cells EXCEPT ![<<out>>] = state,
                     ![<<"record", "paused">>] = IF out = "record" THEN 0 ELSE @]
       IN Becomes(n, {}, n)

\* Media plays to its end (OBS).
MediaEnds(i) ==
    /\ "media" \in routes /\ cells[<<"media", i, "state">>] = MediaStates.playing
    /\ LET n == [cells EXCEPT ![<<"media", i, "state">>] = MediaStates.ended]
       IN Becomes(n, {}, n)

\* The interval of a key passes, of 33 or 100 ms.
WindowEnds(key) ==
    /\ open' = open \ {key}
    /\ UNCHANGED <<cells, copy, missed, routes>>

Next ==
    \/ \E a \in Addresses, args \in Arguments : Receive(a, args)
    \/ \E out \in Outputs, state \in OutputStates : OutputEvent(out, state)
    \/ \E i \in Inputs : MediaEnds(i)
    \/ \E key \in open : WindowEnds(key)

Spec == Init /\ [][Next]_vars

-----------------------------------------------------------------------------
\* Cells that are on or off.
IsBit(c) ==
    \/ c[1] \in {"studio", "mute", "visible", "locked"}
    \/ c[1] = "filter" /\ Len(c) = 3
    \/ c[1] = "filter" /\ Len(c) = 4 /\ Params[c[4]] = "bool"

Squares == {q * q : q \in 0..2 * Full}

\* at takes the members of R to the numbers up to top, one each.
Numbers(at, R, top) ==
    /\ \A j \in R : at[j] \in 0..top
    /\ \A j, k \in R : at[j] = at[k] => j = k
    /\ \A n \in 0..top : \E j \in R : at[j] = n

OrderIn(o, s) ==
    LET R == Range(Items[s])
    IN Numbers([j \in R |-> o[<<"order", s, j>>]], R, Len(Items[s]) - 1)

IsState(o) == DOMAIN o = Cells /\ o = [c \in Cells |-> o[c]]

Typed(o) ==
    /\ IsState(o)
    /\ \A c \in Cells : IsBit(c) => o[c] \in {0, 1}
    /\ \A i \in Inputs : o[<<"volume", i>>] \in Squares
    /\ \A s \in SceneNames : OrderIn(o, s)

(***************************************************************************)
(* OBS's state is one that OBS can be in: what toggles is on or off, the   *)
(* volume is that of a fader's position, and in every scene each position  *)
(* has one item, whatever was moved how often and with which selector.     *)
(***************************************************************************)
TypeOK == Typed(cells)

-----------------------------------------------------------------------------
\* The properties are about the messages of the behaviour's routes.
Sent == {a \in Addresses : a[1] \in routes}

\* The message that carries the value v of cell c.
Carrying(c, v) ==
    IF \/ c[1] \in Selections
       \/ Len(c) = 4 /\ c[1] = "filter" /\ Params[c[4]] = "text"
    THEN <<<<"s", v>>>> ELSE <<<<"i", v>>>>

Exact(selector) == selector \notin DOMAIN Digits \cup {"*"}

\* Commands that set what their poll reads. A position is only meant for one item.
Setters ==
    {a \in Sent :
        \/ a = <<"studio">>
        \/ Len(a) = 2 /\ a[1] \in {"mute", "volume", "db"}
        \/ Len(a) = 3 /\ a[1] \in {"visible", "locked", "filter"}
        \/ Len(a) = 3 /\ a[1] = "order" /\ a[2] # "*" /\ Exact(a[3])
        \/ Len(a) = 4 /\ a[1] = "transform"
        \/ Len(a) = 4 /\ a[1] = "filter" /\ a[4] \in Scalars /\ Params[a[4]] # "text"}

\* The same message to one object after the other.
DispatchEach(o, objects, args) ==
    LET each[n \in 0..Len(objects)] ==
            IF n = 0 THEN o ELSE Dispatch(each[n - 1], objects[n], args)
    IN each[Len(objects)]

\* Messages that name the state they ask for.
Explicit(a, args) ==
    /\ ~ArgIsToggle(args)
    /\ a[1] # "transition" \/ a \in {<<"transition", n>> : n \in Names["transition"]}
    /\ a[1] = "media" => Last(a) # "toggle"
    /\ a[1] \in Outputs => Last(a) # "toggle"
    /\ a[1] \in Outputs /\ (args = <<>> \/ args[1][1] \notin {"i", "f", "T", "F"}) =>
          (Len(a) = 2 /\ a[2] \in {"start", "stop"}) \/ a = <<"replay", "save">>
    /\ a[1] = "order" /\ Len(a) = 3 => a[2] # "*" /\ Exact(a[3])

(***************************************************************************)
(* "Any known route sent without arguments is a read request": a message   *)
(* without arguments to an address that feedback uses is answered with     *)
(* that very address and changes nothing. (/replay/saved, which is no      *)
(* cell, is the exception: it falls through to the output and toggles it.) *)
(***************************************************************************)
PollsChangeNothing ==
    \A c \in {d \in Cells \cup Tallies : d[1] \in routes} :
        /\ Polled(cells, c) = {c}
        /\ Dispatch(cells, c, <<>>) = cells

(***************************************************************************)
(* A controller that sends back what it is told changes nothing: feedback  *)
(* and commands share their addresses. Not so /transition, whose argument  *)
(* triggers, /record/paused, which with 0 stops the recording, and a fader *)
(* above 1.0, which is clamped.                                            *)
(***************************************************************************)
EchoHarmless ==
    \A c \in {d \in Cells \cup Tallies : d[1] \in routes} :
        \/ c \in {<<"transition">>, <<"record", "paused">>}
        \/ c[1] = "volume" /\ Value(cells, c) > Full
        \/ Dispatch(cells, c, Carrying(c, Value(cells, c))) = cells

(***************************************************************************)
(* UDP may deliver a datagram twice: a message that names a state asks for *)
(* nothing more the second time, an output that is only starting included. *)
(***************************************************************************)
DuplicatesHarmless ==
    \A a \in Sent, args \in Arguments :
        Explicit(a, args) =>
            LET once == Dispatch(cells, a, args) IN Dispatch(once, a, args) = once

(***************************************************************************)
(* A command on a pattern or an index does to each object that the poll of *)
(* the same address answers for what it does to that object by name,       *)
(* toggles included, in whatever order, and nothing else.                  *)
(***************************************************************************)
PatternIsEach ==
    \A a \in Setters, args \in Arguments \ {<<>>} :
        \A objects \in SetToSeqs(Polled(cells, a)) :
            a[1] # "studio" => Dispatch(cells, a, args) = DispatchEach(cells, objects, args)

(***************************************************************************)
(* Commands and polls go to the same objects by different code: what a     *)
(* command has set on any address is what a poll of that address answers.  *)
(***************************************************************************)
ReadBack ==
    \A a \in Setters, v \in {0, 1} :
        LET n == Dispatch(cells, a, <<<<"i", v>>>>)
        IN \A c \in Polled(n, a) :
              Value(n, c) = IF c[1] = "order" THEN Min({v, Len(Items[c[2]]) - 1}) ELSE v

(***************************************************************************)
(* "A client can treat feedback and poll responses identically": one that  *)
(* polled everything once and then only listens has what a poll would      *)
(* answer, tallies and the positions of items that others moved included,  *)
(* wherever the last change was neither inside an interval of throttled()  *)
(* nor one of the two that OBS is silent about. What the limiter leaves    *)
(* behind is old and not torn: the positions the copy has of a scene's     *)
(* items are those of one moment. Left out are what has no feedback (the   *)
(* parameters, the filters of scenes) and media that has ended.            *)
(***************************************************************************)
Told(c) ==
    /\ {c, LimitKey(c)} \cap missed = {}
    /\ c[1] = "filter" => Len(c) = 3 /\ c[2] \in Inputs
    /\ c[1] = "media" => cells[c] # MediaStates.ended

CopyCurrent ==
    /\ \A c \in DOMAIN copy : Told(c) => copy[c] = Value(cells, c)
    /\ \A s \in SceneNames : OrderIn(copy, s)

=============================================================================
