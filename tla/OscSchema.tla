----------------------------- MODULE OscSchema -----------------------------
(***************************************************************************)
(* The OSCQuery tree (osc-query-schema.cpp). A section is a set of pairs   *)
(* <<path, node>>, the path counted from the section; a node is a          *)
(* container, a button or a value. Every input is a media source.          *)
(***************************************************************************)
EXTENDS OscCommands

Container == <<"container">>
Bang == <<"bang">>
RW(v) == <<"rw", v>>
RO(v) == <<"ro", v>>

Bangs(names) == {<<<<n>>, Bang>> : n \in names}

Subs == [out \in Outputs |->
    {"start", "stop"} \cup CASE out = "stream" -> {"toggle"}
                            [] out = "record" -> {"toggle", "pause"}
                            [] out = "replay" -> {"save"}
                            [] OTHER -> {}]

MediaVerbs == {"play", "pause", "toggle", "stop", "restart", "next", "prev"}

\* Two levels: a container for each parent.
Nested(parents, children) == {<<<<p>>, Container>> : p \in parents} \cup children

ValueUnscaled(o, c) == RW(o[c])

InputValue(o, c) == IF c[1] = "volume" THEN RW(Position(o[c])) ELSE RW(o[c])

\* The builders, by route.
Children(o, r) ==
    CASE r \in {"program", "preview"} -> Bangs(SceneNames)
      [] r = "transition" -> Bangs({"go"} \cup Names[r])
      [] r \in {"profile", "collection"} -> Bangs(Names[r])
      [] r \in Outputs ->
            Bangs(Subs[r] \ {"pause"})
            \cup {<<<<sub>>, RW(o[<<"record", "paused">>])>> : sub \in Subs[r] \cap {"pause"}}
      [] r \in {"mute", "volume"} -> {<<<<i>>, InputValue(o, <<r, i>>)>> : i \in Inputs}
      [] r = "media" ->
            Nested(Inputs, {<<<<i, verb>>, Bang>> : i \in Inputs, verb \in MediaVerbs}
                           \cup {<<<<i, "state">>, RO(MediaStates.none)>> : i \in Inputs})
      [] r \in {"visible", "locked", "order"} ->
            Nested(SceneNames, {<<x, RW(o[<<r, x[1], x[2]>>])>> : x \in ItemNames})
      [] r = "filter" ->
            Nested({src \in VisitSources("*") \cap DOMAIN Chain : Chain[src] # <<>>},
                   {<<x, RW(o[<<r, x[1], x[2]>>])>> : x \in VisitFilters("*", "*")})
      [] r \in {"active", "showing"} -> {<<<<i>>, RO(Value(o, <<r, i>>))>> : i \in Inputs}
      [] OTHER -> {}

Section(o, r) ==
    {<<<<>>, CASE r = "studio" -> RW(o[<<r>>])
               [] r \in {"screenshot", "subscribe", "unsubscribe"} -> Bang
               [] OTHER -> Container>>}
    \cup Children(o, r)

\* The sections in the order of build_section()'s tests.
Sections ==
    <<"program", "preview", "transition">> \o SetToSeq(Outputs)
    \o <<"studio", "screenshot", "mute", "volume", "media", "visible", "locked", "order",
         "filter", "active", "showing", "hotkey", "profile", "collection",
         "subscribe", "unsubscribe">>

\* osc_addr::leaf(): the text behind the last slash, of "/visible/" nothing.
\* The hotkeys are kept under their whole prefix.
Key(r) ==
    CASE r \in {"visible", "locked", "order", "filter", "active", "showing"} -> ""
      [] r = "hotkey" -> "/hotkey/"
      [] OTHER -> r

BuildSection(o, segment) ==
    LET fits == {n \in DOMAIN Sections : Key(Sections[n]) = segment}
    IN IF fits = {} THEN {} ELSE Section(o, Sections[Min(fits)])

\* walk_tree() on a path that is not the root's: no segment is empty.
Lookup(o, path) ==
    {<<SubSeq(x[1], Len(path), Len(x[1])), x[2]>> :
        x \in {y \in BuildSection(o, path[1]) : IsPrefix(Tail(path), y[1])}}

-----------------------------------------------------------------------------
(***************************************************************************)
(* A value in the tree is the answer to a poll of its address, and a node  *)
(* is found when its address is looked up. The media state is an exception *)
(* to the first: the tree always says "none". To the second the sections   *)
(* of the object routes and the hotkeys are one: they have no segment as   *)
(* their name (osc-query-schema.cpp:423), and no path leads there.         *)
(***************************************************************************)
TreeAgreesWithPolls ==
    \A r \in Range(Sections) \cap routes : \A x \in Section(cells, r) :
        LET c == <<r>> \o x[1]
        IN /\ x[2][1] \in {"rw", "ro"} /\ c \in (Cells \cup Tallies) /\ r # "media" =>
                 x[2][2] = Value(cells, c)
           /\ Key(r) = r => <<<<>>, x[2]>> \in Lookup(cells, c)

=============================================================================
