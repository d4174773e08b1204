--------------------------- MODULE MCOscCommands ---------------------------
EXTENDS OscSchema

MCScenes == <<"s1", "s2">>
MCInputs == {"m1", "m2", "m3"}
MCItems == [s1 |-> <<"m1", "m2", "m3">>, s2 |-> <<"m1">>]
MCChain == [m1 |-> <<"f", "g">>, s2 |-> <<"f">>]
MCParams == [b |-> "bool", n |-> "int", t |-> "text", l |-> "list"]
MCFields == {"x", "rot"}
MCNames == [transition |-> {"cut", "fade"}, profile |-> {"p1", "p2"}, collection |-> {"c1", "c2"}]

\* The scenes go with what is visible in them: the tallies depend on both.
MCRouteGroups ==
    {{"studio", "program", "preview", "transition", "active", "showing", "subscribe"},
     {"program", "visible", "active", "showing"},
     {"stream", "record"}, {"replay"}, {"virtualcam"}, {"mute", "media"}, {"volume", "db"},
     {"locked", "screenshot"}, {"order"}, {"transform", "hotkey"}, {"filter"},
     {"profile", "collection"}}

Sels == {"m1", "m2", "*", "0", "1"}

MCAddresses ==
    Bare
    \cup {<<r>> : r \in {"visible", "locked", "order", "filter", "active", "showing", "transform",
                         "screenshot", "subscribe", "mute"}}
    \cup {<<r, s>> : r \in {"program", "preview", "visible", "order"}, s \in {"s1", "s2", "*", "zz"}}
    \cup {<<"program", "index", n>> : n \in {"0", "1", "2", "3"}}
    \cup {<<r, n>> : r \in {"transition"}, n \in {"go", "cut", "fade", "zz"}}
    \cup {<<"profile", n>> : n \in {"p1", "p2", "zz"}} \cup {<<"collection", "c2">>, <<"collection", "c1">>}
    \cup {<<out, sub>> : out \in Outputs, sub \in {"start", "stop", "toggle", "save", "pause", "saved"}}
    \cup {<<r, i>> : r \in {"mute", "volume", "db", "active", "showing", "media"}, i \in {"m1", "m2", "*", "s1"}}
    \cup {<<"media", i, verb>> : i \in {"m1", "zz"}, verb \in MediaVerbs \cup {"state"}}
    \cup {<<r, s, i>> : r \in {"visible", "locked", "order"}, s \in {"s1", "s2", "*"}, i \in Sels}
    \cup {<<"transform", s, i, "x">> : s \in {"s1", "*"}, i \in {"m1", "0"}} \cup {<<"transform", "s2", "*", "x">>}
    \cup {<<"transform", "s1", "m1", "rot">>, <<"transform", "s1", "m1", "zz">>}
    \cup {<<"transform", "s1">>, <<"transform", "*", "m1">>, <<"hotkey", "h">>}
    \cup {<<"filter", src>> : src \in {"m1", "s2", "*"}}
    \cup {<<"filter", src, f>> : src \in {"m1", "s2", "*"}, f \in {"f", "g", "*", "0", "1"}}
    \cup {<<"filter", src, f, p>> : src \in {"m1", "s2", "*"}, f \in {"f", "*"},
                                  p \in {"b", "l", "params"}}
    \cup {<<"filter", "m1", "1", "n">>, <<"filter", "m1", "*", "t">>}

MCArguments == {<<>>} \cup {<<<<"i", n>>>> : n \in {-1, 0, 1}} \cup {<<<<"T", 1>>>>, <<<<"s", "c1">>>>}

=============================================================================
