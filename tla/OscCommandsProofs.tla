------------------------- MODULE OscCommandsProofs -------------------------
(***************************************************************************)
(* What the commands, the polls, the feedback and the tree have in common, *)
(* for any scenes, inputs, filters and parameters, and any messages.       *)
(***************************************************************************)
EXTENDS OscSchema, FiniteSetTheorems, SequenceTheorems, WellFoundedInduction, TLAPS

-----------------------------------------------------------------------------
\* What the addresses of cells look like.

LEMMA OutputNames == Outputs \subseteq {"stream", "record", "replay", "virtualcam"}
  BY CommandsAssumption

LEMMA BareNames ==
    ASSUME NEW c \in Bare
    PROVE  /\ c = <<"record", "paused">> \/ c = <<c[1]>>
           /\ c = <<"record", "paused">> \/ Len(c) = 1
           /\ c[1] \in {"studio", "program", "preview", "transition", "profile", "collection",
                        "stream", "record", "replay", "virtualcam"}
  BY OutputNames DEF Bare, Selections

LEMMA BareCells ==
    /\ Bare \subseteq Cells
    /\ <<"record", "paused">> \in Bare /\ <<"studio">> \in Bare
    /\ \A r \in Selections \cup Outputs : <<r>> \in Bare
<1>1. Bare \subseteq Cells
  BY DEF Cells
<1>2. <<"record", "paused">> \in Bare
  BY DEF Bare
<1>3. \A r \in {"studio"} \cup Selections \cup Outputs : <<r>> \in Bare
  BY DEF Bare
<1> QED
  BY <1>1, <1>2, <1>3

LEMMA CellKinds ==
    ASSUME NEW c \in Cells \cup Tallies
    PROVE  \/ c \in Bare
           \/ \E r \in {"mute", "volume", "active", "showing"}, i \in Inputs : c = <<r, i>>
           \/ \E i \in Inputs : c = <<"media", i, "state">>
           \/ \E r \in {"visible", "locked", "order"}, x \in ItemNames : c = <<r, x[1], x[2]>>
           \/ \E x \in ItemNames, f \in Fields : c = <<"transform", x[1], x[2], f>>
           \/ \E x \in FilterNames : c = <<"filter", x[1], x[2]>>
           \/ \E x \in FilterNames, p \in Scalars : c = <<"filter", x[1], x[2], p>>
<1>1. CASE c \in Cells
  BY <1>1 DEF Cells
<1>2. CASE c \in Tallies
  BY <1>2 DEF Tallies
<1> QED
  BY <1>1, <1>2

LEMMA ItemNamed ==
    ASSUME NEW x \in ItemNames
    PROVE  /\ x = <<x[1], x[2]>> /\ x[1] \in SceneNames /\ x[2] \in Inputs
           /\ x[2] \in Range(Items[x[1]])
           /\ x[1] \notin {"*"} \cup DOMAIN Digits /\ x[2] \notin {"*"} \cup DOMAIN Digits
<1>1. x[1] \in SceneNames /\ x[2] \in Inputs /\ x = <<x[1], x[2]>> /\ x[2] \in Range(Items[x[1]])
  BY DEF ItemNames
<1> QED
  BY <1>1, CommandsAssumption DEF Plain

LEMMA FilterNamed ==
    ASSUME NEW x \in FilterNames
    PROVE  /\ x = <<x[1], x[2]>> /\ x[1] \in DOMAIN Chain /\ x[2] \in Range(Chain[x[1]])
           /\ x[1] \notin {"*"} \cup DOMAIN Digits /\ x[2] \notin {"*"} \cup DOMAIN Digits
<1>1. PICK src \in DOMAIN Chain : x \in {<<src, f>> : f \in Range(Chain[src])}
  BY DEF FilterNames
<1>2. x = <<src, x[2]>> /\ x[1] = src /\ x[2] \in Range(Chain[src])
  BY <1>1
<1> QED
  BY <1>1, <1>2, CommandsAssumption DEF Plain

-----------------------------------------------------------------------------
\* A name selects one object.

LEMMA NameMatches ==
    ASSUME NEW selector, NEW name, NEW index, selector \notin {"*"} \cup DOMAIN Digits
    PROVE  /\ SelectorMatches(selector, name, index) <=> name = selector
           /\ Matches(selector, name) <=> name = selector
  BY DEF SelectorMatches, Matches

LEMMA VisitOneItem ==
    ASSUME NEW o, NEW x \in ItemNames
    PROVE  VisitItems(o, x[1], x[2]) = {x}
<1>1. \A y \in ItemNames : /\ Matches(x[1], y[1]) <=> y[1] = x[1]
                           /\ SelectorMatches(x[2], y[2], o[<<"order", y[1], y[2]>>]) <=> y[2] = x[2]
  <2> TAKE y \in ItemNames
  <2>1. x[1] \notin {"*"} \cup DOMAIN Digits /\ x[2] \notin {"*"} \cup DOMAIN Digits
    BY ItemNamed
  <2>2. Matches(x[1], y[1]) <=> y[1] = x[1]
    BY <2>1, NameMatches
  <2>3. SelectorMatches(x[2], y[2], o[<<"order", y[1], y[2]>>]) <=> y[2] = x[2]
    BY <2>1, NameMatches
  <2> QED
    BY <2>2, <2>3
<1>2. \A y \in ItemNames : y[1] = x[1] /\ y[2] = x[2] => y = x
  <2> SUFFICES ASSUME NEW y \in ItemNames, y[1] = x[1], y[2] = x[2] PROVE y = x
    OBVIOUS
  <2>1. y = <<y[1], y[2]>> /\ x = <<x[1], x[2]>>
    BY ItemNamed
  <2> QED
    BY <2>1
<1> QED
  BY <1>1, <1>2 DEF VisitItems

LEMMA VisitOneInput ==
    ASSUME NEW i \in Inputs
    PROVE  VisitInputs(i) = {i}
<1>1. i \notin {"*"} \cup DOMAIN Digits
  BY CommandsAssumption DEF Plain
<1> QED
  BY <1>1, NameMatches DEF VisitInputs

\* A finite set of numbers has its largest member.
LEMMA MaxMember ==
    ASSUME NEW n \in Nat, NEW S \in SUBSET (1..n), S # {}
    PROVE  Max(S) \in S /\ \A y \in S : Max(S) >= y
<1> DEFINE R == OpToRel(<, Nat)
           T == {n - x : x \in S}
<1>1. \A x, y \in Nat : x < y => <<x, y>> \in R
  BY DEF OpToRel
<1>2. IsWellFoundedOn(R, Nat)
  BY NatLessThanWellFounded
<1>3. T \in SUBSET Nat /\ T # {}
  <2>1. \A x \in S : n - x \in Nat
    OBVIOUS
  <2> QED
    BY <2>1
<1> HIDE DEF R
<1>4. PICK t \in T : \A y \in T : ~(<<y, t>> \in R)
  BY <1>2, <1>3, WFMin
<1>5. PICK m \in S : t = n - m
  BY <1>4
<1>6. \A y \in S : m >= y
  <2> SUFFICES ASSUME NEW y \in S, y > m PROVE FALSE
    OBVIOUS
  <2>1. n - y \in T /\ n - y \in Nat /\ n - m \in Nat /\ n - y < n - m
    OBVIOUS
  <2> QED
    BY <1>1, <1>4, <1>5, <2>1
<1> QED
  BY <1>5, <1>6 DEF Max

LEMMA SelectOne ==
    ASSUME NEW x \in FilterNames
    PROVE  /\ Selected(x[1], x[2]) = {n \in DOMAIN Chain[x[1]] : Chain[x[1]][n] = x[2]}
           /\ Selected(x[1], x[2]) # {}
           /\ ResolveFilter(x[1], x[2]) = x
           /\ VisitSources(x[1]) \cap DOMAIN Chain = {x[1]}
<1> DEFINE src == x[1]  flt == x[2]  S == Selected(src, flt)
<1>1. x = <<src, flt>> /\ src \in DOMAIN Chain /\ flt \in Range(Chain[src])
      /\ src # "*" /\ flt \notin {"*"} \cup DOMAIN Digits
  BY FilterNamed
<1>2. S = {n \in DOMAIN Chain[src] : Chain[src][n] = flt}
  BY <1>1, NameMatches DEF Selected
<1>3. S # {}
  BY <1>1, <1>2 DEF Range
<1>4. Max(S) \in S
  <2>1. Chain[src] \in Seq(Range(Chain[src]))
    BY <1>1, CommandsAssumption
  <2>2. DOMAIN Chain[src] = 1..Len(Chain[src]) /\ Len(Chain[src]) \in Nat
    BY <2>1
  <2>3. S \in SUBSET (1..Len(Chain[src]))
    BY <1>2, <2>2
  <2> QED
    BY <1>3, <2>2, <2>3, MaxMember
<1>5. Chain[src][Max(S)] = flt
  BY <1>2, <1>4
<1>6. ResolveFilter(src, flt) = <<src, flt>>
  BY <1>5 DEF ResolveFilter
<1> QED
  BY <1>1, <1>2, <1>3, <1>6 DEF VisitSources

LEMMA VisitOneFilter ==
    ASSUME NEW x \in FilterNames
    PROVE  VisitFilters(x[1], x[2]) = {x} /\ ResolveFilters(x[1], x[2]) = {x}
<1> DEFINE src == x[1]  flt == x[2]
<1>1. x = <<src, flt>>
  BY FilterNamed
<1>2. /\ Selected(src, flt) = {n \in DOMAIN Chain[src] : Chain[src][n] = flt}
      /\ Selected(src, flt) # {}
      /\ ResolveFilter(src, flt) = x
      /\ VisitSources(src) \cap DOMAIN Chain = {src}
  BY SelectOne
<1>3. ResolveFilters(src, flt) = {ResolveFilter(src, flt)}
  BY <1>2 DEF ResolveFilters
<1> DEFINE S == Selected(src, flt)
<1>4. VisitFilters(src, flt) = {<<src, Chain[src][n]>> : n \in S}
  BY <1>2 DEF VisitFilters
<1>5. {<<src, Chain[src][n]>> : n \in S} = {<<src, flt>>}
  <2>1. \A n \in S : Chain[src][n] = flt
    BY <1>2
  <2>2. S # {}
    BY <1>2
  <2> HIDE DEF S
  <2> QED
    BY <2>1, <2>2
<1> QED
  BY <1>1, <1>2, <1>3, <1>4, <1>5

-----------------------------------------------------------------------------
\* A poll of a cell answers for that cell.

LEMMA PollsOne ==
    ASSUME NEW o, NEW c \in Cells \cup Tallies
    PROVE  Pollable(c) /\ Polled(o, c) = {c}
<1>1. CASE c \in Bare
  <2>1. \/ c = <<"record", "paused">> /\ c[1] = "record" /\ Len(c) = 2
        \/ Len(c) = 1
    BY <1>1, BareNames
  <2>2. c[1] \in {"studio", "program", "preview", "transition", "profile", "collection",
                  "stream", "record", "replay", "virtualcam"}
    BY <1>1, BareNames
  <2> QED
    BY <1>1, <2>1, <2>2 DEF Pollable, Polled
<1>2. ASSUME c \notin Bare, NEW r \in {"mute", "volume", "active", "showing"}, NEW i \in Inputs,
             c = <<r, i>>
      PROVE  Pollable(c) /\ Polled(o, c) = {c}
  <2>1. Len(c) = 2 /\ c[1] = r /\ c[2] = i
    BY <1>2
  <2>2. Pollable(c)
    BY <2>1 DEF Pollable, PollPrefix
  <2>3. VisitInputs(i) = {i}
    BY VisitOneInput
  <2>4. CASE r = "mute"
    BY <1>2, <2>1, <2>2, <2>3, <2>4 DEF Polled
  <2>5. CASE r = "volume"
    BY <1>2, <2>1, <2>2, <2>5 DEF Polled
  <2>6. CASE r \in {"active", "showing"}
    <3>1. Polled(o, c) = PollInputState(r, i)
      BY <1>2, <2>1, <2>6 DEF Polled
    <3> QED
      BY <1>2, <2>2, <2>3, <3>1 DEF PollInputState
  <2> QED
    BY <2>4, <2>5, <2>6
<1>3. ASSUME c \notin Bare, NEW i \in Inputs, c = <<"media", i, "state">>
      PROVE  Pollable(c) /\ Polled(o, c) = {c}
  <2>1. Len(c) = 3 /\ c[1] = "media" /\ c[2] = i /\ c[3] = "state"
    BY <1>3
  <2> QED
    BY <1>3, <2>1 DEF Pollable, PollPrefix, Polled
<1>4. ASSUME c \notin Bare, NEW r \in {"visible", "locked", "order"}, NEW x \in ItemNames,
             c = <<r, x[1], x[2]>>
      PROVE  Pollable(c) /\ Polled(o, c) = {c}
  <2>1. Len(c) = 3 /\ c[1] = r /\ c[2] = x[1] /\ c[3] = x[2]
    BY <1>4
  <2>2. Pollable(c)
    BY <2>1 DEF Pollable, PollPrefix
  <2>3. Polled(o, c) = PollItems(o, r, x[1], x[2])
    BY <1>4, <2>1 DEF Polled
  <2>4. VisitItems(o, x[1], x[2]) = {x}
    BY VisitOneItem
  <2> QED
    BY <1>4, <2>2, <2>3, <2>4 DEF PollItems
<1>5. ASSUME c \notin Bare, NEW x \in ItemNames, NEW f \in Fields,
             c = <<"transform", x[1], x[2], f>>
      PROVE  Pollable(c) /\ Polled(o, c) = {c}
  <2>1. Len(c) = 4 /\ c[1] = "transform" /\ c[2] = x[1] /\ c[3] = x[2] /\ c[4] = f
    BY <1>5
  <2>2. Pollable(c)
    BY <2>1 DEF Pollable, PollPrefix
  <2>3. Polled(o, c) = PollTransform(o, x[1], x[2], {f})
    BY <1>5, <2>1 DEF Polled
  <2>4. VisitItems(o, x[1], x[2]) = {x}
    BY VisitOneItem
  <2> QED
    BY <1>5, <2>2, <2>3, <2>4 DEF PollTransform
<1>6. ASSUME c \notin Bare, NEW x \in FilterNames, c = <<"filter", x[1], x[2]>>
      PROVE  Pollable(c) /\ Polled(o, c) = {c}
  <2>1. Len(c) = 3 /\ c[1] = "filter" /\ c[2] = x[1] /\ c[3] = x[2]
    BY <1>6
  <2>2. Pollable(c)
    BY <2>1 DEF Pollable, PollPrefix
  <2>3. Polled(o, c) = PollFilterEnabled(x[1], x[2])
    BY <1>6, <2>1 DEF Polled
  <2>4. VisitFilters(x[1], x[2]) = {x}
    BY VisitOneFilter
  <2> QED
    BY <1>6, <2>2, <2>3, <2>4 DEF PollFilterEnabled
<1>7. ASSUME c \notin Bare, NEW x \in FilterNames, NEW p \in Scalars,
             c = <<"filter", x[1], x[2], p>>
      PROVE  Pollable(c) /\ Polled(o, c) = {c}
  <2>1. Len(c) = 4 /\ c[1] = "filter" /\ c[2] = x[1] /\ c[3] = x[2] /\ c[4] = p
    BY <1>7
  <2>2. Pollable(c)
    BY <2>1 DEF Pollable, PollPrefix
  <2>3. p # "params"
    BY CommandsAssumption DEF Scalars
  <2>4. Polled(o, c) = PollFilterParams(x[1], x[2], {p})
    BY <1>7, <2>1, <2>3 DEF Polled
  <2>5. ResolveFilters(x[1], x[2]) = {x}
    BY VisitOneFilter
  <2> QED
    BY <1>7, <2>2, <2>4, <2>5 DEF PollFilterParams
<1> QED
  BY <1>1, <1>2, <1>3, <1>4, <1>5, <1>6, <1>7, CellKinds

(***************************************************************************)
(* A message without arguments to an address that feedback uses is         *)
(* answered with that address and changes nothing.                         *)
(***************************************************************************)
THEOREM PollsChangeNothingAlways == Spec => []PollsChangeNothing
<1>1. PollsChangeNothing
  BY PollsOne DEF PollsChangeNothing, Dispatch
<1> QED
  BY <1>1, PTL

-----------------------------------------------------------------------------
\* The values of cells, by their first segment.

LEMMA ValueOfPlain ==
    ASSUME NEW o, NEW c,
           c[1] \notin {"stream", "record", "replay", "virtualcam",
                        "preview", "volume", "db", "active", "showing"}
    PROVE  Value(o, c) = o[c]
  BY OutputNames DEF Value

LEMMA ValueOfVolume ==
    ASSUME NEW o, NEW c, c[1] = "volume"
    PROVE  Value(o, c) = Position(o[c])
  BY OutputNames DEF Value

\* Addresses put together from a route and a path.
LEMMA JoinIs ==
    ASSUME NEW S, NEW s \in Seq(S), NEW t \in Seq(S), NEW u \in Seq(S),
           Len(s) + Len(t) = Len(u),
           \A i \in 1..Len(u) : u[i] = IF i <= Len(s) THEN s[i] ELSE t[i - Len(s)]
    PROVE  s \o t = u
<1>1. s \o t \in Seq(S) /\ Len(s \o t) = Len(u)
  BY ConcatProperties
<1>2. \A i \in 1..Len(u) : (s \o t)[i] = IF i <= Len(s) THEN s[i] ELSE t[i - Len(s)]
  BY ConcatProperties
<1> QED
  BY <1>1, <1>2, SeqEqual

LEMMA JoinOne ==
    ASSUME NEW r, NEW a
    PROVE  <<r>> \o <<a>> = <<r, a>>
<1> DEFINE S == {r, a}  s == <<r>>  t == <<a>>  u == <<r, a>>
<1>1. s \in Seq(S) /\ t \in Seq(S) /\ u \in Seq(S) /\ Len(s) = 1 /\ Len(t) = 1 /\ Len(u) = 2
  OBVIOUS
<1>2. \A i \in 1..2 : u[i] = IF i <= 1 THEN s[i] ELSE t[i - 1]
  OBVIOUS
<1> HIDE DEF S, s, t, u
<1>3. Len(s) + Len(t) = Len(u)
  BY <1>1
<1>4. \A i \in 1..Len(u) : u[i] = IF i <= Len(s) THEN s[i] ELSE t[i - Len(s)]
  BY <1>1, <1>2
<1>5. s \o t = u
  BY <1>1, <1>3, <1>4, JoinIs
<1> QED
  BY <1>5 DEF s, t, u

LEMMA JoinTwo ==
    ASSUME NEW r, NEW a, NEW b
    PROVE  <<r>> \o <<a, b>> = <<r, a, b>>
<1> DEFINE S == {r, a, b}  s == <<r>>  t == <<a, b>>  u == <<r, a, b>>
<1>1. s \in Seq(S) /\ t \in Seq(S) /\ u \in Seq(S) /\ Len(s) = 1 /\ Len(t) = 2 /\ Len(u) = 3
  OBVIOUS
<1>2. \A i \in 1..3 : u[i] = IF i <= 1 THEN s[i] ELSE t[i - 1]
  OBVIOUS
<1> HIDE DEF S, s, t, u
<1>3. Len(s) + Len(t) = Len(u)
  BY <1>1
<1>4. \A i \in 1..Len(u) : u[i] = IF i <= Len(s) THEN s[i] ELSE t[i - Len(s)]
  BY <1>1, <1>2
<1>5. s \o t = u
  BY <1>1, <1>3, <1>4, JoinIs
<1> QED
  BY <1>5 DEF s, t, u

LEMMA Joined ==
    ASSUME NEW r
    PROVE  /\ <<r>> \o <<>> = <<r>>
           /\ \A a : <<r>> \o <<a>> = <<r, a>>
           /\ \A a, b : <<r>> \o <<a, b>> = <<r, a, b>>
<1>1. <<r>> \o <<>> = <<r>>
  OBVIOUS
<1> QED
  BY <1>1, JoinOne, JoinTwo

LEMMA NotPause ==
    ASSUME NEW out \in Outputs
    PROVE  <<out, "pause">> \notin Cells \cup Tallies
<1> SUFFICES ASSUME <<out, "pause">> \in Cells \cup Tallies PROVE FALSE
  OBVIOUS
<1> DEFINE c == <<out, "pause">>
<1>1. Len(c) = 2 /\ c[1] = out /\ c[2] = "pause" /\ out \in {"stream", "record", "replay", "virtualcam"}
  BY OutputNames
<1>2. c \notin Bare
  <2> SUFFICES ASSUME c \in Bare PROVE FALSE
    OBVIOUS
  <2>1. c = <<"record", "paused">> \/ Len(c) = 1
    BY BareNames
  <2> QED
    BY <1>1, <2>1
<1> HIDE DEF c
<1> QED
  BY <1>1, <1>2, CellKinds DEF c

\* What the builders of two kinds of routes make.
LEMMA OutputChildren ==
    ASSUME NEW o, NEW r \in Outputs
    PROVE  Children(o, r) = Bangs(Subs[r] \ {"pause"})
              \cup {<<<<sub>>, RW(o[<<"record", "paused">>])>> : sub \in Subs[r] \cap {"pause"}}
<1>1. CASE r = "stream"
  BY <1>1 DEF Children
<1>2. CASE r = "record"
  BY <1>2 DEF Children
<1>3. CASE r = "replay"
  BY <1>3 DEF Children
<1>4. CASE r = "virtualcam"
  BY <1>4 DEF Children
<1> QED
  BY <1>1, <1>2, <1>3, <1>4, OutputNames

LEMMA InputChildren ==
    ASSUME NEW o, NEW r \in {"mute", "volume"}
    PROVE  Children(o, r) = {<<<<i>>, InputValue(o, <<r, i>>)>> : i \in Inputs}
<1>1. CASE r = "mute"
  BY <1>1, OutputNames DEF Children
<1>2. CASE r = "volume"
  BY <1>2, OutputNames DEF Children
<1> QED
  BY <1>1, <1>2

\* The values in a section, each at the address it is found at.
LEMMA SectionValues ==
    ASSUME NEW o, NEW r, NEW x \in Section(o, r), x[2][1] \in {"rw", "ro"}, r # "media",
           <<r>> \o x[1] \in Cells \cup Tallies
    PROVE  x[2][2] = Value(o, <<r>> \o x[1])
<1>0. /\ Container[1] \notin {"rw", "ro"} /\ Bang[1] \notin {"rw", "ro"}
      /\ \A v : RW(v)[2] = v /\ RO(v)[2] = v
  BY DEF Container, Bang, RW, RO
<1>1. \A names : \A y \in Bangs(names) : y[2] = Bang
  BY DEF Bangs
<1>2. \A parents, children : \A y \in Nested(parents, children) : y[2] = Container \/ y \in children
  BY DEF Nested
<1>3. CASE x \notin Children(o, r)
  <2>1. x = <<<<>>, CASE r = "studio" -> RW(o[<<r>>])
                      [] r \in {"screenshot", "subscribe", "unsubscribe"} -> Bang
                      [] OTHER -> Container>>
    BY <1>3 DEF Section
  <2>2. x[1] = <<>> /\ r = "studio" /\ x[2] = RW(o[<<r>>])
    BY <1>0, <2>1
  <2>3. <<r>> \o x[1] = <<"studio">> /\ <<"studio">>[1] = "studio"
    BY <2>2, Joined
  <2>4. Value(o, <<"studio">>) = o[<<"studio">>]
    BY <2>3, ValueOfPlain
  <2> QED
    BY <1>0, <2>2, <2>3, <2>4
<1>4. CASE x \in Children(o, r) /\ r \in {"program", "preview", "transition", "profile", "collection"}
  BY <1>0, <1>1, <1>4, OutputNames DEF Children
<1>5. CASE x \in Children(o, r) /\ r \in Outputs
  <2>1. Children(o, r) = Bangs(Subs[r] \ {"pause"})
            \cup {<<<<sub>>, RW(o[<<"record", "paused">>])>> : sub \in Subs[r] \cap {"pause"}}
    BY <1>5, OutputChildren
  <2>2. x[1] = <<"pause">>
    BY <1>0, <1>1, <1>5, <2>1
  <2> QED
    BY <1>5, <2>2, Joined, NotPause
<1>6. CASE x \in Children(o, r) /\ r \in {"mute", "volume"}
  <2>1. Children(o, r) = {<<<<i>>, InputValue(o, <<r, i>>)>> : i \in Inputs}
    BY <1>6, InputChildren
  <2>2. PICK i \in Inputs : x = <<<<i>>, InputValue(o, <<r, i>>)>>
    BY <1>6, <2>1
  <2> DEFINE c == <<r, i>>
  <2>3. <<r>> \o x[1] = c /\ c[1] = r /\ x[2] = InputValue(o, c)
    BY <2>2, Joined
  <2> HIDE DEF c
  <2>4. CASE r = "volume"
    <3>1. Value(o, c) = Position(o[c])
      BY <2>3, <2>4, ValueOfVolume
    <3>2. x[2] = RW(Position(o[c]))
      BY <2>3, <2>4 DEF InputValue
    <3> QED
      BY <1>0, <2>3, <3>1, <3>2
  <2>5. CASE r = "mute"
    <3>1. Value(o, c) = o[c]
      BY <2>3, <2>5, ValueOfPlain
    <3>2. x[2] = RW(o[c])
      BY <2>3, <2>5 DEF InputValue
    <3> QED
      BY <1>0, <2>3, <3>1, <3>2
  <2> QED
    BY <1>6, <2>4, <2>5
<1>7. CASE x \in Children(o, r) /\ r \in {"visible", "locked", "order"}
  <2>1. Children(o, r) = Nested(SceneNames, {<<y, RW(o[<<r, y[1], y[2]>>])>> : y \in ItemNames})
    BY <1>7, OutputNames DEF Children
  <2>2. x \in {<<y, RW(o[<<r, y[1], y[2]>>])>> : y \in ItemNames}
    BY <1>0, <1>2, <1>7, <2>1
  <2>3. PICK y \in ItemNames : x = <<y, RW(o[<<r, y[1], y[2]>>])>>
    BY <2>2
  <2>4. y = <<y[1], y[2]>>
    BY ItemNamed
  <2> DEFINE c == <<r, y[1], y[2]>>
  <2>5. <<r>> \o x[1] = c /\ c[1] = r /\ x[2] = RW(o[c])
    BY <2>3, <2>4, Joined, ZenonT(40)
  <2> HIDE DEF c
  <2>6. Value(o, c) = o[c]
    BY <1>7, <2>5, ValueOfPlain
  <2> QED
    BY <1>0, <2>5, <2>6
<1>8. CASE x \in Children(o, r) /\ r = "filter"
  <2> DEFINE parents == {src \in VisitSources("*") \cap DOMAIN Chain : Chain[src] # <<>>}
  <2>1. Children(o, r) = Nested(parents, {<<y, RW(o[<<r, y[1], y[2]>>])>> : y \in VisitFilters("*", "*")})
    BY <1>8, OutputNames DEF Children
  <2>2. x \in {<<y, RW(o[<<r, y[1], y[2]>>])>> : y \in VisitFilters("*", "*")}
    BY <1>0, <1>2, <1>8, <2>1
  <2>3. PICK y \in VisitFilters("*", "*") : x = <<y, RW(o[<<r, y[1], y[2]>>])>>
    BY <2>2
  <2>4. y = <<y[1], y[2]>>
    BY <2>3 DEF VisitFilters
  <2> DEFINE c == <<r, y[1], y[2]>>
  <2>5. <<r>> \o x[1] = c /\ c[1] = r /\ x[2] = RW(o[c])
    BY <2>3, <2>4, Joined, ZenonT(40)
  <2> HIDE DEF c
  <2>6. Value(o, c) = o[c]
    BY <1>8, <2>5, ValueOfPlain
  <2> QED
    BY <1>0, <2>5, <2>6
<1>9. CASE x \in Children(o, r) /\ r \in {"active", "showing"}
  <2>1. Children(o, r) = {<<<<i>>, RO(Value(o, <<r, i>>))>> : i \in Inputs}
    BY <1>9, OutputNames DEF Children
  <2>2. PICK i \in Inputs : x = <<<<i>>, RO(Value(o, <<r, i>>))>>
    BY <1>9, <2>1
  <2>3. <<r>> \o x[1] = <<r, i>>
    BY <2>2, Joined
  <2> QED
    BY <1>0, <2>2, <2>3
<1>10. CASE /\ x \in Children(o, r)
            /\ r \notin Outputs \cup {"program", "preview", "transition", "profile", "collection",
                        "mute", "volume", "visible", "locked", "order", "filter", "active", "showing"}
  <2>1. Children(o, r) = {}
    BY <1>10 DEF Children
  <2> QED
    BY <1>10, <2>1
<1> QED
  BY <1>3, <1>4, <1>5, <1>6, <1>7, <1>8, <1>9, <1>10

\* A node is at most two segments below its section.
Short(y) ==
    \E path, node :
        /\ y = <<path, node>>
        /\ path = <<>> \/ (\E a : path = <<a>>) \/ (\E a, b : path = <<a, b>>)

LEMMA ShortNested ==
    ASSUME NEW parents, NEW children, \A y \in children : Short(y), NEW x \in Nested(parents, children)
    PROVE  Short(x)
<1>1. CASE x \in children
  BY <1>1
<1>2. CASE x \notin children
  <2>1. PICK p \in parents : x = <<<<p>>, Container>>
    BY <1>2 DEF Nested
  <2> QED
    BY <2>1 DEF Short
<1> QED
  BY <1>1, <1>2

LEMMA SectionPaths ==
    ASSUME NEW o, NEW r, NEW x \in Section(o, r)
    PROVE  Short(x)
<1>1. ASSUME NEW names, x \in Bangs(names) PROVE Short(x)
  <2>1. PICK n \in names : x = <<<<n>>, Bang>>
    BY <1>1 DEF Bangs
  <2> QED
    BY <2>1 DEF Short
<1>2. \A y, node : y = <<y[1], y[2]>> => Short(<<y, node>>)
  BY DEF Short
<1>3. CASE x \notin Children(o, r)
  <2>1. PICK node : x = <<<<>>, node>>
    BY <1>3 DEF Section
  <2> QED
    BY <2>1 DEF Short
<1>4. CASE x \in Children(o, r) /\ r \in {"program", "preview", "transition", "profile", "collection"}
  <2>1. \E names : Children(o, r) = Bangs(names)
    BY <1>4, OutputNames DEF Children
  <2> QED
    BY <1>1, <1>4, <2>1
<1>5. CASE x \in Children(o, r) /\ r \in Outputs
  <2>1. Children(o, r) = Bangs(Subs[r] \ {"pause"})
            \cup {<<<<sub>>, RW(o[<<"record", "paused">>])>> : sub \in Subs[r] \cap {"pause"}}
    BY <1>5, OutputChildren
  <2>2. CASE x \in Bangs(Subs[r] \ {"pause"})
    BY <1>1, <2>2
  <2>3. CASE x \notin Bangs(Subs[r] \ {"pause"})
    <3>1. x = <<<<"pause">>, RW(o[<<"record", "paused">>])>>
      BY <1>5, <2>1, <2>3
    <3> QED
      BY <3>1 DEF Short
  <2> QED
    BY <2>2, <2>3
<1>6. CASE x \in Children(o, r) /\ r \in {"mute", "volume"}
  <2>1. PICK i \in Inputs : x = <<<<i>>, InputValue(o, <<r, i>>)>>
    <3>1. Children(o, r) = {<<<<i>>, InputValue(o, <<r, i>>)>> : i \in Inputs}
      BY <1>6, InputChildren
    <3> QED
      BY <1>6, <3>1
  <2> QED
    BY <2>1 DEF Short
<1>7. CASE x \in Children(o, r) /\ r = "media"
  <2> DEFINE C == {<<<<i, verb>>, Bang>> : i \in Inputs, verb \in MediaVerbs}
                  \cup {<<<<i, "state">>, RO(MediaStates.none)>> : i \in Inputs}
  <2>1. Children(o, r) = Nested(Inputs, C)
    BY <1>7, OutputNames DEF Children
  <2>2. \A y \in C : Short(y)
    BY DEF Short
  <2> HIDE DEF C
  <2> QED
    BY <1>7, <2>1, <2>2, ShortNested
<1>8. CASE x \in Children(o, r) /\ r \in {"visible", "locked", "order"}
  <2> DEFINE C == {<<y, RW(o[<<r, y[1], y[2]>>])>> : y \in ItemNames}
  <2>1. Children(o, r) = Nested(SceneNames, C)
    BY <1>8, OutputNames DEF Children
  <2>2. \A y \in ItemNames : y = <<y[1], y[2]>>
    BY ItemNamed
  <2>3. ASSUME NEW z \in C PROVE Short(z)
    <3>1. PICK y \in ItemNames : z = <<y, RW(o[<<r, y[1], y[2]>>])>>
      OBVIOUS
    <3>2. y = <<y[1], y[2]>>
      BY <2>2
    <3> HIDE DEF C
    <3> QED
      BY <1>2, <3>1, <3>2
  <2> HIDE DEF C
  <2> QED
    BY <1>8, <2>1, <2>3, ShortNested
<1>9. CASE x \in Children(o, r) /\ r = "filter"
  <2> DEFINE C == {<<y, RW(o[<<r, y[1], y[2]>>])>> : y \in VisitFilters("*", "*")}
             parents == {src \in VisitSources("*") \cap DOMAIN Chain : Chain[src] # <<>>}
  <2>1. Children(o, r) = Nested(parents, C)
    BY <1>9, OutputNames DEF Children
  <2>2. \A y \in VisitFilters("*", "*") : y = <<y[1], y[2]>>
    BY DEF VisitFilters
  <2>3. ASSUME NEW z \in C PROVE Short(z)
    <3>1. PICK y \in VisitFilters("*", "*") : z = <<y, RW(o[<<r, y[1], y[2]>>])>>
      OBVIOUS
    <3>2. y = <<y[1], y[2]>>
      BY <2>2
    <3> HIDE DEF C
    <3> QED
      BY <1>2, <3>1, <3>2
  <2> HIDE DEF C, parents
  <2> QED
    BY <1>9, <2>1, <2>3, ShortNested
<1>10. CASE x \in Children(o, r) /\ r \in {"active", "showing"}
  <2>1. Children(o, r) = {<<<<i>>, RO(Value(o, <<r, i>>))>> : i \in Inputs}
    BY <1>10, OutputNames DEF Children
  <2>2. PICK i \in Inputs : x = <<<<i>>, RO(Value(o, <<r, i>>))>>
    BY <1>10, <2>1
  <2> QED
    BY <2>2 DEF Short
<1>11. CASE /\ x \in Children(o, r)
            /\ r \notin Outputs \cup {"program", "preview", "transition", "profile", "collection", "media",
                        "mute", "volume", "visible", "locked", "order", "filter", "active", "showing"}
  <2>1. Children(o, r) = {}
    BY <1>11 DEF Children
  <2> QED
    BY <1>11, <2>1
<1> QED
  BY <1>3, <1>4, <1>5, <1>6, <1>7, <1>8, <1>9, <1>10, <1>11

-----------------------------------------------------------------------------
\* A set that holds 0 and the successor of each number it holds, holds all.
LEMMA EachNumber ==
    ASSUME NEW S, 0 \in S, \A n \in Nat : n \in S => n + 1 \in S
    PROVE  \A n \in Nat : n \in S
<1> DEFINE T == Nat \ S
           R == OpToRel(<, Nat)
<1>1. \A x, y \in Nat : x < y => <<x, y>> \in R
  BY DEF OpToRel
<1>2. IsWellFoundedOn(R, Nat)
  BY NatLessThanWellFounded
<1> SUFFICES ASSUME T # {} PROVE FALSE
  OBVIOUS
<1>3. T \subseteq Nat
  OBVIOUS
<1> HIDE DEF T, R
<1>4. PICK x \in T : \A y \in T : ~(<<y, x>> \in R)
  BY <1>2, <1>3, WFMin
<1>5. x \in Nat /\ x # 0
  BY <1>4 DEF T
<1>6. x - 1 \in Nat /\ x - 1 < x /\ (x - 1) + 1 = x
  BY <1>5
<1>7. x - 1 \in S
  BY <1>1, <1>4, <1>5, <1>6 DEF T
<1> QED
  BY <1>4, <1>5, <1>6, <1>7 DEF T

LEMMA LeastNumber ==
    ASSUME NEW S \in SUBSET Nat, S # {}
    PROVE  \E n \in S : \A k \in S : n <= k
<1> DEFINE A == {n \in Nat : \A k \in S : n <= k}
<1> SUFFICES ASSUME \A n \in S : n \notin A PROVE FALSE
  OBVIOUS
<1>1. 0 \in A
  OBVIOUS
<1>2. \A n \in Nat : n \in A => n + 1 \in A
  OBVIOUS
<1> HIDE DEF A
<1>3. \A n \in Nat : n \in A
  BY <1>1, <1>2, EachNumber
<1> QED
  BY <1>3

\* The outputs as a list, whichever SetToSeq() takes.
LEMMA OutputList == SetToSeq(Outputs) \in Seq(Outputs)
<1>1. IsFiniteSet(Outputs)
  <2>1. IsFiniteSet({"stream", "record", "replay", "virtualcam"})
    <3> DEFINE S == {"stream", "record", "replay"}
    <3>1. IsFiniteSet({} \cup {"stream"})
      BY FS_EmptySet, FS_AddElement
    <3>2. IsFiniteSet({} \cup {"stream"} \cup {"record"})
      BY <3>1, FS_AddElement
    <3>3. IsFiniteSet({} \cup {"stream"} \cup {"record"} \cup {"replay"})
      BY <3>2, FS_AddElement
    <3>4. IsFiniteSet({} \cup {"stream"} \cup {"record"} \cup {"replay"} \cup {"virtualcam"})
      BY <3>3, FS_AddElement
    <3>5. {"stream", "record", "replay", "virtualcam"}
            = {} \cup {"stream"} \cup {"record"} \cup {"replay"} \cup {"virtualcam"}
      OBVIOUS
    <3> QED
      BY <3>4, <3>5
  <2> QED
    BY <2>1, OutputNames, FS_Subset
<1>2. PICK f \in Bijection(1..Cardinality(Outputs), Outputs) : TRUE
  <2>1. PICK n \in Nat : ExistsBijection(1..n, Outputs)
    BY <1>1, FS_NatBijection
  <2>2. Cardinality(Outputs) = n
    BY <2>1, FS_CountingElements
  <2> QED
    BY <2>1, <2>2 DEF ExistsBijection
<1>3. f \in [1..Cardinality(Outputs) -> Outputs] /\ IsInjective(f)
  BY <1>2 DEF Bijection, Injection, IsInjective
<1>4. SetToSeq(Outputs) \in [1..Cardinality(Outputs) -> Outputs]
  BY <1>3 DEF SetToSeq
<1> QED
  BY <1>1, <1>4, FS_CardinalityType DEF Seq

LEMMA PathSplits ==
    ASSUME NEW r, NEW below, below = <<>> \/ (\E a : below = <<a>>) \/ (\E a, b : below = <<a, b>>)
    PROVE  LET path == <<r>> \o below
           IN /\ path[1] = r /\ Tail(path) = below
              /\ SubSeq(below, Len(path), Len(below)) = <<>> /\ IsPrefix(below, below)
<1>1. /\ Tail(<<r>>) = <<>>
      /\ \A a : Tail(<<r, a>>) = <<a>>
      /\ \A a, b : Tail(<<r, a, b>>) = <<a, b>>
  OBVIOUS
<1>2. IsPrefix(below, below)
  BY DEF IsPrefix
<1>3. CASE below = <<>>
  BY <1>1, <1>2, <1>3, Joined
<1>4. ASSUME NEW a, below = <<a>>
      PROVE  /\ (<<r>> \o below) = <<r, a>> /\ Tail(<<r, a>>) = below
             /\ SubSeq(below, 2, 1) = <<>>
  BY <1>1, <1>4, Joined
<1>5. ASSUME NEW a, NEW b, below = <<a, b>>
      PROVE  /\ (<<r>> \o below) = <<r, a, b>> /\ Tail(<<r, a, b>>) = below
             /\ SubSeq(below, 3, 2) = <<>>
  BY <1>1, <1>5, Joined
<1>6. CASE \E a : below = <<a>>
  <2>1. PICK a : below = <<a>>
    BY <1>6
  <2>2. Len(<<r, a>>) = 2 /\ Len(below) = 1 /\ <<r, a>>[1] = r
    BY <2>1
  <2> QED
    BY <1>2, <1>4, <2>1, <2>2
<1>7. CASE \E a, b : below = <<a, b>>
  <2>1. PICK a, b : below = <<a, b>>
    BY <1>7
  <2>2. Len(<<r, a, b>>) = 3 /\ Len(below) = 2 /\ <<r, a, b>>[1] = r
    BY <2>1
  <2> QED
    BY <1>2, <1>5, <2>1, <2>2
<1> QED
  BY <1>3, <1>6, <1>7

LEMMA SectionNames ==
    /\ DOMAIN Sections \subseteq Nat
    /\ \A n \in DOMAIN Sections : Sections[n] \notin {"", "/hotkey/"}
<1> DEFINE A == <<"program", "preview", "transition">>
           B == <<"studio", "screenshot", "mute", "volume", "media", "visible", "locked", "order",
                  "filter", "active", "showing", "hotkey", "profile", "collection",
                  "subscribe", "unsubscribe">>
           S == {"program", "preview", "transition", "studio", "screenshot", "mute", "volume", "media",
                 "visible", "locked", "order", "filter", "active", "showing", "hotkey", "profile",
                 "collection", "subscribe", "unsubscribe", "stream", "record", "replay", "virtualcam"}
<1>1. A \in Seq(S)
  OBVIOUS
<1>2. B \in Seq(S)
  OBVIOUS
<1>3. SetToSeq(Outputs) \in Seq(S)
  <2>1. Outputs \subseteq S
    BY OutputNames
  <2> HIDE DEF S
  <2> QED
    BY <2>1, OutputList, SeqMonotonic
<1>4. Sections = A \o SetToSeq(Outputs) \o B
  BY DEF Sections
<1>5. "" \notin S /\ "/hotkey/" \notin S
  OBVIOUS
<1> HIDE DEF A, B, S
<1>6. Sections \in Seq(S)
  BY <1>1, <1>2, <1>3, <1>4
<1>7. DOMAIN Sections \subseteq Nat /\ \A n \in DOMAIN Sections : Sections[n] \in S
  BY <1>6
<1> QED
  BY <1>5, <1>7

\* walk_tree() finds a section by its name and what is in it by its path.
LEMMA NodesAreFound ==
    ASSUME NEW o, NEW r \in Range(Sections), NEW x \in Section(o, r), Key(r) = r
    PROVE  <<<<>>, x[2]>> \in Lookup(o, <<r>> \o x[1])
<1> DEFINE path == <<r>> \o x[1]
           fits == {n \in DOMAIN Sections : Key(Sections[n]) = r}
<1>1. /\ path[1] = r /\ Tail(path) = x[1]
      /\ SubSeq(x[1], Len(path), Len(x[1])) = <<>> /\ IsPrefix(x[1], x[1])
  BY SectionPaths, PathSplits DEF Short
<1>2. PICK m \in DOMAIN Sections : r = Sections[m]
  BY DEF Range
<1>3. fits # {} /\ fits \subseteq Nat /\ r \notin {"", "/hotkey/"}
  <2>1. m \in fits
    BY <1>2
  <2>2. fits \subseteq Nat
    BY SectionNames
  <2> QED
    BY <1>2, <2>1, <2>2, SectionNames
<1>4. Min(fits) \in fits
  <2> HIDE DEF fits
  <2>1. PICK n \in fits : \A k \in fits : n <= k
    BY <1>3, LeastNumber
  <2> QED
    BY <2>1 DEF Min
<1>5. Sections[Min(fits)] = r
  <2> DEFINE q == Sections[Min(fits)]
  <2>1. Key(q) = r
    BY <1>4
  <2> HIDE DEF q
  <2>2. Key(q) \in {q, "", "/hotkey/"}
    <3>1. CASE q \in {"visible", "locked", "order", "filter", "active", "showing"}
      BY <3>1 DEF Key
    <3>2. CASE q = "hotkey"
      BY <3>2 DEF Key
    <3>3. CASE q \notin {"visible", "locked", "order", "filter", "active", "showing", "hotkey"}
      BY <3>3 DEF Key
    <3> QED
      BY <3>1, <3>2, <3>3
  <2>3. q = r
    BY <1>3, <2>1, <2>2
  <2> QED
    BY <2>3 DEF q
<1>6. BuildSection(o, r) = Section(o, r)
  BY <1>3, <1>5 DEF BuildSection
<1> HIDE DEF path
<1>7. x \in {y \in BuildSection(o, path[1]) : IsPrefix(Tail(path), y[1])}
  BY <1>1, <1>6
<1>8. <<SubSeq(x[1], Len(path), Len(x[1])), x[2]>> \in Lookup(o, path)
  BY <1>7 DEF Lookup
<1>9. <<<<>>, x[2]>> \in Lookup(o, path)
  BY <1>1, <1>8
<1> QED
  BY <1>9 DEF path

(***************************************************************************)
(* A value in the OSCQuery tree is the answer to a poll of its address,    *)
(* and a node of a section that has a name is found by its address.        *)
(***************************************************************************)
THEOREM TreeAgreesWithPollsAlways == Spec => []TreeAgreesWithPolls
<1>1. TreeAgreesWithPolls
  <2> SUFFICES ASSUME NEW r \in Range(Sections) \cap routes, NEW x \in Section(cells, r)
               PROVE  LET c == <<r>> \o x[1]
                      IN /\ x[2][1] \in {"rw", "ro"} /\ c \in (Cells \cup Tallies) /\ r # "media" =>
                               x[2][2] = Value(cells, c)
                         /\ Key(r) = r => <<<<>>, x[2]>> \in Lookup(cells, c)
    BY DEF TreeAgreesWithPolls
  <2> QED
    BY SectionValues, NodesAreFound
<1> QED
  BY <1>1, PTL

-----------------------------------------------------------------------------
\* What each route does.

LEMMA StudioRoute ==
    ASSUME NEW o, NEW a, NEW args, a = <<"studio">>
    PROVE  Command(o, a, args) = Studio(o, args)
<1>1. a[1] = "studio" /\ Len(a) = 1
  OBVIOUS
<1> QED
  BY <1>1, OutputNames DEF Command

LEMMA TransitionRoute ==
    ASSUME NEW o, NEW a, NEW args, a \in {<<"transition">>, <<"transition", "go">>}
    PROVE  Command(o, a, args) = TriggerTransition(o)
<1>1. a[1] = "transition" /\ (Len(a) = 2 => a = <<"transition", "go">>) /\ a # <<"studio">>
  OBVIOUS
<1> QED
  BY <1>1, OutputNames DEF Command

LEMMA SelectRoute ==
    ASSUME NEW o, NEW a, NEW args, a[1] \in {"transition", "profile", "collection"}, Len(a) = 2,
           a # <<"transition", "go">>
    PROVE  Command(o, a, args) = Select(o, a[1], a[2], Names[a[1]])
<1>1. a \notin {<<"studio">>, <<"transition">>, <<"transition", "go">>}
  OBVIOUS
<1> QED
  BY <1>1, OutputNames DEF Command

LEMMA ProgramRoute ==
    ASSUME NEW o, NEW a, NEW args, a[1] = "program"
    PROVE  Command(o, a, args) =
               IF Len(a) = 3 /\ a[2] = "index" THEN ProgramIndex(o, a[3])
               ELSE IF Len(a) = 2 THEN Select(o, "program", a[2], SceneNames) ELSE o
<1>1. a \notin {<<"studio">>, <<"transition">>, <<"transition", "go">>}
  OBVIOUS
<1>2. CASE Len(a) = 3 /\ a[2] = "index"
  <2>1. a[1] \notin Outputs /\ Len(a) # 2
    BY <1>2, OutputNames
  <2>2. Command(o, a, args) = ProgramIndex(o, a[3])
    BY <1>1, <1>2, <2>1 DEF Command
  <2> QED
    BY <1>2, <2>2
<1>3. CASE Len(a) = 2
  BY <1>1, <1>3, OutputNames DEF Command
<1>4. CASE ~(Len(a) = 3 /\ a[2] = "index") /\ Len(a) # 2
  BY <1>1, <1>4, OutputNames DEF Command
<1> QED
  BY <1>2, <1>3, <1>4

LEMMA PreviewRoute ==
    ASSUME NEW o, NEW a, NEW args, a[1] = "preview"
    PROVE  Command(o, a, args) =
               IF Len(a) = 2 /\ o[<<"studio">>] = 1 THEN Select(o, "preview", a[2], SceneNames) ELSE o
<1>1. a \notin {<<"studio">>, <<"transition">>, <<"transition", "go">>}
  OBVIOUS
<1> QED
  BY <1>1, OutputNames DEF Command

LEMMA OutputRoute ==
    ASSUME NEW o, NEW a, NEW args, a[1] \in Outputs
    PROVE  Command(o, a, args) = RunOutputCommand(o, a[1], IF Len(a) = 2 THEN a[2] ELSE "", args)
<1>1. a \notin {<<"studio">>, <<"transition">>, <<"transition", "go">>}
  BY OutputNames
<1> QED
  BY <1>1, OutputNames DEF Command

LEMMA MuteRoute ==
    ASSUME NEW o, NEW a, NEW args, Len(a) = 2, a[1] = "mute"
    PROVE  Command(o, a, args) = SetOrFlip(o, {<<"mute", i>> : i \in VisitInputs(a[2])}, args)
<1>1. a \notin {<<"studio">>, <<"transition">>, <<"transition", "go">>}
  OBVIOUS
<1> QED
  BY <1>1, OutputNames DEF Command

LEMMA VolumeRoute ==
    ASSUME NEW o, NEW a, NEW args, Len(a) = 2, a[1] = "volume"
    PROVE  Command(o, a, args) = Set(o, {<<"volume", i>> : i \in {a[2]} \cap Inputs}, Multiplier(ArgFloat(args, -1)))
<1>1. a \notin {<<"studio">>, <<"transition">>, <<"transition", "go">>}
  OBVIOUS
<1> QED
  BY <1>1, OutputNames DEF Command

LEMMA DbRoute ==
    ASSUME NEW o, NEW a, NEW args, Len(a) = 2, a[1] = "db"
    PROVE  Command(o, a, args) = Set(o, {<<"volume", i>> : i \in {a[2]} \cap Inputs}, Gain(ArgFloat(args, 0)))
<1>1. a \notin {<<"studio">>, <<"transition">>, <<"transition", "go">>}
  OBVIOUS
<1> QED
  BY <1>1, OutputNames DEF Command

LEMMA MediaRoute ==
    ASSUME NEW o, NEW a, NEW args, Len(a) = 3, a[1] = "media"
    PROVE  Command(o, a, args) = MediaCommand(o, a[2], a[3])
<1>1. a \notin {<<"studio">>, <<"transition">>, <<"transition", "go">>}
  OBVIOUS
<1> QED
  BY <1>1, OutputNames DEF Command

LEMMA FlagRoute ==
    ASSUME NEW o, NEW a, NEW args, NEW r, r = "visible" \/ r = "locked", Len(a) = 3, a[1] = r
    PROVE  Command(o, a, args) = SetOrFlip(o, {<<r, x[1], x[2]>> : x \in VisitItems(o, a[2], a[3])}, args)
<1>1. a \notin {<<"studio">>, <<"transition">>, <<"transition", "go">>}
  OBVIOUS
<1> QED
  BY <1>1, OutputNames DEF Command

LEMMA OrderRoute ==
    ASSUME NEW o, NEW a, NEW args, Len(a) = 3, a[1] = "order"
    PROVE  Command(o, a, args) = MoveItems(o, a[2], a[3], ArgInt(args, -1))
<1>1. a \notin {<<"studio">>, <<"transition">>, <<"transition", "go">>}
  OBVIOUS
<1> QED
  BY <1>1, OutputNames DEF Command

LEMMA EnabledRoute ==
    ASSUME NEW o, NEW a, NEW args, Len(a) = 3, a[1] = "filter"
    PROVE  Command(o, a, args) = SetOrFlip(o, {<<"filter", x[1], x[2]>> : x \in VisitFilters(a[2], a[3])}, args)
<1>1. a \notin {<<"studio">>, <<"transition">>, <<"transition", "go">>}
  OBVIOUS
<1> QED
  BY <1>1, OutputNames DEF Command

LEMMA ParamRoute ==
    ASSUME NEW o, NEW a, NEW args, Len(a) = 4, a[1] = "filter", a[4] \in DOMAIN Params
    PROVE  Command(o, a, args) = WriteParam(o, a[2], a[3], a[4], args)
<1>1. a \notin {<<"studio">>, <<"transition">>, <<"transition", "go">>}
  OBVIOUS
<1> QED
  BY <1>1, OutputNames DEF Command

LEMMA TransformRoute ==
    ASSUME NEW o, NEW a, NEW args, Len(a) = 4, a[1] = "transform"
    PROVE  Command(o, a, args) = WriteTransform(o, a[2], a[3], a[4], ArgFloat(args, 0))
<1>1. a \notin {<<"studio">>, <<"transition">>, <<"transition", "go">>}
  OBVIOUS
<1> QED
  BY <1>1, OutputNames DEF Command

LEMMA NoRoute ==
    ASSUME NEW o, NEW a, NEW args,
           a \notin {<<"studio">>, <<"transition">>, <<"transition", "go">>},
           a[1] \notin Outputs \cup {"program", "preview"},
           Len(a) = 2 => a[1] \notin {"transition", "profile", "collection", "mute", "volume", "db"},
           Len(a) = 3 => a[1] \notin {"media", "visible", "locked", "order", "filter"},
           Len(a) = 4 => a[1] # "transform" /\ (a[1] = "filter" => a[4] \notin DOMAIN Params)
    PROVE  Command(o, a, args) = o
  BY OutputNames DEF Command

LEMMA SceneItems ==
    ASSUME NEW s \in SceneNames
    PROVE  /\ Items[s] \in Seq(Inputs) /\ Len(Items[s]) \in Nat
           /\ DOMAIN Items[s] = 1..Len(Items[s])
           /\ IsInjective(Items[s])
           /\ Range(Items[s]) \subseteq Inputs
           /\ \A i \in Range(Items[s]) : <<s, i>> \in ItemNames /\ <<"order", s, i>> \in Cells
<1>1. Items[s] \in Seq(Inputs) /\ IsInjective(Items[s])
  BY CommandsAssumption
<1>2. Len(Items[s]) \in Nat /\ DOMAIN Items[s] = 1..Len(Items[s])
  BY <1>1
<1>3. Range(Items[s]) \subseteq Inputs
  BY <1>1, <1>2 DEF Range
<1>4. ASSUME NEW i \in Range(Items[s])
      PROVE  <<s, i>> \in ItemNames /\ <<"order", s, i>> \in Cells
  <2>1. <<s, i>> \in ItemNames
    BY <1>3 DEF ItemNames
  <2> DEFINE x == <<s, i>>
  <2>2. x \in ItemNames /\ x[1] = s /\ x[2] = i
    BY <2>1
  <2>3. <<"order", x[1], x[2]>> \in Cells
    BY <2>2 DEF Cells
  <2> QED
    BY <2>1, <2>2, <2>3
<1> QED
  BY <1>1, <1>2, <1>3, <1>4

\* What leaves the order alone and keeps the types of the rest.
LEMMA TypedFrom ==
    ASSUME NEW o, Typed(o), NEW n, IsState(n),
           \A c \in Cells : \/ n[c] = o[c]
                            \/ /\ c[1] # "order"
                               /\ IsBit(c) => n[c] \in {0, 1}
                               /\ c[1] = "volume" => n[c] \in Squares
    PROVE  Typed(n)
<1>1. \A c \in Cells : IsBit(c) => n[c] \in {0, 1}
  BY DEF Typed
<1>2. ASSUME NEW i \in Inputs
      PROVE  n[<<"volume", i>>] \in Squares
  <2>1. <<"volume", i>> \in Cells
    BY DEF Cells
  <2> DEFINE c == <<"volume", i>>
  <2>2. c[1] = "volume" /\ c \in Cells /\ o[c] \in Squares
    BY <2>1 DEF Typed
  <2> HIDE DEF c
  <2>3. n[c] \in Squares
    BY <2>2
  <2> QED
    BY <2>3 DEF c
<1>3. ASSUME NEW s \in SceneNames
      PROVE  OrderIn(n, s)
  <2>1. ASSUME NEW i \in Range(Items[s])
        PROVE  n[<<"order", s, i>>] = o[<<"order", s, i>>]
    <3> DEFINE c == <<"order", s, i>>
    <3>1. c \in Cells /\ c[1] = "order"
      BY SceneItems
    <3> HIDE DEF c
    <3>2. n[c] = o[c]
      BY <3>1
    <3> QED
      BY <3>2 DEF c
  <2>2. OrderIn(o, s)
    BY DEF Typed
  <2>3. [i \in Range(Items[s]) |-> n[<<"order", s, i>>]] = [i \in Range(Items[s]) |-> o[<<"order", s, i>>]]
    BY <2>1
  <2> QED
    BY <2>2, <2>3 DEF OrderIn
<1> QED
  BY <1>1, <1>2, <1>3 DEF Typed

LEMMA ExceptIsSet ==
    ASSUME NEW o, NEW c, NEW v
    PROVE  [o EXCEPT ![c] = v] = Set(o, {c}, v)
  BY DEF Set

LEMMA SetIs ==
    ASSUME NEW o, IsState(o), NEW cs, NEW v
    PROVE  /\ IsState(Set(o, cs, v))
           /\ \A c \in Cells : Set(o, cs, v)[c] = IF c \in cs THEN v ELSE o[c]
  BY DEF Set, IsState

LEMMA FlipIs ==
    ASSUME NEW o, IsState(o), NEW cs
    PROVE  /\ IsState(Flip(o, cs))
           /\ \A c \in Cells : Flip(o, cs)[c] = IF c \in cs THEN 1 - o[c] ELSE o[c]
  BY DEF Flip, IsState

LEMMA SetKeeps ==
    ASSUME NEW o, Typed(o), NEW cs, NEW v,
           \A c \in cs : /\ c[1] # "order"
                         /\ IsBit(c) => v \in {0, 1}
                         /\ c[1] = "volume" => v \in Squares
    PROVE  Typed(Set(o, cs, v))
<1> DEFINE n == Set(o, cs, v)
<1>1. IsState(n) /\ \A c \in Cells : n[c] = IF c \in cs THEN v ELSE o[c]
  BY SetIs DEF Typed
<1> HIDE DEF n
<1>2. \A c \in Cells : \/ n[c] = o[c]
                       \/ /\ c[1] # "order"
                          /\ IsBit(c) => n[c] \in {0, 1}
                          /\ c[1] = "volume" => n[c] \in Squares
  BY <1>1
<1>3. Typed(n)
  BY <1>1, <1>2, TypedFrom
<1> QED
  BY <1>3 DEF n

LEMMA FlipKeeps ==
    ASSUME NEW o, Typed(o), NEW cs, \A c \in cs : c[1] \notin {"order", "volume"}
    PROVE  Typed(Flip(o, cs))
<1> DEFINE n == Flip(o, cs)
<1>1. IsState(n) /\ \A c \in Cells : n[c] = IF c \in cs THEN 1 - o[c] ELSE o[c]
  BY FlipIs DEF Typed
<1>2. \A c \in Cells : IsBit(c) => o[c] \in {0, 1}
  BY DEF Typed
<1> HIDE DEF n
<1>3. \A c \in Cells : \/ n[c] = o[c]
                       \/ /\ c[1] # "order"
                          /\ IsBit(c) => n[c] \in {0, 1}
                          /\ c[1] = "volume" => n[c] \in Squares
  <2> TAKE c \in Cells
  <2>1. CASE c \in cs
    <3>1. IsBit(c) => n[c] \in {0, 1}
      BY <1>1, <1>2, <2>1
    <3> QED
      BY <2>1, <3>1
  <2>2. CASE c \notin cs
    BY <1>1, <2>2
  <2> QED
    BY <2>1, <2>2
<1>4. Typed(n)
  BY <1>1, <1>3, TypedFrom
<1> QED
  BY <1>4 DEF n

LEMMA SetOrFlipKeeps ==
    ASSUME NEW o, Typed(o), NEW cs, NEW args, \A c \in cs : c[1] \notin {"order", "volume"}
    PROVE  Typed(SetOrFlip(o, cs, args))
<1>1. Bit(ArgBool(args, FALSE)) \in {0, 1}
  BY DEF Bit
<1>2. Typed(Set(o, cs, Bit(ArgBool(args, FALSE))))
  BY <1>1, SetKeeps
<1>3. Typed(Flip(o, cs))
  BY FlipKeeps
<1> QED
  BY <1>2, <1>3 DEF SetOrFlip

-----------------------------------------------------------------------------
\* A move: the items between make room.

Shift(from, to, n) ==
    IF from < n /\ n <= to THEN n - 1 ELSE IF to <= n /\ n < from THEN n + 1 ELSE n

LEMMA ShiftInto ==
    ASSUME NEW top, NEW from, NEW to, NEW m,
           top \in Int, from \in 0..top, to \in 0..top, m \in 0..top, m # from
    PROVE  /\ Shift(from, to, m) \in 0..top /\ Shift(from, to, m) # to
           /\ from = to => Shift(from, to, m) = m
  BY DEF Shift

LEMMA ShiftApart ==
    ASSUME NEW top, NEW from, NEW to, NEW v, NEW w,
           top \in Int, from \in 0..top, to \in 0..top, v \in 0..top, v # from, w \in 0..top, w # from,
           Shift(from, to, v) = Shift(from, to, w)
    PROVE  v = w
  BY DEF Shift

\* What has come to k was here.
Unshift(from, to, k) ==
    IF from <= k /\ k < to THEN k + 1 ELSE IF to < k /\ k <= from THEN k - 1 ELSE k

LEMMA ShiftReaches ==
    ASSUME NEW top, NEW from, NEW to, NEW k,
           top \in Int, from \in 0..top, to \in 0..top, k \in 0..top, k # to
    PROVE  /\ Unshift(from, to, k) \in 0..top /\ Unshift(from, to, k) # from
           /\ Shift(from, to, Unshift(from, to, k)) = k
  BY DEF Shift, Unshift

LEMMA MinOfTwo ==
    ASSUME NEW a \in Int, NEW b \in Int
    PROVE  Min({a, b}) = IF a <= b THEN a ELSE b
<1>1. CASE a <= b
  <2>1. \A m \in {a, b} : (\A y \in {a, b} : m <= y) => m = a
    BY <1>1
  <2>2. \A y \in {a, b} : a <= y
    BY <1>1
  <2> QED
    BY <1>1, <2>1, <2>2 DEF Min
<1>2. CASE b < a
  <2>1. \A m \in {a, b} : (\A y \in {a, b} : m <= y) => m = b
    BY <1>2
  <2>2. \A y \in {a, b} : b <= y
    BY <1>2
  <2> QED
    BY <1>2, <2>1, <2>2 DEF Min
<1> QED
  BY <1>1, <1>2

\* Where a move ends.
Goal(s, p) == LET top == Len(Items[s]) - 1 IN IF p < 0 THEN Min({1, top}) ELSE Min({p, top})

LEMMA GoalRange ==
    ASSUME NEW s, NEW i, NEW p, s \in SceneNames, i \in Range(Items[s]), p \in Int
    PROVE  Goal(s, p) \in 0..Len(Items[s]) - 1
<1> DEFINE top == Len(Items[s]) - 1
<1>1. top \in Nat
  <2>1. DOMAIN Items[s] # {} /\ Len(Items[s]) \in Nat /\ DOMAIN Items[s] = 1..Len(Items[s])
    BY SceneItems DEF Range
  <2> QED
    BY <2>1
<1> HIDE DEF top
<1>2. Min({1, top}) \in 0..top /\ (p >= 0 => Min({p, top}) \in 0..top)
  BY <1>1, MinOfTwo
<1> QED
  BY <1>2 DEF Goal, top

LEMMA MovedDomain ==
    ASSUME NEW o, NEW s, NEW i, NEW p
    PROVE  DOMAIN Moved(o, s, i, p) = DOMAIN o
  BY DEF Moved

LEMMA MovedCell ==
    ASSUME NEW o, NEW s, NEW i, NEW p, NEW c, c \in DOMAIN o
    PROVE  Moved(o, s, i, p)[c] =
               IF c[1] = "order" /\ c[2] = s
               THEN IF c[3] = i THEN Goal(s, p)
                    ELSE Shift(o[<<"order", s, i>>], Goal(s, p), o[c])
               ELSE o[c]
  BY DEF Moved, Goal, Shift

LEMMA MovedOrder ==
    ASSUME NEW o, NEW s, NEW i, NEW p, NEW j, <<"order", s, j>> \in DOMAIN o
    PROVE  Moved(o, s, i, p)[<<"order", s, j>>] =
               IF j = i THEN Goal(s, p) ELSE Shift(o[<<"order", s, i>>], Goal(s, p), o[<<"order", s, j>>])
<1> DEFINE c == <<"order", s, j>>
<1>1. c[1] = "order" /\ c[2] = s /\ c[3] = j /\ c \in DOMAIN o
  OBVIOUS
<1> HIDE DEF c
<1>2. Moved(o, s, i, p)[c] = IF j = i THEN Goal(s, p) ELSE Shift(o[<<"order", s, i>>], Goal(s, p), o[c])
  BY <1>1, MovedCell
<1> QED
  BY <1>2 DEF c

Rearranges(now, at, R, i, to) ==
    \A j \in R : now[j] = IF j = i THEN to ELSE Shift(at[i], to, at[j])

LEMMA Rearranged ==
    ASSUME NEW R, NEW top, NEW i, NEW to, NEW at, NEW now, top \in Int, i \in R, to \in 0..top,
           Numbers(at, R, top), Rearranges(now, at, R, i, to)
    PROVE  Numbers(now, R, top)
<1> DEFINE from == at[i]
<1>0. /\ \A j \in R : at[j] \in 0..top
      /\ \A j, k \in R : at[j] = at[k] => j = k
      /\ \A n \in 0..top : \E j \in R : at[j] = n
  BY DEF Numbers
<1>1. from \in 0..top
  BY <1>0
<1>2. \A j \in R : j # i => at[j] \in 0..top /\ at[j] # from
  BY <1>0
<1>3. \A j \in R : j # i => now[j] = Shift(from, to, at[j])
  BY DEF Rearranges
<1>4. now[i] = to
  BY DEF Rearranges
<1> HIDE DEF from
<1>5. \A j \in R : j # i => now[j] \in 0..top /\ now[j] # to
  <2> SUFFICES ASSUME NEW j, j \in R, j # i PROVE now[j] \in 0..top /\ now[j] # to
    OBVIOUS
  <2>1. at[j] \in 0..top /\ at[j] # from /\ now[j] = Shift(from, to, at[j])
    BY <1>2, <1>3
  <2> DEFINE v == at[j]
  <2>2. v \in 0..top /\ v # from /\ now[j] = Shift(from, to, v)
    BY <2>1
  <2> HIDE DEF v
  <2>3. Shift(from, to, v) \in 0..top /\ Shift(from, to, v) # to
    BY <1>1, <2>2, ShiftInto
  <2> QED
    BY <2>2, <2>3
<1>6. \A j, k \in R : j # i /\ k # i /\ now[j] = now[k] => at[j] = at[k]
  BY <1>1, <1>2, <1>3, ShiftApart
<1>7. ASSUME NEW n, n \in 0..top
      PROVE  \E j \in R : now[j] = n
  <2>1. CASE n = to
    BY <1>4, <2>1
  <2>2. CASE n # to
    <3> DEFINE m == Unshift(from, to, n)
    <3>1. m \in 0..top /\ m # from /\ Shift(from, to, m) = n
      BY <1>1, <1>7, <2>2, ShiftReaches
    <3> HIDE DEF m
    <3>2. m \in 0..top
      BY <3>1
    <3>3. PICK j \in R : at[j] = m
      BY <1>0, <3>2
    <3>4. j # i
      BY <3>1, <3>3 DEF from
    <3> QED
      BY <1>3, <3>1, <3>3, <3>4
  <2> QED
    BY <2>1, <2>2
<1>8. \A j \in R : now[j] \in 0..top
  BY <1>4, <1>5
<1>9. \A j, k \in R : now[j] = now[k] => j = k
  BY <1>0, <1>4, <1>5, <1>6
<1> QED
  BY <1>7, <1>8, <1>9 DEF Numbers

\* A move keeps the positions apart.
LEMMA MovedKeeps ==
    ASSUME NEW o, DOMAIN o = Cells, NEW s, s \in SceneNames, OrderIn(o, s),
           NEW i, i \in Range(Items[s]), NEW p, p \in Int
    PROVE  OrderIn(Moved(o, s, i, p), s)
<1> DEFINE R == Range(Items[s])
           at == [j \in R |-> o[<<"order", s, j>>]]
           now == [j \in R |-> Moved(o, s, i, p)[<<"order", s, j>>]]
           to == Goal(s, p)
           top == Len(Items[s]) - 1
<1>1. Numbers(at, R, top)
  BY DEF OrderIn
<1>2. top \in Int /\ to \in 0..top /\ i \in R
  <2>1. top \in Int
    BY SceneItems
  <2> QED
    BY <2>1, GoalRange
<1>3. \A j \in R : <<"order", s, j>> \in DOMAIN o
  BY SceneItems
<1>4. Rearranges(now, at, R, i, to)
  <2> SUFFICES ASSUME NEW j, j \in R
               PROVE  now[j] = IF j = i THEN to ELSE Shift(at[i], to, at[j])
    BY DEF Rearranges
  <2>1. /\ now[j] = Moved(o, s, i, p)[<<"order", s, j>>]
        /\ at[i] = o[<<"order", s, i>>] /\ at[j] = o[<<"order", s, j>>]
    BY <1>2
  <2>2. <<"order", s, j>> \in DOMAIN o
    BY <1>3
  <2> HIDE DEF R, at, now, top
  <2> QED
    BY <2>1, <2>2, MovedOrder
<1> HIDE DEF R, at, now, to, top
<1>5. Numbers(now, R, top)
  BY <1>1, <1>2, <1>4, Rearranged
<1> QED
  BY <1>5 DEF OrderIn, R, at, now, top

\* Two functions that start alike and go on alike are alike.
GoOnAlike(f, g, n) == \A k \in 1..n : f[k - 1] = g[k - 1] => f[k] = g[k]

LEMMA Agree ==
    ASSUME NEW f, NEW g, NEW n, n \in Nat, f[0] = g[0], GoOnAlike(f, g, n)
    PROVE  \A k \in 0..n : f[k] = g[k]
<1> DEFINE S == {k \in Nat : k <= n => f[k] = g[k]}
<1>1. 0 \in S
  OBVIOUS
<1>2. ASSUME NEW k \in Nat, k \in S
      PROVE  k + 1 \in S
  <2> SUFFICES ASSUME k + 1 <= n PROVE f[k + 1] = g[k + 1]
    OBVIOUS
  <2>1. f[k] = g[k]
    BY <1>2
  <2>2. k + 1 \in 1..n /\ (k + 1) - 1 = k
    OBVIOUS
  <2> QED
    BY <2>1, <2>2 DEF GoOnAlike
<1> HIDE DEF S
<1>3. \A k \in Nat : k \in S
  BY <1>1, <1>2, EachNumber
<1> QED
  BY <1>3 DEF S

-----------------------------------------------------------------------------
\* The items of a scene from the bottom, and a visit of them.

Stack(o, s) ==
    [k \in DOMAIN Items[s] |-> CHOOSE i \in Range(Items[s]) : o[<<"order", s, i>>] = k - 1]

Visit(before, s, selector, i, p) ==
    IF SelectorMatches(selector, i, before[<<"order", s, i>>]) THEN Moved(before, s, i, p) ELSE before

Visits(f, o, s, selector, p, n) ==
    f = [k \in 0..n |-> IF k = 0 THEN o ELSE Visit(f[k - 1], s, selector, Stack(o, s)[k], p)]

LEMMA StackIs ==
    ASSUME NEW o, NEW s, s \in SceneNames, OrderIn(o, s)
    PROVE  /\ Len(Stack(o, s)) = Len(Items[s]) /\ Len(Items[s]) \in Nat
           /\ \A k \in 1..Len(Items[s]) : /\ Stack(o, s)[k] \in Range(Items[s])
                                          /\ o[<<"order", s, Stack(o, s)[k]>>] = k - 1
<1> DEFINE R == Range(Items[s])
           at == [j \in R |-> o[<<"order", s, j>>]]
           L == Len(Items[s])
<1>1. DOMAIN Items[s] = 1..L /\ L \in Nat
  BY SceneItems
<1>2. Stack(o, s) = [k \in 1..L |-> CHOOSE i \in R : o[<<"order", s, i>>] = k - 1]
  BY <1>1 DEF Stack
<1>3. Numbers(at, R, L - 1) /\ \A j \in R : at[j] = o[<<"order", s, j>>]
  BY DEF OrderIn
<1> HIDE DEF at, R, L
<1>4. \A n \in 0..L - 1 : \E j \in R : o[<<"order", s, j>>] = n
  BY <1>3 DEF Numbers
<1>5. ASSUME NEW k, k \in 1..L
      PROVE  Stack(o, s)[k] \in R /\ o[<<"order", s, Stack(o, s)[k]>>] = k - 1
  <2>1. k - 1 \in 0..L - 1
    BY <1>1, <1>5
  <2>2. \E j \in R : o[<<"order", s, j>>] = k - 1
    BY <1>4, <2>1
  <2>3. Stack(o, s)[k] = CHOOSE i \in R : o[<<"order", s, i>>] = k - 1
    BY <1>2, <1>5
  <2> QED
    BY <2>2, <2>3
<1>6. Stack(o, s) \in [1..L -> R]
  <2>1. DOMAIN Stack(o, s) = 1..L /\ Stack(o, s) = [k \in 1..L |-> Stack(o, s)[k]]
    BY <1>2, Zenon
  <2> QED
    BY <1>5, <2>1
<1>7. Len(Stack(o, s)) = L
  <2>1. Stack(o, s) \in Seq(R)
    BY <1>1, <1>6
  <2> QED
    BY <1>1, <1>6, <2>1
<1> QED
  BY <1>1, <1>5, <1>7 DEF R, L

LEMMA MovedInIs ==
    ASSUME NEW o, NEW s, NEW selector, NEW p, NEW f, s \in SceneNames, OrderIn(o, s),
           Visits(f, o, s, selector, p, Len(Items[s]))
    PROVE  MovedIn(o, s, selector, p) = f[Len(Items[s])]
<1> DEFINE L == Len(Items[s])
           g == CHOOSE h : Visits(h, o, s, selector, p, L)
<1>1. L \in Nat /\ Len(Stack(o, s)) = L
  BY StackIs
<1>2. MovedIn(o, s, selector, p) = g[L]
  BY <1>1 DEF MovedIn, Visits, Visit, Stack
<1>3. Visits(g, o, s, selector, p, L) /\ Visits(f, o, s, selector, p, L)
  OBVIOUS
<1> HIDE DEF g
<1>4. f[0] = o /\ g[0] = o
  BY <1>1, <1>3 DEF Visits
<1> HIDE DEF L
<1>5. ASSUME NEW h, Visits(h, o, s, selector, p, L), NEW k, k \in 1..L
      PROVE  h[k] = Visit(h[k - 1], s, selector, Stack(o, s)[k], p)
  <2>1. k \in 0..L /\ k # 0
    BY <1>1, <1>5
  <2> QED
    BY <1>5, <2>1 DEF Visits
<1>6. \A k \in 0..L : f[k] = g[k]
  <2>1. GoOnAlike(f, g, L)
    BY <1>3, <1>5 DEF GoOnAlike
  <2> QED
    BY <1>1, <1>4, <2>1, Agree
<1>7. L \in 0..L
  BY <1>1
<1> QED
  BY <1>2, <1>6, <1>7 DEF L

\* Whatever is visited, the positions stay apart.
LEMMA VisitsKeep ==
    ASSUME NEW o, DOMAIN o = Cells, NEW s, s \in SceneNames, OrderIn(o, s), NEW selector, NEW p, p \in Int
    PROVE  /\ OrderIn(MovedIn(o, s, selector, p), s)
           /\ DOMAIN MovedIn(o, s, selector, p) = Cells
<1> DEFINE L == Len(Items[s])
           St == Stack(o, s)
           Good(f, n) == /\ Visits(f, o, s, selector, p, n)
                         /\ \A k \in 0..n : OrderIn(f[k], s) /\ DOMAIN f[k] = Cells
           S == {n \in Nat : n <= L => \E f : Good(f, n)}
<1>1. L \in Nat /\ \A k \in 1..L : St[k] \in Range(Items[s])
  BY StackIs
<1>2. 0 \in S
  <2> DEFINE f == [k \in 0..0 |-> o]
  <2>1. Visits(f, o, s, selector, p, 0)
    BY DEF Visits
  <2>2. Good(f, 0)
    BY <2>1
  <2> QED
    BY <2>2
<1>3. ASSUME NEW n \in Nat, n \in S
      PROVE  n + 1 \in S
  <2> SUFFICES ASSUME n + 1 <= L PROVE \E f : Good(f, n + 1)
    OBVIOUS
  <2>1. PICK f : Good(f, n)
    BY <1>3
  <2> DEFINE i == St[n + 1]
             last == f[n]
             next == Visit(last, s, selector, i, p)
             g == [k \in 0..n + 1 |-> IF k = n + 1 THEN next ELSE f[k]]
  <2>2. i \in Range(Items[s])
    BY <1>1
  <2>3. OrderIn(last, s) /\ DOMAIN last = Cells
    BY <2>1
  <2>4. OrderIn(next, s) /\ DOMAIN next = Cells
    <3> HIDE DEF last, i
    <3>1. OrderIn(Moved(last, s, i, p), s) /\ DOMAIN Moved(last, s, i, p) = Cells
      BY <2>2, <2>3, MovedKeeps, MovedDomain
    <3> QED
      BY <2>3, <3>1 DEF Visit
  <2>5. \A k \in 0..n : g[k] = f[k] /\ g[n + 1] = next
    OBVIOUS
  <2>6. Visits(g, o, s, selector, p, n + 1)
    <3>1. \A k \in 0..n : f[k] = IF k = 0 THEN o ELSE Visit(f[k - 1], s, selector, St[k], p)
      BY <2>1 DEF Visits
    <3>2. ASSUME NEW k, k \in 0..n + 1
          PROVE  g[k] = IF k = 0 THEN o ELSE Visit(g[k - 1], s, selector, St[k], p)
      <4>1. CASE k = n + 1
        <5>1. k # 0 /\ k - 1 = n /\ n \in 0..n
          BY <4>1
        <5> QED
          BY <2>5, <4>1, <5>1
      <4>2. CASE k = 0
        BY <2>5, <3>1, <4>2
      <4>3. CASE k # 0 /\ k # n + 1
        <5>1. k \in 0..n /\ k - 1 \in 0..n
          BY <3>2, <4>3
        <5> QED
          BY <2>5, <3>1, <4>3, <5>1
      <4> QED
        BY <4>1, <4>2, <4>3
    <3>3. g = [k \in 0..n + 1 |-> g[k]]
      OBVIOUS
    <3> HIDE DEF g, St
    <3> QED
      BY <3>2, <3>3 DEF Visits, St
  <2>7. \A k \in 0..n + 1 : OrderIn(g[k], s) /\ DOMAIN g[k] = Cells
    <3>1. \A k \in 0..n + 1 : k \in 0..n \/ k = n + 1
      OBVIOUS
    <3> HIDE DEF g, next
    <3> QED
      BY <2>1, <2>4, <2>5, <3>1
  <2> QED
    BY <2>6, <2>7
<1> HIDE DEF S
<1>4. L \in S
  BY <1>1, <1>2, <1>3, EachNumber
<1>5. PICK f : Good(f, L)
  BY <1>1, <1>4 DEF S
<1>6. MovedIn(o, s, selector, p) = f[L]
  <2>1. Visits(f, o, s, selector, p, Len(Items[s]))
    BY <1>5
  <2> HIDE DEF Good
  <2> QED
    BY <2>1, MovedInIs
<1>7. L \in 0..L
  BY <1>1
<1> QED
  BY <1>5, <1>6, <1>7

LEMMA MoveItemsCell ==
    ASSUME NEW o, NEW scene, NEW selector, NEW p, NEW c, c \in DOMAIN o
    PROVE  MoveItems(o, scene, selector, p)[c] =
               IF c[1] = "order" /\ Matches(scene, c[2]) THEN MovedIn(o, c[2], selector, p)[c] ELSE o[c]
  BY DEF MoveItems

LEMMA MoveItemsDomain ==
    ASSUME NEW o, NEW scene, NEW selector, NEW p
    PROVE  DOMAIN MoveItems(o, scene, selector, p) = DOMAIN o
  BY DEF MoveItems

\* The order in a scene depends on its cells alone.
LEMMA SameOrder ==
    ASSUME NEW o, NEW n, NEW s, OrderIn(o, s),
           \A i \in Range(Items[s]) : n[<<"order", s, i>>] = o[<<"order", s, i>>]
    PROVE  OrderIn(n, s)
<1>1. [i \in Range(Items[s]) |-> n[<<"order", s, i>>]] = [i \in Range(Items[s]) |-> o[<<"order", s, i>>]]
  OBVIOUS
<1> QED
  BY <1>1 DEF OrderIn

LEMMA MoveItemsKeeps ==
    ASSUME NEW o, Typed(o), NEW scene, NEW selector, NEW p, p \in Int
    PROVE  Typed(MoveItems(o, scene, selector, p))
<1> DEFINE n == MoveItems(o, scene, selector, p)
<1>0. IsState(n)
  BY DEF Typed, IsState, MoveItems
<1>1. DOMAIN n = Cells /\ DOMAIN o = Cells
  BY MoveItemsDomain DEF Typed, IsState
<1>2. \A c \in Cells : c[1] # "order" => n[c] = o[c]
  BY <1>1, MoveItemsCell
<1>3. \A c \in Cells : IsBit(c) => n[c] \in {0, 1}
  <2>1. \A c \in Cells : IsBit(c) => c[1] # "order"
    BY DEF IsBit
  <2> HIDE DEF n
  <2> QED
    BY <1>2, <2>1 DEF Typed
<1>4. ASSUME NEW i, i \in Inputs
      PROVE  n[<<"volume", i>>] \in Squares
  <2> DEFINE c == <<"volume", i>>
  <2>1. c \in Cells /\ c[1] # "order" /\ o[c] \in Squares
    BY <1>4 DEF Cells, Typed
  <2> HIDE DEF n, c
  <2>2. n[c] \in Squares
    BY <1>2, <2>1
  <2> QED
    BY <2>2 DEF c
<1>5. ASSUME NEW s, s \in SceneNames
      PROVE  OrderIn(n, s)
  <2>1. OrderIn(o, s)
    BY <1>5 DEF Typed
  <2>2. ASSUME NEW i, i \in Range(Items[s])
        PROVE  n[<<"order", s, i>>] = IF Matches(scene, s) THEN MovedIn(o, s, selector, p)[<<"order", s, i>>]
                                                           ELSE o[<<"order", s, i>>]
    <3> DEFINE c == <<"order", s, i>>
    <3>1. c \in Cells /\ c[1] = "order" /\ c[2] = s
      BY <1>5, <2>2, SceneItems
    <3> HIDE DEF c
    <3>2. n[c] = IF Matches(scene, s) THEN MovedIn(o, s, selector, p)[c] ELSE o[c]
      BY <1>1, <3>1, MoveItemsCell
    <3> QED
      BY <3>2 DEF c
  <2>3. CASE Matches(scene, s)
    <3>1. OrderIn(MovedIn(o, s, selector, p), s)
      BY <1>1, <1>5, <2>1, VisitsKeep
    <3> HIDE DEF n
    <3> QED
      BY <2>2, <2>3, <3>1, SameOrder
  <2>4. CASE ~Matches(scene, s)
    <3> HIDE DEF n
    <3> QED
      BY <2>1, <2>2, <2>4, SameOrder
  <2> QED
    BY <2>3, <2>4
<1> QED
  BY <1>0, <1>3, <1>4, <1>5 DEF Typed

-----------------------------------------------------------------------------
\* A selector that is a name moves one item, or none.
MovedIf(o, scene, selector, p) ==
    IF <<scene, selector>> \in ItemNames THEN Moved(o, scene, selector, p) ELSE o

LEMMA MovedInOne ==
    ASSUME NEW o, NEW s, s \in SceneNames, OrderIn(o, s), NEW selector, Exact(selector), NEW p
    PROVE  MovedIn(o, s, selector, p) =
               IF selector \in Range(Items[s]) THEN Moved(o, s, selector, p) ELSE o
<1> DEFINE L == Len(Items[s])
           St == Stack(o, s)
           past(k) == \E j \in 1..k : St[j] = selector
           w == [k \in 0..L |-> IF past(k) THEN Moved(o, s, selector, p) ELSE o]
<1>1. /\ L \in Nat
      /\ \A k \in 1..L : St[k] \in Range(Items[s]) /\ o[<<"order", s, St[k]>>] = k - 1
  BY StackIs
<1>2. \A j, k \in 1..L : St[j] = St[k] => j = k
  <2> SUFFICES ASSUME NEW j, NEW k, j \in 1..L, k \in 1..L, St[j] = St[k] PROVE j = k
    OBVIOUS
  <2>1. o[<<"order", s, St[j]>>] = j - 1 /\ o[<<"order", s, St[k]>>] = k - 1
    BY <1>1
  <2>2. j - 1 = k - 1
    BY <2>1
  <2> QED
    BY <2>2
<1>3. \A k \in 1..L : \A before : Visit(before, s, selector, St[k], p) =
          IF St[k] = selector THEN Moved(before, s, selector, p) ELSE before
  <2>1. \A name, index : SelectorMatches(selector, name, index) <=> name = selector
    BY NameMatches DEF Exact
  <2> QED
    BY <2>1 DEF Visit
<1>4. ~past(0)
  OBVIOUS
<1>5. \A k \in 1..L : past(k) <=> past(k - 1) \/ St[k] = selector
  <2> SUFFICES ASSUME NEW k, k \in 1..L PROVE past(k) <=> past(k - 1) \/ St[k] = selector
    OBVIOUS
  <2>1. 1..k = 1..k - 1 \cup {k}
    OBVIOUS
  <2> QED
    BY <2>1
<1>6. \A k \in 1..L : St[k] = selector => ~past(k - 1)
  BY <1>2
<1>7. \A k \in 0..L : w[k] = IF past(k) THEN Moved(o, s, selector, p) ELSE o
  OBVIOUS
<1>8. w = [k \in 0..L |-> w[k]]
  OBVIOUS
<1>9. 0 \in 0..L /\ L \in 0..L /\ \A k \in 1..L : k \in 0..L /\ k - 1 \in 0..L /\ k # 0
  BY <1>1
<1>10. past(L) <=> selector \in Range(Items[s])
  <2>1. past(L) => selector \in Range(Items[s])
    BY <1>1
  <2>2. ASSUME selector \in Range(Items[s]) PROVE past(L)
    <3> DEFINE R == Range(Items[s])
               at == [j \in R |-> o[<<"order", s, j>>]]
    <3>1. Numbers(at, R, L - 1) /\ \A j \in R : at[j] = o[<<"order", s, j>>]
      BY DEF OrderIn
    <3> HIDE DEF at, R
    <3>2. selector \in R
      BY <2>2 DEF R
    <3> DEFINE k == o[<<"order", s, selector>>] + 1
    <3>3. o[<<"order", s, selector>>] \in 0..L - 1
      BY <3>1, <3>2 DEF Numbers
    <3>4. k \in 1..L /\ k - 1 = o[<<"order", s, selector>>]
      BY <1>1, <3>3
    <3> HIDE DEF k, St, L
    <3>5. St[k] \in R /\ o[<<"order", s, St[k]>>] = o[<<"order", s, selector>>]
      BY <1>1, <3>4 DEF R
    <3>6. St[k] = selector
      BY <3>1, <3>2, <3>5 DEF Numbers
    <3> QED
      BY <1>1, <3>4, <3>6 DEF L
  <2> QED
    BY <2>1, <2>2
<1> HIDE DEF w, past
<1>11. ASSUME NEW k, k \in 0..L
       PROVE  w[k] = IF k = 0 THEN o ELSE Visit(w[k - 1], s, selector, St[k], p)
  <2>1. CASE k = 0
    BY <1>4, <1>7, <1>9, <2>1
  <2>2. CASE k # 0
    <3>1. k \in 1..L /\ k - 1 \in 0..L
      BY <1>1, <1>11, <2>2
    <3>2. CASE St[k] = selector
      <4>1. past(k) /\ ~past(k - 1)
        BY <1>5, <1>6, <3>1, <3>2
      <4>2. w[k] = Moved(o, s, selector, p) /\ w[k - 1] = o
        BY <1>7, <1>11, <3>1, <4>1
      <4> QED
        BY <1>3, <2>2, <3>1, <3>2, <4>2
    <3>3. CASE St[k] # selector
      <4>1. past(k) <=> past(k - 1)
        BY <1>5, <3>1, <3>3
      <4>2. w[k] = w[k - 1]
        BY <1>7, <1>11, <3>1, <4>1
      <4> QED
        BY <1>3, <2>2, <3>1, <3>3, <4>2
    <3> QED
      BY <3>2, <3>3
  <2> QED
    BY <2>1, <2>2
<1>12. Visits(w, o, s, selector, p, L)
  <2> HIDE DEF St
  <2> QED
    BY <1>8, <1>11 DEF Visits, St
<1>13. MovedIn(o, s, selector, p) = w[L]
  BY <1>12, MovedInIs
<1> QED
  BY <1>7, <1>9, <1>10, <1>13

LEMMA MoveOne ==
    ASSUME NEW o, Typed(o), NEW scene, scene # "*", NEW selector, Exact(selector), NEW p
    PROVE  MoveItems(o, scene, selector, p) = MovedIf(o, scene, selector, p)
<1> DEFINE n == MoveItems(o, scene, selector, p)
           m == MovedIf(o, scene, selector, p)
<1>1. DOMAIN n = Cells /\ DOMAIN m = Cells /\ DOMAIN o = Cells
  BY MoveItemsDomain, MovedDomain DEF Typed, IsState, MovedIf
<1>2. \A s : Matches(scene, s) <=> s = scene
  BY DEF Matches
<1>3. ASSUME NEW c, c \in Cells, c[1] = "order"
      PROVE  c[2] \in SceneNames /\ c[3] \in Range(Items[c[2]])
  <2>1. PICK x \in ItemNames : c[2] = x[1] /\ c[3] = x[2]
    <3>1. c \notin Bare
      BY <1>3, BareNames
    <3> QED
      BY <1>3, <3>1, CellKinds
  <2> QED
    BY <2>1, ItemNamed
<1>4. ASSUME NEW c, c \in Cells
      PROVE  n[c] = m[c]
  <2>1. CASE c[1] = "order" /\ c[2] = scene
    <3>1. scene \in SceneNames /\ OrderIn(o, scene)
      BY <1>3, <1>4, <2>1 DEF Typed
    <3>2. n[c] = MovedIn(o, scene, selector, p)[c]
      BY <1>1, <1>2, <1>4, <2>1, MoveItemsCell
    <3>3. MovedIn(o, scene, selector, p) =
              IF selector \in Range(Items[scene]) THEN Moved(o, scene, selector, p) ELSE o
      BY <3>1, MovedInOne
    <3>4. selector \in Range(Items[scene]) <=> <<scene, selector>> \in ItemNames
      <4>1. selector \in Range(Items[scene]) => <<scene, selector>> \in ItemNames
        BY <3>1, SceneItems
      <4>2. ASSUME <<scene, selector>> \in ItemNames PROVE selector \in Range(Items[scene])
        <5> DEFINE x == <<scene, selector>>
        <5>1. x \in ItemNames /\ x[1] = scene /\ x[2] = selector
          BY <4>2
        <5> HIDE DEF x
        <5> QED
          BY <5>1, ItemNamed
      <4> QED
        BY <4>1, <4>2
    <3> HIDE DEF n
    <3> QED
      BY <3>2, <3>3, <3>4 DEF MovedIf
  <2>2. CASE ~(c[1] = "order" /\ c[2] = scene)
    <3>1. n[c] = o[c]
      BY <1>1, <1>2, <1>4, <2>2, MoveItemsCell
    <3>2. Moved(o, scene, selector, p)[c] = o[c]
      BY <1>1, <1>4, <2>2 DEF Moved
    <3> HIDE DEF n
    <3> QED
      BY <3>1, <3>2 DEF MovedIf
  <2> QED
    BY <2>1, <2>2
<1>5. n = [c \in DOMAIN n |-> n[c]] /\ m = [c \in DOMAIN m |-> m[c]]
  <2>1. n = [c \in DOMAIN n |-> n[c]]
    BY DEF MoveItems
  <2>2. Moved(o, scene, selector, p) = [c \in DOMAIN o |-> Moved(o, scene, selector, p)[c]]
    BY DEF Moved
  <2>3. m = [c \in DOMAIN m |-> m[c]]
    BY <1>1, <2>2 DEF MovedIf, Typed, IsState
  <2> QED
    BY <2>1, <2>3
<1> HIDE DEF n, m
<1>6. n = m
  BY <1>1, <1>4, <1>5
<1> QED
  BY <1>6 DEF n, m

-----------------------------------------------------------------------------
\* Every command keeps the types.

Sound(args) == args # <<>> /\ args[1][1] \in {"i", "f", "T", "F"} => args[1][2] \in Int

LEMMA ArgumentsSound ==
    ASSUME NEW args \in Arguments
    PROVE  Sound(args)
  BY MessagesAssumption DEF Sound

LEMMA ArgNumbers ==
    ASSUME NEW args, Sound(args), NEW def, def \in Int
    PROVE  ArgInt(args, def) \in Int /\ ArgFloat(args, def) \in Int
  BY DEF Sound, ArgInt, ArgFloat

LEMMA BitIs ==
    ASSUME NEW b
    PROVE  Bit(b) \in {0, 1}
  BY DEF Bit

LEMMA FadersAreSquares ==
    ASSUME NEW p, p \in Int
    PROVE  Multiplier(p) \in Squares /\ Gain(p) \in Squares
<1>1. Full \in Nat /\ Full >= 1
  BY CommandsAssumption
<1>2. Multiplier(p) \in Squares
  <2> DEFINE q == IF p < 0 THEN 0 ELSE IF p > Full THEN Full ELSE p
  <2>1. q \in 0..2 * Full
    BY <1>1
  <2>2. Multiplier(p) = q * q
    BY DEF Multiplier
  <2> HIDE DEF q
  <2> QED
    BY <2>1, <2>2 DEF Squares
<1>3. Gain(p) \in Squares
  <2> DEFINE q == IF p < 0 THEN Full \div 2 ELSE IF p > 0 THEN 2 * Full ELSE Full
  <2>1. q \in 0..2 * Full
    BY <1>1
  <2>2. Gain(p) = q * q
    BY DEF Gain
  <2> HIDE DEF q
  <2> QED
    BY <2>1, <2>2 DEF Squares
<1> QED
  BY <1>2, <1>3

LEMMA OneSetKeeps ==
    ASSUME NEW o, Typed(o), NEW c, NEW v, c[1] \notin {"order", "volume"}, IsBit(c) => v \in {0, 1}
    PROVE  Typed(Set(o, {c}, v))
<1>1. \A d \in {c} : d[1] # "order" /\ (IsBit(d) => v \in {0, 1}) /\ (d[1] = "volume" => v \in Squares)
  OBVIOUS
<1> QED
  BY <1>1, SetKeeps

\* A cell of a route that is not one of those with typed values.
LEMMA FreeCellKeeps ==
    ASSUME NEW o, Typed(o), NEW r, NEW v,
           r \in Selections \cup Outputs
    PROVE  Typed([o EXCEPT ![<<r>>] = v]) /\ Typed(Set(o, {<<r>>}, v))
<1> DEFINE c == <<r>>
<1>1. c[1] \notin {"order", "volume"} /\ ~IsBit(c)
  BY OutputNames DEF IsBit, Selections
<1> HIDE DEF c
<1>2. Typed(Set(o, {c}, v))
  BY <1>1, OneSetKeeps
<1>3. [o EXCEPT ![c] = v] = Set(o, {c}, v)
  BY ExceptIsSet
<1> QED
  BY <1>2, <1>3 DEF c

LEMMA PausedKeeps ==
    ASSUME NEW o, Typed(o), NEW v
    PROVE  Typed([o EXCEPT ![<<"record", "paused">>] = v])
<1> DEFINE c == <<"record", "paused">>
<1>1. c[1] \notin {"order", "volume"} /\ ~IsBit(c)
  BY DEF IsBit
<1> HIDE DEF c
<1>2. Typed(Set(o, {c}, v))
  BY <1>1, OneSetKeeps
<1>3. [o EXCEPT ![c] = v] = Set(o, {c}, v)
  BY ExceptIsSet
<1> QED
  BY <1>2, <1>3 DEF c

LEMMA StudioKeeps ==
    ASSUME NEW o, Typed(o), NEW on
    PROVE  Typed(StudioMode(o, on))
<1> DEFINE c == <<"studio">>
           v == IF on /\ o[c] = 0 THEN 1 ELSE Bit(on)
           n == Set(o, {c}, v)
<1>1. c[1] \notin {"order", "volume"} /\ v \in {0, 1}
  BY BitIs
<1>2. Typed(n)
  <2> HIDE DEF c, v
  <2> QED
    BY <1>1, OneSetKeeps
<1>3. Typed([n EXCEPT ![<<"preview">>] = o[<<"program">>]])
  <2>1. "preview" \in Selections \cup Outputs
    BY DEF Selections
  <2> HIDE DEF n
  <2> QED
    BY <1>2, <2>1, FreeCellKeeps
<1>4. CASE on /\ o[c] = 0
  <2>1. StudioMode(o, on) = [[o EXCEPT ![<<"studio">>] = 1] EXCEPT ![<<"preview">>] = o[<<"program">>]]
    BY <1>4 DEF StudioMode
  <2>2. n = [o EXCEPT ![<<"studio">>] = 1]
    BY <1>4, ExceptIsSet
  <2> HIDE DEF n
  <2> QED
    BY <1>3, <2>1, <2>2
<1>5. CASE ~(on /\ o[c] = 0)
  <2>1. StudioMode(o, on) = [o EXCEPT ![<<"studio">>] = Bit(on)]
    BY <1>5 DEF StudioMode
  <2>2. n = [o EXCEPT ![<<"studio">>] = Bit(on)]
    BY <1>5, ExceptIsSet
  <2> HIDE DEF n
  <2> QED
    BY <1>2, <2>1, <2>2
<1> QED
  BY <1>4, <1>5

LEMMA OutputKeeps ==
    ASSUME NEW o, Typed(o), NEW out, out \in Outputs, NEW sub, NEW args
    PROVE  Typed(RunOutputCommand(o, out, sub, args))
<1>1. \A start_it : Typed(StartOrStop(o, out, start_it))
  <2>1. \A v : Typed([o EXCEPT ![<<out>>] = v])
    BY FreeCellKeeps
  <2> TAKE start_it
  <2>2. StartOrStop(o, out, start_it) \in {[o EXCEPT ![<<out>>] = "starting"], [o EXCEPT ![<<out>>] = "stopping"], o}
    BY DEF StartOrStop
  <2> QED
    BY <2>1, <2>2
<1>2. Typed(Pause(o, args))
  BY PausedKeeps DEF Pause
<1> QED
  BY <1>1, <1>2 DEF RunOutputCommand

LEMMA MediaCellKeeps ==
    ASSUME NEW o, Typed(o), NEW i, NEW v
    PROVE  Typed([o EXCEPT ![<<"media", i, "state">>] = v])
<1> DEFINE c == <<"media", i, "state">>
<1>1. c[1] \notin {"order", "volume"} /\ ~IsBit(c)
  BY DEF IsBit
<1> HIDE DEF c
<1>2. Typed([o EXCEPT ![c] = v])
  <2>1. Typed(Set(o, {c}, v))
    BY <1>1, OneSetKeeps
  <2> QED
    BY <2>1, ExceptIsSet
<1> QED
  BY <1>2 DEF c

\* What a verb makes of the state of media.
LEMMA MediaCommandIs ==
    ASSUME NEW o, NEW i, NEW verb
    PROVE  \E v : MediaCommand(o, i, verb) \in {o, [o EXCEPT ![<<"media", i, "state">>] = v]}
<1> DEFINE with(v) == [o EXCEPT ![<<"media", i, "state">>] = v]
           flip == IF o[<<"media", i, "state">>] = MediaStates.playing
                   THEN MediaStates.paused ELSE MediaStates.playing
           n == MediaCommand(o, i, verb)
<1>1. n \in {o, with(MediaStates.playing), with(MediaStates.paused), with(MediaStates.stopped), with(flip)}
  BY DEF MediaCommand
<1> HIDE DEF n, with, flip
<1>2. \E v : n \in {o, with(v)}
  BY <1>1
<1> QED
  BY <1>2 DEF n, with

LEMMA MediaKeeps ==
    ASSUME NEW o, Typed(o), NEW i, NEW verb
    PROVE  Typed(MediaCommand(o, i, verb))
<1>1. PICK v : MediaCommand(o, i, verb) \in {o, [o EXCEPT ![<<"media", i, "state">>] = v]}
  BY MediaCommandIs
<1>2. Typed([o EXCEPT ![<<"media", i, "state">>] = v])
  BY MediaCellKeeps
<1> QED
  BY <1>1, <1>2

LEMMA SomeTypes ==
    ASSUME NEW c
    PROVE  /\ c[1] \in Selections \cup Outputs => ~IsBit(c)
           /\ c[1] \in {"media", "transform"} => ~IsBit(c)
           /\ c[1] = "volume" => ~IsBit(c)
  BY OutputNames DEF IsBit, Selections

LEMMA SelectKeeps ==
    ASSUME NEW o, Typed(o), NEW selection, selection \in Selections, NEW name, NEW names
    PROVE  Typed(Select(o, selection, name, names))
<1>1. Typed([o EXCEPT ![<<selection>>] = name])
  BY FreeCellKeeps
<1> QED
  BY <1>1 DEF Select

LEMMA ParamKeeps ==
    ASSUME NEW o, Typed(o), NEW source, NEW selector, NEW p, NEW args
    PROVE  Typed(WriteParam(o, source, selector, p, args))
<1> SUFFICES ASSUME p \in Scalars PROVE Typed(WriteParam(o, source, selector, p, args))
  BY DEF WriteParam
<1> DEFINE cs == {<<"filter", x[1], x[2], p>> : x \in ResolveFilters(source, selector)}
           v == ParamValue(p, args)
<1>1. \A c \in cs : c[1] = "filter" /\ Len(c) = 4 /\ c[4] = p
  OBVIOUS
<1>2. Params[p] = "bool" => v \in {0, 1}
  BY BitIs DEF ParamValue
<1>3. WriteParam(o, source, selector, p, args) = Set(o, cs, v)
  BY DEF WriteParam
<1> HIDE DEF cs, v
<1>4. \A c \in cs : c[1] # "order" /\ (IsBit(c) => v \in {0, 1}) /\ (c[1] = "volume" => v \in Squares)
  BY <1>1, <1>2 DEF IsBit
<1>5. Typed(Set(o, cs, v))
  BY <1>4, SetKeeps
<1> QED
  BY <1>3, <1>5

LEMMA TransformKeeps ==
    ASSUME NEW o, Typed(o), NEW scene, NEW item, NEW f, NEW v
    PROVE  Typed(WriteTransform(o, scene, item, f, v))
<1> DEFINE cs == PollTransform(o, scene, item, {f})
<1>1. \A c \in cs : c[1] = "transform"
  BY DEF PollTransform
<1> HIDE DEF cs
<1>2. \A c \in cs : c[1] # "order" /\ (IsBit(c) => v \in {0, 1}) /\ (c[1] = "volume" => v \in Squares)
  BY <1>1, SomeTypes
<1>3. Typed(Set(o, cs, v))
  BY <1>2, SetKeeps
<1> QED
  BY <1>3 DEF WriteTransform, cs

LEMMA FaderKeeps ==
    ASSUME NEW o, Typed(o), NEW i, NEW v, v \in Squares
    PROVE  Typed(Set(o, {<<"volume", j>> : j \in {i} \cap Inputs}, v))
<1> DEFINE cs == {<<"volume", j>> : j \in {i} \cap Inputs}
<1>1. \A c \in cs : c[1] = "volume"
  OBVIOUS
<1> HIDE DEF cs
<1>2. \A c \in cs : c[1] # "order" /\ (IsBit(c) => v \in {0, 1}) /\ (c[1] = "volume" => v \in Squares)
  BY <1>1, SomeTypes
<1>3. Typed(Set(o, cs, v))
  BY <1>2, SetKeeps
<1> QED
  BY <1>3 DEF cs

LEMMA CommandKeeps ==
    ASSUME NEW o, Typed(o), NEW a, NEW args, Sound(args)
    PROVE  Typed(Command(o, a, args))
<1> DEFINE n == Command(o, a, args)
<1>1. CASE a = <<"studio">>
  BY <1>1, StudioRoute, StudioKeeps DEF Studio
<1>2. CASE a \in {<<"transition">>, <<"transition", "go">>}
  <2>1. Typed([o EXCEPT ![<<"program">>] = o[<<"preview">>]])
    BY FreeCellKeeps DEF Selections
  <2> QED
    BY <1>2, <2>1, TransitionRoute DEF TriggerTransition
<1>3. CASE a[1] \in {"transition", "profile", "collection"} /\ Len(a) = 2 /\ a # <<"transition", "go">>
  BY <1>3, SelectRoute, SelectKeeps DEF Selections
<1>4. CASE a[1] = "program"
  <2>1. Typed(Select(o, "program", a[2], SceneNames))
    BY SelectKeeps DEF Selections
  <2>2. Typed(ProgramIndex(o, a[3]))
    BY FreeCellKeeps DEF Selections, ProgramIndex
  <2> QED
    BY <1>4, <2>1, <2>2, ProgramRoute
<1>5. CASE a[1] = "preview"
  <2>1. Typed(Select(o, "preview", a[2], SceneNames))
    BY SelectKeeps DEF Selections
  <2> QED
    BY <1>5, <2>1, PreviewRoute
<1>6. CASE a[1] \in Outputs
  <2> DEFINE sub == IF Len(a) = 2 THEN a[2] ELSE ""
  <2>1. Command(o, a, args) = RunOutputCommand(o, a[1], sub, args)
    BY <1>6, OutputRoute
  <2> HIDE DEF sub
  <2>2. Typed(RunOutputCommand(o, a[1], sub, args))
    BY <1>6, OutputKeeps
  <2> QED
    BY <2>1, <2>2
<1>7. CASE Len(a) = 2 /\ a[1] \in {"mute", "volume", "db"}
  <2>1. Multiplier(ArgFloat(args, -1)) \in Squares /\ Gain(ArgFloat(args, 0)) \in Squares
    BY ArgNumbers, FadersAreSquares
  <2>2. CASE a[1] = "mute"
    <3> DEFINE cs == {<<"mute", i>> : i \in VisitInputs(a[2])}
    <3>1. \A c \in cs : c[1] \notin {"order", "volume"}
      OBVIOUS
    <3>2. n = SetOrFlip(o, cs, args)
      BY <1>7, <2>2, MuteRoute
    <3> HIDE DEF cs
    <3> QED
      BY <3>1, <3>2, SetOrFlipKeeps
  <2>3. CASE a[1] = "volume"
    <3> DEFINE v == Multiplier(ArgFloat(args, -1))
    <3>1. n = Set(o, {<<"volume", i>> : i \in {a[2]} \cap Inputs}, v)
      BY <1>7, <2>3, VolumeRoute
    <3>2. v \in Squares
      BY <2>1
    <3> HIDE DEF v
    <3>3. Typed(Set(o, {<<"volume", i>> : i \in {a[2]} \cap Inputs}, v))
      BY <3>2, FaderKeeps
    <3> QED
      BY <3>1, <3>3, Zenon
  <2>4. CASE a[1] = "db"
    <3> DEFINE v == Gain(ArgFloat(args, 0))
    <3>1. n = Set(o, {<<"volume", i>> : i \in {a[2]} \cap Inputs}, v)
      BY <1>7, <2>4, DbRoute
    <3>2. v \in Squares
      BY <2>1
    <3> HIDE DEF v
    <3>3. Typed(Set(o, {<<"volume", i>> : i \in {a[2]} \cap Inputs}, v))
      BY <3>2, FaderKeeps
    <3> QED
      BY <3>1, <3>3, Zenon
  <2> QED
    BY <1>7, <2>2, <2>3, <2>4
<1>8. CASE Len(a) = 3 /\ a[1] = "media"
  <2>1. Command(o, a, args) = MediaCommand(o, a[2], a[3])
    BY <1>8, MediaRoute
  <2>2. Typed(MediaCommand(o, a[2], a[3]))
    BY MediaKeeps
  <2> QED
    BY <2>1, <2>2
<1>9. CASE Len(a) = 3 /\ a[1] \in {"visible", "locked"}
  <2> DEFINE r == a[1]
             cs == {<<r, x[1], x[2]>> : x \in VisitItems(o, a[2], a[3])}
  <2> HIDE DEF r
  <2>1. \A c \in cs : c[1] = r
    OBVIOUS
  <2>2. n = SetOrFlip(o, cs, args)
    BY <1>9, FlagRoute DEF r
  <2> HIDE DEF cs
  <2>3. \A c \in cs : c[1] \notin {"order", "volume"}
    BY <1>9, <2>1 DEF r
  <2> QED
    BY <2>2, <2>3, SetOrFlipKeeps
<1>10. CASE Len(a) = 3 /\ a[1] = "order"
  <2> DEFINE p == ArgInt(args, -1)
  <2>1. p \in Int
    BY ArgNumbers
  <2>2. Command(o, a, args) = MoveItems(o, a[2], a[3], p)
    BY <1>10, OrderRoute
  <2> HIDE DEF p
  <2>3. Typed(MoveItems(o, a[2], a[3], p))
    BY <2>1, MoveItemsKeeps
  <2> QED
    BY <2>2, <2>3
<1>11. CASE Len(a) = 3 /\ a[1] = "filter"
  <2> DEFINE cs == {<<"filter", x[1], x[2]>> : x \in VisitFilters(a[2], a[3])}
  <2>1. \A c \in cs : c[1] = "filter"
    OBVIOUS
  <2>2. n = SetOrFlip(o, cs, args)
    BY <1>11, EnabledRoute
  <2> HIDE DEF cs
  <2>3. \A c \in cs : c[1] \notin {"order", "volume"}
    BY <2>1
  <2> QED
    BY <2>2, <2>3, SetOrFlipKeeps
<1>12. CASE Len(a) = 4 /\ a[1] = "filter" /\ a[4] \in DOMAIN Params
  BY <1>12, ParamRoute, ParamKeeps
<1>13. CASE Len(a) = 4 /\ a[1] = "transform"
  BY <1>13, TransformRoute, TransformKeeps
<1>14. CASE /\ a \notin {<<"studio">>, <<"transition">>, <<"transition", "go">>}
            /\ a[1] \notin Outputs \cup {"program", "preview"}
            /\ Len(a) = 2 => a[1] \notin {"transition", "profile", "collection", "mute", "volume", "db"}
            /\ Len(a) = 3 => a[1] \notin {"media", "visible", "locked", "order", "filter"}
            /\ Len(a) = 4 => a[1] # "transform" /\ (a[1] = "filter" => a[4] \notin DOMAIN Params)
  BY <1>14, NoRoute
<1> QED
  BY <1>1, <1>2, <1>3, <1>4, <1>5, <1>6, <1>7, <1>8, <1>9, <1>10, <1>11, <1>12, <1>13, <1>14

-----------------------------------------------------------------------------
\* The values keep their types: the state of every behaviour is Typed.

LEMMA FirstOrder ==
    ASSUME NEW o, NEW s, s \in SceneNames,
           \A i \in Range(Items[s]) :
               o[<<"order", s, i>>] = (CHOOSE n \in DOMAIN Items[s] : Items[s][n] = i) - 1
    PROVE  OrderIn(o, s)
<1> DEFINE R == Range(Items[s])
           place(i) == CHOOSE n \in DOMAIN Items[s] : Items[s][n] = i
           at == [i \in R |-> o[<<"order", s, i>>]]
           top == Len(Items[s]) - 1
<1>1. DOMAIN Items[s] = 1..Len(Items[s]) /\ Len(Items[s]) \in Nat /\ IsInjective(Items[s])
  BY SceneItems
<1>2. \A i \in R : place(i) \in DOMAIN Items[s] /\ Items[s][place(i)] = i
  BY DEF Range
<1>3. \A i \in R : at[i] = place(i) - 1
  OBVIOUS
<1>4. \A n \in DOMAIN Items[s] : Items[s][n] \in R /\ place(Items[s][n]) = n
  <2> TAKE n \in DOMAIN Items[s]
  <2>1. Items[s][n] \in R
    BY DEF Range
  <2>2. place(Items[s][n]) \in DOMAIN Items[s] /\ Items[s][place(Items[s][n])] = Items[s][n]
    BY <1>2, <2>1
  <2> QED
    BY <1>1, <2>1, <2>2 DEF IsInjective
<1> HIDE DEF at, place, R, top
<1>5. \A i \in R : at[i] \in 0..top
  BY <1>1, <1>2, <1>3 DEF top
<1>6. \A i, j \in R : at[i] = at[j] => i = j
  <2> SUFFICES ASSUME NEW i \in R, NEW j \in R, at[i] = at[j] PROVE i = j
    OBVIOUS
  <2>1. place(i) \in Int /\ place(j) \in Int
    BY <1>1, <1>2
  <2>2. place(i) = place(j)
    BY <1>3, <2>1
  <2> QED
    BY <1>2, <2>2
<1>7. \A k \in 0..top : \E i \in R : at[i] = k
  <2> TAKE k \in 0..top
  <2>1. k + 1 \in DOMAIN Items[s]
    BY <1>1 DEF top
  <2>2. Items[s][k + 1] \in R /\ place(Items[s][k + 1]) = k + 1
    BY <1>4, <2>1
  <2>3. at[Items[s][k + 1]] = k
    BY <1>3, <2>2
  <2> QED
    BY <2>2, <2>3
<1>8. Numbers(at, R, top)
  BY <1>5, <1>6, <1>7 DEF Numbers
<1> QED
  BY <1>8 DEF OrderIn, at, R, top

LEMMA TypedFirst ==
    ASSUME Init
    PROVE  Typed(cells)
<1>1. IsState(cells)
  <2> DEFINE first(c) ==
          CASE c[1] \in {"program", "preview"} -> Scenes[1]
            [] c[1] \in {"transition", "profile", "collection"} -> CHOOSE n \in Names[c[1]] : TRUE
            [] c[1] \in Outputs /\ Len(c) = 1 -> "off"
            [] c[1] = "volume" -> Multiplier(Full)
            [] c[1] = "order" -> (CHOOSE n \in DOMAIN Items[c[2]] : Items[c[2]][n] = c[3]) - 1
            [] c[1] = "filter" /\ Len(c) = 4 -> IF Params[c[4]] = "text" THEN "" ELSE 0
            [] c[1] = "visible" -> 1
            [] OTHER -> 0
  <2>1. cells = [c \in Cells |-> first(c)]
    BY Zenon DEF Init
  <2> HIDE DEF first
  <2> QED
    BY <2>1 DEF IsState
<1>2. ASSUME NEW c \in Cells, IsBit(c)
      PROVE  cells[c] \in {0, 1}
  <2>1. c[1] \notin Outputs /\ c[1] \in {"studio", "mute", "visible", "locked", "filter"}
    BY <1>2, OutputNames DEF IsBit
  <2>2. CASE c[1] = "filter" /\ Len(c) = 4
    <3>1. Params[c[4]] = "bool"
      BY <1>2, <2>2 DEF IsBit
    <3> QED
      BY <2>1, <2>2, <3>1 DEF Init
  <2>3. CASE ~(c[1] = "filter" /\ Len(c) = 4)
    BY <2>1, <2>3 DEF Init
  <2> QED
    BY <2>2, <2>3
<1>3. ASSUME NEW i \in Inputs
      PROVE  cells[<<"volume", i>>] \in Squares
  <2> DEFINE c == <<"volume", i>>
  <2>1. c \in Cells /\ c[1] = "volume"
    BY DEF Cells
  <2> HIDE DEF c
  <2>2. cells[c] = Multiplier(Full)
    BY <2>1, OutputNames DEF Init
  <2>3. Full \in Int
    BY CommandsAssumption
  <2>4. Multiplier(Full) \in Squares
    BY <2>3, FadersAreSquares
  <2> QED
    BY <2>2, <2>4 DEF c
<1>4. ASSUME NEW s \in SceneNames
      PROVE  OrderIn(cells, s)
  <2>1. ASSUME NEW i \in Range(Items[s])
        PROVE  cells[<<"order", s, i>>] = (CHOOSE n \in DOMAIN Items[s] : Items[s][n] = i) - 1
    <3> DEFINE c == <<"order", s, i>>
    <3>1. c \in Cells /\ c[1] = "order" /\ c[2] = s /\ c[3] = i
      BY SceneItems
    <3> HIDE DEF c
    <3>2. cells[c] = (CHOOSE n \in DOMAIN Items[c[2]] : Items[c[2]][n] = c[3]) - 1
      BY <3>1, OutputNames DEF Init
    <3> QED
      BY <3>1, <3>2 DEF c
  <2> QED
    BY <2>1, FirstOrder
<1> QED
  BY <1>1, <1>2, <1>3, <1>4 DEF Typed

LEMMA DispatchKeeps ==
    ASSUME NEW o, Typed(o), NEW a, NEW args, Sound(args)
    PROVE  Typed(Dispatch(o, a, args))
  BY CommandKeeps DEF Dispatch

(***************************************************************************)
(* Whatever the clients send, mutes and visibilities stay bits, a volume   *)
(* stays the square of a fader's position, and the items of each scene     *)
(* stay in an order, one item at each position: what a command writes is   *)
(* what OBS can be in.                                                     *)
(***************************************************************************)
THEOREM TypedAlways == Spec => []TypeOK
<1>1. ASSUME Typed(cells), [Next]_vars
      PROVE  Typed(cells)'
  <2>1. CASE UNCHANGED vars
    BY <1>1, <2>1 DEF vars
  <2>2. ASSUME NEW a \in Addresses, NEW args \in Arguments, Receive(a, args)
        PROVE  Typed(cells)'
    <3>1. cells' = Dispatch(cells, a, args)
      BY <2>2 DEF Receive, Becomes
    <3> QED
      BY <1>1, <3>1, ArgumentsSound, DispatchKeeps
  <2>3. ASSUME NEW out \in Outputs, NEW state \in OutputStates, OutputEvent(out, state)
        PROVE  Typed(cells)'
    <3> DEFINE n == [cells EXCEPT ![<<out>>] = state]
    <3>1. Typed(n)
      BY <1>1, FreeCellKeeps
    <3>2. \A v : Typed([n EXCEPT ![<<"record", "paused">>] = v])
      <4> HIDE DEF n
      <4> QED
        BY <3>1, PausedKeeps
    <3>3. \E v : cells' = [n EXCEPT ![<<"record", "paused">>] = v]
      BY <2>3 DEF OutputEvent, Becomes
    <3> QED
      BY <3>2, <3>3
  <2>4. ASSUME NEW i \in Inputs, MediaEnds(i)
        PROVE  Typed(cells)'
    <3>1. cells' = [cells EXCEPT ![<<"media", i, "state">>] = MediaStates.ended]
      BY <2>4 DEF MediaEnds, Becomes
    <3> QED
      BY <1>1, <3>1, MediaCellKeeps
  <2>5. ASSUME NEW key \in open, WindowEnds(key)
        PROVE  Typed(cells)'
    BY <1>1, <2>5 DEF WindowEnds
  <2> QED
    BY <1>1, <2>1, <2>2, <2>3, <2>4, <2>5 DEF Next
<1> QED
  BY <1>1, TypedFirst, PTL DEF Spec, TypeOK

-----------------------------------------------------------------------------
\* Squares and their roots.

LEMMA TimesKeepsOrder ==
    ASSUME NEW a \in Int, NEW b \in Int, NEW c \in Nat, a <= b
    PROVE  a * c <= b * c
<1>1. (b - a) * c >= 0
  OBVIOUS
<1>2. (b - a) * c = b * c - a * c
  OBVIOUS
<1> QED
  BY <1>1, <1>2

LEMMA SquaresKeepOrder ==
    ASSUME NEW p \in Nat, NEW q \in Nat
    PROVE  p < q => p * p < q * q
<1> SUFFICES ASSUME p < q PROVE p * p < q * q
  OBVIOUS
<1>1. (p + 1) * p <= q * p /\ p * q <= q * q
  BY TimesKeepsOrder
<1>2. p * q = q * p /\ p * q \in Int /\ p * p \in Int /\ q * q \in Int
  OBVIOUS
<1>3. (p + 1) * q <= q * q
  BY TimesKeepsOrder
<1>4. (p + 1) * q = p * q + q
  OBVIOUS
<1>5. p * p <= q * p
  BY TimesKeepsOrder
<1> QED
  BY <1>2, <1>3, <1>4, <1>5

LEMMA PositionOfSquare ==
    ASSUME NEW q, q \in Nat
    PROVE  Position(q * q) = q
<1> DEFINE m == q * q
<1>1. m \in Nat /\ q \in 0..m
  <2>1. q = 0 \/ q >= 1
    OBVIOUS
  <2>2. q >= 1 => 1 * q <= q * q
    BY TimesKeepsOrder
  <2> QED
    BY <2>1, <2>2
<1>2. q * q <= m /\ m < (q + 1) * (q + 1)
  <2>1. m < (q + 1) * (q + 1)
    BY SquaresKeepOrder
  <2> QED
    BY <2>1, <1>1
<1>3. ASSUME NEW p \in 0..m, p * p <= m, m < (p + 1) * (p + 1)
      PROVE  p = q
  <2>1. p \in Nat /\ p + 1 \in Nat
    BY <1>1
  <2>2. ~(q < p)
    <3>1. q < p => q * q < p * p
      BY <2>1, SquaresKeepOrder
    <3>2. p * p \in Int /\ m \in Int
      BY <1>1, <2>1
    <3> QED
      BY <1>3, <3>1, <3>2
  <2>3. ~(p + 1 < q)
    <3>1. p + 1 < q => (p + 1) * (p + 1) < q * q
      BY <2>1, SquaresKeepOrder
    <3>2. (p + 1) * (p + 1) \in Int /\ m \in Int
      BY <1>1, <2>1
    <3> QED
      BY <1>3, <3>1, <3>2
  <2>4. p + 1 # q
    <3>1. (p + 1) * (p + 1) \in Int /\ m \in Int
      BY <1>1, <2>1
    <3> QED
      BY <1>3, <3>1
  <2> QED
    BY <2>1, <2>2, <2>3, <2>4
<1> HIDE DEF m
<1>4. Position(m) = q
  BY <1>1, <1>2, <1>3 DEF Position
<1> QED
  BY <1>4 DEF m

\* A fader that is set to where it is.
LEMMA FaderStays ==
    ASSUME NEW m, m \in Squares, Position(m) <= Full
    PROVE  /\ Multiplier(Position(m)) = m
           /\ Position(m) \in Nat
<1>1. PICK q \in 0..2 * Full : m = q * q
  BY DEF Squares
<1>2. Full \in Nat
  BY CommandsAssumption
<1>3. q \in Nat
  BY <1>1, <1>2
<1>4. Position(m) = q
  BY <1>1, <1>3, PositionOfSquare
<1> QED
  BY <1>1, <1>2, <1>3, <1>4 DEF Multiplier

-----------------------------------------------------------------------------
\* What a controller that echoes sends.

LEMMA SetToItself ==
    ASSUME NEW o, IsState(o), NEW c, NEW v, v = o[c]
    PROVE  Set(o, {c}, v) = o
<1>1. \A d \in Cells : (IF d \in {c} THEN v ELSE o[d]) = o[d]
  OBVIOUS
<1>2. [d \in Cells |-> IF d \in {c} THEN v ELSE o[d]] = [d \in Cells |-> o[d]]
  BY <1>1
<1> QED
  BY <1>2 DEF Set, IsState

LEMMA ArgOfNumber ==
    ASSUME NEW v, NEW def
    PROVE  /\ v # -1 => ~ArgIsToggle(<<<<"i", v>>>>)
           /\ ArgBool(<<<<"i", v>>>>, def) = (v # 0)
           /\ ArgInt(<<<<"i", v>>>>, def) = v
           /\ ArgFloat(<<<<"i", v>>>>, def) = v
           /\ <<<<"i", v>>>> # <<>>
  BY DEF ArgIsToggle, ArgBool, ArgInt, ArgFloat

LEMMA DispatchWithArgument ==
    ASSUME NEW o, NEW a, NEW args, args # <<>>
    PROVE  Dispatch(o, a, args) = Command(o, a, args)
  BY DEF Dispatch

LEMMA SetOrFlipToItself ==
    ASSUME NEW o, IsState(o), NEW c, NEW v, v = o[c], v \in {0, 1}
    PROVE  SetOrFlip(o, {c}, <<<<"i", v>>>>) = o
<1> DEFINE args == <<<<"i", v>>>>
<1>1. ~ArgIsToggle(args) /\ ArgBool(args, FALSE) = (v # 0)
  BY DEF ArgIsToggle, ArgBool
<1> HIDE DEF args
<1>2. Bit(ArgBool(args, FALSE)) = v
  BY <1>1 DEF Bit
<1>3. SetOrFlip(o, {c}, args) = Set(o, {c}, v)
  BY <1>1, <1>2 DEF SetOrFlip
<1>4. Set(o, {c}, v) = o
  BY SetToItself
<1> QED
  BY <1>3, <1>4 DEF args

LEMMA EchoStudio ==
    ASSUME NEW o, Typed(o), NEW v, v = o[<<"studio">>]
    PROVE  Command(o, <<"studio">>, <<<<"i", v>>>>) = o
<1> DEFINE c == <<"studio">>
           args == <<<<"i", v>>>>
<1>1. v \in {0, 1}
  <2>1. c \in Cells /\ IsBit(c)
    BY BareCells DEF IsBit
  <2> QED
    BY <2>1 DEF Typed
<1>2. ~ArgIsToggle(args) /\ ArgBool(args, FALSE) = (v # 0)
  BY <1>1 DEF ArgIsToggle, ArgBool
<1>3. Command(o, c, args) = Studio(o, args)
  BY StudioRoute
<1> HIDE DEF args
<1> DEFINE on == ArgBool(args, FALSE)
<1>4. Studio(o, args) = StudioMode(o, on)
  BY <1>2 DEF Studio
<1>5. ~(on /\ o[c] = 0) /\ Bit(on) = v
  BY <1>1, <1>2 DEF Bit
<1>6. StudioMode(o, on) = [o EXCEPT ![c] = v]
  <2> HIDE DEF on
  <2> QED
    BY <1>5 DEF StudioMode
<1>7. [o EXCEPT ![c] = v] = o
  <2> HIDE DEF c
  <2>1. IsState(o) /\ v = o[c]
    BY DEF c, Typed
  <2>2. Set(o, {c}, v) = o
    BY <2>1, SetToItself
  <2> QED
    BY <2>2, ExceptIsSet
<1> QED
  BY <1>3, <1>4, <1>6, <1>7 DEF args

LEMMA EchoOutput ==
    ASSUME NEW o, NEW out, out \in Outputs
    PROVE  Command(o, <<out>>, <<<<"i", Value(o, <<out>>)>>>>) = o
<1> DEFINE v == Value(o, <<out>>)
           args == <<<<"i", v>>>>
           a == <<out>>
<1>1. v = Bit(Active(o, out))
  <2> DEFINE c == <<out>>
  <2>1. c[1] \in Outputs /\ Len(c) = 1 /\ c[1] = out
    OBVIOUS
  <2> HIDE DEF c
  <2>2. Value(o, c) = Bit(Active(o, out))
    BY <2>1, OutputNames DEF Value
  <2> QED
    BY <2>2 DEF c
<1>2. \A def : ArgBool(args, def) = (v # 0)
  BY ArgOfNumber
<1>3. a[1] = out /\ Len(a) = 1
  OBVIOUS
<1> HIDE DEF args, v, a
<1>4. Command(o, a, args) = RunOutputCommand(o, a[1], IF Len(a) = 2 THEN a[2] ELSE "", args)
  BY <1>3, OutputRoute
<1>5. Command(o, a, args) = RunOutputCommand(o, out, "", args)
  <2>1. Len(a) # 2
    BY <1>3
  <2> QED
    BY <1>3, <1>4, <2>1, Zenon
<1> DEFINE start == ArgBool(args, ~Active(o, out))
<1>6. RunOutputCommand(o, out, "", args) = StartOrStop(o, out, start)
  BY Zenon DEF RunOutputCommand
<1>7. start <=> Active(o, out)
  <2>1. (v # 0) <=> Active(o, out)
    BY <1>1 DEF Bit
  <2> QED
    BY <1>2, <2>1, Zenon
<1> HIDE DEF start
<1>8. StartOrStop(o, out, start) = o
  BY <1>7 DEF StartOrStop
<1> QED
  BY <1>5, <1>6, <1>8 DEF args, v, a

LEMMA EchoBare ==
    ASSUME NEW o, Typed(o), NEW c, c \in Bare, c \notin {<<"transition">>, <<"record", "paused">>}
    PROVE  Dispatch(o, c, Carrying(c, Value(o, c))) = o
<1>1. c = <<c[1]>> /\ Len(c) = 1 /\ c[1] # "transition"
  BY BareNames
<1>2. Carrying(c, Value(o, c)) # <<>>
  BY DEF Carrying
<1>3. Dispatch(o, c, Carrying(c, Value(o, c))) = Command(o, c, Carrying(c, Value(o, c)))
  BY <1>2, DispatchWithArgument
<1>4. CASE c[1] = "studio"
  <2>1. Value(o, c) = o[c]
    BY <1>4, OutputNames DEF Value
  <2>2. Carrying(c, Value(o, c)) = <<<<"i", o[c]>>>>
    BY <1>4, <2>1 DEF Carrying, Selections
  <2>3. c = <<"studio">>
    BY <1>1, <1>4
  <2> QED
    BY <1>3, <2>2, <2>3, EchoStudio
<1>5. CASE c[1] \in Outputs
  <2>1. Carrying(c, Value(o, c)) = <<<<"i", Value(o, c)>>>>
    BY <1>5, <1>1, OutputNames DEF Carrying, Selections
  <2> DEFINE out == c[1]
  <2>2. c = <<out>> /\ out \in Outputs
    BY <1>1, <1>5
  <2> HIDE DEF out
  <2> QED
    BY <1>3, <2>1, <2>2, EchoOutput
<1>6. CASE c[1] = "program"
  BY <1>1, <1>3, <1>6, ProgramRoute
<1>7. CASE c[1] = "preview"
  BY <1>1, <1>3, <1>7, PreviewRoute
<1>8. CASE c[1] \in {"profile", "collection"}
  <2>1. c \notin {<<"studio">>, <<"transition">>, <<"transition", "go">>}
    BY <1>8
  <2>2. c[1] \notin Outputs \cup {"program", "preview"}
    BY <1>8, OutputNames
  <2> DEFINE args == Carrying(c, Value(o, c))
  <2> HIDE DEF args
  <2>3. Command(o, c, args) = o
    BY <1>1, <2>1, <2>2, NoRoute
  <2> QED
    BY <1>3, <2>3 DEF args
<1>9. c[1] \in {"studio", "program", "preview", "profile", "collection"} \cup Outputs
  BY <1>1 DEF Bare, Selections
<1> QED
  BY <1>4, <1>5, <1>6, <1>7, <1>8, <1>9

LEMMA EchoMute ==
    ASSUME NEW o, Typed(o), NEW i \in Inputs
    PROVE  Command(o, <<"mute", i>>, <<<<"i", o[<<"mute", i>>]>>>>) = o
<1> DEFINE c == <<"mute", i>>
           v == o[c]
           args == <<<<"i", v>>>>
<1>1. c \in Cells /\ IsBit(c)
  BY DEF Cells, IsBit
<1>2. v \in {0, 1} /\ IsState(o)
  <2> HIDE DEF c
  <2> QED
    BY <1>1 DEF Typed
<1>3. {<<"mute", j>> : j \in VisitInputs(i)} = {c}
  BY VisitOneInput
<1>4. c[1] = "mute" /\ Len(c) = 2 /\ c[2] = i
  OBVIOUS
<1>5. SetOrFlip(o, {c}, args) = o
  <2> HIDE DEF c
  <2> QED
    BY <1>2, SetOrFlipToItself
<1> HIDE DEF args
<1>6. Command(o, c, args) = SetOrFlip(o, {<<"mute", j>> : j \in VisitInputs(c[2])}, args)
  <2> HIDE DEF c
  <2> QED
    BY <1>4, MuteRoute
<1> QED
  BY <1>3, <1>4, <1>5, <1>6 DEF args

LEMMA EchoVolume ==
    ASSUME NEW o, Typed(o), NEW i \in Inputs, Position(o[<<"volume", i>>]) <= Full
    PROVE  Command(o, <<"volume", i>>, <<<<"i", Position(o[<<"volume", i>>])>>>>) = o
<1> DEFINE c == <<"volume", i>>
           v == Position(o[c])
           args == <<<<"i", v>>>>
<1>1. Multiplier(v) = o[c]
  <2>1. o[c] \in Squares
    BY DEF Typed
  <2> HIDE DEF c
  <2> QED
    BY <2>1, FaderStays DEF c
<1>2. ArgFloat(args, -1) = v
  BY DEF ArgFloat
<1>3. {<<"volume", j>> : j \in {i} \cap Inputs} = {c}
  OBVIOUS
<1>4. c[1] = "volume" /\ Len(c) = 2 /\ c[2] = i
  OBVIOUS
<1>5. Set(o, {c}, Multiplier(v)) = o
  <2> HIDE DEF c, v
  <2> QED
    BY <1>1, SetToItself DEF Typed
<1> HIDE DEF args, v
<1>6. Command(o, c, args) =
          Set(o, {<<"volume", j>> : j \in {c[2]} \cap Inputs}, Multiplier(ArgFloat(args, -1)))
  <2> HIDE DEF c
  <2> QED
    BY <1>4, VolumeRoute
<1> QED
  BY <1>2, <1>3, <1>4, <1>5, <1>6 DEF args, v

LEMMA EchoMedia ==
    ASSUME NEW o, NEW i, NEW args
    PROVE  Command(o, <<"media", i, "state">>, args) = o
<1> DEFINE a == <<"media", i, "state">>
<1>1. a[1] = "media" /\ Len(a) = 3 /\ a[3] = "state" /\ a[2] = i
  OBVIOUS
<1> HIDE DEF a
<1>2. Command(o, a, args) = MediaCommand(o, i, "state")
  BY <1>1, MediaRoute
<1>3. MediaCommand(o, i, "state") = o
  BY DEF MediaCommand
<1> QED
  BY <1>2, <1>3 DEF a

LEMMA EchoFlag ==
    ASSUME NEW o, Typed(o), NEW r, r = "visible" \/ r = "locked", NEW x \in ItemNames
    PROVE  Command(o, <<r, x[1], x[2]>>, <<<<"i", o[<<r, x[1], x[2]>>]>>>>) = o
<1> DEFINE c == <<r, x[1], x[2]>>
           v == o[c]
           args == <<<<"i", v>>>>
<1>1. c \in Cells /\ IsBit(c)
  BY DEF Cells, IsBit
<1>2. v \in {0, 1} /\ IsState(o)
  <2> HIDE DEF c
  <2> QED
    BY <1>1 DEF Typed
<1>3. {<<r, y[1], y[2]>> : y \in VisitItems(o, x[1], x[2])} = {c}
  BY VisitOneItem, SMTT(30)
<1>4. c[1] = r /\ Len(c) = 3 /\ c[2] = x[1] /\ c[3] = x[2]
  OBVIOUS
<1>5. SetOrFlip(o, {c}, args) = o
  <2> HIDE DEF c
  <2> QED
    BY <1>2, SetOrFlipToItself
<1> HIDE DEF args
<1>6. Command(o, c, args) = SetOrFlip(o, {<<r, y[1], y[2]>> : y \in VisitItems(o, c[2], c[3])}, args)
  <2> HIDE DEF c
  <2> QED
    BY <1>4, FlagRoute
<1> QED
  BY <1>3, <1>4, <1>5, <1>6 DEF args

LEMMA EchoEnabled ==
    ASSUME NEW o, Typed(o), NEW x \in FilterNames
    PROVE  Command(o, <<"filter", x[1], x[2]>>, <<<<"i", o[<<"filter", x[1], x[2]>>]>>>>) = o
<1> DEFINE c == <<"filter", x[1], x[2]>>
           v == o[c]
           args == <<<<"i", v>>>>
<1>1. c \in Cells /\ IsBit(c)
  BY DEF Cells, IsBit
<1>2. v \in {0, 1} /\ IsState(o)
  <2> HIDE DEF c
  <2> QED
    BY <1>1 DEF Typed
<1>3. {<<"filter", y[1], y[2]>> : y \in VisitFilters(x[1], x[2])} = {c}
  BY VisitOneFilter
<1>4. c[1] = "filter" /\ Len(c) = 3 /\ c[2] = x[1] /\ c[3] = x[2]
  OBVIOUS
<1>5. SetOrFlip(o, {c}, args) = o
  <2> HIDE DEF c
  <2> QED
    BY <1>2, SetOrFlipToItself
<1> HIDE DEF args
<1>6. Command(o, c, args) = SetOrFlip(o, {<<"filter", y[1], y[2]>> : y \in VisitFilters(c[2], c[3])}, args)
  <2> HIDE DEF c
  <2> QED
    BY <1>4, EnabledRoute
<1> QED
  BY <1>3, <1>4, <1>5, <1>6 DEF args

LEMMA EchoTransform ==
    ASSUME NEW o, Typed(o), NEW x \in ItemNames, NEW f \in Fields
    PROVE  Command(o, <<"transform", x[1], x[2], f>>, <<<<"i", o[<<"transform", x[1], x[2], f>>]>>>>) = o
<1> DEFINE c == <<"transform", x[1], x[2], f>>
           v == o[c]
           args == <<<<"i", v>>>>
<1>1. ArgFloat(args, 0) = v
  BY DEF ArgFloat
<1>2. PollTransform(o, x[1], x[2], {f}) = {c}
  <2>1. PollTransform(o, x[1], x[2], {f}) =
            {<<"transform", y[1], y[2], g>> : y \in {x}, g \in {f}}
    BY VisitOneItem DEF PollTransform
  <2> QED
    BY <2>1
<1>3. c[1] = "transform" /\ Len(c) = 4 /\ c[2] = x[1] /\ c[3] = x[2] /\ c[4] = f
  OBVIOUS
<1>4. Set(o, {c}, v) = o
  <2> HIDE DEF c
  <2> QED
    BY SetToItself DEF Typed
<1> HIDE DEF args, v
<1>5. Command(o, c, args) = WriteTransform(o, c[2], c[3], c[4], ArgFloat(args, 0))
  <2> HIDE DEF c
  <2> QED
    BY <1>3, TransformRoute
<1>6. WriteTransform(o, x[1], x[2], f, v) = Set(o, {c}, v)
  BY <1>2 DEF WriteTransform
<1> QED
  BY <1>1, <1>3, <1>4, <1>5, <1>6 DEF args, v

LEMMA SameState ==
    ASSUME NEW o, IsState(o), NEW n, IsState(n), \A c \in Cells : n[c] = o[c]
    PROVE  n = o
<1>1. [c \in Cells |-> n[c]] = [c \in Cells |-> o[c]]
  OBVIOUS
<1> QED
  BY <1>1 DEF IsState

LEMMA OrderCell ==
    ASSUME NEW c, c \in Cells, c[1] = "order"
    PROVE  /\ c[2] \in SceneNames /\ c[3] \in Range(Items[c[2]])
           /\ c = <<"order", c[2], c[3]>>
<1>1. PICK x \in ItemNames : c = <<"order", x[1], x[2]>>
  <2>1. c \notin Bare
    BY BareNames
  <2>2. c \in Cells \cup Tallies
    OBVIOUS
  <2>3. \E r \in {"visible", "locked", "order"}, x \in ItemNames : c = <<r, x[1], x[2]>>
    BY <2>1, <2>2, CellKinds
  <2> QED
    BY <2>3
<1>2. c[2] = x[1] /\ c[3] = x[2]
  BY <1>1
<1> QED
  BY <1>1, <1>2, ItemNamed

LEMMA MovedState ==
    ASSUME NEW o, IsState(o), NEW s, NEW i, NEW p
    PROVE  IsState(Moved(o, s, i, p))
<1>1. Moved(o, s, i, p) = [c \in DOMAIN o |-> Moved(o, s, i, p)[c]]
  BY DEF Moved
<1> QED
  BY <1>1, MovedDomain DEF IsState

\* The position of an item is one of its scene's.
LEMMA OrderRange ==
    ASSUME NEW o, Typed(o), NEW s, s \in SceneNames, NEW i, i \in Range(Items[s])
    PROVE  o[<<"order", s, i>>] \in 0..Len(Items[s]) - 1
<1>1. OrderIn(o, s)
  BY DEF Typed
<1> DEFINE at == [j \in Range(Items[s]) |-> o[<<"order", s, j>>]]
<1>2. Numbers(at, Range(Items[s]), Len(Items[s]) - 1)
  BY <1>1 DEF OrderIn
<1>3. at[i] = o[<<"order", s, i>>]
  OBVIOUS
<1> HIDE DEF at
<1>4. at[i] \in 0..Len(Items[s]) - 1
  BY <1>2 DEF Numbers
<1> QED
  BY <1>3, <1>4

LEMMA ShiftNowhere ==
    ASSUME NEW from, NEW n, from \in Int, n \in Int
    PROVE  Shift(from, from, n) = n
  BY DEF Shift

LEMMA GoalReached ==
    ASSUME NEW s, NEW p, s \in SceneNames, p \in 0..Len(Items[s]) - 1
    PROVE  Goal(s, p) = p
<1>1. Len(Items[s]) \in Nat
  BY SceneItems
<1>2. Min({p, Len(Items[s]) - 1}) = p
  BY <1>1, MinOfTwo
<1> QED
  BY <1>1, <1>2 DEF Goal

\* An item that is moved to where it is stays, and so do the others.
LEMMA MovedNowhere ==
    ASSUME NEW o, Typed(o), NEW s, s \in SceneNames, NEW i, i \in Range(Items[s]),
           NEW p, Goal(s, p) = o[<<"order", s, i>>]
    PROVE  Moved(o, s, i, p) = o
<1> DEFINE n == Moved(o, s, i, p)
           from == o[<<"order", s, i>>]
<1>1. IsState(o) /\ IsState(n)
  BY MovedState DEF Typed
<1>2. from \in Int
  <2>1. from \in 0..Len(Items[s]) - 1
    BY OrderRange
  <2> QED
    BY <2>1, SceneItems
<1>3. ASSUME NEW c, c \in Cells
      PROVE  n[c] = o[c]
  <2>1. CASE c[1] = "order" /\ c[2] = s
    <3>1. c[3] \in Range(Items[s]) /\ c = <<"order", s, c[3]>>
      BY <1>3, <2>1, OrderCell
    <3>2. o[c] \in Int
      <4>1. o[c] \in 0..Len(Items[s]) - 1
        BY <3>1, OrderRange
      <4> QED
        BY <4>1, SceneItems
    <3>3. n[c] = IF c[3] = i THEN Goal(s, p) ELSE Shift(from, Goal(s, p), o[c])
      BY <1>1, <1>3, <2>1, MovedCell DEF IsState
    <3>4. c[3] = i => o[c] = from
      BY <3>1
    <3> HIDE DEF n, from
    <3>5. Shift(from, from, o[c]) = o[c]
      BY <1>2, <3>2, ShiftNowhere
    <3> QED
      BY <3>3, <3>4, <3>5 DEF from
  <2>2. CASE ~(c[1] = "order" /\ c[2] = s)
    BY <1>1, <1>3, <2>2, MovedCell DEF IsState
  <2> QED
    BY <2>1, <2>2
<1> HIDE DEF n
<1>4. n = o
  BY <1>1, <1>3, SameState
<1> QED
  BY <1>4 DEF n

LEMMA EchoOrder ==
    ASSUME NEW o, Typed(o), NEW x \in ItemNames
    PROVE  Command(o, <<"order", x[1], x[2]>>, <<<<"i", o[<<"order", x[1], x[2]>>]>>>>) = o
<1> DEFINE c == <<"order", x[1], x[2]>>
           p == o[c]
           args == <<<<"i", p>>>>
<1>1. /\ x[1] \in SceneNames /\ x[2] \in Range(Items[x[1]]) /\ x[1] # "*" /\ Exact(x[2])
      /\ <<x[1], x[2]>> \in ItemNames
  BY ItemNamed DEF Exact
<1>2. c[1] = "order" /\ Len(c) = 3 /\ c[2] = x[1] /\ c[3] = x[2]
  OBVIOUS
<1>3. ArgInt(args, -1) = p
  BY DEF ArgInt
<1>4. Goal(x[1], p) = p
  <2>1. p \in 0..Len(Items[x[1]]) - 1
    BY <1>1, OrderRange
  <2> HIDE DEF p
  <2> QED
    BY <1>1, <2>1, GoalReached
<1>5. Moved(o, x[1], x[2], p) = o
  BY <1>1, <1>4, MovedNowhere
<1> HIDE DEF c, args, p
<1>6. Command(o, c, args) = MoveItems(o, x[1], x[2], p)
  BY <1>2, <1>3, OrderRoute
<1>7. MoveItems(o, x[1], x[2], p) = MovedIf(o, x[1], x[2], p)
  BY <1>1, MoveOne
<1> QED
  BY <1>1, <1>5, <1>6, <1>7 DEF MovedIf, c, args, p

LEMMA EchoParam ==
    ASSUME NEW o, Typed(o), NEW x \in FilterNames, NEW p \in Scalars
    PROVE  LET c == <<"filter", x[1], x[2], p>> IN Command(o, c, Carrying(c, o[c])) = o
<1> DEFINE c == <<"filter", x[1], x[2], p>>
           v == o[c]
           args == Carrying(c, v)
<1>1. c[1] = "filter" /\ Len(c) = 4 /\ c[2] = x[1] /\ c[3] = x[2] /\ c[4] = p /\ c \in Cells
  BY DEF Cells
<1>2. p \in DOMAIN Params /\ Params[p] \in {"bool", "int", "text"}
  BY CommandsAssumption DEF Scalars
<1>3. {<<"filter", y[1], y[2], p>> : y \in ResolveFilters(x[1], x[2])} = {c}
  BY VisitOneFilter
<1> HIDE DEF c
<1>4. ParamValue(p, args) = v
  <2>1. CASE Params[p] = "text"
    <3>1. args = <<<<"s", v>>>>
      BY <1>1, <2>1 DEF Carrying
    <3> HIDE DEF args
    <3>2. ArgString(args, "") = v
      BY <3>1 DEF ArgString
    <3> QED
      BY <2>1, <3>2 DEF ParamValue
  <2>2. CASE Params[p] = "int"
    <3>1. args = <<<<"i", v>>>>
      BY <1>1, <2>2 DEF Carrying, Selections
    <3> HIDE DEF args
    <3>2. ArgInt(args, 0) = v
      BY <3>1 DEF ArgInt
    <3> QED
      BY <2>2, <3>2 DEF ParamValue
  <2>3. CASE Params[p] = "bool"
    <3>1. args = <<<<"i", v>>>>
      BY <1>1, <2>3 DEF Carrying, Selections
    <3>2. v \in {0, 1}
      BY <1>1, <2>3 DEF Typed, IsBit
    <3> HIDE DEF args, v
    <3>3. ArgBool(args, FALSE) = (v # 0)
      BY <3>1 DEF ArgBool
    <3>4. Bit(ArgBool(args, FALSE)) = v
      BY <3>2, <3>3 DEF Bit
    <3> QED
      BY <2>3, <3>4 DEF ParamValue
  <2> QED
    BY <1>2, <2>1, <2>2, <2>3
<1>5. Set(o, {c}, v) = o
  BY SetToItself DEF Typed
<1> HIDE DEF args, v
<1>6. Command(o, c, args) = WriteParam(o, x[1], x[2], p, args)
  BY <1>1, <1>2, ParamRoute
<1>7. WriteParam(o, x[1], x[2], p, args) = Set(o, {c}, v)
  BY <1>3, <1>4 DEF WriteParam
<1> QED
  BY <1>5, <1>6, <1>7 DEF c, args, v

LEMMA CarryingNumber ==
    ASSUME NEW c, NEW v, c[1] \notin Selections, ~(c[1] = "filter" /\ Len(c) = 4)
    PROVE  Carrying(c, v) = <<<<"i", v>>>>
  BY DEF Carrying

LEMMA EchoOne ==
    ASSUME NEW o, Typed(o), NEW c, c \in Cells \cup Tallies,
           c \notin {<<"transition">>, <<"record", "paused">>},
           c[1] = "volume" => Value(o, c) <= Full
    PROVE  Dispatch(o, c, Carrying(c, Value(o, c))) = o
<1>0. \A v : Carrying(c, v) # <<>>
  BY DEF Carrying
<1>1. Dispatch(o, c, Carrying(c, Value(o, c))) = Command(o, c, Carrying(c, Value(o, c)))
  BY <1>0, DispatchWithArgument
<1>2. c[1] \in {"mute", "media", "visible", "locked", "order", "transform", "filter"} => Value(o, c) = o[c]
  BY ValueOfPlain
<1>3. CASE c \in Bare
  BY <1>3, EchoBare
<1>4. CASE \E i \in Inputs : c = <<"mute", i>>
  <2>1. PICK i \in Inputs : c = <<"mute", i>>
    BY <1>4
  <2>2. c[1] = "mute"
    BY <2>1
  <2>3. Carrying(c, Value(o, c)) = <<<<"i", o[c]>>>>
    BY <1>2, <2>2, CarryingNumber DEF Selections
  <2> QED
    BY <1>1, <2>1, <2>3, EchoMute
<1>5. CASE \E i \in Inputs : c = <<"volume", i>>
  <2>1. PICK i \in Inputs : c = <<"volume", i>>
    BY <1>5
  <2>2. c[1] = "volume"
    BY <2>1
  <2>3. Value(o, c) = Position(o[c]) /\ Position(o[c]) <= Full
    BY <2>2, ValueOfVolume
  <2>4. Carrying(c, Value(o, c)) = <<<<"i", Position(o[c])>>>>
    BY <2>2, <2>3, CarryingNumber DEF Selections
  <2> QED
    BY <1>1, <2>1, <2>3, <2>4, EchoVolume
<1>6. CASE \E r \in {"active", "showing"}, i \in Inputs : c = <<r, i>>
  <2>1. c[1] \in {"active", "showing"} /\ Len(c) = 2
    BY <1>6
  <2> DEFINE args == Carrying(c, Value(o, c))
  <2>2. c \notin {<<"studio">>, <<"transition">>, <<"transition", "go">>}
    BY <2>1
  <2>3. c[1] \notin Outputs \cup {"program", "preview"}
    BY <2>1, OutputNames
  <2> HIDE DEF args
  <2>4. Command(o, c, args) = o
    BY <2>1, <2>2, <2>3, NoRoute
  <2> QED
    BY <1>1, <2>4 DEF args
<1>7. CASE \E i \in Inputs : c = <<"media", i, "state">>
  BY <1>1, <1>7, EchoMedia
<1>8. CASE \E r \in {"visible", "locked"}, x \in ItemNames : c = <<r, x[1], x[2]>>
  <2>1. PICK r \in {"visible", "locked"}, x \in ItemNames : c = <<r, x[1], x[2]>>
    BY <1>8
  <2>2. c[1] = r /\ (r = "visible" \/ r = "locked")
    BY <2>1
  <2>3. Carrying(c, Value(o, c)) = <<<<"i", o[c]>>>>
    BY <1>2, <2>2, CarryingNumber DEF Selections
  <2> QED
    BY <1>1, <2>1, <2>2, <2>3, EchoFlag
<1>9. CASE \E x \in ItemNames : c = <<"order", x[1], x[2]>>
  <2>1. PICK x \in ItemNames : c = <<"order", x[1], x[2]>>
    BY <1>9
  <2>2. c[1] = "order"
    BY <2>1
  <2>3. Carrying(c, Value(o, c)) = <<<<"i", o[c]>>>>
    BY <1>2, <2>2, CarryingNumber DEF Selections
  <2> QED
    BY <1>1, <2>1, <2>3, EchoOrder
<1>10. CASE \E x \in ItemNames, f \in Fields : c = <<"transform", x[1], x[2], f>>
  <2>1. PICK x \in ItemNames, f \in Fields : c = <<"transform", x[1], x[2], f>>
    BY <1>10
  <2>2. c[1] = "transform"
    BY <2>1
  <2>3. Carrying(c, Value(o, c)) = <<<<"i", o[c]>>>>
    BY <1>2, <2>2, CarryingNumber DEF Selections
  <2> QED
    BY <1>1, <2>1, <2>3, EchoTransform
<1>11. CASE \E x \in FilterNames : c = <<"filter", x[1], x[2]>>
  <2>1. PICK x \in FilterNames : c = <<"filter", x[1], x[2]>>
    BY <1>11
  <2>2. c[1] = "filter" /\ Len(c) = 3
    BY <2>1
  <2>3. Carrying(c, Value(o, c)) = <<<<"i", o[c]>>>>
    BY <1>2, <2>2, CarryingNumber DEF Selections
  <2> QED
    BY <1>1, <2>1, <2>3, EchoEnabled
<1>12. CASE \E x \in FilterNames, p \in Scalars : c = <<"filter", x[1], x[2], p>>
  <2>1. PICK x \in FilterNames, p \in Scalars : c = <<"filter", x[1], x[2], p>>
    BY <1>12
  <2>2. c[1] = "filter"
    BY <2>1
  <2>3. Value(o, c) = o[c]
    BY <1>2, <2>2
  <2> QED
    BY <1>1, <2>1, <2>3, EchoParam
<1> QED
  BY <1>3, <1>4, <1>5, <1>6, <1>7, <1>8, <1>9, <1>10, <1>11, <1>12, CellKinds

(***************************************************************************)
(* A controller that sends back what feedback tells it changes nothing, on *)
(* every address it is told about but the three EchoHarmless names.        *)
(***************************************************************************)
THEOREM EchoHarmlessAlways == Spec => []EchoHarmless
<1>1. ASSUME Typed(cells)
      PROVE  EchoHarmless
  <2> SUFFICES ASSUME NEW c, c \in Cells \cup Tallies,
                      c \notin {<<"transition">>, <<"record", "paused">>},
                      ~(c[1] = "volume" /\ Value(cells, c) > Full)
               PROVE  Dispatch(cells, c, Carrying(c, Value(cells, c))) = cells
    BY DEF EchoHarmless
  <2>1. ASSUME c[1] = "volume"
        PROVE  Value(cells, c) <= Full
    <3>1. PICK i \in Inputs : c = <<"volume", i>>
      BY <2>1, CellKinds, BareNames
    <3>2. cells[c] \in Squares
      BY <1>1, <3>1 DEF Typed
    <3>3. PICK q \in 0..2 * Full : cells[c] = q * q
      BY <3>2 DEF Squares
    <3>4. Full \in Nat
      BY CommandsAssumption
    <3>5. q \in Nat
      BY <3>4
    <3>6. Value(cells, c) = q
      BY <2>1, <3>3, <3>5, PositionOfSquare, ValueOfVolume
    <3> QED
      BY <2>1, <3>4, <3>5, <3>6
  <2> QED
    BY <1>1, <2>1, EchoOne
<1> QED
  BY <1>1, TypedAlways, PTL DEF TypeOK

-----------------------------------------------------------------------------
\* The same message twice.

LEMMA SetTwice ==
    ASSUME NEW o, NEW cs, NEW v
    PROVE  Set(Set(o, cs, v), cs, v) = Set(o, cs, v)
  BY DEF Set

LEMMA ExceptTwice ==
    ASSUME NEW o, NEW c, NEW v
    PROVE  [[o EXCEPT ![c] = v] EXCEPT ![c] = v] = [o EXCEPT ![c] = v]
<1>1. \A n : [n EXCEPT ![c] = v] = Set(n, {c}, v)
  BY ExceptIsSet
<1>2. Set(Set(o, {c}, v), {c}, v) = Set(o, {c}, v)
  BY SetTwice
<1> QED
  BY <1>1, <1>2

\* What leaves the order alone leaves the selection alone.
LEMMA SameVisits ==
    ASSUME NEW o, NEW n, NEW scene, NEW selector,
           \A c \in Cells : c[1] = "order" => n[c] = o[c]
    PROVE  VisitItems(n, scene, selector) = VisitItems(o, scene, selector)
<1>1. \A x \in ItemNames : n[<<"order", x[1], x[2]>>] = o[<<"order", x[1], x[2]>>]
  <2> TAKE x \in ItemNames
  <2> DEFINE c == <<"order", x[1], x[2]>>
  <2>1. c \in Cells /\ c[1] = "order"
    BY DEF Cells
  <2> HIDE DEF c
  <2> QED
    BY <2>1 DEF c
<1> QED
  BY <1>1 DEF VisitItems

LEMMA SetVisitsSame ==
    ASSUME NEW o, IsState(o), NEW cs, NEW v, \A c \in cs : c[1] # "order", NEW scene, NEW selector
    PROVE  VisitItems(Set(o, cs, v), scene, selector) = VisitItems(o, scene, selector)
<1> DEFINE n == Set(o, cs, v)
<1>1. \A c \in Cells : n[c] = IF c \in cs THEN v ELSE o[c]
  BY SetIs
<1> HIDE DEF n
<1>2. \A c \in Cells : c[1] = "order" => n[c] = o[c]
  BY <1>1
<1>3. VisitItems(n, scene, selector) = VisitItems(o, scene, selector)
  BY <1>2, SameVisits
<1> QED
  BY <1>3 DEF n

LEMMA SelectTwice ==
    ASSUME NEW o, NEW selection, NEW name, NEW names
    PROVE  Select(Select(o, selection, name, names), selection, name, names) =
               Select(o, selection, name, names)
  BY ExceptTwice DEF Select

LEMMA StudioTwice ==
    ASSUME NEW o, IsState(o), NEW on
    PROVE  StudioMode(StudioMode(o, on), on) = StudioMode(o, on)
<1> DEFINE n == StudioMode(o, on)
           c == <<"studio">>
<1>1. c \in DOMAIN o /\ c # <<"preview">>
  BY BareCells DEF IsState
<1>2. n[c] = Bit(on) /\ IsState(n)
  <2>1. CASE on /\ o[c] = 0
    BY <1>1, <2>1 DEF StudioMode, Bit, IsState
  <2>2. CASE ~(on /\ o[c] = 0)
    BY <1>1, <2>2 DEF StudioMode, IsState
  <2> QED
    BY <2>1, <2>2
<1> HIDE DEF n
<1>3. StudioMode(n, on) = [n EXCEPT ![c] = Bit(on)]
  BY <1>2 DEF StudioMode, Bit
<1>4. Set(n, {c}, Bit(on)) = n
  <2> HIDE DEF c
  <2> QED
    BY <1>2, SetToItself
<1>5. [n EXCEPT ![c] = Bit(on)] = n
  BY <1>4, ExceptIsSet, ZenonT(40)
<1> QED
  BY <1>3, <1>5 DEF n

LEMMA TransitionTwice ==
    ASSUME NEW o, IsState(o)
    PROVE  TriggerTransition(TriggerTransition(o)) = TriggerTransition(o)
<1> DEFINE n == [o EXCEPT ![<<"program">>] = o[<<"preview">>]]
<1>1. <<"studio">> # <<"program">> /\ <<"preview">> # <<"program">>
  OBVIOUS
<1>2. n[<<"studio">>] = o[<<"studio">>] /\ n[<<"preview">>] = o[<<"preview">>]
  BY <1>1, BareCells DEF IsState, Selections
<1>3. [n EXCEPT ![<<"program">>] = o[<<"preview">>]] = n
  BY ExceptTwice
<1> HIDE DEF n
<1>4. CASE o[<<"studio">>] = 1
  <2>1. TriggerTransition(o) = n
    BY <1>4 DEF TriggerTransition, n
  <2>2. TriggerTransition(n) = [n EXCEPT ![<<"program">>] = o[<<"preview">>]]
    BY <1>2, <1>4 DEF TriggerTransition
  <2> QED
    BY <1>3, <2>1, <2>2
<1>5. CASE o[<<"studio">>] # 1
  BY <1>5 DEF TriggerTransition
<1> QED
  BY <1>4, <1>5

LEMMA StartTwice ==
    ASSUME NEW o, IsState(o), NEW out, out \in Outputs, NEW start
    PROVE  StartOrStop(StartOrStop(o, out, start), out, start) = StartOrStop(o, out, start)
<1>1. <<out>> \in DOMAIN o
  BY BareCells DEF IsState
<1>2. CASE start /\ ~Active(o, out)
  <2> DEFINE n == [o EXCEPT ![<<out>>] = "starting"]
  <2>1. StartOrStop(o, out, start) = n
    BY <1>2 DEF StartOrStop
  <2>2. n[<<out>>] = "starting"
    BY <1>1
  <2>3. [n EXCEPT ![<<out>>] = "starting"] = n
    BY ExceptTwice
  <2> HIDE DEF n
  <2>4. ~Active(n, out)
    BY <2>2 DEF Active
  <2>5. StartOrStop(n, out, start) = n
    BY <1>2, <2>3, <2>4 DEF StartOrStop
  <2> QED
    BY <2>1, <2>5
<1>3. CASE ~start /\ Active(o, out)
  <2> DEFINE n == [o EXCEPT ![<<out>>] = "stopping"]
  <2>1. StartOrStop(o, out, start) = n
    BY <1>3 DEF StartOrStop
  <2>2. n[<<out>>] = "stopping"
    BY <1>1
  <2>3. [n EXCEPT ![<<out>>] = "stopping"] = n
    BY ExceptTwice
  <2> HIDE DEF n
  <2>4. Active(n, out)
    BY <2>2 DEF Active
  <2>5. StartOrStop(n, out, start) = n
    BY <1>3, <2>3, <2>4 DEF StartOrStop
  <2> QED
    BY <2>1, <2>5
<1>4. CASE ~(start /\ ~Active(o, out)) /\ ~(~start /\ Active(o, out))
  BY <1>4 DEF StartOrStop
<1> QED
  BY <1>2, <1>3, <1>4

\* An argument that says on or off, whatever is the case now.
Says(args) == args # <<>> /\ args[1][1] \in {"i", "f", "T", "F"}

LEMMA PauseTwice ==
    ASSUME NEW o, IsState(o), NEW args, Says(args)
    PROVE  Pause(Pause(o, args), args) = Pause(o, args)
<1> DEFINE c == <<"record", "paused">>
           v == Bit(Active(o, "record") /\ args[1][2] # 0)
           n == [o EXCEPT ![c] = v]
<1>1. \A m : Pause(m, args) = [m EXCEPT ![c] = Bit(Active(m, "record") /\ args[1][2] # 0)]
  BY DEF Pause, ArgBool, Says
<1>2. n[<<"record">>] = o[<<"record">>]
  <2>1. c # <<"record">> /\ <<"record">> \in DOMAIN o
    BY BareCells, CommandsAssumption DEF IsState
  <2> QED
    BY <2>1
<1>3. [n EXCEPT ![c] = v] = n
  BY ExceptTwice
<1>4. Pause(o, args) = n
  BY <1>1
<1> HIDE DEF n
<1>5. Active(n, "record") <=> Active(o, "record")
  BY <1>2 DEF Active
<1>6. Pause(n, args) = [n EXCEPT ![c] = v]
  BY <1>1, <1>5 DEF Bit
<1> QED
  BY <1>3, <1>4, <1>6

LEMMA OutputTwice ==
    ASSUME NEW o, IsState(o), NEW out, out \in Outputs, NEW sub, NEW args,
           sub # "toggle",
           Says(args) \/ sub \in {"start", "stop"} \/ (out = "replay" /\ sub = "save")
    PROVE  LET n == RunOutputCommand(o, out, sub, args)
           IN RunOutputCommand(n, out, sub, args) = n
<1>1. CASE out = "replay" /\ sub = "save"
  BY <1>1 DEF RunOutputCommand
<1>2. CASE ~(out = "replay" /\ sub = "save") /\ out = "record" /\ sub = "pause"
  <2>1. Says(args)
    BY <1>2
  <2>2. \A m : RunOutputCommand(m, out, sub, args) = Pause(m, args)
    BY <1>2 DEF RunOutputCommand
  <2> QED
    BY <2>1, <2>2, PauseTwice
<1>3. CASE sub = "start"
  <2> DEFINE start == TRUE
  <2>1. \A m : RunOutputCommand(m, out, sub, args) = StartOrStop(m, out, start)
    BY <1>3 DEF RunOutputCommand
  <2> HIDE DEF start
  <2> QED
    BY <2>1, StartTwice
<1>4. CASE sub = "stop"
  <2> DEFINE start == FALSE
  <2>1. \A m : RunOutputCommand(m, out, sub, args) = StartOrStop(m, out, start)
    BY <1>4 DEF RunOutputCommand
  <2> HIDE DEF start
  <2> QED
    BY <2>1, StartTwice
<1>5. CASE /\ ~(out = "replay" /\ sub = "save") /\ ~(out = "record" /\ sub = "pause")
           /\ sub \notin {"start", "stop"}
  <2> DEFINE start == args[1][2] # 0
  <2>1. \A m : RunOutputCommand(m, out, sub, args) = StartOrStop(m, out, start)
    BY <1>5 DEF RunOutputCommand, ArgBool, Says
  <2> HIDE DEF start
  <2> QED
    BY <2>1, StartTwice
<1> QED
  BY <1>1, <1>2, <1>3, <1>4, <1>5

LEMMA MediaTwice ==
    ASSUME NEW o, NEW i, NEW verb, verb # "toggle"
    PROVE  MediaCommand(MediaCommand(o, i, verb), i, verb) = MediaCommand(o, i, verb)
<1> DEFINE c == <<"media", i, "state">>
<1>2. CASE i \notin Inputs \/ verb \notin {"play", "restart", "pause", "stop"}
  BY <1>2 DEF MediaCommand
<1>3. CASE i \in Inputs /\ verb \in {"play", "restart"}
  <2> DEFINE v == MediaStates.playing
  <2>1. \A m : MediaCommand(m, i, verb) = [m EXCEPT ![c] = v]
    BY <1>3 DEF MediaCommand
  <2> HIDE DEF v, c
  <2> QED
    BY <2>1, ExceptTwice
<1>4. CASE i \in Inputs /\ verb = "pause"
  <2> DEFINE v == MediaStates.paused
  <2>1. \A m : MediaCommand(m, i, verb) = [m EXCEPT ![c] = v]
    BY <1>4 DEF MediaCommand
  <2> HIDE DEF v, c
  <2> QED
    BY <2>1, ExceptTwice
<1>5. CASE i \in Inputs /\ verb = "stop"
  <2> DEFINE v == MediaStates.stopped
  <2>1. \A m : MediaCommand(m, i, verb) = [m EXCEPT ![c] = v]
    BY <1>5 DEF MediaCommand
  <2> HIDE DEF v, c
  <2> QED
    BY <2>1, ExceptTwice
<1> QED
  BY <1>2, <1>3, <1>4, <1>5

LEMMA SetOrFlipTwice ==
    ASSUME NEW o, NEW cs, NEW args, ~ArgIsToggle(args)
    PROVE  SetOrFlip(SetOrFlip(o, cs, args), cs, args) = SetOrFlip(o, cs, args)
  BY SetTwice DEF SetOrFlip

LEMMA SetOrFlipVisitsSame ==
    ASSUME NEW o, IsState(o), NEW cs, NEW args, ~ArgIsToggle(args),
           \A c \in cs : c[1] # "order", NEW scene, NEW selector
    PROVE  VisitItems(SetOrFlip(o, cs, args), scene, selector) = VisitItems(o, scene, selector)
<1> DEFINE v == Bit(ArgBool(args, FALSE))
<1>1. SetOrFlip(o, cs, args) = Set(o, cs, v)
  BY DEF SetOrFlip
<1> HIDE DEF v
<1>2. VisitItems(Set(o, cs, v), scene, selector) = VisitItems(o, scene, selector)
  BY SetVisitsSame
<1> QED
  BY <1>1, <1>2

LEMMA FlagTwice ==
    ASSUME NEW o, Typed(o), NEW r, r = "visible" \/ r = "locked", NEW a, Len(a) = 3, a[1] = r,
           NEW args, ~ArgIsToggle(args)
    PROVE  Command(Command(o, a, args), a, args) = Command(o, a, args)
<1> DEFINE cs == {<<r, x[1], x[2]>> : x \in VisitItems(o, a[2], a[3])}
           n == SetOrFlip(o, cs, args)
<1>1. Command(o, a, args) = n
  BY FlagRoute
<1>2. VisitItems(n, a[2], a[3]) = VisitItems(o, a[2], a[3])
  <2>1. \A c \in cs : c[1] # "order"
    OBVIOUS
  <2> HIDE DEF cs
  <2> QED
    BY <2>1, SetOrFlipVisitsSame DEF Typed
<1> HIDE DEF n
<1>3. Command(n, a, args) = SetOrFlip(n, {<<r, x[1], x[2]>> : x \in VisitItems(n, a[2], a[3])}, args)
  BY FlagRoute
<1>4. Command(n, a, args) = SetOrFlip(n, cs, args)
  BY <1>2, <1>3
<1>5. SetOrFlip(n, cs, args) = n
  <2> HIDE DEF cs
  <2> QED
    BY SetOrFlipTwice DEF n
<1> QED
  BY <1>1, <1>4, <1>5

LEMMA OrderTwice ==
    ASSUME NEW o, Typed(o), NEW scene, scene # "*", NEW selector, Exact(selector), NEW p, p \in Int
    PROVE  LET n == MoveItems(o, scene, selector, p) IN MoveItems(n, scene, selector, p) = n
<1> DEFINE n == MoveItems(o, scene, selector, p)
<1>1. Typed(n)
  BY MoveItemsKeeps
<1>2. n = MovedIf(o, scene, selector, p)
  BY MoveOne
<1> HIDE DEF n
<1>3. MoveItems(n, scene, selector, p) = MovedIf(n, scene, selector, p)
  BY <1>1, MoveOne
<1>4. CASE <<scene, selector>> \in ItemNames
  <2>1. scene \in SceneNames /\ selector \in Range(Items[scene])
    <3> DEFINE x == <<scene, selector>>
    <3>1. x \in ItemNames /\ x[1] = scene /\ x[2] = selector
      BY <1>4
    <3> HIDE DEF x
    <3> QED
      BY <3>1, ItemNamed
  <2>2. n = Moved(o, scene, selector, p)
    BY <1>2, <1>4 DEF MovedIf
  <2>3. n[<<"order", scene, selector>>] = Goal(scene, p)
    <3>1. <<"order", scene, selector>> \in DOMAIN o
      BY <2>1, SceneItems DEF Typed, IsState
    <3> QED
      BY <2>2, <3>1, MovedOrder
  <2>4. Moved(n, scene, selector, p) = n
    BY <1>1, <2>1, <2>3, MovedNowhere
  <2> QED
    BY <1>3, <1>4, <2>4 DEF MovedIf, n
<1>5. CASE <<scene, selector>> \notin ItemNames
  BY <1>3, <1>5 DEF MovedIf, n
<1> QED
  BY <1>4, <1>5

LEMMA ParamTwice ==
    ASSUME NEW o, NEW source, NEW selector, NEW p, NEW args
    PROVE  LET n == WriteParam(o, source, selector, p, args)
           IN WriteParam(n, source, selector, p, args) = n
<1> DEFINE cs == {<<"filter", x[1], x[2], p>> : x \in ResolveFilters(source, selector)}
           v == ParamValue(p, args)
<1>1. \A m : WriteParam(m, source, selector, p, args) = IF p \in Scalars THEN Set(m, cs, v) ELSE m
  BY DEF WriteParam
<1> HIDE DEF cs, v
<1> QED
  BY <1>1, SetTwice

LEMMA TransformTwice ==
    ASSUME NEW o, Typed(o), NEW scene, NEW item, NEW f, NEW v
    PROVE  LET n == WriteTransform(o, scene, item, f, v)
           IN WriteTransform(n, scene, item, f, v) = n
<1> DEFINE cs == PollTransform(o, scene, item, {f})
           n == Set(o, cs, v)
<1>1. \A c \in cs : c[1] # "order"
  BY DEF PollTransform
<1>2. VisitItems(n, scene, item) = VisitItems(o, scene, item)
  <2> HIDE DEF cs
  <2> QED
    BY <1>1, SetVisitsSame DEF Typed
<1>3. PollTransform(n, scene, item, {f}) = cs
  <2> HIDE DEF n
  <2> QED
    BY <1>2 DEF PollTransform
<1>4. Set(n, cs, v) = n
  <2> HIDE DEF cs
  <2> QED
    BY SetTwice
<1>5. CASE f \in Fields
  <2>1. WriteTransform(o, scene, item, f, v) = n
    BY <1>5 DEF WriteTransform
  <2> HIDE DEF n, cs
  <2>2. WriteTransform(n, scene, item, f, v) = n
    BY <1>3, <1>4, <1>5 DEF WriteTransform
  <2> QED
    BY <2>1, <2>2
<1>6. CASE f \notin Fields
  BY <1>6 DEF WriteTransform
<1> QED
  BY <1>5, <1>6

LEMMA OutputRouteTwice ==
    ASSUME NEW o, Typed(o), NEW a, a \in Seq(STRING), a # <<>>, a[1] \in Outputs, NEW args,
           Explicit(a, args)
    PROVE  Command(Command(o, a, args), a, args) = Command(o, a, args)
<1> DEFINE sub == IF Len(a) = 2 THEN a[2] ELSE ""
           out == a[1]
<1>1. \A m : Command(m, a, args) = RunOutputCommand(m, out, sub, args)
  BY OutputRoute
<1>2. sub # "toggle"
  BY DEF Explicit, Last
<1>3. Says(args) \/ sub \in {"start", "stop"} \/ (out = "replay" /\ sub = "save")
  <2>1. Says(args) \/ (Len(a) = 2 /\ a[2] \in {"start", "stop"}) \/ a = <<"replay", "save">>
    BY DEF Explicit, Says
  <2> QED
    BY <2>1
<1>4. out \in Outputs /\ IsState(o)
  BY DEF Typed
<1> HIDE DEF sub, out
<1> QED
  BY <1>1, <1>2, <1>3, <1>4, OutputTwice

LEMMA CommandTwice ==
    ASSUME NEW o, Typed(o), NEW a, a \in Seq(STRING), a # <<>>, NEW args, Sound(args), Explicit(a, args)
    PROVE  Command(Command(o, a, args), a, args) = Command(o, a, args)
<1>0. ~ArgIsToggle(args) /\ IsState(o)
  BY DEF Explicit, Typed
<1>1. CASE a = <<"studio">>
  <2> DEFINE on == ArgBool(args, FALSE)
  <2>1. \A m : Command(m, a, args) = Studio(m, args)
    BY <1>1, StudioRoute
  <2>2. \A m : Studio(m, args) = StudioMode(m, on)
    BY <1>0 DEF Studio
  <2> HIDE DEF on
  <2> QED
    BY <1>0, <2>1, <2>2, StudioTwice
<1>2. CASE a \in {<<"transition">>, <<"transition", "go">>}
  <2>1. \A m : Command(m, a, args) = TriggerTransition(m)
    BY <1>2, TransitionRoute
  <2> QED
    BY <1>0, <2>1, TransitionTwice
<1>3. CASE a[1] \in {"transition", "profile", "collection"} /\ Len(a) = 2 /\ a # <<"transition", "go">>
  <2>1. \A m : Command(m, a, args) = Select(m, a[1], a[2], Names[a[1]])
    BY <1>3, SelectRoute
  <2> QED
    BY <2>1, SelectTwice
<1>4. CASE a[1] = "program"
  <2>1. CASE Len(a) = 3 /\ a[2] = "index"
    <3>1. \A m : Command(m, a, args) = ProgramIndex(m, a[3])
      BY <1>4, <2>1, ProgramRoute
    <3>2. ProgramIndex(ProgramIndex(o, a[3]), a[3]) = ProgramIndex(o, a[3])
      BY ExceptTwice DEF ProgramIndex
    <3> QED
      BY <3>1, <3>2
  <2>2. CASE Len(a) = 2
    <3>1. \A m : Command(m, a, args) = Select(m, "program", a[2], SceneNames)
      BY <1>4, <2>2, ProgramRoute
    <3> QED
      BY <3>1, SelectTwice
  <2>3. CASE Len(a) # 2 /\ ~(Len(a) = 3 /\ a[2] = "index")
    BY <1>4, <2>3, ProgramRoute
  <2> QED
    BY <2>1, <2>2, <2>3
<1>5. CASE a[1] = "preview"
  <2>1. CASE Len(a) = 2 /\ o[<<"studio">>] = 1
    <3> DEFINE n == Select(o, "preview", a[2], SceneNames)
    <3>1. n[<<"studio">>] = 1
      <4>1. <<"studio">> \in DOMAIN o /\ <<"preview">> # <<"studio">>
        BY <1>0, BareCells DEF IsState
      <4> QED
        BY <2>1, <4>1 DEF Select
    <3>2. Command(o, a, args) = n
      BY <1>5, <2>1, PreviewRoute
    <3>3. Select(n, "preview", a[2], SceneNames) = n
      BY SelectTwice
    <3> HIDE DEF n
    <3>4. Command(n, a, args) = Select(n, "preview", a[2], SceneNames)
      BY <1>5, <2>1, <3>1, PreviewRoute
    <3> QED
      BY <3>2, <3>3, <3>4
  <2>2. CASE ~(Len(a) = 2 /\ o[<<"studio">>] = 1)
    <3>1. Command(o, a, args) = o
      BY <1>5, <2>2, PreviewRoute
    <3> QED
      BY <3>1
  <2> QED
    BY <2>1, <2>2
<1>6. CASE a[1] \in Outputs
  BY <1>6, OutputRouteTwice
<1>7. CASE Len(a) = 2 /\ a[1] = "mute"
  <2> DEFINE cs == {<<"mute", i>> : i \in VisitInputs(a[2])}
  <2>1. \A m : Command(m, a, args) = SetOrFlip(m, cs, args)
    BY <1>7, MuteRoute
  <2> HIDE DEF cs
  <2> QED
    BY <1>0, <2>1, SetOrFlipTwice
<1>8. CASE Len(a) = 2 /\ a[1] = "volume"
  <2> DEFINE cs == {<<"volume", i>> : i \in {a[2]} \cap Inputs}
             v == Multiplier(ArgFloat(args, -1))
  <2>1. \A m : Command(m, a, args) = Set(m, cs, v)
    BY <1>8, VolumeRoute
  <2> HIDE DEF cs, v
  <2> QED
    BY <2>1, SetTwice
<1>9. CASE Len(a) = 2 /\ a[1] = "db"
  <2> DEFINE cs == {<<"volume", i>> : i \in {a[2]} \cap Inputs}
             v == Gain(ArgFloat(args, 0))
  <2>1. \A m : Command(m, a, args) = Set(m, cs, v)
    BY <1>9, DbRoute
  <2> HIDE DEF cs, v
  <2> QED
    BY <2>1, SetTwice
<1>10. CASE Len(a) = 3 /\ a[1] = "media"
  <2>1. \A m : Command(m, a, args) = MediaCommand(m, a[2], a[3])
    BY <1>10, MediaRoute
  <2>2. a[3] # "toggle"
    BY <1>10 DEF Explicit, Last
  <2> QED
    BY <2>1, <2>2, MediaTwice
<1>11. CASE Len(a) = 3 /\ a[1] \in {"visible", "locked"}
  <2> DEFINE r == a[1]
  <2>1. r = "visible" \/ r = "locked"
    BY <1>11
  <2> HIDE DEF r
  <2>2. Len(a) = 3 /\ a[1] = r
    BY <1>11 DEF r
  <2> QED
    BY <1>0, <2>1, <2>2, FlagTwice
<1>12. CASE Len(a) = 3 /\ a[1] = "order"
  <2> DEFINE p == ArgInt(args, -1)
  <2>1. p \in Int
    BY ArgNumbers
  <2>2. \A m : Command(m, a, args) = MoveItems(m, a[2], a[3], p)
    BY <1>12, OrderRoute
  <2>3. a[2] # "*" /\ Exact(a[3])
    BY <1>12 DEF Explicit
  <2> HIDE DEF p
  <2> QED
    BY <2>1, <2>2, <2>3, OrderTwice
<1>13. CASE Len(a) = 3 /\ a[1] = "filter"
  <2> DEFINE cs == {<<"filter", x[1], x[2]>> : x \in VisitFilters(a[2], a[3])}
  <2>1. \A m : Command(m, a, args) = SetOrFlip(m, cs, args)
    BY <1>13, EnabledRoute
  <2> HIDE DEF cs
  <2> QED
    BY <1>0, <2>1, SetOrFlipTwice
<1>14. CASE Len(a) = 4 /\ a[1] = "filter" /\ a[4] \in DOMAIN Params
  <2>1. \A m : Command(m, a, args) = WriteParam(m, a[2], a[3], a[4], args)
    BY <1>14, ParamRoute
  <2> QED
    BY <2>1, ParamTwice
<1>15. CASE Len(a) = 4 /\ a[1] = "transform"
  <2> DEFINE v == ArgFloat(args, 0)
  <2>1. \A m : Command(m, a, args) = WriteTransform(m, a[2], a[3], a[4], v)
    BY <1>15, TransformRoute
  <2> HIDE DEF v
  <2> QED
    BY <2>1, TransformTwice
<1>16. CASE /\ a \notin {<<"studio">>, <<"transition">>, <<"transition", "go">>}
            /\ a[1] \notin Outputs \cup {"program", "preview"}
            /\ Len(a) = 2 => a[1] \notin {"transition", "profile", "collection", "mute", "volume", "db"}
            /\ Len(a) = 3 => a[1] \notin {"media", "visible", "locked", "order", "filter"}
            /\ Len(a) = 4 => a[1] # "transform" /\ (a[1] = "filter" => a[4] \notin DOMAIN Params)
  <2>1. \A m : Command(m, a, args) = m
    BY <1>16, NoRoute
  <2> QED
    BY <2>1
<1> QED
  BY <1>1, <1>2, <1>3, <1>4, <1>5, <1>6, <1>7, <1>8, <1>9, <1>10, <1>11, <1>12, <1>13, <1>14,
     <1>15, <1>16

(***************************************************************************)
(* A datagram that arrives twice has the effect of one, if the message     *)
(* says what it wants: whichever address, pattern and argument it has.     *)
(***************************************************************************)
THEOREM DuplicatesHarmlessAlways == Spec => []DuplicatesHarmless
<1>1. ASSUME Typed(cells)
      PROVE  DuplicatesHarmless
  <2> SUFFICES ASSUME NEW a \in Sent, NEW args \in Arguments, Explicit(a, args)
               PROVE  Dispatch(Dispatch(cells, a, args), a, args) = Dispatch(cells, a, args)
    BY DEF DuplicatesHarmless
  <2>1. a \in Seq(STRING) /\ a # <<>>
    BY MessagesAssumption DEF Sent
  <2>2. Sound(args)
    BY ArgumentsSound
  <2>3. Command(Command(cells, a, args), a, args) = Command(cells, a, args)
    BY <1>1, <2>1, <2>2, CommandTwice
  <2> QED
    BY <2>3 DEF Dispatch
<1> QED
  BY <1>1, TypedAlways, PTL DEF TypeOK

-----------------------------------------------------------------------------
\* What a command has set, read back.

LEMMA SetReads ==
    ASSUME NEW o, IsState(o), NEW cs, NEW v, NEW c, c \in cs, c \in Cells
    PROVE  Set(o, cs, v)[c] = v
  BY SetIs

LEMMA SetFlagReads ==
    ASSUME NEW o, IsState(o), NEW cs, NEW v, v = 0 \/ v = 1, NEW c, c \in cs, c \in Cells
    PROVE  SetOrFlip(o, cs, <<<<"i", v>>>>)[c] = v
<1> DEFINE args == <<<<"i", v>>>>
<1>1. ~ArgIsToggle(args) /\ ArgBool(args, FALSE) = (v # 0)
  BY DEF ArgIsToggle, ArgBool
<1> HIDE DEF args
<1>2. Bit(ArgBool(args, FALSE)) = v
  BY <1>1 DEF Bit
<1>3. SetOrFlip(o, cs, args) = Set(o, cs, v)
  BY <1>1, <1>2 DEF SetOrFlip
<1>4. Set(o, cs, v)[c] = v
  BY SetReads
<1> QED
  BY <1>3, <1>4 DEF args

\* What a poll of a says: value v, or for an order the place it asks for.
Reads(n, a, v) ==
    \A c \in Polled(n, a) :
        Value(n, c) = IF c[1] = "order" THEN Min({v, Len(Items[c[2]]) - 1}) ELSE v

LEMMA ReadStudio ==
    ASSUME NEW o, Typed(o), NEW a, a = <<"studio">>, NEW v, v = 0 \/ v = 1
    PROVE  Reads(Command(o, a, <<<<"i", v>>>>), a, v)
<1> DEFINE args == <<<<"i", v>>>>
           on == ArgBool(args, FALSE)
           n == StudioMode(o, on)
<1>1. ~ArgIsToggle(args) /\ on = (v # 0)
  BY DEF ArgIsToggle, ArgBool
<1>2. Command(o, a, args) = n
  <2>1. Command(o, a, args) = Studio(o, args)
    BY StudioRoute
  <2> QED
    BY <1>1, <2>1 DEF Studio
<1>3. Bit(on) = v
  BY <1>1 DEF Bit
<1> HIDE DEF args, on
<1>4. n[<<"studio">>] = v
  <2>1. <<"studio">> \in DOMAIN o /\ <<"studio">> # <<"preview">>
    BY BareCells DEF Typed, IsState
  <2>2. on /\ o[<<"studio">>] = 0 => v = 1
    BY <1>3 DEF Bit
  <2> QED
    BY <1>3, <2>1, <2>2 DEF StudioMode
<1> HIDE DEF n
<1>5. Polled(n, a) = {a}
  BY BareCells, PollsOne
<1>6. Value(n, a) = n[a] /\ a[1] # "order"
  <2>1. a[1] = "studio"
    OBVIOUS
  <2> QED
    BY <2>1, ValueOfPlain
<1> QED
  BY <1>2, <1>4, <1>5, <1>6 DEF Reads, args

LEMMA PolledInputs ==
    ASSUME NEW n, NEW a, Len(a) = 2
    PROVE  /\ a[1] = "mute" => Polled(n, a) = {<<"mute", i>> : i \in VisitInputs(a[2])}
           /\ a[1] = "volume" => Polled(n, a) = {<<"volume", i>> : i \in {a[2]} \cap Inputs}
           /\ a[1] = "db" => Polled(n, a) = {<<"db", i>> : i \in {a[2]} \cap Inputs}
<1>1. a[1] \in {"mute", "volume", "db"} => a \notin Bare
  BY BareNames
<1>2. CASE a[1] = "mute"
  BY <1>1, <1>2 DEF Polled
<1>3. CASE a[1] = "volume"
  BY <1>1, <1>3 DEF Polled
<1>4. CASE a[1] = "db"
  BY <1>1, <1>4 DEF Polled
<1> QED
  BY <1>2, <1>3, <1>4

LEMMA PolledItems ==
    ASSUME NEW n, NEW a, Len(a) = 3, NEW r, r = "visible" \/ r = "locked" \/ r = "order", a[1] = r
    PROVE  Polled(n, a) = {<<r, x[1], x[2]>> : x \in VisitItems(n, a[2], a[3])}
<1>1. a \notin Bare
  BY BareNames
<1>2. Polled(n, a) = PollItems(n, r, a[2], a[3])
  BY <1>1 DEF Polled
<1> QED
  BY <1>2 DEF PollItems

LEMMA PolledFilters ==
    ASSUME NEW n, NEW a, Len(a) = 3, a[1] = "filter"
    PROVE  Polled(n, a) = {<<"filter", x[1], x[2]>> : x \in VisitFilters(a[2], a[3])}
<1>1. a \notin Bare
  BY BareNames
<1>2. Polled(n, a) = PollFilterEnabled(a[2], a[3])
  BY <1>1 DEF Polled
<1> QED
  BY <1>2 DEF PollFilterEnabled

LEMMA PolledFields ==
    ASSUME NEW n, NEW a, Len(a) = 4
    PROVE  /\ a[1] = "transform" => Polled(n, a) = PollTransform(n, a[2], a[3], {a[4]} \cap Fields)
           /\ a[1] = "filter" /\ a[4] # "params" =>
                  Polled(n, a) = PollFilterParams(a[2], a[3], {a[4]})
<1>1. a[1] \in {"transform", "filter"} => a \notin Bare
  BY BareNames
<1>2. CASE a[1] = "transform"
  BY <1>1, <1>2 DEF Polled
<1>3. CASE a[1] = "filter" /\ a[4] # "params"
  BY <1>1, <1>3 DEF Polled
<1> QED
  BY <1>2, <1>3

LEMMA ReadMute ==
    ASSUME NEW o, Typed(o), NEW a, Len(a) = 2, a[1] = "mute", NEW v, v = 0 \/ v = 1
    PROVE  Reads(Command(o, a, <<<<"i", v>>>>), a, v)
<1> DEFINE cs == {<<"mute", i>> : i \in VisitInputs(a[2])}
           args == <<<<"i", v>>>>
           n == SetOrFlip(o, cs, args)
<1>1. Command(o, a, args) = n
  BY MuteRoute
<1>2. \A c \in cs : c \in Cells /\ c[1] = "mute"
  BY DEF Cells, VisitInputs
<1>3. Polled(n, a) = cs
  <2> HIDE DEF n
  <2> QED
    BY PolledInputs
<1>4. \A c \in cs : n[c] = v
  <2> HIDE DEF cs
  <2> QED
    BY <1>2, SetFlagReads DEF Typed
<1> HIDE DEF n, cs, args
<1>5. \A c \in cs : Value(n, c) = n[c]
  BY <1>2, ValueOfPlain
<1> QED
  BY <1>1, <1>2, <1>3, <1>4, <1>5 DEF Reads, args

LEMMA ReadVolume ==
    ASSUME NEW o, Typed(o), NEW a, Len(a) = 2, a[1] = "volume", NEW v, v = 0 \/ v = 1
    PROVE  Reads(Command(o, a, <<<<"i", v>>>>), a, v)
<1> DEFINE cs == {<<"volume", i>> : i \in {a[2]} \cap Inputs}
           args == <<<<"i", v>>>>
           m == Multiplier(ArgFloat(args, -1))
           n == Set(o, cs, m)
<1>1. Command(o, a, args) = n
  BY VolumeRoute
<1>2. \A c \in cs : c \in Cells /\ c[1] = "volume"
  BY DEF Cells
<1>3. Polled(n, a) = cs
  <2> HIDE DEF n
  <2> QED
    BY PolledInputs
<1>4. \A c \in cs : n[c] = m
  <2> HIDE DEF cs, m
  <2> QED
    BY <1>2, SetReads DEF Typed
<1>5. Position(m) = v
  <2>1. ArgFloat(args, -1) = v
    BY DEF ArgFloat
  <2>2. Full \in Nat /\ Full >= 1 /\ v \in Nat /\ v <= 1
    BY CommandsAssumption
  <2>3. m = v * v
    BY <2>1, <2>2 DEF Multiplier
  <2> QED
    BY <2>2, <2>3, PositionOfSquare
<1> HIDE DEF n, cs, args, m
<1>6. \A c \in cs : Value(n, c) = Position(n[c])
  BY <1>2, ValueOfVolume
<1> QED
  BY <1>1, <1>2, <1>3, <1>4, <1>5, <1>6 DEF Reads, args

LEMMA ReadDb ==
    ASSUME NEW o, Typed(o), NEW a, Len(a) = 2, a[1] = "db", NEW v, v = 0 \/ v = 1
    PROVE  Reads(Command(o, a, <<<<"i", v>>>>), a, v)
<1> DEFINE cs == {<<"volume", i>> : i \in {a[2]} \cap Inputs}
           args == <<<<"i", v>>>>
           m == Gain(ArgFloat(args, 0))
           n == Set(o, cs, m)
<1>1. Command(o, a, args) = n
  BY DbRoute
<1>2. Polled(n, a) = {<<"db", i>> : i \in {a[2]} \cap Inputs}
  <2> HIDE DEF n
  <2> QED
    BY PolledInputs
<1>3. \A i \in {a[2]} \cap Inputs : <<"volume", i>> \in cs /\ <<"volume", i>> \in Cells
  BY DEF Cells
<1>4. \A i \in {a[2]} \cap Inputs : n[<<"volume", i>>] = m
  <2> TAKE i \in {a[2]} \cap Inputs
  <2> DEFINE c == <<"volume", i>>
  <2>1. c \in cs /\ c \in Cells
    BY <1>3
  <2> HIDE DEF cs, m, c
  <2>2. n[c] = m
    BY <2>1, SetReads DEF Typed
  <2> QED
    BY <2>2 DEF c
<1>5. Decibels(m) = v
  <2>1. ArgFloat(args, 0) = v
    BY DEF ArgFloat
  <2> DEFINE F == Full * Full
  <2>2. Full \in Nat /\ Full >= 1
    BY CommandsAssumption
  <2>3. F \in Int /\ F >= 1
    <3>1. 1 * Full <= Full * Full
      BY <2>2, TimesKeepsOrder
    <3> QED
      BY <2>2, <3>1
  <2>4. v = 0 => m = F
    BY <2>1 DEF Gain
  <2>5. v = 1 => m = 4 * F
    <3>1. v = 1 => m = (2 * Full) * (2 * Full)
      BY <2>1 DEF Gain
    <3>2. (2 * Full) * (2 * Full) = 4 * F
      BY <2>2
    <3> QED
      BY <3>1, <3>2
  <2> HIDE DEF m
  <2>6. \A k : Decibels(k) = CASE k = 0 -> -100 [] k = F -> 0 [] OTHER -> IF k < F THEN -1 ELSE 1
    BY DEF Decibels
  <2> HIDE DEF F
  <2>7. F # 0 /\ 4 * F # 0 /\ 4 * F # F /\ ~(4 * F < F)
    BY <2>3
  <2>8. Decibels(F) = 0 /\ Decibels(4 * F) = 1
    BY <2>6, <2>7
  <2> QED
    BY <2>4, <2>5, <2>8
<1> HIDE DEF n, cs, m, args
<1>6. \A i \in {a[2]} \cap Inputs : Value(n, <<"db", i>>) = Decibels(n[<<"volume", i>>])
  <2> TAKE i \in {a[2]} \cap Inputs
  <2> DEFINE c == <<"db", i>>
  <2>1. c[1] = "db" /\ c[2] = i
    OBVIOUS
  <2> HIDE DEF c
  <2>2. Value(n, c) = Decibels(n[<<"volume", c[2]>>])
    BY <2>1, OutputNames DEF Value
  <2> QED
    BY <2>1, <2>2 DEF c
<1>7. \A c \in Polled(n, a) : c[1] = "db" /\ Value(n, c) = v
  <2> TAKE c \in Polled(n, a)
  <2>1. PICK i \in {a[2]} \cap Inputs : c = <<"db", i>>
    BY <1>2
  <2>2. c[1] = "db"
    BY <2>1
  <2>3. Value(n, c) = Decibels(n[<<"volume", i>>])
    BY <1>6, <2>1
  <2> QED
    BY <1>4, <1>5, <2>2, <2>3
<1> QED
  BY <1>1, <1>7 DEF Reads, args

LEMMA ReadFlag ==
    ASSUME NEW o, Typed(o), NEW r, r = "visible" \/ r = "locked", NEW a, Len(a) = 3, a[1] = r,
           NEW v, v = 0 \/ v = 1
    PROVE  Reads(Command(o, a, <<<<"i", v>>>>), a, v)
<1> DEFINE cs == {<<r, x[1], x[2]>> : x \in VisitItems(o, a[2], a[3])}
           args == <<<<"i", v>>>>
           n == SetOrFlip(o, cs, args)
<1>1. Command(o, a, args) = n
  BY FlagRoute
<1>2. \A c \in cs : c \in Cells /\ c[1] = r
  <2>1. VisitItems(o, a[2], a[3]) \subseteq ItemNames
    BY DEF VisitItems
  <2>2. \A x \in ItemNames : <<r, x[1], x[2]>> \in Cells
    BY DEF Cells
  <2> QED
    BY <2>1, <2>2
<1>3. Polled(n, a) = cs
  <2>1. VisitItems(n, a[2], a[3]) = VisitItems(o, a[2], a[3])
    <3>1. ~ArgIsToggle(args) /\ \A c \in cs : c[1] # "order"
      BY <1>2 DEF ArgIsToggle
    <3> HIDE DEF cs, args
    <3> QED
      BY <3>1, SetOrFlipVisitsSame DEF Typed
  <2> HIDE DEF n
  <2>2. Polled(n, a) = {<<r, x[1], x[2]>> : x \in VisitItems(n, a[2], a[3])}
    BY PolledItems
  <2> QED
    BY <2>1, <2>2
<1>4. \A c \in cs : n[c] = v
  <2> HIDE DEF cs
  <2> QED
    BY <1>2, SetFlagReads DEF Typed
<1> HIDE DEF n, cs, args
<1>5. \A c \in cs : Value(n, c) = n[c]
  BY <1>2, ValueOfPlain
<1> QED
  BY <1>1, <1>2, <1>3, <1>4, <1>5 DEF Reads, args

LEMMA ReadEnabled ==
    ASSUME NEW o, Typed(o), NEW a, Len(a) = 3, a[1] = "filter", NEW v, v = 0 \/ v = 1
    PROVE  Reads(Command(o, a, <<<<"i", v>>>>), a, v)
<1> DEFINE cs == {<<"filter", x[1], x[2]>> : x \in VisitFilters(a[2], a[3])}
           args == <<<<"i", v>>>>
           n == SetOrFlip(o, cs, args)
<1>1. Command(o, a, args) = n
  BY EnabledRoute
<1>2. \A c \in cs : c \in Cells /\ c[1] = "filter"
  <2>1. VisitFilters(a[2], a[3]) \subseteq FilterNames
    BY DEF VisitFilters, FilterNames, Selected, Range
  <2> QED
    BY <2>1 DEF Cells
<1>3. Polled(n, a) = cs
  <2> HIDE DEF n
  <2> QED
    BY PolledFilters
<1>4. \A c \in cs : n[c] = v
  <2> HIDE DEF cs
  <2> QED
    BY <1>2, SetFlagReads DEF Typed
<1> HIDE DEF n, cs, args
<1>5. \A c \in cs : Value(n, c) = n[c]
  BY <1>2, ValueOfPlain
<1> QED
  BY <1>1, <1>2, <1>3, <1>4, <1>5 DEF Reads, args

LEMMA ReadOrder ==
    ASSUME NEW o, Typed(o), NEW a, Len(a) = 3, a[1] = "order", a[2] # "*", Exact(a[3]),
           NEW v, v = 0 \/ v = 1
    PROVE  Reads(Command(o, a, <<<<"i", v>>>>), a, v)
<1> DEFINE args == <<<<"i", v>>>>
           s == a[2]
           i == a[3]
           n == MovedIf(o, s, i, v)
<1>1. Command(o, a, args) = n
  <2>1. ArgInt(args, -1) = v
    BY DEF ArgInt
  <2> HIDE DEF args
  <2>2. Command(o, a, args) = MoveItems(o, s, i, v)
    BY <2>1, OrderRoute
  <2>3. MoveItems(o, s, i, v) = MovedIf(o, s, i, v)
    BY MoveOne
  <2> QED
    BY <2>2, <2>3
<1>2. Polled(n, a) = {<<"order", x[1], x[2]>> : x \in VisitItems(n, s, i)}
  <2> HIDE DEF n
  <2> QED
    BY PolledItems
<1>3. \A x \in VisitItems(n, s, i) : x \in ItemNames /\ x[1] = s /\ x[2] = i
  BY DEF VisitItems, SelectorMatches, Matches, Exact
<1>4. ASSUME NEW c, c \in Polled(n, a)
      PROVE  /\ c = <<"order", s, i>> /\ <<s, i>> \in ItemNames
             /\ s \in SceneNames /\ i \in Range(Items[s])
  <2> HIDE DEF n
  <2>1. PICK x \in VisitItems(n, s, i) : c = <<"order", x[1], x[2]>>
    BY <1>2, <1>4
  <2>2. x \in ItemNames /\ x[1] = s /\ x[2] = i
    BY <1>3
  <2> QED
    BY <2>1, <2>2, ItemNamed
<1>5. ASSUME NEW c, c \in Polled(n, a)
      PROVE  c[1] = "order" /\ c[2] = s /\ Value(n, c) = Min({v, Len(Items[s]) - 1})
  <2>1. c[1] = "order" /\ c[2] = s
    BY <1>4, <1>5
  <2>2. Value(n, c) = n[c]
    <3> HIDE DEF n
    <3> QED
      BY <2>1, ValueOfPlain
  <2>3. n[c] = Goal(s, v)
    <3>1. <<"order", s, i>> \in DOMAIN o
      BY <1>4, <1>5, SceneItems DEF Typed, IsState
    <3>2. n = Moved(o, s, i, v)
      BY <1>4, <1>5 DEF MovedIf
    <3>3. n[<<"order", s, i>>] = Goal(s, v)
      <4> HIDE DEF n
      <4> QED
        BY <3>1, <3>2, MovedOrder
    <3> HIDE DEF n
    <3> QED
      BY <1>4, <1>5, <3>3
  <2>4. Goal(s, v) = Min({v, Len(Items[s]) - 1})
    BY DEF Goal
  <2> HIDE DEF n
  <2> QED
    BY <2>1, <2>2, <2>3, <2>4
<1> HIDE DEF n, args
<1> QED
  BY <1>1, <1>5 DEF Reads, args

LEMMA ReadTransform ==
    ASSUME NEW o, Typed(o), NEW a, Len(a) = 4, a[1] = "transform", NEW v, v = 0 \/ v = 1
    PROVE  Reads(Command(o, a, <<<<"i", v>>>>), a, v)
<1> DEFINE args == <<<<"i", v>>>>
           n == Command(o, a, args)
           cs == PollTransform(o, a[2], a[3], {a[4]})
<1>1. n = WriteTransform(o, a[2], a[3], a[4], v)
  <2>1. ArgFloat(args, 0) = v
    BY DEF ArgFloat
  <2> HIDE DEF args
  <2> QED
    BY <2>1, TransformRoute
<1>2. Polled(n, a) = PollTransform(n, a[2], a[3], {a[4]} \cap Fields)
  <2> HIDE DEF n
  <2> QED
    BY PolledFields
<1> HIDE DEF n
<1>3. CASE a[4] \notin Fields
  <2>1. Polled(n, a) = {}
    BY <1>2, <1>3 DEF PollTransform
  <2> QED
    BY <2>1 DEF Reads, n
<1>4. CASE a[4] \in Fields
  <2>1. n = Set(o, cs, v)
    BY <1>1, <1>4 DEF WriteTransform
  <2>2. \A c \in cs : c \in Cells /\ c[1] = "transform"
    <3>1. VisitItems(o, a[2], a[3]) \subseteq ItemNames
      BY DEF VisitItems
    <3>2. \A x \in ItemNames : <<"transform", x[1], x[2], a[4]>> \in Cells
      BY <1>4 DEF Cells
    <3> QED
      BY <3>1, <3>2 DEF PollTransform
  <2> HIDE DEF cs
  <2>3. VisitItems(n, a[2], a[3]) = VisitItems(o, a[2], a[3])
    <3>1. \A c \in cs : c[1] # "order"
      BY <2>2
    <3> QED
      BY <2>1, <3>1, SetVisitsSame DEF Typed
  <2>4. {a[4]} \cap Fields = {a[4]}
    BY <1>4
  <2>5. Polled(n, a) = cs
    BY <1>2, <2>3, <2>4 DEF PollTransform, cs
  <2>6. \A c \in cs : n[c] = v
    BY <2>1, <2>2, SetReads DEF Typed
  <2>7. \A c \in cs : Value(n, c) = n[c]
    BY <2>2, ValueOfPlain
  <2> QED
    BY <2>2, <2>5, <2>6, <2>7 DEF Reads, n
<1> QED
  BY <1>3, <1>4

LEMMA FilterVisited ==
    ASSUME NEW source, NEW selector
    PROVE  /\ VisitFilters(source, selector) \subseteq FilterNames
           /\ ResolveFilters(source, selector) \subseteq FilterNames
<1>1. VisitFilters(source, selector) \subseteq FilterNames
  BY DEF VisitFilters, FilterNames, Selected, Range
<1>2. ASSUME NEW src \in DOMAIN Chain, Selected(src, selector) # {}
      PROVE  ResolveFilter(src, selector) \in FilterNames
  <2> DEFINE S == Selected(src, selector)
             k == Max(S)
  <2>1. Chain[src] \in Seq(Range(Chain[src]))
    BY CommandsAssumption
  <2>2. Len(Chain[src]) \in Nat /\ DOMAIN Chain[src] = 1..Len(Chain[src])
    BY <2>1
  <2>3. S \in SUBSET (1..Len(Chain[src]))
    BY <2>2 DEF Selected
  <2> HIDE DEF S
  <2>4. k \in S
    BY <1>2, <2>2, <2>3, MaxMember DEF S
  <2> HIDE DEF k
  <2>5. Chain[src][k] \in Range(Chain[src])
    BY <2>2, <2>3, <2>4 DEF Range
  <2>6. <<src, Chain[src][k]>> \in FilterNames
    BY <2>5 DEF FilterNames
  <2> QED
    BY <2>6 DEF ResolveFilter, S, k
<1> QED
  BY <1>1, <1>2 DEF ResolveFilters

LEMMA ReadParam ==
    ASSUME NEW o, Typed(o), NEW a, Len(a) = 4, a[1] = "filter", a[4] \in Scalars, Params[a[4]] # "text",
           NEW v, v = 0 \/ v = 1
    PROVE  Reads(Command(o, a, <<<<"i", v>>>>), a, v)
<1> DEFINE args == <<<<"i", v>>>>
           n == Command(o, a, args)
           p == a[4]
           cs == {<<"filter", x[1], x[2], p>> : x \in ResolveFilters(a[2], a[3])}
<1>0. p \in DOMAIN Params /\ p # "params" /\ Params[p] \in {"bool", "int"}
  BY CommandsAssumption DEF Scalars
<1>1. ParamValue(p, args) = v
  <2>1. ArgBool(args, FALSE) = (v # 0) /\ ArgInt(args, 0) = v
    BY DEF ArgBool, ArgInt
  <2> HIDE DEF args, p
  <2>2. Bit(ArgBool(args, FALSE)) = v
    BY <2>1 DEF Bit
  <2> QED
    BY <1>0, <2>1, <2>2 DEF ParamValue
<1>2. n = Set(o, cs, v)
  <2>1. n = WriteParam(o, a[2], a[3], p, args)
    <3> HIDE DEF args
    <3> QED
      BY <1>0, ParamRoute
  <2> HIDE DEF n, args
  <2> QED
    BY <1>1, <2>1 DEF WriteParam
<1>3. Polled(n, a) = PollFilterParams(a[2], a[3], {p})
  <2> HIDE DEF n
  <2> QED
    BY <1>0, PolledFields
<1>4. Polled(n, a) = cs
  <2>1. {p} \cap Scalars = {p}
    OBVIOUS
  <2> HIDE DEF n, p
  <2>2. PollFilterParams(a[2], a[3], {p}) =
            {<<"filter", x[1], x[2], q>> : x \in ResolveFilters(a[2], a[3]), q \in {p}}
    BY <2>1 DEF PollFilterParams
  <2> QED
    BY <1>3, <2>2
<1>5. \A c \in cs : c \in Cells /\ c[1] = "filter"
  <2>1. ResolveFilters(a[2], a[3]) \subseteq FilterNames
    BY FilterVisited
  <2> QED
    BY <2>1 DEF Cells
<1> HIDE DEF n, args, cs
<1>6. \A c \in cs : n[c] = v
  BY <1>2, <1>5, SetReads DEF Typed
<1>7. \A c \in cs : Value(n, c) = n[c]
  BY <1>5, ValueOfPlain
<1> QED
  BY <1>4, <1>5, <1>6, <1>7 DEF Reads, n, args

(***************************************************************************)
(* What a command that takes a value has set, on any address and pattern   *)
(* that Setters names, a poll of the same address answers.                 *)
(***************************************************************************)
THEOREM ReadBackAlways == Spec => []ReadBack
<1>1. ASSUME Typed(cells)
      PROVE  ReadBack
  <2> SUFFICES ASSUME NEW a \in Setters, NEW v \in {0, 1}
               PROVE  Reads(Dispatch(cells, a, <<<<"i", v>>>>), a, v)
    BY DEF ReadBack, Reads
  <2>1. v = 0 \/ v = 1
    OBVIOUS
  <2> DEFINE w == v
  <2>2. w = 0 \/ w = 1
    BY <2>1
  <2> HIDE DEF w
  <2> DEFINE n == Command(cells, a, <<<<"i", w>>>>)
  <2>3. Reads(n, a, w)
    <3> HIDE DEF n
    <3>1. CASE a = <<"studio">>
      BY <1>1, <2>2, <3>1, ReadStudio DEF n
    <3>2. CASE Len(a) = 2 /\ a[1] = "mute"
      BY <1>1, <2>2, <3>2, ReadMute DEF n
    <3>3. CASE Len(a) = 2 /\ a[1] = "volume"
      BY <1>1, <2>2, <3>3, ReadVolume DEF n
    <3>4. CASE Len(a) = 2 /\ a[1] = "db"
      BY <1>1, <2>2, <3>4, ReadDb DEF n
    <3>5. CASE Len(a) = 3 /\ a[1] \in {"visible", "locked"}
      BY <1>1, <2>2, <3>5, ReadFlag DEF n
    <3>6. CASE Len(a) = 3 /\ a[1] = "filter"
      BY <1>1, <2>2, <3>6, ReadEnabled DEF n
    <3>7. CASE Len(a) = 3 /\ a[1] = "order" /\ a[2] # "*" /\ Exact(a[3])
      BY <1>1, <2>2, <3>7, ReadOrder DEF n
    <3>8. CASE Len(a) = 4 /\ a[1] = "transform"
      BY <1>1, <2>2, <3>8, ReadTransform DEF n
    <3>9. CASE Len(a) = 4 /\ a[1] = "filter" /\ a[4] \in Scalars /\ Params[a[4]] # "text"
      BY <1>1, <2>2, <3>9, ReadParam DEF n
    <3> QED
      BY <3>1, <3>2, <3>3, <3>4, <3>5, <3>6, <3>7, <3>8, <3>9 DEF Setters
  <2>4. Dispatch(cells, a, <<<<"i", w>>>>) = n
    BY DispatchWithArgument
  <2> QED
    BY <2>3, <2>4 DEF w
<1> QED
  BY <1>1, TypedAlways, PTL DEF TypeOK

-----------------------------------------------------------------------------
\* A poll answers for finitely many objects.

LEMMA ImageFinite ==
    ASSUME NEW S, IsFiniteSet(S), NEW f, DOMAIN f = S, f = [x \in S |-> f[x]], NEW T,
           \A x \in S : f[x] \in T, \A t \in T : \E x \in S : f[x] = t
    PROVE  IsFiniteSet(T)
<1>1. f \in [S -> T]
  OBVIOUS
<1>2. f \in Surjection(S, T)
  BY <1>1 DEF Surjection
<1> QED
  BY <1>2, FS_Surjection

LEMMA SubsetFinite ==
    ASSUME NEW S, IsFiniteSet(S), NEW T, T \subseteq S
    PROVE  IsFiniteSet(T)
  BY FS_Subset

LEMMA RangeFinite ==
    ASSUME NEW s, s \in Seq(Range(s))
    PROVE  IsFiniteSet(Range(s))
<1> DEFINE R == Range(s)
<1>0. s \in Seq(R)
  OBVIOUS
<1> HIDE DEF R
<1>1. Len(s) \in Nat /\ DOMAIN s = 1..Len(s) /\ s = [n \in 1..Len(s) |-> s[n]]
  <2>1. s \in [1..Len(s) -> R] /\ Len(s) \in Nat
    BY <1>0
  <2> QED
    BY <2>1
<1>2. IsFiniteSet(1..Len(s))
  <2> DEFINE n == Len(s)
  <2>1. n \in Nat
    BY <1>1
  <2> HIDE DEF n
  <2>2. IsFiniteSet(1..n)
    <3>1. 1 \in Int /\ n \in Int
      BY <2>1
    <3> QED
      BY <3>1, FS_Interval, Zenon
  <2> QED
    BY <2>2 DEF n
<1>3. \A n \in 1..Len(s) : s[n] \in Range(s)
  BY <1>1 DEF Range
<1>4. \A t \in Range(s) : \E n \in 1..Len(s) : s[n] = t
  BY <1>1 DEF Range
<1> QED
  BY <1>1, <1>2, <1>3, <1>4, ImageFinite

LEMMA ItemNamesFinite == IsFiniteSet(ItemNames)
<1>1. IsFiniteSet(SceneNames) /\ IsFiniteSet(Inputs)
  BY CommandsAssumption, RangeFinite DEF SceneNames
<1>2. IsFiniteSet(SceneNames \X Inputs)
  BY <1>1, FS_Product
<1>3. ItemNames \subseteq SceneNames \X Inputs
  BY DEF ItemNames
<1> QED
  BY <1>2, <1>3, SubsetFinite

LEMMA SourcesFinite ==
    ASSUME NEW source
    PROVE  IsFiniteSet(VisitSources(source) \cap DOMAIN Chain)
<1>1. IsFiniteSet(VisitSources(source))
  <2>1. IsFiniteSet({source})
    BY FS_Singleton
  <2>2. IsFiniteSet({source} \cap DOMAIN Chain)
    BY <2>1, FS_Intersection
  <2> QED
    BY <2>2, CommandsAssumption DEF VisitSources
<1> QED
  BY <1>1, FS_Intersection

LEMMA VisitFiltersFinite ==
    ASSUME NEW source, NEW selector
    PROVE  IsFiniteSet(VisitFilters(source, selector))
<1> DEFINE V == VisitSources(source) \cap DOMAIN Chain
           f == [src \in V |-> Range(Chain[src])]
           T == {Range(Chain[src]) : src \in V}
<1>1. IsFiniteSet(V)
  BY SourcesFinite
<1>2. IsFiniteSet(T)
  <2>1. DOMAIN f = V /\ f = [x \in V |-> f[x]]
    OBVIOUS
  <2>2. (\A x \in V : f[x] \in T) /\ \A t \in T : \E x \in V : f[x] = t
    OBVIOUS
  <2> HIDE DEF V, f, T
  <2> QED
    BY <1>1, <2>1, <2>2, ImageFinite
<1>3. \A t \in T : IsFiniteSet(t)
  <2>1. \A src \in V : IsFiniteSet(Range(Chain[src]))
    BY CommandsAssumption, RangeFinite
  <2> QED
    BY <2>1
<1>4. IsFiniteSet(UNION T)
  BY <1>2, <1>3, FS_UNION
<1>5. IsFiniteSet(V \X UNION T)
  BY <1>1, <1>4, FS_Product
<1>6. VisitFilters(source, selector) \subseteq V \X UNION T
  BY DEF VisitFilters, Selected, Range
<1> QED
  BY <1>5, <1>6, SubsetFinite

LEMMA ResolveFiltersFinite ==
    ASSUME NEW source, NEW selector
    PROVE  IsFiniteSet(ResolveFilters(source, selector))
<1> DEFINE V == {s \in VisitSources(source) \cap DOMAIN Chain : Selected(s, selector) # {}}
           f == [src \in V |-> ResolveFilter(src, selector)]
           T == {ResolveFilter(src, selector) : src \in V}
<1>1. IsFiniteSet(V)
  <2>1. V \subseteq VisitSources(source) \cap DOMAIN Chain
    OBVIOUS
  <2> HIDE DEF V
  <2> QED
    BY <2>1, SourcesFinite, SubsetFinite
<1>2. DOMAIN f = V /\ f = [x \in V |-> f[x]]
  OBVIOUS
<1>3. (\A x \in V : f[x] \in T) /\ \A t \in T : \E x \in V : f[x] = t
  OBVIOUS
<1>4. IsFiniteSet(T)
  <2> HIDE DEF V, f, T
  <2> QED
    BY <1>1, <1>2, <1>3, ImageFinite
<1> QED
  BY <1>4 DEF ResolveFilters

\* The addresses of pairs of a finite set are finitely many.
LEMMA PairsFinite ==
    ASSUME NEW S, IsFiniteSet(S), NEW r
    PROVE  IsFiniteSet({<<r, x[1], x[2]>> : x \in S})
<1> DEFINE f == [x \in S |-> <<r, x[1], x[2]>>]
           T == {<<r, x[1], x[2]>> : x \in S}
<1>1. DOMAIN f = S /\ f = [x \in S |-> f[x]]
  OBVIOUS
<1>2. (\A x \in S : f[x] \in T) /\ \A t \in T : \E x \in S : f[x] = t
  OBVIOUS
<1> HIDE DEF f, T
<1>3. IsFiniteSet(T)
  BY <1>1, <1>2, ImageFinite
<1> QED
  BY <1>3 DEF T

LEMMA TriplesFinite ==
    ASSUME NEW S, IsFiniteSet(S), NEW r, NEW p
    PROVE  IsFiniteSet({<<r, x[1], x[2], p>> : x \in S})
<1> DEFINE f == [x \in S |-> <<r, x[1], x[2], p>>]
           T == {<<r, x[1], x[2], p>> : x \in S}
<1>1. DOMAIN f = S /\ f = [x \in S |-> f[x]]
  OBVIOUS
<1>2. (\A x \in S : f[x] \in T) /\ \A t \in T : \E x \in S : f[x] = t
  OBVIOUS
<1> HIDE DEF f, T
<1>3. IsFiniteSet(T)
  BY <1>1, <1>2, ImageFinite
<1> QED
  BY <1>3 DEF T

LEMMA MutesFinite ==
    ASSUME NEW pattern
    PROVE  IsFiniteSet({<<"mute", i>> : i \in VisitInputs(pattern)})
<1> DEFINE S == VisitInputs(pattern)
           f == [i \in S |-> <<"mute", i>>]
           T == {<<"mute", i>> : i \in S}
<1>0. IsFiniteSet(S)
  <2>1. S \subseteq Inputs
    BY DEF VisitInputs
  <2> QED
    BY <2>1, CommandsAssumption, SubsetFinite
<1>1. DOMAIN f = S /\ f = [x \in S |-> f[x]]
  OBVIOUS
<1>2. (\A x \in S : f[x] \in T) /\ \A t \in T : \E x \in S : f[x] = t
  OBVIOUS
<1> HIDE DEF S, f, T
<1>3. IsFiniteSet(T)
  BY <1>0, <1>1, <1>2, ImageFinite
<1> QED
  BY <1>3 DEF T, S

-----------------------------------------------------------------------------
\* The same message to one object after the other, in any order.

Lists(f, S) ==
    /\ Len(f) \in Nat
    /\ \A k \in 1..Len(f) : f[k] \in S
    /\ \A j, k \in 1..Len(f) : f[j] = f[k] => j = k
    /\ \A x \in S : \E k \in 1..Len(f) : f[k] = x

LEMMA ListOfSet ==
    ASSUME NEW S, IsFiniteSet(S), NEW f, f \in SetToSeqs(S)
    PROVE  Lists(f, S)
<1> DEFINE n == Cardinality(S)
<1>1. n \in Nat
  BY FS_CardinalityType
<1>2. f \in [1..n -> S] /\ \A j, k \in 1..n : f[j] = f[k] => j = k
  BY DEF SetToSeqs
<1>3. IsFiniteSet(1..n) /\ Cardinality(1..n) = n
  <2>1. 1 \in Int /\ n \in Int
    BY <1>1
  <2> HIDE DEF n
  <2>2. IsFiniteSet(1..n) /\ Cardinality(1..n) = IF 1 > n THEN 0 ELSE n - 1 + 1
    BY <2>1, FS_Interval, Zenon
  <2> QED
    BY <1>1, <2>2
<1>4. f \in Injection(1..n, S)
  BY <1>2 DEF Injection, IsInjective
<1>5. f \in Surjection(1..n, S)
  <2> HIDE DEF n
  <2>1. Cardinality(1..n) = Cardinality(S)
    BY <1>3 DEF n
  <2> QED
    BY <1>3, <1>4, <2>1, FS_Injection
<1>6. \A x \in S : \E k \in 1..n : f[k] = x
  BY <1>5 DEF Surjection
<1> HIDE DEF n
<1>7. Len(f) = n
  <2>1. f \in Seq(S)
    BY <1>1, <1>2
  <2> QED
    BY <1>1, <1>2, <2>1
<1> QED
  BY <1>1, <1>2, <1>6, <1>7 DEF Lists

Steps(f, o, objects, args, n) ==
    f = [k \in 0..n |-> IF k = 0 THEN o ELSE Dispatch(f[k - 1], objects[k], args)]

GoesOn(w, objects, args) == \A k \in 1..Len(objects) : w[k] = Dispatch(w[k - 1], objects[k], args)

LEMMA EachIs ==
    ASSUME NEW o, NEW objects, NEW args, Len(objects) \in Nat,
           NEW w, w[0] = o, GoesOn(w, objects, args)
    PROVE  DispatchEach(o, objects, args) = w[Len(objects)]
<1> DEFINE n == Len(objects)
           g == CHOOSE h : Steps(h, o, objects, args, n)
           f == [k \in 0..n |-> w[k]]
<1>1. DispatchEach(o, objects, args) = g[n]
  BY DEF DispatchEach, Steps
<1>2. Steps(f, o, objects, args, n)
  <2>1. \A k \in 0..n : f[k] = IF k = 0 THEN o ELSE Dispatch(f[k - 1], objects[k], args)
    <3> TAKE k \in 0..n
    <3>1. CASE k = 0
      BY <3>1
    <3>2. CASE k # 0
      <4>1. k \in 1..n /\ k - 1 \in 0..n
        BY <3>2
      <4>2. w[k] = Dispatch(w[k - 1], objects[k], args)
        BY <4>1 DEF GoesOn
      <4> QED
        BY <3>2, <4>1, <4>2
    <3> QED
      BY <3>1, <3>2
  <2>2. f = [k \in 0..n |-> f[k]]
    OBVIOUS
  <2> HIDE DEF f
  <2> QED
    BY <2>1, <2>2 DEF Steps
<1>3. Steps(g, o, objects, args, n)
  BY <1>2
<1> HIDE DEF g
<1>4. ASSUME NEW h, Steps(h, o, objects, args, n)
      PROVE  h[0] = o /\ \A k \in 1..n : h[k] = Dispatch(h[k - 1], objects[k], args)
  <2>1. h[0] = o
    BY <1>4 DEF Steps
  <2>2. ASSUME NEW k, k \in 1..n
        PROVE  h[k] = Dispatch(h[k - 1], objects[k], args)
    <3>1. k \in 0..n /\ k # 0
      BY <2>2
    <3> QED
      BY <1>4, <3>1 DEF Steps
  <2> QED
    BY <2>1, <2>2
<1>5. f[n] = w[n]
  OBVIOUS
<1> HIDE DEF f
<1>6. f[0] = g[0] /\ GoOnAlike(f, g, n)
  BY <1>2, <1>3, <1>4 DEF GoOnAlike
<1>7. \A k \in 0..n : f[k] = g[k]
  BY <1>6, Agree
<1> QED
  BY <1>1, <1>5, <1>7

LEMMA FlipAdds ==
    ASSUME NEW o, NEW S, NEW c, c \notin S, NEW T, T = S \cup {c}
    PROVE  Flip(Flip(o, S), {c}) = Flip(o, T)
  BY DEF Flip

\* The first k of a list.
First(objects, k) == {objects[j] : j \in 1..k}

LEMMA FirstGrows ==
    ASSUME NEW objects, NEW S, Lists(objects, S)
    PROVE  /\ First(objects, 0) = {} /\ First(objects, Len(objects)) = S
           /\ \A k \in 1..Len(objects) : /\ First(objects, k) = First(objects, k - 1) \cup {objects[k]}
                              /\ objects[k] \notin First(objects, k - 1)
                              /\ objects[k] \in S
<1>1. Len(objects) \in Nat
  BY DEF Lists
<1>2. First(objects, 0) = {} /\ First(objects, Len(objects)) = S
  BY DEF Lists, First
<1>3. ASSUME NEW k, k \in 1..Len(objects)
      PROVE  /\ First(objects, k) = First(objects, k - 1) \cup {objects[k]}
             /\ objects[k] \notin First(objects, k - 1)
             /\ objects[k] \in S
  <2>1. 1..k = (1..k - 1) \cup {k} /\ \A j \in 1..k - 1 : j \in 1..Len(objects) /\ j # k
    BY <1>1, <1>3
  <2>2. First(objects, k) = First(objects, k - 1) \cup {objects[k]}
    BY <2>1 DEF First
  <2>3. objects[k] \notin First(objects, k - 1)
    BY <1>3, <2>1 DEF First, Lists
  <2> QED
    BY <1>3, <2>2, <2>3 DEF Lists
<1> QED
  BY <1>2, <1>3

LEMMA NothingSet ==
    ASSUME NEW o, IsState(o), NEW v
    PROVE  Set(o, {}, v) = o /\ Flip(o, {}) = o
  BY DEF Set, Flip, IsState

\* The message args sets, or flips, each cell of S whose address it is sent to.
SetsIt(S, args, v) == \A c \in S : \A m : Dispatch(m, c, args) = Set(m, {c}, v)
FlipsIt(S, args) == \A c \in S : \A m : Dispatch(m, c, args) = Flip(m, {c})

LEMMA EachSets ==
    ASSUME NEW o, IsState(o), NEW objects, NEW args, NEW S, Lists(objects, S), NEW v,
           SetsIt(S, args, v)
    PROVE  DispatchEach(o, objects, args) = Set(o, S, v)
<1> DEFINE w == [k \in 0..Len(objects) |-> Set(o, First(objects, k), v)]
<1>1. Len(objects) \in Nat
  BY DEF Lists
<1>2. \A k \in 0..Len(objects) : w[k] = Set(o, First(objects, k), v)
  OBVIOUS
<1> HIDE DEF w
<1>3. w[0] = o /\ w[Len(objects)] = Set(o, S, v)
  <2>1. w[0] = Set(o, {}, v) /\ w[Len(objects)] = Set(o, S, v)
    <3>1. 0 \in 0..Len(objects) /\ Len(objects) \in 0..Len(objects)
      BY <1>1
    <3>2. First(objects, 0) = {} /\ First(objects, Len(objects)) = S
      BY FirstGrows
    <3> QED
      BY <1>2, <3>1, <3>2
  <2> QED
    BY <2>1, NothingSet
<1>4. GoesOn(w, objects, args)
  <2> SUFFICES ASSUME NEW k, k \in 1..Len(objects) PROVE w[k] = Dispatch(w[k - 1], objects[k], args)
    BY DEF GoesOn
  <2> DEFINE before == First(objects, k - 1)
             after == First(objects, k)
             next == objects[k]
  <2>1. k \in 0..Len(objects) /\ k - 1 \in 0..Len(objects)
    BY <1>1
  <2>2. after = before \cup {next} /\ next \in S
    BY FirstGrows
  <2>3. w[k] = Set(o, after, v) /\ w[k - 1] = Set(o, before, v)
    BY <1>2, <2>1, <2>2
  <2> HIDE DEF before, after, next
  <2>4. Dispatch(w[k - 1], next, args) = Set(Set(o, before, v), {next}, v)
    BY <2>2, <2>3 DEF SetsIt
  <2>5. Set(Set(o, before, v), {next}, v) = Set(o, after, v)
    BY <2>2 DEF Set
  <2>6. Dispatch(w[k - 1], next, args) = w[k]
    BY <2>3, <2>4, <2>5, Zenon
  <2> QED
    BY <2>6 DEF next
<1>5. DispatchEach(o, objects, args) = w[Len(objects)]
  BY <1>1, <1>3, <1>4, EachIs
<1> QED
  BY <1>3, <1>5

LEMMA EachFlips ==
    ASSUME NEW o, IsState(o), NEW objects, NEW args, NEW S, Lists(objects, S),
           FlipsIt(S, args)
    PROVE  DispatchEach(o, objects, args) = Flip(o, S)
<1> DEFINE w == [k \in 0..Len(objects) |-> Flip(o, First(objects, k))]
<1>1. Len(objects) \in Nat
  BY DEF Lists
<1>2. \A k \in 0..Len(objects) : w[k] = Flip(o, First(objects, k))
  OBVIOUS
<1> HIDE DEF w
<1>3. w[0] = o /\ w[Len(objects)] = Flip(o, S)
  <2>1. w[0] = Flip(o, {}) /\ w[Len(objects)] = Flip(o, S)
    <3>1. 0 \in 0..Len(objects) /\ Len(objects) \in 0..Len(objects)
      BY <1>1
    <3>2. First(objects, 0) = {} /\ First(objects, Len(objects)) = S
      BY FirstGrows
    <3> QED
      BY <1>2, <3>1, <3>2
  <2> QED
    BY <2>1, NothingSet
<1>4. GoesOn(w, objects, args)
  <2> SUFFICES ASSUME NEW k, k \in 1..Len(objects) PROVE w[k] = Dispatch(w[k - 1], objects[k], args)
    BY DEF GoesOn
  <2> DEFINE before == First(objects, k - 1)
             after == First(objects, k)
             next == objects[k]
  <2>1. k \in 0..Len(objects) /\ k - 1 \in 0..Len(objects)
    BY <1>1
  <2>2. after = before \cup {next} /\ next \in S /\ next \notin before
    BY FirstGrows
  <2>3. w[k] = Flip(o, after) /\ w[k - 1] = Flip(o, before)
    BY <1>2, <2>1, <2>2
  <2> HIDE DEF before, after, next
  <2>4. Dispatch(w[k - 1], next, args) = Flip(Flip(o, before), {next})
    BY <2>2, <2>3 DEF FlipsIt
  <2>5. Flip(Flip(o, before), {next}) = Flip(o, after)
    BY <2>2, FlipAdds
  <2>6. Dispatch(w[k - 1], next, args) = w[k]
    BY <2>3, <2>4, <2>5, Zenon
  <2> QED
    BY <2>6 DEF next
<1>5. DispatchEach(o, objects, args) = w[Len(objects)]
  BY <1>1, <1>3, <1>4, EachIs
<1> QED
  BY <1>3, <1>5

FlagsIt(S, args) == \A c \in S : \A m : Command(m, c, args) = SetOrFlip(m, {c}, args)

LEMMA EachFlags ==
    ASSUME NEW o, IsState(o), NEW objects, NEW args, args # <<>>, NEW S, Lists(objects, S), FlagsIt(S, args)
    PROVE  DispatchEach(o, objects, args) = SetOrFlip(o, S, args)
<1>1. CASE ArgIsToggle(args)
  <2>1. FlipsIt(S, args)
    BY <1>1, DispatchWithArgument DEF FlipsIt, FlagsIt, SetOrFlip
  <2>2. DispatchEach(o, objects, args) = Flip(o, S)
    BY <2>1, EachFlips
  <2> QED
    BY <1>1, <2>2 DEF SetOrFlip
<1>2. CASE ~ArgIsToggle(args)
  <2> DEFINE v == Bit(ArgBool(args, FALSE))
  <2>1. \A m, cs : SetOrFlip(m, cs, args) = Set(m, cs, v)
    BY <1>2 DEF SetOrFlip
  <2> HIDE DEF v
  <2>2. SetsIt(S, args, v)
    BY <2>1, DispatchWithArgument DEF SetsIt, FlagsIt
  <2>3. DispatchEach(o, objects, args) = Set(o, S, v)
    BY <2>2, EachSets
  <2> QED
    BY <2>1, <2>3
<1> QED
  BY <1>1, <1>2

LEMMA EachOfNone ==
    ASSUME NEW o, NEW objects, NEW args, Lists(objects, {})
    PROVE  DispatchEach(o, objects, args) = o
<1> DEFINE w == [k \in {0} |-> o]
<1>1. Len(objects) = 0
  <2>1. Len(objects) \in Nat /\ \A k \in 1..Len(objects) : FALSE
    BY DEF Lists
  <2>2. Len(objects) # 0 => 1 \in 1..Len(objects)
    BY <2>1
  <2> QED
    BY <2>1, <2>2
<1>2. w[0] = o
  OBVIOUS
<1> HIDE DEF w
<1>3. GoesOn(w, objects, args)
  BY <1>1 DEF GoesOn
<1>4. DispatchEach(o, objects, args) = w[Len(objects)]
  <2>1. Len(objects) \in Nat
    BY <1>1
  <2> QED
    BY <1>2, <1>3, <2>1, EachIs
<1> QED
  BY <1>1, <1>2, <1>4

LEMMA EachOfOne ==
    ASSUME NEW o, NEW objects, NEW args, NEW c, Lists(objects, {c})
    PROVE  DispatchEach(o, objects, args) = Dispatch(o, c, args)
<1> DEFINE w == [k \in {0, 1} |-> IF k = 0 THEN o ELSE Dispatch(o, c, args)]
<1>1. /\ Len(objects) \in Nat
      /\ \A k \in 1..Len(objects) : objects[k] = c
      /\ \A j, k \in 1..Len(objects) : objects[j] = objects[k] => j = k
      /\ \E k \in 1..Len(objects) : objects[k] = c
  BY DEF Lists
<1>2. Len(objects) = 1
  <2>1. Len(objects) >= 1
    BY <1>1
  <2>2. Len(objects) >= 2 => 1 \in 1..Len(objects) /\ 2 \in 1..Len(objects)
    BY <1>1
  <2>3. ~(Len(objects) >= 2)
    <3>1. ASSUME Len(objects) >= 2
          PROVE  FALSE
      <4>1. objects[1] = c /\ objects[2] = c
        BY <1>1, <2>2, <3>1
      <4> QED
        BY <1>1, <2>2, <3>1, <4>1
    <3> QED
      BY <3>1
  <2> QED
    BY <1>1, <2>1, <2>3
<1>3. w[0] = o /\ w[1] = Dispatch(o, c, args)
  OBVIOUS
<1> HIDE DEF w
<1>4. GoesOn(w, objects, args)
  <2>1. objects[1] = c
    BY <1>1, <1>2
  <2>2. \A k \in 1..Len(objects) : k = 1 /\ k - 1 = 0
    BY <1>2
  <2> QED
    BY <1>3, <2>1, <2>2 DEF GoesOn
<1>5. DispatchEach(o, objects, args) = w[Len(objects)]
  BY <1>1, <1>3, <1>4, EachIs
<1> QED
  BY <1>2, <1>3, <1>5

LEMMA EachMute ==
    ASSUME NEW o, Typed(o), NEW a, Len(a) = 2, a[1] = "mute", NEW args, args # <<>>,
           NEW objects, objects \in SetToSeqs(Polled(o, a))
    PROVE  Command(o, a, args) = DispatchEach(o, objects, args)
<1> DEFINE cs == {<<"mute", i>> : i \in VisitInputs(a[2])}
<1>1. Command(o, a, args) = SetOrFlip(o, cs, args)
  BY MuteRoute
<1>2. Polled(o, a) = cs
  BY PolledInputs
<1>3. IsFiniteSet(cs)
  BY MutesFinite
<1>4. FlagsIt(cs, args)
  <2>1. ASSUME NEW i \in VisitInputs(a[2]), NEW m
        PROVE  Command(m, <<"mute", i>>, args) = SetOrFlip(m, {<<"mute", i>>}, args)
    <3> DEFINE c == <<"mute", i>>
    <3>1. i \in Inputs /\ c[1] = "mute" /\ Len(c) = 2 /\ c[2] = i
      BY DEF VisitInputs
    <3> HIDE DEF c
    <3>2. Command(m, c, args) = SetOrFlip(m, {<<"mute", j>> : j \in VisitInputs(c[2])}, args)
      BY <3>1, MuteRoute
    <3>3. VisitInputs(c[2]) = {i}
      BY <3>1, VisitOneInput
    <3>4. {<<"mute", j>> : j \in VisitInputs(c[2])} = {c}
      BY <3>3 DEF c
    <3> QED
      BY <3>2, <3>4 DEF c
  <2> QED
    BY <2>1 DEF FlagsIt
<1> HIDE DEF cs
<1>5. Lists(objects, cs)
  BY <1>2, <1>3, ListOfSet
<1>6. DispatchEach(o, objects, args) = SetOrFlip(o, cs, args)
  BY <1>4, <1>5, EachFlags DEF Typed
<1> QED
  BY <1>1, <1>6

LEMMA EachFlag ==
    ASSUME NEW o, Typed(o), NEW r, r = "visible" \/ r = "locked", NEW a, Len(a) = 3, a[1] = r,
           NEW args, args # <<>>, NEW objects, objects \in SetToSeqs(Polled(o, a))
    PROVE  Command(o, a, args) = DispatchEach(o, objects, args)
<1> DEFINE S == VisitItems(o, a[2], a[3])
           cs == {<<r, x[1], x[2]>> : x \in S}
<1>1. Command(o, a, args) = SetOrFlip(o, cs, args)
  BY FlagRoute
<1>2. Polled(o, a) = cs
  BY PolledItems
<1>3. IsFiniteSet(cs)
  <2>1. S \subseteq ItemNames
    BY DEF VisitItems
  <2> HIDE DEF S
  <2>2. IsFiniteSet(S)
    BY <2>1, ItemNamesFinite, SubsetFinite
  <2>3. \A q : IsFiniteSet({<<q, x[1], x[2]>> : x \in S})
    BY <2>2, PairsFinite
  <2> QED
    BY <2>3
<1>4. FlagsIt(cs, args)
  <2>1. ASSUME NEW x, x \in S, NEW m
        PROVE  Command(m, <<r, x[1], x[2]>>, args) = SetOrFlip(m, {<<r, x[1], x[2]>>}, args)
    <3> DEFINE c == <<r, x[1], x[2]>>
    <3>1. x \in ItemNames /\ c[1] = r /\ Len(c) = 3 /\ c[2] = x[1] /\ c[3] = x[2]
      BY <2>1 DEF VisitItems
    <3> HIDE DEF c
    <3>2. Command(m, c, args) =
              SetOrFlip(m, {<<r, y[1], y[2]>> : y \in VisitItems(m, c[2], c[3])}, args)
      BY <3>1, FlagRoute
    <3>3. VisitItems(m, c[2], c[3]) = {x}
      BY <3>1, VisitOneItem
    <3>4. {<<r, y[1], y[2]>> : y \in VisitItems(m, c[2], c[3])} = {c}
      BY <3>3 DEF c
    <3> QED
      BY <3>2, <3>4 DEF c
  <2> HIDE DEF S
  <2> QED
    BY <2>1 DEF FlagsIt
<1> HIDE DEF cs
<1>5. Lists(objects, cs)
  BY <1>2, <1>3, ListOfSet
<1>6. DispatchEach(o, objects, args) = SetOrFlip(o, cs, args)
  BY <1>4, <1>5, EachFlags DEF Typed
<1> QED
  BY <1>1, <1>6

LEMMA EachEnabled ==
    ASSUME NEW o, Typed(o), NEW a, Len(a) = 3, a[1] = "filter", NEW args, args # <<>>,
           NEW objects, objects \in SetToSeqs(Polled(o, a))
    PROVE  Command(o, a, args) = DispatchEach(o, objects, args)
<1> DEFINE S == VisitFilters(a[2], a[3])
           cs == {<<"filter", x[1], x[2]>> : x \in S}
<1>1. Command(o, a, args) = SetOrFlip(o, cs, args)
  BY EnabledRoute
<1>2. Polled(o, a) = cs
  BY PolledFilters
<1>3. S \subseteq FilterNames /\ IsFiniteSet(S)
  BY FilterVisited, VisitFiltersFinite
<1> HIDE DEF S
<1>4. IsFiniteSet(cs)
  BY <1>3, PairsFinite
<1>5. FlagsIt(cs, args)
  <2>1. ASSUME NEW x, x \in S, NEW m
        PROVE  Command(m, <<"filter", x[1], x[2]>>, args) = SetOrFlip(m, {<<"filter", x[1], x[2]>>}, args)
    <3> DEFINE c == <<"filter", x[1], x[2]>>
    <3>1. x \in FilterNames /\ c[1] = "filter" /\ Len(c) = 3 /\ c[2] = x[1] /\ c[3] = x[2]
      BY <1>3, <2>1
    <3> HIDE DEF c
    <3>2. Command(m, c, args) =
              SetOrFlip(m, {<<"filter", y[1], y[2]>> : y \in VisitFilters(c[2], c[3])}, args)
      BY <3>1, EnabledRoute
    <3>3. VisitFilters(c[2], c[3]) = {x}
      BY <3>1, VisitOneFilter
    <3>4. {<<"filter", y[1], y[2]>> : y \in VisitFilters(c[2], c[3])} = {c}
      BY <3>3 DEF c
    <3> QED
      BY <3>2, <3>4 DEF c
  <2> QED
    BY <2>1 DEF FlagsIt
<1> HIDE DEF cs
<1>6. Lists(objects, cs)
  BY <1>2, <1>4, ListOfSet
<1>7. DispatchEach(o, objects, args) = SetOrFlip(o, cs, args)
  BY <1>5, <1>6, EachFlags DEF Typed
<1> QED
  BY <1>1, <1>7

LEMMA EachTransform ==
    ASSUME NEW o, Typed(o), NEW a, Len(a) = 4, a[1] = "transform", NEW args, args # <<>>,
           NEW objects, objects \in SetToSeqs(Polled(o, a))
    PROVE  Command(o, a, args) = DispatchEach(o, objects, args)
<1> DEFINE f == a[4]
           v == ArgFloat(args, 0)
           S == VisitItems(o, a[2], a[3])
           cs == {<<"transform", x[1], x[2], f>> : x \in S}
<1>1. Command(o, a, args) = WriteTransform(o, a[2], a[3], f, v)
  BY TransformRoute
<1>2. Polled(o, a) = PollTransform(o, a[2], a[3], {f} \cap Fields)
  BY PolledFields
<1>3. CASE f \notin Fields
  <2>1. Polled(o, a) = {}
    BY <1>2, <1>3 DEF PollTransform
  <2>2. IsFiniteSet({})
    BY FS_EmptySet
  <2>3. Lists(objects, {})
    BY <2>1, <2>2, ListOfSet
  <2>4. Command(o, a, args) = o
    BY <1>1, <1>3 DEF WriteTransform
  <2> QED
    BY <2>3, <2>4, EachOfNone
<1>4. CASE f \in Fields
  <2>1. \A m, s, i : PollTransform(m, s, i, {f}) =
                         {<<"transform", x[1], x[2], f>> : x \in VisitItems(m, s, i)}
    BY DEF PollTransform
  <2>2. {f} \cap Fields = {f}
    BY <1>4
  <2>3. Polled(o, a) = cs /\ Command(o, a, args) = Set(o, cs, v)
    BY <1>1, <1>2, <1>4, <2>1, <2>2 DEF WriteTransform
  <2>4. S \subseteq ItemNames
    BY DEF VisitItems
  <2> HIDE DEF S
  <2>5. IsFiniteSet(S)
    BY <2>4, ItemNamesFinite, SubsetFinite
  <2>6. IsFiniteSet(cs)
    <3>1. \A q, p : IsFiniteSet({<<q, x[1], x[2], p>> : x \in S})
      BY <2>5, TriplesFinite
    <3> QED
      BY <3>1
  <2>7. SetsIt(cs, args, v)
    <3>1. ASSUME NEW x, x \in S, NEW m
          PROVE  Dispatch(m, <<"transform", x[1], x[2], f>>, args) =
                     Set(m, {<<"transform", x[1], x[2], f>>}, v)
      <4> DEFINE c == <<"transform", x[1], x[2], f>>
      <4>1. x \in ItemNames /\ c[1] = "transform" /\ Len(c) = 4 /\ c[2] = x[1] /\ c[3] = x[2] /\ c[4] = f
        BY <2>4, <3>1
      <4> HIDE DEF c, f
      <4>2. Dispatch(m, c, args) = Command(m, c, args)
        BY DispatchWithArgument
      <4>3. Command(m, c, args) = WriteTransform(m, c[2], c[3], c[4], v)
        BY <4>1, TransformRoute
      <4>4. Command(m, c, args) = Set(m, PollTransform(m, x[1], x[2], {f}), v)
        BY <1>4, <4>1, <4>3 DEF WriteTransform
      <4>5. VisitItems(m, x[1], x[2]) = {x}
        BY <4>1, VisitOneItem
      <4>6. PollTransform(m, x[1], x[2], {f}) =
                {<<"transform", y[1], y[2], f>> : y \in VisitItems(m, x[1], x[2])}
        BY DEF PollTransform
      <4>7. {<<"transform", y[1], y[2], f>> : y \in VisitItems(m, x[1], x[2])} = {c}
        BY <4>5 DEF c
      <4>8. Dispatch(m, c, args) = Set(m, {c}, v)
        BY <4>2, <4>4, <4>6, <4>7
      <4> QED
        BY <4>8 DEF c
    <3> HIDE DEF v, f
    <3>2. ASSUME NEW c, c \in cs, NEW m
          PROVE  Dispatch(m, c, args) = Set(m, {c}, v)
      <4>1. PICK x \in S : c = <<"transform", x[1], x[2], f>>
        BY <3>2
      <4> QED
        BY <3>1, <4>1
    <3> HIDE DEF cs
    <3> QED
      BY <3>2 DEF SetsIt
  <2> HIDE DEF cs, v
  <2>8. Lists(objects, cs)
    BY <2>3, <2>6, ListOfSet
  <2>9. DispatchEach(o, objects, args) = Set(o, cs, v)
    BY <2>7, <2>8, EachSets DEF Typed
  <2> QED
    BY <2>3, <2>9
<1> QED
  BY <1>3, <1>4

LEMMA EachParam ==
    ASSUME NEW o, Typed(o), NEW a, Len(a) = 4, a[1] = "filter", a[4] \in Scalars, NEW args, args # <<>>,
           NEW objects, objects \in SetToSeqs(Polled(o, a))
    PROVE  Command(o, a, args) = DispatchEach(o, objects, args)
<1> DEFINE p == a[4]
           v == ParamValue(p, args)
           S == ResolveFilters(a[2], a[3])
           cs == {<<"filter", x[1], x[2], p>> : x \in S}
<1>1. p \in DOMAIN Params /\ p # "params" /\ p \in Scalars
  BY CommandsAssumption DEF Scalars
<1>2. Command(o, a, args) = Set(o, cs, v)
  BY <1>1, ParamRoute DEF WriteParam
<1>3. Polled(o, a) = cs
  <2>1. {p} \cap Scalars = {p}
    BY <1>1
  <2>2. Polled(o, a) = PollFilterParams(a[2], a[3], {p})
    BY <1>1, PolledFields
  <2> DEFINE T == {p} \cap Scalars
             R == ResolveFilters(a[2], a[3])
  <2>3. T = {p}
    BY <2>1
  <2>4. Polled(o, a) = {<<"filter", x[1], x[2], q>> : x \in R, q \in T}
    BY <2>2 DEF PollFilterParams
  <2>5. cs = {<<"filter", x[1], x[2], p>> : x \in R}
    OBVIOUS
  <2> HIDE DEF p, T, R, cs
  <2> QED
    BY <2>3, <2>4, <2>5
<1>4. S \subseteq FilterNames /\ IsFiniteSet(S)
  BY FilterVisited, ResolveFiltersFinite
<1> HIDE DEF S
<1>5. IsFiniteSet(cs)
  <2>1. \A q, w : IsFiniteSet({<<q, x[1], x[2], w>> : x \in S})
    BY <1>4, TriplesFinite
  <2> QED
    BY <2>1
<1>6. SetsIt(cs, args, v)
  <2>1. ASSUME NEW x, x \in S, NEW m
        PROVE  Dispatch(m, <<"filter", x[1], x[2], p>>, args) = Set(m, {<<"filter", x[1], x[2], p>>}, v)
    <3> DEFINE c == <<"filter", x[1], x[2], p>>
    <3>1. x \in FilterNames /\ c[1] = "filter" /\ Len(c) = 4 /\ c[2] = x[1] /\ c[3] = x[2] /\ c[4] = p
      BY <1>4, <2>1
    <3> HIDE DEF c, p
    <3>2. Dispatch(m, c, args) = Command(m, c, args)
      BY DispatchWithArgument
    <3>3. Command(m, c, args) = WriteParam(m, x[1], x[2], p, args)
      BY <1>1, <3>1, ParamRoute
    <3>4. Command(m, c, args) = Set(m, {<<"filter", y[1], y[2], p>> : y \in ResolveFilters(x[1], x[2])}, v)
      BY <1>1, <3>3 DEF WriteParam
    <3>5. ResolveFilters(x[1], x[2]) = {x}
      BY <3>1, VisitOneFilter
    <3>6. {<<"filter", y[1], y[2], p>> : y \in ResolveFilters(x[1], x[2])} = {c}
      BY <3>5 DEF c
    <3> QED
      BY <3>2, <3>4, <3>6 DEF c
  <2> HIDE DEF v, p
  <2> QED
    BY <2>1 DEF SetsIt
<1> HIDE DEF cs, v
<1>7. Lists(objects, cs)
  BY <1>3, <1>5, ListOfSet
<1>8. DispatchEach(o, objects, args) = Set(o, cs, v)
  BY <1>6, <1>7, EachSets DEF Typed
<1> QED
  BY <1>2, <1>8

\* A message to one object, and one to none.
LEMMA EachIfOne ==
    ASSUME NEW o, NEW a, NEW args, args # <<>>, NEW objects, objects \in SetToSeqs(Polled(o, a)),
           \/ Polled(o, a) = {a}
           \/ Polled(o, a) = {} /\ Command(o, a, args) = o
    PROVE  Command(o, a, args) = DispatchEach(o, objects, args)
<1>1. CASE Polled(o, a) = {a}
  <2>1. IsFiniteSet({a})
    BY FS_Singleton
  <2>2. Lists(objects, {a})
    BY <1>1, <2>1, ListOfSet
  <2> QED
    BY <2>2, EachOfOne, DispatchWithArgument
<1>2. CASE Polled(o, a) = {} /\ Command(o, a, args) = o
  <2>1. IsFiniteSet({})
    BY FS_EmptySet
  <2>2. Lists(objects, {})
    BY <1>2, <2>1, ListOfSet
  <2> QED
    BY <1>2, <2>2, EachOfNone
<1> QED
  BY <1>1, <1>2

LEMMA EachFader ==
    ASSUME NEW o, Typed(o), NEW r, r = "volume" \/ r = "db", NEW a, a \in Seq(STRING), Len(a) = 2,
           a[1] = r, NEW args, args # <<>>, NEW objects, objects \in SetToSeqs(Polled(o, a))
    PROVE  Command(o, a, args) = DispatchEach(o, objects, args)
<1>1. Polled(o, a) = {<<r, i>> : i \in {a[2]} \cap Inputs}
  BY PolledInputs
<1>2. CASE a[2] \in Inputs
  <2>1. a = <<r, a[2]>>
    OBVIOUS
  <2>2. {<<r, i>> : i \in {a[2]} \cap Inputs} = {<<r, a[2]>>}
    BY <1>2
  <2> QED
    BY <1>1, <2>1, <2>2, EachIfOne
<1>3. CASE a[2] \notin Inputs
  <2>1. {a[2]} \cap Inputs = {}
    BY <1>3
  <2>2. Polled(o, a) = {}
    BY <1>1, <2>1
  <2>3. {<<"volume", i>> : i \in {a[2]} \cap Inputs} = {}
    BY <2>1
  <2>4. \A v : Set(o, {}, v) = o
    BY NothingSet DEF Typed
  <2>5. /\ r = "volume" => Command(o, a, args) = Set(o, {}, Multiplier(ArgFloat(args, -1)))
        /\ r = "db" => Command(o, a, args) = Set(o, {}, Gain(ArgFloat(args, 0)))
    <3>1. CASE r = "volume"
      BY <2>3, <3>1, VolumeRoute
    <3>2. CASE r = "db"
      BY <2>3, <3>2, DbRoute
    <3> QED
      BY <3>1, <3>2
  <2>6. Command(o, a, args) = o
    BY <2>4, <2>5
  <2> QED
    BY <2>2, <2>6, EachIfOne
<1> QED
  BY <1>2, <1>3

LEMMA EachOrder ==
    ASSUME NEW o, Typed(o), NEW a, a \in Seq(STRING), Len(a) = 3, a[1] = "order", a[2] # "*", Exact(a[3]),
           NEW args, args # <<>>, NEW objects, objects \in SetToSeqs(Polled(o, a))
    PROVE  Command(o, a, args) = DispatchEach(o, objects, args)
<1> DEFINE s == a[2]
           i == a[3]
<1>1. Polled(o, a) = {<<"order", x[1], x[2]>> : x \in VisitItems(o, s, i)}
  BY PolledItems
<1>2. CASE <<s, i>> \in ItemNames
  <2> DEFINE x == <<s, i>>
  <2>1. x \in ItemNames /\ x[1] = s /\ x[2] = i
    BY <1>2
  <2> HIDE DEF x
  <2>2. VisitItems(o, s, i) = {x}
    BY <2>1, VisitOneItem
  <2>3. a = <<"order", s, i>>
    OBVIOUS
  <2>4. {<<"order", y[1], y[2]>> : y \in VisitItems(o, s, i)} = {<<"order", s, i>>}
    BY <2>1, <2>2
  <2> QED
    BY <1>1, <2>3, <2>4, EachIfOne
<1>3. CASE <<s, i>> \notin ItemNames
  <2>1. \A x \in VisitItems(o, s, i) : x \in ItemNames /\ x[1] = s /\ x[2] = i
    BY DEF VisitItems, SelectorMatches, Matches, Exact
  <2>2. VisitItems(o, s, i) = {}
    BY <1>3, <2>1, ItemNamed
  <2>3. Polled(o, a) = {}
    BY <1>1, <2>2
  <2>4. Command(o, a, args) = MoveItems(o, s, i, ArgInt(args, -1))
    BY OrderRoute
  <2>5. \A p : MoveItems(o, s, i, p) = o
    BY <1>3, MoveOne DEF MovedIf
  <2>6. Command(o, a, args) = o
    BY <2>4, <2>5
  <2> QED
    BY <2>3, <2>6, EachIfOne
<1> QED
  BY <1>2, <1>3

(***************************************************************************)
(* A command on a pattern or an index does what the commands that name the *)
(* objects it selects do, whatever the order they are sent in.             *)
(***************************************************************************)
THEOREM PatternIsEachAlways == Spec => []PatternIsEach
<1>1. ASSUME Typed(cells)
      PROVE  PatternIsEach
  <2> SUFFICES ASSUME NEW a \in Setters, NEW args \in Arguments \ {<<>>},
                      NEW objects \in SetToSeqs(Polled(cells, a)), a[1] # "studio"
               PROVE  Dispatch(cells, a, args) = DispatchEach(cells, objects, args)
    BY DEF PatternIsEach
  <2>1. a \in Seq(STRING) /\ args # <<>>
    BY MessagesAssumption DEF Setters, Sent
  <2> DEFINE each == DispatchEach(cells, objects, args)
  <2>2. Command(cells, a, args) = each
    <3> HIDE DEF each
    <3>1. CASE Len(a) = 2 /\ a[1] = "mute"
      BY <1>1, <2>1, <3>1, EachMute DEF each
    <3>2. CASE Len(a) = 2 /\ a[1] \in {"volume", "db"}
      BY <1>1, <2>1, <3>2, EachFader DEF each
    <3>3. CASE Len(a) = 3 /\ a[1] \in {"visible", "locked"}
      BY <1>1, <2>1, <3>3, EachFlag DEF each
    <3>4. CASE Len(a) = 3 /\ a[1] = "filter"
      BY <1>1, <2>1, <3>4, EachEnabled DEF each
    <3>5. CASE Len(a) = 3 /\ a[1] = "order" /\ a[2] # "*" /\ Exact(a[3])
      BY <1>1, <2>1, <3>5, EachOrder DEF each
    <3>6. CASE Len(a) = 4 /\ a[1] = "transform"
      BY <1>1, <2>1, <3>6, EachTransform DEF each
    <3>7. CASE Len(a) = 4 /\ a[1] = "filter" /\ a[4] \in Scalars
      BY <1>1, <2>1, <3>7, EachParam DEF each
    <3>8. a = <<"studio">> => a[1] = "studio"
      OBVIOUS
    <3> QED
      BY <3>1, <3>2, <3>3, <3>4, <3>5, <3>6, <3>7, <3>8 DEF Setters
  <2> QED
    BY <2>1, <2>2, DispatchWithArgument
<1> QED
  BY <1>1, TypedAlways, PTL DEF TypeOK

-----------------------------------------------------------------------------
\* Feedback. The signals that are limited, and what changes without one.

\* Addresses of cells that throttled() has a key for.
LEMMA LimitedCell ==
    ASSUME NEW c \in Cells, LimitKey(c) # <<>>
    PROVE  /\ c[1] \in {"volume", "order", "transform"}
           /\ c[1] = "volume" => (\E i \in Inputs : c = <<"volume", i>>) /\ LimitKey(c) = c
           /\ c[1] = "order" => LimitKey(c) = <<"order", c[2]>>
           /\ c[1] = "transform" => /\ \E x \in ItemNames, f \in Fields : c = <<"transform", x[1], x[2], f>>
                                    /\ LimitKey(c) = <<"transform", c[2], c[3]>>
<1>1. c[1] \in {"volume", "order", "transform"}
  BY DEF LimitKey
<1>2. c \notin Bare
  BY <1>1, BareNames
<1>3. /\ c[1] = "volume" => \E i \in Inputs : c = <<"volume", i>>
      /\ c[1] = "transform" => \E x \in ItemNames, f \in Fields : c = <<"transform", x[1], x[2], f>>
  BY <1>1, <1>2, CellKinds
<1> QED
  BY <1>1, <1>3 DEF LimitKey

LEMMA SignalKeys ==
    ASSUME NEW o, NEW a, NEW args, NEW k \in Signals(o, a, args)
    PROVE  LimitKey(k) = k /\ k # <<>>
<1>1. \/ \E i : k = <<"volume", i>>
      \/ \E s : k = <<"order", s>>
      \/ \E s, i : k = <<"transform", s, i>>
  BY DEF Signals
<1> QED
  BY <1>1 DEF LimitKey

LEMMA OthersStay ==
    ASSUME NEW o, IsState(o), NEW d, NEW v, NEW c \in Cells, c # d
    PROVE  [o EXCEPT ![d] = v][c] = o[c]
  BY DEF IsState

\* A selector that no item of a scene matches moves none.
LEMMA MovedInNone ==
    ASSUME NEW o, NEW s, s \in SceneNames, OrderIn(o, s), NEW selector, NEW p,
           \A i \in Range(Items[s]) : ~SelectorMatches(selector, i, o[<<"order", s, i>>])
    PROVE  MovedIn(o, s, selector, p) = o
<1> DEFINE L == Len(Items[s])
           w == [k \in 0..L |-> o]
<1>1. L \in Nat /\ \A k \in 1..L : Stack(o, s)[k] \in Range(Items[s])
  BY StackIs
<1>2. \A k \in 1..L : Visit(o, s, selector, Stack(o, s)[k], p) = o
  BY <1>1 DEF Visit
<1>3. Visits(w, o, s, selector, p, L)
  <2> HIDE DEF L
  <2>1. \A k \in 0..L : w[k] = IF k = 0 THEN o ELSE Visit(w[k - 1], s, selector, Stack(o, s)[k], p)
    <3> TAKE k \in 0..L
    <3>1. CASE k = 0
      BY <3>1
    <3>2. CASE k # 0
      <4>1. k \in 1..L /\ k - 1 \in 0..L
        BY <1>1, <3>2
      <4> QED
        BY <1>2, <3>2, <4>1
    <3> QED
      BY <3>1, <3>2
  <2>2. w = [k \in 0..L |-> w[k]]
    OBVIOUS
  <2> HIDE DEF w
  <2> QED
    BY <2>1, <2>2 DEF Visits
<1> HIDE DEF w
<1>4. MovedIn(o, s, selector, p) = w[L]
  BY <1>3, MovedInIs
<1>5. L \in 0..L
  BY <1>1
<1> QED
  BY <1>4, <1>5 DEF w

\* A cell whose reports are limited changes with a signal only.
LEMMA ChangesAreSignalled ==
    ASSUME NEW o, Typed(o), NEW a, NEW args, NEW c \in Cells, LimitKey(c) # <<>>,
           LimitKey(c) \notin Signals(o, a, args)
    PROVE  Dispatch(o, a, args)[c] = o[c]
<1> SUFFICES ASSUME ~(args = <<>> /\ Pollable(a)) PROVE Command(o, a, args)[c] = o[c]
  BY DEF Dispatch
<1> DEFINE n == Command(o, a, args)
<1>0. IsState(o) /\ DOMAIN o = Cells
  BY DEF Typed, IsState
<1>a. c[1] \in {"volume", "order", "transform"}
  BY LimitedCell
<1>b. ASSUME NEW d, c # d
      PROVE  \A v : [o EXCEPT ![d] = v][c] = o[c]
  BY <1>0, <1>b, OthersStay
<1>d. /\ \A r : r \notin {"volume", "order", "transform"} => c # <<r>>
      /\ c # <<"record", "paused">> /\ \A i : c # <<"media", i, "state">>
  BY <1>a
<1>c. ASSUME NEW cs, c \notin cs
      PROVE  SetOrFlip(o, cs, args)[c] = o[c] /\ \A v : Set(o, cs, v)[c] = o[c]
  <2>1. \A v : Set(o, cs, v)[c] = o[c]
    BY <1>0, <1>c, SetIs
  <2>2. Flip(o, cs)[c] = o[c]
    BY <1>0, <1>c, FlipIs
  <2> QED
    BY <2>1, <2>2 DEF SetOrFlip
<1>1. CASE a = <<"studio">>
  <2>0. c # <<"studio">> /\ c # <<"preview">>
    BY <1>d
  <2>1. \A v : [o EXCEPT ![<<"studio">>] = v][c] = o[c]
    BY <1>b, <2>0
  <2>2. \A v, w : [o EXCEPT ![<<"studio">>] = v, ![<<"preview">>] = w][c] = o[c]
    BY <1>0, <2>0
  <2>3. \A on : StudioMode(o, on)[c] = o[c]
    BY <2>1, <2>2 DEF StudioMode
  <2> QED
    BY <1>1, <2>3, StudioRoute DEF Studio
<1>2. CASE a \in {<<"transition">>, <<"transition", "go">>}
  <2>1. c # <<"program">>
    BY <1>d
  <2>2. \A v : [o EXCEPT ![<<"program">>] = v][c] = o[c]
    BY <1>b, <2>1
  <2>3. TriggerTransition(o)[c] = o[c]
    BY <2>2 DEF TriggerTransition
  <2> QED
    BY <1>2, <2>3, TransitionRoute
<1>s. ASSUME NEW selection, selection \notin {"volume", "order", "transform"}, NEW name, NEW names
      PROVE  Select(o, selection, name, names)[c] = o[c]
  BY <1>b, <1>d, <1>s DEF Select
<1>3. CASE a[1] \in {"transition", "profile", "collection"} /\ Len(a) = 2 /\ a # <<"transition", "go">>
  BY <1>3, <1>s, SelectRoute
<1>4. CASE a[1] = "program"
  <2>1. ProgramIndex(o, a[3])[c] = o[c]
    BY <1>b, <1>d DEF ProgramIndex
  <2> QED
    BY <1>4, <1>s, <2>1, ProgramRoute
<1>5. CASE a[1] = "preview"
  BY <1>5, <1>s, PreviewRoute
<1>6. CASE a[1] \in Outputs
  <2> DEFINE sub == IF Len(a) = 2 THEN a[2] ELSE ""
  <2>1. Command(o, a, args) = RunOutputCommand(o, a[1], sub, args)
    BY <1>6, OutputRoute
  <2> HIDE DEF sub
  <2>2. a[1] \notin {"volume", "order", "transform"}
    BY <1>6, OutputNames
  <2>3. \A b : StartOrStop(o, a[1], b)[c] = o[c]
    BY <1>b, <1>d, <2>2 DEF StartOrStop
  <2>4. Pause(o, args)[c] = o[c]
    BY <1>b, <1>d DEF Pause
  <2> QED
    BY <2>1, <2>3, <2>4 DEF RunOutputCommand
<1>7. CASE Len(a) = 2 /\ a[1] = "mute"
  <2> DEFINE cs == {<<"mute", i>> : i \in VisitInputs(a[2])}
  <2>1. n = SetOrFlip(o, cs, args)
    BY <1>7, MuteRoute
  <2>2. c \notin cs
    BY <1>a
  <2> HIDE DEF cs
  <2> QED
    BY <1>c, <2>1, <2>2
<1>8. CASE Len(a) = 2 /\ a[1] \in {"volume", "db"}
  <2> DEFINE cs == {<<"volume", i>> : i \in {a[2]} \cap Inputs}
  <2>1. Signals(o, a, args) = cs
    BY <1>8 DEF Signals
  <2>2. c \notin cs
    <3> SUFFICES ASSUME c \in cs PROVE FALSE
      OBVIOUS
    <3>1. c[1] = "volume"
      OBVIOUS
    <3> QED
      BY <2>1, <3>1, LimitedCell
  <2>3. \E v : n = Set(o, cs, v)
    <3>1. CASE a[1] = "volume"
      <4>1. n = Set(o, cs, Multiplier(ArgFloat(args, -1)))
        BY <1>8, <3>1, VolumeRoute
      <4> HIDE DEF n, cs
      <4> QED
        BY <4>1
    <3>2. CASE a[1] = "db"
      <4>1. n = Set(o, cs, Gain(ArgFloat(args, 0)))
        BY <1>8, <3>2, DbRoute
      <4> HIDE DEF n, cs
      <4> QED
        BY <4>1
    <3> QED
      BY <1>8, <3>1, <3>2
  <2> HIDE DEF cs
  <2> QED
    BY <1>c, <2>2, <2>3
<1>9. CASE Len(a) = 3 /\ a[1] = "media"
  <2>1. n = MediaCommand(o, a[2], a[3])
    BY <1>9, MediaRoute
  <2>2. PICK v : MediaCommand(o, a[2], a[3]) \in {o, [o EXCEPT ![<<"media", a[2], "state">>] = v]}
    BY MediaCommandIs
  <2>3. c # <<"media", a[2], "state">>
    BY <1>d
  <2>4. [o EXCEPT ![<<"media", a[2], "state">>] = v][c] = o[c]
    BY <1>b, <2>3
  <2> QED
    BY <2>1, <2>2, <2>4
<1>10. CASE Len(a) = 3 /\ a[1] \in {"visible", "locked"}
  <2> DEFINE r == a[1]
             cs == {<<r, x[1], x[2]>> : x \in VisitItems(o, a[2], a[3])}
  <2> HIDE DEF r
  <2>1. n = SetOrFlip(o, cs, args)
    BY <1>10, FlagRoute DEF r
  <2>2. c \notin cs
    BY <1>10, <1>a DEF r
  <2> HIDE DEF cs
  <2> QED
    BY <1>c, <2>1, <2>2
<1>11. CASE Len(a) = 3 /\ a[1] = "order"
  <2> DEFINE p == ArgInt(args, -1)
  <2>1. n = MoveItems(o, a[2], a[3], p)
    BY <1>11, OrderRoute
  <2> HIDE DEF p
  <2>2. n[c] = IF c[1] = "order" /\ Matches(a[2], c[2]) THEN MovedIn(o, c[2], a[3], p)[c] ELSE o[c]
    BY <1>0, <2>1, MoveItemsCell
  <2>3. CASE c[1] = "order" /\ Matches(a[2], c[2])
    <3>1. c[2] \in SceneNames /\ OrderIn(o, c[2])
      BY <2>3, OrderCell DEF Typed
    <3>2. <<"order", c[2]>> \notin {<<"order", x[1]>> : x \in VisitItems(o, a[2], a[3])}
      BY <1>11, <2>3, LimitedCell DEF Signals
    <3>3. ASSUME NEW i \in Range(Items[c[2]]) PROVE ~SelectorMatches(a[3], i, o[<<"order", c[2], i>>])
      <4> DEFINE x == <<c[2], i>>
      <4>1. x \in ItemNames /\ x[1] = c[2] /\ x[2] = i
        BY <3>1, SceneItems
      <4> HIDE DEF x
      <4>2. x \notin VisitItems(o, a[2], a[3])
        BY <3>2, <4>1
      <4> QED
        BY <2>3, <4>1, <4>2 DEF VisitItems
    <3>4. MovedIn(o, c[2], a[3], p) = o
      BY <3>1, <3>3, MovedInNone
    <3> QED
      BY <2>2, <2>3, <3>4
  <2> QED
    BY <2>2, <2>3
<1>12. CASE Len(a) = 3 /\ a[1] = "filter"
  <2> DEFINE cs == {<<"filter", x[1], x[2]>> : x \in VisitFilters(a[2], a[3])}
  <2>1. n = SetOrFlip(o, cs, args)
    BY <1>12, EnabledRoute
  <2>2. c \notin cs
    BY <1>a
  <2> HIDE DEF cs
  <2> QED
    BY <1>c, <2>1, <2>2
<1>13. CASE Len(a) = 4 /\ a[1] = "filter" /\ a[4] \in DOMAIN Params
  <2> DEFINE cs == {<<"filter", x[1], x[2], a[4]>> : x \in ResolveFilters(a[2], a[3])}
  <2>1. n = IF a[4] \in Scalars THEN Set(o, cs, ParamValue(a[4], args)) ELSE o
    BY <1>13, ParamRoute DEF WriteParam
  <2>2. c \notin cs
    BY <1>a
  <2> HIDE DEF cs
  <2> QED
    BY <1>c, <2>1, <2>2
<1>14. CASE Len(a) = 4 /\ a[1] = "transform"
  <2> DEFINE cs == PollTransform(o, a[2], a[3], {a[4]})
  <2>1. n = IF a[4] \in Fields THEN Set(o, cs, ArgFloat(args, 0)) ELSE o
    BY <1>14, TransformRoute DEF WriteTransform
  <2>2. ASSUME a[4] \in Fields PROVE c \notin cs
    <3> SUFFICES ASSUME c \in cs PROVE FALSE
      OBVIOUS
    <3>1. PICK x \in VisitItems(o, a[2], a[3]), f \in {a[4]} : c = <<"transform", x[1], x[2], f>>
      BY DEF PollTransform
    <3>2. c[1] = "transform" /\ c[2] = x[1] /\ c[3] = x[2]
      BY <3>1
    <3>3. LimitKey(c) = <<"transform", x[1], x[2]>>
      BY <3>2, LimitedCell
    <3>4. Signals(o, a, args) = {<<"transform", y[1], y[2]>> : y \in VisitItems(o, a[2], a[3])}
      BY <1>14, <2>2 DEF Signals
    <3> QED
      BY <3>1, <3>3, <3>4
  <2> HIDE DEF cs
  <2> QED
    BY <1>c, <2>1, <2>2
<1>15. CASE /\ a \notin {<<"studio">>, <<"transition">>, <<"transition", "go">>}
            /\ a[1] \notin Outputs \cup {"program", "preview"}
            /\ Len(a) = 2 => a[1] \notin {"transition", "profile", "collection", "mute", "volume", "db"}
            /\ Len(a) = 3 => a[1] \notin {"media", "visible", "locked", "order", "filter"}
            /\ Len(a) = 4 => a[1] # "transform" /\ (a[1] = "filter" => a[4] \notin DOMAIN Params)
  BY <1>15, NoRoute
<1> QED
  BY <1>1, <1>2, <1>3, <1>4, <1>5, <1>6, <1>7, <1>8, <1>9, <1>10, <1>11, <1>12, <1>13, <1>14, <1>15

-----------------------------------------------------------------------------
\* What a report of an order shows is an order.

LEMMA FirstMoveKeeps ==
    ASSUME NEW o, Typed(o), NEW scene, NEW selector, NEW p, p \in Int, NEW s, s \in SceneNames
    PROVE  OrderIn(FirstMove(o, scene, selector, p), s)
<1> DEFINE m == FirstMove(o, scene, selector, p)
           moved == VisitedIn(o, s, scene, selector)
           lowest == Lowest(o, s, moved)
<1>0. DOMAIN o = Cells /\ OrderIn(o, s)
  BY DEF Typed, IsState
<1>1. moved \subseteq Range(Items[s])
  BY DEF VisitedIn, VisitItems, ItemNames
<1>2. \A i \in Range(Items[s]) : o[<<"order", s, i>>] \in Nat
  <2> TAKE i \in Range(Items[s])
  <2>1. o[<<"order", s, i>>] \in 0..Len(Items[s]) - 1 /\ Len(Items[s]) \in Nat
    BY OrderRange, SceneItems
  <2> QED
    BY <2>1
<1>3. ASSUME NEW i \in Range(Items[s])
      PROVE  m[<<"order", s, i>>] = IF moved # {} THEN Moved(o, s, lowest, p)[<<"order", s, i>>]
                                                 ELSE o[<<"order", s, i>>]
  <2> DEFINE c == <<"order", s, i>>
  <2>1. c \in DOMAIN o /\ c[1] = "order" /\ c[2] = s
    BY <1>0, SceneItems
  <2> HIDE DEF c
  <2>2. m[c] = IF moved # {} THEN Moved(o, s, lowest, p)[c] ELSE o[c]
    BY <2>1 DEF FirstMove
  <2> QED
    BY <2>2 DEF c
<1>4. ASSUME moved # {} PROVE lowest \in moved
  <2> DEFINE N == {o[<<"order", s, i>>] : i \in moved}
             R == OpToRel(<, Nat)
  <2>1. N \subseteq Nat /\ N # {}
    BY <1>1, <1>2, <1>4
  <2>2. \A x, y \in Nat : x < y => <<x, y>> \in R
    BY DEF OpToRel
  <2>3. IsWellFoundedOn(R, Nat)
    BY NatLessThanWellFounded
  <2> HIDE DEF R, N, moved
  <2>4. PICK x \in N : \A y \in N : ~(<<y, x>> \in R)
    BY <2>1, <2>3, WFMin
  <2>5. \A y \in N : x <= y
    <3> TAKE y \in N
    <3>1. x \in Nat /\ y \in Nat /\ ~(y < x)
      BY <2>1, <2>2, <2>4
    <3> QED
      BY <3>1
  <2>6. \E i \in moved : \A j \in moved : o[<<"order", s, i>>] <= o[<<"order", s, j>>]
    BY <2>5 DEF N
  <2> QED
    BY <2>6 DEF Lowest
<1> HIDE DEF m, moved, lowest
<1>5. CASE moved = {}
  <2>1. \A i \in Range(Items[s]) : m[<<"order", s, i>>] = o[<<"order", s, i>>]
    BY <1>3, <1>5
  <2> QED
    BY <1>0, <2>1, SameOrder DEF m
<1>6. CASE moved # {}
  <2> DEFINE n == Moved(o, s, lowest, p)
  <2>1. OrderIn(n, s)
    BY <1>0, <1>1, <1>4, <1>6, MovedKeeps
  <2>2. \A i \in Range(Items[s]) : m[<<"order", s, i>>] = n[<<"order", s, i>>]
    BY <1>3, <1>6
  <2> HIDE DEF n
  <2> QED
    BY <2>1, <2>2, SameOrder DEF m
<1> QED
  BY <1>5, <1>6

LEMMA SeenKeeps ==
    ASSUME NEW o, Typed(o), NEW a, NEW args, Sound(args), NEW s, s \in SceneNames
    PROVE  OrderIn(Seen(o, a, args), s)
<1>1. ArgInt(args, -1) \in Int
  BY ArgNumbers
<1>2. OrderIn(FirstMove(o, a[2], a[3], ArgInt(args, -1)), s)
  <2> DEFINE p == ArgInt(args, -1)
  <2> HIDE DEF p
  <2>1. p \in Int
    BY <1>1 DEF p
  <2>2. OrderIn(FirstMove(o, a[2], a[3], p), s)
    BY <2>1, FirstMoveKeeps
  <2> QED
    BY <2>2 DEF p
<1>3. OrderIn(Dispatch(o, a, args), s)
  BY DispatchKeeps DEF Typed
<1> QED
  BY <1>2, <1>3 DEF Seen

-----------------------------------------------------------------------------
\* A copy that has heard the feedback has the values of now, but for what it
\* missed.

CopyInv ==
    /\ DOMAIN copy = Cells \cup Tallies
    /\ CopyCurrent

\* What feedback says of a cell it says once.
LEMMA HeardIs ==
    ASSUME NEW o, NEW n, NEW sent, NEW seen, <<>> \notin sent,
           NEW old, NEW c \in DOMAIN old, DOMAIN old = Cells \cup Tallies
    PROVE  Heard(old, Feedback(o, n, sent, seen))[c] =
               IF c \in Changed(o, n) /\ Announced(o, n, c) THEN Value(n, c)
               ELSE IF c \in Cells /\ LimitKey(c) \in sent THEN Value(seen, c) ELSE old[c]
<1> DEFINE F == Feedback(o, n, sent, seen)
           A == {d \in Changed(o, n) : Announced(o, n, d)}
           B == {d \in Cells : LimitKey(d) \in sent}
<1>1. \A m : m \in F <=> \/ \E d \in A : m = <<d, Value(n, d)>>
                         \/ \E d \in B : m = <<d, Value(seen, d)>>
  BY DEF Feedback
<1>2. A \cap B = {}
  BY DEF Changed
<1> HIDE DEF F, A, B
<1>3. CASE c \in A
  <2>1. <<c, Value(n, c)>> \in F
    BY <1>1, <1>3
  <2>2. \A m \in F : m[1] = c => m[2] = Value(n, c)
    BY <1>1, <1>2, <1>3
  <2> QED
    BY <1>3, <2>1, <2>2 DEF Heard, F, A
<1>4. CASE c \in B
  <2>1. <<c, Value(seen, c)>> \in F
    BY <1>1, <1>4
  <2>2. \A m \in F : m[1] = c => m[2] = Value(seen, c)
    BY <1>1, <1>2, <1>4
  <2>3. c \notin A
    BY <1>2, <1>4
  <2> QED
    BY <1>4, <2>1, <2>2, <2>3 DEF Heard, F, A, B
<1>5. CASE c \notin A \cup B
  <2>1. ~ \E m \in F : m[1] = c
    BY <1>1, <1>5
  <2> QED
    BY <1>5, <2>1 DEF Heard, F, A, B
<1> QED
  BY <1>3, <1>4, <1>5

\* A step of any kind keeps the copy current, up to what it misses.
LEMMA BecomesKeepsCopy ==
    ASSUME CopyInv, NEW n, NEW signals, NEW seen, Becomes(n, signals, seen),
           \A k \in signals : LimitKey(k) = k /\ k # <<>>,
           \A c \in Cells : LimitKey(c) # <<>> /\ LimitKey(c) \notin signals => n[c] = cells[c],
           \A s \in SceneNames : OrderIn(seen, s)
    PROVE  CopyInv'
<1> DEFINE sent == signals \ open
           changed == Changed(cells, n)
<1>1. /\ cells' = n /\ copy' = Heard(copy, Feedback(cells, n, sent, seen))
      /\ missed' = (missed \ (signals \cup changed)) \cup Unheard(cells, n, signals, seen)
      /\ <<>> \notin sent
  BY DEF Becomes
<1>2. DOMAIN copy = Cells \cup Tallies /\ DOMAIN copy' = Cells \cup Tallies
  BY <1>1 DEF CopyInv, Heard
<1>3. ASSUME NEW c \in DOMAIN copy
      PROVE  copy'[c] = IF c \in changed /\ Announced(cells, n, c) THEN Value(n, c)
                        ELSE IF c \in Cells /\ LimitKey(c) \in sent THEN Value(seen, c) ELSE copy[c]
  BY <1>1, <1>2, HeardIs
<1>4. \A c \in DOMAIN copy : Told(c) => copy[c] = Value(cells, c)
  BY DEF CopyInv, CopyCurrent
<1>5. \A k : k \notin signals \cup changed /\ k \in missed => k \in missed'
  BY <1>1
<1> HIDE DEF sent, changed
<1>6. ASSUME NEW c \in DOMAIN copy, Told(c)', LimitKey(c) = <<>>
      PROVE  copy'[c] = Value(n, c)
  <2>1. CASE c \in changed
    <3>1. Announced(cells, n, c)
      <4> SUFFICES ASSUME ~Announced(cells, n, c) PROVE FALSE
        OBVIOUS
      <4>1. /\ c[1] = "filter" => Len(c) = 3 /\ c[2] \in Inputs
            /\ c[1] = "media" => n[c] # MediaStates.ended
        BY <1>1, <1>6 DEF Told
      <4>2. c \in {<<"preview">>, <<"record", "paused">>}
        BY <4>1 DEF Announced
      <4>3. c \in missed'
        BY <1>1, <2>1, <4>2 DEF Unheard, changed
      <4> QED
        BY <1>6, <4>3 DEF Told
    <3> QED
      BY <1>3, <2>1, <3>1
  <2>2. CASE c \notin changed
    <3>1. Value(n, c) = Value(cells, c)
      BY <1>2, <1>6, <2>2 DEF Changed, changed
    <3>2. copy'[c] = copy[c]
      BY <1>1, <1>3, <1>6, <2>2
    <3>3. Told(c)
      <4>1. {c, LimitKey(c)} \cap missed = {}
        <5>1. c \notin signals /\ LimitKey(c) \notin signals
          BY <1>6
        <5>2. LimitKey(c) \notin changed
          <6>1. <<>> \notin Cells \cup Tallies
            <7> SUFFICES ASSUME NEW d \in Cells \cup Tallies PROVE d # <<>>
              OBVIOUS
            <7>1. d \in Bare => d # <<>>
              BY DEF Bare
            <7> QED
              BY <7>1, CellKinds
          <6> QED
            BY <1>6, <6>1 DEF changed, Changed
        <5>3. c \notin missed' /\ LimitKey(c) \notin missed'
          BY <1>6 DEF Told
        <5> QED
          BY <1>5, <2>2, <5>1, <5>2, <5>3
      <4>2. c[1] = "filter" => Len(c) = 3 /\ c[2] \in Inputs
        BY <1>6 DEF Told
      <4>3. c[1] = "media" => cells[c] # MediaStates.ended
        <5>1. c[1] = "media" => Value(n, c) = n[c] /\ Value(cells, c) = cells[c]
          BY ValueOfPlain
        <5>2. c[1] = "media" => n[c] # MediaStates.ended
          BY <1>1, <1>6 DEF Told
        <5> QED
          BY <3>1, <5>1, <5>2
      <4> QED
        BY <4>1, <4>2, <4>3 DEF Told
    <3> QED
      BY <1>4, <3>1, <3>2, <3>3
  <2> QED
    BY <2>1, <2>2
<1>7. ASSUME NEW c \in DOMAIN copy, Told(c)', LimitKey(c) # <<>>
      PROVE  copy'[c] = Value(n, c)
  <2> DEFINE k == LimitKey(c)
  <2>1. c \in Cells /\ c \notin changed /\ k \notin missed'
    <3>1. c \in Cells
      BY <1>2, <1>7 DEF Tallies, LimitKey
    <3>2. c \notin changed
      BY <1>7 DEF changed, Changed
    <3>3. k \notin missed'
      BY <1>7 DEF Told
    <3> QED
      BY <3>1, <3>2, <3>3
  <2>2. c[1] \in {"volume", "order", "transform"}
    BY <1>7, <2>1, LimitedCell
  <2> HIDE DEF k
  <2>3. CASE k \in signals
    <3>1. k \notin open /\ Value(seen, c) = Value(n, c)
      BY <1>1, <2>1, <2>3 DEF Unheard, k
    <3>2. k \in sent
      BY <2>3, <3>1 DEF sent
    <3> QED
      BY <1>3, <2>1, <3>1, <3>2 DEF k
  <2>4. CASE k \notin signals
    <3>1. n[c] = cells[c]
      BY <1>7, <2>1, <2>4 DEF k
    <3>2. Value(n, c) = Value(cells, c)
      BY <2>2, <3>1, ValueOfPlain, ValueOfVolume
    <3>3. k \notin sent /\ copy'[c] = copy[c]
      BY <1>3, <2>1, <2>4 DEF sent, k
    <3>4. c \notin missed /\ k \notin missed
      <4>1. c \notin signals
        BY <2>4 DEF k
      <4>2. k \notin changed
        <5>1. LimitKey(k) # <<>>
          BY <1>7 DEF LimitKey, k
        <5> QED
          BY <5>1 DEF changed, Changed
      <4>3. c \notin missed'
        BY <1>7 DEF Told
      <4> QED
        BY <1>5, <2>1, <2>4, <4>1, <4>2, <4>3
    <3>5. Told(c)
      BY <2>2, <3>4 DEF Told, k
    <3> QED
      BY <1>4, <3>2, <3>3, <3>5
  <2> QED
    BY <2>3, <2>4
<1>8. ASSUME NEW s \in SceneNames
      PROVE  OrderIn(copy', s)
  <2>1. OrderIn(copy, s) /\ OrderIn(seen, s)
    BY DEF CopyInv, CopyCurrent
  <2> DEFINE k == <<"order", s>>
  <2>2. ASSUME NEW i \in Range(Items[s])
        PROVE  copy'[<<"order", s, i>>] = IF k \in sent THEN seen[<<"order", s, i>>] ELSE copy[<<"order", s, i>>]
    <3> DEFINE c == <<"order", s, i>>
    <3>1. c \in Cells /\ LimitKey(c) = k /\ c[1] = "order"
      BY SceneItems DEF LimitKey
    <3>2. k # <<>>
      OBVIOUS
    <3> HIDE DEF c, k
    <3>3. c \notin changed /\ c \in DOMAIN copy /\ Value(seen, c) = seen[c]
      BY <1>2, <3>1, <3>2, ValueOfPlain DEF changed, Changed
    <3>4. copy'[c] = IF k \in sent THEN seen[c] ELSE copy[c]
      BY <1>3, <3>1, <3>3
    <3> QED
      BY <3>4 DEF c
  <2> HIDE DEF k
  <2>3. CASE k \in sent
    BY <2>1, <2>2, <2>3, SameOrder
  <2>4. CASE k \notin sent
    BY <2>1, <2>2, <2>4, SameOrder
  <2> QED
    BY <2>3, <2>4
<1>9. \A c \in DOMAIN copy' : Told(c)' => copy'[c] = Value(n, c)
  BY <1>2, <1>6, <1>7
<1> QED
  BY <1>1, <1>2, <1>8, <1>9 DEF CopyInv, CopyCurrent

LEMMA OrderUntouched ==
    ASSUME NEW o, NEW n, NEW s \in SceneNames, OrderIn(o, s),
           \A c \in Cells : c[1] \in {"volume", "order", "transform"} => n[c] = o[c]
    PROVE  OrderIn(n, s)
<1>1. ASSUME NEW i \in Range(Items[s])
      PROVE  n[<<"order", s, i>>] = o[<<"order", s, i>>]
  <2>1. <<"order", s, i>> \in Cells /\ <<"order", s, i>>[1] = "order"
    BY SceneItems
  <2> QED
    BY <2>1
<1> QED
  BY <1>1, SameOrder

\* The first copy is what a poll answers.
LEMMA CopyFirst == Init => CopyInv
<1> SUFFICES ASSUME Init PROVE CopyInv
  OBVIOUS
<1>1. copy = [c \in Cells \cup Tallies |-> Value(cells, c)]
  BY DEF Init
<1>2. ASSUME NEW s \in SceneNames PROVE OrderIn(copy, s)
  <2>1. OrderIn(cells, s)
    BY TypedFirst DEF Typed
  <2>2. ASSUME NEW i \in Range(Items[s])
        PROVE  copy[<<"order", s, i>>] = cells[<<"order", s, i>>]
    <3> DEFINE c == <<"order", s, i>>
    <3>1. c \in Cells /\ c[1] = "order"
      BY SceneItems
    <3> HIDE DEF c
    <3>2. copy[c] = cells[c]
      BY <1>1, <3>1, ValueOfPlain
    <3> QED
      BY <3>2 DEF c
  <2> QED
    BY <2>1, <2>2, SameOrder
<1> QED
  BY <1>1, <1>2 DEF CopyInv, CopyCurrent

(***************************************************************************)
(* Whatever is sent and whatever OBS does, a client that polled everything *)
(* once and then only listens has what a poll would answer of all that it  *)
(* was Told, and of each scene an order that its items had: what the       *)
(* limiter drops makes a copy old and never inconsistent.                  *)
(***************************************************************************)
THEOREM CopyCurrentAlways == Spec => []CopyCurrent
<1>1. TypeOK /\ CopyInv /\ [Next]_vars => CopyInv'
  <2> SUFFICES ASSUME TypeOK, CopyInv, [Next]_vars PROVE CopyInv'
    OBVIOUS
  <2>0. Typed(cells) /\ \A s \in SceneNames : OrderIn(cells, s)
    BY DEF TypeOK, Typed
  <2>1. ASSUME NEW a \in Addresses, NEW args \in Arguments, Receive(a, args)
        PROVE  CopyInv'
    <3> DEFINE n == Dispatch(cells, a, args)
               signals == Signals(cells, a, args)
               seen == Seen(cells, a, args)
    <3>1. Becomes(n, signals, seen)
      BY <2>1 DEF Receive
    <3>2. \A k \in signals : LimitKey(k) = k /\ k # <<>>
      BY SignalKeys
    <3>3. \A c \in Cells : LimitKey(c) # <<>> /\ LimitKey(c) \notin signals => n[c] = cells[c]
      BY <2>0, ChangesAreSignalled
    <3>4. \A s \in SceneNames : OrderIn(seen, s)
      BY <2>0, ArgumentsSound, SeenKeeps
    <3> HIDE DEF n, signals, seen
    <3> QED
      BY <3>1, <3>2, <3>3, <3>4, BecomesKeepsCopy
  <2>3. ASSUME NEW out \in Outputs, NEW state \in OutputStates, OutputEvent(out, state)
        PROVE  CopyInv'
    <3> DEFINE n == [cells EXCEPT ![<<out>>] = state,
                         ![<<"record", "paused">>] = IF out = "record" THEN 0 ELSE @]
    <3>1. Becomes(n, {}, n)
      BY <2>3 DEF OutputEvent
    <3>2. ASSUME NEW c \in Cells, c[1] \in {"volume", "order", "transform"} PROVE n[c] = cells[c]
      <4>1. c # <<out>> /\ c # <<"record", "paused">>
        BY <3>2, OutputNames
      <4> QED
        BY <2>0, <4>1 DEF Typed, IsState
    <3> HIDE DEF n
    <3>3. \A c \in Cells : LimitKey(c) # <<>> => n[c] = cells[c]
      BY <3>2, LimitedCell
    <3>4. \A s \in SceneNames : OrderIn(n, s)
      BY <2>0, <3>2, OrderUntouched
    <3> QED
      BY <3>1, <3>3, <3>4, BecomesKeepsCopy
  <2>4. ASSUME NEW i \in Inputs, MediaEnds(i)
        PROVE  CopyInv'
    <3> DEFINE n == [cells EXCEPT ![<<"media", i, "state">>] = MediaStates.ended]
    <3>1. Becomes(n, {}, n)
      BY <2>4 DEF MediaEnds
    <3>2. ASSUME NEW c \in Cells, c[1] \in {"volume", "order", "transform"} PROVE n[c] = cells[c]
      <4>1. c # <<"media", i, "state">>
        BY <3>2
      <4> QED
        BY <2>0, <4>1 DEF Typed, IsState
    <3> HIDE DEF n
    <3>3. \A c \in Cells : LimitKey(c) # <<>> => n[c] = cells[c]
      BY <3>2, LimitedCell
    <3>4. \A s \in SceneNames : OrderIn(n, s)
      BY <2>0, <3>2, OrderUntouched
    <3> QED
      BY <3>1, <3>3, <3>4, BecomesKeepsCopy
  <2>5. CASE UNCHANGED <<cells, copy, missed>>
    <3>1. \A c : (Told(c)' <=> Told(c)) /\ Value(cells', c) = Value(cells, c)
      BY <2>5 DEF Told
    <3>2. CopyCurrent'
      BY <2>5, <3>1 DEF CopyInv, CopyCurrent
    <3> QED
      BY <2>5, <3>2 DEF CopyInv
  <2>6. CASE UNCHANGED vars
    BY <2>5, <2>6 DEF vars
  <2>7. ASSUME NEW key \in open, WindowEnds(key)
        PROVE  CopyInv'
    BY <2>5, <2>7 DEF WindowEnds
  <2> QED
    BY <2>1, <2>3, <2>4, <2>6, <2>7 DEF Next
<1>2. CopyInv => CopyCurrent
  BY DEF CopyInv
<1> QED
  BY <1>1, <1>2, CopyFirst, TypedAlways, PTL DEF Spec

=============================================================================
