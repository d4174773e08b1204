---------------------------- MODULE MCOscParts -----------------------------
(***************************************************************************)
(* The self-contained parts: the filter hooks and the rate limiter that    *)
(* OBS signals go through, the codec, the pattern matcher, and the way of  *)
(* a datagram to the UI thread. They share no state, so one run checks     *)
(* them side by side: in a behaviour one of them moves and the others      *)
(* rest.                                                                   *)
(***************************************************************************)
EXTENDS OscFilterHooks, OscThrottle, OscMessage, OscGlob, OscDispatch

CONSTANTS volume, transform, order

\* 33 and 100 ms, and 5 s, in a coarse unit.
MCKeys == {volume, transform, order}
MCInterval == [k \in MCKeys |-> IF k = volume THEN 1 ELSE 2]

\* Words that packets are made of: texts that end and that do not, tags of
\* every sort of argument, and numbers that are lengths.
Letter == 97
Texts(max) ==
    {FlattenSeq(w) : w \in SeqOf(
        {<<Slash, 0, 0, 0>>, <<Slash, Letter, Letter, Letter>>, <<0, 0, 0, 0>>,
         <<Comma, Tag.i, 0, 0>>, <<Comma, Tag.s, Tag.b, 0>>, <<Comma, Tag.m, Tag.T, Tag.d>>,
         <<0, 0, 0, 5>>, <<0, 0, 0, 20>>}, max)}

Header == BundleName \o Zeros(8)
Sized(n) == <<0, 0, 0, n>>

MCPackets ==
    Texts(5)
    \cup {Header \o t : t \in Texts(3)}
    \cup {Header \o Sized(n) \o Header \o t : n \in {16, 20, 24, 25}, t \in Texts(2)}
    \cup {Header \o Sized(40) \o Header \o Sized(n) \o Header \o t : n \in {16, 20}, t \in Texts(1)}
    \cup {BundleName, <<Slash>>, <<Slash, 0, Comma, 0, 0>>}

Arg(type, value) == [type |-> type, value |-> value]

MCArgs ==
    {Arg(Tag.i, <<255, 255, 255, 255>>), Arg(Tag.f, <<63, 0, 0, 0>>)}
    \cup {Arg(Tag.s, [k \in 1..n |-> Letter]) : n \in {0, 3, 4}}
    \cup {Arg(Tag.b, [k \in 1..n |-> 0]) : n \in {0, 1, 4}}

Messages(max) ==
    {[address |-> <<Slash>> \o [k \in 1..n |-> Letter], args |-> s_] :
        n \in {0, 2, 3}, s_ \in SeqOf(MCArgs, max)}

MCBatches ==
    {[messages |-> <<<<m>>>>, elements |-> <<Build(m)>>] : m \in Messages(3)}
    \cup {[messages |-> <<<<m>>, <<n>>>>, elements |-> <<Build(m), Build(n)>>] : m, n \in Messages(1)}
    \cup {[messages |-> <<<<m>>, <<>>, <<n>>>>, elements |-> <<Build(m), junk, Build(n)>>] :
              m, n \in Messages(1),
              junk \in {<<Letter, 0, 0, 0>>, <<Slash, 0, 0, 0>>, <<Slash, 0, 0, 0, Letter, 0, 0, 0>>, Header}}

VARIABLE part

Resting ==
    /\ part # "hooks" => life = [x \in Sources |-> "absent"] /\ chain = [x \in Sources |-> {}]
    /\ part # "codec" => data = <<>> /\ sent = <<>>
    /\ part # "glob" => pattern = <<>> /\ str = <<>>

Init ==
    /\ part \in {"hooks", "throttle", "codec", "glob", "dispatch"}
    /\ Resting
    /\ HooksInit /\ ThrottleInit /\ ParseInit /\ GlobInit /\ DispatchInit

\* The others do not move.
Only(moving) ==
    /\ part = moving /\ UNCHANGED part
    /\ moving # "hooks" => UNCHANGED hook_vars
    /\ moving # "throttle" => UNCHANGED throttle_vars
    /\ moving # "codec" => UNCHANGED parse_vars
    /\ moving # "glob" => UNCHANGED glob_vars
    /\ moving # "dispatch" => UNCHANGED dispatch_vars

Next ==
    \/ Only("hooks") /\ HooksNext
    \/ Only("throttle") /\ ThrottleNext
    \/ Only("codec") /\ ParseNext
    \/ Only("glob") /\ GlobNext
    \/ Only("dispatch") /\ DispatchNext

Spec == Init /\ [][Next]_<<hook_vars, throttle_vars, parse_vars, glob_vars, dispatch_vars, part>>

=============================================================================
