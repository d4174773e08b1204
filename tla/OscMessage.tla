---------------------------- MODULE OscMessage -----------------------------
(***************************************************************************)
(* The OSC codec: osc_parse_packet() and parse_message() as a machine that *)
(* takes a step per string, argument and bundle element, and what the      *)
(* program sends: osc_build_message() and the reply batches of             *)
(* osc-server.cpp. A packet is a sequence of bytes; a number stays its     *)
(* four bytes, except where it is a length.                                *)
(***************************************************************************)
EXTENDS Integers, SequencesExt

CONSTANTS
    Packets,  \* bound: packets that anybody sends
    Batches   \* bound: packets of this program: their elements, and for each
              \* the message it was built from

Byte == 0..255

ASSUME PacketsAssumption == Packets \subseteq Seq(Byte)

Slash == 47
Comma == 44
Tag == [i |-> 105, f |-> 102, s |-> 115, b |-> 98, T |-> 84, F |-> 70,
        d |-> 100, h |-> 104, t |-> 116, m |-> 109, r |-> 114, c |-> 99]
BundleName == <<35, 98, 117, 110, 100, 108, 101, 0>>

\* (n + 3) & ~3
Aligned(n) == ((n + 3) \div 4) * 4

-----------------------------------------------------------------------------
\* Encoding.

Zeros(n) == [k \in 1..n |-> 0]

PaddedTight(str) == str \o Zeros(Aligned(Len(str)) - Len(str))

Padded(str) == str \o Zeros(Aligned(Len(str) + 1) - Len(str))

BE32(n) == <<(n \div 16777216) % 256, (n \div 65536) % 256, (n \div 256) % 256, n % 256>>

BuildArg(arg) ==
    CASE arg.type \in {Tag.i, Tag.f} -> arg.value
      [] arg.type = Tag.b ->
            BE32(Len(arg.value)) \o arg.value \o Zeros(Aligned(Len(arg.value)) - Len(arg.value))
      [] OTHER -> Padded(arg.value)

BuildMessage(address, args) ==
    Padded(address) \o Padded(<<Comma>> \o [k \in DOMAIN args |-> args[k].type])
        \o FlattenSeq([k \in DOMAIN args |-> BuildArg(args[k])])

\* end_batch(): a lone reply goes out as it is, several become one bundle.
EndBatch(messages) ==
    IF Len(messages) = 1 THEN messages[1]
    ELSE BundleName \o Zeros(8)
            \o FlattenSeq([k \in DOMAIN messages |-> BE32(Len(messages[k])) \o messages[k]])

\* What the callers hand over: an address, and arguments of the outbound
\* typetags i f s b. A C string holds no NUL.
Char == 1..255

Outbound ==
    [type : {Tag.i, Tag.f}, value : [1..4 -> Byte]]
    \cup [type : {Tag.s}, value : Seq(Char)] \cup [type : {Tag.b}, value : Seq(Byte)]

Sendable ==
    {m \in [address : Seq(Char), args : Seq(Outbound)] : m.address # <<>> /\ Head(m.address) = Slash}

Build(m) == BuildMessage(m.address, m.args)

\* Elements that somebody may have mixed in: no address, an address whose
\* tags are missing, or a bundle of nothing.
NoAddress(e) == Head(e) # Slash /\ (Len(e) > 16 => SubSeq(e, 1, 8) # BundleName)

NoTags(e) ==
    /\ Head(e) = Slash
    /\ \E n \in 1..Len(e) :
          LET text == SubSeq(e, 1, n)
              rest == SubSeq(e, Len(Padded(text)) + 1, Len(e))
          IN /\ text \in Seq(Char) /\ e = Padded(text) \o rest
             /\ rest # <<>> => Head(rest) # Comma

Unreadable(e) == e # <<>> /\ Len(e) % 4 = 0 /\ (NoAddress(e) \/ NoTags(e))

\* bound: what is sent is shorter than 2^31 bytes; a datagram holds 65507.
MaxLength == 2147483647

\* messages[k] is what elements[k] was built from, or nothing.
ASSUME BatchesAssumption ==
    \A b \in Batches :
        /\ b \in [elements : Seq(Seq(Byte)), messages : Seq(Seq(Sendable))]
        /\ Len(b.messages) = Len(b.elements) /\ Len(EndBatch(b.elements)) <= MaxLength
        /\ \A k \in DOMAIN b.elements :
              \/ b.messages[k] = <<>> /\ Unreadable(b.elements[k])
              \/ Len(b.messages[k]) = 1 /\ b.elements[k] = Build(b.messages[k][1])

-----------------------------------------------------------------------------
(***************************************************************************)
(* Decoding. Offsets count from the packet's first byte, 0; data[p + 1] is *)
(* the byte at p. The innermost call works on the bytes from lo up to hi.  *)
(***************************************************************************)
VARIABLES
    data,      \* the packet
    sent,      \* history: the messages it was built from, or none
    pc,        \* "packet", "element", "address", "tags", "args", "return" or "done"
    lo, hi,    \* data and data + size of the innermost call
    pos,       \* its read position while it parses a message
    bundles,   \* the calls that are in a bundle's loop: their pos and end
    address, tags, args,  \* msg, tags
    result,    \* what the last call returned
    out,       \* out
    read       \* history: what the last step looked at

parse_vars == <<data, sent, pc, lo, hi, pos, bundles, address, tags, args, result, out, read>>

ParseInit ==
    /\ \/ data \in Packets /\ sent = <<>>
       \/ \E b \in Batches : data = EndBatch(b.elements) /\ sent = FlattenSeq(b.messages)
    /\ pc = "packet" /\ lo = 0 /\ hi = Len(data) /\ pos = 0
    /\ bundles = <<>> /\ out = <<>> /\ result = FALSE
    /\ address = <<>> /\ tags = <<>> /\ args = <<>>
    /\ read = [from |-> 0, to |-> 0]

\* The byte at p; 0 stands for whatever lies behind the packet.
At(p) == IF p < Len(data) THEN data[p + 1] ELSE 0

Slice(from, to) == [k \in 1..to - from |-> At(from + k - 1)]

\* read_be32()
Number(p) == ((At(p) * 256 + At(p + 1)) * 256 + At(p + 2)) * 256 + At(p + 3)

Looks(from, to) == read' = [from |-> from, to |-> to]

Returns(ok) == pc' = "return" /\ result' = ok

\* osc_parse_packet(), up to its two kinds of packet.
IsBundleUnsized == hi - lo >= 8 /\ Slice(lo, lo + 8) = BundleName

IsBundle == hi - lo >= 16 /\ Slice(lo, lo + 8) = BundleName

WellSized == hi - lo >= 4 /\ (hi - lo) % 4 = 0

Packet ==
    /\ pc = "packet"
    /\ IF ~WellSized
       THEN Returns(FALSE) /\ UNCHANGED <<pos, bundles, address, tags, args, read>>
       ELSE IF IsBundle
       THEN /\ pc' = "element"
            /\ bundles' = Append(bundles, [pos |-> lo + 16, hi |-> hi])
            /\ Looks(lo, lo + 8)
            /\ UNCHANGED <<pos, address, tags, args, result>>
       ELSE /\ pc' = "address" /\ pos' = lo
            /\ address' = <<>> /\ tags' = <<>> /\ args' = <<>>
            /\ UNCHANGED <<bundles, result, read>>
    /\ UNCHANGED <<data, sent, lo, hi, out>>

\* The loop of a bundle: what an element's call returns is ignored.
Element ==
    LET b == Last(bundles)
        size == Number(b.pos)
        start == b.pos + 4
    IN /\ pc = "element"
       /\ IF start > b.hi
          THEN Returns(TRUE) /\ bundles' = Front(bundles) /\ UNCHANGED <<lo, hi, read>>
          ELSE /\ Looks(b.pos, start)
               /\ IF size = 0 \/ size > b.hi - start
                  THEN Returns(TRUE) /\ bundles' = Front(bundles) /\ UNCHANGED <<lo, hi>>
                  ELSE /\ lo' = start /\ hi' = start + size /\ pc' = "packet"
                       /\ bundles' = [bundles EXCEPT ![Len(bundles)].pos = start + size]
                       /\ UNCHANGED result
       /\ UNCHANGED <<data, sent, pos, address, tags, args, out>>

Return ==
    /\ pc = "return"
    /\ pc' = IF bundles = <<>> THEN "done" ELSE "element"
    /\ UNCHANGED <<data, sent, lo, hi, pos, bundles, address, tags, args, result, out, read>>

\* read_string(): the place where the string at pos ends, or none.
StrEnd == {p \in pos..hi - 1 : At(p) = 0 /\ \A q \in pos..p - 1 : At(q) # 0}

Str(nul) == Slice(pos, nul)

AfterPadding(nul) == pos + ((nul - pos + 4) \div 4) * 4

ReadAddress ==
    /\ pc = "address"
    /\ IF StrEnd = {}
       THEN Looks(pos, hi) /\ Returns(FALSE) /\ UNCHANGED <<pos, address>>
       ELSE \E nul \in StrEnd :
               /\ Looks(pos, nul + 1)
               /\ address' = Str(nul) /\ pos' = AfterPadding(nul)
               /\ IF nul = pos \/ At(pos) # Slash
                  THEN Returns(FALSE) ELSE pc' = "tags" /\ UNCHANGED result
    /\ UNCHANGED <<data, sent, lo, hi, bundles, tags, args, out>>

ReadTags ==
    /\ pc = "tags"
    /\ IF StrEnd = {}
       THEN Looks(pos, hi) /\ Returns(FALSE) /\ UNCHANGED <<pos, tags>>
       ELSE \E nul \in StrEnd :
               /\ Looks(pos, nul + 1)
               /\ tags' = Str(nul) /\ pos' = AfterPadding(nul)
               /\ IF nul = pos \/ At(pos) # Comma
                  THEN Returns(FALSE) ELSE pc' = "args" /\ UNCHANGED result
    /\ UNCHANGED <<data, sent, lo, hi, bundles, address, args, out>>

FitsAnyway(n) == TRUE

Fits(n) == pos + n <= hi

Argument(value, from, next) ==
    /\ args' = Append(args, [type |-> tags[Len(args) + 2], value |-> value])
    /\ Looks(pos, from) /\ pos' = next
    /\ UNCHANGED <<pc, result>>

Rejected == Returns(FALSE) /\ UNCHANGED <<args, pos, read>>

\* The eight and four byte types that nobody reads are skipped.
Width(type) ==
    CASE type \in {Tag.i, Tag.f, Tag.m, Tag.r, Tag.c} -> 4
      [] type \in {Tag.d, Tag.h, Tag.t} -> 8
      [] type \in {Tag.T, Tag.F} -> 0

ReadArg ==
    LET type == tags[Len(args) + 2]
    IN /\ pc = "args" /\ Len(args) + 1 < Len(tags)
       /\ CASE type = Tag.s ->
                 IF StrEnd = {} THEN Looks(pos, hi) /\ Returns(FALSE) /\ UNCHANGED <<args, pos>>
                 ELSE \E nul \in StrEnd : Argument(Str(nul), nul + 1, AfterPadding(nul))
            [] type = Tag.b ->
                 IF ~Fits(4) THEN Rejected
                 ELSE IF Number(pos) > hi - (pos + 4)
                 THEN Returns(FALSE) /\ Looks(pos, pos + 4) /\ pos' = pos + 4 /\ UNCHANGED args
                 ELSE LET end == pos + 4 + Number(pos)
                      IN Argument(Slice(pos + 4, end), end, pos + 4 + Aligned(Number(pos)))
            [] type \in Range(Tag) \ {Tag.s, Tag.b} ->
                 IF ~Fits(Width(type)) THEN Rejected
                 ELSE Argument(IF type \in {Tag.i, Tag.f} THEN Slice(pos, pos + 4) ELSE <<>>,
                               pos + Width(type), pos + Width(type))
            [] OTHER -> Rejected
       /\ UNCHANGED <<data, sent, lo, hi, bundles, address, tags, out>>

Complete ==
    /\ pc = "args" /\ Len(args) + 1 = Len(tags)
    /\ out' = Append(out, [address |-> address, args |-> args])
    /\ Returns(TRUE)
    /\ UNCHANGED <<data, sent, lo, hi, pos, bundles, address, tags, args, read>>

ParseNext == Packet \/ Element \/ Return \/ ReadAddress \/ ReadTags \/ ReadArg \/ Complete

ParseSpec == ParseInit /\ [][ParseNext]_parse_vars

-----------------------------------------------------------------------------
(***************************************************************************)
(* Offsets: every call is inside the packet; while it parses a message its *)
(* position is at a multiple of four and not behind its end.               *)
(***************************************************************************)
MessageTypeOK ==
    /\ 0 <= lo /\ lo <= hi /\ hi <= Len(data)
    /\ \A k \in DOMAIN bundles :
          bundles[k].pos <= bundles[k].hi /\ bundles[k].hi <= Len(data)
    /\ pc \in {"address", "tags", "args"} =>
          lo <= pos /\ pos <= hi /\ (pos - lo) % 4 = 0 /\ (hi - lo) % 4 = 0

(***************************************************************************)
(* Whatever the packet says of its own lengths, the parser looks at        *)
(* nothing behind the packet, and within a bundle at nothing outside the   *)
(* element that it parses.                                                 *)
(***************************************************************************)
StepReadsInside ==
    /\ read'.to <= Len(data)
    /\ pc # "element" /\ read' # read => lo <= read'.from /\ read'.to <= hi

ReadsInside == [][StepReadsInside]_parse_vars

(***************************************************************************)
(* Bundles nest and the parser recurses: every level costs 20 bytes, so    *)
(* the stack of the receive thread is bounded by the size of a datagram.   *)
(***************************************************************************)
DepthBounded == 20 * Len(bundles) <= Len(data) + 4

(***************************************************************************)
(* What this program builds, alone or in the bundle of a batch, it parses  *)
(* as the same messages in the same order; an element that is malformed    *)
(* does not hide the others of its bundle.                                 *)
(***************************************************************************)
ParsesWhatWasBuilt == pc = "done" /\ sent # <<>> => result /\ out = sent

=============================================================================
