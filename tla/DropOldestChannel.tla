------------------------- MODULE DropOldestChannel -------------------------
(***************************************************************************)
(* What the outbound side of osc_server promises to its callers: a bounded *)
(* first-in first-out channel that, when full, gives up its oldest item,   *)
(* and that closes only after everything it accepted has left.             *)
(***************************************************************************)
EXTENDS Integers, Sequences

CONSTANTS Items, Capacity

VARIABLES
    phase,      \* "closed", "open" or "draining"
    buffer,     \* accepted, not yet taken
    outgoing,   \* taken, not yet delivered: at most one item
    delivered   \* everything delivered so far, in order

chanVars == <<phase, buffer, outgoing, delivered>>

Init ==
    /\ phase = "closed"
    /\ buffer = <<>>
    /\ outgoing = <<>>
    /\ delivered = <<>>

Open ==
    /\ phase = "closed"
    /\ phase' = "open"
    /\ UNCHANGED <<buffer, outgoing, delivered>>

\* The item put last; naming it this way needs no enumeration of Items.
Newest(seq) == seq[Len(seq)]

PutOnto(kept) ==
    /\ phase = "open"
    /\ buffer' # <<>>
    /\ Newest(buffer') \in Items
    /\ buffer' = Append(kept, Newest(buffer'))
    /\ UNCHANGED <<phase, outgoing, delivered>>

Put == Len(buffer) < Capacity /\ PutOnto(buffer)

PutDroppingOldest == Len(buffer) = Capacity /\ PutOnto(Tail(buffer))

Take ==
    /\ phase # "closed"
    /\ outgoing = <<>>
    /\ buffer # <<>>
    /\ outgoing' = <<Head(buffer)>>
    /\ buffer' = Tail(buffer)
    /\ UNCHANGED <<phase, delivered>>

Deliver ==
    /\ outgoing # <<>>
    /\ delivered' = Append(delivered, Head(outgoing))
    /\ outgoing' = <<>>
    /\ UNCHANGED <<phase, buffer>>

BeginClose ==
    /\ phase = "open"
    /\ phase' = "draining"
    /\ UNCHANGED <<buffer, outgoing, delivered>>

\* Nothing is thrown away on closing.
EndClose ==
    /\ phase = "draining"
    /\ buffer = <<>>
    /\ outgoing = <<>>
    /\ phase' = "closed"
    /\ UNCHANGED <<buffer, outgoing, delivered>>

Next ==
    \/ Open
    \/ Put
    \/ PutDroppingOldest
    \/ Take
    \/ Deliver
    \/ BeginClose
    \/ EndClose

Spec == Init /\ [][Next]_chanVars

=============================================================================
