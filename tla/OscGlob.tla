------------------------------ MODULE OscGlob ------------------------------
(***************************************************************************)
(* osc_glob_match() (osc-util.cpp), a step per iteration of its first      *)
(* loop, and what a pattern means.                                         *)
(***************************************************************************)
EXTENDS Integers, Sequences

CONSTANTS
    Letters,     \* characters that are not wildcards; names may hold those too
    Star, Query, Nul,
    MaxPattern, MaxStr  \* bounds on the lengths

ASSUME CharactersAssumption ==
    /\ Star # Query /\ Nul \notin Letters \cup {Star, Query} /\ {Star, Query} \cap Letters = {}
    /\ MaxPattern \in Nat /\ MaxStr \in Nat

Words(alphabet, max) == UNION {[1..n -> alphabet] : n \in 0..max}

VARIABLES
    pattern, str,  \* the arguments
    p, s,          \* the two pointers, as positions
    restart_p, restart_s,  \* 0: none
    match,         \* "none" while it runs
    steps          \* history: the iterations so far

glob_vars == <<pattern, str, p, s, restart_p, restart_s, match, steps>>

GlobInit ==
    /\ pattern \in Words(Letters \cup {Star, Query}, MaxPattern)
    /\ str \in Words(Letters \cup {Star, Query}, MaxStr)
    /\ p = 1 /\ s = 1 /\ restart_p = 0 /\ restart_s = 0
    /\ match = "none" /\ steps = 0

PatternAt(k) == IF k <= Len(pattern) THEN pattern[k] ELSE Nul

Running == match = "none" /\ s <= Len(str)

\* Tested first: a star of the pattern stands for itself before a star of str.
Advance ==
    /\ Running /\ PatternAt(p) \in {Query, str[s]}
    /\ p' = p + 1 /\ s' = s + 1
    /\ UNCHANGED <<restart_p, restart_s, match>>

AtStar ==
    /\ Running /\ PatternAt(p) = Star /\ str[s] # Star
    /\ p' = p + 1 /\ restart_p' = p + 1 /\ restart_s' = s
    /\ UNCHANGED <<s, match>>

\* The last star takes one character more.
Restart ==
    /\ Running /\ PatternAt(p) \notin {Query, Star, str[s]} /\ restart_p # 0
    /\ p' = restart_p /\ restart_s' = restart_s + 1 /\ s' = restart_s + 1
    /\ UNCHANGED <<restart_p, match>>

Mismatch ==
    /\ Running /\ PatternAt(p) \notin {Query, Star, str[s]} /\ restart_p = 0
    /\ match' = "no"
    /\ UNCHANGED <<p, s, restart_p, restart_s>>

OnlyAtEnd == p = Len(pattern) + 1

\* The second loop skips the stars at the end.
OnlyStarsLeft == \A k \in p..Len(pattern) : pattern[k] = Star

End ==
    /\ match = "none" /\ s = Len(str) + 1
    /\ match' = IF OnlyStarsLeft THEN "yes" ELSE "no"
    /\ UNCHANGED <<p, s, restart_p, restart_s>>

GlobNext ==
    /\ Advance \/ AtStar \/ Restart \/ Mismatch \/ End
    /\ steps' = steps + 1
    /\ UNCHANGED <<pattern, str>>

GlobSpec == GlobInit /\ [][GlobNext]_glob_vars

-----------------------------------------------------------------------------
\* ends[k] says how much of str the first k characters of the pattern stand
\* for, when the first n stand for m: a star for any part, "?" for one
\* character, a letter for itself.
Aligns(ends, n, m) ==
    /\ ends[0] = 0 /\ ends[n] = m
    /\ \A k \in 1..n :
          IF pattern[k] = Star THEN ends[k - 1] <= ends[k]
          ELSE ends[k] = ends[k - 1] + 1 /\ pattern[k] \in {Query, str[ends[k]]}

Means ==
    \E ends \in [0..Len(pattern) -> 0..Len(str)] : Aligns(ends, Len(pattern), Len(str))

\* No star of the pattern can meet a star of the name.
StarsApart ==
    \/ \A k \in 1..Len(pattern) : pattern[k] # Star
    \/ \A k \in 1..Len(str) : str[k] # Star

(***************************************************************************)
(* The iterative matcher with its one point to go back to decides what the *)
(* pattern means, giving up the earlier stars for the last loses nothing,  *)
(* and it does so in the "O(n*m) worst case" of osc-util.cpp:21: patterns  *)
(* come from clients and are matched on signal threads. What it accepts it *)
(* accepts rightly. That it accepts all it should holds for StarsApart     *)
(* only: "*" refuses the name "*a", since the equality of osc-util.cpp:32  *)
(* comes before the star of :35 and leaves no point to go back to.         *)
(***************************************************************************)
GlobIsRight ==
    /\ match = "yes" => Means
    /\ match = "no" /\ StarsApart => ~Means
    /\ steps <= (Len(pattern) + 1) * (Len(str) + 1)

=============================================================================
