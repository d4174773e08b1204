----------------------------- MODULE MCOscHttp -----------------------------
(***************************************************************************)
(* OscHttp, and with it the connections of OscWs, on a small instance.     *)
(***************************************************************************)
EXTENDS OscHttp, TLC

\* Nothing distinguishes one client, address or descriptor number from another.
Symmetry ==
    Permutations(Clients) \cup Permutations(Tokens) \cup Permutations(Fds)

=============================================================================
