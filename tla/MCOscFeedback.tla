--------------------------- MODULE MCOscFeedback ---------------------------
(***************************************************************************)
(* OscFeedback, and with it the registries of OscSubscribe, on a small     *)
(* instance: one host with two ports, patterns for one, the other and      *)
(* every address.                                                          *)
(***************************************************************************)
EXTENDS OscFeedback

MCMatches == {<<"x", "x">>, <<"*", "x">>}

=============================================================================
