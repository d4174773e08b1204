---------------------------- MODULE MCOscPlugin ----------------------------
(***************************************************************************)
(* OscPlugin with few ports.                                               *)
(***************************************************************************)
EXTENDS OscPlugin

=============================================================================
