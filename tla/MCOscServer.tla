---------------------------- MODULE MCOscServer ----------------------------
(***************************************************************************)
(* OscServer on small instances.                                           *)
(***************************************************************************)
EXTENDS OscServer, TLC

\* Publishing threads are interchangeable.
Symmetry == Permutations(Publishers)

=============================================================================
