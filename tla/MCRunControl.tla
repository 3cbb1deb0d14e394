---------------------------- MODULE MCRunControl ----------------------------
(***************************************************************************)
(* One run with one body that spawns, and a bound on what happens to it.   *)
(***************************************************************************)
EXTENDS RunControlProperties

OneChild == {1}
TwoChildren == {1, 2}
=============================================================================
