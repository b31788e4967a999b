---------------------------- MODULE MCConnection ----------------------------
(***************************************************************************)
(* Small connections for TLC.  The bounds are constants of Connection, in  *)
(* the guards of its actions; a configuration picks what it wants to see   *)
(* happen.  No two TCP connections are told apart by their names.          *)
(***************************************************************************)
EXTENDS Connection, TLC

Symmetry == Permutations(Streams)
=============================================================================
