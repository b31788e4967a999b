------------------------------ MODULE MCSession ------------------------------
(***************************************************************************)
(* A small Session for TLC.  Its bounds are constants of Session.          *)
(***************************************************************************)
EXTENDS Session
=============================================================================
