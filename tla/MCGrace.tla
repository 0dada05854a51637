------------------------------- MODULE MCGrace -------------------------------
(* Small instances of Grace for TLC. *)
EXTENDS Grace
=============================================================================
