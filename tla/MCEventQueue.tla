--------------------------- MODULE MCEventQueue ------------------------------
(* Small instances of EventQueue for TLC. *)
EXTENDS EventQueue

CONSTANTS a1, nobody, shutdown
=============================================================================
