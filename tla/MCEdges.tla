------------------------------ MODULE MCEdges -------------------------------
(* A small instance of Edges for TLC. *)
EXTENDS Edges

CONSTANTS
  client1, client2, client3, tab1, tab2, server1, server2, proc1, proc2
=============================================================================
