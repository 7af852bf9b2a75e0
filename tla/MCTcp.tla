------------------------------- MODULE MCTcp -------------------------------
(* Small instances of the connections.                                      *)
EXTENDS Tcp
=============================================================================
