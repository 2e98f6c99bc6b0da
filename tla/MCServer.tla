------------------------------ MODULE MCServer ------------------------------
(* Server for TLC. *)
EXTENDS Server, TLC

CONSTANTS c1, c2

MCClients == {c1, c2}

=============================================================================
