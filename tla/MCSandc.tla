------------------------------ MODULE MCSandc -------------------------------
(* A small instance of the client for TLC. *)
EXTENDS Sandc

CONSTANT p1

MCPublishers == {p1}
=============================================================================
