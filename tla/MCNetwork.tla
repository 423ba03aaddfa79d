----------------------------- MODULE MCNetwork -----------------------------
(* Small instances of the process network for TLC. *)
EXTENDS Network

CONSTANTS s1, s2

Two == {s1, s2}
=============================================================================
