------------------------------ MODULE MCSeCore ------------------------------
(* Small instances of the scheduler for TLC. *)
EXTENDS SeCore

CONSTANTS t1, t2, t3

Three == {t1, t2, t3}
=============================================================================
