---------------------------- MODULE MCDiscovery -----------------------------
(* Two access points and two controllers for TLC. *)
EXTENDS Discovery

Two == 1..2
(* One configured access point, or each with a controller of its own. *)
OneOrTwo ==
    {[cfg |-> [a \in Two |-> IF a = 1 THEN 1 ELSE None], spent |-> 0],
     [cfg |-> [a \in Two |-> a], spent |-> 1]}
=============================================================================
