------------------------------ MODULE MCSands -------------------------------
(* Small instances of the broker for TLC. *)
EXTENDS Sands, TLC, FiniteSets

CONSTANTS f1, f2, f3, a, b, t, u

MCFds == {f1, f2, f3}
MCFds2 == {f1, f2}
MCIds == {a, b}
MCTopics == {t, u}

(* What sandc.lua and the applications over it send: a client id, topics   *)
(* without an empty part.                                                  *)
Good(id, tps, w, c) ==
    [cd |-> id, valid |-> TRUE, tp |-> tps, gap |-> FALSE, wt |-> w, ct |-> c]

WellFormed ==
    {Good(a, {t}, u, NoTopic), Good(a, {t, u}, NoTopic, t),
     Good(b, {u}, t, u), Good(b, {t}, t, NoTopic),
     [Good(a, {}, t, NoTopic) EXCEPT !.valid = FALSE]}

(* a topic list with an empty part, "t\t\t..." *)
WithGap == WellFormed \cup {[Good(b, {t}, NoTopic, NoTopic) EXCEPT !.gap = TRUE]}

(* a connect command without the field cd *)
WithoutId ==
    WithGap \cup {[Good(a, {}, NoTopic, NoTopic) EXCEPT !.cd = NoId, !.valid = FALSE]}

(* The connect commands for the run about duplicate ids.                   *)
OneEach == {Good(a, {t}, t, t), Good(b, {t}, NoTopic, NoTopic)}

Symmetry == Permutations(MCFds)
=============================================================================
