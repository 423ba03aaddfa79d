--------------------------- MODULE MessageChannel ---------------------------
(***************************************************************************)
(* What the framing promises its users, the applications on both ends of a *)
(* sands connection: a channel of whole messages.  Those that were sent    *)
(* come out in order, each once and unchanged, some at a time; then the    *)
(* channel is at its end or stays open.                                    *)
(***************************************************************************)
EXTENDS Naturals, Sequences

CONSTANT Messages

VARIABLES todo, got   \* messages on their way, messages handed over

mvars == <<todo, got>>

Init == todo \in Seq(Messages) /\ got = <<>>

Deliver(n) ==
    /\ got' = got \o SubSeq(todo, 1, n)
    /\ todo' = SubSeq(todo, n + 1, Len(todo))

Next == \E n \in 1..Len(todo) : Deliver(n)

Spec == Init /\ [][Next]_mvars
=============================================================================
