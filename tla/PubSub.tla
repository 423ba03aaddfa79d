------------------------------- MODULE PubSub -------------------------------
(***************************************************************************)
(* What the broker promises to the connections that have a session.  A     *)
(* session has all its topics or none; a message goes once to each session *)
(* that had the topic when it was published, unless that session ends      *)
(* first; nobody joins while a message is on its way; the end of a session *)
(* publishes its will, to those that are left and before the message whose *)
(* delivery it interrupts goes on.  Only a failure of the broker loses     *)
(* messages, and it ends every session.  Names are not promised to differ. *)
(***************************************************************************)
EXTENDS Sequences

CONSTANTS Conns, Ids, Topics, NoTopic, NoSession

Session == [cd: Ids, tp: SUBSET Topics, wt: Topics \cup {NoTopic}]

VARIABLES
    session,  \* the name, the topics and the will of each connection
    casts     \* messages being delivered, innermost first: topic, who is due

pvars == <<session, casts>>

Init == session = [c \in Conns |-> NoSession] /\ casts = <<>>

Members(tp, ses) == {c \in Conns : ses[c] # NoSession /\ tp \in ses[c].tp}

Start(tp, ses, cs) ==
    IF tp = NoTopic THEN cs ELSE <<[tp |-> tp, todo |-> Members(tp, ses)]>> \o cs

Done(c, cast) == [tp |-> cast.tp, todo |-> cast.todo \ {c}]

(* s becomes the session of c and is announced on topic tp *)
Join(c, s, tp) ==
    /\ casts = <<>>
    /\ session[c] = NoSession
    /\ session' = [session EXCEPT ![c] = s]
    /\ casts' = Start(tp, session', <<>>)

Publish(tp) ==
    /\ casts = <<>>
    /\ casts' = Start(tp, session, <<>>)
    /\ UNCHANGED session

Deliver(c) ==
    /\ casts # <<>>
    /\ c \in casts[1].todo
    /\ casts' = <<Done(c, casts[1])>> \o Tail(casts)
    /\ UNCHANGED session

Finish ==
    /\ casts # <<>>
    /\ casts[1].todo = {}
    /\ casts' = Tail(casts)
    /\ UNCHANGED session

(* c disconnects, falls silent or cannot be written to *)
Leave(c) ==
    /\ session[c] # NoSession
    /\ session' = [session EXCEPT ![c] = NoSession]
    /\ casts' = Start(session[c].wt, session',
                      [i \in DOMAIN casts |-> Done(c, casts[i])])

Fail ==
    /\ session' = [c \in Conns |-> NoSession]
    /\ casts' = <<>>

Next ==
    \/ \E c \in Conns, s \in Session, tp \in Topics \cup {NoTopic} : Join(c, s, tp)
    \/ \E tp \in Topics : Publish(tp)
    \/ \E c \in Conns : Deliver(c) \/ Leave(c)
    \/ Finish
    \/ Fail

Spec == Init /\ [][Next]_pvars
=============================================================================
