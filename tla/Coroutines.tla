----------------------------- MODULE Coroutines -----------------------------
(***************************************************************************)
(* What the scheduler promises to a coroutine.  Ready coroutines run in    *)
(* the order in which they got ready, one at a time, until they wait or    *)
(* return.  A wait is for a deadline, a descriptor or both; it ends once,  *)
(* by something it was for, and then nothing of it is left; a deadline     *)
(* that has come always ends it, a descriptor may turn out not to be ready *)
(* for the whole call.  What fired is dealt with before anybody runs.      *)
(***************************************************************************)
EXTENDS Naturals, Sequences

CONSTANTS Threads, Main

VARIABLES
    queue,            \* who is ready, first come first
    running,          \* who runs, or Main
    deadline, event,  \* who waits for a time, for a descriptor
    due, ready        \* whose time has come, whose descriptor is ready

cvars == <<queue, running, deadline, event, due, ready>>
waits == <<deadline, event, due, ready>>

Queued(th) == \E i \in 1..Len(queue) : queue[i] = th

Init ==
    /\ \E th \in Threads : queue = <<th>>
    /\ running = Main
    /\ waits = <<{}, {}, {}, {}>>

Run ==
    /\ running = Main /\ due = {} /\ ready = {}
    /\ queue # <<>>
    /\ running' = Head(queue) /\ queue' = Tail(queue)
    /\ UNCHANGED waits

Spawn(th) ==
    /\ running # Main /\ running # th
    /\ ~Queued(th) /\ th \notin deadline \cup event
    /\ queue' = Append(queue, th)
    /\ UNCHANGED <<running, waits>>

Wait(d, e) ==
    /\ running # Main
    /\ running \notin deadline \cup event
    /\ deadline' = IF d THEN deadline \cup {running} ELSE deadline
    /\ event' = IF e THEN event \cup {running} ELSE event
    /\ running' = Main
    /\ UNCHANGED <<queue, due, ready>>

Return ==
    /\ running # Main
    /\ running \notin deadline \cup event
    /\ running' = Main
    /\ UNCHANGED <<queue, waits>>

Poll(d, e) ==
    /\ running = Main /\ queue = <<>> /\ due = {} /\ ready = {}
    /\ d \subseteq deadline /\ e \subseteq event
    /\ due' = d /\ ready' = e
    /\ UNCHANGED <<queue, running, deadline, event>>

Wake(th) ==
    /\ running = Main
    /\ th \in due \cup ready
    /\ ~Queued(th)
    /\ queue' = Append(queue, th)
    /\ deadline' = deadline \ {th} /\ event' = event \ {th}
    /\ due' = due \ {th} /\ ready' = ready \ {th}
    /\ UNCHANGED running

WaitOn(th) ==
    /\ th \in ready /\ th \notin due
    /\ ready' = ready \ {th}
    /\ UNCHANGED <<queue, running, deadline, event, due>>

Next ==
    \/ Run \/ Return
    \/ \E th \in Threads : Spawn(th) \/ Wake(th) \/ WaitOn(th)
    \/ \E d, e \in BOOLEAN : (d \/ e) /\ Wait(d, e)
    \/ \E d, e \in SUBSET Threads : Poll(d, e)

Spec == Init /\ [][Next]_cvars
=============================================================================
