------------------------------- MODULE SeCore -------------------------------
(***************************************************************************)
(* The coroutine scheduler under all applications, se/se/se/se_core.c, on  *)
(* its event loop, libev-4.19/ev.c.  A coroutine runs until it blocks in   *)
(* se.sleep, se.read, se.write, se.connect or se.accept; blocking takes it *)
(* off the list of running threads and arms a timer, an io watcher or      *)
(* both; their callbacks put it back.                                      *)
(*                                                                         *)
(* One round of ev_run: the prepare watcher (se_on_schedule) runs threads  *)
(* until the list is empty; the poll feeds the ready io watchers and then  *)
(* the expired timers, which are stopped; ev_invoke_pending calls back     *)
(* last in, first out, so timers come before io.                           *)
(***************************************************************************)
EXTENDS Naturals, Sequences, FiniteSets

CONSTANTS Threads, Main, MaxGo   \* MaxGo bounds the calls of se.go

ASSUME ThreadsAssumption == Main \notin Threads /\ MaxGo \in Nat

VARIABLES
    runq,       \* se_running_threads
    cur,        \* se_current
    mode,       \* what a thread is doing; "none": not created, or freed
    timer, io,  \* threads whose timer, whose io watcher is active
    buf,        \* threads that hold a partial read (thread->buf)
    pendTimer, pendIo,   \* watchers fed to the loop and not yet called back
    gone        \* calls of se.go so far

vars == <<runq, cur, mode, timer, io, buf, pendTimer, pendIo, gone>>
loop == <<pendTimer, pendIo>>

IoOps == {"read", "write", "connect", "accept"}
Blocked(th) == mode[th] \in IoOps \cup {"sleep"}
InRunq(th) == \E i \in 1..Len(runq) : runq[i] = th

(* list_del of the node of th *)
ListDel(th) ==
    LET i == CHOOSE i \in 1..Len(runq) : runq[i] = th
    IN  [j \in 1..(Len(runq) - 1) |-> IF j < i THEN runq[j] ELSE runq[j + 1]]

(* l_se_run: the first thread is on the list *)
Init ==
    /\ \E th \in Threads : /\ runq = <<th>>
                           /\ mode = [t \in Threads |-> IF t = th THEN "ready" ELSE "none"]
    /\ cur = Main
    /\ timer = {} /\ io = {} /\ buf = {}
    /\ pendTimer = {} /\ pendIo = {}
    /\ gone = 0

-----------------------------------------------------------------------------
(* se_on_schedule: the first thread goes to the tail and runs *)
Schedule ==
    /\ cur = Main
    /\ loop = <<{}, {}>>
    /\ runq # <<>>
    /\ cur' = Head(runq)
    /\ runq' = Append(Tail(runq), Head(runq))
    /\ UNCHANGED <<mode, timer, io, buf, loop, gone>>

(* l_se_go, se_thread_new *)
Go(th) ==
    /\ cur # Main
    /\ gone < MaxGo
    /\ mode[th] = "none"
    /\ mode' = [mode EXCEPT ![th] = "ready"]
    /\ runq' = Append(runq, th)
    /\ gone' = gone + 1
    /\ UNCHANGED <<cur, timer, io, buf, loop>>

(* l_se_sleep: SE_WAIT *)
Sleep ==
    /\ cur # Main
    /\ mode' = [mode EXCEPT ![cur] = "sleep"]
    /\ runq' = ListDel(cur)
    /\ timer' = timer \cup {cur}
    /\ cur' = Main
    /\ UNCHANGED <<io, buf, loop, gone>>

(* SE_WAIT_TIMEOUT: the first try could not finish.  A timeout of at most  *)
(* a millisecond returns at once and changes nothing here.                 *)
WaitIo(op, timeout) ==
    /\ cur # Main
    /\ mode' = [mode EXCEPT ![cur] = op]
    /\ timer' = IF timeout THEN timer \cup {cur} ELSE timer
    /\ io' = io \cup {cur}
    /\ runq' = ListDel(cur)
    /\ cur' = Main
    /\ UNCHANGED <<loop, gone>>

(* l_se_read: it may have got a part of its data, or allocated the cache   *)
(* of a large read.                                                        *)
Read(timeout, part) ==
    /\ WaitIo("read", timeout)
    /\ buf' = IF part THEN buf \cup {cur} ELSE buf

Write(timeout) == WaitIo("write", timeout) /\ UNCHANGED buf
Connect(timeout) == WaitIo("connect", timeout) /\ UNCHANGED buf
Accept(timeout) == WaitIo("accept", timeout) /\ UNCHANGED buf

(* the coroutine returns: se_thread_resume, se_thread_free *)
Finish ==
    /\ cur # Main
    /\ mode' = [mode EXCEPT ![cur] = "none"]
    /\ runq' = ListDel(cur)
    /\ cur' = Main
    /\ UNCHANGED <<timer, io, buf, loop, gone>>

-----------------------------------------------------------------------------
(* ev_run after the prepare watchers: fd events, then timers_reify, which  *)
(* stops an expired timer before its callback.                             *)
Poll(expired, ready) ==
    /\ cur = Main
    /\ loop = <<{}, {}>>
    /\ runq = <<>>
    /\ expired \subseteq timer /\ ready \subseteq io
    /\ expired \cup ready # {}
    /\ timer' = timer \ expired
    /\ pendTimer' = expired
    /\ pendIo' = ready
    /\ UNCHANGED <<runq, cur, mode, io, buf, gone>>

(* Mutant: list_add in place of list_add_tail. *)
WakeupFirst(th) ==
    /\ runq' = <<th>> \o runq
    /\ mode' = [mode EXCEPT ![th] = "ready"]

(* se_thread_wakeup *)
Wakeup(th) ==
    /\ runq' = Append(runq, th)
    /\ mode' = [mode EXCEPT ![th] = "ready"]

(* Mutant: the timer of the finished wait keeps running. *)
WakeupIoTimerLeft(th, pt, pi) ==
    /\ Wakeup(th)
    /\ io' = io \ {th}
    /\ pendIo' = pi \ {th}
    /\ pendTimer' = pt
    /\ UNCHANGED timer

(* se_thread_wakeup_io, called with the watchers still pending.  Stopping  *)
(* a watcher drops its pending call too; a timer that is not active any    *)
(* more is not stopped, even if its callback is still to come.             *)
WakeupIo(th, pt, pi) ==
    /\ Wakeup(th)
    /\ timer' = timer \ {th}
    /\ io' = io \ {th}
    /\ pendIo' = pi \ {th}
    /\ pendTimer' = IF th \in timer THEN pt \ {th} ELSE pt

(* se_on_sleep *)
OnSleep(th) ==
    /\ mode[th] = "sleep"
    /\ Wakeup(th)
    /\ pendTimer' = pendTimer \ {th}
    /\ UNCHANGED <<timer, io, pendIo, buf>>

(* Mutant: the partial read is not freed. *)
OnReadTimeoutBufKept(th) ==
    /\ mode[th] = "read"
    /\ WakeupIo(th, pendTimer \ {th}, pendIo)
    /\ UNCHANGED buf

(* Mutant: a read that has got a part goes on waiting. *)
OnReadTimeoutPartWaits(th) ==
    /\ mode[th] = "read"
    /\ IF th \in buf
       THEN pendTimer' = pendTimer \ {th} /\ UNCHANGED <<runq, mode, timer, io, pendIo>>
       ELSE WakeupIo(th, pendTimer \ {th}, pendIo)
    /\ UNCHANGED buf

(* se_on_read_timeout, se_read_error: the part is returned and freed *)
OnReadTimeout(th) ==
    /\ mode[th] = "read"
    /\ WakeupIo(th, pendTimer \ {th}, pendIo)
    /\ buf' = buf \ {th}

(* se_on_write_timeout, se_on_connect_timeout, se_on_accept_timeout *)
OnIoTimeout(th) ==
    /\ mode[th] \in {"write", "connect", "accept"}
    /\ WakeupIo(th, pendTimer \ {th}, pendIo)
    /\ UNCHANGED buf

OnTimer(th) ==
    /\ th \in pendTimer
    /\ OnSleep(th) \/ OnReadTimeout(th) \/ OnIoTimeout(th)
    /\ UNCHANGED <<cur, gone>>

(* a callback whose try has to wait again *)
Again(th) ==
    /\ pendIo' = pendIo \ {th}
    /\ UNCHANGED <<runq, mode, timer, io, pendTimer>>

(* se_on_read: finished (data, end of file, an error), or again a part *)
OnRead(th) ==
    /\ mode[th] = "read"
    /\ \/ WakeupIo(th, pendTimer, pendIo \ {th}) /\ buf' = buf \ {th}
       \/ Again(th) /\ buf' \in {buf, buf \cup {th}}

OnWrite(th) ==
    /\ mode[th] = "write"
    /\ WakeupIo(th, pendTimer, pendIo \ {th}) \/ Again(th)
    /\ UNCHANGED buf

OnConnect(th) ==
    /\ mode[th] = "connect"
    /\ WakeupIo(th, pendTimer, pendIo \ {th})
    /\ UNCHANGED buf

OnAccept(th) ==
    /\ mode[th] = "accept"
    /\ WakeupIo(th, pendTimer, pendIo \ {th}) \/ Again(th)
    /\ UNCHANGED buf

(* Mutant: callbacks in the order in which they were fed. *)
OnIoFirst(th) ==
    /\ th \in pendIo
    /\ OnRead(th) \/ OnWrite(th) \/ OnConnect(th) \/ OnAccept(th)
    /\ UNCHANGED <<cur, gone>>

(* ev_invoke_pending: io callbacks come after the timers *)
OnIo(th) ==
    /\ pendTimer = {}
    /\ th \in pendIo
    /\ OnRead(th) \/ OnWrite(th) \/ OnConnect(th) \/ OnAccept(th)
    /\ UNCHANGED <<cur, gone>>

Block ==
    \/ Sleep
    \/ \E timeout \in BOOLEAN :
           \/ \E part \in BOOLEAN : Read(timeout, part)
           \/ Write(timeout) \/ Connect(timeout) \/ Accept(timeout)
    \/ Finish

Next ==
    \/ Schedule
    \/ \E th \in Threads : Go(th)
    \/ Block
    \/ \E e, r \in SUBSET Threads : Poll(e, r)
    \/ \E th \in Threads : OnTimer(th) \/ OnIo(th)

Spec == Init /\ [][Next]_vars

(***************************************************************************)
(* The loop runs, a running coroutine blocks or returns in the end, and    *)
(* every active timer expires in some poll.  Descriptors may never get     *)
(* ready.                                                                  *)
(***************************************************************************)
Fairness ==
    /\ WF_vars(Schedule)
    /\ WF_vars(Block)
    /\ WF_vars(\E th \in Threads : OnTimer(th) \/ OnIo(th))
    /\ \A th \in Threads :
           SF_vars(\E e, r \in SUBSET Threads : th \in e /\ Poll(e, r))

FairSpec == Spec /\ Fairness

-----------------------------------------------------------------------------
TypeOK ==
    /\ runq \in Seq(Threads)
    /\ cur \in Threads \cup {Main}
    /\ mode \in [Threads -> IoOps \cup {"none", "ready", "sleep"}]
    /\ timer \subseteq Threads /\ io \subseteq Threads /\ buf \subseteq Threads
    /\ pendTimer \subseteq Threads /\ pendIo \subseteq Threads
    /\ gone \in 0..MaxGo

(* A blocked call returns once: a thread is on the running list at most    *)
(* once, and while it is there no watcher of an earlier wait can call back *)
(* and put it there again (se_core.c:65-77).  With both a timer and an io  *)
(* event pending this rests on libev calling timers first, because         *)
(* ev_is_active does not see a timer that has expired.                     *)
OneWakeup ==
    /\ \A i, j \in 1..Len(runq) : runq[i] = runq[j] => i = j
    /\ \A th \in Threads : InRunq(th) <=> mode[th] = "ready"
    /\ \A th \in timer \cup io \cup pendTimer \cup pendIo : ~InRunq(th)

(* No lost wakeup and no stale watcher: a blocked thread can still be      *)
(* called back, and only blocked threads have watchers; in particular a    *)
(* coroutine returns with none, the assertions of se_thread_free           *)
(* (se_core.c:105-106).                                                    *)
WaitersArmed ==
    /\ \A th \in Threads : mode[th] \in IoOps => th \in io
    /\ \A th \in Threads : mode[th] = "sleep" => th \in timer \cup pendTimer
    /\ \A th \in timer \cup io \cup pendTimer \cup pendIo : Blocked(th)
    /\ pendIo \subseteq io

(* Only a blocked read holds a partial read: the assertions at the start   *)
(* of l_se_read and in se_thread_free (se_core.c:103, 336).                *)
CacheFreed == \A th \in buf : mode[th] = "read"

(* The scheduler implements Coroutines: whatever timers and descriptors    *)
(* fire together, a wait ends once, by what it was for, and ready threads  *)
(* take their turns in order (se_core.c:48-77, 132-158).  The thread that  *)
(* runs is still on the running list, at its place among later ones.       *)
Service == INSTANCE Coroutines WITH
               Threads <- Threads, Main <- Main,
               queue <- IF cur = Main THEN runq ELSE ListDel(cur), running <- cur,
               deadline <- timer \cup pendTimer, event <- io,
               due <- pendTimer, ready <- pendIo
ImplementsCoroutines == Service!Spec

(* A sleeping thread, or one that blocks with a timeout, runs again, even  *)
(* when its descriptor never gets ready (se_core.c:48-63, 185-193).        *)
TimeoutWakes ==
    \A th \in Threads : th \in timer ~> cur = th
=============================================================================
