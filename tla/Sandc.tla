------------------------------- MODULE Sandc --------------------------------
(***************************************************************************)
(* The client of the broker, sand/root/usr/lib/lua/sandc.lua: a reader, a  *)
(* ping coroutine and the coroutines of its user share one descriptor and  *)
(* the table ins, over the blocking calls of se_core.c.  A coroutine keeps *)
(* the processor (cur) until it blocks; which of the ready ones runs next  *)
(* is left open.  A frame is written in pieces, so that a write can stop  *)
(* in the middle when the send buffer of Cap pieces is full.               *)
(*                                                                         *)
(* on_disconnect either returns, as in the examples at the end of the      *)
(* source, or ends the process, as in base/main.lua:184-187.  An error in  *)
(* a coroutine ends the process too (se_thread_resume).                    *)
(***************************************************************************)
EXTENDS Naturals, Sequences, FiniteSets

CONSTANTS
    Publishers,     \* coroutines that call publish and disconnect
    User,           \* the coroutine that connects
    Reader, Ping, Nobody,
    Cap,            \* pieces that fit into the send buffer
    Keepalive,      \* in ticks of a second
    MaxIn, MaxPub   \* bounds: messages from the broker, publishes of each

ASSUME SandcAssumption ==
    /\ User \notin Publishers \cup {Reader, Ping}
    /\ Reader \notin Publishers \cup {Ping} /\ Ping \notin Publishers
    /\ Nobody \notin Publishers \cup {User, Reader, Ping}
    /\ Cap \in Nat /\ Cap >= 3
    /\ Keepalive \in Nat \ {0} /\ MaxIn \in Nat /\ MaxPub \in Nat

Coroutines == Publishers \cup {User, Reader, Ping}

(* The pieces of a frame: a publish is long, pi and dc are short. *)
Size(c) == CASE c \in Publishers -> 3 [] c = User -> 2 [] OTHER -> 1

VARIABLES
    proc,           \* "up", "exited" in on_disconnect, or "error"
    state, client,  \* ins.state, ins.client is not nil
    calls, reason,  \* on_disconnect: how often, and the first reason
    closes,         \* successful se.close of the descriptor
    cur, pc,        \* the running coroutine; where each one is
    leaving,        \* those inside disconnect
    left,           \* pieces that are still to be written
    cache, rerr,    \* the reader's data and error of this read
    got,            \* calls of on_message
    idle, since,    \* ticks since ins.active, since last
    slow,           \* nothing came since a connect of 2.1 keepalives
    pubs, oks,      \* publish calls of each, and those that returned true
    peer,           \* the broker: "up", "silent" or "closed"
    inbox, pong,    \* what is on its way from it
    sent,           \* messages it has sent
    wire,           \* pieces in the send buffer and on their way
    part, begun,    \* the broker's buffer: whose frame, its pieces
    full,           \* whole publish frames it has read of each
    mixed, overtaken

ins == <<state, client, calls, reason, closes>>
broker == <<peer, sent, part, begun, full, mixed>>
net == <<inbox, pong>>
vars == <<proc, ins, cur, pc, leaving, left, cache, rerr, got, idle, since, slow,
          pubs, oks, broker, net, wire, overtaken>>

(* Mutant: one keepalive, a ping's answer may not be there yet. *)
LimitOne == Keepalive

(* now - ins.active >= keepalive * 2.1 *)
Limit == (21 * Keepalive + 9) \div 10

(* Places where a coroutine waits for a callback or is over; one that is   *)
(* "idle" is in a pause of the user's own.                                 *)
Waiting == {"none", "read", "sleep", "write", "done"}
Least(m, n) == IF m < n THEN m ELSE n
At(c, where) == pc' = [pc EXCEPT ![c] = where]

Init ==
    /\ proc = "up"
    /\ state = "new" /\ client = FALSE /\ calls = 0 /\ reason = "none" /\ closes = 0
    /\ cur = Nobody
    /\ pc = [c \in Coroutines |-> IF c = User THEN "connect" ELSE "none"]
    /\ leaving = {} /\ left = [c \in Coroutines |-> 0]
    /\ cache = 0 /\ rerr = "none" /\ got = 0
    /\ idle = 0 /\ since = 0 /\ slow = FALSE
    /\ pubs = [p \in Publishers |-> 0] /\ oks = pubs
    /\ peer = "up" /\ inbox = 0 /\ pong = FALSE /\ sent = 0
    /\ wire = <<>> /\ part = Nobody /\ begun = 0
    /\ full = pubs
    /\ mixed = FALSE /\ overtaken = FALSE

(* The coroutine that runs goes on; when none does, the schedule loop      *)
(* takes any that is at a place where it is ready.                         *)
Running(c, where) == proc = "up" /\ cur \in {c, Nobody} /\ pc[c] = where

-----------------------------------------------------------------------------
(* What calls of se.* do. *)

(* Mutant: client keeps the number of the closed descriptor. *)
CloseKeepsClient(why) ==
    /\ closes' = closes + 1
    /\ state' = "stop"
    /\ calls' = calls + 1 /\ reason' = why
    /\ proc' \in {proc, "exited"}
    /\ UNCHANGED client

(* se.close(ins.client), client nil and state stop, on_disconnect.  With   *)
(* client nil already luaL_checkinteger raises an error.                   *)
Close(why) ==
    IF client
    THEN /\ closes' = closes + 1
         /\ client' = FALSE /\ state' = "stop"
         /\ calls' = calls + 1 /\ reason' = why
         /\ proc' \in {proc, "exited"}
    ELSE proc' = "error" /\ UNCHANGED ins

(* se_try_write puts what fits; a closed connection takes it or fails *)
Put(c, n) ==
    /\ wire' = IF peer = "closed" THEN wire ELSE wire \o [i \in 1..n |-> c]
    /\ overtaken' = (overtaken \/ (n > 0 /\ \E d \in Coroutines \ {c} :
                                      pc[d] = "write" /\ left[d] \in 1..(Size(d) - 1)))

(* Mutant: the count that write returns is not looked at. *)
RoomAlways == Cap

Room == IF peer = "closed" THEN Cap ELSE Cap - Len(wire)

(* l_se_write of a frame: written at once, an error at once, or the rest   *)
(* waits for the descriptor, without a timeout                             *)
WriteFrame(c) ==
    \/ /\ Put(c, Least(Size(c), Room))
       /\ left' = [left EXCEPT ![c] = Size(c) - Least(Size(c), Room)]
       /\ IF Room >= Size(c) THEN At(c, "wrote") /\ cur' = c
                          ELSE At(c, "write") /\ cur' = Nobody
    \/ /\ peer = "closed"
       /\ At(c, "failed") /\ cur' = c
       /\ UNCHANGED <<left, wire, overtaken>>

(* Mutant: a write that goes on starts again at the first byte. *)
OnWriteAgain(c) ==
    /\ proc = "up" /\ cur = Nobody /\ client
    /\ pc[c] = "write"
    /\ Room > 0 /\ Put(c, Least(Size(c), Room))
    /\ left' = [left EXCEPT ![c] = Size(c) - Least(Size(c), Room)]
    /\ At(c, IF Room >= Size(c) THEN "wrote" ELSE "write")
    /\ UNCHANGED <<slow, leaving, proc, ins, cur, cache, rerr, got, idle, since,
                   pubs, oks, broker, net>>

(* Mutant: what was written at the first try is taken for the whole. *)
OnWriteDone(c) ==
    /\ proc = "up" /\ cur = Nobody /\ client
    /\ pc[c] = "write"
    /\ At(c, "wrote")
    /\ left' = [left EXCEPT ![c] = 0]
    /\ UNCHANGED <<slow, leaving, proc, ins, cur, cache, rerr, got, idle, since,
                   pubs, oks, broker, net, wire, overtaken>>

(* se_on_write, on a descriptor that is open *)
OnWrite(c) ==
    /\ proc = "up" /\ cur = Nobody /\ client
    /\ pc[c] = "write"
    /\ \/ /\ Room > 0
          /\ Put(c, Least(left[c], Room))
          /\ left' = [left EXCEPT ![c] = @ - Least(@, Room)]
          /\ At(c, IF left[c] <= Room THEN "wrote" ELSE "write")
       \/ /\ peer = "closed"
          /\ At(c, "failed")
          /\ UNCHANGED <<left, wire, overtaken>>
    /\ UNCHANGED <<slow, leaving, proc, ins, cur, cache, rerr, got, idle, since,
                   pubs, oks, broker, net>>

(* A write that waits on a closed descriptor: libev may find that it is    *)
(* gone and call se_on_write, whose write fails with EBADF, which          *)
(* se_try_write asserts against.                                           *)
OnWriteClosed(c) ==
    /\ proc = "up" /\ cur = Nobody /\ ~client
    /\ pc[c] = "write"
    /\ proc' = "error"
    /\ UNCHANGED <<slow, leaving, ins, cur, pc, left, cache, rerr, got, idle, since,
                   pubs, oks, broker, net, wire, overtaken>>

-----------------------------------------------------------------------------
(* method.connect and method.run: connecting fails, or the first write     *)
(* does (the descriptor is closed, on_disconnect is not called), or the    *)
(* three coroutines start.                                                 *)
Connect ==
    /\ Running(User, "connect")
    /\ \/ At(User, "done") /\ UNCHANGED <<slow, ins, wire>>
       \/ /\ peer = "closed"
          /\ closes' = closes + 1 /\ state' = "stop"
          /\ At(User, "done")
          /\ UNCHANGED <<slow, client, calls, reason, wire>>
       \/ /\ state' = "run" /\ client' = TRUE /\ slow' = (idle >= Limit)
          /\ wire' = wire \o [i \in 1..Size(User) |-> User]
          /\ pc' = [c \in Coroutines |->
                       CASE c = Reader -> "loop" [] c = Ping -> "check"
                         [] c = User -> "done" [] OTHER -> "idle"]
          /\ UNCHANGED <<calls, reason, closes>>
    /\ cur' = Nobody
    /\ UNCHANGED <<leaving, proc, left, cache, rerr, got, idle, since,
                   pubs, oks, broker, net, overtaken>>

(* method.publish: the call, *)
Publish(p) ==
    /\ Running(p, "idle")
    /\ pubs[p] < MaxPub
    /\ state # "stop"
    /\ pubs' = [pubs EXCEPT ![p] = @ + 1]
    /\ WriteFrame(p)
    /\ UNCHANGED <<slow, leaving, proc, ins, cache, rerr, got, idle, since, oks, broker, net>>

(* its return after the write, *)
Published(p) ==
    /\ p \notin leaving
    /\ \/ /\ Running(p, "wrote")
          /\ oks' = [oks EXCEPT ![p] = @ + 1]
          /\ UNCHANGED <<ins, proc>>
       \/ /\ Running(p, "failed")
          /\ Close("write")
          /\ UNCHANGED oks
    /\ At(p, "idle")
    /\ cur' = Nobody
    /\ UNCHANGED <<slow, leaving, left, cache, rerr, got, idle, since,
                   pubs, broker, net, wire, overtaken>>

(* and the end of a user's loop, "while mqtt:running()" *)
Rest(c) ==
    /\ Running(c, "idle")
    /\ state = "stop" \/ pubs[c] = MaxPub
    /\ At(c, "done")
    /\ cur' = Nobody
    /\ UNCHANGED <<slow, leaving, proc, ins, left, cache, rerr, got, idle, since,
                   pubs, oks, broker, net, wire, overtaken>>

(* method.disconnect, of a user's coroutine or inside on_message.  The     *)
(* result of the write of the frame dc is not looked at.                   *)
Disconnect(c, where) ==
    /\ Running(c, where)
    /\ state = "run"
    /\ leaving' = leaving \cup {c}
    /\ WriteFrame(c)
    /\ UNCHANGED <<slow, proc, ins, cache, rerr, got, idle, since, pubs, oks, broker, net>>

Disconnected(c, where) ==
    /\ c \in leaving /\ leaving' = leaving \ {c}
    /\ Running(c, "wrote") \/ Running(c, "failed")
    /\ Close("user")
    /\ At(c, where)
    /\ cur' = IF where = "done" THEN Nobody ELSE c
    /\ UNCHANGED <<slow, left, cache, rerr, got, idle, since,
                   pubs, oks, broker, net, wire, overtaken>>

-----------------------------------------------------------------------------
(* run_internal: the top of the loop and the first try of the read.  With  *)
(* 8192 bytes wanted it blocks unless the connection is at its end.        *)
ReadCall ==
    /\ Running(Reader, "loop")
    /\ IF state = "stop"
       THEN At(Reader, "done") /\ UNCHANGED rerr
       ELSE \/ At(Reader, "read") /\ UNCHANGED rerr
            \/ /\ peer = "closed" /\ inbox = 0 /\ ~pong
               /\ At(Reader, "recv") /\ rerr' = "EOF"
    /\ cur' = IF pc'[Reader] = "recv" THEN Reader ELSE Nobody
    /\ cache' = 0
    /\ UNCHANGED <<slow, leaving, proc, ins, left, got, idle, since, pubs, oks,
                   broker, net, wire, overtaken>>

(* se_on_read takes what is there; a pong is data without a message.  The  *)
(* cache counts it as one more than the messages.                          *)
OnData ==
    /\ proc = "up" /\ cur = Nobody /\ client
    /\ pc[Reader] = "read"
    /\ inbox > 0 \/ pong
    /\ cache' = inbox + (IF cache = 0 THEN 1 ELSE cache)
    /\ inbox' = 0 /\ pong' = FALSE
    /\ UNCHANGED <<slow, leaving, proc, ins, cur, pc, left, rerr, got, idle, since,
                   pubs, oks, broker, wire, overtaken>>

(* it ends: the end of the stream, a reset that loses what was on its way, *)
(* or se_on_read_timeout after 10 ms, on a closed descriptor as well       *)
ReadEnds ==
    /\ proc = "up" /\ cur = Nobody
    /\ pc[Reader] = "read"
    /\ \/ client /\ peer = "closed" /\ inbox = 0 /\ ~pong /\ rerr' = "EOF" /\ UNCHANGED net
       \/ client /\ peer = "closed" /\ rerr' = "reset" /\ inbox' = 0 /\ pong' = FALSE
       \/ rerr' = "TIMEOUT" /\ UNCHANGED net
    /\ At(Reader, "recv")
    /\ UNCHANGED <<slow, leaving, proc, ins, cur, left, cache, got, idle, since,
                   pubs, oks, broker, wire, overtaken>>

(* Mutant: an error ends the loop before the data is processed. *)
ReceiveErrorFirst ==
    /\ Running(Reader, "recv")
    /\ idle' = IF cache > 0 THEN 0 ELSE idle
    /\ At(Reader, IF rerr = "TIMEOUT" /\ cache > 1 THEN "message" ELSE "end")
    /\ cur' = Reader
    /\ UNCHANGED <<slow, leaving, proc, ins, left, cache, rerr, got, since,
                   pubs, oks, broker, net, wire, overtaken>>

(* data moves ins.active; on_recv starts *)
Receive ==
    /\ Running(Reader, "recv")
    /\ idle' = IF cache > 0 THEN 0 ELSE idle
    /\ slow' = (slow /\ (cache = 0 \/ state = "stop"))
    /\ At(Reader, IF cache > 1 THEN "message" ELSE "end")
    /\ cur' = Reader
    /\ UNCHANGED <<leaving, proc, ins, left, cache, rerr, got, since,
                   pubs, oks, broker, net, wire, overtaken>>

(* on_recv dispatches one message; on_message may disconnect *)
Message ==
    /\ Running(Reader, "message")
    /\ got' = got + 1
    /\ cache' = cache - 1
    /\ At(Reader, "handled")
    /\ cur' = Reader
    /\ UNCHANGED <<slow, leaving, proc, ins, left, rerr, idle, since,
                   pubs, oks, broker, net, wire, overtaken>>

Handled ==
    /\ Running(Reader, "handled")
    /\ At(Reader, IF cache > 1 THEN "message" ELSE "end")
    /\ cur' = Reader
    /\ UNCHANGED <<slow, leaving, proc, ins, left, cache, rerr, got, idle, since,
                   pubs, oks, broker, net, wire, overtaken>>

(* or finds an error in it and the reader closes: no parse, no frame, or a *)
(* connect that the broker refused                                         *)
Refused ==
    /\ Running(Reader, "message") \/ Running(Reader, "end")
    /\ cache > 0
    /\ Close("data")
    /\ At(Reader, "done")
    /\ cur' = Nobody
    /\ cache' = 0 /\ rerr' = "none"
    /\ UNCHANGED <<slow, leaving, left, got, idle, since, pubs, oks,
                   broker, net, wire, overtaken>>

(* check recv error *)
ReadChecked ==
    /\ Running(Reader, "end")
    /\ IF rerr = "TIMEOUT"
       THEN At(Reader, "loop") /\ UNCHANGED <<ins, proc>>
       ELSE Close(rerr) /\ At(Reader, "done")
    /\ cur' = IF rerr = "TIMEOUT" THEN Reader ELSE Nobody
    /\ cache' = 0 /\ rerr' = "none"
    /\ UNCHANGED <<slow, leaving, left, got, idle, since, pubs, oks,
                   broker, net, wire, overtaken>>
-----------------------------------------------------------------------------
(* Mutant: a ping that is sent counts as a sign of life. *)
PingCheckActive ==
    /\ Running(Ping, "check") /\ state = "run"
    /\ IF since >= Keepalive
       THEN since' = 0 /\ idle' = 0 /\ WriteFrame(Ping)
       ELSE At(Ping, "sleep") /\ cur' = Nobody /\ UNCHANGED <<since, idle, left, wire, overtaken>>
    /\ UNCHANGED <<slow, leaving, proc, ins, cache, rerr, got, pubs, oks, broker, net>>

(* timeout_ping: nothing heard for too long, time for a ping, or a second  *)
(* of sleep                                                                *)
PingCheck ==
    /\ Running(Ping, "check")
    /\ CASE state = "stop" ->
              At(Ping, "done") /\ cur' = Nobody /\ UNCHANGED <<ins, proc, since, left, wire, overtaken>>
         [] state # "stop" /\ idle >= Limit ->
              /\ Close("timeout") /\ At(Ping, "done") /\ cur' = Nobody
              /\ UNCHANGED <<since, left, wire, overtaken>>
         [] state # "stop" /\ idle < Limit /\ since >= Keepalive ->
              since' = 0 /\ WriteFrame(Ping) /\ UNCHANGED <<ins, proc>>
         [] OTHER ->
              At(Ping, "sleep") /\ cur' = Nobody /\ UNCHANGED <<ins, proc, since, left, wire, overtaken>>
    /\ UNCHANGED <<slow, leaving, cache, rerr, got, idle, pubs, oks, broker, net>>

Pinged ==
    /\ \/ Running(Ping, "wrote") /\ At(Ping, "check") /\ cur' = Ping /\ UNCHANGED <<ins, proc>>
       \/ Running(Ping, "failed") /\ Close("write") /\ At(Ping, "done") /\ cur' = Nobody
    /\ UNCHANGED <<slow, leaving, left, cache, rerr, got, idle, since, pubs, oks,
                   broker, net, wire, overtaken>>

(* A second passes, of the time since ins.active, which new sets, also     *)
(* while se.connect waits, without a timeout; last is set later, by the    *)
(* ping coroutine.  A broker that is up has by then read and answered      *)
(* everything, and a reader that waits has got what was on its way; no     *)
(* coroutine computes that long.                                           *)
Tick ==
    /\ proc = "up" /\ cur = Nobody
    /\ state = "run" \/ pc[User] = "connect"
    /\ \A c \in Coroutines : pc[c] \in Waiting \cup {"idle", "connect"}
    /\ peer = "up" => wire = <<>> /\ \A c \in Coroutines : pc[c] # "write"
    /\ pc[Reader] = "read" => inbox = 0 /\ ~pong /\ cache = 0
    /\ idle' = Least(idle + 1, Limit)
    /\ since' = IF state = "run" THEN Least(since + 1, Keepalive) ELSE since
    /\ pc' = IF pc[Ping] = "sleep" THEN [pc EXCEPT ![Ping] = "check"] ELSE pc
    /\ UNCHANGED <<slow, leaving, proc, ins, cur, left, cache, rerr, got,
                   pubs, oks, broker, net, wire, overtaken>>

-----------------------------------------------------------------------------
(* The broker reads a piece.  A whole ping and a whole connect frame are   *)
(* answered (po, ca), a whole dc and a piece of one frame inside another   *)
(* make it close (sands.lua:275-309).                                      *)
(* Its steps are placed between those of running coroutines, of which each *)
(* looks at the connection once before it blocks.                          *)
BrokerReads ==
    /\ proc = "up" /\ cur = Nobody
    /\ peer = "up" /\ wire # <<>>
    /\ LET c == Head(wire)
           whole == begun + 1 = Size(c)
           bye == whole /\ (c = Reader \/ (c \in Publishers /\ full[c] = pubs[c]))
       IN  IF part \in {Nobody, c}
           THEN /\ part' = IF whole THEN Nobody ELSE c
                /\ begun' = IF whole THEN 0 ELSE begun + 1
                /\ full' = IF whole /\ c \in Publishers /\ ~bye THEN [full EXCEPT ![c] = @ + 1] ELSE full
                /\ pong' = (pong \/ (whole /\ c \in {Ping, User}))
                /\ peer' = IF bye THEN "closed" ELSE peer
                /\ wire' = IF bye THEN <<>> ELSE Tail(wire)
                /\ UNCHANGED mixed
           ELSE mixed' = TRUE /\ peer' = "closed" /\ wire' = <<>> /\ UNCHANGED <<part, begun, full, pong>>
    /\ UNCHANGED <<slow, leaving, proc, ins, cur, pc, left, cache, rerr, got, idle, since,
                   pubs, oks, sent, inbox, overtaken>>

BrokerSends ==
    /\ proc = "up" /\ cur = Nobody
    /\ peer = "up" /\ state # "new" /\ sent < MaxIn
    /\ sent' = sent + 1 /\ inbox' = inbox + 1
    /\ UNCHANGED <<slow, leaving, proc, ins, cur, pc, left, cache, rerr, got, idle, since,
                   pubs, oks, peer, part, begun, full, mixed, pong, wire, overtaken>>

(* it hangs or is cut off without a word, or its end of the connection goes *)
BrokerFails ==
    /\ proc = "up" /\ cur = Nobody
    /\ peer' \in IF peer = "up" THEN {"silent", "closed"} ELSE {"closed"}
    /\ peer # "closed"
    /\ wire' = IF peer' = "closed" THEN <<>> ELSE wire
    /\ UNCHANGED <<slow, leaving, proc, ins, cur, pc, left, cache, rerr, got, idle, since,
                   pubs, oks, sent, part, begun, full, mixed, net, overtaken>>

(* a user's coroutine comes back from a pause *)
Returns(c) ==
    /\ c \in Publishers
    /\ Publish(c) \/ Disconnect(c, "idle") \/ Rest(c)

Runs(c) ==
    \/ c = User /\ Connect
    \/ c \in Publishers /\ (Published(c) \/ Disconnected(c, "done"))
    \/ /\ c = Reader
       /\ \/ ReadCall \/ Receive \/ Message \/ Handled \/ Refused \/ ReadChecked
          \/ Disconnect(Reader, "handled") \/ Disconnected(Reader, "handled")
    \/ c = Ping /\ (PingCheck \/ Pinged)

Next ==
    \/ \E c \in Coroutines : Returns(c) \/ Runs(c) \/ OnWrite(c) \/ OnWriteClosed(c)
    \/ OnData \/ ReadEnds \/ Tick
    \/ BrokerReads \/ BrokerSends \/ BrokerFails

Spec == Init /\ [][Next]_vars

(* The scheduler's list is first in, first out, so that a ready coroutine  *)
(* runs (SeCore), and it blocks or returns; the event loop calls back for  *)
(* a descriptor that stays ready and for a timeout; seconds pass.  The     *)
(* user's pauses may last, and nothing is asked of the broker.             *)
FairSpec ==
    /\ Spec
    /\ SF_vars(Tick)
    /\ \A c \in Publishers \cup {Ping} : SF_vars(Runs(c) \/ OnWrite(c))
    /\ WF_vars(Runs(User) \/ Runs(Reader) \/ ReadEnds)
    /\ SF_vars(OnData)

-----------------------------------------------------------------------------
TypeOK ==
    /\ proc \in {"up", "exited", "error"}
    /\ state \in {"new", "run", "stop"} /\ client \in BOOLEAN
    /\ reason \in {"none", "user", "timeout", "write", "data", "EOF", "reset"}
    /\ cur \in Coroutines \cup {Nobody}
    /\ \A c \in Coroutines :
          pc[c] \in Waiting \cup {"connect", "idle", "loop", "recv", "message", "handled",
                                 "end", "check", "wrote", "failed"}
    /\ leaving \subseteq Publishers \cup {Reader}
    /\ left \in [Coroutines -> 0..3]
    /\ cache \in 0..(MaxIn + 1) /\ got \in 0..MaxIn
    /\ idle \in 0..Limit /\ since \in 0..Keepalive /\ slow \in BOOLEAN
    /\ peer \in {"up", "silent", "closed"}
    /\ wire \in Seq(Coroutines) /\ Len(wire) <= Cap
    /\ part \in Coroutines \cup {Nobody} /\ begun \in 0..2

(* Three coroutines may find the connection broken at once, or one of them *)
(* while another is blocked in a write (sandc.lua:39-44, 56-72, 148-150).  *)
(* The descriptor is closed once, so that no other file that has got its   *)
(* number is closed instead, the user hears of it once, and the number in  *)
(* ins.client is always an open one.  The second one to find it broken     *)
(* calls se.close(nil), whose error ends the process, as does the write    *)
(* that still waits on the closed descriptor (se_core.c:381): only after   *)
(* an on_disconnect that returned, so never under base, whose              *)
(* on_disconnect ends the process itself.                                  *)
DisconnectedOnce ==
    /\ calls <= 1 /\ closes <= 1
    /\ client => closes = 0 /\ state = "run"
    /\ state = "run" => client
    /\ proc = "error" => calls = 1

(* The broker gets frames that are not torn by another, unless a coroutine *)
(* wrote while another was blocked in the middle of its frame; resuming a  *)
(* write (thread->nwrite, se_core.c:374-399) never tears one.              *)
TornOnlyWhenOvertaken == mixed => overtaken

(* publish returns true only for a frame that has been written to its end, *)
(* as long as the broker takes what is written (sandc.lua:56-61).          *)
Pieces(c) ==
    Size(c) * full[c] + (IF part = c THEN begun ELSE 0) + Cardinality({i \in 1..Len(wire) : wire[i] = c})
TrueMeansWritten ==
    \A p \in Publishers : peer # "closed" => Size(p) * oks[p] <= Pieces(p)

(* A broker that sends and then closes is heard out: on_disconnect reports *)
(* the end of the stream after the last message (sandc.lua:214-231), also  *)
(* when they come in one read.                                             *)
EndAfterLastMessage == reason = "EOF" => got = sent

(* A broker that answers within a second is not given up: its answer to    *)
(* the connect frame and one ping in each keepalive keep ins.active        *)
(* younger than 2.1 of them (sandc.lua:131-135).  The one exception is the *)
(* time between a connect that itself took as long and the first answer:   *)
(* ins.active counts from new (sandc.lua:263), not from the connection.    *)
TimeoutOnlyWhenSilent == reason = "timeout" => peer # "up" \/ slow

(* A broker that stays silent is given up, unless the send buffer is full  *)
(* and not of pings alone: then the ping coroutine may block in se.write,  *)
(* which has no timeout, and nobody looks at ins.active (sandc.lua:148).   *)
Choked == Len(wire) = Cap /\ \E i \in 1..Cap : wire[i] # Ping
SilenceNoticed ==
    peer = "silent" ~> (state # "run" \/ proc # "up" \/ peer = "closed" \/ Choked)
=============================================================================
