---------------------------- MODULE SandcProofs -----------------------------
(***************************************************************************)
(* Proofs about module Sandc: however many coroutines share a client, its  *)
(* descriptor is closed once, its user hears of it once, and the process   *)
(* ends with an error only after that; the end of the stream is reported   *)
(* behind its last message; a broker that answers is kept; and however     *)
(* writes are cut by a full send buffer, a frame is torn only if a         *)
(* coroutine wrote while another was blocked in the middle of its frame,   *)
(* and publish returns true only for a frame that is written to its end.   *)
(***************************************************************************)
EXTENDS Sandc, TLAPS, SequenceTheorems, FiniteSetTheorems

(* ins.state says what ins.client and the counters are; before connect has *)
(* returned nobody else uses the client, and if it failed nobody ever does *)
Asleep == \A c \in Coroutines \ {User} : pc[c] = "none"

Client ==
    /\ state \in {"new", "run", "stop"}
    /\ client \in BOOLEAN /\ (client <=> state = "run")
    /\ state = "new" => calls = 0 /\ closes = 0 /\ Asleep
    /\ state = "run" => calls = 0 /\ closes = 0
    /\ state = "stop" => closes = 1 /\ (calls = 1 \/ (calls = 0 /\ Asleep))
    /\ pc[User] = "connect" => state = "new"
    /\ pc[User] # "write"
    /\ proc = "error" => calls = 1

IInv == DOMAIN pc = Coroutines /\ Client

(* A step that neither closes nor connects: nobody wakes from "none". *)
Calm ==
    /\ UNCHANGED <<ins, proc>>
    /\ DOMAIN pc' = Coroutines
    /\ pc'[User] = pc[User]
    /\ \A c \in Coroutines \ {User} : pc[c] = "none" => pc'[c] = "none"

LEMMA CalmKeeps == ASSUME IInv, Calm PROVE IInv'
BY DEF IInv, Calm, Client, Asleep, ins

(* Only a coroutine that is awake closes.  If the client is there it is    *)
(* closed for the first time; if not, somebody has called on_disconnect.   *)
LEMMA CloseKeeps ==
    ASSUME IInv, NEW c \in Coroutines \ {User}, pc[c] # "none",
           NEW why, Close(why), NEW where, where # "connect", At(c, where)
    PROVE  IInv'
<1>1. DOMAIN pc' = Coroutines /\ pc'[User] = pc[User]
  BY DEF IInv, At, Coroutines
<1>2. ~Asleep
  BY DEF Asleep
<1>3. state # "new"
  BY <1>2 DEF IInv, Client
<1>4. pc[User] # "connect"
  BY <1>3 DEF IInv, Client
<1>5. CASE client
  <2>1. state = "run" /\ calls = 0 /\ closes = 0 /\ proc # "error"
    BY <1>5 DEF IInv, Client
  <2>2. /\ closes' = 1 /\ calls' = 1 /\ client' = FALSE /\ state' = "stop"
    BY <1>5, <2>1 DEF Close
  <2> QED BY <1>1, <1>4, <2>2 DEF IInv, Client
<1>6. CASE ~client
  <2>1. state = "stop" /\ calls = 1
    BY <1>2, <1>3, <1>6 DEF IInv, Client
  <2>2. UNCHANGED ins
    BY <1>6 DEF Close
  <2> QED BY <1>1, <1>4, <2>1, <2>2, <1>6 DEF IInv, Client, ins
<1> QED BY <1>5, <1>6

(* One step of one coroutine; the broker and the clock touch no client. *)
LEMMA Preserved == IInv /\ [Next]_vars => IInv'
<1> SUFFICES ASSUME IInv, [Next]_vars PROVE IInv'
  OBVIOUS
<1> USE SandcAssumption
<1> DEFINE Others == Publishers \cup {Reader, Ping}
<1>0. Others = Coroutines \ {User}
  BY DEF Coroutines
<1>1. CASE Connect
  <2>1. /\ state = "new" /\ calls = 0 /\ closes = 0 /\ Asleep /\ proc # "error"
        /\ client = FALSE
    BY <1>1 DEF Connect, Running, IInv, Client
  <2>2. CASE At(User, "done") /\ UNCHANGED <<ins, wire>>
    BY <1>1, <2>1, <2>2 DEF Connect, At, ins, IInv, Client, Asleep
  <2>3. CASE closes' = closes + 1 /\ state' = "stop" /\ At(User, "done")
             /\ UNCHANGED <<client, calls, reason, wire>>
    <3>1. DOMAIN pc' = Coroutines /\ Asleep' /\ pc'[User] = "done"
      BY <2>1, <2>3 DEF At, IInv, Asleep, Coroutines
    <3>2. state' = "stop" /\ closes' = 1 /\ calls' = 0 /\ proc' = proc
      BY <1>1, <2>1, <2>3 DEF Connect
    <3>3. client' = FALSE
      BY <2>1, <2>3
    <3> QED BY <2>1, <3>1, <3>2, <3>3 DEF IInv, Client
  <2>4. CASE /\ state' = "run" /\ client' = TRUE /\ UNCHANGED <<calls, reason, closes>>
             /\ pc' = [c \in Coroutines |->
                          CASE c = Reader -> "loop" [] c = Ping -> "check"
                            [] c = User -> "done" [] OTHER -> "idle"]
    <3>1. DOMAIN pc' = Coroutines /\ pc'[User] = "done"
      BY <2>4 DEF Coroutines
    <3> QED BY <1>1, <2>1, <2>4, <3>1 DEF Connect, IInv, Client
  <2> QED BY <1>1, <2>2, <2>3, <2>4 DEF Connect
<1>2. ASSUME NEW c \in Others, NEW f \in {"idle", "handled"},
             \/ Publish(c) /\ c \in Publishers
             \/ Disconnect(c, f)
             \/ OnWrite(c)
      PROVE  IInv'
  <2>1. pc[c] # "none" /\ UNCHANGED <<ins, proc>>
    BY <1>2 DEF Publish, Disconnect, OnWrite, Running
  <2>2. \E where \in {"wrote", "write", "failed"} : At(c, where)
    BY <1>2 DEF Publish, Disconnect, OnWrite, WriteFrame
  <2>3. Calm
    BY <1>0, <2>1, <2>2 DEF Calm, At, IInv
  <2> QED BY <2>3, CalmKeeps
<1>3. ASSUME NEW p \in Publishers, Published(p) PROVE IInv'
  <2>1. CASE Running(p, "failed") /\ Close("write")
    BY <1>3, <1>0, <2>1, CloseKeeps DEF Published, Running
  <2>2. CASE Running(p, "wrote") /\ UNCHANGED <<ins, proc>>
    <3>1. Calm
      BY <1>0, <1>3, <2>2 DEF Published, Calm, At, IInv, Running
    <3> QED BY <3>1, CalmKeeps
  <2> QED BY <1>3, <2>1, <2>2 DEF Published
<1>4. ASSUME NEW c \in Others, NEW where \in {"done", "handled"}, Disconnected(c, where)
      PROVE  IInv'
  BY <1>0, <1>4, CloseKeeps DEF Disconnected, Running
<1>5. ASSUME NEW c \in Publishers, Rest(c) PROVE IInv'
  <2>1. Calm
    BY <1>0, <1>5 DEF Rest, Calm, At, IInv, Running
  <2> QED BY <2>1, CalmKeeps
<1>6. CASE ReadCall \/ ReadEnds \/ Receive \/ Message \/ Handled
  <2>1. pc[Reader] # "none" /\ UNCHANGED <<ins, proc>>
    BY <1>6 DEF ReadCall, ReadEnds, Receive, Message, Handled, Running
  <2>2. \E where \in {"done", "read", "recv", "message", "end", "handled"} : At(Reader, where)
    BY <1>6 DEF ReadCall, ReadEnds, Receive, Message, Handled
  <2>3. Calm
    BY <1>0, <2>1, <2>2 DEF Calm, At, IInv
  <2> QED BY <2>3, CalmKeeps
<1>7. CASE ReadChecked
  <2>1. CASE rerr = "TIMEOUT"
    <3>1. Calm
      <4>1. pc[Reader] = "end" /\ At(Reader, "loop") /\ UNCHANGED <<ins, proc>>
        BY <1>7, <2>1 DEF ReadChecked, Running
      <4> QED BY <1>0, <4>1 DEF Calm, At, IInv
    <3> QED BY <3>1, CalmKeeps
  <2>2. CASE rerr # "TIMEOUT"
    BY <1>0, <1>7, <2>2, CloseKeeps DEF ReadChecked, Running
  <2> QED BY <2>1, <2>2
<1>r. CASE Refused
  <2>1. pc[Reader] # "none" /\ Close("data") /\ At(Reader, "done")
    BY <1>r DEF Refused, Running
  <2> QED BY <1>0, <2>1, CloseKeeps
<1>k. ASSUME NEW c \in Coroutines, OnWriteClosed(c) PROVE IInv'
  <2>1. UNCHANGED <<ins, pc>> /\ proc' = "error" /\ ~client /\ pc[c] = "write"
    BY <1>k DEF OnWriteClosed
  <2>2. c # User /\ ~Asleep
    BY <1>k, <2>1 DEF IInv, Client, Asleep
  <2>3. calls = 1
    BY <2>1, <2>2 DEF IInv, Client
  <2> QED BY <2>1, <2>3 DEF IInv, Client, Asleep, ins
<1>8. CASE PingCheck
  <2>1. pc[Ping] = "check"
    BY <1>8 DEF PingCheck, Running
  <2>2. \/ At(Ping, "done") /\ Close("timeout")
        \/ /\ UNCHANGED <<ins, proc>>
           /\ \E where \in {"done", "sleep", "wrote", "write", "failed"} : At(Ping, where)
    BY <1>8 DEF PingCheck, WriteFrame
  <2>3. CASE At(Ping, "done") /\ Close("timeout")
    BY <1>0, <2>1, <2>3, CloseKeeps
  <2>4. CASE /\ UNCHANGED <<ins, proc>>
             /\ \E where \in {"done", "sleep", "wrote", "write", "failed"} : At(Ping, where)
    <3>1. Calm
      BY <1>0, <2>1, <2>4 DEF Calm, At, IInv
    <3> QED BY <3>1, CalmKeeps
  <2> QED BY <2>2, <2>3, <2>4
<1>9. CASE Pinged
  <2>1. CASE Running(Ping, "failed") /\ Close("write") /\ At(Ping, "done")
    BY <1>0, <2>1, CloseKeeps DEF Running
  <2>2. CASE Running(Ping, "wrote") /\ At(Ping, "check") /\ UNCHANGED <<ins, proc>>
    <3>1. Calm
      BY <1>0, <2>2 DEF Calm, At, IInv, Running
    <3> QED BY <3>1, CalmKeeps
  <2> QED BY <1>9, <2>1, <2>2 DEF Pinged
<1>10. CASE Tick
  <2>1. Calm
    BY <1>0, <1>10 DEF Tick, Calm, IInv
  <2> QED BY <2>1, CalmKeeps
<1>11. CASE OnData \/ BrokerReads \/ BrokerSends \/ BrokerFails \/ UNCHANGED vars
  <2>1. UNCHANGED <<ins, proc, pc>>
    BY <1>11 DEF OnData, BrokerReads, BrokerSends, BrokerFails, vars
  <2>2. Calm
    BY <2>1 DEF Calm, IInv
  <2> QED BY <2>2, CalmKeeps
<1>12. ASSUME OnWrite(User) PROVE IInv'
  <2>1. FALSE
    BY <1>12 DEF OnWrite, IInv, Client
  <2> QED BY <2>1
<1>13. ASSUME NEW c \in Coroutines, Returns(c) \/ Runs(c) \/ OnWrite(c) PROVE IInv'
  BY <1>0, <1>1, <1>2, <1>3, <1>4, <1>5, <1>6, <1>7, <1>8, <1>9, <1>r, <1>12, <1>13
     DEF Returns, Runs
<1> QED
  BY <1>6, <1>10, <1>11, <1>13, <1>k DEF Next

LEMMA InitIInv == ASSUME Init PROVE IInv
BY SandcAssumption DEF Init, IInv, Client, Asleep, Coroutines

(* se.close is called for the client's descriptor once and on_disconnect   *)
(* once, whoever finds the connection broken (sandc.lua:39-73), and the    *)
(* error of a later se.close(nil) ends the process only after that, for    *)
(* any number of publishers and any keepalive and buffer.                  *)
THEOREM ClosedOnce == Spec => []DisconnectedOnce
<1>1. Init => IInv
  BY InitIInv
<1>2. IInv /\ [Next]_vars => IInv'
  BY Preserved
<1>3. IInv => DisconnectedOnce
  BY DEF IInv, Client, DisconnectedOnce
<1> QED BY <1>1, <1>2, <1>3, PTL DEF Spec

-----------------------------------------------------------------------------
(* Every message that was sent is on its way, in the reader's data or      *)
(* dispatched, until a reset or the end of the reader.                     *)
Owed == got + inbox + (IF cache > 1 THEN cache - 1 ELSE 0)
Reading ==
    /\ got \in Nat /\ inbox \in Nat /\ cache \in Nat /\ sent \in 0..MaxIn /\ Owed <= sent
    /\ Owed = sent \/ rerr = "reset" \/ pc[Reader] = "done"
    /\ rerr \in {"none", "EOF", "reset", "TIMEOUT"}
    /\ rerr = "EOF" => peer = "closed" /\ inbox = 0
    /\ pc[Reader] \in {"none", "loop", "read", "done"} => rerr = "none"
    /\ pc[Reader] \in {"none", "loop", "done"} => cache = 0
    /\ pc[Reader] = "end" => cache <= 1
    /\ pc[Reader] = "message" => cache > 1
    /\ reason = "EOF" => pc[Reader] = "done" /\ peer = "closed" /\ got = sent

(* A step that leaves the data alone and the reader where it is, or moves  *)
(* it inside a disconnect that on_message called.                          *)
Elsewhere == {"handled", "write", "wrote", "failed"}
ReadCalm ==
    /\ UNCHANGED <<got, inbox, cache, sent, rerr>>
    /\ peer = "closed" => peer' = "closed"
    /\ reason' = reason \/ reason' # "EOF"
    /\ pc'[Reader] = pc[Reader] \/ (pc[Reader] \in Elsewhere /\ pc'[Reader] \in Elsewhere)

(* A step that leaves the reading alone keeps its accounts.                *)
LEMMA ReadCalmKeeps == ASSUME Reading, ReadCalm PROVE Reading'
BY DEF Reading, ReadCalm, Owed, Elsewhere

LEMMA InitReading == ASSUME Init PROVE Reading
BY SandcAssumption DEF Init, Reading, Owed, Coroutines

(* No step loses or invents a message that the reader is owed.             *)
LEMMA ReadingPreserved == ASSUME IInv, Reading, [Next]_vars PROVE Reading'
<1> USE SandcAssumption
<1> DEFINE Others == Publishers \cup {Reader, Ping}
<1>0. Others = Coroutines \ {User} /\ DOMAIN pc = Coroutines /\ Reader \in Coroutines
  BY DEF Coroutines, IInv
<1>1. CASE Connect
  <2>1. pc[Reader] = "none" /\ UNCHANGED <<got, inbox, cache, sent, rerr, peer, reason>>
    BY <1>0, <1>1 DEF Connect, Running, IInv, Client, Asleep, ins, broker, net
  <2>2. pc'[Reader] = "none" \/ pc'[Reader] = "loop"
    BY <1>0, <1>1, <2>1 DEF Connect, At
  <2> QED BY <2>1, <2>2 DEF Reading, Owed
<1>2. ASSUME NEW c \in Publishers,
             Publish(c) \/ Published(c) \/ Rest(c) \/ Disconnect(c, "idle") \/ Disconnected(c, "done")
      PROVE  Reading'
  <2>1. c # Reader /\ \E where : At(c, where)
    BY <1>2 DEF Publish, Published, Rest, Disconnect, Disconnected, WriteFrame
  <2>2. pc'[Reader] = pc[Reader]
    BY <1>0, <2>1 DEF At
  <2>3. UNCHANGED <<got, inbox, cache, sent, rerr, peer>>
    BY <1>2 DEF Publish, Published, Rest, Disconnect, Disconnected, net, broker
  <2>4. reason' = reason \/ reason' # "EOF"
    BY <1>2 DEF Publish, Published, Rest, Disconnect, Disconnected, Close, ins
  <2> QED BY <2>2, <2>3, <2>4, ReadCalmKeeps DEF ReadCalm
<1>3. ASSUME NEW c \in Coroutines, OnWrite(c) PROVE Reading'
  <2>1. UNCHANGED <<got, inbox, cache, sent, rerr, peer, reason>>
    BY <1>3 DEF OnWrite, net, broker, ins
  <2>2. pc[c] = "write" /\ \E where \in {"wrote", "write", "failed"} : At(c, where)
    BY <1>3 DEF OnWrite
  <2>3. pc'[Reader] = pc[Reader] \/ (pc[Reader] \in Elsewhere /\ pc'[Reader] \in Elsewhere)
    BY <1>0, <2>2 DEF At, Elsewhere
  <2> QED BY <2>1, <2>3, ReadCalmKeeps DEF ReadCalm
<1>4. CASE Disconnect(Reader, "handled") \/ Disconnected(Reader, "handled")
  <2>1. UNCHANGED <<got, inbox, cache, sent, rerr, peer>> /\ (reason' = reason \/ reason' # "EOF")
    BY <1>4 DEF Disconnect, Disconnected, Close, net, broker, ins
  <2>2. pc[Reader] \in Elsewhere /\ \E where \in Elsewhere : At(Reader, where)
    BY <1>4 DEF Disconnect, Disconnected, WriteFrame, Running, Elsewhere
  <2> QED BY <1>0, <2>1, <2>2, ReadCalmKeeps DEF ReadCalm, At
<1>5. CASE PingCheck \/ Pinged
  <2>1. UNCHANGED <<got, inbox, cache, sent, rerr, peer>> /\ (reason' = reason \/ reason' # "EOF")
    BY <1>5 DEF PingCheck, Pinged, Close, net, broker, ins
  <2>2. \E where : At(Ping, where)
    BY <1>5 DEF PingCheck, Pinged, WriteFrame
  <2> QED BY <1>0, <2>1, <2>2, ReadCalmKeeps DEF ReadCalm, At
<1>6. CASE ReadCall
  <2>1. /\ pc[Reader] = "loop" /\ cache' = 0 /\ UNCHANGED <<got, inbox, sent, peer, reason>>
        /\ \/ pc'[Reader] \in {"done", "read"} /\ rerr' = rerr
           \/ /\ pc'[Reader] = "recv" /\ rerr' = "EOF"
              /\ peer = "closed" /\ inbox = 0
    BY <1>0, <1>6 DEF ReadCall, Running, At, net, broker, ins
  <2> QED BY <2>1 DEF Reading, Owed
<1>7. CASE OnData
  <2>1. /\ pc[Reader] = "read" /\ cache' = inbox + (IF cache = 0 THEN 1 ELSE cache) /\ inbox' = 0
        /\ UNCHANGED <<pc, got, rerr, sent, peer, reason>>
    BY <1>7 DEF OnData, net, broker, ins
  <2> QED BY <2>1 DEF Reading, Owed
<1>8. CASE ReadEnds
  <2>1. /\ pc[Reader] = "read" /\ pc'[Reader] = "recv" /\ UNCHANGED <<cache, got, sent, peer, reason>>
        /\ \/ peer = "closed" /\ inbox = 0 /\ rerr' = "EOF" /\ inbox' = inbox
           \/ peer = "closed" /\ rerr' = "reset" /\ inbox' = 0
           \/ rerr' = "TIMEOUT" /\ inbox' = inbox
    BY <1>0, <1>8 DEF ReadEnds, At, net, broker, ins
  <2> QED BY <2>1 DEF Reading, Owed
<1>9. CASE Receive \/ Message \/ Handled
  <2>1. UNCHANGED <<inbox, sent, peer, reason, rerr>>
    BY <1>9 DEF Receive, Message, Handled, net, broker, ins
  <2>2. \/ /\ pc[Reader] \in {"recv", "handled"} /\ UNCHANGED <<cache, got>>
           /\ pc'[Reader] = IF cache > 1 THEN "message" ELSE "end"
        \/ /\ pc[Reader] = "message" /\ pc'[Reader] = "handled"
           /\ got' = got + 1 /\ cache' = cache - 1
    BY <1>0, <1>9 DEF Receive, Message, Handled, Running, At
  <2> QED BY <2>1, <2>2 DEF Reading, Owed
<1>10. CASE ReadChecked
  <2>1. /\ pc[Reader] = "end" /\ cache' = 0 /\ rerr' = "none" /\ UNCHANGED <<got, inbox, sent, peer>>
    BY <1>10 DEF ReadChecked, Running, net, broker
  <2>2. \/ rerr = "TIMEOUT" /\ pc'[Reader] = "loop" /\ reason' = reason
        \/ rerr # "TIMEOUT" /\ pc'[Reader] = "done" /\ (reason' = reason \/ reason' = rerr)
    BY <1>0, <1>10 DEF ReadChecked, Close, At, ins
  <2> QED BY <2>1, <2>2 DEF Reading, Owed
<1>r. CASE Refused
  <2>1. /\ cache' = 0 /\ rerr' = "none" /\ UNCHANGED <<got, inbox, sent, peer>>
        /\ pc'[Reader] = "done" /\ (reason' = reason \/ reason' = "data")
    BY <1>0, <1>r DEF Refused, Close, At, ins, net, broker
  <2>2. pc[Reader] # "done"
    BY <1>r DEF Refused, Running
  <2> QED BY <2>1, <2>2 DEF Reading, Owed
<1>k. ASSUME NEW c \in Coroutines, OnWriteClosed(c) PROVE Reading'
  <2>1. UNCHANGED <<got, inbox, cache, sent, rerr, peer, reason, pc>>
    BY <1>k DEF OnWriteClosed, ins, net, broker
  <2> QED BY <2>1, ReadCalmKeeps DEF ReadCalm
<1>11. CASE Tick \/ BrokerReads \/ BrokerFails \/ UNCHANGED vars
  <2>1. UNCHANGED <<got, inbox, cache, sent, rerr, reason>> /\ pc'[Reader] = pc[Reader]
    BY <1>0, <1>11 DEF Tick, BrokerReads, BrokerFails, vars, net, broker, ins
  <2>2. peer = "closed" => peer' = "closed"
    BY <1>11 DEF Tick, BrokerReads, BrokerFails, vars, net, broker
  <2> QED BY <2>1, <2>2, ReadCalmKeeps DEF ReadCalm
<1>12. CASE BrokerSends
  <2>1. /\ peer = "up" /\ sent < MaxIn /\ sent' = sent + 1 /\ inbox' = inbox + 1
        /\ UNCHANGED <<pc, got, cache, rerr, peer, reason>>
    BY <1>12 DEF BrokerSends, ins
  <2> QED BY <2>1 DEF Reading, Owed
<1>13. CASE \E c \in Coroutines : Returns(c) \/ Runs(c) \/ OnWrite(c)
  BY <1>1, <1>2, <1>3, <1>4, <1>5, <1>6, <1>9, <1>10, <1>r, <1>13 DEF Returns, Runs
<1> QED BY <1>7, <1>8, <1>11, <1>12, <1>13, <1>k DEF Next

(* on_disconnect reports the end of the stream after the last message, for *)
(* any number of messages and however they are cut into reads              *)
(* (sandc.lua:214-231).                                                    *)
THEOREM EndReported == Spec => []EndAfterLastMessage
<1>1. Init => IInv /\ Reading
  BY InitIInv, InitReading
<1>2. IInv /\ Reading /\ [Next]_vars => (IInv /\ Reading)'
  BY Preserved, ReadingPreserved
<1>3. Reading => EndAfterLastMessage
  BY DEF Reading, EndAfterLastMessage
<1> QED BY <1>1, <1>2, <1>3, PTL DEF Spec

-----------------------------------------------------------------------------
(* What the broker has of an unfinished frame, and what its owner has left *)
(* to write of one.                                                        *)
Framing ==
    /\ part \in Coroutines \cup {Nobody} /\ begun \in Nat
    /\ IF part = Nobody THEN begun = 0 ELSE begun \in 1..(Size(part) - 1)
    /\ wire \in Seq(Coroutines) /\ Len(wire) <= Cap
    /\ left \in [Coroutines -> 0..3]
    /\ \A c \in Coroutines : pc[c] = "write" => left[c] \in 1..Size(c)
    /\ state = "new" => wire = <<>> /\ part = Nobody
    /\ peer \in {"up", "silent", "closed"}

(* A frame has one to three pieces.                                        *)
LEMMA Sizes ==
    /\ \A c \in Coroutines : Size(c) \in 1..3
    /\ \A p \in Publishers : Size(p) = 3
    /\ Size(User) = 2 /\ Size(Reader) = 1 /\ Size(Ping) = 1
BY SandcAssumption DEF Size, Coroutines

(* n pieces of c behind those that are on their way.                       *)
LEMMA Pieced ==
    ASSUME NEW w \in Seq(Coroutines), NEW c \in Coroutines, NEW n \in Nat
    PROVE  LET v == w \o [i \in 1..n |-> c]
           IN  /\ v \in Seq(Coroutines) /\ Len(v) = Len(w) + n /\ Len(w) \in Nat
               /\ \A i \in 1..Len(w) : v[i] = w[i]
               /\ \A i \in (Len(w) + 1)..(Len(w) + n) : v[i] = c
<1> DEFINE e == [i \in 1..n |-> c]
<1>1. e \in [1..n -> Coroutines] /\ \A i \in 1..n : e[i] = c
  OBVIOUS
<1>2. e \in Seq(Coroutines)
  BY <1>1, SeqDef
<1>3. Len(e) \in Nat /\ 1..Len(e) = 1..n
  BY <1>1, <1>2, LenProperties
<1>4. Len(e) = n
  BY <1>3
<1> HIDE DEF e
<1>5. /\ Len(w) \in Nat /\ w \o e \in Seq(Coroutines) /\ Len(w \o e) = Len(w) + n
      /\ \A i \in 1..(Len(w) + n) : (w \o e)[i] = IF i <= Len(w) THEN w[i] ELSE e[i - Len(w)]
  BY <1>2, <1>4, ConcatProperties, LenProperties
<1>6. \A i \in 1..Len(w) : i \in 1..(Len(w) + n) /\ i <= Len(w)
  BY <1>5
<1>7. \A i \in (Len(w) + 1)..(Len(w) + n) :
         i \in 1..(Len(w) + n) /\ ~(i <= Len(w)) /\ i - Len(w) \in 1..n
  BY <1>5
<1> QED BY <1>1, <1>5, <1>6, <1>7 DEF e

(* The send buffer never holds more than Cap pieces.                       *)
LEMMA RoomRange == ASSUME Framing PROVE Room \in 0..Cap /\ (peer # "closed" => Room = Cap - Len(wire))
<1>1. Len(wire) \in Nat /\ Len(wire) <= Cap
  BY LenProperties DEF Framing
<1> QED BY <1>1, SandcAssumption DEF Room

-----------------------------------------------------------------------------
(* What a step is for the stream: nothing, or the return of publish; the   *)
(* start of a frame; the connection; or a step of OnWrite or the broker.   *)
taken == <<peer, part, begun, full, mixed>>

Quiet ==
    /\ UNCHANGED <<left, wire, overtaken, taken>>
    /\ state' = "new" => state = "new"
    /\ \A c \in Coroutines : pc'[c] = "write" <=> pc[c] = "write"
    /\ \A p \in Publishers :
          \/ oks'[p] = oks[p] /\ (pc'[p] = "wrote" => pc[p] = "wrote")
          \/ oks'[p] = oks[p] + 1 /\ pc[p] = "wrote" /\ pc'[p] = "idle"
    /\ oks \in [Publishers -> Nat] => oks' \in [Publishers -> Nat]

Starts(c) ==
    /\ pc[c] \in {"idle", "handled", "check"}
    /\ state = "run" /\ state' = "run"
    /\ WriteFrame(c)
    /\ UNCHANGED <<taken, oks>>

Opens ==
    /\ state = "new" /\ state' = "run"
    /\ wire' = wire \o [i \in 1..Size(User) |-> User]
    /\ \A c \in Coroutines : pc[c] \notin {"write", "wrote"} /\ pc'[c] \notin {"write", "wrote"}
    /\ UNCHANGED <<left, overtaken, taken, oks>>

(* publish begins a frame of its own coroutine.                            *)
LEMMA PublishStarts ==
    ASSUME IInv, NEW c \in Publishers, Publish(c) PROVE Starts(c)
<1>1. state = "run" /\ UNCHANGED state
  BY SandcAssumption DEF Publish, Running, IInv, Client, Asleep, ins, Coroutines
<1> QED BY <1>1 DEF Publish, Starts, Running, taken, broker

(* disconnect does the same for the frame of dc.                           *)
LEMMA DisconnectStarts ==
    ASSUME NEW c \in Coroutines, NEW where \in {"idle", "handled"}, Disconnect(c, where)
    PROVE  Starts(c)
BY DEF Disconnect, Starts, Running, ins, taken, broker

(* What a step can do to the stream: nothing, open it, begin or continue a *)
(* frame, or be the broker's.                                              *)
LEMMA StreamSteps ==
    ASSUME IInv, [Next]_vars
    PROVE  \/ Quiet \/ Opens \/ BrokerReads \/ BrokerFails
           \/ \E c \in Coroutines : Starts(c) \/ OnWrite(c)
<1> USE SandcAssumption
<1>0. DOMAIN pc = Coroutines /\ {Reader, Ping, User} \cup Publishers = Coroutines
  BY DEF Coroutines, IInv
<1>1. CASE Connect
  <2>1. /\ state = "new" /\ pc[User] = "connect" /\ \A c \in Coroutines \ {User} : pc[c] = "none"
        /\ UNCHANGED <<left, overtaken, taken, oks>>
    BY <1>1 DEF Connect, Running, IInv, Client, Asleep, taken, broker
  <2>2. CASE At(User, "done") /\ UNCHANGED wire
    BY <1>0, <2>1, <2>2 DEF Quiet, At
  <2>3. CASE /\ state' = "run"
             /\ wire' = wire \o [i \in 1..Size(User) |-> User]
             /\ pc' = [c \in Coroutines |->
                          CASE c = Reader -> "loop" [] c = Ping -> "check"
                            [] c = User -> "done" [] OTHER -> "idle"]
    <3>1. \A c \in Coroutines : pc'[c] \in {"loop", "check", "done", "idle"}
      BY <2>3
    <3> QED BY <2>1, <2>3, <3>1 DEF Opens
  <2> QED BY <1>1, <2>2, <2>3 DEF Connect
<1>2. ASSUME NEW c \in Coroutines, NEW where \in {"idle", "done", "handled"},
             At(c, where), pc[c] # "write", UNCHANGED <<left, wire, overtaken, taken, oks>>,
             state' = state \/ state' = "stop"
      PROVE  Quiet
  BY <1>0, <1>2 DEF At, Quiet
<1>3. ASSUME NEW p \in Publishers, Published(p) PROVE Quiet
  <2>1. /\ UNCHANGED <<left, wire, overtaken, taken>> /\ (state' = state \/ state' = "stop")
        /\ At(p, "idle") /\ pc[p] # "write"
    BY <1>3 DEF Published, Running, Close, ins, taken, broker
  <2>2. CASE UNCHANGED oks
    BY <1>0, <1>2, <2>1, <2>2
  <2>3. CASE pc[p] = "wrote" /\ oks' = [oks EXCEPT ![p] = @ + 1]
    BY <1>0, <2>1, <2>3 DEF Quiet, At
  <2> QED BY <1>3, <2>2, <2>3 DEF Published, Running
<1>4. ASSUME NEW c \in Publishers \cup {Reader}, NEW where \in {"done", "handled"},
             Disconnected(c, where)
      PROVE  Quiet
  BY <1>0, <1>2, <1>4 DEF Disconnected, Running, Close, ins, taken, broker
<1>5. ASSUME NEW c \in Publishers, Rest(c) PROVE Quiet
  BY <1>0, <1>2, <1>5 DEF Rest, Running, ins, taken, broker
<1>6. CASE ReadCall \/ ReadEnds \/ Receive \/ Message \/ Handled \/ ReadChecked \/ Refused
  <2>1. /\ pc[Reader] # "write" /\ UNCHANGED <<left, wire, overtaken, taken, oks>>
        /\ state' = state \/ state' = "stop"
        /\ \E where \in {"loop", "done", "read", "recv", "message", "handled", "end"} :
              At(Reader, where)
    BY <1>6 DEF ReadCall, ReadEnds, Receive, Message, Handled, ReadChecked, Refused, Running, Close,
       ins, taken, broker
  <2> QED BY <1>0, <2>1 DEF Quiet, At
<1>7. CASE PingCheck
  <2>1. pc[Ping] = "check" /\ UNCHANGED <<taken, oks>>
    BY <1>7 DEF PingCheck, Running, taken, broker
  <2>2. CASE state = "run" /\ WriteFrame(Ping) /\ UNCHANGED ins
    <3>1. state' = "run"
      BY <2>2 DEF ins
    <3> QED BY <1>0, <2>1, <2>2, <3>1 DEF Starts
  <2>3. CASE At(Ping, "done") /\ UNCHANGED <<left, wire, overtaken>> /\ (state' = state \/ state' = "stop")
    BY <1>0, <1>2, <2>1, <2>3
  <2>4. CASE At(Ping, "sleep") /\ UNCHANGED <<left, wire, overtaken>> /\ state' = state
    BY <1>0, <2>1, <2>4 DEF Quiet, At
  <2>5. state \in {"run", "stop"}
    BY <1>0, <2>1 DEF IInv, Client, Asleep
  <2> QED BY <1>0, <1>7, <2>1, <2>2, <2>3, <2>4, <2>5 DEF PingCheck, Close, ins
<1>8. CASE Pinged
  <2>1. /\ pc[Ping] # "write" /\ UNCHANGED <<left, wire, overtaken, taken, oks>>
        /\ state' = state \/ state' = "stop"
        /\ \E where \in {"check", "done"} : At(Ping, where)
    BY <1>8 DEF Pinged, Running, Close, ins, taken, broker
  <2> QED BY <1>0, <2>1 DEF Quiet, At
<1>9. CASE Tick
  BY <1>0, <1>9 DEF Tick, Quiet, ins, taken, broker
<1>10. CASE OnData \/ BrokerSends \/ UNCHANGED vars
  BY <1>10 DEF OnData, BrokerSends, vars, Quiet, ins, taken, broker
<1>k. ASSUME NEW c \in Coroutines, OnWriteClosed(c) PROVE Quiet
  BY <1>k DEF OnWriteClosed, Quiet, ins, taken, broker
<1>11. CASE \E c \in Coroutines : Returns(c) \/ Runs(c) \/ OnWrite(c)
  BY <1>0, <1>1, <1>3, <1>4, <1>5, <1>6, <1>7, <1>8, <1>11, PublishStarts, DisconnectStarts
     DEF Returns, Runs
<1> QED BY <1>6, <1>9, <1>10, <1>11, <1>k DEF Next

(* How a frame begins or goes on, unless the broker is gone: n more pieces *)
(* of c are on their way and what is left of its frame is as many less.    *)
Wrote(c, from, n) ==
    /\ n \in 0..from /\ n <= Cap - Len(wire)
    /\ wire' = wire \o [i \in 1..n |-> c]
    /\ left' = [left EXCEPT ![c] = from - n]
    /\ IF n = from THEN At(c, "wrote") ELSE At(c, "write")
    /\ overtaken' = (overtaken \/ (n > 0 /\ \E d \in Coroutines \ {c} :
                                      pc[d] = "write" /\ left[d] \in 1..(Size(d) - 1)))

(* The first try of a write takes some pieces of a whole frame,            *)
LEMMA StartsWrites ==
    ASSUME Framing, NEW c \in Coroutines, Starts(c), peer # "closed"
    PROVE  \E n \in Nat : Wrote(c, Size(c), n)
<1>1. Room = Cap - Len(wire) /\ Room \in 0..Cap /\ Cap \in Nat /\ Len(wire) \in Nat /\ Size(c) \in 1..3
  BY RoomRange, Sizes, SandcAssumption, LenProperties DEF Framing
<1> DEFINE n == Least(Size(c), Room)
<1>2. n \in 0..Size(c) /\ n \in Nat /\ n <= Room /\ (Room >= Size(c) <=> n = Size(c))
  BY <1>1 DEF Least
<1>3. /\ Put(c, n) /\ left' = [left EXCEPT ![c] = Size(c) - n]
      /\ IF Room >= Size(c) THEN At(c, "wrote") ELSE At(c, "write")
  BY DEF Starts, WriteFrame
<1> HIDE DEF n
<1>4. Wrote(c, Size(c), n)
  BY <1>1, <1>2, <1>3 DEF Wrote, Put
<1> QED BY <1>2, <1>4

(* and each later one takes some of those that are left.                   *)
LEMMA OnWriteWrites ==
    ASSUME Framing, NEW c \in Coroutines, OnWrite(c), peer # "closed"
    PROVE  \E n \in Nat \ {0} : Wrote(c, left[c], n)
<1>1. Room = Cap - Len(wire) /\ Room \in 0..Cap /\ Cap \in Nat /\ Len(wire) \in Nat
  BY RoomRange, SandcAssumption, LenProperties DEF Framing
<1>2. left[c] \in 1..3 /\ Room > 0 /\ left \in [Coroutines -> 0..3]
  BY Sizes DEF Framing, OnWrite
<1> DEFINE n == Least(left[c], Room)
<1>3. n \in 1..left[c] /\ n \in Nat \ {0} /\ n <= Room /\ (left[c] <= Room <=> n = left[c])
  BY <1>1, <1>2 DEF Least
<1>4. /\ Put(c, n) /\ left' = [left EXCEPT ![c] = left[c] - n]
      /\ IF left[c] <= Room THEN At(c, "wrote") ELSE At(c, "write")
  BY <1>2 DEF OnWrite
<1> HIDE DEF n
<1>5. Wrote(c, left[c], n)
  BY <1>1, <1>2, <1>3, <1>4 DEF Wrote, Put
<1> QED BY <1>3, <1>5

LEMMA InitFraming == ASSUME Init PROVE Framing
<1>1. wire \in Seq(Coroutines) /\ Len(wire) = 0
  BY EmptySeq DEF Init
<1> QED BY <1>1, SandcAssumption DEF Init, Framing, Coroutines

(* Writing some pieces keeps what is left, what is on its way and the      *)
(* buffer within bounds.                                                   *)
LEMMA WroteFrames ==
    ASSUME IInv, Framing, NEW c \in Coroutines, NEW from \in 1..Size(c), NEW n \in Nat,
           Wrote(c, from, n), UNCHANGED taken, state = "run", state' = "run"
    PROVE  Framing'
<1>1. Len(wire) \in Nat /\ wire \in Seq(Coroutines) /\ Cap \in Nat /\ DOMAIN pc = Coroutines
      /\ Size(c) \in 1..3
  BY LenProperties, Sizes, SandcAssumption DEF Framing, IInv
<1>2. wire' \in Seq(Coroutines) /\ Len(wire') = Len(wire) + n /\ Len(wire') <= Cap
  <2>1. LET v == wire \o [i \in 1..n |-> c] IN v \in Seq(Coroutines) /\ Len(v) = Len(wire) + n
    BY <1>1, Pieced
  <2> QED BY <1>1, <2>1 DEF Wrote
<1>3. left' \in [Coroutines -> 0..3] /\ left'[c] = from - n /\ \A d \in Coroutines \ {c} : left'[d] = left[d]
  BY <1>1 DEF Wrote, Framing
<1>4. \A d \in Coroutines : pc'[d] = "write" => left'[d] \in 1..Size(d)
  <2>1. pc'[c] = "write" => left'[c] \in 1..Size(c)
    BY <1>1, <1>3 DEF Wrote, At
  <2>2. \A d \in Coroutines \ {c} : pc'[d] = pc[d]
    BY <1>1 DEF Wrote, At
  <2> QED BY <1>3, <2>1, <2>2 DEF Framing
<1> QED BY <1>2, <1>3, <1>4 DEF Framing, taken

(* Every step keeps the frames' bounds.                                    *)
LEMMA FramingPreserved == ASSUME IInv, Framing, [Next]_vars PROVE Framing'
<1> USE SandcAssumption
<1>0. DOMAIN pc = Coroutines /\ Len(wire) \in Nat
  BY LenProperties DEF IInv, Framing
<1>1. CASE Quiet
  BY <1>1 DEF Framing, Quiet, taken
<1>2. CASE Opens
  <2>1. wire = <<>> /\ Size(User) = 2 /\ User \in Coroutines /\ wire \in Seq(Coroutines)
    BY <1>2, Sizes DEF Opens, Framing, Coroutines
  <2>2. wire' \in Seq(Coroutines) /\ Len(wire') = Len(wire) + 2
    <3>1. LET v == wire \o [i \in 1..2 |-> User] IN v \in Seq(Coroutines) /\ Len(v) = Len(wire) + 2
      BY <2>1, Pieced
    <3> QED BY <1>2, <2>1, <3>1 DEF Opens
  <2>3. Len(wire) = 0
    BY <2>1, EmptySeq
  <2>4. Len(wire') <= Cap
    BY <2>2, <2>3
  <2>5. UNCHANGED <<left, peer, part, begun>> /\ state' = "run" /\ \A c \in Coroutines : pc'[c] # "write"
    BY <1>2 DEF Opens, taken
  <2> QED BY <2>2, <2>4, <2>5 DEF Framing
<1>3. ASSUME NEW c \in Coroutines, Starts(c) PROVE Framing'
  <2>1. Size(c) \in 1..3 /\ state = "run" /\ state' = "run" /\ UNCHANGED taken
    BY <1>3, Sizes DEF Starts
  <2>2. CASE peer # "closed"
    BY <1>3, <2>1, <2>2, StartsWrites, WroteFrames
  <2>3. CASE peer = "closed"
    <3>1. /\ wire' = wire
          /\ \/ At(c, "failed") /\ left' = left
             \/ At(c, "wrote") /\ left' = [left EXCEPT ![c] = Size(c) - Least(Size(c), Room)]
      BY <1>3, <2>1, <2>3 DEF Starts, WriteFrame, Put, Room
    <3>2. Size(c) - Least(Size(c), Room) = 0
      BY <2>1, <2>3 DEF Least, Room
    <3> QED BY <1>0, <2>1, <3>1, <3>2 DEF Framing, At, taken
  <2> QED BY <2>2, <2>3
<1>4. ASSUME NEW c \in Coroutines, OnWrite(c) PROVE Framing'
  <2>1. /\ state = "run" /\ state' = "run" /\ UNCHANGED taken
        /\ left[c] \in 1..Size(c) /\ Size(c) \in 1..3
    BY <1>4, Sizes DEF OnWrite, taken, broker, ins, IInv, Client, Framing
  <2>2. CASE peer # "closed"
    BY <1>4, <2>1, <2>2, OnWriteWrites, WroteFrames
  <2>3. CASE peer = "closed"
    <3>1. /\ wire' = wire
          /\ \/ At(c, "failed") /\ left' = left
             \/ /\ left[c] <= Room /\ At(c, "wrote")
                /\ left' = [left EXCEPT ![c] = left[c] - Least(left[c], Room)]
      BY <1>4, <2>1, <2>3 DEF OnWrite, Put, Room
    <3>2. left[c] - Least(left[c], Room) = 0
      BY <2>1, <2>3 DEF Least, Room
    <3> QED BY <1>0, <2>1, <3>1, <3>2 DEF Framing, At, taken
  <2> QED BY <2>2, <2>3
<1>5. CASE BrokerReads
  <2> DEFINE c == Head(wire)
             whole == begun + 1 = Size(c)
  <2>1. c \in Coroutines /\ Tail(wire) \in Seq(Coroutines) /\ Len(Tail(wire)) = Len(wire) - 1
    BY <1>5, HeadTailProperties DEF BrokerReads, Framing
  <2>2. <<>> \in Seq(Coroutines) /\ Len(<<>>) = 0
    BY EmptySeq
  <2>3. wire' \in Seq(Coroutines) /\ Len(wire') <= Cap
    <3>1. wire' = <<>> \/ wire' = Tail(wire)
      BY <1>5 DEF BrokerReads
    <3>2. Len(wire) <= Cap
      BY DEF Framing
    <3>3. CASE wire' = <<>>
      BY <2>2, <3>3
    <3>4. CASE wire' = Tail(wire)
      BY <1>0, <2>1, <3>2, <3>4
    <3> QED BY <3>1, <3>3, <3>4
  <2>4. Size(c) \in 1..3 /\ Nobody \notin Coroutines
    BY <2>1, Sizes DEF Coroutines
  <2>5. UNCHANGED <<state, pc, left>> /\ state # "new"
    BY <1>5 DEF BrokerReads, ins, Framing
  <2>6. /\ part' \in Coroutines \cup {Nobody} /\ begun' \in Nat
        /\ IF part' = Nobody THEN begun' = 0 ELSE begun' \in 1..(Size(part') - 1)
    <3>1. CASE part \in {Nobody, c}
      <4>1. part' = (IF whole THEN Nobody ELSE c) /\ begun' = (IF whole THEN 0 ELSE begun + 1)
        BY <1>5, <3>1 DEF BrokerReads
      <4>2. begun \in 0..(Size(c) - 1)
        BY <2>4, <3>1 DEF Framing
      <4> HIDE DEF c
      <4> QED BY <2>1, <2>4, <4>1, <4>2
    <3>2. CASE part \notin {Nobody, c}
      <4>1. UNCHANGED <<part, begun>>
        BY <1>5, <3>2 DEF BrokerReads
      <4> QED BY <4>1 DEF Framing
    <3> QED BY <3>1, <3>2
  <2>7. peer' \in {"up", "closed"}
    BY <1>5 DEF BrokerReads
  <2> QED BY <2>3, <2>5, <2>6, <2>7 DEF Framing
<1>6. CASE BrokerFails
  <2>1. <<>> \in Seq(Coroutines) /\ Len(<<>>) = 0
    BY EmptySeq
  <2>2. wire' \in {wire, <<>>} /\ UNCHANGED <<state, pc, left, part, begun>>
        /\ peer' \in {"up", "silent", "closed"}
    BY <1>6 DEF BrokerFails, ins
  <2>3. CASE wire' = wire
    BY <2>2, <2>3 DEF Framing
  <2>4. CASE wire' = <<>>
    BY <2>1, <2>2, <2>4 DEF Framing
  <2> QED BY <2>2, <2>3, <2>4
<1> QED BY <1>1, <1>2, <1>3, <1>4, <1>5, <1>6, StreamSteps

-----------------------------------------------------------------------------
(* The frame of connect is on its way, and its first piece may be with the *)
(* broker.                                                                 *)
Opening ==
    /\ Len(wire) > 0 /\ wire[1] = User
    /\ part = User \/ (part = Nobody /\ Len(wire) > 1 /\ wire[2] = User)

(* An answer is due: the connect frame is on its way, or the piece of a    *)
(* ping is unwritten or on its way, or the answer is on its way or in the  *)
(* reader's data.                                                          *)
Outstanding ==
    \/ Opening
    \/ pc[Ping] = "write"
    \/ \E i \in 1..Len(wire) : wire[i] = Ping
    \/ pong
    \/ pc[Reader] \in {"read", "recv"} /\ cache > 0

ReaderPlaces == {"none", "loop", "read", "recv", "message", "handled", "end", "done",
                 "write", "wrote", "failed"}
PingPlaces == {"none", "check", "sleep", "done", "write", "wrote", "failed"}

(* Ticks move idle and since together, so that idle is greater only before *)
(* the answer to connect, or when a ping has set since to 0; before the    *)
(* next tick the answer sets idle to 0.                                    *)
Late == idle <= Keepalive \/ (since = 0 /\ (idle < Limit \/ slow))
Clock ==
    /\ pc[Reader] \in ReaderPlaces /\ pc[Ping] \in PingPlaces
    /\ idle \in 0..Limit /\ since \in 0..Keepalive
    /\ state = "new" => since = 0
    /\ pc[Ping] = "sleep" => since < Keepalive
    /\ state = "run" => pc[Reader] \notin {"none", "done"} /\ pc[Ping] \notin {"none", "done"}
    /\ peer = "up" /\ state = "run" => idle <= since \/ (Late /\ Outstanding)
    /\ reason = "timeout" => state = "stop" /\ (peer # "up" \/ slow)

(* 2.1 keepalives are more than one.                                       *)
LEMMA LimitRange == Limit \in Nat /\ Keepalive \in Nat \ {0} /\ Keepalive < Limit
BY SandcAssumption DEF Limit

(* A step that leaves the clocks, and a ping that is out, alone.           *)
ClockCalm ==
    /\ UNCHANGED <<idle, since, slow>>
    /\ pc'[Reader] \in ReaderPlaces /\ pc'[Ping] \in PingPlaces
    /\ peer' = "up" => peer = "up" /\ (Outstanding => Outstanding')
    /\ state' = "run" => /\ state = "run"
                         /\ pc'[Reader] \notin {"none", "done"} /\ pc'[Ping] \notin {"none", "done"}
    /\ state' = "new" => state = "new"
    /\ state = "stop" => state' = "stop"
    /\ pc'[Ping] = "sleep" => pc[Ping] = "sleep"
    /\ reason' = reason \/ reason' # "timeout"

(* A step that touches neither the clocks nor the pings keeps what Clock   *)
(* says.                                                                   *)
LEMMA ClockCalmKeeps == ASSUME Clock, ClockCalm PROVE Clock'
<1>1. idle' = idle /\ since' = since /\ slow' = slow
  BY DEF ClockCalm
<1>2. /\ idle' \in 0..Limit /\ since' \in 0..Keepalive
      /\ pc'[Reader] \in ReaderPlaces /\ pc'[Ping] \in PingPlaces
      /\ state' = "new" => since' = 0
      /\ pc'[Ping] = "sleep" => since' < Keepalive
      /\ state' = "run" => /\ pc'[Reader] \notin {"none", "done"}
                           /\ pc'[Ping] \notin {"none", "done"}
      /\ reason' = "timeout" => state' = "stop" /\ (peer' # "up" \/ slow')
  BY <1>1 DEF Clock, ClockCalm
<1>3. Late' <=> Late
  BY <1>1 DEF Late, Limit
<1>4. peer' = "up" /\ state' = "run" => idle' <= since' \/ (Late' /\ Outstanding')
  BY <1>1, <1>3 DEF Clock, ClockCalm
<1> QED BY <1>2, <1>4 DEF Clock

(* What is on its way stays there, with the pieces of the writer behind.   *)
LEMMA WritingGrows ==
    ASSUME Framing, NEW c \in Coroutines, Starts(c) \/ OnWrite(c), peer # "closed"
    PROVE  /\ Len(wire') \in Nat
           /\ \A i \in 1..Len(wire) : i \in 1..Len(wire') /\ wire'[i] = wire[i]
           /\ \/ pc'[c] = "write"
              \/ \E i \in 1..Len(wire') : wire'[i] = c
              \/ DOMAIN pc # Coroutines
<1>1. PICK from \in 1..Size(c), n \in Nat : Wrote(c, from, n)
  <2>1. Size(c) \in 1..3
    BY Sizes
  <2>2. CASE Starts(c)
    BY <2>1, <2>2, StartsWrites
  <2>3. CASE OnWrite(c)
    <3>1. left[c] \in 1..Size(c)
      BY <2>3 DEF OnWrite, Framing
    <3> QED BY <2>3, <3>1, OnWriteWrites
  <2> QED BY <2>2, <2>3
<1>2. wire \in Seq(Coroutines) /\ Len(wire) \in Nat /\ wire' = wire \o [i \in 1..n |-> c]
  BY <1>1, LenProperties DEF Framing, Wrote
<1>3. LET v == wire \o [i \in 1..n |-> c]
      IN  /\ Len(v) = Len(wire) + n
          /\ \A i \in 1..Len(wire) : v[i] = wire[i]
          /\ \A i \in (Len(wire) + 1)..(Len(wire) + n) : v[i] = c
  BY <1>2, Pieced
<1>4. /\ Len(wire') = Len(wire) + n
      /\ \A i \in 1..Len(wire) : wire'[i] = wire[i]
      /\ \A i \in (Len(wire) + 1)..(Len(wire) + n) : wire'[i] = c
  BY <1>2, <1>3
<1>5. Len(wire') \in Nat /\ \A i \in 1..Len(wire) : i \in 1..Len(wire')
  BY <1>2, <1>4
<1>6. CASE n = from
  <2>1. Len(wire) + n \in 1..Len(wire') /\ Len(wire) + n \in (Len(wire) + 1)..(Len(wire) + n)
    BY <1>1, <1>2, <1>4, <1>6, Sizes
  <2> QED BY <1>4, <1>5, <2>1
<1>7. CASE n # from /\ DOMAIN pc = Coroutines
  BY <1>1, <1>4, <1>5, <1>7 DEF Wrote, At
<1> QED BY <1>4, <1>5, <1>6, <1>7

LEMMA InitClock == ASSUME Init PROVE Clock
BY SandcAssumption, LimitRange
   DEF Init, Clock, Coroutines, ReaderPlaces, PingPlaces

(* Steps of a user's coroutine and of OnWrite.                             *)
LEMMA WriterClock ==
    ASSUME IInv, Framing, Clock, NEW c \in Coroutines \ {User},
           UNCHANGED <<idle, since, slow, pong, cache, peer, part>>,
           \E where : At(c, where), state' = state \/ state' = "stop",
           reason' = reason \/ reason' # "timeout",
           Starts(c) \/ OnWrite(c) \/ wire' = wire,
           c = Reader => pc[c] \in Elsewhere /\ pc'[c] \in Elsewhere,
           c = Ping => /\ pc'[c] \in {"check", "wrote", "write", "failed"}
                       /\ pc[c] = "write" => OnWrite(c)
    PROVE  Clock'
<1> USE SandcAssumption
<1>1. DOMAIN pc = Coroutines /\ Reader \in Coroutines /\ Ping \in Coroutines /\ Reader # Ping
  BY DEF IInv, Coroutines
<1>2. \A d \in Coroutines \ {c} : pc'[d] = pc[d]
  BY <1>1 DEF At
<1>3. pc'[Reader] = pc[Reader] \/ (pc[Reader] \in Elsewhere /\ pc'[Reader] \in Elsewhere)
  BY <1>1, <1>2
<1>4. pc'[Ping] = pc[Ping] \/ pc'[Ping] \in {"check", "wrote", "write", "failed"}
  BY <1>1, <1>2
<1>5. ASSUME peer = "up", Outstanding
      PROVE  Outstanding'
  <2>1. \A i \in 1..Len(wire) : i \in 1..Len(wire') /\ wire'[i] = wire[i]
    BY <1>5, WritingGrows
  <2>2. CASE pc[Ping] = "write"
    <3>1. CASE c = Ping
      BY <1>1, <1>5, <2>2, <3>1, WritingGrows DEF Outstanding
    <3>2. CASE c # Ping
      BY <1>1, <1>2, <2>2, <3>2 DEF Outstanding
    <3> QED BY <3>1, <3>2
  <2>3. CASE \E i \in 1..Len(wire) : wire[i] = Ping
    BY <2>1, <2>3 DEF Outstanding
  <2>4. CASE pong
    BY <2>4 DEF Outstanding
  <2>5. CASE pc[Reader] \in {"read", "recv"} /\ cache > 0
    BY <1>3, <2>5 DEF Outstanding, Elsewhere
  <2>6. CASE Opening
    <3>1. Len(wire) \in Nat
      BY LenProperties DEF Framing
    <3>2. Len(wire) > 0 => 1 \in 1..Len(wire)
      BY <3>1
    <3>3. Len(wire) > 1 => 2 \in 1..Len(wire)
      BY <3>1
    <3>4. Len(wire') \in Nat
      <4>1. CASE wire' = wire
        BY <3>1, <4>1
      <4>2. CASE Starts(c) \/ OnWrite(c)
        BY <1>5, <4>2, WritingGrows
      <4> QED BY <4>1, <4>2
    <3>5. (Len(wire) > 0 => Len(wire') > 0) /\ (Len(wire) > 1 => Len(wire') > 1)
      BY <2>1, <3>1, <3>2, <3>3, <3>4
    <3> QED BY <2>1, <2>6, <3>2, <3>3, <3>5 DEF Opening, Outstanding
  <2> QED BY <1>5, <2>2, <2>3, <2>4, <2>5, <2>6 DEF Outstanding
<1>6. ClockCalm
  BY <1>3, <1>4, <1>5 DEF ClockCalm, Clock, Elsewhere, ReaderPlaces, PingPlaces
<1> QED BY <1>6, ClockCalmKeeps

(* A tick comes only when the answer to a ping has, and never finds since  *)
(* at its limit, because the ping coroutine has slept for less; while      *)
(* connect waits, only idle moves.                                         *)
LEMMA TickClock ==
    ASSUME IInv, Clock, Tick PROVE Clock'
<1>1. DOMAIN pc = Coroutines /\ Reader \in Coroutines /\ Ping \in Coroutines /\ Reader # Ping
  BY SandcAssumption DEF IInv, Coroutines
<1>2. /\ UNCHANGED <<state, reason, peer, wire, part, pong, cache, slow>>
      /\ idle' = Least(idle + 1, Limit)
      /\ since' = IF state = "run" THEN Least(since + 1, Keepalive) ELSE since
      /\ pc' = IF pc[Ping] = "sleep" THEN [pc EXCEPT ![Ping] = "check"] ELSE pc
  BY DEF Tick, ins, broker, net
<1>3. idle' \in 0..Limit /\ since' \in 0..Keepalive
  BY <1>2, LimitRange DEF Clock, Least
<1>4. pc'[Reader] = pc[Reader] /\ pc'[Ping] \in {pc[Ping], "check"} /\ pc'[Ping] # "sleep"
  BY <1>1, <1>2
<1>5. state = "new" => since' = 0
  BY <1>2 DEF Clock
<1>6. ASSUME peer = "up", state = "run" PROVE idle' <= since'
  <2>1. wire = <<>> /\ pc[Reader] # "write" /\ pc[Ping] # "write"
        /\ pc[Reader] \in Waiting \cup {"idle", "connect"} /\ pc[Ping] \in Waiting \cup {"idle", "connect"}
    BY <1>1, <1>6 DEF Tick
  <2>2. pc[Reader] = "read" /\ pc[Ping] = "sleep"
    BY <1>6, <2>1 DEF Waiting, Clock, ReaderPlaces, PingPlaces
  <2>3. ~pong /\ cache = 0
    BY <2>2 DEF Tick
  <2>4. Len(wire) = 0
    BY <2>1, EmptySeq
  <2>5. ~Outstanding
    BY <2>2, <2>3, <2>4 DEF Outstanding, Opening
  <2>6. idle <= since /\ since < Keepalive
    BY <1>6, <2>2, <2>5 DEF Clock
  <2> QED BY <1>2, <1>6, <2>6, LimitRange DEF Clock, Least
<1>7. /\ state' = "run" => pc'[Reader] \notin {"none", "done"} /\ pc'[Ping] \notin {"none", "done"}
      /\ pc'[Reader] \in ReaderPlaces /\ pc'[Ping] \in PingPlaces
      /\ reason' = "timeout" => state' = "stop" /\ (peer' # "up" \/ slow')
  BY <1>2, <1>4 DEF Clock, PingPlaces
<1> QED BY <1>2, <1>3, <1>4, <1>5, <1>6, <1>7 DEF Clock

(* Every action. *)
LEMMA ClockPreserved ==
    ASSUME IInv, Reading, Framing, Clock, [Next]_vars PROVE Clock'
<1> USE SandcAssumption
<1>0. /\ DOMAIN pc = Coroutines /\ Reader \in Coroutines \ {User} /\ Ping \in Coroutines \ {User}
      /\ Reader # Ping /\ Publishers \subseteq Coroutines \ {User, Reader, Ping}
  BY DEF IInv, Coroutines
<1>1. CASE Connect
  <2>1. /\ state = "new" /\ pc[Reader] = "none" /\ pc[Ping] = "none"
        /\ UNCHANGED <<idle, since, peer, reason, part>> /\ since = 0
        /\ wire = <<>> /\ part = Nobody
    BY <1>0, <1>1 DEF Connect, Running, IInv, Client, Asleep, Clock, Framing, broker, ins
  <2>2. CASE pc'[Reader] = "none" /\ pc'[Ping] = "none" /\ state' # "run"
    BY <2>1, <2>2 DEF Clock, ReaderPlaces, PingPlaces
  <2>3. CASE /\ pc'[Reader] = "loop" /\ pc'[Ping] = "check" /\ state' = "run"
             /\ slow' = (idle >= Limit) /\ wire' = wire \o [n \in 1..Size(User) |-> User]
    <3>1. Opening'
      <4>1. Len(wire) = 0 /\ wire \in Seq(Coroutines) /\ User \in Coroutines /\ Size(User) = 2
        BY <2>1, EmptySeq, Sizes DEF Coroutines
      <4>2. LET v == wire \o [n \in 1..2 |-> User]
            IN  Len(v) = Len(wire) + 2 /\ \A n \in (Len(wire) + 1)..(Len(wire) + 2) : v[n] = User
        BY <4>1, Pieced
      <4>3. Len(wire') = 2 /\ wire'[1] = User /\ wire'[2] = User
        BY <2>3, <4>1, <4>2
      <4> QED BY <2>1, <4>3 DEF Opening
    <3>2. Late'
      <4>1. idle < Limit \/ idle >= Limit
        BY LimitRange DEF Clock
      <4>2. idle >= Limit => slow'
        BY <2>3, Zenon
      <4>3. idle' < Limit \/ slow'
        BY <2>1, <4>1, <4>2
      <4> QED BY <2>1, <4>3 DEF Late, Limit
    <3>3. reason' # "timeout"
      BY <2>1 DEF Clock
    <3> QED BY <2>1, <2>3, <3>1, <3>2, <3>3, LimitRange DEF Clock, ReaderPlaces, PingPlaces, Outstanding
  <2> QED BY <1>0, <1>1, <2>1, <2>2, <2>3 DEF Connect, At, ins
<1>2. ASSUME NEW c \in Publishers,
             Publish(c) \/ Published(c) \/ Rest(c) \/ Disconnect(c, "idle") \/ Disconnected(c, "done")
      PROVE  Clock'
  <2>1. /\ UNCHANGED <<idle, since, slow, pong, cache, peer, part>> /\ (state' = state \/ state' = "stop")
        /\ reason' = reason \/ reason' # "timeout"
    BY <1>2 DEF Publish, Published, Rest, Disconnect, Disconnected, Close, ins, net, broker
  <2>2. \E where : At(c, where)
    BY <1>2 DEF Publish, Published, Rest, Disconnect, Disconnected, WriteFrame
  <2>3. Starts(c) \/ wire' = wire
    BY <1>0, <1>2, PublishStarts, DisconnectStarts DEF Published, Rest, Disconnected
  <2> QED BY <1>0, <2>1, <2>2, <2>3, WriterClock
<1>3. ASSUME NEW c \in Coroutines, OnWrite(c) PROVE Clock'
  <2>1. UNCHANGED <<idle, since, slow, pong, cache, peer, part, state, reason>> /\ c # User
    BY <1>3 DEF OnWrite, ins, net, broker, IInv, Client
  <2>2. pc[c] = "write" /\ \E where \in {"wrote", "write", "failed"} : At(c, where)
    BY <1>3 DEF OnWrite
  <2>3. pc'[c] \in {"wrote", "write", "failed"}
    BY <1>0, <2>2 DEF At
  <2> QED BY <1>3, <2>1, <2>2, <2>3, WriterClock DEF Elsewhere
<1>4. CASE Disconnect(Reader, "handled") \/ Disconnected(Reader, "handled")
  <2>1. /\ UNCHANGED <<idle, since, slow, pong, cache, peer, part>> /\ (state' = state \/ state' = "stop")
        /\ reason' = reason \/ reason' # "timeout"
    BY <1>4 DEF Disconnect, Disconnected, Close, ins, net, broker
  <2>2. pc[Reader] \in Elsewhere /\ \E where \in Elsewhere : At(Reader, where)
    BY <1>4 DEF Disconnect, Disconnected, WriteFrame, Running, Elsewhere
  <2>3. pc'[Reader] \in Elsewhere
    BY <1>0, <2>2 DEF At
  <2>4. Starts(Reader) \/ wire' = wire
    BY <1>0, <1>4, DisconnectStarts DEF Disconnected
  <2> QED BY <1>0, <2>1, <2>2, <2>3, <2>4, WriterClock
<1>5. CASE PingCheck
  <2>1. pc[Ping] = "check" /\ UNCHANGED <<idle, slow, pong, cache, peer, part>>
    BY <1>5 DEF PingCheck, Running, net, broker
  <2>2. CASE /\ At(Ping, "done") /\ UNCHANGED <<since, wire>>
             /\ \/ state = "stop" /\ UNCHANGED ins
                \/ state # "stop" /\ idle >= Limit /\ Close("timeout")
    <3>1. pc'[Ping] = "done" /\ pc'[Reader] = pc[Reader]
      BY <1>0, <2>2 DEF At
    <3>2. state # "new" /\ state' = "stop"
      BY <1>0, <2>1, <2>2 DEF IInv, Client, Asleep, Close, ins
    <3>3. reason' = "timeout" => peer # "up" \/ slow
      <4>1. CASE state = "run" /\ idle >= Limit
        BY <4>1, LimitRange DEF Clock, Late
      <4> QED BY <2>2, <3>2, <4>1 DEF Close, ins, Clock, IInv, Client
    <3> QED BY <2>1, <2>2, <3>1, <3>2, <3>3 DEF Clock, PingPlaces
  <2>3. CASE state # "stop" /\ since >= Keepalive /\ since' = 0 /\ WriteFrame(Ping) /\ UNCHANGED <<ins, proc>>
    <3>1. state = "run" /\ Starts(Ping)
      <4>1. state = "run" /\ state' = "run"
        BY <1>0, <2>1, <2>3 DEF IInv, Client, Asleep, ins
      <4>2. UNCHANGED <<taken, oks>>
        BY <1>5 DEF PingCheck, taken, broker
      <4> QED BY <2>1, <2>3, <4>1, <4>2 DEF Starts
    <3>2. pc'[Reader] = pc[Reader] /\ pc'[Ping] \in {"wrote", "write", "failed"}
      BY <1>0, <2>3 DEF WriteFrame, At
    <3>3. ASSUME peer = "up" PROVE Late' /\ Outstanding'
      <4>1. idle <= Keepalive
        BY <2>3, <3>1, <3>3, LimitRange DEF Clock, Late
      <4>2. pc'[Ping] = "write" \/ \E i \in 1..Len(wire') : wire'[i] = Ping
        BY <1>0, <3>1, <3>3, WritingGrows
      <4> QED BY <2>1, <4>1, <4>2 DEF Outstanding, Late
    <3>4. UNCHANGED <<state, reason>>
      BY <2>3 DEF ins
    <3> QED BY <2>1, <2>3, <3>1, <3>2, <3>3, <3>4, LimitRange DEF Clock, PingPlaces
  <2>4. CASE /\ At(Ping, "sleep") /\ UNCHANGED <<ins, since, wire>>
             /\ ~(since >= Keepalive)
    <3>1. pc'[Ping] = "sleep" /\ pc'[Reader] = pc[Reader] /\ UNCHANGED <<state, reason>>
      BY <1>0, <2>4 DEF At, ins
    <3>2. Outstanding => Outstanding'
      BY <2>1, <2>4, <3>1 DEF Outstanding, Opening
    <3>3. Late => Late'
      BY <2>1, <2>4 DEF Late, Limit
    <3> QED BY <2>1, <2>4, <3>1, <3>2, <3>3, LimitRange DEF Clock, PingPlaces
  <2>5. idle >= Limit \/ idle < Limit
    BY LimitRange DEF Clock
  <2> QED BY <1>5, <2>2, <2>3, <2>4, <2>5 DEF PingCheck
<1>6. CASE Pinged
  <2>1. /\ UNCHANGED <<idle, since, slow, pong, cache, peer, part, wire>> /\ (state' = state \/ state' = "stop")
        /\ reason' = reason \/ reason' # "timeout"
    BY <1>6 DEF Pinged, Close, ins, net, broker
  <2>2. CASE Running(Ping, "wrote") /\ At(Ping, "check")
    <3>1. pc'[Ping] = "check" /\ pc[Ping] = "wrote"
      BY <1>0, <2>2 DEF At, Running
    <3>2. pc'[Reader] = pc[Reader] /\ (Outstanding => Outstanding')
      BY <1>0, <2>1, <2>2, <3>1 DEF At, Outstanding, Opening
    <3>3. state' = state /\ reason' = reason
      BY <1>6, <3>1 DEF Pinged, Running, ins
    <3> QED BY <2>1, <3>1, <3>2, <3>3, ClockCalmKeeps DEF Clock, ClockCalm, PingPlaces
  <2>3. CASE Running(Ping, "failed") /\ Close("write") /\ At(Ping, "done")
    <3>1. pc'[Ping] = "done" /\ pc'[Reader] = pc[Reader] /\ pc[Ping] = "failed"
      BY <1>0, <2>3 DEF At, Running
    <3>2. state' = "stop"
      BY <1>0, <2>1, <2>3, <3>1 DEF Close, IInv, Client, Asleep, ins
    <3>3. Outstanding => Outstanding'
      BY <2>1, <3>1 DEF Outstanding, Opening
    <3> QED BY <2>1, <3>1, <3>2, <3>3, ClockCalmKeeps DEF Clock, ClockCalm, PingPlaces
  <2> QED BY <1>6, <2>2, <2>3 DEF Pinged
<1>7. CASE ReadCall \/ Message \/ Handled \/ ReadChecked \/ Refused
  <2>1. /\ UNCHANGED <<idle, since, slow, pong, peer, part, wire>> /\ (state' = state \/ state' = "stop")
        /\ pc[Reader] \in {"loop", "message", "handled", "end"}
    BY <1>7 DEF ReadCall, Message, Handled, ReadChecked, Refused, Running, Close, ins, net, broker
  <2>2. reason' = reason \/ reason' # "timeout"
    BY <1>7 DEF ReadCall, Message, Handled, ReadChecked, Refused, Close, ins, Reading
  <2>3. /\ pc'[Reader] \in {"read", "recv", "handled", "message", "end", "loop", "done"}
        /\ pc'[Ping] = pc[Ping]
        /\ pc'[Reader] = "done" => state' # "run"
    BY <1>0, <1>7, <2>1 DEF ReadCall, Message, Handled, ReadChecked, Refused, Close, At, ins, IInv, Client
  <2>4. Outstanding => Outstanding'
    BY <2>1, <2>3 DEF Outstanding, Opening
  <2> QED BY <2>1, <2>2, <2>3, <2>4, ClockCalmKeeps DEF Clock, ClockCalm, ReaderPlaces
<1>8. CASE OnData
  <2>1. /\ UNCHANGED <<idle, since, slow, peer, state, reason, pc>>
        /\ pc[Reader] = "read" /\ cache' > 0
    BY <1>8 DEF OnData, ins, broker, Reading
  <2>2. Late => Late'
    BY <2>1 DEF Late, Limit
  <2> QED BY <2>1, <2>2, LimitRange DEF Clock, Outstanding
<1>9. CASE ReadEnds
  <2>1. /\ UNCHANGED <<idle, since, slow, peer, part, state, reason, cache, wire>> /\ pc[Reader] = "read"
        /\ pc'[Reader] = "recv" /\ pc'[Ping] = pc[Ping]
        /\ peer = "closed" \/ pong' = pong
    BY <1>0, <1>9 DEF ReadEnds, ins, broker, net, At
  <2> QED BY <2>1, ClockCalmKeeps DEF Clock, ClockCalm, ReaderPlaces, Outstanding, Opening
<1>10. CASE Receive
  <2>1. /\ UNCHANGED <<since, peer, part, state, reason, cache, wire, pong>> /\ pc[Reader] = "recv"
        /\ pc'[Reader] \in {"message", "end"} /\ pc'[Ping] = pc[Ping]
        /\ idle' = (IF cache > 0 THEN 0 ELSE idle) /\ slow' = (slow /\ (cache = 0 \/ state = "stop"))
    BY <1>0, <1>10 DEF Receive, Running, ins, broker, net, At
  <2>2. reason' = "timeout" => state' = "stop" /\ (peer' # "up" \/ slow')
    BY <2>1 DEF Clock
  <2>3. CASE cache > 0
    BY <2>1, <2>2, <2>3, LimitRange DEF Clock, ReaderPlaces
  <2>4. CASE ~(cache > 0)
    <3>1. cache = 0
      BY <2>4 DEF Reading
    <3>2. slow => slow'
      BY <2>1, <3>1, Zenon
    <3>3. idle' = idle
      BY <2>1, <3>1
    <3>4. Late => Late'
      BY <2>1, <3>2, <3>3 DEF Late, Limit
    <3>5. Outstanding => Outstanding'
      BY <2>1, <3>1 DEF Outstanding, Opening
    <3> QED BY <2>1, <2>2, <2>4, <3>3, <3>4, <3>5, LimitRange DEF Clock, ReaderPlaces
  <2> QED BY <2>3, <2>4
<1>11. CASE Tick
  BY <1>11, TickClock
<1>12. CASE BrokerReads
  <2>1. UNCHANGED <<idle, since, slow, state, reason, cache, pc>> /\ peer = "up" /\ peer' \in {"up", "closed"}
    BY <1>12 DEF BrokerReads, ins
  <2>2. ASSUME peer' = "up", Outstanding
        PROVE  Outstanding'
    <3>1. /\ wire # <<>> /\ wire' = Tail(wire) /\ (pong => pong')
          /\ part \in {Nobody, Head(wire)}
          /\ begun + 1 = Size(Head(wire)) /\ Head(wire) \in {Ping, User} => pong'
          /\ begun + 1 # Size(Head(wire)) => part' = Head(wire)
      BY <1>12, <2>2 DEF BrokerReads
    <3>2. /\ Len(wire) \in Nat /\ Len(wire') = Len(wire) - 1 /\ Head(wire) = wire[1]
          /\ \A i \in 1..Len(wire') : wire'[i] = wire[i + 1]
      BY <3>1, HeadTailProperties, LenProperties DEF Framing
    <3>3. ASSUME NEW i \in 1..Len(wire), wire[i] = Ping
          PROVE  Outstanding'
      <4>1. CASE i = 1
        <5>1. Head(wire) = Ping /\ begun = 0 /\ Size(Ping) = 1
          BY <3>1, <3>2, <3>3, <4>1, Sizes DEF Framing
        <5> QED BY <3>1, <5>1 DEF Outstanding, Opening
      <4>2. CASE i # 1
        <5>1. i - 1 \in 1..Len(wire') /\ wire'[i - 1] = Ping
          BY <3>2, <3>3, <4>2
        <5> QED BY <5>1 DEF Outstanding, Opening
      <4> QED BY <4>1, <4>2
    <3>4. CASE Opening
      <4>1. Head(wire) = User /\ Size(User) = 2
        BY <3>2, <3>4, Sizes DEF Opening
      <4>2. CASE part = User
        <5>1. begun = 1
          BY <4>1, <4>2 DEF Framing, Coroutines
        <5> QED BY <3>1, <4>1, <5>1 DEF Outstanding
      <4>3. CASE part # User
        <5>1. part = Nobody /\ begun = 0 /\ Len(wire) > 1 /\ wire[2] = User
          BY <3>4, <4>3 DEF Opening, Framing
        <5>2. Len(wire') > 0 /\ wire'[1] = User /\ part' = User
          <6>1. Len(wire') > 0 /\ 1 \in 1..Len(wire')
            BY <3>2, <5>1
          <6>2. part' = User
            BY <3>1, <4>1, <5>1
          <6> QED BY <3>2, <5>1, <6>1, <6>2
        <5> QED BY <5>2 DEF Outstanding, Opening
      <4> QED BY <4>2, <4>3
    <3> QED BY <2>1, <2>2, <3>1, <3>3, <3>4 DEF Outstanding
  <2> QED BY <2>1, <2>2, ClockCalmKeeps DEF Clock, ClockCalm
<1>13. CASE BrokerSends \/ BrokerFails \/ UNCHANGED vars
  <2>1. /\ UNCHANGED <<idle, since, slow, state, reason, cache, pc, pong>>
        /\ peer' = "up" => peer = "up" /\ wire' = wire /\ part' = part
    BY <1>13 DEF BrokerSends, BrokerFails, vars, ins, broker, net
  <2> QED BY <2>1, ClockCalmKeeps DEF Clock, ClockCalm, Outstanding, Opening
<1>k. ASSUME NEW c \in Coroutines, OnWriteClosed(c) PROVE Clock'
  <2>1. UNCHANGED <<idle, since, slow, state, reason, cache, pc, pong, peer, wire, part>>
    BY <1>k DEF OnWriteClosed, ins, broker, net
  <2> QED BY <2>1, ClockCalmKeeps DEF Clock, ClockCalm, Outstanding, Opening
<1>14. CASE \E c \in Coroutines : Returns(c) \/ Runs(c) \/ OnWrite(c)
  BY <1>1, <1>2, <1>3, <1>4, <1>5, <1>6, <1>7, <1>10, <1>14 DEF Returns, Runs
<1> QED BY <1>8, <1>9, <1>11, <1>12, <1>13, <1>14, <1>k DEF Next

-----------------------------------------------------------------------------
(* Where the coroutines are, and what the process and its user know.       *)
AllPlaces == Waiting \cup {"connect", "idle", "loop", "recv", "message", "handled", "end",
                           "check", "wrote", "failed"}
Reasons == {"none", "user", "timeout", "write", "data", "EOF", "reset"}
Places ==
    /\ proc \in {"up", "exited", "error"} /\ reason \in Reasons
    /\ cur \in Coroutines \cup {Nobody} /\ leaving \subseteq Publishers \cup {Reader}
    /\ \A c \in Coroutines : pc[c] \in AllPlaces

(* A step moves at most one coroutine, to a place, and may close.          *)
PlaceStep ==
    /\ \/ pc' = pc
       \/ \E c \in Coroutines, where \in AllPlaces : At(c, where)
    /\ UNCHANGED <<proc, reason>> \/ \E why \in Reasons : Close(why)
    /\ cur' \in Coroutines \cup {Nobody}
    /\ leaving' \subseteq Publishers \cup {Reader}

(* A step of one coroutine to one of its places.                           *)
LEMMA PlaceStepKeeps ==
    ASSUME IInv, Places, PlaceStep PROVE Places'
<1>1. DOMAIN pc = Coroutines
  BY DEF IInv
<1>2. \A c \in Coroutines : pc'[c] \in AllPlaces
  BY <1>1 DEF Places, PlaceStep, At
<1>3. proc' \in {"up", "exited", "error"} /\ reason' \in Reasons
  BY DEF Places, PlaceStep, Close, ins
<1> QED BY <1>2, <1>3 DEF Places, PlaceStep

LEMMA InitPlaces == ASSUME Init PROVE Places
BY DEF Init, Places, AllPlaces, Waiting, Reasons

(* Each coroutine stays within the places of its own code.                 *)
LEMMA PlacesPreserved == ASSUME IInv, Reading, Places, [Next]_vars PROVE Places'
<1> USE SandcAssumption
<1>0. /\ DOMAIN pc = Coroutines /\ {User, Reader, Ping} \cup Publishers = Coroutines
      /\ {"done", "idle", "handled", "wrote", "write", "failed", "read", "recv", "loop", "message",
          "end", "check", "sleep"} \subseteq AllPlaces
      /\ {"user", "write", "timeout", "data"} \subseteq Reasons
  BY DEF IInv, Coroutines, AllPlaces, Waiting, Reasons
<1>1. CASE Connect
  <2>1. UNCHANGED <<proc, reason, leaving>> /\ cur' = Nobody
    BY <1>1 DEF Connect, ins
  <2>2. CASE At(User, "done")
    BY <1>0, <2>1, <2>2, PlaceStepKeeps DEF PlaceStep, Places
  <2>3. CASE pc' = [c \in Coroutines |->
                       CASE c = Reader -> "loop" [] c = Ping -> "check"
                         [] c = User -> "done" [] OTHER -> "idle"]
    <3>1. \A c \in Coroutines : pc'[c] \in {"loop", "check", "done", "idle"}
      BY <2>3
    <3> QED BY <1>0, <2>1, <3>1 DEF Places
  <2> QED BY <1>1, <2>2, <2>3 DEF Connect
<1>2. ASSUME NEW c \in Coroutines, WriteFrame(c), UNCHANGED <<proc, ins>>,
             leaving' \subseteq leaving \cup (Publishers \cup {Reader})
      PROVE  Places'
  <2>1. cur' \in {c, Nobody} /\ \E where \in {"wrote", "write", "failed"} : At(c, where)
    BY <1>2 DEF WriteFrame
  <2> QED BY <1>0, <1>2, <2>1, PlaceStepKeeps DEF PlaceStep, Places, ins
<1>3. ASSUME NEW c \in Publishers,
             Publish(c) \/ Disconnect(c, "idle")
      PROVE  Places'
  BY <1>0, <1>2, <1>3 DEF Publish, Disconnect
<1>4. CASE Disconnect(Reader, "handled")
  BY <1>0, <1>2, <1>4 DEF Disconnect
<1>5. ASSUME NEW c \in Coroutines, NEW where \in AllPlaces, At(c, where),
             UNCHANGED <<proc, ins>> \/ \E why \in Reasons : Close(why),
             cur' \in {c, Nobody, cur}, leaving' \subseteq leaving
      PROVE  Places'
  BY <1>5, PlaceStepKeeps DEF PlaceStep, Places, ins
<1>6. ASSUME NEW c \in Publishers, Published(c) \/ Rest(c) \/ Disconnected(c, "done")
      PROVE  Places'
  BY <1>0, <1>5, <1>6 DEF Published, Rest, Disconnected
<1>7. CASE Disconnected(Reader, "handled")
  BY <1>0, <1>5, <1>7 DEF Disconnected
<1>8. ASSUME NEW c \in Coroutines, OnWrite(c) PROVE Places'
  <2>1. \E where \in {"wrote", "write", "failed"} : At(c, where)
    BY <1>8 DEF OnWrite
  <2> QED BY <1>0, <1>5, <1>8, <2>1 DEF OnWrite
<1>9. CASE ReadCall \/ ReadEnds \/ Receive \/ Message \/ Handled
  <2>1. /\ \E where \in {"done", "read", "recv", "message", "end", "handled"} : At(Reader, where)
        /\ UNCHANGED <<proc, ins, leaving>> /\ cur' \in {Reader, Nobody, cur}
    BY <1>9 DEF ReadCall, ReadEnds, Receive, Message, Handled
  <2> QED BY <1>0, <1>5, <2>1
<1>10. CASE ReadChecked
  <2>1. rerr \in Reasons \cup {"TIMEOUT"}
    BY DEF Reading, Reasons
  <2> QED BY <1>0, <1>5, <1>10, <2>1 DEF ReadChecked
<1>r. CASE Refused
  BY <1>0, <1>5, <1>r DEF Refused
<1>k. ASSUME NEW c \in Coroutines, OnWriteClosed(c) PROVE Places'
  <2>1. UNCHANGED <<reason, cur, leaving, pc>> /\ proc' = "error"
    BY <1>k DEF OnWriteClosed, ins
  <2> QED BY <2>1 DEF Places
<1>11. CASE PingCheck
  <2>1. CASE WriteFrame(Ping) /\ UNCHANGED <<ins, proc>>
    BY <1>0, <1>2, <1>11, <2>1 DEF PingCheck
  <2>2. CASE /\ \E where \in {"done", "sleep"} : At(Ping, where)
             /\ UNCHANGED <<ins, proc>> \/ Close("timeout")
             /\ cur' = Nobody
    <3>1. leaving' = leaving
      BY <1>11 DEF PingCheck
    <3> QED BY <1>0, <1>5, <2>2, <3>1
  <2> QED BY <1>11, <2>1, <2>2 DEF PingCheck
<1>12. CASE Pinged
  BY <1>0, <1>5, <1>12 DEF Pinged
<1>13. CASE Tick
  <2>1. UNCHANGED <<proc, reason, cur, leaving>> /\ \A c \in Coroutines : pc'[c] \in {pc[c], "check"}
    BY <1>0, <1>13 DEF Tick, ins
  <2> QED BY <1>0, <2>1 DEF Places
<1>14. CASE OnData \/ BrokerReads \/ BrokerSends \/ BrokerFails \/ UNCHANGED vars
  <2>1. UNCHANGED <<proc, reason, cur, leaving, pc>>
    BY <1>14 DEF OnData, BrokerReads, BrokerSends, BrokerFails, vars, ins
  <2> QED BY <2>1 DEF Places
<1>15. CASE \E c \in Coroutines : Returns(c) \/ Runs(c) \/ OnWrite(c)
  BY <1>1, <1>3, <1>4, <1>6, <1>7, <1>8, <1>9, <1>10, <1>r, <1>11, <1>12, <1>15
     DEF Returns, Runs
<1> QED BY <1>9, <1>13, <1>14, <1>15, <1>k DEF Next

-----------------------------------------------------------------------------
(* Only connect and the reader touch slow.                                 *)
LEMMA SlowPreserved == ASSUME slow \in BOOLEAN, [Next]_vars PROVE slow' \in BOOLEAN
<1>1. \/ slow' = slow
      \/ slow' = (idle >= Limit)
      \/ slow' = (slow /\ (cache = 0 \/ state = "stop"))
  <2>1. CASE Connect \/ Receive
    BY <2>1 DEF Connect, Receive
  <2>2. ASSUME NEW c \in Coroutines,
               \/ Returns(c) \/ OnWrite(c) \/ OnWriteClosed(c)
               \/ Published(c) \/ \E where \in {"done", "handled"} : Disconnected(c, where)
               \/ Disconnect(c, "handled")
        PROVE  slow' = slow
    BY <2>2 DEF Returns, Publish, Published, Rest, Disconnect, Disconnected, OnWrite, OnWriteClosed
  <2>3. CASE \/ ReadCall \/ Message \/ Handled \/ Refused \/ ReadChecked \/ PingCheck \/ Pinged
             \/ OnData \/ ReadEnds \/ Tick \/ BrokerReads \/ BrokerSends \/ BrokerFails
             \/ UNCHANGED vars
    BY <2>3 DEF ReadCall, Message, Handled, Refused, ReadChecked, PingCheck, Pinged, OnData,
       ReadEnds, Tick, BrokerReads, BrokerSends, BrokerFails, vars
  <2>4. ASSUME NEW c \in Coroutines, Runs(c) PROVE slow' = slow \/ Connect \/ Receive
    <3>1. CASE c \in Publishers /\ (Published(c) \/ Disconnected(c, "done"))
      BY <2>2, <3>1
    <3>2. CASE Disconnect(Reader, "handled") \/ Disconnected(Reader, "handled")
      BY <2>2, <3>2 DEF Coroutines
    <3>3. CASE ReadCall \/ Message \/ Handled \/ Refused \/ ReadChecked \/ PingCheck \/ Pinged
      <4>1. UNCHANGED slow
        BY <3>3 DEF ReadCall, Message, Handled, Refused, ReadChecked, PingCheck, Pinged
      <4> QED BY <4>1
    <3> QED BY <2>4, <3>1, <3>2, <3>3 DEF Runs
  <2> QED BY <2>1, <2>2, <2>3, <2>4 DEF Next
<1>2. CASE slow' = slow \/ slow' = (slow /\ (cache = 0 \/ state = "stop"))
  BY <1>2, Zenon
<1>3. CASE slow' = (idle >= Limit)
  BY <1>3
<1> QED BY <1>1, <1>2, <1>3

(* All parts together. *)
Inv == IInv /\ Reading /\ Framing /\ Clock /\ Places /\ slow \in BOOLEAN

(* The parts together are inductive and hold in every reachable state.     *)
LEMMA Invariance == Spec => []Inv
<1>1. Init => Inv
  BY InitIInv, InitReading, InitFraming, InitClock, InitPlaces DEF Inv, Init
<1>2. Inv /\ [Next]_vars => Inv'
  BY Preserved, ReadingPreserved, FramingPreserved, ClockPreserved, PlacesPreserved, SlowPreserved
     DEF Inv
<1> QED BY <1>1, <1>2, PTL DEF Spec

(* The state has its type; the reader never holds more than was sent.      *)
THEOREM TypeCorrect == Spec => []TypeOK
<1>1. Inv => TypeOK
  <2> SUFFICES ASSUME Inv PROVE TypeOK
    OBVIOUS
  <2>1. /\ proc \in {"up", "exited", "error"} /\ cur \in Coroutines \cup {Nobody}
        /\ reason \in {"none", "user", "timeout", "write", "data", "EOF", "reset"}
        /\ leaving \subseteq Publishers \cup {Reader}
        /\ \A c \in Coroutines : pc[c] \in AllPlaces
    BY DEF Inv, Places, Reasons
  <2>2. state \in {"new", "run", "stop"} /\ client \in BOOLEAN /\ slow \in BOOLEAN
    BY Zenon DEF Inv, IInv, Client
  <2>3. cache \in 0..(MaxIn + 1) /\ got \in 0..MaxIn
    BY SandcAssumption DEF Inv, Reading, Owed
  <2>4. idle \in 0..Limit /\ since \in 0..Keepalive
    BY DEF Inv, Clock
  <2>5. /\ left \in [Coroutines -> 0..3] /\ peer \in {"up", "silent", "closed"}
        /\ wire \in Seq(Coroutines) /\ Len(wire) <= Cap /\ part \in Coroutines \cup {Nobody}
    BY DEF Inv, Framing
  <2>6. begun \in 0..2
    BY Sizes DEF Inv, Framing
  <2> QED BY <2>1, <2>2, <2>3, <2>4, <2>5, <2>6 DEF TypeOK, AllPlaces
<1> QED BY Invariance, <1>1, PTL

(* A broker that answers within a second is given up only between a        *)
(* connect that took 2.1 keepalives and the first answer, for any          *)
(* keepalive (sandc.lua:131-135, 263).                                     *)
THEOREM AnsweringBrokerKept == Spec => []TimeoutOnlyWhenSilent
<1>1. Inv => TimeoutOnlyWhenSilent
  BY DEF Inv, Clock, TimeoutOnlyWhenSilent
<1> QED BY Invariance, <1>1, PTL

-----------------------------------------------------------------------------
(* ahead[i] is what the broker will have of an unfinished frame after the  *)
(* first i pieces that are on their way to it; its owner wrote the last of *)
(* them.  Unless somebody overtook, each piece goes on with the frame that *)
(* is unfinished, and the one that is so after the last piece is the frame *)
(* that its owner is blocked in.                                           *)
Owner(i) == IF i = 0 THEN part ELSE wire[i]
Half(c) == pc[c] = "write" /\ left[c] < Size(c)
Frames(ahead) ==
    /\ ahead[0] = begun
    /\ \A i \in 1..Len(wire) :
          /\ ahead[i - 1] > 0 => wire[i] = Owner(i - 1)
          /\ ahead[i] = IF ahead[i - 1] + 1 = Size(wire[i]) THEN 0 ELSE ahead[i - 1] + 1
    /\ \A c \in Coroutines : Half(c) => ahead[Len(wire)] > 0
    /\ ahead[Len(wire)] > 0 =>
          LET c == Owner(Len(wire)) IN Half(c) /\ left[c] + ahead[Len(wire)] = Size(c)
    /\ \A c \in Coroutines : Half(c) => c = Owner(Len(wire))
Untorn ==
    /\ ~overtaken /\ peer # "closed" => \E ahead \in [0..Len(wire) -> 0..2] : Frames(ahead)
    /\ mixed => overtaken

LEMMA InitUntorn == ASSUME Init PROVE Untorn
<1>1. Len(wire) = 0 /\ begun = 0 /\ \A c \in Coroutines : ~Half(c)
  BY EmptySeq DEF Init, Half
<1> DEFINE ahead == [i \in 0..0 |-> 0]
<1>2. ahead \in [0..Len(wire) -> 0..2] /\ ahead[0] = 0
  BY <1>1
<1>3. Frames(ahead)
  BY <1>1, <1>2 DEF Frames
<1> QED BY <1>2, <1>3 DEF Untorn, Init

(* Pieces of c come behind those on their way.  What is unfinished there   *)
(* is c's own frame, of which it has from left: else c would overtake.     *)
LEMMA WroteUntorn ==
    ASSUME IInv, Framing, Untorn, NEW c \in Coroutines, NEW from \in 1..Size(c), NEW n \in Nat,
           Wrote(c, from, n), UNCHANGED taken,
           IF pc[c] = "write" THEN from = left[c] /\ n > 0 ELSE from = Size(c)
    PROVE  Untorn'
<1>1. SUFFICES ASSUME ~overtaken', peer # "closed"
               PROVE  \E ahead \in [0..Len(wire') -> 0..2] : Frames(ahead)'
  BY DEF Untorn, Wrote, taken
<1>2. PICK ahead \in [0..Len(wire) -> 0..2] : Frames(ahead)
  BY <1>1 DEF Wrote, Untorn
<1>3. /\ Len(wire) \in Nat /\ wire \in Seq(Coroutines) /\ DOMAIN pc = Coroutines
      /\ Size(c) \in 1..3 /\ from \in 1..3 /\ n \in 0..from /\ left \in [Coroutines -> 0..3]
  BY LenProperties, Sizes DEF Framing, IInv, Wrote
<1>L. PICK L \in Nat : L = Len(wire)
  BY <1>3
<1>b. PICK b \in 0..2 : b = ahead[L]
  BY <1>2, <1>L
<1>o. PICK o : o = Owner(L)
  OBVIOUS
<1>4. /\ Len(wire') = L + n /\ \A i \in 1..L : wire'[i] = wire[i]
      /\ \A i \in (L + 1)..(L + n) : wire'[i] = c
  <2>1. LET v == wire \o [i \in 1..n |-> c]
        IN  /\ Len(v) = Len(wire) + n /\ \A i \in 1..Len(wire) : v[i] = wire[i]
            /\ \A i \in (Len(wire) + 1)..(Len(wire) + n) : v[i] = c
    BY <1>3, Pieced
  <2> QED BY <1>L, <2>1 DEF Wrote
<1>5. \A d \in Coroutines \ {c} : pc'[d] = pc[d] /\ left'[d] = left[d] /\ (Half(d)' <=> Half(d))
  BY <1>3 DEF Wrote, At, Half
<1>6. left'[c] = from - n /\ pc'[c] = IF n = from THEN "wrote" ELSE "write"
  BY <1>3 DEF Wrote, At
<1>7. \A i \in 0..L : Owner(i)' = Owner(i)
  BY <1>4 DEF Owner, taken
<1>8. ahead[0] = begun /\ begun' = begun /\ \A i \in 0..L : ahead[i] \in 0..2
  BY <1>2, <1>L DEF Frames, taken
<1>9. /\ \A i \in 1..L : /\ ahead[i - 1] > 0 => wire[i] = Owner(i - 1)
                         /\ ahead[i] = IF ahead[i - 1] + 1 = Size(wire[i]) THEN 0 ELSE ahead[i - 1] + 1
      /\ \A d \in Coroutines : Half(d) => b > 0 /\ d = o
      /\ b > 0 => Half(o) /\ left[o] + b = Size(o)
  BY <1>2, <1>L, <1>b, <1>o DEF Frames
<1>10. b > 0 => o \in Coroutines
  <2>1. L = 0 /\ b > 0 => part \in Coroutines
    BY <1>8, <1>b DEF Framing
  <2>2. L # 0 => wire[L] \in Coroutines
    BY <1>3, <1>L, ElementOfSeq
  <2> QED BY <1>o, <2>1, <2>2 DEF Owner
<1>11. CASE n = 0
  <2>1. pc[c] # "write" /\ from = Size(c) /\ ~Half(c) /\ ~Half(c)'
    BY <1>3, <1>6, <1>11 DEF Half
  <2>2. /\ Owner(L)' = o
        /\ b > 0 => Half(o)' /\ left'[o] + b = Size(o)
        /\ \A d \in Coroutines : Half(d)' => b > 0 /\ d = o
    <3>1. Owner(L)' = o
      BY <1>o, <1>7
    <3>2. ASSUME b > 0 PROVE Half(o)' /\ left'[o] + b = Size(o)
      <4>1. o \in Coroutines \ {c} /\ Half(o) /\ left[o] + b = Size(o)
        BY <1>9, <1>10, <2>1, <3>2
      <4> QED BY <1>5, <4>1
    <3>3. \A d \in Coroutines : Half(d)' => Half(d)
      BY <1>5, <2>1
    <3> QED BY <1>9, <3>1, <3>2, <3>3
  <2>3. Len(wire') = L
    BY <1>4, <1>11
  <2>4. \A i \in 1..L : /\ ahead[i - 1] > 0 => wire'[i] = Owner(i - 1)'
                        /\ ahead[i] = IF ahead[i - 1] + 1 = Size(wire'[i]) THEN 0 ELSE ahead[i - 1] + 1
    <3>1. \A i \in 1..L : i - 1 \in 0..L
      OBVIOUS
    <3> QED BY <1>4, <1>7, <1>9, <3>1
  <2>5. Frames(ahead)'
    BY <1>b, <1>8, <2>2, <2>3, <2>4 DEF Frames, Half
  <2> QED BY <1>L, <2>3, <2>5
<1>12. CASE n > 0
  <2>1. \A d \in Coroutines \ {c} : ~Half(d)
    <3>1. \A d \in Coroutines : Half(d) => left[d] \in 1..(Size(d) - 1)
      BY Sizes DEF Half, Framing
    <3>2. ~\E d \in Coroutines \ {c} : pc[d] = "write" /\ left[d] \in 1..(Size(d) - 1)
      BY <1>1, <1>12 DEF Wrote
    <3> QED BY <3>1, <3>2 DEF Half
  <2>2. (b > 0 => o = c) /\ from + b = Size(c)
    <3>1. CASE b > 0
      <4>1. o = c /\ Half(c) /\ left[c] + b = Size(c)
        BY <1>9, <1>10, <2>1, <3>1
      <4> QED BY <4>1 DEF Half
    <3>2. CASE ~(b > 0)
      <4>1. b = 0 /\ ~Half(c)
        BY <1>9, <3>2
      <4>2. pc[c] = "write" => left[c] = Size(c)
        BY <1>3, <4>1 DEF Half, Framing
      <4> QED BY <1>3, <4>1, <4>2
    <3> QED BY <3>1, <3>2
  <2> DEFINE next == [i \in 0..(L + n) |-> IF i <= L THEN ahead[i]
                                           ELSE IF b + (i - L) = Size(c) THEN 0 ELSE b + (i - L)]
  <2>3. next \in [0..(L + n) -> 0..2]
    BY <1>3, <1>8, <2>2
  <2>4. \A i \in 1..(L + n) :
           /\ next[i - 1] > 0 => wire'[i] = Owner(i - 1)'
           /\ next[i] = IF next[i - 1] + 1 = Size(wire'[i]) THEN 0 ELSE next[i - 1] + 1
    <3> SUFFICES ASSUME NEW i \in 1..(L + n)
                 PROVE  /\ next[i - 1] > 0 => wire'[i] = Owner(i - 1)'
                        /\ next[i] = IF next[i - 1] + 1 = Size(wire'[i]) THEN 0 ELSE next[i - 1] + 1
      OBVIOUS
    <3>1. CASE i <= L
      <4>1. i \in 1..L /\ i - 1 \in 0..L /\ next[i] = ahead[i] /\ next[i - 1] = ahead[i - 1]
        BY <1>3, <3>1
      <4> QED BY <1>4, <1>7, <1>9, <4>1
    <3>2. CASE i = L + 1
      <4>1. /\ next[i - 1] = b /\ i - 1 = L /\ wire'[i] = c
            /\ next[i] = IF b + 1 = Size(c) THEN 0 ELSE b + 1
        BY <1>3, <1>4, <1>b, <3>2
      <4>2. Owner(i - 1)' = o
        BY <1>o, <1>7, <4>1
      <4> QED BY <2>2, <4>1, <4>2
    <3>3. CASE i > L + 1
      <4>1. /\ wire'[i] = c /\ wire'[i - 1] = c /\ i - 1 # 0
            /\ next[i - 1] = b + (i - 1 - L)
            /\ next[i] = IF b + (i - L) = Size(c) THEN 0 ELSE b + (i - L)
        BY <1>3, <1>4, <1>8, <2>2, <3>3
      <4>2. Owner(i - 1)' = c
        BY <4>1 DEF Owner
      <4>3. next[i - 1] + 1 = b + (i - L)
        BY <1>3, <1>8, <4>1
      <4> HIDE DEF next
      <4> QED BY <4>1, <4>2, <4>3
    <3> QED BY <1>3, <3>1, <3>2, <3>3
  <2>5. /\ next[L + n] = IF n = from THEN 0 ELSE b + n
        /\ next[0] = begun'
    BY <1>3, <1>8, <1>12, <2>2
  <2> HIDE DEF next
  <2>6. Owner(L + n)' = c
    BY <1>3, <1>4, <1>12 DEF Owner
  <2>7. \A d \in Coroutines : Half(d)' => d = c /\ n # from
    BY <1>3, <1>5, <1>6, <2>1 DEF Half
  <2>8. n # from => Half(c)' /\ left'[c] + (b + n) = Size(c) /\ b + n > 0
    BY <1>3, <1>6, <1>8, <1>12, <2>2 DEF Half
  <2>9. Frames(next)'
    BY <1>4, <2>4, <2>5, <2>6, <2>7, <2>8 DEF Frames, Half
  <2> QED BY <1>4, <2>3, <2>9
<1> QED BY <1>3, <1>11, <1>12

(* The broker reads on as ahead says, and meets no other's piece.          *)
LEMMA ReadUntorn ==
    ASSUME IInv, Framing, Untorn, BrokerReads PROVE Untorn'
<1>1. /\ peer = "up" /\ wire # <<>> /\ wire \in Seq(Coroutines)
      /\ UNCHANGED <<pc, left, overtaken>>
  BY DEF BrokerReads, Framing
<1>2. /\ Len(wire) \in Nat \ {0} /\ Head(wire) = wire[1] /\ wire[1] \in Coroutines
      /\ Len(Tail(wire)) = Len(wire) - 1
      /\ \A i \in 1..(Len(wire) - 1) : Tail(wire)[i] = wire[i + 1]
  BY <1>1, HeadTailProperties, LenProperties, EmptySeq
<1>3. CASE overtaken
  BY <1>1, <1>3 DEF Untorn
<1>4. CASE ~overtaken
  <2>1. PICK ahead \in [0..Len(wire) -> 0..2] : Frames(ahead)
    BY <1>1, <1>4 DEF Untorn
  <2>2. /\ ahead[0] = begun /\ (begun > 0 => wire[1] = part)
        /\ ahead[1] = IF begun + 1 = Size(wire[1]) THEN 0 ELSE begun + 1
    <3>1. /\ 1 \in 1..Len(wire) /\ 1 - 1 = 0
      BY <1>2
    <3> QED BY <2>1, <3>1 DEF Frames, Owner
  <2>3. part \in {Nobody, wire[1]}
    BY <2>2 DEF Framing
  <2>4. mixed' = mixed
    BY <1>2, <2>3 DEF BrokerReads
  <2>5. ASSUME peer' # "closed"
        PROVE  \E next \in [0..Len(wire') -> 0..2] : Frames(next)'
    <3>1. wire' = Tail(wire) /\ begun' = ahead[1] /\ (ahead[1] > 0 => part' = wire[1])
      BY <1>2, <2>2, <2>3, <2>5 DEF BrokerReads
    <3>L. PICK L \in Nat : L = Len(wire) /\ L > 0 /\ Len(wire') = L - 1
      <4>1. Len(wire') = Len(wire) - 1 /\ Len(wire) > 0
        BY <1>2, <3>1
      <4> QED BY <1>2, <4>1
    <3>o. PICK o : o = Owner(L)
      OBVIOUS
    <3> DEFINE next == [i \in 0..(L - 1) |-> ahead[i + 1]]
    <3>2. \A i \in 0..(L - 1) : i + 1 \in 1..L
      BY <3>L
    <3>3. next \in [0..(L - 1) -> 0..2] /\ next[0] = begun'
          /\ \A i \in 0..(L - 1) : next[i] = ahead[i + 1]
      BY <3>1, <3>2, <3>L
    <3> HIDE DEF next
    <3>4. \A i \in 0..(L - 1) : ahead[i + 1] > 0 => Owner(i)' = Owner(i + 1)
      BY <1>2, <3>1, <3>2, <3>L DEF Owner
    <3>5. ASSUME NEW i \in 1..(L - 1)
          PROVE  /\ next[i - 1] > 0 => wire'[i] = Owner(i - 1)'
                 /\ next[i] = IF next[i - 1] + 1 = Size(wire'[i]) THEN 0 ELSE next[i - 1] + 1
      <4>1. /\ i - 1 \in 0..(L - 1) /\ i \in 0..(L - 1) /\ i + 1 \in 1..L
            /\ (i - 1) + 1 = i /\ (i + 1) - 1 = i
        BY <3>L
      <4>2. wire'[i] = wire[i + 1] /\ next[i - 1] = ahead[i] /\ next[i] = ahead[i + 1]
        BY <1>2, <3>1, <3>3, <3>L, <4>1
      <4>3. /\ ahead[i] > 0 => wire[i + 1] = Owner(i)
            /\ ahead[i + 1] = IF ahead[i] + 1 = Size(wire[i + 1]) THEN 0 ELSE ahead[i] + 1
        BY <2>1, <3>L, <4>1 DEF Frames
      <4>4. ahead[i] > 0 => Owner(i - 1)' = Owner(i)
        BY <3>4, <4>1
      <4> QED BY <4>2, <4>3, <4>4
    <3>6. next[L - 1] = ahead[L] /\ (ahead[L] > 0 => Owner(L - 1)' = o)
      <4>1. L - 1 \in 0..(L - 1) /\ (L - 1) + 1 = L
        BY <3>L
      <4> QED BY <3>3, <3>4, <3>o, <4>1
    <3>7. \A c : Half(c)' <=> Half(c)
      BY <1>1 DEF Half
    <3>8. /\ ahead[L] > 0 => Half(o) /\ left[o] + ahead[L] = Size(o)
          /\ \A c \in Coroutines : Half(c) => ahead[L] > 0 /\ c = o
      BY <2>1, <3>L, <3>o DEF Frames
    <3>9. ahead[L] > 0 => Half(o)' /\ left'[o] + ahead[L] = Size(o)
      BY <1>1, <3>7, <3>8
    <3>10. Frames(next)'
      BY <3>3, <3>5, <3>6, <3>7, <3>8, <3>9, <3>L DEF Frames, Half
    <3> QED BY <3>3, <3>10, <3>L
  <2> QED BY <1>1, <2>4, <2>5 DEF Untorn
<1> QED BY <1>3, <1>4

(* Beginning or continuing a frame tears nothing unless it overtakes.      *)
LEMMA StartsUntorn ==
    ASSUME IInv, Framing, Untorn, NEW c \in Coroutines, Starts(c) \/ OnWrite(c), peer # "closed"
    PROVE  Untorn'
<1>1. Size(c) \in 1..3 /\ UNCHANGED taken
  BY Sizes DEF Starts, OnWrite, taken, broker
<1>2. CASE Starts(c)
  <2>1. PICK n \in Nat : Wrote(c, Size(c), n)
    BY <1>2, StartsWrites
  <2>2. pc[c] # "write"
    BY <1>2 DEF Starts
  <2> QED BY <1>1, <2>1, <2>2, WroteUntorn
<1>3. CASE OnWrite(c)
  <2>1. PICK n \in Nat \ {0} : Wrote(c, left[c], n)
    BY <1>3, OnWriteWrites
  <2>2. pc[c] = "write" /\ left[c] \in 1..Size(c)
    BY <1>3 DEF OnWrite, Framing
  <2> QED BY <1>1, <2>1, <2>2, WroteUntorn
<1> QED BY <1>2, <1>3

(* No step of a coroutine or of the broker tears a frame unless somebody   *)
(* overtook.                                                               *)
LEMMA UntornPreserved == ASSUME IInv, Framing, Untorn, [Next]_vars PROVE Untorn'
<1>1. CASE Quiet
  <2>1. UNCHANGED <<left, wire, overtaken, peer, part, begun, mixed>>
    BY <1>1 DEF Quiet, taken
  <2>2. \A c \in Coroutines : Half(c)' <=> Half(c)
    BY <1>1, <2>1 DEF Quiet, Half
  <2>3. \A i : Owner(i)' = Owner(i)
    BY <2>1 DEF Owner
  <2>4. CASE ~overtaken /\ peer # "closed"
    <3>1. PICK ahead \in [0..Len(wire) -> 0..2] : Frames(ahead)
      BY <2>4 DEF Untorn
    <3>2. /\ \A i \in 1..Len(wire) :
                /\ ahead[i - 1] > 0 => wire[i] = Owner(i - 1)'
                /\ ahead[i] = IF ahead[i - 1] + 1 = Size(wire[i]) THEN 0 ELSE ahead[i - 1] + 1
          /\ ahead[0] = begun
      BY <2>3, <3>1 DEF Frames
    <3>3. /\ \A c \in Coroutines : Half(c) => ahead[Len(wire)] > 0 /\ c = Owner(Len(wire))
          /\ ahead[Len(wire)] > 0 =>
                /\ Half(Owner(Len(wire)))
                /\ left[Owner(Len(wire))] + ahead[Len(wire)] = Size(Owner(Len(wire)))
      BY <3>1 DEF Frames
    <3>4. Owner(Len(wire)) \in Coroutines \/ ~(ahead[Len(wire)] > 0)
      <4>1. Len(wire) \in Nat /\ (Len(wire) # 0 => wire[Len(wire)] \in Coroutines)
        BY LenProperties, ElementOfSeq DEF Framing
      <4>2. begun > 0 => part \in Coroutines
        BY DEF Framing
      <4> QED BY <3>2, <4>1, <4>2 DEF Owner
    <3>5. Owner(Len(wire))' = Owner(Len(wire))
      BY <2>1 DEF Owner
    <3>6. Frames(ahead)'
      BY <2>1, <2>2, <3>2, <3>3, <3>4, <3>5 DEF Frames
    <3> QED BY <2>1, <2>4, <3>1, <3>6 DEF Untorn
  <2>5. CASE overtaken \/ peer = "closed"
    BY <2>1, <2>5 DEF Untorn
  <2> QED BY <2>4, <2>5
<1>2. CASE Opens
  <2>1. /\ wire = <<>> /\ part = Nobody /\ begun = 0 /\ Size(User) = 2
        /\ UNCHANGED <<left, overtaken, peer, part, begun, mixed>>
        /\ wire' = wire \o [i \in 1..2 |-> User] /\ \A c \in Coroutines : ~Half(c)'
    BY <1>2, Sizes DEF Opens, Framing, taken, Half
  <2>2. /\ Len(wire') = 2 /\ wire'[1] = User /\ wire'[2] = User
    <3>1. Len(wire) = 0 /\ wire \in Seq(Coroutines) /\ User \in Coroutines
      BY <2>1, EmptySeq DEF Framing, Coroutines
    <3>2. LET v == wire \o [i \in 1..2 |-> User]
          IN  Len(v) = Len(wire) + 2 /\ \A i \in (Len(wire) + 1)..(Len(wire) + 2) : v[i] = User
      BY <3>1, Pieced
    <3> QED BY <2>1, <3>1, <3>2
  <2> DEFINE ahead == [i \in 0..2 |-> IF i = 1 THEN 1 ELSE 0]
  <2>3. ahead \in [0..2 -> 0..2] /\ ahead[0] = 0 /\ ahead[1] = 1 /\ ahead[2] = 0
    OBVIOUS
  <2> HIDE DEF ahead
  <2>4. \A i \in 1..2 :
           /\ ahead[i - 1] > 0 => wire'[i] = Owner(i - 1)'
           /\ ahead[i] = IF ahead[i - 1] + 1 = Size(wire'[i]) THEN 0 ELSE ahead[i - 1] + 1
    <3>1. \A i \in 1..2 : i = 1 \/ i = 2
      OBVIOUS
    <3>2. Owner(1)' = User
      BY <2>2 DEF Owner
    <3> QED BY <2>1, <2>2, <2>3, <3>1, <3>2
  <2>5. Frames(ahead)'
    BY <2>1, <2>2, <2>3, <2>4 DEF Frames
  <2> QED BY <2>1, <2>2, <2>3, <2>5 DEF Untorn
<1>3. ASSUME NEW c \in Coroutines, Starts(c) \/ OnWrite(c) PROVE Untorn'
  <2>1. CASE peer = "closed"
    <3>1. peer' = "closed" /\ mixed' = mixed
      BY <1>3, <2>1 DEF Starts, OnWrite, taken, broker
    <3>2. ASSUME Starts(c), overtaken PROVE overtaken'
      BY <3>2 DEF Starts, WriteFrame, Put
    <3>3. ASSUME OnWrite(c), overtaken PROVE overtaken'
      BY <3>3 DEF OnWrite, Put
    <3>4. overtaken => overtaken'
      BY <1>3, <3>2, <3>3
    <3> QED BY <3>1, <3>4 DEF Untorn
  <2> QED BY <1>3, <2>1, StartsUntorn
<1>4. CASE BrokerFails
  <2>1. /\ UNCHANGED <<pc, left, overtaken, part, begun, mixed>>
        /\ peer' # "closed" => wire' = wire /\ peer # "closed"
    BY <1>4 DEF BrokerFails
  <2>2. CASE peer' = "closed"
    BY <2>1, <2>2 DEF Untorn
  <2>3. CASE peer' # "closed"
    BY <2>1, <2>3 DEF Untorn, Frames, Owner, Half
  <2> QED BY <2>2, <2>3
<1> QED BY <1>1, <1>2, <1>3, <1>4, ReadUntorn, StreamSteps

-----------------------------------------------------------------------------
(* Where the pieces of c are, and how many.                                *)
Marked(w, c) == {i \in 1..Len(w) : w[i] = c}

(* The pieces of one coroutine on the wire are finitely many.              *)
LEMMA MarkedFinite ==
    ASSUME NEW w \in Seq(Coroutines), NEW d
    PROVE  IsFiniteSet(Marked(w, d)) /\ Cardinality(Marked(w, d)) \in Nat
<1>1. Len(w) \in Nat /\ IsFiniteSet(1..Len(w))
  BY LenProperties, FS_Interval
<1>2. Marked(w, d) \in SUBSET (1..Len(w))
  BY DEF Marked
<1>3. IsFiniteSet(Marked(w, d))
  BY <1>1, <1>2, FS_Subset
<1> QED BY <1>3, FS_CardinalityType

(* Pieces written behind the others add to the count of their writer only. *)
LEMMA MarkedBehind ==
    ASSUME NEW w \in Seq(Coroutines), NEW c \in Coroutines, NEW n \in Nat, NEW d
    PROVE  Cardinality(Marked(w \o [i \in 1..n |-> c], d)) =
              Cardinality(Marked(w, d)) + (IF d = c THEN n ELSE 0)
<1> DEFINE v == w \o [i \in 1..n |-> c]
<1>1. /\ Len(w) \in Nat /\ Len(v) = Len(w) + n /\ \A i \in 1..Len(w) : v[i] = w[i]
      /\ \A i \in (Len(w) + 1)..(Len(w) + n) : v[i] = c
  BY Pieced
<1> HIDE DEF v
<1>2. \A i : i \in 1..Len(v) <=> (i \in 1..Len(w) \/ i \in (Len(w) + 1)..(Len(w) + n))
  BY <1>1
<1>3. CASE d = c
  <2> DEFINE new == (Len(w) + 1)..(Len(w) + n)
  <2>1. Marked(v, d) = Marked(w, d) \cup new
    BY <1>1, <1>2, <1>3 DEF Marked
  <2>2. Marked(w, d) \cap new = {}
    BY <1>1 DEF Marked
  <2>3. IsFiniteSet(new) /\ Cardinality(new) = n
    BY <1>1, FS_Interval
  <2> HIDE DEF new
  <2>4. Cardinality(Marked(w, d) \cup new) = Cardinality(Marked(w, d)) + Cardinality(new) - Cardinality({})
    BY <2>2, <2>3, MarkedFinite, FS_Union
  <2>5. Cardinality({}) = 0 /\ Cardinality(Marked(w, d)) \in Nat
    BY FS_EmptySet, MarkedFinite
  <2>6. Cardinality(Marked(v, d)) = Cardinality(Marked(w, d)) + n
    BY <2>1, <2>3, <2>4, <2>5
  <2> QED BY <1>3, <2>6 DEF v
<1>4. CASE d # c
  <2>1. Marked(v, d) = Marked(w, d)
    BY <1>1, <1>2, <1>4 DEF Marked
  <2> QED BY <1>4, <2>1, MarkedFinite DEF v
<1> QED BY <1>3, <1>4

(* The piece the broker takes first is one less of its writer.             *)
LEMMA MarkedTail ==
    ASSUME NEW w \in Seq(Coroutines), w # <<>>, NEW d
    PROVE  Cardinality(Marked(Tail(w), d)) = Cardinality(Marked(w, d)) - (IF w[1] = d THEN 1 ELSE 0)
<1>1. /\ Tail(w) \in Seq(Coroutines) /\ Len(Tail(w)) = Len(w) - 1 /\ Len(w) \in Nat \ {0}
      /\ \A i \in 1..(Len(w) - 1) : Tail(w)[i] = w[i + 1]
  BY HeadTailProperties, LenProperties, EmptySeq
<1> DEFINE S == Marked(Tail(w), d)
           T == Marked(w, d) \ {1}
           f == [i \in S |-> i + 1]
<1>2. /\ \A i \in S : i \in Nat /\ i + 1 \in T
      /\ \A j \in T : j - 1 \in S /\ (j - 1) + 1 = j /\ j \in Nat
  BY <1>1 DEF Marked
<1> HIDE DEF S, T
<1>3. f \in [S -> T] /\ \A i \in S : f[i] = i + 1
  BY <1>2
<1> HIDE DEF f
<1>4. f \in Injection(S, T)
  BY <1>2, <1>3 DEF Injection, IsInjective
<1>5. f \in Surjection(S, T)
  BY <1>2, <1>3 DEF Surjection
<1>6. ExistsBijection(S, T)
  BY <1>4, <1>5 DEF ExistsBijection, Bijection
<1>7. Cardinality(T) = Cardinality(S)
  BY <1>1, <1>6, MarkedFinite, FS_Bijection DEF S
<1>8. Cardinality(T) = IF 1 \in Marked(w, d) THEN Cardinality(Marked(w, d)) - 1
                                              ELSE Cardinality(Marked(w, d))
  BY MarkedFinite, FS_RemoveElement DEF T
<1>9. 1 \in Marked(w, d) <=> w[1] = d
  BY <1>1 DEF Marked
<1> QED BY <1>7, <1>8, <1>9, MarkedFinite DEF S

(* The pieces that publish calls which returned true, and the call that    *)
(* has not returned yet, have written.                                     *)
Pending(p) == CASE pc[p] = "wrote" -> 3 [] pc[p] = "write" -> 3 - left[p] [] OTHER -> 0
Written ==
    /\ oks \in [Publishers -> Nat] /\ full \in [Publishers -> Nat]
    /\ peer # "closed" => \A p \in Publishers : 3 * oks[p] + Pending(p) <= Pieces(p)

(* All frames of publishers have three pieces.                             *)
LEMMA PiecesOf ==
    ASSUME NEW p \in Publishers
    PROVE  Pieces(p) = 3 * full[p] + (IF part = p THEN begun ELSE 0) + Cardinality(Marked(wire, p))
BY Sizes DEF Pieces, Marked

LEMMA InitWritten == ASSUME Init PROVE Written
<1>1. wire \in Seq(Coroutines)
  BY EmptySeq DEF Init
<1>2. \A p \in Publishers : Pieces(p) >= 0 /\ oks[p] = 0 /\ Pending(p) = 0
  <2> SUFFICES ASSUME NEW p \in Publishers PROVE Pieces(p) >= 0 /\ oks[p] = 0 /\ Pending(p) = 0
    OBVIOUS
  <2>1. Cardinality(Marked(wire, p)) \in Nat
    BY <1>1, MarkedFinite
  <2>2. full[p] = 0 /\ part # p /\ oks[p] = 0 /\ pc[p] \notin {"wrote", "write"}
    BY SandcAssumption DEF Init, Coroutines
  <2>3. Pending(p) = 0
    BY <2>2 DEF Pending
  <2> QED BY <2>1, <2>2, <2>3, PiecesOf
<1> QED BY <1>2 DEF Init, Written

(* The pieces that a writer puts behind are those its call has written.    *)
LEMMA WroteWritten ==
    ASSUME IInv, Framing, Written, NEW c \in Coroutines, NEW from \in 1..Size(c), NEW n \in Nat,
           Wrote(c, from, n), UNCHANGED <<taken, oks>>, peer # "closed",
           IF pc[c] = "write" THEN from = left[c] ELSE from = Size(c) /\ pc[c] # "wrote"
    PROVE  Written'
<1>1. /\ wire \in Seq(Coroutines) /\ DOMAIN pc = Coroutines /\ left \in [Coroutines -> 0..3]
      /\ UNCHANGED <<peer, part, begun, full, oks>> /\ n \in 0..from /\ from \in 1..3
  <2>1. UNCHANGED <<peer, part, begun, full, oks>>
    BY DEF taken
  <2>2. Size(c) \in 1..3
    BY Sizes
  <2> QED BY <2>1, <2>2 DEF Framing, IInv, Wrote
<1>2. ASSUME NEW p \in Publishers
      PROVE  3 * oks'[p] + Pending(p)' <= Pieces(p)'
  <2>1. p \in Coroutines /\ Size(p) = 3
    BY Sizes DEF Coroutines
  <2>2. Cardinality(Marked(wire, p))' = Cardinality(Marked(wire, p)) + (IF p = c THEN n ELSE 0)
    BY <1>1, MarkedBehind DEF Wrote
  <2>3. Pieces(p)' = Pieces(p) + (IF p = c THEN n ELSE 0)
    <3>1. Pieces(p)' = 3 * full'[p] + (IF part' = p THEN begun' ELSE 0) + Cardinality(Marked(wire, p))'
      BY Sizes DEF Pieces, Marked
    <3>2. full[p] \in Nat /\ begun \in Nat /\ Cardinality(Marked(wire, p)) \in Nat
      BY <1>1, MarkedFinite DEF Written, Framing
    <3> QED BY <1>1, <2>2, <3>1, <3>2, PiecesOf
  <2>4. Pending(p)' = Pending(p) + (IF p = c THEN n ELSE 0) /\ Pending(p) \in 0..3
    <3>1. CASE p # c
      <4>1. pc'[p] = pc[p] /\ left'[p] = left[p] /\ left[p] \in 0..3
        BY <1>1, <2>1, <3>1 DEF Wrote, At
      <4> QED BY <3>1, <4>1 DEF Pending
    <3>2. CASE p = c
      <4>1. left'[p] = from - n /\ pc'[p] = IF n = from THEN "wrote" ELSE "write"
        BY <1>1, <3>2 DEF Wrote, At
      <4>2. Pending(p)' = IF n = from THEN 3 ELSE 3 - (from - n)
        BY <4>1 DEF Pending
      <4>3. Pending(p) = 3 - from
        BY <1>1, <2>1, <3>2 DEF Pending
      <4> QED BY <1>1, <3>2, <4>2, <4>3
    <3> QED BY <3>1, <3>2
  <2>5. oks[p] \in Nat /\ 3 * oks[p] + Pending(p) <= Pieces(p) /\ Pieces(p) \in Nat
    <3>1. full[p] \in Nat /\ begun \in Nat /\ Cardinality(Marked(wire, p)) \in Nat
      BY <1>1, MarkedFinite DEF Written, Framing
    <3> QED BY <3>1, PiecesOf DEF Written
  <2> QED BY <1>1, <2>3, <2>4, <2>5
<1> QED BY <1>1, <1>2 DEF Written

(* The pieces that the broker takes from the stream it has in its buffer   *)
(* or in a whole frame, as long as it does not close.                      *)
LEMMA ReadWritten ==
    ASSUME IInv, Framing, Written, BrokerReads PROVE Written'
<1>1. /\ peer = "up" /\ wire # <<>> /\ wire \in Seq(Coroutines) /\ UNCHANGED <<pc, left, oks>>
  BY DEF BrokerReads, Framing
<1>2. Head(wire) = wire[1] /\ wire[1] \in Coroutines /\ full' \in [Publishers -> Nat]
  <2>1. Head(wire) = wire[1] /\ Head(wire) \in Coroutines
    BY <1>1, HeadTailProperties
  <2> QED BY <2>1 DEF BrokerReads, Written
<1>3. ASSUME peer' # "closed", NEW p \in Publishers
      PROVE  3 * oks'[p] + Pending(p)' <= Pieces(p)'
  <2> DEFINE c == wire[1]
             whole == begun + 1 = Size(c)
  <2>1. /\ part \in {Nobody, c} /\ wire' = Tail(wire)
        /\ part' = (IF whole THEN Nobody ELSE c) /\ begun' = (IF whole THEN 0 ELSE begun + 1)
        /\ full' = IF whole /\ c \in Publishers THEN [full EXCEPT ![c] = @ + 1] ELSE full
    BY <1>2, <1>3 DEF BrokerReads
  <2>2. p \in Coroutines /\ Size(p) = 3 /\ p # Nobody /\ c # Nobody
    BY <1>2, Sizes, SandcAssumption DEF Coroutines
  <2>3. Cardinality(Marked(wire, p))' = Cardinality(Marked(wire, p)) - (IF c = p THEN 1 ELSE 0)
    BY <1>1, <2>1, MarkedTail
  <2>4. /\ full[p] \in Nat /\ begun \in Nat /\ Cardinality(Marked(wire, p)) \in Nat /\ oks[p] \in Nat
        /\ full \in [Publishers -> Nat] /\ (part = Nobody => begun = 0)
    BY <1>1, MarkedFinite DEF Written, Framing
  <2>5. Pieces(p)' = 3 * full'[p] + (IF part' = p THEN begun' ELSE 0) + Cardinality(Marked(wire, p))'
    BY Sizes DEF Pieces, Marked
  <2> HIDE DEF c
  <2>6. Pieces(p)' = Pieces(p)
    <3>1. CASE c = p /\ whole
      <4>1. full'[p] = full[p] + 1 /\ begun = 2 /\ part' = Nobody /\ part = p
        BY <2>1, <2>2, <2>4, <3>1
      <4> QED BY <2>2, <2>3, <2>4, <2>5, <3>1, <4>1, PiecesOf
    <3>2. CASE c = p /\ ~whole
      <4>1. full' = full /\ part' = p /\ begun' = begun + 1 /\ (part = p \/ begun = 0)
        BY <2>1, <2>2, <2>4, <3>2
      <4> QED BY <2>2, <2>3, <2>4, <2>5, <3>2, <4>1, PiecesOf
    <3>3. CASE c # p
      <4>1. full'[p] = full[p] /\ part' # p /\ part # p
        BY <2>1, <2>2, <2>4, <3>3
      <4> QED BY <2>3, <2>4, <2>5, <3>3, <4>1, PiecesOf
    <3> QED BY <3>1, <3>2, <3>3
  <2>7. Pending(p)' = Pending(p)
    BY <1>1 DEF Pending
  <2> QED BY <1>1, <2>6, <2>7 DEF Written
<1> QED BY <1>1, <1>2, <1>3 DEF Written

(* No step lets publish return true for a frame of which pieces are        *)
(* missing.                                                                *)
LEMMA WrittenPreserved == ASSUME IInv, Framing, Written, [Next]_vars PROVE Written'
<1>0. wire \in Seq(Coroutines)
  BY DEF Framing
<1>1. CASE Quiet
  <2>1. UNCHANGED <<left, wire, peer, part, begun, full>> /\ oks' \in [Publishers -> Nat]
    BY <1>1 DEF Quiet, taken, Written
  <2>2. ASSUME peer # "closed", NEW p \in Publishers
        PROVE  3 * oks'[p] + Pending(p)' <= Pieces(p)'
    <3>1. /\ full[p] \in Nat /\ begun \in Nat /\ Cardinality(Marked(wire, p)) \in Nat
          /\ oks[p] \in Nat /\ p \in Coroutines /\ left[p] \in 0..3
      BY <1>0, MarkedFinite DEF Written, Framing, Coroutines
    <3>2. Pieces(p)' = Pieces(p)
      BY <2>1 DEF Pieces
    <3>3. 3 * oks[p] + Pending(p) <= Pieces(p) /\ Pieces(p) \in Nat
      BY <2>2, <3>1, PiecesOf DEF Written
    <3>4. pc'[p] = "write" <=> pc[p] = "write"
      BY <1>1, <3>1 DEF Quiet
    <3>5. CASE oks'[p] = oks[p] /\ (pc'[p] = "wrote" => pc[p] = "wrote")
      <4>1. Pending(p)' <= Pending(p) /\ Pending(p)' \in 0..3 /\ Pending(p) \in 0..3
        BY <2>1, <3>1, <3>4, <3>5 DEF Pending
      <4> QED BY <3>1, <3>2, <3>3, <3>5, <4>1
    <3>6. CASE oks'[p] = oks[p] + 1 /\ pc[p] = "wrote" /\ pc'[p] = "idle"
      <4>1. Pending(p)' = 0 /\ Pending(p) = 3
        BY <3>6 DEF Pending
      <4> QED BY <3>1, <3>2, <3>3, <3>6, <4>1
    <3> QED BY <1>1, <3>5, <3>6 DEF Quiet
  <2> QED BY <2>1, <2>2 DEF Written
<1>2. CASE Opens
  <2>1. /\ UNCHANGED <<left, peer, part, begun, full, oks>> /\ User \in Coroutines
        /\ wire' = wire \o [i \in 1..2 |-> User]
    BY <1>2, Sizes DEF Opens, taken, Coroutines
  <2>2. ASSUME peer # "closed", NEW p \in Publishers
        PROVE  3 * oks'[p] + Pending(p)' <= Pieces(p)'
    <3>1. p # User /\ p \in Coroutines
      BY SandcAssumption DEF Coroutines
    <3>2. Cardinality(Marked(wire', p)) = Cardinality(Marked(wire, p))
      <4>1. Cardinality(Marked(wire \o [i \in 1..2 |-> User], p)) =
                Cardinality(Marked(wire, p)) + (IF p = User THEN 2 ELSE 0)
        <5>1. wire \in Seq(Coroutines) /\ User \in Coroutines /\ 2 \in Nat
          BY <1>0, <2>1
        <5>2. \A n \in Nat : Cardinality(Marked(wire \o [i \in 1..n |-> User], p)) =
                  Cardinality(Marked(wire, p)) + (IF p = User THEN n ELSE 0)
          BY <5>1, MarkedBehind
        <5> QED BY <5>1, <5>2
      <4>2. Cardinality(Marked(wire, p)) \in Nat
        BY <1>0, MarkedFinite
      <4> QED BY <2>1, <3>1, <4>1, <4>2
    <3>3. Pieces(p)' = 3 * full'[p] + (IF part' = p THEN begun' ELSE 0) + Cardinality(Marked(wire', p))
      BY Sizes DEF Pieces, Marked
    <3>4. Cardinality(Marked(wire, p)) \in Nat
      BY <1>0, MarkedFinite
    <3>5. Pieces(p)' = Pieces(p)
      BY <2>1, <3>2, <3>3, <3>4, PiecesOf
    <3>6. Pending(p)' = 0 /\ Pending(p) = 0
      BY <1>2, <3>1 DEF Opens, Pending
    <3> QED BY <2>1, <2>2, <3>5, <3>6 DEF Written
  <2> QED BY <2>1, <2>2 DEF Written
<1>3. ASSUME NEW c \in Coroutines, Starts(c) \/ OnWrite(c) PROVE Written'
  <2>1. Size(c) \in 1..3 /\ UNCHANGED <<taken, oks>>
    BY <1>3, Sizes DEF Starts, OnWrite, taken, broker
  <2>2. CASE peer = "closed"
    BY <2>1, <2>2 DEF Written, taken
  <2>3. CASE peer # "closed" /\ Starts(c)
    <3>1. PICK n \in Nat : Wrote(c, Size(c), n)
      BY <2>3, StartsWrites
    <3>2. pc[c] # "write" /\ pc[c] # "wrote"
      BY <2>3 DEF Starts
    <3> QED BY <2>1, <2>3, <3>1, <3>2, WroteWritten
  <2>4. CASE peer # "closed" /\ OnWrite(c)
    <3>1. PICK n \in Nat \ {0} : Wrote(c, left[c], n)
      BY <2>4, OnWriteWrites
    <3>2. pc[c] = "write" /\ left[c] \in 1..Size(c)
      BY <2>4 DEF OnWrite, Framing
    <3> QED BY <2>1, <2>4, <3>1, <3>2, WroteWritten
  <2> QED BY <1>3, <2>2, <2>3, <2>4
<1>4. CASE BrokerFails
  <2>1. /\ UNCHANGED <<pc, left, oks, part, begun, full>>
        /\ peer' # "closed" => wire' = wire /\ peer # "closed"
    BY <1>4 DEF BrokerFails
  <2>2. CASE peer' = "closed"
    BY <2>1, <2>2 DEF Written
  <2>3. CASE peer' # "closed"
    BY <2>1, <2>3 DEF Written, Pieces, Pending
  <2> QED BY <2>2, <2>3
<1> QED BY <1>1, <1>2, <1>3, <1>4, ReadWritten, StreamSteps

-----------------------------------------------------------------------------
(* Both invariants, on that of SandcProofs. *)
LEMMA FramesInvariance == Spec => [](Untorn /\ Written)
<1>1. Init => Inv /\ Untorn /\ Written
  BY InitIInv, InitReading, InitFraming, InitClock, InitPlaces, InitUntorn, InitWritten DEF Inv, Init
<1>2. (Inv /\ Untorn /\ Written) /\ [Next]_vars => (Inv /\ Untorn /\ Written)'
  BY Preserved, ReadingPreserved, FramingPreserved, ClockPreserved, PlacesPreserved,
     SlowPreserved, UntornPreserved, WrittenPreserved DEF Inv
<1> QED BY <1>1, <1>2, PTL DEF Spec

(* A frame is torn only by a coroutine that writes while another is        *)
(* blocked in the middle of its frame, for any number of coroutines and    *)
(* any send buffer (thread->nwrite, se_core.c:374-399).                    *)
THEOREM TornOnlyByOvertaking == Spec => []TornOnlyWhenOvertaken
<1>1. Untorn => TornOnlyWhenOvertaken
  BY DEF Untorn, TornOnlyWhenOvertaken
<1> QED BY FramesInvariance, <1>1, PTL

(* publish returns true only for frames that are written to their ends, as *)
(* long as the broker takes what is written (sandc.lua:56-61).             *)
THEOREM TrueOnlyIfWritten == Spec => []TrueMeansWritten
<1>1. Inv /\ Written => TrueMeansWritten
  <2> SUFFICES ASSUME Inv, Written, peer # "closed", NEW p \in Publishers
               PROVE  Size(p) * oks[p] <= Pieces(p)
    BY DEF TrueMeansWritten
  <2>1. wire \in Seq(Coroutines) /\ begun \in Nat /\ left[p] \in 0..3
    BY DEF Inv, Framing, Coroutines
  <2>2. /\ Size(p) = 3 /\ oks[p] \in Nat /\ full[p] \in Nat
        /\ Cardinality(Marked(wire, p)) \in Nat /\ Pending(p) \in 0..3
    BY <2>1, Sizes, MarkedFinite DEF Written, Pending
  <2>3. Pieces(p) \in Nat
    BY <2>1, <2>2, PiecesOf
  <2> QED BY <2>2, <2>3 DEF Written
<1> QED BY Invariance, FramesInvariance, <1>1, PTL
=============================================================================
