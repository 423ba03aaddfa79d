-------------------------- MODULE CfgClientProofs ---------------------------
(***************************************************************************)
(* Proofs about module CfgClient: for any number of requests, restarts,    *)
(* lost and delayed messages, an answer is taken for the request it        *)
(* answers, requests are sent once and in order, and in its first start    *)
(* cfgmgr never believes in an upload that the controller has not got.     *)
(***************************************************************************)
EXTENDS CfgClient, TLAPS, SequenceTheorems

(* A message of an earlier start says nothing; one of this start has a     *)
(* number that was given out, and if its answer is waited for it is of the *)
(* kind that upload() is asking for.                                       *)
Sound(m) ==
    /\ m.inc <= inc
    /\ m.inc = inc => m.seq < seq /\ (wait # None /\ m.seq = wait => m.kind = reg)

AllSound ==
    /\ \A i \in 1..Len(cache) : cache[i].inc = inc /\ Sound(cache[i])
    /\ \A i \in 1..Len(net) : Sound(net[i])
    /\ \A i \in 1..Len(back) : Sound(back[i])
    /\ \A s \in Seqs : resp[s] # None => resp[s].seq = s /\ Sound(resp[s])

(* upload() waits only for answers to what it still asks for. *)
Asking == wait # None => reg \in Kinds

(* In the first start every answer is to a request of this start.          *)
FirstUpload ==
    inc = 0 =>
        /\ \A i \in 1..Len(back) : back[i].kind = "upload" /\ back[i].pld = 1 => acReceived
        /\ \A s \in Seqs : resp[s] # None /\ resp[s].kind = "upload" /\ resp[s].pld = 1
                              => acReceived
        /\ reg = "uploaded" => acReceived

IInv == TypeOK /\ AllSound /\ Asking /\ SentInOrder /\ FirstUpload

-----------------------------------------------------------------------------
(* What taking out the element at i leaves: those before it and those      *)
(* after it, which move up by one.                                         *)
LEMMA RemoveAtProperties ==
    ASSUME NEW S, NEW s \in Seq(S), NEW i \in 1..Len(s)
    PROVE  /\ RemoveAt(s, i) \in Seq(S)
           /\ Len(RemoveAt(s, i)) = Len(s) - 1
           /\ \A j \in 1..(Len(s) - 1) :
                 RemoveAt(s, i)[j] = IF j < i THEN s[j] ELSE s[j + 1]
<1>1. Len(s) \in Nat /\ i \in Nat /\ \A j \in 1..Len(s) : s[j] \in S
  BY LenProperties
<1> DEFINE front == SubSeq(s, 1, i - 1)
           rear == SubSeq(s, i + 1, Len(s))
<1>2. front \in Seq(S) /\ Len(front) = i - 1 /\ \A j \in 1..(i - 1) : front[j] = s[j]
  <2>1. \A j \in 1..(i - 1) : s[j] \in S
    BY <1>1
  <2>2. /\ front \in Seq(S)
        /\ Len(front) = IF 1 <= i - 1 THEN (i - 1) - 1 + 1 ELSE 0
        /\ \A j \in 1..((i - 1) - 1 + 1) : front[j] = s[1 + j - 1]
    BY <1>1, <2>1, SubSeqProperties
  <2> QED BY <1>1, <2>2
<1>3. /\ rear \in Seq(S) /\ Len(rear) = Len(s) - i
      /\ \A j \in 1..(Len(s) - i) : rear[j] = s[i + j]
  <2>1. \A j \in (i + 1)..Len(s) : s[j] \in S
    BY <1>1
  <2>2. /\ rear \in Seq(S)
        /\ Len(rear) = IF i + 1 <= Len(s) THEN Len(s) - (i + 1) + 1 ELSE 0
        /\ \A j \in 1..(Len(s) - (i + 1) + 1) : rear[j] = s[i + 1 + j - 1]
    BY <1>1, <2>1, SubSeqProperties
  <2> QED BY <1>1, <2>2
<1>4. /\ front \o rear \in Seq(S)
      /\ Len(front \o rear) = (i - 1) + (Len(s) - i)
      /\ \A j \in 1..((i - 1) + (Len(s) - i)) :
            (front \o rear)[j] = IF j <= i - 1 THEN front[j] ELSE rear[j - (i - 1)]
  BY <1>2, <1>3, ConcatProperties
<1>5. RemoveAt(s, i) = front \o rear
  BY DEF RemoveAt
<1> HIDE DEF front, rear
<1>6. ASSUME NEW j \in 1..(Len(s) - 1)
      PROVE  (front \o rear)[j] = IF j < i THEN s[j] ELSE s[j + 1]
  <2>0. j \in 1..((i - 1) + (Len(s) - i)) /\ (j <= i - 1 <=> j < i)
    BY <1>1
  <2>1. CASE j < i
    <3>1. j \in 1..(i - 1)
      BY <1>1, <2>1
    <3> QED BY <1>2, <1>4, <2>0, <2>1, <3>1
  <2>2. CASE ~(j < i)
    <3>1. j - (i - 1) \in 1..(Len(s) - i) /\ i + (j - (i - 1)) = j + 1
      BY <1>1, <2>2
    <3>2. (front \o rear)[j] = rear[j - (i - 1)]
      BY <1>4, <2>0, <2>2
    <3> QED BY <1>3, <2>2, <3>1, <3>2
  <2> QED BY <2>1, <2>2
<1> QED BY <1>1, <1>4, <1>5, <1>6

(* Every element that is left was there.                                   *)
LEMMA RemoveAtKeeps ==
    ASSUME NEW S, NEW s \in Seq(S), NEW i \in 1..Len(s)
    PROVE  /\ RemoveAt(s, i) \in Seq(S)
           /\ \A j \in 1..Len(RemoveAt(s, i)) : \E k \in 1..Len(s) : RemoveAt(s, i)[j] = s[k]
<1> DEFINE t == RemoveAt(s, i)
<1>0. Len(s) \in Nat /\ i \in Nat
  BY LenProperties
<1>1. /\ t \in Seq(S) /\ Len(t) = Len(s) - 1
      /\ \A j \in 1..(Len(s) - 1) : t[j] = IF j < i THEN s[j] ELSE s[j + 1]
  BY RemoveAtProperties, Zenon
<1> HIDE DEF t
<1>2. ASSUME NEW j \in 1..Len(t) PROVE \E k \in 1..Len(s) : t[j] = s[k]
  <2>1. j \in 1..Len(s) /\ j + 1 \in 1..Len(s)
    BY <1>0, <1>1
  <2> QED BY <1>0, <1>1, <2>1
<1> QED BY <1>1, <1>2 DEF t

(* A message appended to a sequence. *)
LEMMA AppendKeeps ==
    ASSUME NEW S, NEW s \in Seq(S), NEW e \in S
    PROVE  /\ Append(s, e) \in Seq(S)
           /\ Len(Append(s, e)) = Len(s) + 1 /\ Len(s) \in Nat
           /\ \A j \in 1..Len(s) : Append(s, e)[j] = s[j]
           /\ Append(s, e)[Len(s) + 1] = e
BY AppendProperties, LenProperties

(* The numbers in messages are numbers. *)
LEMMA Numbers ==
    ASSUME TypeOK
    PROVE  /\ inc \in Nat /\ seq \in Nat
           /\ Len(cache) \in Nat /\ Len(net) \in Nat /\ Len(back) \in Nat
           /\ \A i \in 1..Len(cache) : cache[i] \in Requests
           /\ \A i \in 1..Len(net) : net[i] \in Requests
           /\ \A i \in 1..Len(back) : back[i] \in Answers
           /\ \A m \in Requests \cup Answers : m.inc \in Nat /\ m.seq \in Nat /\ m.seq \in Seqs
<1> USE ClientAssumption
<1>1. \A m \in Requests \cup Answers : m.inc \in Nat /\ m.seq \in Nat /\ m.seq \in Seqs
  BY DEF Requests, Answers, Seqs
<1>2. /\ Len(cache) \in Nat /\ \A i \in 1..Len(cache) : cache[i] \in Requests
      /\ Len(net) \in Nat /\ \A i \in 1..Len(net) : net[i] \in Requests
      /\ Len(back) \in Nat /\ \A i \in 1..Len(back) : back[i] \in Answers
  BY LenProperties, ElementOfSeq DEF TypeOK
<1> QED BY <1>1, <1>2 DEF TypeOK

-----------------------------------------------------------------------------
(* Initially nothing is on its way and nothing is waited for. *)
LEMMA InitIInv ==
    ASSUME Init PROVE IInv
<1> USE ClientAssumption
<1>1. /\ Len(cache) = 0 /\ Len(net) = 0 /\ Len(back) = 0
      /\ cache \in Seq(Requests) /\ net \in Seq(Requests) /\ back \in Seq(Answers)
  BY EmptySeq DEF Init
<1>2. TypeOK
  <2>1. /\ inc \in 0..MaxRestarts /\ seq \in 0..MaxSeq /\ lost \in 0..MaxLost
        /\ resp \in [Seqs -> Answers \cup {None}]
    BY DEF Init
  <2>2. acKnows \in BOOLEAN /\ acReceived \in BOOLEAN /\ pub \in BOOLEAN /\ status \in BOOLEAN
    BY Zenon DEF Init
  <2> QED BY <1>1, <2>1, <2>2 DEF Init, TypeOK, Kinds
<1>3. AllSound /\ FirstUpload
  BY <1>1 DEF Init, AllSound, FirstUpload
<1>4. Asking /\ SentInOrder
  BY <1>1 DEF Init, Asking, SentInOrder, Unsent
<1> QED BY <1>2, <1>3, <1>4 DEF IInv

(* A request gets a number greater than that of every message of this      *)
(* start, so none of them can be taken for it.                             *)
LEMMA RequestStep ==
    ASSUME IInv, Request PROVE IInv'
<1> USE ClientAssumption
<1> DEFINE new == [inc |-> inc, seq |-> seq, kind |-> reg]
<1>1. TypeOK /\ AllSound /\ Asking /\ SentInOrder /\ FirstUpload
  BY DEF IInv
<1>2. new \in Requests /\ seq \in Seqs /\ new.inc = inc /\ new.seq = seq /\ new.kind = reg
  BY <1>1 DEF Request, TypeOK, Requests, Seqs
<1>3. /\ cache' \in Seq(Requests)
      /\ Len(cache') = Len(cache) + 1 /\ Len(cache) \in Nat
      /\ \A j \in 1..Len(cache) : cache'[j] = cache[j]
      /\ cache'[Len(cache) + 1] = new
  BY <1>1, <1>2, AppendKeeps DEF Request, TypeOK
<1> HIDE DEF new
<1>4. TypeOK'
  <2>1. cache' # <<>>
    BY <1>3, EmptySeq
  <2> QED BY <1>1, <1>2, <1>3, <2>1 DEF Request, TypeOK
<1>5. ASSUME NEW m \in Requests \cup Answers, Sound(m)
      PROVE  Sound(m)'
  BY <1>1, <1>5, Numbers DEF Sound, Request
<1>6. AllSound'
  <2>1. ASSUME NEW i \in 1..Len(cache')
        PROVE  cache'[i].inc = inc' /\ Sound(cache[i])'
    <3>1. CASE i \in 1..Len(cache)
      BY <1>1, <1>3, <1>5, <3>1, Numbers DEF AllSound, Request, Sound
    <3>2. CASE i = Len(cache) + 1
      BY <1>1, <1>2, <1>3, <3>2, Numbers DEF Request, Sound
    <3> QED BY <1>3, <3>1, <3>2
  <2>2. /\ \A i \in 1..Len(net) : Sound(net[i])'
        /\ \A i \in 1..Len(back) : Sound(back[i])'
    BY <1>1, <1>5, Numbers DEF AllSound, Request, Sound
  <2>3. ASSUME NEW s \in Seqs, resp[s] # None
        PROVE  resp[s].seq = s /\ Sound(resp[s])'
    <3>1. resp[s] \in Answers
      BY <1>1, <2>3 DEF TypeOK
    <3> QED BY <1>1, <1>5, <2>3, <3>1 DEF AllSound, Request, Sound
  <2> QED BY <2>1, <2>2, <2>3 DEF AllSound, Request, Sound
<1>7. Asking'
  BY DEF Asking, Request
<1>8. SentInOrder'
  <2>1. \A i \in 1..Len(cache) : cache[i].inc = inc /\ cache[i].seq < seq
    BY <1>1 DEF AllSound, Sound
  <2>2. \A i \in 1..Len(net) : net[i].inc = inc => net[i].seq < seq
    BY <1>1 DEF AllSound, Sound
  <2>3. \A j \in Unsent' : j \in Unsent \/ j = Len(cache) + 1
    BY <1>3 DEF Unsent, Request
  <2>4. Unsent \subseteq 1..Len(cache)
    BY <1>3 DEF Unsent
  <2>5. \A i \in 1..Len(net), j \in Unsent' : Before(net[i], cache'[j])
    BY <1>1, <1>2, <1>3, <2>2, <2>3, <2>4 DEF SentInOrder, Before
  <2>6. ASSUME NEW i \in Unsent', NEW j \in Unsent', i < j
        PROVE  Before(cache'[i], cache'[j])
    <3>1. i \in Unsent /\ i \in 1..Len(cache)
      BY <1>3, <2>3, <2>4, <2>6 DEF Unsent, Request
    <3>2. CASE j \in Unsent
      BY <1>1, <1>3, <2>4, <2>6, <3>1, <3>2 DEF SentInOrder
    <3>3. CASE j = Len(cache) + 1
      BY <1>2, <1>3, <2>1, <3>1, <3>3 DEF Before
    <3> QED BY <2>3, <3>2, <3>3
  <2>7. net' = net /\ inc' = inc
    BY DEF Request
  <2> QED BY <1>1, <2>5, <2>6, <2>7 DEF SentInOrder, Before
<1>9. FirstUpload'
  BY <1>1 DEF FirstUpload, Request
<1> QED BY <1>4, <1>6, <1>7, <1>8, <1>9 DEF IInv

(* Before is about inc only.                                               *)
LEMMA OrderStutters ==
    ASSUME SentInOrder, UNCHANGED <<inc, cache, pub, net>> PROVE SentInOrder'
BY DEF SentInOrder, Unsent, Before

(* Nothing is waited for any more, so nothing can be mistaken.             *)
LEMMA AnsweredStep ==
    ASSUME IInv, Answered PROVE IInv'
<1>1. TypeOK /\ AllSound /\ Asking /\ SentInOrder /\ FirstUpload
  BY DEF IInv
<1> DEFINE res == resp[wait]
<1>2. /\ wait \in Seqs /\ res \in Answers /\ reg \in Kinds
      /\ res.pld \in {0, 1} /\ res.kind \in Kinds
  BY <1>1 DEF Answered, TypeOK, Asking, Answers
<1>3. /\ resp' \in [Seqs -> Answers \cup {None}]
      /\ \A s \in Seqs : resp'[s] # None => resp'[s] = resp[s]
  BY <1>1, <1>2 DEF Answered, TypeOK
<1>4. \/ reg = "check" /\ reg' \in {"registered", "upload"}
      \/ reg = "upload" /\ res.pld = 1 /\ reg' = "uploaded"
      \/ reg = "upload" /\ reg' = "exit"
  <2>1. CASE reg = "check"
    BY <2>1 DEF Answered
  <2>2. CASE reg = "upload"
    BY <1>2, <2>2 DEF Answered
  <2> QED BY <1>2, <2>1, <2>2 DEF Kinds
<1>5. TypeOK'
  <2>1. reg' \in Kinds \cup {"registered", "uploaded", "exit"}
    BY <1>4 DEF Kinds
  <2> QED BY <1>1, <1>3, <2>1 DEF Answered, TypeOK
<1>6. AllSound'
  BY <1>1, <1>3 DEF Answered, AllSound, Sound
<1>7. Asking' /\ SentInOrder'
  BY <1>1, OrderStutters DEF Answered, Asking
<1>8. FirstUpload'
  <2>1. ASSUME inc = 0, reg' = "uploaded"
        PROVE  acReceived
    <3>1. res.kind = reg
      BY <1>1, <1>2, <2>1 DEF AllSound, Sound, Answered, Answers
    <3> QED BY <1>1, <1>2, <1>4, <2>1, <3>1 DEF FirstUpload, Answered
  <2> QED BY <1>1, <1>3, <2>1 DEF FirstUpload, Answered
<1> QED BY <1>5, <1>6, <1>7, <1>8 DEF IInv

(* The number that timed out stays in out_seq_map and is not given again.  *)
LEMMA TimeoutStep ==
    ASSUME IInv, Timeout PROVE IInv'
<1>1. TypeOK /\ AllSound /\ Asking /\ SentInOrder /\ FirstUpload
  BY DEF IInv
<1>2. TypeOK'
  BY <1>1 DEF Timeout, TypeOK
<1>3. AllSound'
  BY <1>1 DEF Timeout, AllSound, Sound
<1>4. Asking' /\ SentInOrder' /\ FirstUpload'
  BY <1>1, OrderStutters DEF Timeout, Asking, FirstUpload
<1> QED BY <1>2, <1>3, <1>4 DEF IInv

(* An answer is kept as what it is: sound before, sound after.             *)
LEMMA OnMessageStep ==
    ASSUME IInv, OnMessage PROVE IInv'
<1>1. TypeOK /\ AllSound /\ Asking /\ SentInOrder /\ FirstUpload
  BY DEF IInv
<1> DEFINE m == Head(back)
<1>2. /\ m \in Answers /\ m.seq \in Seqs /\ Sound(m)
      /\ back' \in Seq(Answers) /\ Len(back') = Len(back) - 1 /\ Len(back) \in Nat
      /\ \A i \in 1..Len(back') : back'[i] = back[i + 1] /\ i + 1 \in 1..Len(back)
      /\ m = back[1] /\ 1 \in 1..Len(back)
  <2>1. /\ back \in Seq(Answers) /\ back # <<>> /\ back' = Tail(back)
    BY <1>1 DEF OnMessage, TypeOK
  <2>2. /\ m \in Answers /\ back' \in Seq(Answers) /\ Len(back') = Len(back) - 1
        /\ \A i \in 1..Len(back') : back'[i] = back[i + 1]
    BY <2>1, HeadTailProperties
  <2>3. Len(back) \in Nat /\ Len(back) # 0 /\ m = back[1]
    BY <2>1, LenProperties, EmptySeq
  <2>4. Sound(m)
    BY <1>1, <2>3 DEF AllSound
  <2>5. m.seq \in Seqs
    BY <1>1, <2>2, Numbers
  <2> QED BY <2>1, <2>2, <2>3, <2>4, <2>5
<1>3. /\ resp' \in [Seqs -> Answers \cup {None}]
      /\ \A s \in Seqs : resp'[s] # None => resp'[s] = resp[s] \/ (s = m.seq /\ resp'[s] = m)
  <2>1. resp' = resp \/ resp' = [resp EXCEPT ![m.seq] = m]
    BY DEF OnMessage
  <2>2. resp \in [Seqs -> Answers \cup {None}]
    BY <1>1 DEF TypeOK
  <2> HIDE DEF m
  <2> QED BY <1>2, <2>1, <2>2
<1> HIDE DEF m
<1>4. TypeOK'
  BY <1>1, <1>2, <1>3 DEF OnMessage, TypeOK
<1>5. AllSound'
  BY <1>1, <1>2, <1>3 DEF OnMessage, AllSound, Sound
<1>6. Asking' /\ SentInOrder'
  BY <1>1, OrderStutters DEF OnMessage, Asking
<1>7. FirstUpload'
  BY <1>1, <1>2, <1>3 DEF OnMessage, FirstUpload
<1> QED BY <1>4, <1>5, <1>6, <1>7 DEF IInv

(* The first item of publish_cache goes out: it is no longer unsent, and   *)
(* follows what is on its way.                                             *)
LEMMA PublishStep ==
    ASSUME IInv, Publish PROVE IInv'
<1>1. TypeOK /\ AllSound /\ Asking /\ SentInOrder /\ FirstUpload
  BY DEF IInv
<1>2. /\ Len(cache) \in Nat /\ 1 \in 1..Len(cache) /\ Head(cache) = cache[1]
      /\ cache[1] \in Requests
  <2>1. cache \in Seq(Requests) /\ cache # <<>>
    BY <1>1 DEF Publish, TypeOK
  <2>2. Len(cache) \in Nat /\ Len(cache) # 0 /\ Head(cache) = cache[1]
    BY <2>1, LenProperties, EmptySeq
  <2> QED BY <1>1, <2>2, Numbers
<1>3. /\ net' \in Seq(Requests)
      /\ Len(net') = Len(net) + 1 /\ Len(net) \in Nat
      /\ \A j \in 1..Len(net) : net'[j] = net[j]
      /\ net'[Len(net) + 1] = cache[1]
  BY <1>1, <1>2, AppendKeeps DEF Publish, TypeOK
<1>4. TypeOK'
  BY <1>1, <1>3 DEF Publish, TypeOK
<1>5. AllSound'
  <2>1. ASSUME NEW i \in 1..Len(net')
        PROVE  Sound(net[i])'
    <3>1. CASE i \in 1..Len(net)
      BY <1>1, <1>3, <3>1 DEF AllSound, Sound, Publish
    <3>2. CASE i = Len(net) + 1
      BY <1>1, <1>2, <1>3, <3>2 DEF AllSound, Sound, Publish
    <3> QED BY <1>3, <3>1, <3>2
  <2> QED BY <1>1, <2>1 DEF AllSound, Sound, Publish
<1>6. Asking' /\ FirstUpload'
  BY <1>1 DEF Publish, Asking, FirstUpload
<1>7. SentInOrder'
  <2>1. /\ Unsent = 1..Len(cache) /\ Unsent' = 2..Len(cache)
        /\ cache' = cache /\ inc' = inc
    BY <1>1 DEF Publish, Unsent
  <2>2. ASSUME NEW i \in 1..Len(net'), NEW j \in 1..Len(net'), i < j
        PROVE  Before(net'[i], net'[j])
    <3>1. i \in 1..Len(net)
      BY <1>3, <2>2
    <3>2. CASE j \in 1..Len(net)
      BY <1>1, <1>3, <2>2, <3>1, <3>2 DEF SentInOrder
    <3>3. CASE j = Len(net) + 1
      BY <1>1, <1>2, <1>3, <2>1, <3>1, <3>3 DEF SentInOrder
    <3> QED BY <1>3, <3>2, <3>3
  <2>3. ASSUME NEW i \in 1..Len(net'), NEW j \in 2..Len(cache)
        PROVE  Before(net'[i], cache[j])
    <3>1. j \in Unsent /\ 1 \in Unsent /\ 1 < j
      BY <1>2, <2>1
    <3>2. CASE i \in 1..Len(net)
      BY <1>1, <1>3, <3>1, <3>2 DEF SentInOrder
    <3>3. CASE i = Len(net) + 1
      BY <1>1, <1>3, <3>1, <3>3 DEF SentInOrder
    <3> QED BY <1>3, <3>2, <3>3
  <2>4. \A i, j \in 2..Len(cache) : i < j => Before(cache[i], cache[j])
    BY <1>1, <1>2, <2>1 DEF SentInOrder
  <2> QED BY <2>1, <2>2, <2>3, <2>4 DEF SentInOrder, Before
<1> QED BY <1>4, <1>5, <1>6, <1>7 DEF IInv

(* What is removed is published already: the unsent items stay.            *)
LEMMA PublishRemoveStep ==
    ASSUME IInv, PublishRemove PROVE IInv'
<1>1. TypeOK /\ AllSound /\ Asking /\ SentInOrder /\ FirstUpload
  BY DEF IInv
<1>2. /\ Len(cache) \in Nat
      /\ cache' \in Seq(Requests) /\ Len(cache') = Len(cache) - 1
      /\ \A i \in 1..Len(cache') : cache'[i] = cache[i + 1]
  <2>1. cache \in Seq(Requests) /\ cache # <<>> /\ cache' = Tail(cache)
    BY <1>1 DEF PublishRemove, TypeOK
  <2> QED BY <2>1, HeadTailProperties, LenProperties
<1>3. TypeOK'
  BY <1>1, <1>2 DEF PublishRemove, TypeOK
<1>4. AllSound'
  BY <1>1, <1>2 DEF PublishRemove, AllSound, Sound
<1>5. Asking' /\ FirstUpload'
  BY <1>1 DEF PublishRemove, Asking, FirstUpload
<1>6. SentInOrder'
  <2>1. /\ Unsent = 2..Len(cache) /\ Unsent' = 1..(Len(cache) - 1)
        /\ net' = net /\ inc' = inc
    BY <1>2 DEF PublishRemove, Unsent
  <2>2. \A j \in 1..(Len(cache) - 1) : cache'[j] = cache[j + 1] /\ j + 1 \in Unsent
    BY <1>2, <2>1
  <2>3. \A i \in 1..Len(net), j \in 1..(Len(cache) - 1) : Before(net[i], cache'[j])
    BY <1>1, <2>2 DEF SentInOrder
  <2>4. ASSUME NEW i \in 1..(Len(cache) - 1), NEW j \in 1..(Len(cache) - 1), i < j
        PROVE  Before(cache'[i], cache'[j])
    <3>1. i + 1 < j + 1
      BY <1>2, <2>4
    <3> QED BY <1>1, <2>2, <3>1 DEF SentInOrder
  <2> QED BY <1>1, <2>1, <2>3, <2>4 DEF SentInOrder, Before
<1> QED BY <1>3, <1>4, <1>5, <1>6 DEF IInv

(* A connection comes or goes: publish_cache stays.                        *)
LEMMA ReconnectStep ==
    ASSUME IInv, Reconnect PROVE IInv'
<1>1. TypeOK /\ AllSound /\ Asking /\ SentInOrder /\ FirstUpload
  BY DEF IInv
<1>2. TypeOK'
  <2>1. status' \in BOOLEAN
    BY Zenon DEF Reconnect
  <2> QED BY <1>1, <2>1 DEF Reconnect, TypeOK
<1>3. AllSound' /\ Asking' /\ SentInOrder' /\ FirstUpload'
  BY <1>1, OrderStutters DEF Reconnect, AllSound, Sound, Asking, FirstUpload
<1> QED BY <1>2, <1>3 DEF IInv

(* Every message there is becomes one of an earlier start.                 *)
LEMMA RestartStep ==
    ASSUME IInv, Restart PROVE IInv'
<1> USE ClientAssumption
<1>1. TypeOK /\ AllSound /\ Asking /\ SentInOrder /\ FirstUpload
  BY DEF IInv
<1>2. Len(cache') = 0 /\ cache' \in Seq(Requests)
  BY EmptySeq DEF Restart
<1>3. TypeOK'
  <2>1. inc' \in 0..MaxRestarts /\ seq' \in 0..MaxSeq /\ resp' \in [Seqs -> Answers \cup {None}]
    BY <1>1 DEF Restart, TypeOK
  <2>2. pub' \in BOOLEAN /\ status' \in BOOLEAN
    BY Zenon DEF Restart
  <2> QED BY <1>1, <1>2, <2>1, <2>2 DEF Restart, TypeOK, Kinds
<1>4. \A m \in Requests \cup Answers : Sound(m) => m.inc < inc' /\ m.inc <= inc'
  BY <1>1, Numbers DEF Sound, Restart
<1>5. /\ \A i \in 1..Len(net) : net[i].inc < inc' /\ net[i].inc <= inc' /\ net[i].inc \in Nat
      /\ \A i \in 1..Len(back) : back[i].inc < inc' /\ back[i].inc <= inc' /\ back[i].inc \in Nat
  BY <1>1, <1>4, Numbers DEF AllSound
<1>6. inc' \in Nat /\ inc' # 0
  BY <1>1, Numbers DEF Restart
<1>7. AllSound' /\ Asking'
  BY <1>2, <1>5, <1>6 DEF Restart, AllSound, Sound, Asking
<1>8. SentInOrder' /\ FirstUpload'
  BY <1>2, <1>5, <1>6 DEF Restart, SentInOrder, Before, Unsent, FirstUpload
<1> QED BY <1>3, <1>7, <1>8 DEF IInv

(* Taking a message out of what is on its way keeps the order of the rest. *)
LEMMA OrderKeeps ==
    ASSUME TypeOK, SentInOrder, NEW i \in 1..Len(net), net' = RemoveAt(net, i),
           UNCHANGED <<inc, cache, pub>>
    PROVE  SentInOrder'
<1>1. net \in Seq(Requests)
  BY DEF TypeOK
<1>0. Len(net) \in Nat /\ i \in Nat
  BY <1>1, LenProperties
<1>2. /\ Len(net') = Len(net) - 1
      /\ \A j \in 1..(Len(net) - 1) : net'[j] = IF j < i THEN net[j] ELSE net[j + 1]
  BY <1>1, RemoveAtProperties, Zenon
<1> DEFINE k(j) == IF j < i THEN j ELSE j + 1
<1>3. \A j1, j2 \in 1..Len(net') : j1 < j2 => Before(net'[j1], net'[j2])
  <2>1. \A j \in 1..Len(net') : k(j) \in 1..Len(net) /\ net'[j] = net[k(j)]
    BY <1>0, <1>2
  <2>2. \A j1, j2 \in 1..Len(net') : j1 < j2 => k(j1) < k(j2)
    BY <1>0, <1>2
  <2> HIDE DEF k
  <2> QED BY <2>1, <2>2 DEF SentInOrder
<1>4. \A j1 \in 1..Len(net'), j2 \in Unsent : Before(net'[j1], cache[j2])
  <2>1. \A j \in 1..Len(RemoveAt(net, i)) : \E k1 \in 1..Len(net) :
           RemoveAt(net, i)[j] = net[k1]
    BY <1>1, RemoveAtKeeps, SMT
  <2> QED BY <2>1 DEF SentInOrder
<1>5. Unsent' = Unsent /\ cache' = cache /\ inc' = inc
  BY DEF Unsent
<1> QED BY <1>3, <1>4, <1>5 DEF SentInOrder, Before

(* The controller answers what it was asked, whenever it gets it.          *)
LEMMA AcAnswerStep ==
    ASSUME IInv, NEW i \in 1..Len(net), AcAnswer(i) PROVE IInv'
<1>1. TypeOK /\ AllSound /\ Asking /\ SentInOrder /\ FirstUpload
  BY DEF IInv
<1> DEFINE m == net[i]
<1>2. m \in Requests /\ Sound(m)
  BY <1>1, Numbers DEF AllSound
<1>3. PICK a \in Answers :
        /\ back' = Append(back, a) /\ a.inc = m.inc /\ a.seq = m.seq /\ a.kind = m.kind
        /\ \/ acReceived' = acReceived /\ acKnows' = acKnows
           \/ acReceived' = TRUE /\ acKnows' = TRUE
        /\ a.kind = "upload" /\ a.pld = 1 => acReceived'
  <2>1. m.inc \in 0..MaxRestarts /\ m.seq \in Seqs /\ m.kind \in Kinds
    BY <1>2 DEF Requests
  <2> DEFINE ans(p) == [inc |-> m.inc, seq |-> m.seq, kind |-> m.kind, pld |-> p]
  <2>2. \A p \in {0, 1} : /\ ans(p) \in Answers
                          /\ ans(p).inc = m.inc /\ ans(p).seq = m.seq
                          /\ ans(p).kind = m.kind /\ ans(p).pld = p
    BY <2>1 DEF Answers
  <2>3. \/ /\ m.kind = "check" /\ \E p \in {0, 1} : back' = Append(back, ans(p))
           /\ acReceived' = acReceived /\ acKnows' = acKnows
        \/ back' = Append(back, ans(1)) /\ acReceived' = TRUE /\ acKnows' = TRUE
        \/ back' = Append(back, ans(0)) /\ acReceived' = acReceived /\ acKnows' = acKnows
    BY DEF AcAnswer
  <2> HIDE DEF ans, m
  <2>4. "check" # "upload"
    OBVIOUS
  <2>5. CASE m.kind = "check" /\ \E p \in {0, 1} : back' = Append(back, ans(p))
             /\ acReceived' = acReceived /\ acKnows' = acKnows
    BY <2>2, <2>4, <2>5
  <2>6. CASE back' = Append(back, ans(1)) /\ acReceived' = TRUE /\ acKnows' = TRUE
    BY <2>2, <2>6
  <2>7. CASE back' = Append(back, ans(0)) /\ acReceived' = acReceived /\ acKnows' = acKnows
    BY <2>2, <2>7
  <2> QED BY <2>3, <2>5, <2>6, <2>7
<1>4. net' = RemoveAt(net, i) /\ UNCHANGED <<inc, client, lost>>
  BY DEF AcAnswer
<1>5. /\ net' \in Seq(Requests)
      /\ \A j \in 1..Len(net') : \E k \in 1..Len(net) : net'[j] = net[k]
  <2>1. net \in Seq(Requests)
    BY <1>1 DEF TypeOK
  <2>2. /\ RemoveAt(net, i) \in Seq(Requests)
        /\ \A j \in 1..Len(RemoveAt(net, i)) : \E k \in 1..Len(net) :
               RemoveAt(net, i)[j] = net[k]
    BY <2>1, RemoveAtKeeps, SMT
  <2> QED BY <1>4, <2>2
<1>6. /\ back' \in Seq(Answers)
      /\ Len(back') = Len(back) + 1 /\ Len(back) \in Nat
      /\ \A j \in 1..Len(back) : back'[j] = back[j]
      /\ back'[Len(back) + 1] = a
  BY <1>1, <1>3, AppendKeeps DEF TypeOK
<1>7. Sound(a)
  BY <1>2, <1>3 DEF Sound
<1>8. TypeOK'
  <2>1. acReceived' \in BOOLEAN /\ acKnows' \in BOOLEAN
    BY <1>1, <1>3, Zenon DEF TypeOK
  <2> QED BY <1>1, <1>4, <1>5, <1>6, <2>1 DEF TypeOK, client
<1>9. AllSound'
  <2>1. ASSUME NEW j \in 1..Len(back')
        PROVE  Sound(back[j])'
    <3>1. CASE j \in 1..Len(back)
      BY <1>1, <1>4, <1>6, <3>1 DEF AllSound, Sound, client
    <3>2. CASE j = Len(back) + 1
      BY <1>4, <1>6, <1>7, <3>2 DEF Sound, client
    <3> QED BY <1>6, <3>1, <3>2
  <2>2. \A j \in 1..Len(net') : Sound(net'[j])
    BY <1>1, <1>5 DEF AllSound
  <2> QED BY <1>1, <1>4, <2>1, <2>2 DEF AllSound, Sound, client
<1>10. Asking' /\ SentInOrder'
  BY <1>1, <1>4, OrderKeeps DEF Asking, client
<1>11. FirstUpload'
  <2>1. acReceived => acReceived'
    BY <1>3
  <2>2. ASSUME inc = 0, NEW j \in 1..Len(back'),
               back'[j].kind = "upload", back'[j].pld = 1
        PROVE  acReceived'
    <3>1. CASE j \in 1..Len(back)
      BY <1>1, <1>6, <2>1, <2>2, <3>1 DEF FirstUpload
    <3>2. CASE j = Len(back) + 1
      BY <1>3, <1>6, <2>2, <3>2
    <3> QED BY <1>6, <3>1, <3>2
  <2> QED BY <1>1, <1>4, <2>1, <2>2 DEF FirstUpload, client
<1> QED BY <1>8, <1>9, <1>10, <1>11 DEF IInv

(* A lost message leaves the others as they were.                          *)
LEMMA LoseStep ==
    ASSUME IInv, Lose PROVE IInv'
<1> USE ClientAssumption
<1>1. TypeOK /\ AllSound /\ Asking /\ SentInOrder /\ FirstUpload
  BY DEF IInv
<1>2. lost' \in 0..MaxLost /\ UNCHANGED <<inc, client, acKnows, acReceived>>
  BY <1>1 DEF Lose, TypeOK
<1>3. CASE UNCHANGED back /\ \E i \in 1..Len(net) : net' = RemoveAt(net, i)
  <2>1. PICK i \in 1..Len(net) : net' = RemoveAt(net, i)
    BY <1>3
  <2>2. /\ net' \in Seq(Requests)
        /\ \A j \in 1..Len(net') : \E k \in 1..Len(net) : net'[j] = net[k]
    <3>1. net \in Seq(Requests)
      BY <1>1 DEF TypeOK
    <3>2. /\ RemoveAt(net, i) \in Seq(Requests)
          /\ \A j \in 1..Len(RemoveAt(net, i)) : \E k \in 1..Len(net) :
                 RemoveAt(net, i)[j] = net[k]
      BY <3>1, RemoveAtKeeps, SMT
    <3> QED BY <2>1, <3>2
  <2>3. TypeOK'
    BY <1>1, <1>2, <1>3, <2>2 DEF TypeOK, client
  <2>4. \A j \in 1..Len(net') : Sound(net'[j])
    BY <1>1, <2>2 DEF AllSound
  <2>5. AllSound'
    BY <1>1, <1>2, <1>3, <2>4 DEF AllSound, Sound, client
  <2>6. Asking' /\ SentInOrder' /\ FirstUpload'
    BY <1>1, <1>2, <1>3, <2>1, OrderKeeps DEF Asking, FirstUpload, client
  <2> QED BY <2>3, <2>5, <2>6 DEF IInv
<1>4. CASE UNCHANGED net /\ \E i \in 1..Len(back) : back' = RemoveAt(back, i)
  <2>1. PICK i \in 1..Len(back) : back' = RemoveAt(back, i)
    BY <1>4
  <2>2. /\ back' \in Seq(Answers)
        /\ \A j \in 1..Len(back') : \E k \in 1..Len(back) : back'[j] = back[k]
    <3>1. back \in Seq(Answers)
      BY <1>1 DEF TypeOK
    <3>2. /\ RemoveAt(back, i) \in Seq(Answers)
          /\ \A j \in 1..Len(RemoveAt(back, i)) : \E k \in 1..Len(back) :
                 RemoveAt(back, i)[j] = back[k]
      BY <3>1, RemoveAtKeeps, SMT
    <3> QED BY <2>1, <3>2
  <2>3. TypeOK'
    BY <1>1, <1>2, <1>4, <2>2 DEF TypeOK, client
  <2>4. \A j \in 1..Len(back') : Sound(back'[j])
    BY <1>1, <2>2 DEF AllSound
  <2>5. AllSound'
    BY <1>1, <1>2, <1>4, <2>4 DEF AllSound, Sound, client
  <2>6. FirstUpload'
    BY <1>1, <1>2, <2>2 DEF FirstUpload, client
  <2>7. Asking' /\ SentInOrder'
    BY <1>1, <1>2, <1>4, OrderStutters DEF Asking, client
  <2> QED BY <2>3, <2>5, <2>6, <2>7 DEF IInv
<1> QED BY <1>3, <1>4 DEF Lose

(* What the controller knows is no part of the argument; nor is a stutter. *)
LEMMA AcChangesStep ==
    ASSUME IInv, AcChanges PROVE IInv'
<1>1. TypeOK /\ AllSound /\ Asking /\ SentInOrder /\ FirstUpload
  BY DEF IInv
<1>2. acKnows' \in BOOLEAN
  BY Zenon DEF AcChanges
<1>3. TypeOK'
  BY <1>1, <1>2 DEF AcChanges, TypeOK, client
<1>4. AllSound' /\ Asking' /\ SentInOrder' /\ FirstUpload'
  BY <1>1, OrderStutters DEF AcChanges, AllSound, Sound, Asking, FirstUpload, client
<1> QED BY <1>3, <1>4 DEF IInv

(* Nothing changes.                                                        *)
LEMMA StutterStep ==
    ASSUME IInv, UNCHANGED vars PROVE IInv'
BY DEF IInv, TypeOK, AllSound, Sound, Asking, SentInOrder, Before, Unsent, FirstUpload,
       vars, client

-----------------------------------------------------------------------------
(* The inductive invariant holds in every reachable state.                 *)
THEOREM Invariance == Spec => []IInv
<1>1. ASSUME IInv, [Next]_vars PROVE IInv'
  <2>1. CASE \E i \in 1..Len(net) : AcAnswer(i)
    BY <1>1, <2>1, AcAnswerStep
  <2>2. CASE Request \/ Answered \/ Timeout \/ OnMessage
    BY <1>1, <2>2, RequestStep, AnsweredStep, TimeoutStep, OnMessageStep
  <2>3. CASE Publish \/ PublishRemove \/ Reconnect \/ Restart
    BY <1>1, <2>3, PublishStep, PublishRemoveStep, ReconnectStep, RestartStep
  <2>4. CASE AcChanges \/ Lose \/ UNCHANGED vars
    BY <1>1, <2>4, AcChangesStep, LoseStep, StutterStep
  <2> QED BY <1>1, <2>1, <2>2, <2>3, <2>4 DEF Next
<1> QED BY InitIInv, <1>1, PTL DEF Spec

(* The state has its type: publish_cache is not empty while its first item *)
(* is published and not yet removed (baseclient.lua:28-54).                *)
THEOREM TypeCorrect == Spec => []TypeOK
BY Invariance, PTL DEF IInv

(* An answer taken for a request of this start is to that request, however *)
(* late the answers of timed out tries come (cfgclient.lua:22-43, 101-112).*)
THEOREM AnswersMatchRequests == Spec => []AnswersMatch
<1>1. IInv => AnswersMatch
  BY DEF IInv, TypeOK, AllSound, Sound, AnswersMatch
<1> QED BY Invariance, <1>1, PTL

(* Requests leave once and in their order, over any number of disconnects  *)
(* (baseclient.lua:28-54).                                                 *)
THEOREM SentOnceInOrder == Spec => []SentInOrder
BY Invariance, PTL DEF IInv

(* What apmgr.lua:40 says of upload() is true of the first start: whatever *)
(* is late or lost, if upload() returns after uploading, the controller    *)
(* has received it.  Only numbers used again by a later start break it.    *)
THEOREM FirstStartUploads == Spec => [](inc = 0 => UploadReceived)
<1>1. IInv => (inc = 0 => UploadReceived)
  BY DEF IInv, FirstUpload, UploadReceived
<1> QED BY Invariance, <1>1, PTL

-----------------------------------------------------------------------------
(* Over any number of starts, what makes cfgmgr believe in an upload that  *)
(* the controller has not got is an answer of an earlier start, taken for  *)
(* the request that has its number now.                                    *)
TakesOldAnswer == Answered /\ resp[wait].inc # inc

(* The controller says that it has an upload only when it has received one *)
Confirms(m) == m.kind = "upload" /\ m.pld = 1 => acReceived
Confirmed ==
    /\ \A i \in 1..Len(back) : Confirms(back[i])
    /\ \A s \in Seqs : resp[s] # None => Confirms(resp[s])

LEMMA NextConfirmed ==
    ASSUME IInv, Confirmed, [Next]_vars PROVE Confirmed'
<1>1. TypeOK
  BY DEF IInv
<1> USE DEF Confirmed, Confirms
<1>2. CASE UNCHANGED <<back, resp, acReceived>>
  BY <1>2
<1>3. CASE Request \/ Timeout \/ Publish \/ PublishRemove \/ Reconnect \/ AcChanges
  <2>1. UNCHANGED <<back, resp, acReceived>>
    BY <1>3 DEF Request, Timeout, Publish, PublishRemove, Reconnect, AcChanges, client
  <2> QED BY <1>2, <2>1
<1>4. CASE Answered
  BY <1>1, <1>4 DEF Answered, TypeOK
<1>5. CASE OnMessage
  <2>1. /\ Len(back) \in Nat /\ Len(back) >= 1 /\ Head(back) = back[1]
        /\ Len(Tail(back)) = Len(back) - 1
        /\ \A i \in 1..Len(Tail(back)) : Tail(back)[i] = back[i + 1]
    <3>1. back \in Seq(Answers) /\ back # <<>>
      BY <1>1, <1>5 DEF OnMessage, TypeOK
    <3> QED BY <3>1, HeadTailProperties, LenProperties, EmptySeq
  <2>2. \A i \in 1..Len(back') : Confirms(back'[i])
    BY <1>5, <2>1 DEF OnMessage
  <2>3. Confirms(Head(back))
    BY <2>1
  <2>4. \A s \in Seqs : resp'[s] = resp[s] \/ resp'[s] = Head(back)
    BY <1>1, <1>5 DEF OnMessage, TypeOK
  <2>5. acReceived' = acReceived
    BY <1>5 DEF OnMessage
  <2> QED BY <2>2, <2>3, <2>4, <2>5
<1>6. CASE Restart
  BY <1>6 DEF Restart
<1>7. ASSUME NEW i \in 1..Len(net), AcAnswer(i) PROVE Confirmed'
  <2> DEFINE ans(p) == [inc |-> net[i].inc, seq |-> net[i].seq, kind |-> net[i].kind,
                        pld |-> p]
  <2>1. PICK p \in {0, 1} : /\ back' = Append(back, ans(p))
                            /\ net[i].kind = "upload" /\ p = 1 => acReceived'
    <3>1. "check" # "upload"
      OBVIOUS
    <3> QED BY <1>7, <3>1 DEF AcAnswer
  <2>2. ans(p) \in Answers
    <3>1. net[i] \in Requests
      BY <1>1, Numbers
    <3> QED BY <3>1 DEF Requests, Answers
  <2>3. ans(p).kind = net[i].kind /\ ans(p).pld = p
    OBVIOUS
  <2>4. (acReceived => acReceived') /\ resp' = resp
    BY <1>7 DEF AcAnswer, client
  <2> HIDE DEF ans
  <2>5. /\ Len(back') = Len(back) + 1 /\ Len(back) \in Nat
        /\ \A j \in 1..Len(back) : back'[j] = back[j]
        /\ back'[Len(back) + 1] = ans(p)
    BY <1>1, <2>1, <2>2, AppendKeeps DEF TypeOK
  <2>6. ASSUME NEW j \in 1..Len(back') PROVE Confirms(back[j])'
    <3>1. CASE j \in 1..Len(back)
      BY <2>4, <2>5, <3>1
    <3>2. CASE j = Len(back) + 1
      BY <2>1, <2>3, <2>5, <3>2
    <3> QED BY <2>5, <3>1, <3>2
  <2> QED BY <2>4, <2>6
<1>8. CASE Lose
  <2>1. CASE UNCHANGED back
    BY <1>2, <1>8, <2>1 DEF Lose, client
  <2>2. CASE \E i \in 1..Len(back) : back' = RemoveAt(back, i)
    <3>1. PICK i \in 1..Len(back) : back' = RemoveAt(back, i)
      BY <2>2
    <3>2. back \in Seq(Answers)
      BY <1>1 DEF TypeOK
    <3>3. \A j \in 1..Len(RemoveAt(back, i)) : \E k \in 1..Len(back) :
              RemoveAt(back, i)[j] = back[k]
      BY <3>2, RemoveAtKeeps, SMT
    <3>4. \A j \in 1..Len(back') : \E k \in 1..Len(back) : back'[j] = back[k]
      BY <3>1, <3>3
    <3>5. acReceived' = acReceived /\ resp' = resp
      BY <1>8 DEF Lose, client
    <3> QED BY <3>4, <3>5
  <2> QED BY <1>8, <2>1, <2>2 DEF Lose
<1>9. CASE UNCHANGED vars
  BY <1>2, <1>9 DEF vars, client
<1> QED BY <1>3, <1>4, <1>5, <1>6, <1>7, <1>8, <1>9 DEF Next

(* Only the step that takes an answer ends an upload.                      *)
LEMMA NextUploaded ==
    ASSUME IInv, Confirmed, UploadReceived, [Next]_vars, [~TakesOldAnswer]_vars
    PROVE  UploadReceived'
<1>1. TypeOK
  BY DEF IInv
<1>2. acReceived => acReceived'
  <2>1. CASE UNCHANGED acReceived
    BY <2>1
  <2>2. CASE \E i \in 1..Len(net) : AcAnswer(i)
    BY <2>2 DEF AcAnswer
  <2> QED BY <2>1, <2>2 DEF Next, vars, client, Request, Answered, Timeout, OnMessage, Publish,
                            PublishRemove, Reconnect, Restart, AcChanges, Lose
<1>3. CASE Answered
  <2>1. CASE reg = "check"
    <3>1. reg' \in {"registered", "upload"}
      BY <1>3, <2>1 DEF Answered
    <3> QED BY <3>1 DEF UploadReceived
  <2>2. CASE reg = "upload"
    <3>1. wait \in Seqs /\ resp[wait] # None /\ wait' = None /\ wait # None
      BY <1>1, <1>3 DEF Answered, TypeOK
    <3>2. resp[wait].inc = inc
      BY <1>3, <3>1 DEF TakesOldAnswer, vars, client
    <3>3. resp[wait].kind = "upload"
      BY <2>2, <3>1, <3>2 DEF IInv, AllSound, Sound
    <3>4. reg' = "uploaded" => resp[wait].pld = 1
      BY <1>3, <2>2 DEF Answered
    <3> QED BY <1>2, <3>1, <3>3, <3>4 DEF UploadReceived, Confirmed, Confirms
  <2>3. reg \in Kinds
    BY <1>3 DEF IInv, Asking, Answered
  <2> QED BY <2>1, <2>2, <2>3 DEF Kinds
<1>4. CASE Restart
  BY <1>4 DEF Restart, UploadReceived
<1>5. CASE UNCHANGED reg
  BY <1>2, <1>5 DEF UploadReceived
<1> QED BY <1>3, <1>4, <1>5 DEF Next, vars, client, Request, Timeout, OnMessage, Publish,
                                PublishRemove, Reconnect, AcAnswer, AcChanges, Lose

(* What apmgr.lua:40 says of upload() is true of every start until cfgmgr  *)
(* takes an answer to an earlier start for its own: loss, delay, timeouts  *)
(* and reconnects never break it, the sequence numbers that begin at 0     *)
(* again (cfgclient.lua:26, 92) do, and nothing else.                      *)
THEOREM OnlyOldAnswersMislead ==
    Spec /\ [][~TakesOldAnswer]_vars => []UploadReceived
<1>1. Init => Confirmed /\ UploadReceived
  <2>1. Init => Len(back) = 0
    BY EmptySeq DEF Init
  <2> QED BY <2>1 DEF Init, Confirmed, UploadReceived
<1> QED BY <1>1, Invariance, NextConfirmed, NextUploaded, PTL DEF Spec
=============================================================================
