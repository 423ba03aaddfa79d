----------------------------- MODULE CfgClient -----------------------------
(***************************************************************************)
(* Requests of cfgmgr to the controller (AC) and its registration:         *)
(* cfgclient.lua and baseclient.lua in cfgmgr, upload() in apmgr.lua, and  *)
(* the proxy in base/main.lua that carries messages between the local and  *)
(* the remote broker.  An answer is matched to its request by a sequence   *)
(* number that starts at 0 with every start of cfgmgr.  Messages may be    *)
(* late or lost: brokers and the proxy keep nothing over a restart.        *)
(***************************************************************************)
EXTENDS Naturals, Sequences, SequencesExt

CONSTANTS
    None,
    MaxSeq,       \* bound on the requests of one start of cfgmgr
    MaxRestarts,  \* bound on restarts of cfgmgr
    MaxLost,      \* bound on lost messages
    MaxFlight     \* bound on messages on their way

ASSUME ClientAssumption ==
    MaxSeq \in Nat /\ MaxRestarts \in Nat /\ MaxLost \in Nat /\ MaxFlight \in Nat

VARIABLES
    inc,          \* history: number of restarts
    seq,          \* ins.seq
    outSeq,       \* out_seq_map
    resp,         \* response_map
    reg,          \* upload(): what it asks for, or how it ended
    wait,         \* the sequence number baseclient.wait waits for
    cache, pub,   \* publish_cache; its first item is published already
    status,       \* connected to the local broker
    net, back,    \* requests and answers on their way
    acKnows,      \* the controller has the access point in its tables
    acReceived,   \* history: it has received an upload
    lost

client == <<seq, outSeq, resp, reg, wait, cache, pub, status>>
vars == <<inc, client, net, back, acKnows, acReceived, lost>>

Seqs == 0..(MaxSeq - 1)
Kinds == {"check", "upload"}
Requests == [inc : 0..MaxRestarts, seq : Seqs, kind : Kinds]
Answers == [inc : 0..MaxRestarts, seq : Seqs, kind : Kinds, pld : {0, 1}]

Init ==
    /\ inc = 0 /\ seq = 0
    /\ outSeq = {} /\ resp = [s \in Seqs |-> None]
    /\ reg = "check" /\ wait = None
    /\ cache = <<>> /\ pub = FALSE /\ status = FALSE
    /\ net = <<>> /\ back = <<>>
    /\ acKnows \in BOOLEAN /\ acReceived = FALSE
    /\ lost = 0

-----------------------------------------------------------------------------
(* Mutant: a retry uses the sequence number of the first try. *)
RequestSameSeq ==
    /\ reg \in Kinds /\ wait = None /\ seq < MaxSeq
    /\ outSeq' = outSeq \cup {0}
    /\ cache' = Append(cache, [inc |-> inc, seq |-> 0, kind |-> reg])
    /\ wait' = 0
    /\ UNCHANGED <<inc, seq, resp, reg, pub, status, net, back, acKnows, acReceived, lost>>

(* request, called again by upload() while it gets no answer *)
Request ==
    /\ reg \in Kinds /\ wait = None /\ seq < MaxSeq
    /\ seq' = seq + 1
    /\ outSeq' = outSeq \cup {seq}
    /\ cache' = Append(cache, [inc |-> inc, seq |-> seq, kind |-> reg])
    /\ wait' = seq
    /\ UNCHANGED <<inc, resp, reg, pub, status, net, back, acKnows, acReceived, lost>>

(* baseclient.wait finds the answer and upload() goes on *)
Answered ==
    /\ wait # None /\ resp[wait] # None
    /\ LET res == resp[wait].pld
       IN  reg' = CASE reg = "check"  -> IF res = 1 THEN "registered" ELSE "upload"
                    [] reg = "upload" -> IF res = 1 THEN "uploaded" ELSE "exit"
    /\ resp' = [resp EXCEPT ![wait] = None]
    /\ wait' = None
    /\ UNCHANGED <<inc, seq, outSeq, cache, pub, status, net, back, acKnows, acReceived, lost>>

(* baseclient.wait gives up; out_seq_map keeps the number *)
Timeout ==
    /\ wait # None /\ resp[wait] = None
    /\ wait' = None
    /\ UNCHANGED <<inc, seq, outSeq, resp, reg, cache, pub, status, net, back, acKnows,
                   acReceived, lost>>

(* on_message of cfgclient: an answer nobody asked for is dropped *)
OnMessage ==
    /\ status /\ back # <<>>
    /\ LET m == Head(back)
       IN  /\ resp' = IF m.seq \in outSeq THEN [resp EXCEPT ![m.seq] = m] ELSE resp
           /\ outSeq' = outSeq \ {m.seq}
    /\ back' = Tail(back)
    /\ UNCHANGED <<inc, seq, reg, wait, cache, pub, status, net, acKnows, acReceived, lost>>

-----------------------------------------------------------------------------
(* publish_internel: the item is removed only after yield() *)
Publish ==
    /\ status /\ cache # <<>> /\ ~pub
    /\ Len(net) + Len(back) < MaxFlight
    /\ net' = Append(net, Head(cache))
    /\ pub' = TRUE
    /\ UNCHANGED <<inc, seq, outSeq, resp, reg, wait, cache, status, back, acKnows,
                   acReceived, lost>>

(* Mutant: the published item stays after a disconnect. *)
PublishRemoveConnected ==
    /\ pub
    /\ pub' = FALSE
    /\ cache' = IF status THEN Tail(cache) ELSE cache
    /\ UNCHANGED <<inc, seq, outSeq, resp, reg, wait, status, net, back, acKnows,
                   acReceived, lost>>

(* Mutant: the flag of the removed item stays set. *)
PublishRemoveAgain ==
    /\ pub
    /\ cache' = Tail(cache)
    /\ UNCHANGED <<inc, seq, outSeq, resp, reg, wait, pub, status, net, back, acKnows,
                   acReceived, lost>>

PublishRemove ==
    /\ pub
    /\ pub' = FALSE
    /\ cache' = Tail(cache)
    /\ UNCHANGED <<inc, seq, outSeq, resp, reg, wait, status, net, back, acKnows,
                   acReceived, lost>>

(* connect_internel; ON_DISCONNECT *)
Reconnect ==
    /\ status' = ~status
    /\ UNCHANGED <<inc, seq, outSeq, resp, reg, wait, cache, pub, net, back, acKnows,
                   acReceived, lost>>

(* cfgmgr ends (an upload that failed, or a kill) and is started again *)
Restart ==
    /\ inc < MaxRestarts
    /\ inc' = inc + 1
    /\ seq' = 0 /\ outSeq' = {} /\ resp' = [s \in Seqs |-> None]
    /\ reg' = "check" /\ wait' = None
    /\ cache' = <<>> /\ pub' = FALSE /\ status' = FALSE
    /\ UNCHANGED <<net, back, acKnows, acReceived, lost>>

-----------------------------------------------------------------------------
(* The controller handles the request at position i. *)
AcAnswer(i) ==
    LET m == net[i]
        Reply(pld) == back' = Append(back, [inc |-> m.inc, seq |-> m.seq,
                                            kind |-> m.kind, pld |-> pld])
    IN  /\ net' = RemoveAt(net, i)
        /\ \/ /\ m.kind = "check"
              /\ Reply(IF acKnows THEN 1 ELSE 0)
              /\ UNCHANGED <<acKnows, acReceived>>
           \/ /\ m.kind = "upload"
              /\ Reply(1)
              /\ acKnows' = TRUE /\ acReceived' = TRUE
           \/ /\ m.kind = "upload"
              /\ Reply(0)
              /\ UNCHANGED <<acKnows, acReceived>>
        /\ UNCHANGED <<inc, client, lost>>

(* the access point is deleted from, or added to, the controller *)
AcChanges ==
    /\ acKnows' = ~acKnows
    /\ UNCHANGED <<inc, client, net, back, acReceived, lost>>

(* base, a broker or a connection restarts, or cfgmgr is not connected *)
Lose ==
    /\ lost < MaxLost
    /\ lost' = lost + 1
    /\ \/ /\ \E i \in 1..Len(net) : net' = RemoveAt(net, i)
          /\ UNCHANGED back
       \/ /\ \E i \in 1..Len(back) : back' = RemoveAt(back, i)
          /\ UNCHANGED net
    /\ UNCHANGED <<inc, client, acKnows, acReceived>>

Next ==
    \/ Request \/ Answered \/ Timeout \/ OnMessage
    \/ Publish \/ PublishRemove \/ Reconnect \/ Restart
    \/ \E i \in 1..Len(net) : AcAnswer(i)
    \/ AcChanges \/ Lose

Spec == Init /\ [][Next]_vars

-----------------------------------------------------------------------------
TypeOK ==
    /\ inc \in 0..MaxRestarts /\ seq \in 0..MaxSeq
    /\ outSeq \subseteq Seqs /\ resp \in [Seqs -> Answers \cup {None}]
    /\ reg \in Kinds \cup {"registered", "uploaded", "exit"}
    /\ wait \in Seqs \cup {None}
    /\ cache \in Seq(Requests) /\ pub \in BOOLEAN /\ status \in BOOLEAN
    /\ net \in Seq(Requests) /\ back \in Seq(Answers)
    /\ acKnows \in BOOLEAN /\ acReceived \in BOOLEAN
    /\ lost \in 0..MaxLost
    /\ pub => cache # <<>>

(* An answer to a request of this start of cfgmgr is only taken for that   *)
(* request, however late the answers of timed out tries come               *)
(* (cfgclient.lua:22-43, 101-112).                                         *)
AnswersMatch ==
    wait # None /\ resp[wait] # None /\ resp[wait].inc = inc => resp[wait].kind = reg

(* The requests of one start of cfgmgr are sent once and in the order they *)
(* were made, over disconnects and reconnects (baseclient.lua:28-54):      *)
(* those on their way that it sent, then those it has yet to publish.      *)
Unsent == (IF pub THEN 2 ELSE 1)..Len(cache)
Before(m, n) == m.inc = inc /\ n.inc = inc => m.seq < n.seq
SentInOrder ==
    /\ \A i, j \in 1..Len(net) : i < j => Before(net[i], net[j])
    /\ \A i \in 1..Len(net), j \in Unsent : Before(net[i], cache[j])
    /\ \A i, j \in Unsent : i < j => Before(cache[i], cache[j])

(* apmgr.lua:40: "each start of the system uploads only once, and it must  *)
(* succeed": when upload() returns after uploading, the controller has     *)
(* received it.                                                            *)
UploadReceived == reg = "uploaded" => acReceived
=============================================================================
