-------------------------------- MODULE Wire --------------------------------
(***************************************************************************)
(* A stream of bytes from one end of a sands connection to the other: the  *)
(* sender writes messages (toarr, build_query), TCP cuts the stream        *)
(* anywhere, and the receiver collects what comes and takes whole messages *)
(* off the front (sands.lua on_client_data, sandc.lua on_recv).            *)
(***************************************************************************)
EXTENDS RedisParser, SequencesExt

CONSTANTS
    Chars,      \* the characters of a text
    Messages,   \* of MessageChannel: functions from two-letter keys to values
    Commands,   \* ids in cmd_map of the receiver, for each role, whose
                \* handlers succeed here: the errors of a handler depend on
                \* the state of the broker and are in module Sands
    Streams     \* what the program or a foreign peer writes, see below

(***************************************************************************)
(* A stream: who receives it (role), its bytes, whether the program itself *)
(* sends them (own), then the messages (sent) and where each ends (ends);  *)
(* replies is what a pipeline of replies is made of.                       *)
(***************************************************************************)
ASSUME CharsAssumption == DigitChars \cup {CR, LF, "*", "$"} \subseteq Chars
ASSUME WireAssumption == \A st \in Streams : st.bytes \in Seq(Chars)
ASSUME NullAssumption == Null \notin Seq(Seq(Chars))

VARIABLES
    stream,     \* the one that is being read
    pos,        \* bytes read so far
    data,       \* climap.data, ins.data
    got,        \* messages dispatched
    err         \* "none", or why the receiver closed

vars == <<stream, pos, data, got, err>>

Id == <<"i", "d">>

(* sandutil.lua toarr, in any order of the keys; checkarr; tomap, where    *)
(* the last of two equal keys counts                                       *)
toarr(map, order) == [i \in 1..Len(order) |-> Text(order[i] \o map[order[i]])]
checkarr(arr) == \A i \in 1..Len(arr) : Len(arr[i]) >= 3
tomap(arr) ==
    LET key(i) == SubSeq(arr[i], 1, 2)
    IN  [k \in {key(i) : i \in 1..Len(arr)} |->
            LET s == arr[Max({i \in 1..Len(arr) : key(i) = k})]
            IN  SubSeq(s, 3, Len(s))]

(* All texts that a sender may make of a message. *)
Frames(map) == {build_query(toarr(map, order)) : order \in SetToSeqs(DOMAIN map)}

(* The program's own streams are such messages one behind the other, with  *)
(* commands that the receiver knows, and with counts and sizes that do not *)
(* wrap.                                                                   *)
ASSUME MessagesAssumption ==
    \A m \in Messages :
        /\ IsFiniteSet(DOMAIN m) /\ m \in [DOMAIN m -> Seq(Chars)]
        /\ \A k \in DOMAIN m : k \in Seq(Chars) /\ Len(k) = 2 /\ Len(m[k]) + 4 < SizeMod
        /\ 2 * Cardinality(DOMAIN m) < IntMod
From(st, i) == IF i = 1 THEN 1 ELSE st.ends[i - 1] + 1
ASSUME OwnAssumption ==
    \A st \in Streams : st.own =>
        /\ st.sent \in Seq(Messages) /\ st.ends \in [1..Len(st.sent) -> 0..Len(st.bytes)]
        /\ From(st, Len(st.sent) + 1) = Len(st.bytes) + 1
        /\ \A i \in 1..Len(st.sent) :
              /\ SubSeq(st.bytes, From(st, i), st.ends[i]) \in Frames(st.sent[i])
              /\ Id \in DOMAIN st.sent[i] /\ st.sent[i][Id] \in Commands[st.role]

(* The command lookup.  The broker closes on a missing or an unknown id;   *)
(* the client ignores the one and fails on the other (the concatenation    *)
(* with nil at sandc.lua:182 is an error that ends the process).           *)
Dispatch(role, map) ==
    IF Id \notin DOMAIN map THEN (IF role = "sands" THEN "miss id" ELSE "ignored")
    ELSE IF map[Id] \in Commands[role] THEN "ok"
    ELSE IF role = "sands" THEN "no id" ELSE "error"

(* Mutant: the byte after the message is dropped with it. *)
TrimOne(buf, n) == SubSeq(buf, n + 2, Len(buf))

(* Mutant: a message stays in the buffer after it was dispatched. *)
TrimNothing(buf, n) == buf

(* data:sub(p + 1) *)
Trim(buf, n) == SubSeq(buf, n + 1, Len(buf))

(* One pass of the loop: nothing is prepared, an error closes, or a        *)
(* message is taken off and dispatched.  checkarr refuses nil; parse_reply *)
(* would hand an error text to tomap if it failed where parse_ready did    *)
(* not; that ends the receiver.                                            *)
Pass(role, st) ==
    LET Leave(e) == [st EXCEPT !.on = FALSE, !.err = e]
        Take(n, map, d) ==
            [data |-> Trim(st.data, n),
             got |-> IF d = "ok" THEN Append(st.got, map) ELSE st.got,
             err |-> IF d \in {"ok", "ignored"} THEN st.err ELSE d,
             on |-> d \in {"ok", "ignored"}]
        Reply(r, reply) ==
            IF r.st = "eof" THEN Leave("none")
            ELSE IF r.st # "ok" THEN Leave("parse")
            ELSE IF reply.typ # "multi" THEN Leave("error")
            ELSE IF reply.val = Null \/ ~checkarr(reply.val) THEN Leave("data")
            ELSE LET map == tomap(reply.val)
                 IN  Take(r.next, map, Dispatch(role, map))
    IN  IF st.data = <<>> THEN Leave("none")
        ELSE Reply(parse_ready(st.data), parse_reply(st.data))

(* Mutant: at most one message for each time that data comes. *)
DrainOne(role, buf) == Pass(role, [data |-> buf, got |-> <<>>, err |-> "none", on |-> TRUE])

(* The whole loop over a buffer: every pass takes a byte at least. *)
Drain(role, buf) ==
    LET f[i \in 0..(Len(buf) + 1)] ==
            IF i = 0 THEN [data |-> buf, got |-> <<>>, err |-> "none", on |-> TRUE]
            ELSE LET st == f[i - 1] IN IF st.on THEN Pass(role, st) ELSE st
    IN  f[Len(buf) + 1]

Init ==
    /\ stream \in Streams
    /\ pos = 0
    /\ data = <<>>
    /\ got = <<>>
    /\ err = "none"

(* uv.read_start's callback, se.read: the next n bytes, then the loop.     *)
(* Closing ends the reading.                                               *)
Recv(n) ==
    /\ err = "none"
    /\ pos' = pos + n
    /\ \E end \in {Drain(stream.role, data \o SubSeq(stream.bytes, pos + 1, pos'))} :
           /\ data' = end.data
           /\ got' = got \o end.got
           /\ err' = end.err
    /\ UNCHANGED stream

Next == \E n \in 1..(Len(stream.bytes) - pos) : Recv(n)

Spec == Init /\ [][Next]_vars

-----------------------------------------------------------------------------
Seen == SubSeq(stream.bytes, 1, pos)

(* Where TCP cuts the stream makes no difference: what is left, what was   *)
(* dispatched and the error are those of one read of all the bytes         *)
(* (sands.lua:275-309, sandc.lua:189-212).  A receiver that closed has     *)
(* dispatched what was in front of the error.                              *)
CutsDoNotMatter ==
    \E once \in {Drain(stream.role, Seen)} :
        /\ got = once.got
        /\ err = once.err
        /\ err = "none" => data = once.data

(* The two scanners agree (redis-parser.c:246-339, 679-790): if           *)
(* parse_ready finds a message, parse_reply finds one of the same length   *)
(* with the same elements, none of them nil; otherwise the callers would   *)
(* index an error text or cut inside a message.  There is one exception,   *)
(* without elements: a count that wraps to -1 is nil to parse_reply, on    *)
(* which the callers close.                                                *)
ScannersAgree ==
    pos > 0 => \A r \in {parse_ready(Seen)}, reply \in {parse_reply(Seen)} :
        r.st = "ok" =>
            /\ reply.typ = "multi" /\ reply.next = r.next + 1
            /\ reply.val = IF Number(Seen, 2, IntMod).val = IntMod - 1 THEN Null ELSE r.val

(* The messages of the program itself arrive whole and as soon as their    *)
(* last byte is there.  They are refused only for an empty value, which    *)
(* checkarr takes for a broken element (sandutil.lua:24): publishing an    *)
(* empty payload costs the connection, after what was sent before it.      *)
Complete == {i \in 1..Len(stream.sent) : stream.ends[i] <= pos}
Hollow(m) == \E k \in DOMAIN m : m[k] = <<>>
OwnMessagesArrive ==
    LET refused == {i \in Complete : Hollow(stream.sent[i])}
        good == IF refused = {} THEN Cardinality(Complete) ELSE Min(refused) - 1
    IN  stream.own => /\ got = SubSeq(stream.sent, 1, good)
                      /\ err = IF refused = {} THEN "none" ELSE "data"

(* A pipeline of replies of all types falls apart into those replies       *)
(* (redis-parser.c:387-557).                                               *)
PipelineSplit ==
    pos = 0 => parse_replies(stream.bytes, Len(stream.replies)) = stream.replies

(* For the program's messages the framing implements a channel of whole    *)
(* messages: those sent, in order and each once.                           *)
(* Streams that hold an empty value or are not the program's are outside   *)
(* the promise and are mapped to a channel with nothing to deliver.        *)
Promised == stream.own /\ \A m \in ToSet(stream.sent) : ~Hollow(m)
Channel == INSTANCE MessageChannel WITH
               todo <- IF Promised THEN SubSeq(stream.sent, Len(got) + 1, Len(stream.sent))
                                   ELSE <<>>,
               got <- IF Promised THEN got ELSE <<>>
ImplementsChannel == Channel!Spec
=============================================================================
