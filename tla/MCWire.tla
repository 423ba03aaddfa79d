------------------------------- MODULE MCWire -------------------------------
(* Small instances of the byte streams for TLC. *)
EXTENDS Wire

pb == <<"p", "b">>   pi == <<"p", "i">>   po == <<"p", "o">>
tp == <<"t", "p">>   pl == <<"p", "l">>   ko == <<"k", "o">>

Publish(payload) == [k \in {Id, tp, pl} |->
    CASE k = Id -> pb [] k = tp -> <<"t">> [] k = pl -> payload]

(* A payload that looks like the frame around it, one whose element needs  *)
(* two digits for its size, and an empty one.                              *)
Tricky == Publish(<<"$", "1", CR, LF>>)
Long == Publish(<<"*", "1", CR, LF, "-", CR, CR, LF, "0">>)
Empty == Publish(<<>>)
Command(id) == [k \in {Id} |-> id]

MCChars == DigitChars \cup {CR, LF, "*", "$", "+", "-", ":", "b", "d", "i", "k", "l", "o", "p", "t"}
MCMessages == {Tricky, Long, Empty, Command(pi), Command(po)}
Sent == [sands |-> MCMessages \ {Command(po)}, sandc |-> MCMessages \ {Command(pi)}]
MCCommands == [sands |-> {pb, pi}, sandc |-> {pb, po}]

Own(r, ms, fs) ==
    [role |-> r, own |-> TRUE, sent |-> ms, bytes |-> FlattenSeq(fs), replies |-> <<>>,
     ends |-> [i \in 1..Len(fs) |-> Len(FlattenSeq(SubSeq(fs, 1, i)))]]
Foreign(r, bytes, rs) ==
    [role |-> r, own |-> FALSE, sent |-> <<>>, bytes |-> bytes, replies |-> rs, ends |-> <<>>]

(* one message in every order of its keys, two messages in one order *)
OwnStreams ==
    UNION {{Own(r, <<m>>, <<f>>) : f \in Frames(m)} : m \in Sent["sands"], r \in {"sands"}}
    \cup UNION {{Own(r, <<m, n>>, <<CHOOSE f \in Frames(m) : TRUE, CHOOSE f \in Frames(n) : TRUE>>) :
                    m \in Sent[r], n \in Sent[r]} : r \in {"sands", "sandc"}}

(* Anything after the beginnings of a message, among them a count that     *)
(* wraps to -1, to a negative one and to 1, and a size that wraps to -2,   *)
(* to -1 and to 0.                                                         *)
Noise == {"*", "$", "+", "-", CR, LF, "0", "2"}
Starts == {<<>>, <<"*", "1">> \o Crlf, <<"*", "1">> \o Crlf \o <<"$", "2">> \o Crlf,
           <<"*", "2">> \o Crlf \o <<"$", "0">> \o Crlf \o Crlf,
           <<"*", "1">> \o Crlf \o <<"$", "4">> \o Crlf \o <<"i", "d", "k", "o">>,
           <<"*", "1", "5">>, <<"*", "1", "2">>, <<"*", "1", "7">> \o Crlf}
          \cup {<<"*", "1">> \o Crlf \o <<"$">> \o sprintf_num[n] : n \in {254, 255, 256}}
NoiseStreams == {Foreign("sands", s \o t, <<>>) : s \in Starts, t \in BoundedSeq(Noise, 3)}

Reply(t, v) == [typ |-> t, val |-> v]
ReplyTexts ==
    {<<<<"+", "k">> \o Crlf, Reply("status", <<"k">>)>>,
     <<<<"-">> \o Crlf, Reply("error", <<>>)>>,
     <<<<":", "-", "1", "2">> \o Crlf, Reply("integer", -12)>>,
     <<<<"$", "2">> \o Crlf \o Crlf \o Crlf, Reply("bulk", Crlf)>>,
     <<<<"$", "-", "1">> \o Crlf, Reply("bulk", Null)>>,
     <<<<"*", "-", "1">> \o Crlf, Reply("multi", Null)>>,
     <<build_query(<<Text(<<"b">>), NullParam, Bool(TRUE)>>),
       Reply("multi", <<<<"b">>, Null, <<"1">>>>)>>,
     <<<<"*", "0">> \o Crlf, Reply("multi", <<>>)>>}
PipelineStreams ==
    {Foreign("sandc", FlattenSeq([i \in 1..Len(q) |-> q[i][1]]), [i \in 1..Len(q) |-> q[i][2]]) :
        q \in BoundedSeq(ReplyTexts, 2) \ {<<>>}}

(* the ids nobody knows and a message without an id *)
Odd == {Command(ko), [k \in {pl} |-> <<"o">>]}
OddStreams == {Foreign(r, FlattenSeq(<<CHOOSE f \in Frames(m) : TRUE, CHOOSE f \in Frames(Tricky) : TRUE>>), <<>>) :
                  r \in {"sands", "sandc"}, m \in Odd \cup {Command(po)}}

MCStreams == OwnStreams \cup NoiseStreams \cup PipelineStreams \cup OddStreams
=============================================================================
