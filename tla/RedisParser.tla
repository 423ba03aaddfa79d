---------------------------- MODULE RedisParser -----------------------------
(***************************************************************************)
(* The wire format of sands and sandc, lua-redis-parser/redis-parser.c.    *)
(* parse_ready, added for this repository, says whether a buffer starts    *)
(* with a whole message and how long it is; parse_reply then takes the     *)
(* message apart with a second, separately written scanner; build_query    *)
(* makes a message.  A text is a sequence of characters and a position is  *)
(* an index into it, so the pointer "last" is Len(s) + 1.  Counts and sizes *)
(* are of C types and wrap; a text is shorter than half of SizeMod.        *)
(***************************************************************************)
EXTENDS Integers, Sequences, FiniteSetsExt

CONSTANTS
    Null,     \* redis.parser.null, and nil in a reply
    IntMod,   \* 2 to the bits of an int, the type of a count
    SizeMod   \* 2 to the bits of an ssize_t, the type of a size

ASSUME ModAssumption == IntMod \in Nat /\ SizeMod \in Nat /\ IntMod > 2 /\ SizeMod > 2

CR == "CR"
LF == "LF"
Digits == <<"0", "1", "2", "3", "4", "5", "6", "7", "8", "9">>
DigitChars == {Digits[i] : i \in 1..10}
DigitVal == [c \in DigitChars |-> (CHOOSE i \in 1..10 : Digits[i] = c) - 1]

(* How a scan ends: a value and the position after it, the end of the text *)
(* too early, or a text that no continuation can repair.                   *)
Found(v, p) == [st |-> "ok", val |-> v, next |-> p]
Eof == [st |-> "eof"]
Bad == [st |-> "bad"]

(* get_num_size, sprintf_num *)
get_num_size[i \in Nat] == IF i < 10 THEN 1 ELSE 1 + get_num_size[i \div 10]

sprintf_num[i \in Nat] ==
    IF i < 10 THEN <<Digits[i + 1]>>
              ELSE Append(sprintf_num[i \div 10], Digits[(i % 10) + 1])

(* count *= 10; count += *p - '0', before the sum wraps *)
NumVal(t) ==
    LET v[i \in 0..Len(t)] == IF i = 0 THEN 0 ELSE 10 * v[i - 1] + DigitVal[t[i]]
    IN  v[Len(t)]

(* the first position from p on that holds no digit *)
NumEnd(s, p) ==
    LET Q == {q \in p..Len(s) : s[q] \notin DigitChars}
    IN  IF Q = {} THEN Len(s) + 1 ELSE Min(Q)

(* Digits up to CRLF, their value modulo w: the loops over a count or a    *)
(* size.                                                                   *)
Number(s, p, w) ==
    LET q == NumEnd(s, p)
    IN  IF q > Len(s) \/ (q = Len(s) /\ s[q] = CR) THEN Eof
        ELSE IF s[q] = CR /\ s[q + 1] = LF THEN Found(NumVal(SubSeq(s, p, q - 1)) % w, q + 2)
        ELSE Bad

(* the text up to the first CRLF *)
parse_single_line_reply(s, p) ==
    LET Ends == {i \in (p + 1)..Len(s) : s[i - 1] = CR /\ s[i] = LF}
    IN  IF Ends = {} THEN Eof ELSE Found(SubSeq(s, p, Min(Ends) - 2), Min(Ends) + 1)

(* The data of a bulk and its CRLF, after the scan of the size, which is   *)
(* negative if it has wrapped.  -2 leads back to the CRLF before the data  *)
(* and reads as dst_len = -2, a text too short; -1 needs one byte and      *)
(* leads to that LF; with any other no text is long enough.                *)
BulkData(s, num) ==
    LET end == num.next + num.val
        need == IF num.val = SizeMod - 1 THEN 1 ELSE num.val + 2
    IN  IF num.st # "ok" THEN num
        ELSE IF num.val = SizeMod - 2 \/ Len(s) + 1 - num.next < need THEN Eof
        ELSE IF num.val # SizeMod - 1 /\ s[end] = CR /\ s[end + 1] = LF
             THEN Found(SubSeq(s, num.next, end - 1), end + 2) ELSE Bad

(* parse_ready's scan of a bulk: no "$-1" *)
parse_bulk_reply2(s, p) ==
    IF p <= Len(s) /\ s[p] = "-" THEN Bad
    ELSE BulkData(s, Number(s, p, SizeMod))

(* Mutant: the CRLF after the size of nil is not passed over. *)
parse_bulk_reply_nil(s, p) ==
    LET Nil(num) == IF num.st = "ok" THEN Found(Null, num.next - 2) ELSE num
    IN  IF p <= Len(s) /\ s[p] = "-" THEN Nil(Number(s, p + 1, SizeMod))
                                     ELSE BulkData(s, Number(s, p, SizeMod))

(* parse_reply's scan: "$-1" is nil *)
parse_bulk_reply(s, p) ==
    LET Nil(num) == IF num.st = "ok" THEN Found(Null, num.next) ELSE num
    IN  IF p <= Len(s) /\ s[p] = "-" THEN Nil(Number(s, p + 1, SizeMod))
                                     ELSE BulkData(s, Number(s, p, SizeMod))

(* One element of a multi bulk, and n of them from position p on: the      *)
(* switch and the loop of both scanners, which differ in the bulk.         *)
Item(scanner, s, p) ==
    IF p > Len(s) THEN Eof
    ELSE CASE s[p] \in {"+", "-", ":"}   -> parse_single_line_reply(s, p + 1)
           [] s[p] = "$"                 -> IF scanner = "ready" THEN parse_bulk_reply2(s, p + 1)
                                                                 ELSE parse_bulk_reply(s, p + 1)
           [] OTHER                      -> Bad

Items(scanner, s, num) ==
    LET Then(done, it) == IF it.st = "ok" THEN Found(Append(done.val, it.val), it.next) ELSE it
        f[i \in 0..num.val] ==
            IF i = 0 THEN Found(<<>>, num.next)
            ELSE IF f[i - 1].st = "ok" THEN Then(f[i - 1], Item(scanner, s, f[i - 1].next))
            ELSE f[i - 1]
    IN  IF num.st = "ok" THEN f[num.val] ELSE num

(* for (i = 1; i <= count; i++): no pass for a count that has wrapped to a *)
(* negative one                                                            *)
Passes(num) == IF num.st = "ok" /\ 2 * num.val >= IntMod THEN Found(0, num.next) ELSE num

(* a count of zero is refused as soon as CR is seen *)
parse_multi_bulk_reply2(s, p) ==
    LET q == NumEnd(s, p)
    IN  IF q <= Len(s) /\ s[q] = CR /\ NumVal(SubSeq(s, p, q - 1)) % IntMod = 0 THEN Bad
        ELSE Items("ready", s, Passes(Number(s, p, IntMod)))

(* A '-' anywhere among the digits and a digit after it: nil, whatever     *)
(* follows up to CRLF.  So is a count that has wrapped to -1.              *)
parse_multi_bulk_reply(s, p) ==
    LET q == NumEnd(s, p)
        num == Number(s, p, IntMod)
        neg == q < Len(s) /\ s[q] = "-" /\ s[q + 1] \in DigitChars
        Crs == {i \in q..Len(s) : s[i] = CR}
        cr == Min(Crs)
    IN  IF ~neg THEN IF num.st = "ok" /\ num.val = IntMod - 1 THEN Found(Null, num.next)
                     ELSE Items("reply", s, Passes(num))
        ELSE IF Crs # {} /\ cr < Len(s) /\ s[cr + 1] = LF THEN Found(Null, cr + 2)
        ELSE Bad

(* Mutant: the length counts from the position after "*". *)
parse_ready_short(s) ==
    LET Length(r) == IF r.st = "ok" THEN Found(r.val, r.next - 2) ELSE r
    IN  IF s[1] = "*" THEN Length(parse_multi_bulk_reply2(s, 2)) ELSE Bad

(* redis_parse_ready of a text that is not empty: true and the length,     *)
(* nil, or nil and "invalid string".                                       *)
parse_ready(s) ==
    LET Length(r) == IF r.st = "ok" THEN Found(r.val, r.next - 1) ELSE r
    IN  IF s[1] = "*" THEN Length(parse_multi_bulk_reply2(s, 2)) ELSE Bad

(* lua_tonumber of the text of an integer reply: 0 if it is no number *)
ToNumber(t) ==
    LET IsNum(u) == u # <<>> /\ \A i \in 1..Len(u) : u[i] \in DigitChars
    IN  CASE IsNum(t)                                         -> NumVal(t)
          [] t # <<>> /\ Head(t) = "-" /\ IsNum(Tail(t))      -> -NumVal(Tail(t))
          [] OTHER                                            -> 0

(* parse_reply_helper: type and value of the reply at p.  To this scanner  *)
(* a text that ends too early is as bad as any, and leaves the position    *)
(* where it was.                                                           *)
Types == [c \in {"+", "-", ":", "$", "*"} |->
            CASE c = "+" -> "status" [] c = "-" -> "error" [] c = ":" -> "integer"
              [] c = "$" -> "bulk"   [] c = "*" -> "multi"]

parse_reply_helper(s, p) ==
    LET c == IF p > Len(s) THEN "none" ELSE s[p]
        Reply(r) ==
            IF r.st # "ok" THEN [typ |-> "bad", val |-> Null, next |-> p]
            ELSE [typ |-> Types[c], next |-> r.next,
                  val |-> IF c = ":" THEN ToNumber(r.val) ELSE r.val]
    IN  Reply(CASE c \in {"+", "-", ":"} -> parse_single_line_reply(s, p + 1)
                [] c = "$"               -> parse_bulk_reply(s, p + 1)
                [] c = "*"               -> parse_multi_bulk_reply(s, p + 1)
                [] OTHER                 -> Bad)

parse_reply(s) == parse_reply_helper(s, 1)

(* redis_parse_replies: n replies, each from where the one before ended *)
parse_replies(s, n) ==
    LET at[i \in 1..n] == IF i = 1 THEN parse_reply_helper(s, 1)
                                   ELSE parse_reply_helper(s, at[i - 1].next)
    IN  [i \in 1..n |-> [typ |-> at[i].typ, val |-> at[i].val]]

-----------------------------------------------------------------------------
Crlf == <<CR, LF>>

(* The parameters of build_query that are no error. *)
Text(v) == [kind |-> "text", v |-> v]
Bool(b) == [kind |-> "boolean", v |-> b]
NullParam == [kind |-> "null"]

ParamSize(x) ==
    CASE x.kind = "text"      -> 1 + get_num_size[Len(x.v)] + 2 + Len(x.v) + 2
      [] x.kind = "boolean"   -> 7
      [] x.kind = "null"      -> 5

ParamText(x) ==
    CASE x.kind = "text"      -> <<"$">> \o sprintf_num[Len(x.v)] \o Crlf \o x.v \o Crlf
      [] x.kind = "boolean"   -> <<"$", "1">> \o Crlf \o <<IF x.v THEN "1" ELSE "0">> \o Crlf
      [] x.kind = "null"      -> <<"$", "-", "1">> \o Crlf

(* redis_build_query: the size is counted first; a text of another size    *)
(* and an empty table are errors, here the empty text.                     *)
build_query(arr) ==
    LET n == Len(arr)
        total[i \in 0..n] == IF i = 0 THEN 1 + get_num_size[n] + 2
                                      ELSE total[i - 1] + ParamSize(arr[i])
        text[i \in 0..n] == IF i = 0 THEN <<"*">> \o sprintf_num[n] \o Crlf
                                     ELSE text[i - 1] \o ParamText(arr[i])
    IN  IF n > 0 /\ Len(text[n]) = total[n] THEN text[n] ELSE <<>>
=============================================================================
