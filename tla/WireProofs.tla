----------------------------- MODULE WireProofs -----------------------------
(***************************************************************************)
(* Proofs about the wire format, for every text: no bound on the length of *)
(* a message, on its elements or on the pieces in which it arrives.        *)
(***************************************************************************)
EXTENDS Wire, TLAPS, SequenceTheorems, FiniteSetTheorems, WellFoundedInduction

(* Induction over the numbers, as a fact about sets of them. *)
LEMMA Least ==
    ASSUME NEW T \in SUBSET Nat, T # {}
    PROVE  \E n \in T : \A m \in T : n <= m
<1>1. IsWellFoundedOn(OpToRel(<, Nat), Nat)
  BY NatLessThanWellFounded
<1>2. \E x \in T : \A y \in T : ~(<<y, x>> \in OpToRel(<, Nat))
  BY <1>1, WFMin, Zenon
<1>3. ASSUME NEW x \in Nat, NEW y \in Nat, x < y
      PROVE  <<x, y>> \in OpToRel(<, Nat)
  <2>1. <<x, y>> \in Nat \X Nat /\ <<x, y>>[1] = x /\ <<x, y>>[2] = y
    OBVIOUS
  <2> QED BY <1>3, <2>1, Zenon DEF OpToRel
<1>4. \A x, y \in Nat : ~(x < y) => y <= x
  OBVIOUS
<1> QED BY <1>2, <1>3, <1>4, Zenon

LEMMA Induction ==
    ASSUME NEW T, 0 \in T, \A n \in Nat : n \in T => n + 1 \in T
    PROVE  \A n \in Nat : n \in T
<1> DEFINE U == {n \in Nat : n \notin T}
<1> SUFFICES ASSUME U # {} PROVE FALSE
  OBVIOUS
<1>1. PICK n \in U : \A m \in U : n <= m
  BY Least
<1>2. n \in Nat /\ n # 0
  OBVIOUS
<1>3. n - 1 \in Nat /\ n - 1 \notin U /\ (n - 1) + 1 = n
  BY <1>1, <1>2
<1> QED BY <1>3

(* The first number of a set. *)
LEMMA MinIsLeast ==
    ASSUME NEW T \in SUBSET Nat, T # {}
    PROVE  Min(T) \in T /\ \A m \in T : Min(T) <= m
BY Least DEF Min

-----------------------------------------------------------------------------
(* Numbers. *)
LEMMA DigitValues == DigitVal \in [DigitChars -> 0..9]
<1> SUFFICES ASSUME NEW c \in DigitChars
             PROVE  (CHOOSE i \in 1..10 : Digits[i] = c) - 1 \in 0..9
  BY DEF DigitVal
<1>1. \E i \in 1..10 : Digits[i] = c
  BY DEF DigitChars
<1>2. (CHOOSE i \in 1..10 : Digits[i] = c) \in 1..10
  BY <1>1
<1> QED BY <1>2

(* The value of the first digits of t, which the loops count up. *)
Counted(t) ==
    CHOOSE v : v = [i \in 0..Len(t) |->
                        IF i = 0 THEN 0 ELSE 10 * v[i - 1] + DigitVal[t[i]]]

LEMMA CountedExists ==
    ASSUME NEW t, Len(t) \in Nat
    PROVE  Counted(t) = [i \in 0..Len(t) |->
               IF i = 0 THEN 0 ELSE 10 * Counted(t)[i - 1] + DigitVal[t[i]]]
<1> DEFINE Upto(v, k) ==
        v = [i \in 0..k |-> IF i = 0 THEN 0 ELSE 10 * v[i - 1] + DigitVal[t[i]]]
           T == {k \in Nat : \E v : Upto(v, k)}
<1>1. 0 \in T
  <2>1. Upto([i \in 0..0 |-> 0], 0)
    OBVIOUS
  <2> QED BY <2>1
<1>2. ASSUME NEW k \in Nat, k \in T PROVE k + 1 \in T
  <2>1. PICK v : Upto(v, k)
    BY <1>2
  <2> DEFINE w == [i \in 0..(k + 1) |->
                     IF i = k + 1 THEN 10 * v[k] + DigitVal[t[k + 1]] ELSE v[i]]
  <2>2. Upto(w, k + 1)
    BY <2>1
  <2> HIDE DEF w, Upto
  <2> QED BY <2>2
<1>3. \E v : Upto(v, Len(t))
  <2> HIDE DEF T
  <2>1. Len(t) \in T
    BY <1>1, <1>2, Induction
  <2> QED BY <2>1 DEF T
<1> QED BY <1>3 DEF Counted

(* What a counter of w values keeps of a number. *)
LEMMA ModRange ==
    ASSUME NEW a \in Nat, NEW w \in Nat \ {0}
    PROVE  a % w \in Nat /\ a % w < w
OBVIOUS

LEMMA ModSmall ==
    ASSUME NEW a \in Nat, NEW w \in Nat \ {0}, a < w
    PROVE  a % w = a
<1>1. a = w * (a \div w) + (a % w)
  OBVIOUS
<1> QED BY <1>1

LEMMA NumValNat ==
    ASSUME NEW t \in Seq(DigitChars)
    PROVE  NumVal(t) \in Nat
<1> DEFINE T == {k \in Nat : k <= Len(t) => Counted(t)[k] \in Nat}
<1>1. Len(t) \in Nat /\ \A i \in 1..Len(t) : DigitVal[t[i]] \in Nat
  BY DigitValues, LenProperties
<1>2. 0 \in T
  BY <1>1, CountedExists
<1>3. ASSUME NEW k \in Nat, k \in T PROVE k + 1 \in T
  <2> SUFFICES ASSUME k + 1 <= Len(t) PROVE Counted(t)[k + 1] \in Nat
    OBVIOUS
  <2>1. Counted(t)[k + 1] = 10 * Counted(t)[k] + DigitVal[t[k + 1]]
    BY <1>1, CountedExists
  <2> QED BY <1>1, <1>3, <2>1
<1>4. Len(t) \in T
  <2> HIDE DEF T
  <2> QED BY <1>1, <1>2, <1>3, Induction
<1>5. NumVal(t) = Counted(t)[Len(t)]
  BY DEF NumVal, Counted
<1> QED BY <1>1, <1>4, <1>5

(* The digits end at the first other character. *)
LEMMA NumEndProperties ==
    ASSUME NEW s \in Seq(Chars), NEW p \in Nat \ {0}, NumEnd(s, p) <= Len(s), p <= Len(s) + 1
    PROVE  /\ NumEnd(s, p) \in p..Len(s)
           /\ s[NumEnd(s, p)] \notin DigitChars
           /\ \A i \in p..(NumEnd(s, p) - 1) : s[i] \in DigitChars
<1> DEFINE Q == {q \in p..Len(s) : s[q] \notin DigitChars}
<1>1. Len(s) \in Nat
  BY LenProperties
<1>2. Q # {} /\ NumEnd(s, p) = Min(Q)
  BY <1>1 DEF NumEnd
<1>3. Min(Q) \in Q /\ \A m \in Q : Min(Q) <= m
  <2>1. Q \in SUBSET Nat
    BY <1>1
  <2> HIDE DEF Q
  <2> QED BY <1>2, <2>1, MinIsLeast
<1>4. /\ Min(Q) \in p..Len(s) /\ s[Min(Q)] \notin DigitChars
      /\ \A i \in p..(Min(Q) - 1) : i \notin Q /\ i \in p..Len(s)
  <2>1. Min(Q) \in p..Len(s) /\ s[Min(Q)] \notin DigitChars
    BY <1>3
  <2> HIDE DEF Q
  <2> QED BY <1>1, <1>3, <2>1
<1> QED BY <1>2, <1>4

-----------------------------------------------------------------------------
(* A text and what more there is of it when more has come. *)
Prefix(s, u) ==
    /\ s \in Seq(Chars) /\ u \in Seq(Chars)
    /\ Len(s) <= Len(u)
    /\ \A i \in 1..Len(s) : u[i] = s[i]

LEMMA PrefixLengths ==
    ASSUME NEW s, NEW u, Prefix(s, u)
    PROVE  Len(s) \in Nat /\ Len(u) \in Nat /\ Len(s) <= Len(u)
BY LenProperties DEF Prefix

LEMMA SubSeqSame ==
    ASSUME NEW s, NEW u, Prefix(s, u), NEW a \in Nat \ {0}, NEW b \in Int, b <= Len(s)
    PROVE  SubSeq(u, a, b) = SubSeq(s, a, b)
<1>1. /\ s \in Seq(Chars) /\ u \in Seq(Chars)
      /\ Len(s) \in Nat /\ Len(u) \in Nat /\ Len(s) <= Len(u)
      /\ \A i \in 1..Len(s) : u[i] = s[i]
  BY PrefixLengths DEF Prefix
<1>2. \A i \in a..b : s[i] \in Chars /\ u[i] \in Chars /\ u[i] = s[i]
  BY <1>1, ElementOfSeq
<1>3. /\ SubSeq(s, a, b) \in Seq(Chars)
      /\ Len(SubSeq(s, a, b)) = IF a <= b THEN b - a + 1 ELSE 0
      /\ \A i \in 1..(b - a + 1) : SubSeq(s, a, b)[i] = s[a + i - 1]
  BY <1>1, <1>2, SubSeqProperties
<1>4. /\ SubSeq(u, a, b) \in Seq(Chars)
      /\ Len(SubSeq(u, a, b)) = IF a <= b THEN b - a + 1 ELSE 0
      /\ \A i \in 1..(b - a + 1) : SubSeq(u, a, b)[i] = u[a + i - 1]
  BY <1>1, <1>2, SubSeqProperties
<1>5. \A i \in 1..(b - a + 1) : a + i - 1 \in a..b
  OBVIOUS
<1>6. \A i \in 1..Len(SubSeq(s, a, b)) : SubSeq(u, a, b)[i] = SubSeq(s, a, b)[i]
  BY <1>2, <1>3, <1>4, <1>5
<1> QED BY <1>3, <1>4, <1>6, SeqEqual

(* The least number of a set is the least of every larger set whose other  *)
(* numbers come later.                                                     *)
LEMMA MinSame ==
    ASSUME NEW T \in SUBSET Nat, NEW n \in T, \A m \in T : n <= m
    PROVE  Min(T) = n
<1>1. Min(T) \in T /\ Min(T) <= n
  BY MinIsLeast
<1>2. n <= Min(T) /\ n \in Nat /\ Min(T) \in Nat
  BY <1>1
<1> QED BY <1>1, <1>2

LEMMA NumEndInt ==
    ASSUME NEW s \in Seq(Chars), NEW p \in Nat
    PROVE  NumEnd(s, p) \in Int
<1> DEFINE Q == {i \in p..Len(s) : s[i] \notin DigitChars}
<1>0. Len(s) \in Nat
  BY LenProperties
<1>1. CASE Q = {}
  <2>1. NumEnd(s, p) = Len(s) + 1
    BY <1>1 DEF NumEnd
  <2> QED BY <1>0, <2>1
<1>2. CASE Q # {}
  <2>1. Q \in SUBSET Nat /\ \A i \in Q : i \in Int
    BY <1>0
  <2>2. NumEnd(s, p) = Min(Q)
    BY <1>2 DEF NumEnd
  <2> HIDE DEF Q
  <2>3. Min(Q) \in Q
    BY <1>2, <2>1, MinIsLeast
  <2> QED BY <2>1, <2>2, <2>3
<1> QED BY <1>1, <1>2

(* Digits that end inside a text end there when more comes. *)
LEMMA NumEndSame ==
    ASSUME NEW s, NEW u, Prefix(s, u), NEW p \in 1..(Len(s) + 1), ~(NumEnd(s, p) > Len(s))
    PROVE  /\ NumEnd(s, p) \in p..Len(s) /\ s[NumEnd(s, p)] \notin DigitChars
           /\ \A i \in p..(NumEnd(s, p) - 1) : s[i] \in DigitChars
           /\ NumEnd(u, p) = NumEnd(s, p)
<1> DEFINE q == NumEnd(s, p)
<1>0. /\ s \in Seq(Chars) /\ u \in Seq(Chars)
      /\ Len(s) \in Nat /\ Len(u) \in Nat /\ Len(s) <= Len(u)
      /\ p \in Nat \ {0} /\ p <= Len(s) + 1
      /\ \A i \in 1..Len(s) : u[i] = s[i]
  <2>1. Len(s) \in Nat /\ Len(u) \in Nat /\ Len(s) <= Len(u)
    BY PrefixLengths
  <2> QED BY <2>1 DEF Prefix
<1>1. ~(q > Len(s))
  OBVIOUS
<1>2. q \in Int
  BY <1>0, NumEndInt
<1>3. q \in p..Len(s) /\ s[q] \notin DigitChars /\ \A i \in p..(q - 1) : s[i] \in DigitChars
  BY <1>0, <1>1, <1>2, NumEndProperties
<1>4. NumEnd(u, p) = q
  <2> DEFINE R == {i \in p..Len(u) : u[i] \notin DigitChars}
  <2>0. q \in 1..Len(s) /\ q \in p..Len(u) /\ u[q] = s[q]
    BY <1>0, <1>3
  <2>1. q \in R /\ R \in SUBSET Nat /\ \A m \in R : q <= m
    <3>1. q \in R /\ R \in SUBSET Nat
      BY <1>0, <1>3, <2>0
    <3>2. ASSUME NEW m \in R, m < q PROVE FALSE
      <4>1. m \in p..(q - 1) /\ m \in 1..Len(s)
        BY <1>0, <2>0, <3>2
      <4> QED BY <1>0, <1>3, <4>1
    <3>3. q \in Nat /\ \A m \in R : m \in Nat
      BY <3>1
    <3> HIDE DEF R, q
    <3> QED BY <3>1, <3>2, <3>3
  <2>2. NumEnd(u, p) = Min(R)
    BY <2>1 DEF NumEnd
  <2> HIDE DEF R
  <2> QED BY <2>1, <2>2, MinSame
<1> QED BY <1>3, <1>4

(* A number that is complete is followed by CRLF and stays what it is when *)
(* more comes.                                                             *)
LEMMA NumberComplete ==
    ASSUME NEW s, NEW u, Prefix(s, u), NEW p \in 1..(Len(s) + 1),
           NEW w \in Nat \ {0}, Number(s, p, w).st = "ok"
    PROVE  /\ NumEnd(s, p) \in p..(Len(s) - 1) /\ s[NumEnd(s, p)] = CR
           /\ Number(s, p, w) = Found(NumVal(SubSeq(s, p, NumEnd(s, p) - 1)) % w, NumEnd(s, p) + 2)
           /\ Number(s, p, w).val \in Nat
           /\ Number(s, p, w).next = NumEnd(s, p) + 2
           /\ NumEnd(u, p) = NumEnd(s, p)
           /\ Number(u, p, w) = Number(s, p, w)
           /\ NumVal(SubSeq(u, p, NumEnd(u, p) - 1)) = NumVal(SubSeq(s, p, NumEnd(s, p) - 1))
<1> DEFINE q == NumEnd(s, p)
<1>0. /\ s \in Seq(Chars) /\ u \in Seq(Chars)
      /\ Len(s) \in Nat /\ Len(u) \in Nat /\ Len(s) <= Len(u)
      /\ p \in Nat \ {0} /\ p <= Len(s) + 1
      /\ \A i \in 1..Len(s) : u[i] = s[i]
  <2>1. Len(s) \in Nat /\ Len(u) \in Nat /\ Len(s) <= Len(u)
    BY PrefixLengths
  <2> QED BY <2>1 DEF Prefix
<1>1. /\ ~(q > Len(s)) /\ s[q] = CR /\ q # Len(s) /\ s[q + 1] = LF
      /\ Number(s, p, w) = Found(NumVal(SubSeq(s, p, q - 1)) % w, q + 2)
  BY DEF Number, Eof, Bad
<1>3. /\ q \in p..Len(s) /\ s[q] \notin DigitChars /\ \A i \in p..(q - 1) : s[i] \in DigitChars
      /\ NumEnd(u, p) = q
  BY <1>1, NumEndSame
<1>4. NumEnd(u, p) = q
  BY <1>3
<1>5. SubSeq(u, p, q - 1) = SubSeq(s, p, q - 1)
  BY <1>0, <1>3, SubSeqSame
<1>6. NumVal(SubSeq(s, p, q - 1)) % w \in Nat
  <2>1. SubSeq(s, p, q - 1) \in Seq(DigitChars)
    BY <1>0, <1>3, SubSeqProperties
  <2>2. NumVal(SubSeq(s, p, q - 1)) \in Nat
    BY <2>1, NumValNat
  <2> QED BY <2>2, ModRange
<1>7. u[q] = CR /\ u[q + 1] = LF /\ q < Len(u) /\ q \in p..(Len(s) - 1)
  <2>1. q \in 1..Len(s) /\ q + 1 \in 1..Len(s) /\ q < Len(u) /\ q \in p..(Len(s) - 1)
    BY <1>0, <1>1, <1>3
  <2>2. u[q] = s[q] /\ u[q + 1] = s[q + 1]
    BY <1>0, <2>1
  <2> QED BY <1>1, <2>1, <2>2
<1>8. Number(u, p, w) = Found(NumVal(SubSeq(u, p, q - 1)) % w, q + 2)
  <2>1. u[q] = CR /\ ~(q > Len(u)) /\ q # Len(u) /\ u[q + 1] = LF
    BY <1>0, <1>3, <1>7
  <2> QED BY <1>4, <2>1 DEF Number
<1> HIDE DEF q
<1>9. Found(NumVal(SubSeq(s, p, q - 1)) % w, q + 2).val = NumVal(SubSeq(s, p, q - 1)) % w
      /\ Found(NumVal(SubSeq(s, p, q - 1)) % w, q + 2).next = q + 2
  BY DEF Found
<1> QED BY <1>1, <1>4, <1>5, <1>6, <1>7, <1>8, <1>9 DEF q

LEMMA Moduli == IntMod \in Nat \ {0} /\ SizeMod \in Nat \ {0}
BY ModAssumption

-----------------------------------------------------------------------------
(* One element: what parse_ready accepts ends inside the text, stays the   *)
(* same when more comes, and is the same to parse_reply.                   *)
LEMMA LineComplete ==
    ASSUME NEW s, NEW u, Prefix(s, u), NEW p \in 1..(Len(s) + 1),
           parse_single_line_reply(s, p).st = "ok"
    PROVE  /\ parse_single_line_reply(u, p) = parse_single_line_reply(s, p)
           /\ parse_single_line_reply(s, p).next \in (p + 1)..(Len(s) + 1)
<1> DEFINE E == {i \in (p + 1)..Len(s) : s[i - 1] = CR /\ s[i] = LF}
           F == {i \in (p + 1)..Len(u) : u[i - 1] = CR /\ u[i] = LF}
<1>0. /\ Len(s) \in Nat /\ Len(u) \in Nat /\ Len(s) <= Len(u) /\ p \in Nat \ {0}
      /\ \A i \in 1..Len(s) : u[i] = s[i]
  <2>1. Len(s) \in Nat /\ Len(u) \in Nat /\ Len(s) <= Len(u)
    BY PrefixLengths
  <2> QED BY <2>1 DEF Prefix
<1>1. /\ E # {}
      /\ parse_single_line_reply(s, p) = Found(SubSeq(s, p, Min(E) - 2), Min(E) + 1)
  BY DEF parse_single_line_reply, Eof
<1>2. E \in SUBSET Nat /\ F \in SUBSET Nat /\ \A i \in E : i \in (p + 1)..Len(s)
  BY <1>0
<1>3. \A i \in (p + 1)..Len(s) : i - 1 \in 1..Len(s) /\ i \in 1..Len(s) /\ i \in (p + 1)..Len(u)
  BY <1>0
<1>4. \A i \in (p + 1)..Len(s) : i \in F <=> i \in E
  BY <1>0, <1>3
<1>5. \A i \in F : i \notin (p + 1)..Len(s) => i > Len(s) /\ i \in Nat
  BY <1>0
<1>6. F # {} => parse_single_line_reply(u, p) = Found(SubSeq(u, p, Min(F) - 2), Min(F) + 1)
  BY DEF parse_single_line_reply
<1> HIDE DEF E, F
<1>7. Min(E) \in E /\ \A m \in E : Min(E) <= m
  BY <1>1, <1>2, MinIsLeast
<1>8. Min(E) \in (p + 1)..Len(s) /\ Min(E) \in Nat
  BY <1>0, <1>2, <1>7
<1>9. Min(F) = Min(E)
  <2>1. Min(E) \in F
    BY <1>4, <1>7, <1>8
  <2>2. ASSUME NEW m \in F PROVE Min(E) <= m
    <3>1. CASE m \in (p + 1)..Len(s)
      BY <1>4, <1>7, <3>1
    <3>2. CASE m \notin (p + 1)..Len(s)
      BY <1>0, <1>5, <1>8, <3>2
    <3> QED BY <3>1, <3>2
  <2> QED BY <1>2, <2>1, <2>2, MinSame
<1>10. SubSeq(u, p, Min(E) - 2) = SubSeq(s, p, Min(E) - 2)
  BY <1>0, <1>8, SubSeqSame
<1>11. F # {}
  BY <1>4, <1>7, <1>8
<1>12. Found(SubSeq(s, p, Min(E) - 2), Min(E) + 1).next = Min(E) + 1
  BY DEF Found
<1>13. Min(E) + 1 \in (p + 1)..(Len(s) + 1)
  BY <1>0, <1>8
<1> QED BY <1>1, <1>6, <1>9, <1>10, <1>11, <1>12, <1>13

(* Data that fit behind position n are inside the text and all longer ones. *)
LEMMA Fits ==
    ASSUME NEW l \in Nat, NEW m \in Nat, l <= m, NEW n \in Nat, NEW v \in Nat,
           ~(l + 1 - n < v + 2)
    PROVE  n + v + 1 <= l /\ ~(m + 1 - n < v + 2)
OBVIOUS

LEMMA BulkComplete ==
    ASSUME NEW s, NEW u, Prefix(s, u), NEW p \in 1..(Len(s) + 1),
           parse_bulk_reply2(s, p).st = "ok"
    PROVE  /\ parse_bulk_reply2(u, p) = parse_bulk_reply2(s, p)
           /\ parse_bulk_reply(s, p) = parse_bulk_reply2(s, p)
           /\ parse_bulk_reply2(s, p).next \in (p + 1)..(Len(s) + 1)
<1> DEFINE num == Number(s, p, SizeMod)
           end == num.next + num.val
<1>0. /\ Len(s) \in Nat /\ Len(u) \in Nat /\ Len(s) <= Len(u) /\ p \in Nat \ {0}
      /\ \A i \in 1..Len(s) : u[i] = s[i]
  <2>1. Len(s) \in Nat /\ Len(u) \in Nat /\ Len(s) <= Len(u)
    BY PrefixLengths
  <2> QED BY <2>1 DEF Prefix
<1>1. /\ ~(p <= Len(s) /\ s[p] = "-")
      /\ parse_bulk_reply2(s, p) = BulkData(s, num)
      /\ parse_bulk_reply(s, p) = BulkData(s, num)
  BY DEF parse_bulk_reply2, parse_bulk_reply, Bad
<1>2. /\ num.st = "ok" /\ num.val # SizeMod - 1 /\ num.val # SizeMod - 2
      /\ ~(Len(s) + 1 - num.next < num.val + 2)
      /\ s[end] = CR /\ s[end + 1] = LF
      /\ BulkData(s, num) = Found(SubSeq(s, num.next, end - 1), end + 2)
  <2>1. BulkData(s, num).st = "ok"
    BY <1>1
  <2> HIDE DEF num
  <2> QED BY <2>1 DEF BulkData, Eof, Bad
<1>3. /\ NumEnd(s, p) \in p..(Len(s) - 1) /\ num.val \in Nat /\ num.next = NumEnd(s, p) + 2
      /\ Number(u, p, SizeMod) = num
  BY <1>2, Moduli, NumberComplete
<1>4. p \in 1..Len(s) /\ num.next \in Nat /\ num.next > p + 1
  BY <1>0, <1>3
<1>5. /\ end \in 1..Len(s) /\ end + 1 \in 1..Len(s) /\ end + 2 \in (p + 1)..(Len(s) + 1)
      /\ end - 1 <= Len(s) /\ end - 1 \in Int /\ num.next \in Nat \ {0}
  <2>1. end \in Nat /\ end > p + 1 /\ num.next \in Nat \ {0}
    BY <1>0, <1>3, <1>4
  <2>2. end + 1 <= Len(s)
    <3> HIDE DEF num
    <3> QED BY <1>0, <1>2, <1>3, <1>4, Fits
  <2> HIDE DEF end
  <2> QED BY <1>0, <2>1, <2>2
<1>6. u[p] = s[p] /\ u[end] = CR /\ u[end + 1] = LF
      /\ ~(Len(u) + 1 - num.next < num.val + 2)
  <2>1. u[end] = s[end] /\ u[end + 1] = s[end + 1] /\ u[p] = s[p]
    BY <1>0, <1>4, <1>5
  <2>2. ~(Len(u) + 1 - num.next < num.val + 2)
    <3> HIDE DEF num
    <3> QED BY <1>0, <1>2, <1>3, <1>4, Fits
  <2> QED BY <1>2, <2>1, <2>2
<1>7. SubSeq(u, num.next, end - 1) = SubSeq(s, num.next, end - 1)
  BY <1>5, SubSeqSame
<1>8. parse_bulk_reply2(u, p) = BulkData(u, num)
  <2>1. ~(p <= Len(u) /\ u[p] = "-")
    BY <1>1, <1>4, <1>6
  <2> QED BY <1>3, <2>1 DEF parse_bulk_reply2
<1>9. BulkData(u, num) = Found(SubSeq(u, num.next, end - 1), end + 2)
  <2> HIDE DEF num
  <2> QED BY <1>2, <1>6 DEF BulkData
<1>10. Found(SubSeq(s, num.next, end - 1), end + 2).next = end + 2
  BY DEF Found
<1> HIDE DEF num, end
<1> QED BY <1>1, <1>2, <1>5, <1>7, <1>8, <1>9, <1>10

LEMMA ItemComplete ==
    ASSUME NEW s, NEW u, Prefix(s, u), NEW p \in 1..(Len(s) + 1),
           Item("ready", s, p).st = "ok"
    PROVE  /\ Item("ready", u, p) = Item("ready", s, p)
           /\ Item("reply", s, p) = Item("ready", s, p)
           /\ Item("ready", s, p).next \in (p + 1)..(Len(s) + 1)
<1>0. /\ Len(s) \in Nat /\ Len(u) \in Nat /\ Len(s) <= Len(u) /\ p \in Nat \ {0}
      /\ \A i \in 1..Len(s) : u[i] = s[i]
  <2>1. Len(s) \in Nat /\ Len(u) \in Nat /\ Len(s) <= Len(u)
    BY PrefixLengths
  <2> QED BY <2>1 DEF Prefix
<1>1. ~(p > Len(s)) /\ (s[p] \in {"+", "-", ":"} \/ s[p] = "$")
  <2>1. CASE p > Len(s)
    BY <2>1 DEF Item, Eof
  <2>2. CASE ~(p > Len(s)) /\ ~(s[p] \in {"+", "-", ":"}) /\ s[p] # "$"
    BY <2>2 DEF Item, Bad
  <2> QED BY <2>1, <2>2
<1>2. p \in 1..Len(s) /\ u[p] = s[p] /\ ~(p > Len(u)) /\ p + 1 \in 1..(Len(s) + 1)
  BY <1>0, <1>1
<1>3. CASE s[p] \in {"+", "-", ":"}
  <2>1. /\ Item("ready", s, p) = parse_single_line_reply(s, p + 1)
        /\ Item("reply", s, p) = parse_single_line_reply(s, p + 1)
        /\ Item("ready", u, p) = parse_single_line_reply(u, p + 1)
    BY <1>1, <1>2, <1>3 DEF Item
  <2>2. /\ parse_single_line_reply(u, p + 1) = parse_single_line_reply(s, p + 1)
        /\ parse_single_line_reply(s, p + 1).next \in (p + 1 + 1)..(Len(s) + 1)
    BY <1>2, <2>1, LineComplete
  <2>3. \A n \in (p + 1 + 1)..(Len(s) + 1) : n \in (p + 1)..(Len(s) + 1)
    BY <1>0
  <2> QED BY <2>1, <2>2, <2>3
<1>4. CASE s[p] = "$"
  <2>1. /\ Item("ready", s, p) = parse_bulk_reply2(s, p + 1)
        /\ Item("reply", s, p) = parse_bulk_reply(s, p + 1)
        /\ Item("ready", u, p) = parse_bulk_reply2(u, p + 1)
    BY <1>1, <1>2, <1>4 DEF Item
  <2>2. /\ parse_bulk_reply2(u, p + 1) = parse_bulk_reply2(s, p + 1)
        /\ parse_bulk_reply(s, p + 1) = parse_bulk_reply2(s, p + 1)
        /\ parse_bulk_reply2(s, p + 1).next \in (p + 1 + 1)..(Len(s) + 1)
    BY <1>2, <2>1, BulkComplete
  <2>3. \A n \in (p + 1 + 1)..(Len(s) + 1) : n \in (p + 1)..(Len(s) + 1)
    BY <1>0
  <2> QED BY <2>1, <2>2, <2>3
<1> QED BY <1>1, <1>3, <1>4

-----------------------------------------------------------------------------
(* The elements of a message, one after the other.                         *)
Then(done, it) == IF it.st = "ok" THEN Found(Append(done.val, it.val), it.next) ELSE it

Collected(scanner, s, num, n) ==
    CHOOSE f : f = [i \in 0..n |->
        IF i = 0 THEN Found(<<>>, num.next)
        ELSE IF f[i - 1].st = "ok" THEN Then(f[i - 1], Item(scanner, s, f[i - 1].next))
        ELSE f[i - 1]]

LEMMA CollectedExists ==
    ASSUME NEW scanner, NEW s, NEW num, NEW n \in Nat
    PROVE  Collected(scanner, s, num, n) =
               [i \in 0..n |->
                   IF i = 0 THEN Found(<<>>, num.next)
                   ELSE LET g == Collected(scanner, s, num, n)[i - 1]
                        IN  IF g.st = "ok" THEN Then(g, Item(scanner, s, g.next)) ELSE g]
<1> DEFINE After(g) == IF g.st = "ok" THEN Then(g, Item(scanner, s, g.next)) ELSE g
           Upto(f, k) ==
               f = [i \in 0..k |-> IF i = 0 THEN Found(<<>>, num.next) ELSE After(f[i - 1])]
           T == {k \in Nat : \E f : Upto(f, k)}
<1> HIDE DEF After
<1>1. 0 \in T
  <2>1. Upto([i \in 0..0 |-> Found(<<>>, num.next)], 0)
    OBVIOUS
  <2> QED BY <2>1
<1>2. ASSUME NEW k \in Nat, k \in T PROVE k + 1 \in T
  <2>1. PICK f : Upto(f, k)
    BY <1>2
  <2> DEFINE g == [i \in 0..(k + 1) |-> IF i = k + 1 THEN After(f[k]) ELSE f[i]]
  <2>2. Upto(g, k + 1)
    BY <2>1
  <2> HIDE DEF g, Upto
  <2> QED BY <2>2
<1>3. \E f : Upto(f, n)
  <2> HIDE DEF T
  <2>1. n \in T
    BY <1>1, <1>2, Induction
  <2> QED BY <2>1 DEF T
<1> QED BY <1>3 DEF Collected, After

LEMMA CollectedSteps ==
    ASSUME NEW scanner, NEW s, NEW num, NEW n \in Nat
    PROVE  LET f == Collected(scanner, s, num, n)
           IN  /\ f[0] = Found(<<>>, num.next)
               /\ \A i \in 0..(n - 1) :
                     /\ f[i].st = "ok" => f[i + 1] = Then(f[i], Item(scanner, s, f[i].next))
                     /\ f[i].st # "ok" => f[i + 1] = f[i]
<1> DEFINE f == Collected(scanner, s, num, n)
           After(g) == IF g.st = "ok" THEN Then(g, Item(scanner, s, g.next)) ELSE g
<1>1. f = [i \in 0..n |-> IF i = 0 THEN Found(<<>>, num.next) ELSE After(f[i - 1])]
  BY CollectedExists
<1> HIDE DEF f, After
<1>2. f[0] = Found(<<>>, num.next)
  BY <1>1
<1>3. \A i \in 0..(n - 1) : f[i + 1] = After(f[i])
  BY <1>1
<1> QED BY <1>2, <1>3 DEF f, After

(* If every element that one scanner finds in a text is found alike by the *)
(* other, or in a longer text, so are all the elements of a message.       *)
LEMMA ItemsTransfer ==
    ASSUME NEW s, NEW u, NEW scanner, Len(s) \in Nat, NEW num,
           num.st = "ok", num.val \in Nat, num.next \in 1..(Len(s) + 1),
           \A p \in 1..(Len(s) + 1) : Item("ready", s, p).st = "ok" =>
               /\ Item(scanner, u, p) = Item("ready", s, p)
               /\ Item("ready", s, p).next \in (p + 1)..(Len(s) + 1),
           Items("ready", s, num).st = "ok"
    PROVE  /\ Items(scanner, u, num) = Items("ready", s, num)
           /\ Items("ready", s, num).next \in num.next..(Len(s) + 1)
<1> DEFINE n == num.val
           f == Collected("ready", s, num, n)
           g == Collected(scanner, u, num, n)
           T == {k \in Nat : k <= n /\ f[k].st = "ok" =>
                                g[k] = f[k] /\ f[k].next \in num.next..(Len(s) + 1)}
<1>1. Items("ready", s, num) = f[n] /\ Items(scanner, u, num) = g[n]
  BY DEF Items, Collected, Then
<1>2. /\ f[0] = Found(<<>>, num.next) /\ g[0] = Found(<<>>, num.next)
      /\ \A i \in 0..(n - 1) :
            /\ f[i].st = "ok" => f[i + 1] = Then(f[i], Item("ready", s, f[i].next))
            /\ f[i].st # "ok" => f[i + 1] = f[i]
            /\ g[i].st = "ok" => g[i + 1] = Then(g[i], Item(scanner, u, g[i].next))
  BY CollectedSteps
<1> HIDE DEF f, g
<1>3. 0 \in T
  <2>1. Found(<<>>, num.next).next = num.next
    BY DEF Found
  <2> QED BY <1>2, <2>1
<1>4. ASSUME NEW k \in Nat, k \in T PROVE k + 1 \in T
  <2> SUFFICES ASSUME k + 1 <= n, f[k + 1].st = "ok"
               PROVE  g[k + 1] = f[k + 1] /\ f[k + 1].next \in num.next..(Len(s) + 1)
    OBVIOUS
  <2>1. k \in 0..(n - 1) /\ k <= n
    OBVIOUS
  <2>2. f[k].st = "ok" /\ f[k + 1] = Then(f[k], Item("ready", s, f[k].next))
    BY <1>2, <2>1
  <2>3. g[k] = f[k] /\ f[k].next \in num.next..(Len(s) + 1)
    BY <1>4, <2>1, <2>2
  <2> DEFINE it == Item("ready", s, f[k].next)
  <2>4. it.st = "ok" /\ f[k + 1].next = it.next
    <3> HIDE DEF it
    <3> QED BY <2>2 DEF Then, Found, it
  <2>5. /\ Item(scanner, u, f[k].next) = it
        /\ it.next \in (f[k].next + 1)..(Len(s) + 1)
    BY <2>3, <2>4
  <2>6. g[k + 1] = f[k + 1]
    BY <1>2, <2>1, <2>2, <2>3, <2>5
  <2> QED BY <2>3, <2>4, <2>5, <2>6
<1>5. n \in T
  <2> HIDE DEF T
  <2> QED BY <1>3, <1>4, Induction
<1> QED BY <1>1, <1>5

LEMMA ReplyOfMulti ==
    ASSUME NEW s, Len(s) \in Nat, 1 \in 1..Len(s), s[1] = "*",
           NEW r, parse_multi_bulk_reply(s, 2) = r, r.st = "ok"
    PROVE  parse_reply(s) = [typ |-> "multi", val |-> r.val, next |-> r.next]
<1>1. ~(1 > Len(s)) /\ 1 + 1 = 2
  OBVIOUS
<1>2. Types["*"] = "multi"
  BY DEF Types
<1> QED BY <1>1, <1>2 DEF parse_reply, parse_reply_helper

(* What parse_reply makes of a message that parse_ready has found. *)
Value(s) == IF Number(s, 2, IntMod).val = IntMod - 1 THEN Null ELSE parse_ready(s).val
Reply(s) == [typ |-> "multi", val |-> Value(s), next |-> parse_ready(s).next + 1]

(* A whole message at the front of a text is inside it, stays what it is   *)
(* when more comes, and parse_reply takes the same text apart.             *)
LEMMA ReadyComplete ==
    ASSUME NEW s, NEW u, Prefix(s, u), s # <<>>, parse_ready(s).st = "ok"
    PROVE  /\ parse_ready(u) = parse_ready(s)
           /\ parse_ready(s).next \in 1..Len(s)
           /\ Number(u, 2, IntMod) = Number(s, 2, IntMod)
           /\ parse_reply(s) = Reply(s)
<1>0. /\ Len(s) \in Nat /\ Len(u) \in Nat /\ Len(s) <= Len(u)
      /\ 1 \in 1..Len(s) /\ 2 \in 1..(Len(s) + 1) /\ u[1] = s[1]
  <2>1. Len(s) \in Nat /\ Len(u) \in Nat /\ Len(s) <= Len(u)
    BY PrefixLengths
  <2>2. Len(s) # 0
    BY EmptySeq DEF Prefix
  <2> QED BY <2>1, <2>2 DEF Prefix
<1> DEFINE raw == Number(s, 2, IntMod)
           num == Passes(raw)
           q == NumEnd(s, 2)
           r == parse_multi_bulk_reply2(s, 2)
<1>1. s[1] = "*" /\ r.st = "ok" /\ parse_ready(s) = Found(r.val, r.next - 1)
  BY DEF parse_ready, Bad
<1>2. /\ ~(q <= Len(s) /\ s[q] = CR /\ NumVal(SubSeq(s, 2, q - 1)) % IntMod = 0)
      /\ r = Items("ready", s, num)
  BY <1>1 DEF parse_multi_bulk_reply2, Bad
<1>3. raw.st = "ok" /\ num.st = "ok"
  <2>1. num.st = "ok"
    <3> HIDE DEF num
    <3>1. Items("ready", s, num).st = "ok"
      BY <1>1, <1>2
    <3> QED BY <3>1 DEF Items
  <2>2. raw.st = "ok"
    <3> HIDE DEF raw
    <3> QED BY <2>1 DEF Passes
  <2> QED BY <2>1, <2>2
<1>4. /\ q \in 2..(Len(s) - 1) /\ s[q] = CR
      /\ raw.val \in Nat /\ raw.next = q + 2
      /\ NumEnd(u, 2) = q
      /\ Number(u, 2, IntMod) = raw
      /\ NumVal(SubSeq(u, 2, q - 1)) = NumVal(SubSeq(s, 2, q - 1))
  BY <1>0, <1>3, Moduli, NumberComplete
<1>4a. num.val \in Nat /\ num.next = raw.next
  <2> HIDE DEF raw
  <2> QED BY <1>4 DEF Passes, Found
<1>5. num.next \in 1..(Len(s) + 1) /\ num.next > 2 /\ num.next \in Nat
  <2> HIDE DEF num, raw
  <2> QED BY <1>0, <1>4, <1>4a
<1>6. \A p \in 1..(Len(s) + 1) : Item("ready", s, p).st = "ok" =>
          /\ Item("ready", u, p) = Item("ready", s, p)
          /\ Item("reply", s, p) = Item("ready", s, p)
          /\ Item("ready", s, p).next \in (p + 1)..(Len(s) + 1)
  BY ItemComplete
<1>7. /\ Items("ready", u, num) = Items("ready", s, num)
      /\ Items("ready", s, num).next \in num.next..(Len(s) + 1)
  <2> HIDE DEF num
  <2> QED BY <1>0, <1>1, <1>2, <1>3, <1>4a, <1>5, <1>6, ItemsTransfer
<1>8. Items("reply", s, num) = Items("ready", s, num)
  <2> HIDE DEF num
  <2> QED BY <1>0, <1>1, <1>2, <1>3, <1>4a, <1>5, <1>6, ItemsTransfer
<1>9. parse_ready(u) = parse_ready(s)
  <2>1. parse_multi_bulk_reply2(u, 2) = Items("ready", u, num)
    <3>1. ~(q <= Len(u) /\ u[q] = CR /\ NumVal(SubSeq(u, 2, q - 1)) % IntMod = 0)
      BY <1>0, <1>2, <1>4
    <3> QED BY <1>4, <3>1 DEF parse_multi_bulk_reply2
  <2>2. parse_multi_bulk_reply2(u, 2) = r
    BY <1>2, <1>7, <2>1
  <2> HIDE DEF r
  <2> QED BY <1>0, <1>1, <2>2 DEF parse_ready
<1>10. parse_ready(s).next \in 1..Len(s) /\ r.next \in Nat /\ parse_ready(s).next = r.next - 1
       /\ parse_ready(s).val = r.val
  <2>1. r.next \in num.next..(Len(s) + 1)
    BY <1>2, <1>7
  <2> HIDE DEF r, num
  <2> QED BY <1>0, <1>1, <1>5, <2>1 DEF Found
<1>11. ASSUME raw.val # IntMod - 1 PROVE parse_reply(s) = Reply(s)
  <2>1. s[q] # "-"
    BY <1>4 DEF CR
  <2>2. parse_multi_bulk_reply(s, 2) = r
    BY <1>2, <1>8, <1>11, <2>1 DEF parse_multi_bulk_reply
  <2>3. parse_reply(s) = [typ |-> "multi", val |-> r.val, next |-> r.next]
    <3> HIDE DEF r
    <3> QED BY <1>0, <1>1, <2>2, ReplyOfMulti
  <2>4. parse_ready(s).next + 1 = r.next
    <3> HIDE DEF r
    <3> QED BY <1>10
  <2> HIDE DEF r
  <2>5. Value(s) = r.val
    BY <1>10, <1>11 DEF Value
  <2> QED BY <2>3, <2>4, <2>5 DEF Reply
<1>12. ASSUME raw.val = IntMod - 1 PROVE parse_reply(s) = Reply(s)
  <2>1. s[q] # "-"
    BY <1>4 DEF CR
  <2>2. parse_multi_bulk_reply(s, 2) = Found(Null, raw.next)
    BY <1>3, <1>12, <2>1 DEF parse_multi_bulk_reply
  <2>3. num.val = 0
    <3>1. 2 * raw.val >= IntMod
      <4> HIDE DEF raw
      <4> QED BY <1>12, ModAssumption
    <3> HIDE DEF raw
    <3> QED BY <1>3, <3>1 DEF Passes, Found
  <2>4. r = Found(<<>>, num.next)
    <3> HIDE DEF num
    <3>1. Items("ready", s, num) = Collected("ready", s, num, 0)[0]
      BY <1>3, <2>3 DEF Items, Collected, Then
    <3>2. Collected("ready", s, num, 0)[0] = Found(<<>>, num.next)
      BY CollectedSteps
    <3> QED BY <1>2, <3>1, <3>2
  <2>5. Found(Null, raw.next) = [st |-> "ok", val |-> Null, next |-> r.next]
    <3>1. r.next = num.next
      BY <2>4 DEF Found
    <3> QED BY <1>4a, <3>1 DEF Found
  <2>6. parse_reply(s) = [typ |-> "multi", val |-> Null, next |-> r.next]
    <3> HIDE DEF r, raw
    <3>1. [st |-> "ok", val |-> Null, next |-> r.next].st = "ok"
      OBVIOUS
    <3> QED BY <1>0, <1>1, <2>2, <2>5, <3>1, ReplyOfMulti
  <2>7. parse_ready(s).next + 1 = r.next
    <3> HIDE DEF r
    <3> QED BY <1>10
  <2> HIDE DEF r
  <2>8. Value(s) = Null
    BY <1>12 DEF Value
  <2> QED BY <2>6, <2>7, <2>8 DEF Reply
<1> QED BY <1>4, <1>9, <1>10, <1>11, <1>12

-----------------------------------------------------------------------------
(* The part of the stream that has been read. *)
Reading == stream \in Streams /\ pos \in 0..Len(stream.bytes)

LEMMA ReadingHolds == Spec => []Reading
<1>1. Init => Reading
  BY WireAssumption, LenProperties DEF Init, Reading
<1>2. Reading /\ [Next]_vars => Reading'
  <2> SUFFICES ASSUME Reading, [Next]_vars PROVE Reading'
    OBVIOUS
  <2>1. Len(stream.bytes) \in Nat
    BY WireAssumption, LenProperties DEF Reading
  <2>2. CASE UNCHANGED vars
    BY <2>2 DEF vars, Reading
  <2>3. ASSUME NEW n \in 1..(Len(stream.bytes) - pos), Recv(n) PROVE Reading'
    <3>1. pos' = pos + n /\ stream' = stream
      BY <2>3 DEF Recv
    <3> QED BY <2>1, <3>1 DEF Reading
  <2> QED BY <2>2, <2>3 DEF Next
<1> QED BY <1>1, <1>2, PTL DEF Spec

LEMMA SeenText ==
    ASSUME Reading
    PROVE  Seen \in Seq(Chars) /\ Len(Seen) = pos /\ pos \in Nat
<1>1. stream.bytes \in Seq(Chars) /\ Len(stream.bytes) \in Nat
  BY WireAssumption, LenProperties DEF Reading
<1>2. \A i \in 1..pos : stream.bytes[i] \in Chars
  BY <1>1, ElementOfSeq DEF Reading
<1> QED BY <1>1, <1>2, SubSeqProperties DEF Reading, Seen

(* For any text that a peer may send: if parse_ready finds a message at    *)
(* its front, parse_reply takes the same text apart into the same elements *)
(* (redis-parser.c:246-339, 679-790), or into nil where the count has      *)
(* wrapped to -1, whatever the widths of the counts and the sizes.         *)
THEOREM ScannersNeverDiffer == Spec => []ScannersAgree
<1>1. Reading => ScannersAgree
  <2> SUFFICES ASSUME Reading, pos > 0, parse_ready(Seen).st = "ok"
               PROVE  parse_reply(Seen) = Reply(Seen)
    BY DEF ScannersAgree, Reply, Value
  <2>1. Seen \in Seq(Chars) /\ Seen # <<>>
    BY SeenText, EmptySeq
  <2>2. Prefix(Seen, Seen)
    BY <2>1, LenProperties DEF Prefix
  <2> QED BY <2>1, <2>2, ReadyComplete
<1> QED BY <1>1, ReadingHolds, PTL

-----------------------------------------------------------------------------
(* The loop over a buffer.                                                 *)
St(d, g, e, o) == [data |-> d, got |-> g, err |-> e, on |-> o]
IsSeq(g) == \E S : g \in Seq(S)

(* What one pass does with a buffer depends on the buffer alone. *)
Elements(d) == parse_reply(d).val
Verdict(role, d) == Dispatch(role, tomap(Elements(d)))
Takes(role, d) ==
    /\ d # <<>> /\ parse_ready(d).st = "ok"
    /\ Elements(d) # Null /\ checkarr(Elements(d))
    /\ Verdict(role, d) \in {"ok", "ignored"}
Waits(d) == d = <<>> \/ parse_ready(d).st = "eof"
Rest(d) == Trim(d, parse_ready(d).next)
Given(role, d, g) ==
    IF Verdict(role, d) = "ok" THEN Append(g, tomap(Elements(d))) ELSE g

LEMMA PrefixSelf == ASSUME NEW d \in Seq(Chars) PROVE Prefix(d, d)
BY LenProperties DEF Prefix

LEMMA Verdicts ==
    ASSUME NEW role, NEW d
    PROVE  Verdict(role, d) \in {"ok", "ignored", "miss id", "no id", "error"}
BY DEF Verdict, Dispatch

LEMMA PassTakes ==
    ASSUME NEW role, NEW d \in Seq(Chars), NEW g, Takes(role, d)
    PROVE  Pass(role, St(d, g, "none", TRUE)) = St(Rest(d), Given(role, d, g), "none", TRUE)
<1> DEFINE st == St(d, g, "none", TRUE)
<1>1. st.data = d /\ st.got = g /\ st.err = "none"
  BY DEF St
<1>2. /\ parse_ready(d).st = "ok" /\ parse_reply(d).typ = "multi"
      /\ parse_reply(d).val = Elements(d) /\ d # <<>>
  <2>1. parse_reply(d) = Reply(d)
    BY PrefixSelf, ReadyComplete DEF Takes
  <2> QED BY <2>1 DEF Takes, Elements, Reply
<1>3. /\ Verdict(role, d) \in {"ok", "ignored"}
      /\ Elements(d) # Null /\ checkarr(Elements(d))
  BY DEF Takes
<1>4. (Verdict(role, d) \in {"ok", "ignored"}) = TRUE
  BY <1>3
<1> HIDE DEF st
<1>5. Pass(role, st) = [data |-> Rest(d), got |-> Given(role, d, g), err |-> "none",
                        on |-> (Verdict(role, d) \in {"ok", "ignored"})]
  BY <1>1, <1>2, <1>3 DEF Pass, Rest, Given, Verdict
<1> QED BY <1>4, <1>5 DEF st, St

LEMMA PassWaits ==
    ASSUME NEW role, NEW d, NEW g, Waits(d)
    PROVE  Pass(role, St(d, g, "none", TRUE)) = St(d, g, "none", FALSE)
BY DEF Pass, St, Waits

(* A pass that neither takes nor waits ends the reading with an error; what *)
(* it leaves does not depend on what was dispatched before.                *)
LEMMA PassFails ==
    ASSUME NEW role, NEW d \in Seq(Chars), ~Takes(role, d), ~Waits(d)
    PROVE  \E x, e : e # "none" /\
               \A g : Pass(role, St(d, g, "none", TRUE)) = St(x, g, e, FALSE)
<1>1. d # <<>> /\ parse_ready(d).st # "eof"
  BY DEF Waits
<1>2. ASSUME parse_ready(d).st = "ok"
      PROVE  parse_reply(d).typ = "multi" /\ parse_reply(d).val = Elements(d)
  <2>1. parse_reply(d) = Reply(d)
    BY <1>1, <1>2, PrefixSelf, ReadyComplete
  <2> QED BY <2>1 DEF Elements, Reply
<1>3. CASE parse_ready(d).st # "ok"
  <2>1. \A g : Pass(role, St(d, g, "none", TRUE)) = St(d, g, "parse", FALSE)
    BY <1>1, <1>3 DEF Pass, St
  <2> QED BY <2>1
<1>4. CASE parse_ready(d).st = "ok" /\ (Elements(d) = Null \/ ~checkarr(Elements(d)))
  <2>1. \A g : Pass(role, St(d, g, "none", TRUE)) = St(d, g, "data", FALSE)
    BY <1>1, <1>2, <1>4 DEF Pass, St
  <2> QED BY <2>1
<1>5. CASE parse_ready(d).st = "ok" /\ Elements(d) # Null /\ checkarr(Elements(d))
  <2> DEFINE v == Verdict(role, d)
  <2>1. v \notin {"ok", "ignored"} /\ v # "none"
    BY <1>1, <1>5, Verdicts DEF Takes
  <2>2. (v \in {"ok", "ignored"}) = FALSE
    BY <2>1
  <2>3. \A g : Pass(role, St(d, g, "none", TRUE)) =
                  [data |-> Rest(d), got |-> g, err |-> v, on |-> (v \in {"ok", "ignored"})]
    BY <1>1, <1>2, <1>5, <2>1 DEF Pass, St, Rest, Verdict
  <2>4. \A g : Pass(role, St(d, g, "none", TRUE)) = St(Rest(d), g, v, FALSE)
    BY <2>2, <2>3 DEF St
  <2> QED BY <2>1, <2>4
<1> QED BY <1>3, <1>4, <1>5

(* A message that is taken is taken all the same when more has come, and   *)
(* what comes later stays behind it.                                       *)
LEMMA ConcatPrefix ==
    ASSUME NEW a \in Seq(Chars), NEW b \in Seq(Chars)
    PROVE  Prefix(a, a \o b) /\ a \o b \in Seq(Chars) /\ Len(a \o b) = Len(a) + Len(b)
BY ConcatProperties, LenProperties DEF Prefix

LEMMA RestShorter ==
    ASSUME NEW role, NEW d \in Seq(Chars), Takes(role, d)
    PROVE  /\ Rest(d) \in Seq(Chars)
           /\ Len(Rest(d)) + 1 <= Len(d) /\ Len(Rest(d)) \in Nat
           /\ Len(d) \in Nat /\ parse_ready(d).next \in 1..Len(d)
<1> DEFINE n == parse_ready(d).next
<1>1. n \in 1..Len(d) /\ Len(d) \in Nat
  BY PrefixSelf, ReadyComplete, LenProperties DEF Takes
<1>2. \A i \in (n + 1)..Len(d) : d[i] \in Chars
  BY <1>1, ElementOfSeq
<1> HIDE DEF n
<1>3. /\ SubSeq(d, n + 1, Len(d)) \in Seq(Chars)
      /\ Len(SubSeq(d, n + 1, Len(d))) = IF n + 1 <= Len(d) THEN Len(d) - (n + 1) + 1 ELSE 0
  BY <1>1, <1>2, SubSeqProperties
<1>4. Rest(d) = SubSeq(d, n + 1, Len(d))
  BY DEF Rest, Trim, n
<1> QED BY <1>1, <1>3, <1>4 DEF n

LEMMA DropFirst ==
    ASSUME NEW u \in Seq(Chars), NEW n \in 0..Len(u)
    PROVE  /\ SubSeq(u, n + 1, Len(u)) \in Seq(Chars)
           /\ Len(SubSeq(u, n + 1, Len(u))) = Len(u) - n
           /\ \A i \in 1..(Len(u) - n) : SubSeq(u, n + 1, Len(u))[i] = u[n + i]
<1>1. Len(u) \in Nat /\ n \in Nat /\ n <= Len(u)
  BY LenProperties
<1>2. \A i \in (n + 1)..Len(u) : u[i] \in Chars
  BY <1>1, ElementOfSeq
<1> DEFINE y == SubSeq(u, n + 1, Len(u))
<1>3. /\ y \in Seq(Chars)
      /\ Len(y) = IF n + 1 <= Len(u) THEN Len(u) - (n + 1) + 1 ELSE 0
      /\ \A i \in 1..(Len(u) - (n + 1) + 1) : y[i] = u[n + 1 + i - 1]
  BY <1>1, <1>2, SubSeqProperties
<1> HIDE DEF y
<1>4. \A i \in 1..(Len(u) - n) : y[i] = u[n + i]
  <2> TAKE i \in 1..(Len(u) - n)
  <2>1. i \in 1..(Len(u) - (n + 1) + 1) /\ n + 1 + i - 1 = n + i
    BY <1>1
  <2> QED BY <1>3, <2>1
<1>5. Len(y) = Len(u) - n
  BY <1>1, <1>3
<1> QED BY <1>3, <1>4, <1>5 DEF y

LEMMA ElementsSame ==
    ASSUME NEW d, NEW u, Prefix(d, u), d # <<>>, u # <<>>, parse_ready(d).st = "ok"
    PROVE  Elements(u) = Elements(d) /\ parse_ready(u) = parse_ready(d)
<1>1. /\ parse_ready(u) = parse_ready(d) /\ Number(u, 2, IntMod) = Number(d, 2, IntMod)
      /\ parse_reply(d) = Reply(d)
  BY ReadyComplete
<1>2. u \in Seq(Chars) /\ parse_ready(u).st = "ok"
  BY <1>1 DEF Prefix
<1>3. parse_reply(u) = Reply(u)
  BY <1>2, PrefixSelf, ReadyComplete
<1> QED BY <1>1, <1>3 DEF Elements, Reply, Value

LEMMA TakesMore ==
    ASSUME NEW role, NEW d \in Seq(Chars), NEW b \in Seq(Chars), Takes(role, d)
    PROVE  /\ Takes(role, d \o b)
           /\ Rest(d \o b) = Rest(d) \o b
           /\ \A g : Given(role, d \o b, g) = Given(role, d, g)
<1> DEFINE n == parse_ready(d).next
           u == d \o b
<1>1. Prefix(d, u) /\ u \in Seq(Chars) /\ Len(u) = Len(d) + Len(b)
  BY ConcatPrefix
<1>2. parse_ready(u) = parse_ready(d) /\ n \in 1..Len(d) /\ d # <<>>
  BY <1>1, ReadyComplete DEF Takes
<1>3. Len(d) \in Nat /\ Len(b) \in Nat /\ n \in Nat
  BY <1>2, LenProperties
<1>4. u # <<>>
  <2>1. Len(u) # 0
    BY <1>1, <1>2, <1>3
  <2> QED BY <1>1, <2>1, EmptySeq
<1>5. Takes(role, u) /\ \A g : Given(role, u, g) = Given(role, d, g)
  <2>1. Elements(u) = Elements(d) /\ parse_ready(u).st = "ok"
    BY <1>1, <1>2, <1>4, ElementsSame DEF Takes
  <2> QED BY <1>4, <2>1 DEF Takes, Given, Verdict
<1>6. Rest(u) = Rest(d) \o b
  <2> DEFINE x == SubSeq(d, n + 1, Len(d))
             y == SubSeq(u, n + 1, Len(u))
  <2>0. Rest(u) = y /\ Rest(d) = x
    BY <1>2 DEF Rest, Trim
  <2> HIDE DEF n, u
  <2>2. x \in Seq(Chars) /\ Len(x) = Len(d) - n /\ \A i \in 1..(Len(d) - n) : x[i] = d[n + i]
    <3>1. n \in 0..Len(d)
      BY <1>2, <1>3
    <3> QED BY <3>1, DropFirst
  <2>3. /\ y \in Seq(Chars) /\ Len(y) = Len(d) + Len(b) - n
        /\ \A i \in 1..(Len(d) + Len(b) - n) : y[i] = u[n + i]
    <3>1. n \in 0..Len(u)
      BY <1>1, <1>2, <1>3
    <3> QED BY <1>1, <3>1, DropFirst
  <2> HIDE DEF x, y
  <2>4. /\ x \o b \in Seq(Chars) /\ Len(x \o b) = Len(x) + Len(b)
        /\ \A i \in 1..(Len(x) + Len(b)) :
              (x \o b)[i] = IF i <= Len(x) THEN x[i] ELSE b[i - Len(x)]
    BY <2>2, ConcatProperties
  <2>5. \A i \in 1..(Len(d) + Len(b)) : u[i] = IF i <= Len(d) THEN d[i] ELSE b[i - Len(d)]
    BY ConcatProperties DEF u
  <2>6. ASSUME NEW i \in 1..Len(y) PROVE y[i] = (x \o b)[i]
    <3>1. /\ i \in Nat /\ i \in 1..(Len(x) + Len(b)) /\ n + i \in 1..(Len(d) + Len(b))
          /\ Len(x) \in Nat
      BY <1>2, <1>3, <2>2, <2>3
    <3>2. CASE i <= Len(x)
      <4>1. n + i <= Len(d) /\ i \in 1..Len(x)
        BY <1>3, <2>2, <3>1, <3>2
      <4> QED BY <2>2, <2>3, <2>4, <2>5, <3>1, <3>2, <4>1
    <3>3. CASE ~(i <= Len(x))
      <4>1. ~(n + i <= Len(d)) /\ n + i - Len(d) = i - Len(x)
        BY <1>3, <2>2, <3>1, <3>3
      <4>2. y[i] = u[n + i]
        BY <2>3, <3>1
      <4>3. u[n + i] = b[n + i - Len(d)]
        BY <1>3, <2>5, <3>1, <4>1
      <4>4. (x \o b)[i] = b[i - Len(x)]
        BY <2>4, <3>1, <3>3
      <4> QED BY <4>1, <4>2, <4>3, <4>4
    <3> QED BY <3>2, <3>3
  <2>7. Len(y) = Len(x \o b)
    BY <1>3, <2>2, <2>3, <2>4
  <2>8. y = x \o b
    BY <2>3, <2>4, <2>6, <2>7, SeqEqual
  <2> QED BY <2>0, <2>8 DEF u
<1> QED BY <1>5, <1>6

(* Sequences of anything. *)
LEMMA EmptyIsSeq == IsSeq(<<>>)
BY EmptySeq DEF IsSeq

LEMMA AppendIsSeq ==
    ASSUME NEW g, NEW m, IsSeq(g)
    PROVE  IsSeq(Append(g, m))
<1>1. PICK S : g \in Seq(S)
  BY DEF IsSeq
<1>2. g \in Seq(S \cup {m})
  BY <1>1, SeqDef
<1>3. Append(g, m) \in Seq(S \cup {m})
  BY <1>2, AppendProperties
<1> QED BY <1>3 DEF IsSeq

LEMMA ConcatIsSeq ==
    ASSUME NEW g, NEW h, NEW m, IsSeq(g), IsSeq(h)
    PROVE  /\ IsSeq(g \o h)
           /\ g \o <<>> = g
           /\ Append(g \o h, m) = g \o Append(h, m)
<1>1. PICK S, T : g \in Seq(S) /\ h \in Seq(T)
  BY DEF IsSeq
<1> DEFINE U == S \cup T \cup {m}
<1>2. g \in Seq(U) /\ h \in Seq(U) /\ <<m>> \in Seq(U) /\ m \in U
  <2>1. m \in U
    OBVIOUS
  <2> QED BY <1>1, SeqDef
<1> HIDE DEF U
<1>3. Append(h, m) = h \o <<m>> /\ Append(g \o h, m) = (g \o h) \o <<m>> /\ g \o h \in Seq(U)
  BY <1>2, AppendIsConcat, ConcatProperties
<1>4. (g \o h) \o <<m>> = g \o (h \o <<m>>)
  BY <1>2, ConcatAssociative
<1>5. g \o <<>> = g
  BY <1>2, ConcatEmptySeq
<1> QED BY <1>3, <1>4, <1>5 DEF IsSeq

(* The state after some passes: still on, with at most len bytes left, or  *)
(* ended.  Another run of the loop that began with the messages first is   *)
(* in the same state, with those messages in front.                        *)
Going(z, w, first, len) ==
    \E x, g :
        /\ x \in Seq(Chars) /\ IsSeq(g) /\ Len(x) <= len
        /\ z = St(x, g, "none", TRUE) /\ w = St(x, first \o g, "none", TRUE)
Ended(z, w, first) ==
    \E x, g, e : /\ IsSeq(g)
                 /\ z = St(x, g, e, FALSE) /\ w = St(x, first \o g, e, FALSE)

LEMMA PassAlike ==
    ASSUME NEW role, NEW d \in Seq(Chars), NEW g, NEW first, IsSeq(g), IsSeq(first)
    PROVE  LET z == Pass(role, St(d, g, "none", TRUE))
               w == Pass(role, St(d, first \o g, "none", TRUE))
           IN  Going(z, w, first, Len(d) - 1) \/ Ended(z, w, first)
<1> DEFINE z == Pass(role, St(d, g, "none", TRUE))
           w == Pass(role, St(d, first \o g, "none", TRUE))
<1> SUFFICES Going(z, w, first, Len(d) - 1) \/ Ended(z, w, first)
  OBVIOUS
<1>1. CASE Takes(role, d)
  <2>1. /\ z = St(Rest(d), Given(role, d, g), "none", TRUE)
        /\ w = St(Rest(d), Given(role, d, first \o g), "none", TRUE)
    BY <1>1, PassTakes
  <2>2. IsSeq(Given(role, d, g)) /\ Given(role, d, first \o g) = first \o Given(role, d, g)
    BY AppendIsSeq, ConcatIsSeq DEF Given
  <2>3. Rest(d) \in Seq(Chars) /\ Len(Rest(d)) <= Len(d) - 1
    BY <1>1, RestShorter
  <2> HIDE DEF z, w
  <2> QED BY <2>1, <2>2, <2>3 DEF Going
<1>2. CASE Waits(d)
  <2>1. z = St(d, g, "none", FALSE) /\ w = St(d, first \o g, "none", FALSE)
    BY <1>2, PassWaits
  <2> HIDE DEF z, w
  <2> QED BY <2>1 DEF Ended
<1>3. CASE ~Takes(role, d) /\ ~Waits(d)
  <2>1. PICK x, e : e # "none" /\
                    \A h : Pass(role, St(d, h, "none", TRUE)) = St(x, h, e, FALSE)
    BY <1>3, PassFails, Zenon
  <2>2. z = St(x, g, e, FALSE) /\ w = St(x, first \o g, e, FALSE)
    BY <2>1
  <2> HIDE DEF z, w
  <2> QED BY <2>2 DEF Ended
<1> QED BY <1>1, <1>2, <1>3

(* The states of the loop. *)
After(role, st) == IF st.on THEN Pass(role, st) ELSE st
Loop(role, buf, n) ==
    CHOOSE f : f = [i \in 0..n |-> IF i = 0 THEN St(buf, <<>>, "none", TRUE)
                                   ELSE After(role, f[i - 1])]

LEMMA LoopSteps ==
    ASSUME NEW role, NEW buf, NEW n \in Nat
    PROVE  /\ Loop(role, buf, n)[0] = St(buf, <<>>, "none", TRUE)
           /\ \A i \in 0..(n - 1) :
                 Loop(role, buf, n)[i + 1] = After(role, Loop(role, buf, n)[i])
<1> DEFINE Upto(f, k) ==
               f = [i \in 0..k |-> IF i = 0 THEN St(buf, <<>>, "none", TRUE)
                                   ELSE After(role, f[i - 1])]
           T == {k \in Nat : \E f : Upto(f, k)}
<1>1. 0 \in T
  <2>1. Upto([i \in 0..0 |-> St(buf, <<>>, "none", TRUE)], 0)
    OBVIOUS
  <2> QED BY <2>1
<1>2. ASSUME NEW k \in Nat, k \in T PROVE k + 1 \in T
  <2>1. PICK f : Upto(f, k)
    BY <1>2
  <2> DEFINE g == [i \in 0..(k + 1) |-> IF i = k + 1 THEN After(role, f[k]) ELSE f[i]]
  <2>2. Upto(g, k + 1)
    BY <2>1
  <2> HIDE DEF g, Upto
  <2> QED BY <2>2
<1>3. \E f : Upto(f, n)
  <2> HIDE DEF T
  <2>1. n \in T
    BY <1>1, <1>2, Induction
  <2> QED BY <2>1 DEF T
<1>4. Upto(Loop(role, buf, n), n)
  BY <1>3 DEF Loop
<1> DEFINE f == Loop(role, buf, n)
<1> HIDE DEF f
<1>5. f = [i \in 0..n |-> IF i = 0 THEN St(buf, <<>>, "none", TRUE) ELSE After(role, f[i - 1])]
  BY <1>4 DEF f
<1>6. f[0] = St(buf, <<>>, "none", TRUE) /\ \A i \in 0..(n - 1) : f[i + 1] = After(role, f[i])
  BY <1>5
<1> QED BY <1>6 DEF f

LEMMA DrainIsLoop ==
    ASSUME NEW role, NEW buf
    PROVE  Drain(role, buf) = Loop(role, buf, Len(buf) + 1)[Len(buf) + 1]
BY DEF Drain, Loop, After, St

LEMMA AfterAlike ==
    ASSUME NEW role, NEW z, NEW w, NEW first, NEW len \in Int, IsSeq(first),
           Going(z, w, first, len) \/ Ended(z, w, first)
    PROVE  LET z1 == After(role, z)
               w1 == After(role, w)
           IN  Going(z1, w1, first, len - 1) \/ Ended(z1, w1, first)
<1>1. CASE Going(z, w, first, len)
  <2>1. PICK x, g : /\ x \in Seq(Chars) /\ IsSeq(g) /\ Len(x) <= len
                    /\ z = St(x, g, "none", TRUE)
                    /\ w = St(x, first \o g, "none", TRUE)
    BY <1>1 DEF Going
  <2>2. After(role, z) = Pass(role, z) /\ After(role, w) = Pass(role, w)
    BY <2>1 DEF After, St
  <2> DEFINE z1 == Pass(role, z)
             w1 == Pass(role, w)
  <2>3. Going(z1, w1, first, Len(x) - 1) \/ Ended(z1, w1, first)
    BY <2>1, PassAlike
  <2> HIDE DEF z1, w1
  <2>4. Going(z1, w1, first, Len(x) - 1) => Going(z1, w1, first, len - 1)
    <3>1. ASSUME NEW y \in Seq(Chars), Len(y) <= Len(x) - 1 PROVE Len(y) <= len - 1
      <4>1. Len(x) \in Nat /\ Len(y) \in Nat
        BY LenProperties
      <4> QED BY <2>1, <3>1, <4>1
    <3> QED BY <3>1 DEF Going
  <2> QED BY <2>2, <2>3, <2>4 DEF z1, w1
<1>2. CASE Ended(z, w, first)
  <2>1. After(role, z) = z /\ After(role, w) = w
    BY <1>2 DEF Ended, After, St
  <2> QED BY <1>2, <2>1
<1> QED BY <1>1, <1>2

(* One run of the loop begins where another is after k passes. *)
LEMMA LoopAlike ==
    ASSUME NEW role, NEW whole, NEW buf \in Seq(Chars), NEW first, IsSeq(first),
           NEW n \in Nat, NEW m \in Nat, NEW k \in Nat, m + k <= n,
           Loop(role, whole, n)[k] = St(buf, first, "none", TRUE)
    PROVE  \A j \in 0..m :
               \/ Going(Loop(role, buf, m)[j], Loop(role, whole, n)[j + k], first, Len(buf) - j)
               \/ Ended(Loop(role, buf, m)[j], Loop(role, whole, n)[j + k], first)
<1> DEFINE h == Loop(role, buf, m)
           f == Loop(role, whole, n)
           Alike(j) == \/ Going(h[j], f[j + k], first, Len(buf) - j)
                       \/ Ended(h[j], f[j + k], first)
           T == {j \in Nat : j <= m => Alike(j)}
<1>0. Len(buf) \in Nat
  BY LenProperties
<1>1. /\ h[0] = St(buf, <<>>, "none", TRUE) /\ f[k] = St(buf, first, "none", TRUE)
      /\ \A i \in 0..(m - 1) : h[i + 1] = After(role, h[i])
      /\ \A i \in 0..(n - 1) : f[i + 1] = After(role, f[i])
  BY LoopSteps
<1> HIDE DEF h, f
<1>2. 0 \in T
  <2>1. first \o <<>> = first /\ IsSeq(<<>>)
    BY ConcatIsSeq, EmptyIsSeq
  <2>2. Going(h[0], f[k], first, Len(buf))
    <3>1. f[k] = St(buf, first \o <<>>, "none", TRUE) /\ Len(buf) <= Len(buf)
      BY <1>0, <1>1, <2>1
    <3> QED BY <1>1, <2>1, <3>1 DEF Going
  <2>3. 0 + k = k /\ Len(buf) - 0 = Len(buf)
    BY <1>0
  <2> QED BY <2>2, <2>3
<1>3. ASSUME NEW j \in Nat, j \in T PROVE j + 1 \in T
  <2> SUFFICES ASSUME j + 1 <= m PROVE Alike(j + 1)
    OBVIOUS
  <2>1. Alike(j)
    BY <1>3
  <2>2. /\ j \in 0..(m - 1) /\ j + k \in 0..(n - 1) /\ (j + k) + 1 = (j + 1) + k
        /\ (Len(buf) - j) - 1 = Len(buf) - (j + 1) /\ Len(buf) - j \in Int
    BY <1>0
  <2>3. h[j + 1] = After(role, h[j]) /\ f[(j + 1) + k] = After(role, f[j + k])
    BY <1>1, <2>2
  <2>4. \/ Going(After(role, h[j]), After(role, f[j + k]), first, (Len(buf) - j) - 1)
        \/ Ended(After(role, h[j]), After(role, f[j + k]), first)
    BY <2>1, <2>2, AfterAlike
  <2> QED BY <2>2, <2>3, <2>4
<1>4. \A j \in Nat : j \in T
  <2> HIDE DEF T
  <2> QED BY <1>2, <1>3, Induction
<1> QED BY <1>4 DEF h, f

(* Once the loop has ended nothing changes. *)
LEMMA LoopStays ==
    ASSUME NEW role, NEW buf, NEW n \in Nat, NEW i \in Nat, i <= n, NEW z,
           Loop(role, buf, n)[i] = z, z.on = FALSE
    PROVE  Loop(role, buf, n)[n] = z
<1> DEFINE f == Loop(role, buf, n)
           T == {j \in Nat : i + j <= n => f[i + j] = z}
<1>1. f[i] = z /\ \A j \in 0..(n - 1) : f[j + 1] = After(role, f[j])
  BY LoopSteps
<1> HIDE DEF f
<1>2. 0 \in T
  <2>1. i + 0 = i
    OBVIOUS
  <2> QED BY <1>1, <2>1
<1>3. ASSUME NEW k \in Nat, k \in T PROVE k + 1 \in T
  <2>1. SUFFICES ASSUME i + (k + 1) <= n PROVE f[i + (k + 1)] = z
    OBVIOUS
  <2>2. i + k \in 0..(n - 1) /\ (i + k) + 1 = i + (k + 1) /\ i + k <= n
    BY <2>1
  <2>3. f[i + k] = z /\ f[i + (k + 1)] = After(role, f[i + k])
    BY <1>1, <1>3, <2>2
  <2> QED BY <2>3 DEF After
<1>4. n - i \in T
  <2> HIDE DEF T
  <2>1. n - i \in Nat
    OBVIOUS
  <2> QED BY <1>2, <1>3, <2>1, Induction
<1>5. i + (n - i) = n /\ n <= n
  OBVIOUS
<1>6. f[i + (n - i)] = z
  BY <1>4, <1>5
<1> QED BY <1>5, <1>6 DEF f

(* The loop has ended after as many passes as there are bytes, and one:    *)
(* every message that is taken is a byte long at least (sands.lua:281-309, *)
(* the while loop has no bound of its own).                                *)
LEMMA DrainFrom ==
    ASSUME NEW role, NEW whole, NEW buf \in Seq(Chars), NEW first, IsSeq(first),
           NEW n \in Nat, NEW k \in Nat, Len(buf) + 1 + k <= n,
           Loop(role, whole, n)[k] = St(buf, first, "none", TRUE)
    PROVE  Ended(Drain(role, buf), Loop(role, whole, n)[n], first)
<1> DEFINE m == Len(buf) + 1
           h == Loop(role, buf, m)
           f == Loop(role, whole, n)
<1>0. Len(buf) \in Nat /\ m \in Nat /\ m \in 0..m /\ m + k \in Nat /\ m + k <= n
  BY LenProperties
<1>1. \/ Going(h[m], f[m + k], first, Len(buf) - m)
      \/ Ended(h[m], f[m + k], first)
  BY <1>0, LoopAlike
<1>2. ~Going(h[m], f[m + k], first, Len(buf) - m)
  <2>1. \A x \in Seq(Chars) : ~(Len(x) <= Len(buf) - m)
    <3> TAKE x \in Seq(Chars)
    <3>1. Len(x) \in Nat
      BY LenProperties
    <3> QED BY <1>0, <3>1
  <2> QED BY <2>1 DEF Going
<1>3. PICK x, g, e : /\ IsSeq(g) /\ h[m] = St(x, g, e, FALSE)
                     /\ f[m + k] = St(x, first \o g, e, FALSE)
  BY <1>1, <1>2 DEF Ended
<1>4. f[n] = St(x, first \o g, e, FALSE)
  <2>1. St(x, first \o g, e, FALSE).on = FALSE
    BY DEF St
  <2> QED BY <1>0, <1>3, <2>1, LoopStays
<1>5. Drain(role, buf) = St(x, g, e, FALSE)
  BY <1>3, DrainIsLoop
<1> HIDE DEF f
<1> QED BY <1>3, <1>4, <1>5 DEF Ended, f

LEMMA DrainShape ==
    ASSUME NEW role, NEW d \in Seq(Chars)
    PROVE  Ended(Drain(role, d), Drain(role, d), <<>>)
<1> DEFINE n == Len(d) + 1
<1>1. Len(d) \in Nat /\ n \in Nat /\ n + 0 <= n
  BY LenProperties
<1>2. Loop(role, d, n)[0] = St(d, <<>>, "none", TRUE)
  BY <1>1, LoopSteps
<1>3. Ended(Drain(role, d), Loop(role, d, n)[n], <<>>)
  BY <1>1, <1>2, DrainFrom, EmptyIsSeq
<1> QED BY <1>3, DrainIsLoop

(* What the loop does, message by message. *)
LEMMA DrainTakes ==
    ASSUME NEW role, NEW d \in Seq(Chars), Takes(role, d)
    PROVE  Ended(Drain(role, Rest(d)), Drain(role, d), Given(role, d, <<>>))
<1> DEFINE n == Len(d) + 1
           G == Given(role, d, <<>>)
<1>1. /\ Len(d) \in Nat /\ n \in Nat /\ 0 \in 0..(n - 1) /\ Rest(d) \in Seq(Chars)
      /\ Len(Rest(d)) + 1 + 1 <= n
  BY RestShorter
<1>2. Loop(role, d, n)[0] = St(d, <<>>, "none", TRUE)
  BY <1>1, LoopSteps
<1>3. Loop(role, d, n)[1] = After(role, Loop(role, d, n)[0])
  <2>1. Loop(role, d, n)[0 + 1] = After(role, Loop(role, d, n)[0])
    BY <1>1, LoopSteps
  <2>2. 0 + 1 = 1
    OBVIOUS
  <2> HIDE DEF n
  <2> QED BY <2>1, <2>2
<1>4. After(role, St(d, <<>>, "none", TRUE)) = Pass(role, St(d, <<>>, "none", TRUE))
  BY DEF After, St
<1>5. Loop(role, d, n)[1] = St(Rest(d), G, "none", TRUE)
  BY <1>2, <1>3, <1>4, PassTakes
<1>6. IsSeq(G)
  BY EmptyIsSeq, AppendIsSeq DEF Given
<1> HIDE DEF G
<1>7. Ended(Drain(role, Rest(d)), Loop(role, d, n)[n], G)
  BY <1>1, <1>5, <1>6, DrainFrom
<1> QED BY <1>7, DrainIsLoop DEF G

LEMMA DrainStops ==
    ASSUME NEW role, NEW d \in Seq(Chars), ~Takes(role, d)
    PROVE  Drain(role, d) = Pass(role, St(d, <<>>, "none", TRUE))
<1> DEFINE n == Len(d) + 1
           z == Pass(role, St(d, <<>>, "none", TRUE))
<1>1. Len(d) \in Nat /\ n \in Nat /\ 0 \in 0..(n - 1) /\ 1 <= n
  BY LenProperties
<1>2. Loop(role, d, n)[0] = St(d, <<>>, "none", TRUE)
  BY <1>1, LoopSteps
<1>3. Loop(role, d, n)[1] = After(role, Loop(role, d, n)[0])
  <2>1. Loop(role, d, n)[0 + 1] = After(role, Loop(role, d, n)[0])
    BY <1>1, LoopSteps
  <2>2. 0 + 1 = 1
    OBVIOUS
  <2> HIDE DEF n
  <2> QED BY <2>1, <2>2
<1>4. After(role, St(d, <<>>, "none", TRUE)) = z
  BY DEF After, St
<1>5. Loop(role, d, n)[1] = z
  BY <1>2, <1>3, <1>4
<1>6. z.on = FALSE
  <2>1. CASE Waits(d)
    <3>1. z = St(d, <<>>, "none", FALSE)
      BY <2>1, PassWaits
    <3> QED BY <3>1 DEF St
  <2>2. CASE ~Waits(d)
    <3>1. PICK x, e : e # "none" /\
                      \A h : Pass(role, St(d, h, "none", TRUE)) = St(x, h, e, FALSE)
      BY <2>2, PassFails, Zenon
    <3>2. z = St(x, <<>>, e, FALSE)
      BY <3>1
    <3> QED BY <3>2 DEF St
  <2> QED BY <2>1, <2>2
<1> HIDE DEF z
<1>7. Loop(role, d, n)[n] = z
  BY <1>1, <1>5, <1>6, LoopStays
<1> QED BY <1>7, DrainIsLoop DEF z

-----------------------------------------------------------------------------
(* What is left of one text and the text that follows it give what both    *)
(* give at once.                                                           *)
Resumes(role, d, b) ==
    LET z == Drain(role, d)
    IN  /\ IsSeq(z.got) /\ z.data \in Seq(Chars)
        /\ Ended(Drain(role, z.data \o b), Drain(role, d \o b), z.got)

LEMMA EndedTwice ==
    ASSUME NEW z, NEW y, NEW w, NEW G, NEW h, IsSeq(G), IsSeq(h),
           Ended(z, y, h), Ended(y, w, G)
    PROVE  Ended(z, w, G \o h)
<1>1. PICK x, g, e : IsSeq(g) /\ z = St(x, g, e, FALSE) /\ y = St(x, h \o g, e, FALSE)
  BY DEF Ended
<1>2. PICK x2, g2, e2 : IsSeq(g2) /\ y = St(x2, g2, e2, FALSE) /\ w = St(x2, G \o g2, e2, FALSE)
  BY DEF Ended
<1>3. x2 = x /\ g2 = h \o g /\ e2 = e
  BY <1>1, <1>2 DEF St
<1>4. (G \o h) \o g = G \o (h \o g)
  <2>1. PICK S1, S2, S3 : G \in Seq(S1) /\ h \in Seq(S2) /\ g \in Seq(S3)
    BY <1>1 DEF IsSeq
  <2> DEFINE U == S1 \cup S2 \cup S3
  <2>2. G \in Seq(U) /\ h \in Seq(U) /\ g \in Seq(U)
    BY <2>1, SeqDef
  <2> HIDE DEF U
  <2> QED BY <2>2, ConcatAssociative
<1> QED BY <1>1, <1>2, <1>3, <1>4 DEF Ended

LEMMA ResumesWaiting ==
    ASSUME NEW role, NEW d \in Seq(Chars), NEW b \in Seq(Chars), Waits(d), ~Takes(role, d)
    PROVE  Resumes(role, d, b)
<1>1. Drain(role, d) = St(d, <<>>, "none", FALSE)
  BY DrainStops, PassWaits
<1>2. Drain(role, d).got = <<>> /\ Drain(role, d).data = d
  BY <1>1 DEF St
<1>3. d \o b \in Seq(Chars)
  BY ConcatPrefix
<1> QED BY <1>2, <1>3, DrainShape, EmptyIsSeq DEF Resumes

LEMMA ResumesTaken ==
    ASSUME NEW role, NEW d \in Seq(Chars), NEW b \in Seq(Chars), Takes(role, d),
           Resumes(role, Rest(d), b)
    PROVE  Resumes(role, d, b)
<1> DEFINE y == Drain(role, Rest(d))
           z == Drain(role, d)
           G == Given(role, d, <<>>)
           w == Drain(role, y.data \o b)
<1>1. Ended(y, z, G)
  BY DrainTakes
<1>2. IsSeq(G)
  BY EmptyIsSeq, AppendIsSeq DEF Given
<1>3. IsSeq(y.got) /\ y.data \in Seq(Chars) /\ Ended(w, Drain(role, Rest(d) \o b), y.got)
  BY DEF Resumes
<1>4. Ended(Drain(role, Rest(d) \o b), Drain(role, d \o b), G)
  <2>1. Takes(role, d \o b) /\ Rest(d \o b) = Rest(d) \o b /\ Given(role, d \o b, <<>>) = G
    BY TakesMore
  <2>2. d \o b \in Seq(Chars)
    BY ConcatPrefix
  <2>3. Ended(Drain(role, Rest(d \o b)), Drain(role, d \o b), Given(role, d \o b, <<>>))
    BY <2>1, <2>2, DrainTakes
  <2> QED BY <2>1, <2>3
<1> HIDE DEF G, w, y, z
<1>5. Ended(w, Drain(role, d \o b), G \o y.got)
  BY <1>2, <1>3, <1>4, EndedTwice
<1>6. z.data = y.data /\ z.got = G \o y.got
  BY <1>1 DEF Ended, St
<1>7. IsSeq(z.got)
  BY <1>2, <1>3, <1>6, ConcatIsSeq
<1> QED BY <1>3, <1>5, <1>6, <1>7 DEF Resumes, w, z

LEMMA DrainResumes ==
    ASSUME NEW role, NEW b \in Seq(Chars)
    PROVE  \A d \in Seq(Chars) : Drain(role, d).err = "none" => Resumes(role, d, b)
<1> DEFINE Good(d) == Drain(role, d).err = "none" => Resumes(role, d, b)
           T == {k \in Nat : \A d \in Seq(Chars) : Len(d) <= k => Good(d)}
<1>1. ASSUME NEW d \in Seq(Chars), ~Takes(role, d) PROVE Good(d)
  <2>1. CASE Waits(d)
    BY <1>1, <2>1, ResumesWaiting
  <2>2. CASE ~Waits(d)
    <3>1. PICK x, e : e # "none" /\
                      \A h : Pass(role, St(d, h, "none", TRUE)) = St(x, h, e, FALSE)
      BY <1>1, <2>2, PassFails, Zenon
    <3>2. Drain(role, d) = St(x, <<>>, e, FALSE)
      BY <1>1, <3>1, DrainStops
    <3>3. Drain(role, d).err = e
      BY <3>2 DEF St
    <3> QED BY <3>1, <3>3
  <2> QED BY <2>1, <2>2
<1>2. ASSUME NEW d \in Seq(Chars), Takes(role, d), Good(Rest(d)) PROVE Good(d)
  <2>1. Drain(role, d).err = Drain(role, Rest(d)).err
    <3>1. Ended(Drain(role, Rest(d)), Drain(role, d), Given(role, d, <<>>))
      BY <1>2, DrainTakes
    <3> QED BY <3>1 DEF Ended, St
  <2> QED BY <1>2, <2>1, ResumesTaken
<1> HIDE DEF Good
<1>3. 0 \in T
  <2>1. ASSUME NEW d \in Seq(Chars), Len(d) <= 0 PROVE Good(d)
    <3>1. ~Takes(role, d)
      <4>1. SUFFICES ASSUME Takes(role, d) PROVE FALSE
        OBVIOUS
      <4> QED BY <2>1, <4>1, RestShorter
    <3> QED BY <1>1, <3>1
  <2> QED BY <2>1
<1>4. ASSUME NEW k \in Nat, k \in T PROVE k + 1 \in T
  <2>1. ASSUME NEW d \in Seq(Chars), Len(d) <= k + 1 PROVE Good(d)
    <3>1. CASE Takes(role, d)
      <4>1. Rest(d) \in Seq(Chars) /\ Len(Rest(d)) <= k
        BY <2>1, <3>1, RestShorter
      <4> QED BY <1>2, <1>4, <3>1, <4>1
    <3> QED BY <1>1, <3>1
  <2> QED BY <2>1
<1>5. \A k \in Nat : k \in T
  <2> HIDE DEF T
  <2> QED BY <1>3, <1>4, Induction
<1>6. ASSUME NEW d \in Seq(Chars) PROVE Good(d)
  <2>1. Len(d) \in Nat /\ Len(d) <= Len(d)
    BY LenProperties
  <2> QED BY <1>5, <2>1
<1> QED BY <1>6 DEF Good

(* The bytes of one more read. *)
LEMMA ReadOn ==
    ASSUME NEW s \in Seq(Chars), NEW p \in Nat, NEW n \in Nat, p + n <= Len(s)
    PROVE  /\ SubSeq(s, p + 1, p + n) \in Seq(Chars)
           /\ SubSeq(s, 1, p + n) = SubSeq(s, 1, p) \o SubSeq(s, p + 1, p + n)
<1>1. Len(s) \in Nat
  BY LenProperties
<1>2. \A i \in (p + 1)..(p + n) : s[i] \in Chars
  BY <1>1, ElementOfSeq
<1>3. SubSeq(s, p + 1, p + n) \in Seq(Chars)
  BY <1>2, SubSeqProperties
<1>4. 1 \in 1..(Len(s) + 1) /\ p \in (1 - 1)..Len(s) /\ p + n \in p..Len(s)
  BY <1>1
<1> QED BY <1>3, <1>4, ConcatAdjacentSubSeq

(* Wherever TCP cuts a stream, and whatever the stream holds: what was     *)
(* dispatched, what is left and why the receiver closed are those of one   *)
(* read of all the bytes (sands.lua:275-309, sandc.lua:189-212).           *)
THEOREM CutsNeverMatter == Spec => []CutsDoNotMatter
<1>1. Init => CutsDoNotMatter
  <2> SUFFICES ASSUME Init PROVE CutsDoNotMatter
    OBVIOUS
  <2>1. Seen = <<>>
    <3>1. Reading
      BY WireAssumption, LenProperties DEF Init, Reading
    <3>2. Seen \in Seq(Chars) /\ Len(Seen) = 0
      BY <3>1, SeenText DEF Init
    <3> QED BY <3>2, EmptySeq
  <2>2. ~Takes(stream.role, <<>>) /\ Waits(<<>>) /\ <<>> \in Seq(Chars)
    BY EmptySeq DEF Takes, Waits
  <2>3. Drain(stream.role, <<>>) = St(<<>>, <<>>, "none", FALSE)
    BY <2>2, DrainStops, PassWaits
  <2> QED BY <2>1, <2>3 DEF Init, CutsDoNotMatter, St
<1>2. Reading /\ CutsDoNotMatter /\ [Next]_vars => CutsDoNotMatter'
  <2> SUFFICES ASSUME Reading, CutsDoNotMatter, [Next]_vars PROVE CutsDoNotMatter'
    OBVIOUS
  <2>1. CASE UNCHANGED vars
    BY <2>1 DEF vars, CutsDoNotMatter, Seen
  <2>2. ASSUME NEW n \in 1..(Len(stream.bytes) - pos), Recv(n) PROVE CutsDoNotMatter'
    <3> DEFINE role == stream.role
               s == stream.bytes
               c == SubSeq(s, pos + 1, pos + n)
               once == Drain(role, Seen)
               all == Drain(role, Seen \o c)
               end == Drain(role, data \o c)
    <3>1. /\ err = "none" /\ pos' = pos + n /\ stream' = stream
          /\ data' = end.data /\ got' = got \o end.got /\ err' = end.err
      BY <2>2 DEF Recv
    <3>2. /\ s \in Seq(Chars) /\ Len(s) \in Nat /\ pos \in Nat /\ n \in Nat
          /\ pos + n <= Len(s)
      <4>1. s \in Seq(Chars) /\ Len(s) \in Nat
        BY WireAssumption, LenProperties DEF Reading
      <4> QED BY <2>2, <4>1 DEF Reading
    <3>3. c \in Seq(Chars) /\ SubSeq(s, 1, pos + n) = SubSeq(s, 1, pos) \o c
      BY <3>2, ReadOn
    <3>4. Seen' = Seen \o c /\ Seen \in Seq(Chars)
      BY <3>1, <3>3, SeenText DEF Seen
    <3>5. got = once.got /\ once.err = "none" /\ data = once.data
      BY <3>1 DEF CutsDoNotMatter
    <3>6. Ended(end, all, got)
      BY <3>3, <3>4, <3>5, DrainResumes DEF Resumes
    <3>7. all.data = end.data /\ all.got = got \o end.got /\ all.err = end.err
      <4> HIDE DEF all, end
      <4> QED BY <3>6 DEF Ended, St
    <3>8. Drain(stream.role, Seen)' = all
      BY <3>1, <3>4
    <3> QED BY <3>1, <3>7, <3>8 DEF CutsDoNotMatter
  <2> QED BY <2>1, <2>2 DEF Next
<1> QED BY <1>1, <1>2, ReadingHolds, PTL DEF Spec

-----------------------------------------------------------------------------
(* What is refused is refused for good: no more text repairs it, so that a *)
(* receiver which waits on "eof" and closes on anything else never closes  *)
(* on a message that is only not complete.                                 *)
LEMMA NumberSettled ==
    ASSUME NEW s, NEW u, Prefix(s, u), NEW p \in 1..(Len(s) + 1),
           NEW w \in Nat \ {0}, Number(s, p, w).st # "eof"
    PROVE  /\ NumEnd(s, p) \in p..Len(s) /\ NumEnd(u, p) = NumEnd(s, p)
           /\ u[NumEnd(s, p)] = s[NumEnd(s, p)]
           /\ Number(u, p, w) = Number(s, p, w)
           /\ Number(s, p, w).st \in {"ok", "bad"}
<1> DEFINE q == NumEnd(s, p)
<1>0. /\ Len(s) \in Nat /\ Len(u) \in Nat /\ Len(s) <= Len(u) /\ p \in Nat \ {0}
      /\ \A i \in 1..Len(s) : u[i] = s[i]
  <2>1. Len(s) \in Nat /\ Len(u) \in Nat /\ Len(s) <= Len(u)
    BY PrefixLengths
  <2> QED BY <2>1 DEF Prefix
<1>1. ~(q > Len(s)) /\ ~(q = Len(s) /\ s[q] = CR)
  BY DEF Number, Eof
<1>2. q \in p..Len(s) /\ NumEnd(u, p) = q
  BY <1>1, NumEndSame
<1>3. u[q] = s[q] /\ q \in Nat /\ ~(q > Len(u))
  BY <1>0, <1>2
<1>4. CASE Number(s, p, w).st = "ok"
  BY <1>2, <1>3, <1>4, NumberComplete
<1>5. CASE Number(s, p, w).st # "ok"
  <2>1. ~(s[q] = CR /\ s[q + 1] = LF) /\ Number(s, p, w) = Bad
    BY <1>1, <1>5 DEF Number, Found
  <2>2. ~(u[q] = CR /\ u[q + 1] = LF) /\ ~(q = Len(u) /\ u[q] = CR)
    <3>1. CASE s[q] = CR
      <4>1. q + 1 \in 1..Len(s) /\ q # Len(u)
        BY <1>0, <1>1, <1>2, <3>1
      <4> QED BY <1>0, <2>1, <3>1, <4>1
    <3>2. CASE s[q] # CR
      BY <1>3, <3>2
    <3> QED BY <3>1, <3>2
  <2>3. Number(u, p, w) = Bad
    BY <1>2, <1>3, <2>2 DEF Number
  <2> QED BY <1>2, <1>3, <2>1, <2>3 DEF Bad
<1> QED BY <1>4, <1>5

LEMMA ItemSettled ==
    ASSUME NEW s, NEW u, Prefix(s, u), NEW p \in 1..(Len(s) + 1),
           Item("ready", s, p).st # "eof"
    PROVE  Item("ready", u, p) = Item("ready", s, p) /\ Item("ready", s, p).st \in {"ok", "bad"}
<1>0. /\ Len(s) \in Nat /\ Len(u) \in Nat /\ Len(s) <= Len(u) /\ p \in Nat \ {0}
      /\ \A i \in 1..Len(s) : u[i] = s[i]
  <2>1. Len(s) \in Nat /\ Len(u) \in Nat /\ Len(s) <= Len(u)
    BY PrefixLengths
  <2> QED BY <2>1 DEF Prefix
<1>1. CASE Item("ready", s, p).st = "ok"
  BY <1>1, ItemComplete
<1>2. ASSUME Item("ready", s, p).st # "ok" PROVE Item("ready", u, p) = Bad /\ Item("ready", s, p) = Bad
  <2>1. ~(p > Len(s))
    BY DEF Item, Eof
  <2>2. p \in 1..Len(s) /\ u[p] = s[p] /\ ~(p > Len(u)) /\ p + 1 \in 1..(Len(s) + 1)
    BY <1>0, <2>1
  <2>3. CASE s[p] \in {"+", "-", ":"}
    <3>1. Item("ready", s, p) = parse_single_line_reply(s, p + 1)
      BY <2>1, <2>3 DEF Item
    <3> QED BY <1>2, <3>1 DEF parse_single_line_reply, Eof, Found
  <2>4. CASE s[p] \notin {"+", "-", ":", "$"}
    BY <2>1, <2>2, <2>4 DEF Item
  <2>5. CASE s[p] = "$"
    <3> DEFINE n == p + 1
               num == Number(s, n, SizeMod)
               end == num.next + num.val
    <3>1. /\ Item("ready", s, p) = parse_bulk_reply2(s, n)
          /\ Item("ready", u, p) = parse_bulk_reply2(u, n)
      BY <2>1, <2>2, <2>5 DEF Item
    <3>2. CASE n <= Len(s) /\ s[n] = "-"
      <4>1. n <= Len(u) /\ u[n] = "-"
        BY <1>0, <2>2, <3>2
      <4> QED BY <3>1, <3>2, <4>1 DEF parse_bulk_reply2
    <3>3. CASE ~(n <= Len(s) /\ s[n] = "-")
      <4>1. Item("ready", s, p) = BulkData(s, num)
        BY <3>1, <3>3 DEF parse_bulk_reply2
      <4>2. num.st # "eof"
        <5> HIDE DEF num
        <5> QED BY <4>1 DEF BulkData
      <4>3. NumEnd(s, n) \in n..Len(s) /\ Number(u, n, SizeMod) = num /\ num.st \in {"ok", "bad"}
        BY <2>2, <4>2, Moduli, NumberSettled
      <4>4. Item("ready", u, p) = BulkData(u, num)
        <5>1. n \in 1..Len(s) /\ u[n] = s[n]
          BY <1>0, <2>2, <4>3
        <5>2. ~(n <= Len(u) /\ u[n] = "-")
          BY <1>0, <3>3, <5>1
        <5> QED BY <3>1, <4>3, <5>2 DEF parse_bulk_reply2
      <4>5. CASE num.st = "bad"
        <5>1. num = Bad
          BY <4>5 DEF Number, Eof, Found, Bad
        <5> HIDE DEF num
        <5> QED BY <4>1, <4>4, <5>1 DEF BulkData, Bad
      <4>6. CASE num.st = "ok"
        <5>1. /\ NumEnd(s, n) \in n..(Len(s) - 1) /\ num.val \in Nat
              /\ num.next = NumEnd(s, n) + 2
          BY <2>2, <4>6, Moduli, NumberComplete
        <5>2. end \in Nat /\ end > 0
          BY <1>0, <2>2, <5>1
        <5>3. num.next \in Nat /\ num.val # SizeMod - 2
          <6>1. num.next \in Nat
            BY <1>0, <2>2, <5>1
          <6> HIDE DEF num
          <6> QED BY <4>1, <4>6, <6>1 DEF BulkData, Eof
        <5>4. CASE num.val = SizeMod - 1
          <6> HIDE DEF num
          <6>1. ~(Len(s) + 1 - num.next < 1)
            BY <4>1, <4>6, <5>4 DEF BulkData, Eof
          <6>2. ~(Len(u) + 1 - num.next < 1)
            BY <1>0, <5>3, <6>1
          <6>3. BulkData(s, num) = Bad /\ BulkData(u, num) = Bad
            BY <4>6, <5>3, <5>4, <6>1, <6>2 DEF BulkData
          <6> QED BY <4>1, <4>4, <6>3
        <5>5. CASE num.val # SizeMod - 1
          <6>1. /\ ~(Len(s) + 1 - num.next < num.val + 2)
                /\ ~(s[end] = CR /\ s[end + 1] = LF)
            <7> HIDE DEF num
            <7> QED BY <1>2, <4>1, <4>6, <5>3, <5>5 DEF BulkData, Eof, Found
          <6>2. end + 1 <= Len(s) /\ ~(Len(u) + 1 - num.next < num.val + 2)
            <7> HIDE DEF num
            <7> QED BY <1>0, <5>1, <5>3, <6>1, Fits
          <6>3. u[end] = s[end] /\ u[end + 1] = s[end + 1]
            <7> HIDE DEF end
            <7> QED BY <1>0, <5>2, <6>2
          <6>4. BulkData(s, num) = Bad /\ BulkData(u, num) = Bad
            <7> HIDE DEF num
            <7> QED BY <4>6, <5>3, <5>5, <6>1, <6>2, <6>3 DEF BulkData
          <6> QED BY <4>1, <4>4, <6>4
        <5> QED BY <5>4, <5>5
      <4> QED BY <4>3, <4>5, <4>6
    <3> QED BY <3>2, <3>3
  <2> QED BY <2>3, <2>4, <2>5
<1> QED BY <1>1, <1>2 DEF Bad

LEMMA ItemsSettled ==
    ASSUME NEW s, NEW u, Prefix(s, u), NEW num, num.st = "ok", num.val \in Nat,
           num.next \in 1..(Len(s) + 1), Items("ready", s, num).st # "eof"
    PROVE  Items("ready", u, num) = Items("ready", s, num)
<1> DEFINE n == num.val
           f == Collected("ready", s, num, n)
           g == Collected("ready", u, num, n)
           T == {k \in Nat : k <= n /\ f[k].st # "eof" =>
                    g[k] = f[k] /\ (f[k].st = "ok" => f[k].next \in 1..(Len(s) + 1))}
<1>0. Len(s) \in Nat
  BY PrefixLengths
<1>1. Items("ready", s, num) = f[n] /\ Items("ready", u, num) = g[n]
  BY DEF Items, Collected, Then
<1>2. /\ f[0] = Found(<<>>, num.next) /\ g[0] = Found(<<>>, num.next)
      /\ \A i \in 0..(n - 1) :
            /\ f[i].st = "ok" => f[i + 1] = Then(f[i], Item("ready", s, f[i].next))
            /\ f[i].st # "ok" => f[i + 1] = f[i]
            /\ g[i].st = "ok" => g[i + 1] = Then(g[i], Item("ready", u, g[i].next))
            /\ g[i].st # "ok" => g[i + 1] = g[i]
  BY CollectedSteps
<1> HIDE DEF f, g
<1>3. 0 \in T
  <2>1. Found(<<>>, num.next).next = num.next
    BY DEF Found
  <2> QED BY <1>2, <2>1
<1>4. ASSUME NEW k \in Nat, k \in T PROVE k + 1 \in T
  <2> SUFFICES ASSUME k + 1 <= n, f[k + 1].st # "eof"
               PROVE  /\ g[k + 1] = f[k + 1]
                      /\ f[k + 1].st = "ok" => f[k + 1].next \in 1..(Len(s) + 1)
    OBVIOUS
  <2>1. k \in 0..(n - 1) /\ k <= n
    OBVIOUS
  <2>2. CASE f[k].st # "ok"
    BY <1>2, <1>4, <2>1, <2>2
  <2>3. CASE f[k].st = "ok"
    <3>1. g[k] = f[k] /\ f[k].next \in 1..(Len(s) + 1)
      BY <1>4, <2>1, <2>3
    <3> DEFINE it == Item("ready", s, f[k].next)
    <3>2. f[k + 1] = Then(f[k], it)
      BY <1>2, <2>1, <2>3
    <3>3. it.st # "eof"
      <4> HIDE DEF it
      <4> QED BY <3>2 DEF Then
    <3>4. Item("ready", u, f[k].next) = it
      BY <3>1, <3>3, ItemSettled
    <3>5. g[k + 1] = f[k + 1]
      BY <1>2, <2>1, <2>3, <3>1, <3>2, <3>4
    <3>6. ASSUME f[k + 1].st = "ok" PROVE f[k + 1].next \in 1..(Len(s) + 1)
      <4>1. it.st = "ok" /\ f[k + 1].next = it.next
        <5> HIDE DEF it
        <5> QED BY <3>2, <3>6 DEF Then, Found
      <4>2. it.next \in (f[k].next + 1)..(Len(s) + 1)
        BY <3>1, <4>1, ItemComplete
      <4> HIDE DEF it
      <4> QED BY <1>0, <3>1, <4>1, <4>2
    <3> QED BY <3>5, <3>6
  <2> QED BY <2>2, <2>3
<1>5. n \in T
  <2> HIDE DEF T
  <2> QED BY <1>3, <1>4, Induction
<1> QED BY <1>1, <1>5

LEMMA ReadySettled ==
    ASSUME NEW s, NEW u, Prefix(s, u), s # <<>>, parse_ready(s).st # "eof"
    PROVE  parse_ready(u) = parse_ready(s)
<1>0. /\ Len(s) \in Nat /\ Len(u) \in Nat /\ Len(s) <= Len(u)
      /\ 1 \in 1..Len(s) /\ 2 \in 1..(Len(s) + 1) /\ u[1] = s[1]
  <2>1. Len(s) \in Nat /\ Len(u) \in Nat /\ Len(s) <= Len(u)
    BY PrefixLengths
  <2>2. Len(s) # 0
    BY EmptySeq DEF Prefix
  <2> QED BY <2>1, <2>2 DEF Prefix
<1>1. CASE s[1] # "*"
  BY <1>0, <1>1 DEF parse_ready
<1>2. CASE s[1] = "*"
  <2> DEFINE raw == Number(s, 2, IntMod)
             num == Passes(raw)
             q == NumEnd(s, 2)
             r == parse_multi_bulk_reply2(s, 2)
             w == parse_multi_bulk_reply2(u, 2)
  <2>1. r.st # "eof"
    <3>1. parse_ready(s) = IF r.st = "ok" THEN Found(r.val, r.next - 1) ELSE r
      BY <1>2 DEF parse_ready
    <3> HIDE DEF r
    <3> QED BY <3>1
  <2>2. SUFFICES w = r
    BY <1>0, <1>2 DEF parse_ready
  <2>3. CASE q <= Len(s) /\ s[q] = CR /\ NumVal(SubSeq(s, 2, q - 1)) % IntMod = 0
    <3>1. q \in Int /\ ~(q > Len(s))
      <4>3. q \in Int
        BY NumEndInt DEF Prefix
      <4> HIDE DEF q
      <4> QED BY <1>0, <2>3, <4>3
    <3>2. q \in 2..Len(s) /\ NumEnd(u, 2) = q
      BY <1>0, <3>1, NumEndSame
    <3>3. q \in 1..Len(s) /\ q <= Len(u) /\ u[q] = s[q] /\ q - 1 \in Int /\ q - 1 <= Len(s)
      BY <1>0, <3>2 DEF Prefix
    <3>4. SubSeq(u, 2, q - 1) = SubSeq(s, 2, q - 1)
      <4>1. 2 \in Nat \ {0}
        OBVIOUS
      <4> HIDE DEF q
      <4> QED BY <3>3, <4>1, SubSeqSame
    <3>5. w = Bad
      BY <2>3, <3>2, <3>3, <3>4 DEF parse_multi_bulk_reply2
    <3>6. r = Bad
      BY <2>3 DEF parse_multi_bulk_reply2
    <3> QED BY <3>5, <3>6
  <2>4. CASE ~(q <= Len(s) /\ s[q] = CR /\ NumVal(SubSeq(s, 2, q - 1)) % IntMod = 0)
    <3>1. r = Items("ready", s, num)
      BY <2>4 DEF parse_multi_bulk_reply2
    <3>2. raw.st # "eof"
      <4>1. num.st # "eof"
        <5> HIDE DEF num
        <5> QED BY <2>1, <3>1 DEF Items
      <4> HIDE DEF raw
      <4> QED BY <4>1 DEF Passes
    <3>3. q \in 2..Len(s) /\ NumEnd(u, 2) = q /\ u[q] = s[q] /\ Number(u, 2, IntMod) = raw
          /\ raw.st \in {"ok", "bad"}
      BY <1>0, <3>2, Moduli, NumberSettled
    <3>4. SubSeq(u, 2, q - 1) = SubSeq(s, 2, q - 1)
      <4>1. q - 1 \in Int /\ q - 1 <= Len(s) /\ 2 \in Nat \ {0}
        BY <1>0, <3>3
      <4> HIDE DEF q
      <4> QED BY <4>1, SubSeqSame
    <3>5. w = Items("ready", u, num)
      <4>1. ~(q <= Len(u) /\ u[q] = CR /\ NumVal(SubSeq(u, 2, q - 1)) % IntMod = 0)
        <5>1. q <= Len(s)
          BY <1>0, <3>3
        <5> HIDE DEF q
        <5> QED BY <2>4, <3>3, <3>4, <5>1
      <4> QED BY <3>3, <4>1 DEF parse_multi_bulk_reply2
    <3>6. CASE raw.st = "bad"
      <4>1. num.st = "bad"
        <5> HIDE DEF raw
        <5> QED BY <3>6 DEF Passes
      <4> HIDE DEF num
      <4> QED BY <3>1, <3>5, <4>1 DEF Items
    <3>7. CASE raw.st = "ok"
      <4>0. /\ q \in 2..(Len(s) - 1) /\ raw.val \in Nat /\ raw.next = q + 2
        BY <1>0, <3>7, Moduli, NumberComplete
      <4>1. num.st = "ok" /\ num.val \in Nat /\ num.next = q + 2
        <5> HIDE DEF raw, q
        <5> QED BY <3>7, <4>0 DEF Passes, Found
      <4>2. num.next \in 1..(Len(s) + 1)
        BY <1>0, <4>0, <4>1
      <4> HIDE DEF num
      <4>3. Items("ready", u, num) = Items("ready", s, num)
        BY <2>1, <3>1, <4>1, <4>2, ItemsSettled
      <4> QED BY <3>1, <3>5, <4>3
    <3> QED BY <3>3, <3>6, <3>7
  <2> QED BY <2>3, <2>4
<1> QED BY <1>1, <1>2

-----------------------------------------------------------------------------
(* Numbers as texts: definitions by the number without its last digit.     *)
LEMMA LastDigit ==
    ASSUME NEW i \in Nat
    PROVE  /\ i \div 10 \in Nat /\ i % 10 \in 0..9 /\ i = 10 * (i \div 10) + (i % 10)
           /\ i >= 10 => i \div 10 < i
OBVIOUS

LEMMA ByTens ==
    ASSUME NEW X, NEW base \in [0..9 -> X], NEW step \in [Nat -> [X -> X]]
    PROVE  \E f \in [Nat -> X] : \A i \in Nat :
               f[i] = IF i < 10 THEN base[i] ELSE step[i][f[i \div 10]]
<1> DEFINE Rec(f, k) == /\ f \in [0..k -> X]
                        /\ \A i \in 0..k :
                              f[i] = IF i < 10 THEN base[i] ELSE step[i][f[i \div 10]]
           T == {k \in Nat : \E f : Rec(f, k)}
<1>1. 0 \in T
  <2>1. Rec([i \in 0..0 |-> base[i]], 0)
    OBVIOUS
  <2> HIDE DEF Rec
  <2> QED BY <2>1
<1>2. ASSUME NEW k \in Nat, k \in T PROVE k + 1 \in T
  <2>1. PICK f : Rec(f, k)
    BY <1>2
  <2> DEFINE v == IF k + 1 < 10 THEN base[k + 1] ELSE step[k + 1][f[(k + 1) \div 10]]
             g == [i \in 0..(k + 1) |-> IF i = k + 1 THEN v ELSE f[i]]
  <2>2. v \in X
    <3>1. CASE k + 1 < 10
      BY <3>1
    <3>2. CASE ~(k + 1 < 10)
      <4>1. (k + 1) \div 10 \in 0..k
        BY <3>2, LastDigit
      <4>2. f[(k + 1) \div 10] \in X
        BY <2>1, <4>1
      <4> QED BY <3>2, <4>2
    <3> QED BY <3>1, <3>2
  <2> HIDE DEF v
  <2>3. g \in [0..(k + 1) -> X]
    BY <2>1, <2>2
  <2>4. ASSUME NEW i \in 0..(k + 1)
        PROVE  g[i] = IF i < 10 THEN base[i] ELSE step[i][g[i \div 10]]
    <3>1. ~(i < 10) => i \div 10 \in 0..k /\ g[i \div 10] = f[i \div 10]
      <4>1. ~(i < 10) => i \div 10 \in 0..k
        BY LastDigit
      <4> QED BY <4>1
    <3>2. CASE i = k + 1
      <4>1. g[i] = v
        BY <3>2
      <4> HIDE DEF g
      <4> QED BY <3>1, <3>2, <4>1 DEF v
    <3>3. CASE i # k + 1
      <4>1. i \in 0..k /\ g[i] = f[i]
        BY <3>3
      <4> HIDE DEF g
      <4> QED BY <2>1, <3>1, <4>1
    <3> QED BY <3>2, <3>3
  <2>5. Rec(g, k + 1)
    BY <2>3, <2>4
  <2> HIDE DEF Rec, g
  <2> QED BY <2>5
<1>3. \A k \in Nat : \E f : Rec(f, k)
  <2> HIDE DEF T
  <2>1. \A k \in Nat : k \in T
    BY <1>1, <1>2, Induction
  <2> QED BY <2>1 DEF T
<1>4. ASSUME NEW k \in Nat, NEW m \in Nat, NEW f, NEW g, Rec(f, k), Rec(g, m)
      PROVE  \A i \in Nat : i <= k /\ i <= m => f[i] = g[i]
  <2> DEFINE U == {n \in Nat : \A i \in 0..n : i <= k /\ i <= m => f[i] = g[i]}
  <2>1. ASSUME NEW i \in Nat, i <= k, i <= m,
               i >= 10 => f[i \div 10] = g[i \div 10]
        PROVE  f[i] = g[i]
    <3>1. i \in 0..k /\ i \in 0..m
      BY <2>1
    <3> QED BY <1>4, <2>1, <3>1
  <2>2. 0 \in U
    BY <2>1
  <2>3. ASSUME NEW n \in Nat, n \in U PROVE n + 1 \in U
    <3>1. ASSUME NEW i \in 0..(n + 1), i <= k, i <= m PROVE f[i] = g[i]
      <4>1. CASE i <= n
        BY <2>3, <3>1, <4>1
      <4>2. CASE ~(i <= n)
        <5>1. i >= 10 => i \div 10 \in 0..n /\ i \div 10 <= k /\ i \div 10 <= m
          BY <3>1, LastDigit
        <5> QED BY <2>1, <2>3, <3>1, <5>1
      <4> QED BY <4>1, <4>2
    <3> QED BY <3>1
  <2>4. \A n \in Nat : n \in U
    <3> HIDE DEF U
    <3> QED BY <2>2, <2>3, Induction
  <2> QED BY <2>4
<1> DEFINE h(k) == CHOOSE f : Rec(f, k)
           F == [i \in Nat |-> h(i)[i]]
<1>5. \A k \in Nat : Rec(h(k), k)
  <2> HIDE DEF Rec
  <2> QED BY <1>3
<1> HIDE DEF h
<1>6. F \in [Nat -> X]
  BY <1>5
<1>7. ASSUME NEW i \in Nat
      PROVE  F[i] = IF i < 10 THEN base[i] ELSE step[i][F[i \div 10]]
  <2>1. h(i)[i] = IF i < 10 THEN base[i] ELSE step[i][h(i)[i \div 10]]
    BY <1>5
  <2>2. i >= 10 => h(i)[i \div 10] = h(i \div 10)[i \div 10]
    <3> DEFINE j == i \div 10
    <3>1. j \in Nat /\ (i >= 10 => j <= i)
      BY LastDigit
    <3> HIDE DEF j, Rec
    <3>2. Rec(h(i), i) /\ Rec(h(j), j)
      BY <1>5, <3>1
    <3>3. i >= 10 => h(i)[j] = h(j)[j]
      BY <1>4, <3>1, <3>2
    <3> QED BY <3>3 DEF j
  <2> QED BY <2>1, <2>2, LastDigit
<1> HIDE DEF F
<1> QED BY <1>6, <1>7

LEMMA TensInduction ==
    ASSUME NEW T, \A i \in Nat : (i >= 10 => i \div 10 \in T) => i \in T
    PROVE  \A i \in Nat : i \in T
<1> DEFINE U == {n \in Nat : \A i \in 0..n : i \in T}
<1>1. 0 \in U
  OBVIOUS
<1>2. ASSUME NEW n \in Nat, n \in U PROVE n + 1 \in U
  <2>1. n + 1 >= 10 => (n + 1) \div 10 \in 0..n
    BY LastDigit
  <2>2. n + 1 \in T
    BY <1>2, <2>1
  <2> QED BY <1>2, <2>2
<1>3. \A n \in Nat : n \in U
  <2> HIDE DEF U
  <2> QED BY <1>1, <1>2, Induction
<1> QED BY <1>3

LEMMA DigitAt ==
    ASSUME NEW i \in 0..9
    PROVE  Digits[i + 1] \in DigitChars /\ DigitVal[Digits[i + 1]] = i
<1>1. i + 1 \in 1..10 /\ Digits[i + 1] \in DigitChars
  BY DEF DigitChars
<1> DEFINE c == Digits[i + 1]
           j == CHOOSE k \in 1..10 : Digits[k] = c
<1>2. j \in 1..10 /\ Digits[j] = c
  BY <1>1
<1>3. \A k, m \in 1..10 : Digits[k] = Digits[m] => k = m
  BY DEF Digits
<1>4. j = i + 1
  <2> HIDE DEF j
  <2> QED BY <1>1, <1>2, <1>3
<1>5. DigitVal[c] = j - 1
  BY <1>1 DEF DigitVal
<1> HIDE DEF j, c
<1> QED BY <1>1, <1>4, <1>5 DEF c

LEMMA SprintfSteps ==
    /\ sprintf_num \in [Nat -> Seq(DigitChars)]
    /\ \A i \in Nat : sprintf_num[i] = IF i < 10 THEN <<Digits[i + 1]>>
                                       ELSE Append(sprintf_num[i \div 10], Digits[(i % 10) + 1])
<1> DEFINE X == Seq(DigitChars)
           base == [i \in 0..9 |-> <<Digits[i + 1]>>]
           step == [i \in Nat |-> [x \in X |-> Append(x, Digits[(i % 10) + 1])]]
<1>1. base \in [0..9 -> X]
  <2>1. ASSUME NEW c \in DigitChars PROVE <<c>> \in X
    BY <2>1
  <2> QED BY <2>1, DigitAt
<1>2. step \in [Nat -> [X -> X]]
  <2>1. ASSUME NEW i \in Nat, NEW x \in X PROVE Append(x, Digits[(i % 10) + 1]) \in X
    <3>1. Digits[(i % 10) + 1] \in DigitChars
      BY LastDigit, DigitAt
    <3> QED BY <3>1, AppendProperties
  <2> QED BY <2>1
<1>3. PICK f \in [Nat -> X] : \A i \in Nat :
               f[i] = IF i < 10 THEN base[i] ELSE step[i][f[i \div 10]]
  <2> HIDE DEF X, base, step
  <2> QED BY <1>1, <1>2, ByTens
<1> DEFINE Is(g) == g = [i \in Nat |-> IF i < 10 THEN <<Digits[i + 1]>>
                                       ELSE Append(g[i \div 10], Digits[(i % 10) + 1])]
<1>4. Is(f)
  <2>1. ASSUME NEW i \in Nat
        PROVE  f[i] = IF i < 10 THEN <<Digits[i + 1]>>
                      ELSE Append(f[i \div 10], Digits[(i % 10) + 1])
    <3>1. i < 10 => base[i] = <<Digits[i + 1]>>
      <4>1. i < 10 => i \in 0..9
        OBVIOUS
      <4> QED BY <4>1, Zenon
    <3>2. i \div 10 \in Nat /\ f[i \div 10] \in X
      BY LastDigit
    <3>3. step[i][f[i \div 10]] = Append(f[i \div 10], Digits[(i % 10) + 1])
      BY <3>2
    <3> HIDE DEF base, step
    <3> QED BY <1>3, <3>1, <3>3
  <2> QED BY <2>1
<1>5. Is(sprintf_num)
  <2>1. sprintf_num = CHOOSE g : Is(g)
    BY DEF sprintf_num
  <2> HIDE DEF Is
  <2> QED BY <1>4, <2>1
<1>6. \A i \in Nat : sprintf_num[i] = IF i < 10 THEN <<Digits[i + 1]>>
                                      ELSE Append(sprintf_num[i \div 10], Digits[(i % 10) + 1])
  BY <1>5
<1>7. ASSUME NEW i \in Nat, i >= 10 => sprintf_num[i \div 10] \in X PROVE sprintf_num[i] \in X
  <2>1. CASE i < 10
    <3>1. i \in 0..9
      BY <2>1
    <3>2. base[i] \in X
      BY <1>1, <3>1
    <3>3. sprintf_num[i] = <<Digits[i + 1]>>
      BY <1>6, <2>1, Zenon
    <3> QED BY <3>1, <3>2, <3>3, Zenon
  <2>2. CASE ~(i < 10)
    <3>1. Digits[(i % 10) + 1] \in DigitChars
      BY LastDigit, DigitAt
    <3>2. sprintf_num[i \div 10] \in Seq(DigitChars)
      BY <1>7, <2>2
    <3>3. sprintf_num[i] = Append(sprintf_num[i \div 10], Digits[(i % 10) + 1])
      BY <1>6, <2>2
    <3> QED BY <3>1, <3>2, <3>3, AppendProperties
  <2> QED BY <2>1, <2>2
<1>11. \A n \in Nat : sprintf_num[n] \in X
  <2> DEFINE T == {n \in Nat : sprintf_num[n] \in X}
  <2> HIDE DEF X
  <2>1. \A i \in Nat : (i >= 10 => i \div 10 \in T) => i \in T
    BY <1>7
  <2>2. \A i \in Nat : i \in T
    <3> HIDE DEF T
    <3> QED BY <2>1, TensInduction
  <2> QED BY <2>2
<1>12. sprintf_num = [i \in Nat |-> sprintf_num[i]]
  BY <1>5
<1> QED BY <1>6, <1>11, <1>12 DEF X

LEMMA SizeSteps ==
    /\ get_num_size \in [Nat -> Nat]
    /\ \A i \in Nat : get_num_size[i] = IF i < 10 THEN 1 ELSE 1 + get_num_size[i \div 10]
<1> DEFINE base == [i \in 0..9 |-> 1]
           step == [i \in Nat |-> [x \in Nat |-> 1 + x]]
<1>1. base \in [0..9 -> Nat] /\ step \in [Nat -> [Nat -> Nat]]
  OBVIOUS
<1>2. PICK f \in [Nat -> Nat] : \A i \in Nat :
               f[i] = IF i < 10 THEN base[i] ELSE step[i][f[i \div 10]]
  <2> HIDE DEF base, step
  <2> DEFINE X == Nat
  <2>1. base \in [0..9 -> X] /\ step \in [Nat -> [X -> X]]
    BY <1>1
  <2> HIDE DEF X
  <2>2. \E f \in [Nat -> X] : \A i \in Nat :
            f[i] = IF i < 10 THEN base[i] ELSE step[i][f[i \div 10]]
    BY <2>1, ByTens
  <2> QED BY <2>2 DEF X
<1> DEFINE Is(g) == g = [i \in Nat |-> IF i < 10 THEN 1 ELSE 1 + g[i \div 10]]
<1>3. Is(f)
  <2>1. ASSUME NEW i \in Nat PROVE f[i] = IF i < 10 THEN 1 ELSE 1 + f[i \div 10]
    <3>1. i < 10 => base[i] = 1
      OBVIOUS
    <3>2. i \div 10 \in Nat /\ f[i \div 10] \in Nat
      BY LastDigit
    <3>3. step[i][f[i \div 10]] = 1 + f[i \div 10]
      BY <3>2
    <3> HIDE DEF base, step
    <3> QED BY <1>2, <3>1, <3>3
  <2> QED BY <2>1
<1>4. Is(get_num_size)
  <2>1. get_num_size = CHOOSE g : Is(g)
    BY DEF get_num_size
  <2> HIDE DEF Is
  <2> QED BY <1>3, <2>1
<1>5. \A i \in Nat : get_num_size[i] = IF i < 10 THEN 1 ELSE 1 + get_num_size[i \div 10]
  BY <1>4
<1>9. \A n \in Nat : get_num_size[n] \in Nat
  <2> DEFINE T == {n \in Nat : get_num_size[n] \in Nat}
  <2>1. \A i \in Nat : (i >= 10 => i \div 10 \in T) => i \in T
    BY <1>5
  <2>2. \A i \in Nat : i \in T
    <3> HIDE DEF T
    <3> QED BY <2>1, TensInduction
  <2> QED BY <2>2
<1>10. get_num_size = [i \in Nat |-> get_num_size[i]]
  BY <1>4
<1> QED BY <1>5, <1>9, <1>10

(* The scanners read the numbers that build_query writes. *)
LEMMA NumValOne ==
    ASSUME NEW c \in DigitChars
    PROVE  NumVal(<<c>>) = DigitVal[c]
<1> DEFINE t == <<c>>
<1>1. Len(t) = 1 /\ t[1] = c
  OBVIOUS
<1>2. Counted(t)[0] = 0 /\ Counted(t)[1] = 10 * Counted(t)[0] + DigitVal[t[1]]
  <2> HIDE DEF t
  <2>1. Len(t) \in Nat /\ 0 \in 0..Len(t) /\ 1 \in 0..Len(t)
    BY <1>1
  <2>2. Counted(t) = [i \in 0..Len(t) |->
               IF i = 0 THEN 0 ELSE 10 * Counted(t)[i - 1] + DigitVal[t[i]]]
    BY <2>1, CountedExists
  <2> QED BY <2>1, <2>2
<1>3. NumVal(t) = Counted(t)[Len(t)]
  BY DEF NumVal, Counted
<1>4. DigitVal[c] \in Nat
  BY DigitValues
<1> QED BY <1>1, <1>2, <1>3, <1>4

LEMMA NumValMore ==
    ASSUME NEW t \in Seq(DigitChars), NEW c \in DigitChars
    PROVE  NumVal(Append(t, c)) = 10 * NumVal(t) + DigitVal[c]
<1> DEFINE w == Append(t, c)
<1>1. /\ Len(t) \in Nat /\ w \in Seq(DigitChars) /\ Len(w) = Len(t) + 1
      /\ \A i \in 1..Len(t) : w[i] = t[i]
      /\ w[Len(t) + 1] = c
  BY AppendProperties, LenProperties
<1> HIDE DEF w
<1>2. Counted(t) = [i \in 0..Len(t) |->
          IF i = 0 THEN 0 ELSE 10 * Counted(t)[i - 1] + DigitVal[t[i]]]
  BY <1>1, CountedExists
<1>3. Counted(w) = [i \in 0..Len(w) |->
          IF i = 0 THEN 0 ELSE 10 * Counted(w)[i - 1] + DigitVal[w[i]]]
  <2>1. Len(w) \in Nat
    BY <1>1
  <2> QED BY <2>1, CountedExists
<1> DEFINE f == Counted(t)
           g == Counted(w)
           T == {k \in Nat : k <= Len(t) => g[k] = f[k]}
<1> HIDE DEF f, g
<1>4. 0 \in T
  <2>1. g[0] = 0 /\ f[0] = 0
    BY <1>1, <1>2, <1>3 DEF f, g
  <2> QED BY <2>1
<1>5. ASSUME NEW k \in Nat, k \in T PROVE k + 1 \in T
  <2> SUFFICES ASSUME k + 1 <= Len(t) PROVE g[k + 1] = f[k + 1]
    OBVIOUS
  <2>1. /\ g[k + 1] = 10 * g[k] + DigitVal[w[k + 1]]
        /\ f[k + 1] = 10 * f[k] + DigitVal[t[k + 1]]
    BY <1>1, <1>2, <1>3 DEF f, g
  <2>2. w[k + 1] = t[k + 1] /\ g[k] = f[k]
    BY <1>1, <1>5
  <2> QED BY <2>1, <2>2
<1>6. Len(t) \in T
  <2> HIDE DEF T
  <2> QED BY <1>1, <1>4, <1>5, Induction
<1>7. g[Len(t)] = f[Len(t)]
  BY <1>1, <1>6
<1>8. g[Len(w)] = 10 * g[Len(t)] + DigitVal[c]
  BY <1>1, <1>3 DEF g
<1>9. NumVal(t) = f[Len(t)] /\ NumVal(w) = g[Len(w)]
  BY DEF NumVal, Counted, f, g
<1> QED BY <1>7, <1>8, <1>9 DEF w

LEMMA SprintfReads ==
    ASSUME NEW n \in Nat
    PROVE  /\ sprintf_num[n] \in Seq(DigitChars)
           /\ Len(sprintf_num[n]) = get_num_size[n] /\ get_num_size[n] \in Nat
           /\ NumVal(sprintf_num[n]) = n
<1> DEFINE Good(i) == Len(sprintf_num[i]) = get_num_size[i] /\ NumVal(sprintf_num[i]) = i
           T == {i \in Nat : Good(i)}
<1>1. ASSUME NEW i \in Nat, i >= 10 => Good(i \div 10) PROVE Good(i)
  <2>1. CASE i < 10
    <3> DEFINE c == Digits[i + 1]
    <3>1. c \in DigitChars /\ DigitVal[c] = i
      BY <2>1, DigitAt
    <3>2. sprintf_num[i] = <<c>> /\ get_num_size[i] = 1
      BY <2>1, SprintfSteps, SizeSteps
    <3>3. Len(<<c>>) = 1
      OBVIOUS
    <3> HIDE DEF c
    <3> QED BY <3>1, <3>2, <3>3, NumValOne
  <2>2. CASE ~(i < 10)
    <3> DEFINE c == Digits[(i % 10) + 1]
               t == sprintf_num[i \div 10]
    <3>1. i \div 10 \in Nat /\ i % 10 \in 0..9 /\ i = 10 * (i \div 10) + (i % 10)
      BY LastDigit
    <3>2. c \in DigitChars /\ DigitVal[c] = i % 10
      BY <3>1, DigitAt
    <3>3. t \in Seq(DigitChars) /\ Len(t) = get_num_size[i \div 10] /\ NumVal(t) = i \div 10
      BY <1>1, <2>2, <3>1, SprintfSteps
    <3>4. sprintf_num[i] = Append(t, c) /\ get_num_size[i] = 1 + get_num_size[i \div 10]
      BY <2>2, SprintfSteps, SizeSteps
    <3> HIDE DEF c, t
    <3>5. NumVal(sprintf_num[i]) = i
      BY <3>1, <3>2, <3>3, <3>4, NumValMore
    <3>6. Len(Append(t, c)) = Len(t) + 1 /\ Len(t) \in Nat
      BY <3>2, <3>3, AppendProperties, LenProperties
    <3> QED BY <3>3, <3>4, <3>5, <3>6
  <2> QED BY <2>1, <2>2
<1> HIDE DEF Good
<1>2. \A i \in Nat : (i >= 10 => i \div 10 \in T) => i \in T
  BY <1>1
<1>3. n \in T
  <2> HIDE DEF T
  <2> QED BY <1>2, TensInduction
<1> QED BY <1>3, SprintfSteps, SizeSteps DEF Good

-----------------------------------------------------------------------------
(* What build_query writes is what the scanners read.                      *)
LEMMA ConcatAt ==
    ASSUME NEW x \in Seq(Chars), NEW y \in Seq(Chars)
    PROVE  /\ x \o y \in Seq(Chars) /\ Len(x) \in Nat /\ Len(y) \in Nat
           /\ Len(x \o y) = Len(x) + Len(y)
           /\ \A i \in 1..Len(x) : (x \o y)[i] = x[i]
           /\ \A i \in 1..Len(y) : (x \o y)[Len(x) + i] = y[i]
<1> DEFINE z == x \o y
<1>1. /\ z \in Seq(Chars) /\ Len(z) = Len(x) + Len(y)
      /\ \A i \in 1..(Len(x) + Len(y)) : z[i] = IF i <= Len(x) THEN x[i] ELSE y[i - Len(x)]
  BY ConcatProperties
<1>2. Len(x) \in Nat /\ Len(y) \in Nat
  BY LenProperties
<1> HIDE DEF z
<1>3. ASSUME NEW i \in 1..Len(x) PROVE z[i] = x[i]
  BY <1>1, <1>2
<1>4. ASSUME NEW i \in 1..Len(y) PROVE z[Len(x) + i] = y[i]
  <2>1. Len(x) + i \in 1..(Len(x) + Len(y)) /\ ~(Len(x) + i <= Len(x)) /\ (Len(x) + i) - Len(x) = i
    BY <1>2
  <2> QED BY <1>1, <2>1
<1> QED BY <1>1, <1>2, <1>3, <1>4 DEF z

LEMMA NumberAt ==
    ASSUME NEW s \in Seq(Chars), NEW p \in Nat \ {0}, NEW N \in Seq(DigitChars),
           p + Len(N) + 1 <= Len(s), \A i \in 1..Len(N) : s[p + i - 1] = N[i],
           s[p + Len(N)] = CR, s[p + Len(N) + 1] = LF, NEW w \in Nat \ {0},
           NumVal(N) \in Nat, NumVal(N) < w
    PROVE  /\ Number(s, p, w) = Found(NumVal(N), p + Len(N) + 2)
           /\ NumEnd(s, p) = p + Len(N) /\ SubSeq(s, p, p + Len(N) - 1) = N
<1> DEFINE q == p + Len(N)
           Q == {i \in p..Len(s) : s[i] \notin DigitChars}
<1>0. Len(s) \in Nat /\ Len(N) \in Nat /\ q \in Nat /\ q + 1 <= Len(s) /\ q \in p..Len(s)
  BY LenProperties
<1>1. \A i \in p..(q - 1) : i - p + 1 \in 1..Len(N) /\ p + (i - p + 1) - 1 = i
  BY <1>0
<1>2. \A i \in p..(q - 1) : s[i] = N[i - p + 1] /\ s[i] \in DigitChars
  <2> TAKE i \in p..(q - 1)
  <2>1. s[i] = N[i - p + 1]
    BY <1>1
  <2>2. N[i - p + 1] \in DigitChars
    BY <1>1, ElementOfSeq
  <2> QED BY <2>1, <2>2
<1>3. CR \notin DigitChars
  BY DEF CR, DigitChars, Digits
<1>4. q \in Q /\ Q \in SUBSET Nat /\ \A m \in Q : q <= m
  <2>1. q \in Q /\ Q \in SUBSET Nat
    BY <1>0, <1>3
  <2>2. ASSUME NEW m \in Q PROVE q <= m
    <3>1. m \in Nat /\ m \in p..Len(s) /\ m \notin p..(q - 1)
      BY <1>2, <2>1
    <3> QED BY <1>0, <3>1
  <2> QED BY <2>1, <2>2
<1>5. NumEnd(s, p) = q
  <2>1. NumEnd(s, p) = Min(Q)
    BY <1>4 DEF NumEnd
  <2> HIDE DEF Q, q
  <2> QED BY <1>4, <2>1, MinSame
<1>6. SubSeq(s, p, q - 1) = N
  <2> DEFINE t == SubSeq(s, p, q - 1)
  <2>1. /\ t \in Seq(DigitChars)
        /\ Len(t) = IF p <= q - 1 THEN (q - 1) - p + 1 ELSE 0
        /\ \A i \in 1..((q - 1) - p + 1) : t[i] = s[p + i - 1]
    <3>1. \A i \in p..(q - 1) : s[i] \in DigitChars
      BY <1>2
    <3> HIDE DEF q
    <3> QED BY <1>0, <3>1, SubSeqProperties
  <2> HIDE DEF t
  <2>2. Len(t) = Len(N)
    BY <1>0, <2>1
  <2>3. ASSUME NEW i \in 1..Len(t) PROVE t[i] = N[i]
    <3>1. i \in 1..((q - 1) - p + 1) /\ i \in 1..Len(N)
      BY <1>0, <2>2
    <3> QED BY <2>1, <3>1
  <2>4. t = N
    BY <2>1, <2>2, <2>3, SeqEqual
  <2> QED BY <2>4 DEF t
<1>7. ~(q > Len(s)) /\ ~(q = Len(s) /\ s[q] = CR) /\ s[q] = CR /\ s[q + 1] = LF
  BY <1>0
<1> HIDE DEF q
<1>8. Number(s, p, w) = Found(NumVal(N), q + 2)
  <2>1. NumVal(N) % w = NumVal(N)
    BY ModSmall
  <2>2. Number(s, p, w) = Found(NumVal(N) % w, q + 2)
    BY <1>5, <1>6, <1>7 DEF Number
  <2> QED BY <2>1, <2>2
<1> QED BY <1>5, <1>6, <1>8 DEF q

LEMMA OneChar ==
    ASSUME NEW S, NEW c \in S
    PROVE  <<c>> \in Seq(S) /\ Len(<<c>>) = 1 /\ <<c>>[1] = c
OBVIOUS

LEMMA TwoChars ==
    ASSUME NEW S, NEW c \in S, NEW d \in S
    PROVE  <<c, d>> \in Seq(S) /\ Len(<<c, d>>) = 2 /\ <<c, d>>[1] = c /\ <<c, d>>[2] = d
OBVIOUS

LEMMA CrlfText == Crlf \in Seq(Chars) /\ Len(Crlf) = 2 /\ Crlf[1] = CR /\ Crlf[2] = LF
<1>1. CR \in Chars /\ LF \in Chars
  BY CharsAssumption
<1> QED BY <1>1, TwoChars DEF Crlf

LEMMA DigitsText == ASSUME NEW t \in Seq(DigitChars) PROVE t \in Seq(Chars)
<1>1. DigitChars \subseteq Chars
  BY CharsAssumption
<1> QED BY <1>1, SeqMonotonic

(* A header, "*" or "$", a number and CRLF. *)
Header(c, n) == <<c>> \o sprintf_num[n] \o Crlf

LEMMA HeaderText ==
    ASSUME NEW c \in Chars, NEW n \in Nat
    PROVE  LET t == Header(c, n)
               N == sprintf_num[n]
           IN  /\ t \in Seq(Chars) /\ Len(N) \in Nat
               /\ Len(t) = 1 + get_num_size[n] + 2 /\ Len(t) = 1 + Len(N) + 2
               /\ t[1] = c /\ t[Len(N) + 2] = CR /\ t[Len(N) + 3] = LF
               /\ \A i \in 1..Len(N) : t[2 + i - 1] = N[i]
<1> DEFINE N == sprintf_num[n]
           h == <<c>>
           x == h \o N
           t == x \o Crlf
<1>1. N \in Seq(Chars) /\ Len(N) = get_num_size[n] /\ get_num_size[n] \in Nat
  BY SprintfReads, DigitsText
<1>2. h \in Seq(Chars) /\ Len(h) = 1 /\ h[1] = c
  BY OneChar
<1> HIDE DEF N, h
<1>3. /\ x \in Seq(Chars) /\ Len(x) = 1 + Len(N) /\ x[1] = c
      /\ \A i \in 1..Len(N) : x[1 + i] = N[i]
  <2>1. /\ x \in Seq(Chars) /\ Len(x) = Len(h) + Len(N)
        /\ \A i \in 1..Len(h) : x[i] = h[i]
        /\ \A i \in 1..Len(N) : x[Len(h) + i] = N[i]
    BY <1>1, <1>2, ConcatAt
  <2>2. 1 \in 1..Len(h)
    BY <1>2
  <2> HIDE DEF x
  <2> QED BY <1>1, <1>2, <2>1, <2>2
<1> HIDE DEF x
<1>4. /\ t \in Seq(Chars) /\ Len(t) = Len(x) + 2
      /\ \A i \in 1..Len(x) : t[i] = x[i]
      /\ t[Len(x) + 1] = CR /\ t[Len(x) + 2] = LF
  <2>1. 1 \in 1..2 /\ 2 \in 1..2
    OBVIOUS
  <2>2. /\ t \in Seq(Chars) /\ Len(t) = Len(x) + Len(Crlf)
        /\ \A i \in 1..Len(x) : t[i] = x[i]
        /\ \A i \in 1..Len(Crlf) : t[Len(x) + i] = Crlf[i]
    BY <1>3, ConcatAt, CrlfText
  <2> HIDE DEF t
  <2> QED BY <2>1, <2>2, CrlfText
<1> HIDE DEF t
<1>5. t[1] = c /\ t[Len(N) + 2] = CR /\ t[Len(N) + 3] = LF /\ Len(t) = 1 + Len(N) + 2
  <2>1. Len(x) + 1 = Len(N) + 2 /\ Len(x) + 2 = Len(N) + 3 /\ 1 \in 1..Len(x)
    BY <1>1, <1>3
  <2> QED BY <1>1, <1>3, <1>4, <2>1
<1>6. ASSUME NEW i \in 1..Len(N) PROVE t[2 + i - 1] = N[i]
  <2>1. 2 + i - 1 = 1 + i /\ 1 + i \in 1..Len(x)
    BY <1>1, <1>3
  <2> QED BY <1>3, <1>4, <2>1
<1>7. Header(c, n) = t
  BY DEF Header, t, x, h, N
<1> QED BY <1>1, <1>4, <1>5, <1>6, <1>7 DEF N

(* An element: header, text and CRLF. *)
Element(v) == Header("$", Len(v)) \o v \o Crlf

LEMMA ElementText ==
    ASSUME NEW v \in Seq(Chars)
    PROVE  LET e == Element(v)
               h == Header("$", Len(v))
           IN  /\ e = ParamText(Text(v)) /\ Len(e) = ParamSize(Text(v))
               /\ e \in Seq(Chars) /\ Len(h) \in Nat /\ Len(v) \in Nat
               /\ Len(e) = Len(h) + Len(v) + 2
               /\ \A i \in 1..Len(h) : e[i] = h[i]
               /\ \A i \in 1..Len(v) : e[Len(h) + i] = v[i]
               /\ e[Len(h) + Len(v) + 1] = CR /\ e[Len(h) + Len(v) + 2] = LF
<1> DEFINE h == Header("$", Len(v))
           x == h \o v
           e == x \o Crlf
<1>1. Len(v) \in Nat /\ "$" \in Chars
  BY CharsAssumption, LenProperties
<1>2. h \in Seq(Chars) /\ Len(h) = 1 + get_num_size[Len(v)] + 2 /\ get_num_size[Len(v)] \in Nat
  BY <1>1, HeaderText, SprintfReads
<1> HIDE DEF h
<1>3. /\ x \in Seq(Chars) /\ Len(x) = Len(h) + Len(v)
      /\ \A i \in 1..Len(h) : x[i] = h[i]
      /\ \A i \in 1..Len(v) : x[Len(h) + i] = v[i]
  BY <1>2, ConcatAt
<1> HIDE DEF x
<1>4. /\ e \in Seq(Chars) /\ Len(e) = Len(x) + Len(Crlf)
      /\ \A i \in 1..Len(x) : e[i] = x[i]
      /\ \A i \in 1..Len(Crlf) : e[Len(x) + i] = Crlf[i]
  BY <1>3, ConcatAt, CrlfText
<1>5. e = Element(v)
  BY DEF Element, x, h
<1> HIDE DEF e
<1>6. Element(v) = ParamText(Text(v))
  BY DEF Element, Header, ParamText, Text
<1>7. ParamSize(Text(v)) = 1 + get_num_size[Len(v)] + 2 + Len(v) + 2
  BY DEF ParamSize, Text
<1>8. Len(e) = Len(h) + Len(v) + 2 /\ Len(e) = ParamSize(Text(v)) /\ Len(h) \in Nat
  BY <1>1, <1>2, <1>3, <1>4, <1>7, CrlfText
<1>9. e[Len(h) + Len(v) + 1] = CR /\ e[Len(h) + Len(v) + 2] = LF
  <2>1. 1 \in 1..Len(Crlf) /\ 2 \in 1..Len(Crlf)
    BY CrlfText
  <2> QED BY <1>3, <1>4, <2>1, CrlfText
<1>10. ASSUME NEW i \in 1..Len(h) PROVE e[i] = h[i]
  <2>1. i \in 1..Len(x)
    BY <1>1, <1>3, <1>8
  <2> QED BY <1>3, <1>4, <2>1
<1>11. ASSUME NEW i \in 1..Len(v) PROVE e[Len(h) + i] = v[i]
  <2>1. Len(h) + i \in 1..Len(x)
    BY <1>1, <1>3, <1>8
  <2> QED BY <1>3, <1>4, <2>1
<1> QED BY <1>1, <1>4, <1>5, <1>6, <1>8, <1>9, <1>10, <1>11 DEF h

LEMMA ElementReads ==
    ASSUME NEW a \in Seq(Chars), NEW v \in Seq(Chars), Len(v) + 2 < SizeMod
    PROVE  /\ a \o Element(v) \in Seq(Chars)
           /\ Len(a \o Element(v)) = Len(a) + ParamSize(Text(v))
           /\ Item("ready", a \o Element(v), Len(a) + 1) = Found(v, Len(a \o Element(v)) + 1)
<1> DEFINE e == Element(v)
           h == Header("$", Len(v))
           N == sprintf_num[Len(v)]
           s == a \o e
           A == Len(a)
           H == Len(h)
           V == Len(v)
           L == Len(N)
<1>1. /\ e \in Seq(Chars) /\ H \in Nat /\ V \in Nat /\ Len(e) = H + V + 2
      /\ Len(e) = ParamSize(Text(v))
      /\ \A i \in 1..H : e[i] = h[i]
      /\ \A i \in 1..V : e[H + i] = v[i]
      /\ e[H + V + 1] = CR /\ e[H + V + 2] = LF
  BY ElementText
<1>2. /\ L \in Nat /\ H = 1 + L + 2
      /\ h[1] = "$" /\ h[L + 2] = CR /\ h[L + 3] = LF
      /\ \A i \in 1..L : h[2 + i - 1] = N[i]
  <2>1. "$" \in Chars
    BY CharsAssumption
  <2> HIDE DEF e
  <2> QED BY <1>1, <2>1, HeaderText
<1>3. N \in Seq(DigitChars) /\ NumVal(N) = V
  BY <1>1, SprintfReads
<1>15. V \in Nat /\ V + 2 < SizeMod
  BY <1>1
<1> HIDE DEF e, h, N
<1>4. /\ s \in Seq(Chars) /\ A \in Nat /\ Len(s) = A + Len(e)
      /\ \A i \in 1..Len(e) : s[A + i] = e[i]
  BY <1>1, ConcatAt
<1> HIDE DEF s, A, H, V, L
<1>0. A \in Nat /\ H \in Nat /\ V \in Nat /\ Len(s) = A + H + V + 2
  <2>1. A \in Nat /\ Len(s) = A + Len(e)
    BY <1>4
  <2>2. H \in Nat /\ V \in Nat /\ Len(e) = H + V + 2
    BY <1>1
  <2> QED BY <2>1, <2>2
<1> DEFINE p == A + 2
<1>5. /\ s[A + 1] = "$" /\ s[p + L] = CR /\ s[p + L + 1] = LF
      /\ \A i \in 1..L : s[p + i - 1] = N[i]
  <2>1. ASSUME NEW i \in 1..H PROVE s[A + i] = h[i]
    <3>1. i \in 1..Len(e)
      BY <1>1
    <3> QED BY <1>1, <1>4, <3>1
  <2>2. 1 \in 1..H /\ L + 2 \in 1..H /\ L + 3 \in 1..H /\ A + (L + 2) = p + L
        /\ A + (L + 3) = p + L + 1
    BY <1>1, <1>2, <1>4
  <2>3. s[A + 1] = "$" /\ s[p + L] = CR /\ s[p + L + 1] = LF
    <3> HIDE DEF p
    <3>1. s[A + 1] = h[1] /\ s[A + (L + 2)] = h[L + 2] /\ s[A + (L + 3)] = h[L + 3]
      BY <2>1, <2>2
    <3> QED BY <1>2, <2>2, <3>1
  <2>4. ASSUME NEW i \in 1..L PROVE s[p + i - 1] = N[i]
    <3>1. 2 + i - 1 \in 1..H /\ A + (2 + i - 1) = p + i - 1
      BY <1>1, <1>2, <1>4
    <3>2. s[A + (2 + i - 1)] = h[2 + i - 1]
      BY <2>1, <3>1
    <3> HIDE DEF p
    <3> QED BY <1>2, <3>1, <3>2
  <2> QED BY <2>3, <2>4
<1>6. Number(s, p, SizeMod) = Found(V, p + L + 2)
  <2>1. p \in Nat \ {0} /\ p + L + 1 <= Len(s)
    BY <1>1, <1>2, <1>4
  <2>2. NumVal(N) \in Nat /\ NumVal(N) < SizeMod
    BY <1>3, <1>15, Moduli
  <2> HIDE DEF p
  <2>3. Number(s, p, SizeMod) = Found(NumVal(N), p + Len(N) + 2)
    <3>1. /\ s \in Seq(Chars) /\ N \in Seq(DigitChars) /\ p + Len(N) + 1 <= Len(s)
          /\ \A i \in 1..Len(N) : s[p + i - 1] = N[i]
          /\ s[p + Len(N)] = CR /\ s[p + Len(N) + 1] = LF
      BY <1>3, <1>4, <1>5, <2>1 DEF L
    <3>2. SizeMod \in Nat \ {0} /\ p \in Nat \ {0}
      BY <2>1, Moduli
    <3> QED BY <2>2, <3>1, <3>2, NumberAt
  <2> QED BY <1>3, <2>3 DEF L
<1>7. s[p] # "-"
  <2>1. CASE L = 0
    <3>1. p + L = p
      BY <1>4, <2>1
    <3> HIDE DEF p
    <3> QED BY <1>5, <3>1 DEF CR
  <2>2. CASE L # 0
    <3>1. 1 \in 1..L /\ p + 1 - 1 = p
      BY <1>2, <1>4, <2>2
    <3>2. s[p] = N[1] /\ N[1] \in DigitChars
      <4> HIDE DEF p
      <4>1. s[p + 1 - 1] = N[1]
        BY <1>5, <3>1
      <4> QED BY <1>3, <3>1, <4>1, ElementOfSeq DEF L
    <3>3. "-" \notin DigitChars
      BY DEF DigitChars, Digits
    <3> QED BY <3>2, <3>3
  <2> QED BY <2>1, <2>2
<1> DEFINE num == Number(s, p, SizeMod)
           end == num.next + num.val
<1>8. num.st = "ok" /\ num.val = V /\ num.next = A + H + 1 /\ end = A + H + V + 1
  <2>1. num.st = "ok" /\ num.val = V /\ num.next = p + L + 2
    BY <1>6 DEF Found
  <2> HIDE DEF num
  <2> QED BY <1>1, <1>2, <1>4, <2>1
<1>9. s[end] = CR /\ s[end + 1] = LF /\ end + 1 = Len(s) /\ Len(s) \in Nat
  <2>1. H + V + 1 \in 1..Len(e) /\ H + V + 2 \in 1..Len(e)
    BY <1>1
  <2>2. s[A + (H + V + 1)] = CR /\ s[A + (H + V + 2)] = LF
    BY <1>1, <1>4, <2>1
  <2>3. end = A + (H + V + 1) /\ end + 1 = A + (H + V + 2) /\ end + 1 = Len(s) /\ Len(s) \in Nat
    <3> HIDE DEF end
    <3> QED BY <1>0, <1>8
  <2> HIDE DEF end
  <2> QED BY <2>2, <2>3
<1>10. SubSeq(s, num.next, end - 1) = v
  <2> DEFINE t == SubSeq(s, A + H + 1, A + H + V)
  <2>0. A + H + 1 \in Nat /\ A + H + V \in Nat /\ A + H + V <= Len(s) /\ end - 1 = A + H + V
    <3> HIDE DEF end
    <3> QED BY <1>0, <1>8
  <2>1. \A i \in (A + H + 1)..(A + H + V) : s[i] \in Chars
    <3>1. \A i \in (A + H + 1)..(A + H + V) : i \in 1..Len(s)
      <4> HIDE DEF end, num, p
      <4> QED BY <1>0
    <3> QED BY <1>4, <3>1, ElementOfSeq
  <2>2. /\ t \in Seq(Chars)
        /\ Len(t) = IF A + H + 1 <= A + H + V THEN (A + H + V) - (A + H + 1) + 1 ELSE 0
        /\ \A i \in 1..((A + H + V) - (A + H + 1) + 1) : t[i] = s[(A + H + 1) + i - 1]
    BY <2>0, <2>1, SubSeqProperties
  <2> HIDE DEF t
  <2>3. Len(t) = V
    BY <1>1, <1>4, <2>2
  <2>4. ASSUME NEW i \in 1..Len(t) PROVE t[i] = v[i]
    <3>1. /\ i \in 1..((A + H + V) - (A + H + 1) + 1) /\ (A + H + 1) + i - 1 = A + (H + i)
          /\ i \in 1..V /\ H + i \in 1..Len(e)
      <4>1. i \in 1..V /\ i \in Nat
        BY <1>1, <2>3
      <4>2. H + i \in 1..Len(e)
        BY <1>1, <4>1
      <4> HIDE DEF end, num, p
      <4> QED BY <1>0, <4>1, <4>2
    <3>2. t[i] = s[A + (H + i)]
      BY <2>2, <3>1
    <3>3. s[A + (H + i)] = e[H + i]
      BY <1>4, <3>1
    <3> QED BY <1>1, <3>1, <3>2, <3>3
  <2>5. t = v
    BY <2>2, <2>3, <2>4, SeqEqual DEF V
  <2> HIDE DEF num, end
  <2> QED BY <1>8, <2>0, <2>5 DEF t
<1>11. Item("ready", s, A + 1) = parse_bulk_reply2(s, p)
  <2>1. ~(A + 1 > Len(s)) /\ A + 1 + 1 = p
    BY <1>1, <1>4
  <2> HIDE DEF p
  <2> QED BY <1>5, <2>1 DEF Item
<1>12. parse_bulk_reply2(s, p) = BulkData(s, num)
  <2> HIDE DEF p
  <2> QED BY <1>7 DEF parse_bulk_reply2
<1>13. BulkData(s, num) = Found(v, Len(s) + 1)
  <2>1. end + 2 = Len(s) + 1
    <3> HIDE DEF end
    <3>1. end \in Int
      BY <1>1, <1>4, <1>8
    <3> QED BY <1>9, <3>1
  <2>2. ~(Len(s) + 1 - num.next < num.val + 2)
    <3> HIDE DEF num
    <3> QED BY <1>0, <1>8
  <2>3. num.val # SizeMod - 1 /\ num.val # SizeMod - 2
    <3> HIDE DEF num
    <3> QED BY <1>8, <1>15, Moduli
  <2> HIDE DEF num
  <2> QED BY <1>8, <1>9, <1>10, <2>1, <2>2, <2>3 DEF BulkData
<1>14. Len(s) = A + ParamSize(Text(v))
  BY <1>1, <1>4
<1> HIDE DEF p, num
<1> QED BY <1>4, <1>11, <1>12, <1>13, <1>14 DEF s, e, A

(* A message: the text and its size while the parameters are added. *)
Written(arr, n) ==
    CHOOSE f : f = [i \in 0..n |-> IF i = 0 THEN <<"*">> \o sprintf_num[n] \o Crlf
                                   ELSE f[i - 1] \o ParamText(arr[i])]
Counting(arr, n) ==
    CHOOSE f : f = [i \in 0..n |-> IF i = 0 THEN 1 + get_num_size[n] + 2
                                   ELSE f[i - 1] + ParamSize(arr[i])]

LEMMA WrittenSteps ==
    ASSUME NEW arr, NEW n \in Nat
    PROVE  /\ Written(arr, n)[0] = Header("*", n)
           /\ \A i \in 1..n : Written(arr, n)[i] = Written(arr, n)[i - 1] \o ParamText(arr[i])
<1> DEFINE b == Header("*", n)
           Upto(f, k) == f = [i \in 0..k |-> IF i = 0 THEN b ELSE f[i - 1] \o ParamText(arr[i])]
           T == {k \in Nat : \E f : Upto(f, k)}
<1> HIDE DEF b
<1>1. 0 \in T
  <2>1. Upto([i \in 0..0 |-> b], 0)
    OBVIOUS
  <2> HIDE DEF Upto
  <2> QED BY <2>1
<1>2. ASSUME NEW k \in Nat, k \in T PROVE k + 1 \in T
  <2>1. PICK f : Upto(f, k)
    BY <1>2
  <2> DEFINE g == [i \in 0..(k + 1) |-> IF i = k + 1 THEN f[k] \o ParamText(arr[k + 1]) ELSE f[i]]
  <2>2. Upto(g, k + 1)
    BY <2>1
  <2> HIDE DEF g, Upto
  <2> QED BY <2>2
<1>3. \E f : Upto(f, n)
  <2> HIDE DEF T
  <2>1. n \in T
    BY <1>1, <1>2, Induction
  <2> QED BY <2>1 DEF T
<1>4. Upto(Written(arr, n), n)
  <2>1. Written(arr, n) = CHOOSE f : Upto(f, n)
    BY DEF Written, b, Header
  <2> HIDE DEF Upto
  <2> QED BY <1>3, <2>1
<1> DEFINE f == Written(arr, n)
<1> HIDE DEF f
<1>5. f = [i \in 0..n |-> IF i = 0 THEN b ELSE f[i - 1] \o ParamText(arr[i])]
  BY <1>4 DEF f
<1>6. f[0] = b /\ \A i \in 1..n : f[i] = f[i - 1] \o ParamText(arr[i])
  BY <1>5
<1> QED BY <1>6 DEF f, b

LEMMA CountingSteps ==
    ASSUME NEW arr, NEW n \in Nat
    PROVE  /\ Counting(arr, n)[0] = 1 + get_num_size[n] + 2
           /\ \A i \in 1..n : Counting(arr, n)[i] = Counting(arr, n)[i - 1] + ParamSize(arr[i])
<1> DEFINE b == 1 + get_num_size[n] + 2
           Upto(f, k) == f = [i \in 0..k |-> IF i = 0 THEN b ELSE f[i - 1] + ParamSize(arr[i])]
           T == {k \in Nat : \E f : Upto(f, k)}
<1> HIDE DEF b
<1>1. 0 \in T
  <2>1. Upto([i \in 0..0 |-> b], 0)
    OBVIOUS
  <2> HIDE DEF Upto
  <2> QED BY <2>1
<1>2. ASSUME NEW k \in Nat, k \in T PROVE k + 1 \in T
  <2>1. PICK f : Upto(f, k)
    BY <1>2
  <2> DEFINE g == [i \in 0..(k + 1) |-> IF i = k + 1 THEN f[k] + ParamSize(arr[k + 1]) ELSE f[i]]
  <2>2. Upto(g, k + 1)
    BY <2>1
  <2> HIDE DEF g, Upto
  <2> QED BY <2>2
<1>3. \E f : Upto(f, n)
  <2> HIDE DEF T
  <2>1. n \in T
    BY <1>1, <1>2, Induction
  <2> QED BY <2>1 DEF T
<1>4. Upto(Counting(arr, n), n)
  <2>1. Counting(arr, n) = CHOOSE f : Upto(f, n)
    BY DEF Counting, b
  <2> HIDE DEF Upto
  <2> QED BY <1>3, <2>1
<1> DEFINE f == Counting(arr, n)
<1> HIDE DEF f
<1>5. f = [i \in 0..n |-> IF i = 0 THEN b ELSE f[i - 1] + ParamSize(arr[i])]
  BY <1>4 DEF f
<1>6. f[0] = b /\ \A i \in 1..n : f[i] = f[i - 1] + ParamSize(arr[i])
  BY <1>5
<1> QED BY <1>6 DEF f, b

(* The parameters are texts. *)
TextsOf(arr, v) ==
    /\ v \in Seq(Seq(Chars)) /\ Len(v) = Len(arr) /\ Len(v) \in Nat \ {0}
    /\ \A i \in 1..Len(v) : arr[i] = Text(v[i])

(* The size that is counted first is the size of the text, so the check at *)
(* the end of redis_build_query never fails.                               *)
LEMMA QueryText ==
    ASSUME NEW arr, NEW v, TextsOf(arr, v)
    PROVE  LET n == Len(v)
               f == Written(arr, n)
           IN  /\ n \in Nat \ {0}
               /\ f[0] = Header("*", n)
               /\ \A i \in 1..n : f[i] = f[i - 1] \o Element(v[i]) /\ v[i] \in Seq(Chars)
               /\ \A i \in 0..n : f[i] \in Seq(Chars)
               /\ build_query(arr) = f[n]
<1> DEFINE n == Len(v)
           f == Written(arr, n)
           t == Counting(arr, n)
           T == {k \in Nat : k <= n => f[k] \in Seq(Chars) /\ Len(f[k]) = t[k]}
<1>1. n \in Nat \ {0} /\ Len(arr) = n /\ "*" \in Chars
  BY CharsAssumption DEF TextsOf
<1>2. \A i \in 1..n : v[i] \in Seq(Chars) /\ arr[i] = Text(v[i])
  <2> TAKE i \in 1..n
  <2>1. v[i] \in Seq(Chars)
    BY ElementOfSeq DEF TextsOf
  <2> QED BY <2>1 DEF TextsOf
<1>3. \A i \in 1..n : ParamText(arr[i]) = Element(v[i]) /\ Len(Element(v[i])) = ParamSize(arr[i])
                      /\ Element(v[i]) \in Seq(Chars)
  <2> TAKE i \in 1..n
  <2> HIDE DEF n, f, t, T
  <2>1. v[i] \in Seq(Chars) /\ arr[i] = Text(v[i])
    BY <1>2
  <2>2. /\ ParamText(Text(v[i])) = Element(v[i]) /\ Len(Element(v[i])) = ParamSize(Text(v[i]))
        /\ Element(v[i]) \in Seq(Chars)
    BY <2>1, ElementText, Zenon
  <2> QED BY <2>1, <2>2, Zenon
<1>4. /\ f[0] = Header("*", n) /\ \A i \in 1..n : f[i] = f[i - 1] \o Element(v[i])
      /\ t[0] = 1 + get_num_size[n] + 2 /\ \A i \in 1..n : t[i] = t[i - 1] + ParamSize(arr[i])
  BY <1>1, <1>3, WrittenSteps, CountingSteps
<1>5. build_query(arr) = IF n > 0 /\ Len(f[n]) = t[n] THEN f[n] ELSE <<>>
  <2>1. build_query(arr) = IF Len(arr) > 0 /\ Len(Written(arr, Len(arr))[Len(arr)])
                                               = Counting(arr, Len(arr))[Len(arr)]
                           THEN Written(arr, Len(arr))[Len(arr)] ELSE <<>>
    BY DEF build_query, Written, Counting
  <2> QED BY <1>1, <2>1
<1> HIDE DEF f, t, n
<1>6. 0 \in T
  <2>1. Header("*", n) \in Seq(Chars) /\ Len(Header("*", n)) = 1 + get_num_size[n] + 2
    BY <1>1, HeaderText
  <2> QED BY <1>4, <2>1
<1>7. ASSUME NEW k \in Nat, k \in T PROVE k + 1 \in T
  <2> SUFFICES ASSUME k + 1 <= n PROVE f[k + 1] \in Seq(Chars) /\ Len(f[k + 1]) = t[k + 1]
    OBVIOUS
  <2>1. k + 1 \in 1..n /\ (k + 1) - 1 = k /\ k <= n
    BY <1>1
  <2>2. f[k] \in Seq(Chars) /\ Len(f[k]) = t[k]
    BY <1>7, <2>1
  <2>3. f[k + 1] = f[k] \o Element(v[k + 1]) /\ t[k + 1] = t[k] + Len(Element(v[k + 1]))
        /\ Element(v[k + 1]) \in Seq(Chars)
    BY <1>3, <1>4, <2>1
  <2> DEFINE x == f[k]
             e == Element(v[k + 1])
  <2>4. x \o e \in Seq(Chars) /\ Len(x \o e) = Len(x) + Len(e)
    BY <2>2, <2>3, ConcatAt
  <2> QED BY <2>2, <2>3, <2>4
<1>8. \A k \in Nat : k \in T
  <2> HIDE DEF T
  <2> QED BY <1>6, <1>7, Induction
<1>9. \A i \in 0..n : f[i] \in Seq(Chars) /\ Len(f[i]) = t[i]
  BY <1>1, <1>8
<1>10. build_query(arr) = f[n]
  <2>1. n > 0 /\ n \in 0..n
    BY <1>1
  <2> QED BY <1>5, <1>9, <2>1
<1> QED BY <1>1, <1>2, <1>4, <1>9, <1>10 DEF f, n

LEMMA PrefixTrans ==
    ASSUME NEW s, NEW u, NEW w, Prefix(s, u), Prefix(u, w)
    PROVE  Prefix(s, w)
<1>1. Len(s) \in Nat /\ Len(u) \in Nat /\ Len(w) \in Nat /\ Len(s) <= Len(u) /\ Len(u) <= Len(w)
  BY PrefixLengths
<1>2. \A i \in 1..Len(s) : i \in 1..Len(u)
  BY <1>1
<1> QED BY <1>1, <1>2 DEF Prefix

LEMMA WrittenPrefix ==
    ASSUME NEW arr, NEW v, TextsOf(arr, v), NEW i \in 0..Len(v)
    PROVE  Prefix(Written(arr, Len(v))[i], build_query(arr))
<1> DEFINE n == Len(v)
           f == Written(arr, n)
           T == {k \in Nat : i + k <= n => Prefix(f[i], f[i + k])}
<1>1. /\ n \in Nat \ {0} /\ build_query(arr) = f[n]
      /\ \A j \in 1..n : f[j] = f[j - 1] \o Element(v[j]) /\ v[j] \in Seq(Chars)
      /\ \A j \in 0..n : f[j] \in Seq(Chars)
  BY QueryText
<1>2. \A j \in 1..n : Prefix(f[j - 1], f[j])
  <2> TAKE j \in 1..n
  <2>1. j - 1 \in 0..n
    BY <1>1
  <2>2. f[j - 1] \in Seq(Chars) /\ Element(v[j]) \in Seq(Chars)
    BY <1>1, <2>1, ElementText
  <2> HIDE DEF f
  <2> QED BY <1>1, <2>2, ConcatPrefix
<1> HIDE DEF f, n
<1>3. i \in 0..n /\ i \in Nat /\ i <= n
  BY <1>1 DEF n
<1>4. 0 \in T
  <2>1. i + 0 = i
    BY <1>3
  <2>2. Prefix(f[i], f[i])
    BY <1>1, <1>3, PrefixSelf
  <2> QED BY <2>1, <2>2
<1>5. ASSUME NEW k \in Nat, k \in T PROVE k + 1 \in T
  <2>1. SUFFICES ASSUME i + (k + 1) <= n PROVE Prefix(f[i], f[i + (k + 1)])
    OBVIOUS
  <2>2. i + k <= n /\ i + (k + 1) \in 1..n /\ (i + (k + 1)) - 1 = i + k
    BY <1>1, <1>3, <2>1
  <2>3. Prefix(f[i], f[i + k]) /\ Prefix(f[i + k], f[i + (k + 1)])
    BY <1>2, <1>5, <2>2
  <2> QED BY <2>3, PrefixTrans
<1>6. n - i \in T
  <2> HIDE DEF T
  <2>1. n - i \in Nat
    BY <1>1, <1>3
  <2> QED BY <1>4, <1>5, <2>1, Induction
<1>7. i + (n - i) = n /\ n <= n
  BY <1>1, <1>3
<1> QED BY <1>1, <1>6, <1>7 DEF f, n

(* A message that was built is found whole, with its parameters. *)
LEMMA QueryReads ==
    ASSUME NEW arr, NEW v, TextsOf(arr, v),
           2 * Len(v) < IntMod, \A j \in 1..Len(v) : Len(v[j]) + 2 < SizeMod
    PROVE  /\ build_query(arr) \in Seq(Chars) /\ build_query(arr) # <<>>
           /\ parse_ready(build_query(arr)) = Found(v, Len(build_query(arr)))
           /\ Elements(build_query(arr)) = v /\ v # Null
<1> DEFINE n == Len(v)
           f == Written(arr, n)
           u == build_query(arr)
           N == sprintf_num[n]
           num == Number(u, 2, IntMod)
           g == Collected("ready", u, num, n)
           T == {k \in Nat : k <= n => g[k] = Found(SubSeq(v, 1, k), Len(f[k]) + 1)}
<1>1. /\ n \in Nat \ {0} /\ u = f[n]
      /\ f[0] = Header("*", n)
      /\ \A j \in 1..n : f[j] = f[j - 1] \o Element(v[j]) /\ v[j] \in Seq(Chars)
      /\ \A j \in 0..n : f[j] \in Seq(Chars)
  BY QueryText
<1>2. \A j \in 0..n : Prefix(f[j], u)
  BY WrittenPrefix
<1>3. /\ Len(N) \in Nat /\ Len(f[0]) = Len(N) + 3 /\ f[0] \in Seq(Chars)
      /\ f[0][1] = "*" /\ f[0][Len(N) + 2] = CR /\ f[0][Len(N) + 3] = LF
      /\ \A i \in 1..Len(N) : f[0][2 + i - 1] = N[i]
  <2>1. "*" \in Chars
    BY CharsAssumption
  <2> HIDE DEF f, n, u
  <2>2. LET t == Header("*", n)
        IN  /\ t \in Seq(Chars) /\ Len(N) \in Nat
            /\ Len(t) = 1 + Len(N) + 2
            /\ t[1] = "*" /\ t[Len(N) + 2] = CR /\ t[Len(N) + 3] = LF
            /\ \A i \in 1..Len(N) : t[2 + i - 1] = N[i]
    BY <1>1, <2>1, HeaderText
  <2> HIDE DEF N
  <2> QED BY <1>1, <2>2
<1>4. N \in Seq(DigitChars) /\ NumVal(N) = n
  BY <1>1, SprintfReads
<1>19. n < IntMod /\ 2 * n < IntMod /\ n # IntMod - 1 /\ \A j \in 1..n : Len(v[j]) + 2 < SizeMod
  <2>1. 2 * n < IntMod /\ \A j \in 1..n : Len(v[j]) + 2 < SizeMod
    OBVIOUS
  <2> HIDE DEF n
  <2> QED BY <1>1, <2>1, ModAssumption
<1> HIDE DEF f, n, u, N
<1>5. /\ Number(f[0], 2, IntMod) = Found(n, Len(f[0]) + 1)
      /\ NumEnd(f[0], 2) = 2 + Len(N) /\ SubSeq(f[0], 2, 2 + Len(N) - 1) = N
  <2>1. /\ 2 \in Nat \ {0} /\ 2 + Len(N) + 1 <= Len(f[0]) /\ Len(N) + 2 = 2 + Len(N)
        /\ Len(N) + 3 = 2 + Len(N) + 1 /\ 2 + Len(N) + 2 = Len(f[0]) + 1
    BY <1>3
  <2> DEFINE s == f[0]
  <2>2. /\ s \in Seq(Chars) /\ 2 + Len(N) + 1 <= Len(s)
        /\ s[2 + Len(N)] = CR /\ s[2 + Len(N) + 1] = LF
        /\ \A i \in 1..Len(N) : s[2 + i - 1] = N[i]
    BY <1>3, <2>1
  <2> HIDE DEF s
  <2>3. /\ Number(s, 2, IntMod) = Found(NumVal(N), 2 + Len(N) + 2)
        /\ NumEnd(s, 2) = 2 + Len(N) /\ SubSeq(s, 2, 2 + Len(N) - 1) = N
    <3>1. NumVal(N) \in Nat /\ NumVal(N) < IntMod
      BY <1>1, <1>4, <1>19
    <3> QED BY <1>4, <2>1, <2>2, <3>1, Moduli, NumberAt
  <2> QED BY <1>4, <2>1, <2>3 DEF s
<1>6. /\ num = Found(n, Len(f[0]) + 1) /\ NumEnd(u, 2) = 2 + Len(N)
      /\ NumVal(SubSeq(u, 2, NumEnd(u, 2) - 1)) = n
  <2>1. Prefix(f[0], u) /\ 2 \in 1..(Len(f[0]) + 1) /\ Number(f[0], 2, IntMod).st = "ok"
    BY <1>1, <1>2, <1>3, <1>5 DEF Found
  <2>2. /\ NumEnd(u, 2) = NumEnd(f[0], 2) /\ Number(u, 2, IntMod) = Number(f[0], 2, IntMod)
        /\ NumVal(SubSeq(u, 2, NumEnd(u, 2) - 1)) = NumVal(SubSeq(f[0], 2, NumEnd(f[0], 2) - 1))
    BY <2>1, Moduli, NumberComplete
  <2>3. NumVal(SubSeq(f[0], 2, NumEnd(f[0], 2) - 1)) = n
    <3>1. NumEnd(f[0], 2) - 1 = 2 + Len(N) - 1
      BY <1>3, <1>5
    <3> QED BY <1>4, <1>5, <3>1, Zenon
  <2>4. NumEnd(u, 2) = 2 + Len(N)
    BY <1>5, <2>2
  <2>5. num = Found(n, Len(f[0]) + 1)
    BY <1>5, <2>2
  <2> HIDE DEF num
  <2> QED BY <2>2, <2>3, <2>4, <2>5
<1>7. num.st = "ok" /\ num.val = n /\ num.next = Len(f[0]) + 1
  BY <1>6 DEF Found
<1> HIDE DEF num
<1>8. /\ g[0] = Found(<<>>, num.next)
      /\ \A i \in 0..(n - 1) :
            g[i].st = "ok" => g[i + 1] = Then(g[i], Item("ready", u, g[i].next))
  BY <1>1, CollectedSteps
<1> HIDE DEF g
<1>9. v \in Seq(Seq(Chars)) /\ Len(v) = n
  BY DEF TextsOf, n
<1>10. 0 \in T
  <2>1. SubSeq(v, 1, 0) = <<>>
    BY SubSeqEmpty
  <2> QED BY <1>7, <1>8, <2>1
<1>11. ASSUME NEW k \in Nat, k \in T PROVE k + 1 \in T
  <2>1. SUFFICES ASSUME k + 1 <= n
                 PROVE  g[k + 1] = Found(SubSeq(v, 1, k + 1), Len(f[k + 1]) + 1)
    OBVIOUS
  <2>2. k \in 0..(n - 1) /\ k \in 0..n /\ k + 1 \in 1..n /\ k + 1 \in 0..n /\ (k + 1) - 1 = k /\ k <= n
    BY <1>1, <2>1
  <2> DEFINE a == f[k]
             b == f[k + 1]
             x == v[k + 1]
             p == Len(a) + 1
  <2>3. a \in Seq(Chars) /\ x \in Seq(Chars) /\ b = a \o Element(x) /\ b \in Seq(Chars)
    BY <1>1, <2>2
  <2>4. g[k] = Found(SubSeq(v, 1, k), p)
    BY <1>11, <2>2
  <2>5. g[k].st = "ok" /\ g[k].val = SubSeq(v, 1, k) /\ g[k].next = p
    BY <2>4 DEF Found
  <2>6. g[k + 1] = Then(g[k], Item("ready", u, p))
    BY <1>8, <2>2, <2>5
  <2>7. Item("ready", u, p) = Found(x, Len(b) + 1)
    <3> HIDE DEF a, x, b
    <3>1. Item("ready", b, Len(a) + 1) = Found(x, Len(b) + 1)
      <4>1. Len(x) + 2 < SizeMod
        BY <1>19, <2>2 DEF x
      <4> QED BY <2>3, <4>1, ElementReads
    <3>2. Prefix(b, u) /\ Prefix(a, b)
      <4>1. Element(x) \in Seq(Chars)
        BY <2>3, ElementText
      <4> QED BY <1>2, <2>2, <2>3, <4>1, ConcatPrefix DEF b
    <3>3. p \in 1..(Len(b) + 1) /\ Item("ready", b, p).st = "ok"
      <4>1. Len(a) \in Nat /\ Len(b) \in Nat /\ Len(a) <= Len(b)
        BY <3>2, PrefixLengths
      <4>2. p \in 1..(Len(b) + 1)
        BY <4>1
      <4> QED BY <3>1, <4>2 DEF Found
    <3> QED BY <3>1, <3>2, <3>3, ItemComplete
  <2>8. Append(SubSeq(v, 1, k), x) = SubSeq(v, 1, k + 1)
    <3>1. SubSeq(v, 1, k) \in Seq(Seq(Chars)) /\ x \in Seq(Chars)
      <4>1. \A i \in 1..k : v[i] \in Seq(Chars)
        <5>1. \A i \in 1..k : i \in 1..n
          BY <1>1, <2>2
        <5> QED BY <1>1, <5>1
      <4> QED BY <2>3, <4>1, SubSeqProperties
    <3>2. Append(SubSeq(v, 1, k), x) = SubSeq(v, 1, k) \o <<x>>
      BY <3>1, AppendIsConcat
    <3>3. SubSeq(v, 1, k + 1) = SubSeq(v, 1, (k + 1) - 1) \o <<v[k + 1]>>
      <4>1. 1 \in 1..Len(v) /\ k + 1 \in 1..Len(v)
        BY <1>1, <1>9, <2>2
      <4> QED BY <1>9, <4>1, SubSeqRecursiveSecond
    <3> QED BY <2>2, <3>2, <3>3
  <2> DEFINE it == Item("ready", u, p)
  <2>9. it.st = "ok" /\ it.val = x /\ it.next = Len(b) + 1
    BY <2>7 DEF Found
  <2> HIDE DEF x, p, it, b
  <2>10. g[k + 1] = Found(Append(g[k].val, it.val), it.next)
    BY <2>6, <2>9 DEF Then, it
  <2> QED BY <2>5, <2>8, <2>9, <2>10 DEF b
<1>12. \A k \in Nat : k \in T
  <2> HIDE DEF T
  <2> QED BY <1>10, <1>11, Induction
<1>13. g[n] = Found(v, Len(u) + 1)
  <2>1. g[n] = Found(SubSeq(v, 1, n), Len(f[n]) + 1)
    BY <1>1, <1>12
  <2>2. SubSeq(v, 1, n) = v
    BY <1>9, SubSeqFull
  <2> QED BY <1>1, <2>1, <2>2
<1>14. Items("ready", u, num) = g[n]
  BY <1>7 DEF Items, Collected, Then, g
<1>15. parse_multi_bulk_reply2(u, 2) = Found(v, Len(u) + 1)
  <2>1. Passes(num) = num
    <3>1. ~(2 * num.val >= IntMod)
      BY <1>1, <1>7, <1>19, ModAssumption
    <3> QED BY <3>1 DEF Passes
  <2>2. NumVal(SubSeq(u, 2, NumEnd(u, 2) - 1)) % IntMod # 0
    <3>1. n % IntMod = n
      BY <1>1, <1>19, Moduli, ModSmall
    <3> QED BY <1>1, <1>6, <3>1
  <2>3. parse_multi_bulk_reply2(u, 2) = Items("ready", u, num)
    BY <2>1, <2>2 DEF parse_multi_bulk_reply2, num
  <2> QED BY <1>13, <1>14, <2>3
<1>16. u \in Seq(Chars) /\ Len(u) \in Nat \ {0} /\ u[1] = "*"
  <2>1. Prefix(f[0], u) /\ 1 \in 1..Len(f[0])
    BY <1>1, <1>2, <1>3
  <2>2. Len(u) \in Nat /\ Len(f[0]) <= Len(u) /\ Len(f[0]) \in Nat
    BY <2>1, PrefixLengths
  <2> QED BY <1>3, <2>1, <2>2 DEF Prefix
<1>17. parse_ready(u) = Found(v, Len(u))
  <2> DEFINE r == parse_multi_bulk_reply2(u, 2)
  <2>1. r.st = "ok" /\ r.val = v /\ r.next - 1 = Len(u)
    BY <1>15, <1>16 DEF Found
  <2>2. parse_ready(u) = Found(r.val, r.next - 1)
    BY <1>16, <2>1 DEF parse_ready
  <2> QED BY <2>1, <2>2
<1>18. u # <<>>
  BY <1>16, EmptySeq
<1>20. Elements(u) = v
  <2>1. parse_ready(u).st = "ok" /\ parse_ready(u).val = v
    BY <1>17 DEF Found
  <2>2. parse_reply(u) = Reply(u)
    BY <1>16, <1>18, <2>1, PrefixSelf, ReadyComplete
  <2>3. Value(u) = v
    BY <1>7, <1>19, <2>1 DEF Value, num
  <2> QED BY <2>2, <2>3 DEF Elements, Reply
<1>21. v # Null
  BY <1>9, NullAssumption
<1> QED BY <1>16, <1>17, <1>18, <1>20, <1>21 DEF u

(* The program's own messages.  An order of the keys has each key once. *)
LEMMA OrderOfKeys ==
    ASSUME NEW D, IsFiniteSet(D), D # {}, NEW order \in SetToSeqs(D)
    PROVE  /\ order \in Seq(D) /\ Len(order) \in Nat \ {0}
           /\ Len(order) = Cardinality(D)
           /\ \A i \in 1..Len(order) : order[i] \in D
           /\ \A i, j \in 1..Len(order) : order[i] = order[j] => i = j
           /\ \A k \in D : \E i \in 1..Len(order) : order[i] = k
<1> DEFINE c == Cardinality(D)
<1>1. c \in Nat /\ c # 0
  BY FS_CardinalityType, FS_EmptySet
<1>2. order \in [1..c -> D] /\ \A i, j \in 1..c : i # j => order[i] # order[j]
  BY DEF SetToSeqs
<1>3. IsFiniteSet(1..c) /\ Cardinality(1..c) = c
  <2>1. 1 \in Int /\ c \in Int /\ ~(1 > c) /\ c - 1 + 1 = c
    BY <1>1
  <2> HIDE DEF c
  <2> QED BY <2>1, FS_Interval
<1> HIDE DEF c
<1>4. order \in Injection(1..c, D)
  BY <1>2 DEF Injection, IsInjective
<1>5. order \in Surjection(1..c, D)
  <2>1. Cardinality(1..c) = Cardinality(D)
    BY <1>3 DEF c
  <2> QED BY <1>4, <2>1, FS_Injection
<1>6. order \in Seq(D) /\ Len(order) = c
  BY <1>1, <1>2
<1> QED BY <1>1, <1>2, <1>5, <1>6 DEF Surjection, c

(* A key of two letters and a value: what tomap makes of it. *)
LEMMA KeyAndValue ==
    ASSUME NEW k \in Seq(Chars), NEW x \in Seq(Chars), Len(k) = 2
    PROVE  /\ k \o x \in Seq(Chars) /\ Len(k \o x) = 2 + Len(x) /\ Len(x) \in Nat
           /\ SubSeq(k \o x, 1, 2) = k
           /\ SubSeq(k \o x, 3, Len(k \o x)) = x
<1> DEFINE s == k \o x
<1>1. /\ s \in Seq(Chars) /\ Len(s) = 2 + Len(x) /\ Len(x) \in Nat
      /\ \A i \in 1..Len(x) : s[2 + i] = x[i]
  <2>1. /\ s \in Seq(Chars) /\ Len(s) = Len(k) + Len(x) /\ Len(x) \in Nat
        /\ \A i \in 1..Len(x) : s[Len(k) + i] = x[i]
    BY ConcatAt
  <2> HIDE DEF s
  <2> QED BY <2>1
<1>2. SubSeq(s, 1, 2) = SubSeq(k, 1, 2)
  <2>1. 1 \in 1..Len(k) /\ 2 \in 1..Len(k)
    OBVIOUS
  <2> QED BY <2>1, SubSeqOfConcat1
<1>3. SubSeq(k, 1, 2) = k
  BY SubSeqFull
<1> HIDE DEF s
<1>4. SubSeq(s, 3, Len(s)) = x
  <2> DEFINE t == SubSeq(s, 2 + 1, Len(s))
  <2>1. 2 \in 0..Len(s)
    BY <1>1
  <2>2. t \in Seq(Chars) /\ Len(t) = Len(s) - 2 /\ \A i \in 1..(Len(s) - 2) : t[i] = s[2 + i]
    BY <1>1, <2>1, DropFirst
  <2> HIDE DEF t
  <2>3. Len(t) = Len(x) /\ \A i \in 1..Len(t) : t[i] = x[i]
    <3>1. Len(t) = Len(x) /\ Len(s) - 2 = Len(x)
      BY <1>1, <2>2
    <3> QED BY <1>1, <2>2, <3>1
  <2>4. t = x
    BY <2>2, <2>3, SeqEqual
  <2>5. 2 + 1 = 3
    OBVIOUS
  <2> QED BY <2>4, <2>5 DEF t
<1> QED BY <1>1, <1>2, <1>3, <1>4 DEF s

LEMMA MaxOne == ASSUME NEW j \in Nat PROVE Max({j}) = j
BY DEF Max

(* Whatever the order of the keys, the message is found whole and means    *)
(* what was sent; it is broken to checkarr just if a value is empty.       *)
LEMMA FrameReads ==
    ASSUME NEW m \in Messages, DOMAIN m # {}, NEW fr \in Frames(m)
    PROVE  /\ fr \in Seq(Chars) /\ fr # <<>>
           /\ parse_ready(fr).st = "ok" /\ parse_ready(fr).next = Len(fr)
           /\ Elements(fr) # Null /\ tomap(Elements(fr)) = m
           /\ checkarr(Elements(fr)) <=> ~Hollow(m)
<1> DEFINE D == DOMAIN m
<1>1. /\ IsFiniteSet(D) /\ m \in [D -> Seq(Chars)]
      /\ \A k \in D : k \in Seq(Chars) /\ Len(k) = 2 /\ Len(m[k]) + 4 < SizeMod
      /\ 2 * Cardinality(D) < IntMod
  BY MessagesAssumption
<1>2. PICK order \in SetToSeqs(D) : fr = build_query(toarr(m, order))
  BY DEF Frames
<1> DEFINE n == Len(order)
           arr == toarr(m, order)
           v == [i \in 1..n |-> order[i] \o m[order[i]]]
<1>3. /\ n \in Nat \ {0} /\ n = Cardinality(D)
      /\ \A i \in 1..n : order[i] \in D
      /\ \A i, j \in 1..n : order[i] = order[j] => i = j
      /\ \A k \in D : \E i \in 1..n : order[i] = k
  <2>1. D # {}
    OBVIOUS
  <2> HIDE DEF D
  <2> QED BY <1>1, <1>2, <2>1, OrderOfKeys
<1>4. \A i \in 1..n : order[i] \in Seq(Chars) /\ Len(order[i]) = 2 /\ m[order[i]] \in Seq(Chars)
                   /\ Len(m[order[i]]) + 4 < SizeMod
  BY <1>1, <1>3
<1> HIDE DEF n, D
<1>5. \A i \in 1..n : /\ order[i] \o m[order[i]] \in Seq(Chars)
                      /\ Len(order[i] \o m[order[i]]) = 2 + Len(m[order[i]])
                      /\ Len(m[order[i]]) \in Nat
                      /\ SubSeq(order[i] \o m[order[i]], 1, 2) = order[i]
                      /\ SubSeq(order[i] \o m[order[i]], 3, Len(order[i] \o m[order[i]]))
                            = m[order[i]]
  BY <1>4, KeyAndValue
<1>6. v \in Seq(Seq(Chars)) /\ Len(v) = n /\ \A i \in 1..n : v[i] = order[i] \o m[order[i]]
  <2>1. v \in [1..n -> Seq(Chars)] /\ \A i \in 1..n : v[i] = order[i] \o m[order[i]]
    BY <1>5
  <2> DEFINE X == Seq(Chars)
  <2>2. v \in [1..n -> X] /\ n \in Nat
    BY <1>3, <2>1
  <2> HIDE DEF v, X
  <2>3. v \in Seq(X) /\ Len(v) = n
    BY <2>2
  <2> QED BY <2>1, <2>3 DEF X
<1> HIDE DEF v
<1>7. TextsOf(arr, v)
  <2>1. arr = [i \in 1..n |-> Text(order[i] \o m[order[i]])]
    BY DEF toarr, n
  <2>2. Len(arr) = n
    <3> HIDE DEF arr
    <3> QED BY <1>3, <2>1
  <2>3. \A i \in 1..n : arr[i] = Text(v[i])
    <3> HIDE DEF arr
    <3> QED BY <1>6, <2>1
  <2> QED BY <1>3, <1>6, <2>2, <2>3 DEF TextsOf
<1>8. /\ fr \in Seq(Chars) /\ fr # <<>> /\ parse_ready(fr) = Found(v, Len(fr))
      /\ Elements(fr) = v /\ v # Null
  <2> HIDE DEF arr
  <2>2. 2 * Len(v) < IntMod
    BY <1>1, <1>3, <1>6
  <2>3. \A j \in 1..Len(v) : Len(v[j]) + 2 < SizeMod
    <3>1. ASSUME NEW j \in 1..n PROVE Len(v[j]) + 2 < SizeMod
      <4>1. Len(v[j]) = 2 + Len(m[order[j]]) /\ Len(m[order[j]]) \in Nat
            /\ Len(m[order[j]]) + 4 < SizeMod
        BY <1>4, <1>5, <1>6
      <4> QED BY <4>1, Moduli
    <3> QED BY <1>6, <3>1
  <2>1. fr = build_query(arr)
    BY <1>2 DEF arr
  <2> QED BY <1>7, <2>1, <2>2, <2>3, QueryReads
<1>9. parse_ready(fr).st = "ok" /\ parse_ready(fr).next = Len(fr) /\ Elements(fr) = v
  BY <1>8 DEF Found
<1>10. \A i \in 1..n : SubSeq(v[i], 1, 2) = order[i] /\ SubSeq(v[i], 3, Len(v[i])) = m[order[i]]
  BY <1>5, <1>6
<1>11. tomap(v) = m
  <2> DEFINE key(i) == SubSeq(v[i], 1, 2)
             Of(k) == {i \in 1..Len(v) : key(i) = k}
  <2>0. Len(v) = n /\ \A i \in 1..n : key(i) = order[i]
    BY <1>6, <1>10
  <2>1. {key(i) : i \in 1..Len(v)} = D
    <3> HIDE DEF key
    <3> QED BY <1>3, <2>0
  <2>2. ASSUME NEW k \in D
        PROVE  SubSeq(v[Max(Of(k))], 3, Len(v[Max(Of(k))])) = m[k]
    <3>1. PICK j \in 1..n : order[j] = k
      BY <1>3
    <3>2. Of(k) = {j}
      <4> HIDE DEF key
      <4>1. \A i \in 1..n : key(i) = k <=> i = j
        BY <1>3, <2>0, <3>1
      <4> QED BY <2>0, <4>1
    <3>3. Max(Of(k)) = j
      <4> HIDE DEF Of
      <4>1. j \in Nat
        BY <1>3
      <4> QED BY <3>2, <4>1, MaxOne
    <3> QED BY <1>10, <3>1, <3>3
  <2>3. tomap(v) = [k \in {key(i) : i \in 1..Len(v)} |->
                      SubSeq(v[Max(Of(k))], 3, Len(v[Max(Of(k))]))]
    BY DEF tomap
  <2>4. tomap(v) = [k \in D |-> m[k]]
    <3> HIDE DEF key, Of
    <3> QED BY <2>1, <2>2, <2>3
  <2>5. m = [k \in D |-> m[k]]
    BY <1>1
  <2> QED BY <2>4, <2>5
<1>12. checkarr(v) <=> ~Hollow(m)
  <2>1. \A x \in Seq(Chars) : x = <<>> <=> Len(x) = 0
    BY EmptySeq
  <2>2. \A i \in 1..n : Len(v[i]) >= 3 <=> m[order[i]] # <<>>
    <3> TAKE i \in 1..n
    <3>1. Len(v[i]) = 2 + Len(m[order[i]]) /\ Len(m[order[i]]) \in Nat
      BY <1>5, <1>6
    <3>2. Len(v[i]) >= 3 <=> Len(m[order[i]]) # 0
      BY <3>1
    <3> QED BY <1>4, <2>1, <3>2
  <2>3. checkarr(v) <=> \A i \in 1..n : m[order[i]] # <<>>
    BY <1>6, <2>2 DEF checkarr
  <2> QED BY <1>3, <2>3 DEF Hollow, D
<1> QED BY <1>8, <1>9, <1>11, <1>12

-----------------------------------------------------------------------------
(* The loop over the program's own messages.                               *)
IsFor(role, m) == Id \in DOMAIN m /\ m[Id] \in Commands[role]

(* A whole one is taken off, unless a value is empty, which closes. *)
LEMMA FrameTaken ==
    ASSUME NEW role, NEW m \in Messages, IsFor(role, m), NEW fr \in Frames(m),
           NEW b \in Seq(Chars)
    PROVE  IF Hollow(m) THEN Drain(role, fr \o b) = St(fr \o b, <<>>, "data", FALSE)
           ELSE Ended(Drain(role, b), Drain(role, fr \o b), Append(<<>>, m))
<1>1. /\ fr \in Seq(Chars) /\ fr # <<>>
      /\ parse_ready(fr).st = "ok" /\ parse_ready(fr).next = Len(fr)
      /\ Elements(fr) # Null /\ tomap(Elements(fr)) = m
      /\ checkarr(Elements(fr)) <=> ~Hollow(m)
  BY FrameReads DEF IsFor
<1>2. Prefix(fr, fr \o b) /\ fr \o b \in Seq(Chars) /\ Len(fr \o b) = Len(fr) + Len(b)
  BY <1>1, ConcatPrefix
<1>3. fr \o b # <<>>
  <2>1. Len(fr) \in Nat /\ Len(b) \in Nat /\ Len(fr) # 0
    BY <1>1, LenProperties, EmptySeq
  <2>2. Len(fr \o b) # 0
    BY <1>2, <2>1
  <2> QED BY <1>2, <2>2, EmptySeq
<1>4. parse_ready(fr \o b) = parse_ready(fr) /\ Elements(fr \o b) = Elements(fr)
  BY <1>1, <1>2, <1>3, ElementsSame
<1>5. CASE Hollow(m)
  <2> DEFINE d == fr \o b
  <2>1. d \in Seq(Chars) /\ d # <<>> /\ parse_ready(d).st = "ok" /\ ~checkarr(Elements(d))
    BY <1>1, <1>2, <1>3, <1>4, <1>5
  <2>2. parse_reply(d) = Reply(d)
    BY <2>1, PrefixSelf, ReadyComplete
  <2> HIDE DEF d
  <2>3. parse_reply(d).typ = "multi" /\ parse_reply(d).val = Elements(d)
    BY <2>2 DEF Elements, Reply
  <2>4. Pass(role, St(d, <<>>, "none", TRUE)) = St(d, <<>>, "data", FALSE)
    BY <2>1, <2>3 DEF Pass, St
  <2>5. ~Takes(role, d)
    BY <2>1 DEF Takes
  <2>6. Drain(role, d) = St(d, <<>>, "data", FALSE)
    BY <2>1, <2>4, <2>5, DrainStops
  <2> QED BY <1>5, <2>6 DEF d
<1>6. CASE ~Hollow(m)
  <2>1. Verdict(role, fr) = "ok"
    BY <1>1 DEF Verdict, Dispatch, IsFor
  <2>2. Takes(role, fr)
    BY <1>1, <1>6, <2>1 DEF Takes
  <2>3. Rest(fr) = <<>>
    <3>1. Len(fr) \in Nat /\ Len(fr) \in 0..Len(fr) /\ Len(fr) - Len(fr) = 0
      BY <1>1, LenProperties
    <3>2. Rest(fr) = SubSeq(fr, Len(fr) + 1, Len(fr))
      BY <1>1 DEF Rest, Trim
    <3>3. Rest(fr) \in Seq(Chars) /\ Len(Rest(fr)) = Len(fr) - Len(fr)
      BY <1>1, <3>1, <3>2, DropFirst
    <3> QED BY <3>1, <3>3, EmptySeq
  <2>4. /\ Takes(role, fr \o b) /\ Rest(fr \o b) = <<>> \o b
        /\ Given(role, fr \o b, <<>>) = Given(role, fr, <<>>)
    BY <1>1, <2>2, <2>3, TakesMore
  <2>5. <<>> \o b = b
    BY ConcatEmptySeq
  <2>6. Given(role, fr, <<>>) = Append(<<>>, m)
    BY <1>1, <2>1 DEF Given
  <2>7. Ended(Drain(role, Rest(fr \o b)), Drain(role, fr \o b), Given(role, fr \o b, <<>>))
    BY <1>2, <2>4, DrainTakes
  <2> QED BY <1>6, <2>4, <2>5, <2>6, <2>7
<1> QED BY <1>5, <1>6

(* A part of one is left in the buffer, without an error. *)
LEMMA FrameWaits ==
    ASSUME NEW role, NEW m \in Messages, IsFor(role, m), NEW fr \in Frames(m),
           NEW d \in Seq(Chars), Prefix(d, fr), Len(d) < Len(fr)
    PROVE  Drain(role, d) = St(d, <<>>, "none", FALSE)
<1>1. fr \in Seq(Chars) /\ parse_ready(fr).next = Len(fr)
  BY FrameReads DEF IsFor
<1>2. Waits(d)
  <2> SUFFICES ASSUME d # <<>>, parse_ready(d).st # "eof" PROVE FALSE
    BY DEF Waits
  <2>1. parse_ready(fr) = parse_ready(d)
    BY ReadySettled
  <2>2. parse_ready(d).st = "ok"
    BY <2>1, FrameReads DEF IsFor
  <2>3. parse_ready(d).next \in 1..Len(d)
    BY <2>2, ReadyComplete
  <2>4. Len(d) \in Nat /\ Len(fr) \in Nat
    BY <1>1, LenProperties
  <2> QED BY <1>1, <2>1, <2>3, <2>4
<1>3. ~Takes(role, d)
  BY <1>2 DEF Waits, Takes
<1> QED BY <1>2, <1>3, DrainStops, PassWaits

(* Pieces of a stream. *)
LEMMA Pieces ==
    ASSUME NEW s \in Seq(Chars), NEW a \in Nat, NEW b \in Nat, NEW c \in Nat,
           a <= b, b <= c, c <= Len(s)
    PROVE  /\ SubSeq(s, a + 1, b) \in Seq(Chars) /\ Len(SubSeq(s, a + 1, b)) = b - a
           /\ SubSeq(s, b + 1, c) \in Seq(Chars)
           /\ SubSeq(s, a + 1, c) = SubSeq(s, a + 1, b) \o SubSeq(s, b + 1, c)
<1>1. Len(s) \in Nat
  BY LenProperties
<1>2. /\ \A i \in (a + 1)..b : s[i] \in Chars
      /\ \A i \in (b + 1)..c : s[i] \in Chars
  BY <1>1, ElementOfSeq
<1>3. /\ SubSeq(s, a + 1, b) \in Seq(Chars)
      /\ Len(SubSeq(s, a + 1, b)) = IF a + 1 <= b THEN b - (a + 1) + 1 ELSE 0
  BY <1>2, SubSeqProperties
<1>4. SubSeq(s, b + 1, c) \in Seq(Chars)
  BY <1>2, SubSeqProperties
<1>5. a + 1 \in 1..(Len(s) + 1) /\ b \in ((a + 1) - 1)..Len(s) /\ c \in b..Len(s)
  BY <1>1
<1>6. SubSeq(s, a + 1, c) = SubSeq(s, a + 1, b) \o SubSeq(s, b + 1, c)
  BY <1>5, ConcatAdjacentSubSeq
<1>7. Len(SubSeq(s, a + 1, b)) = b - a
  BY <1>3
<1> QED BY <1>3, <1>4, <1>6, <1>7

(* Where the first k messages of a stream end. *)
End(st, k) == From(st, k + 1) - 1

LEMMA OwnStream ==
    ASSUME NEW st \in Streams, st.own
    PROVE  /\ st.bytes \in Seq(Chars) /\ Len(st.bytes) \in Nat
           /\ st.sent \in Seq(Messages) /\ Len(st.sent) \in Nat
           /\ End(st, 0) = 0 /\ End(st, Len(st.sent)) = Len(st.bytes)
           /\ \A k \in 0..Len(st.sent) : End(st, k) \in 0..Len(st.bytes)
           /\ \A k \in 1..Len(st.sent) :
                 /\ st.ends[k] = End(st, k) /\ From(st, k) = End(st, k - 1) + 1
                 /\ SubSeq(st.bytes, End(st, k - 1) + 1, End(st, k)) \in Frames(st.sent[k])
                 /\ st.sent[k] \in Messages /\ IsFor(st.role, st.sent[k])
<1> DEFINE N == Len(st.sent)
           L == Len(st.bytes)
<1>1. /\ st.sent \in Seq(Messages) /\ st.ends \in [1..N -> 0..L]
      /\ From(st, N + 1) = L + 1
      /\ \A i \in 1..N :
            /\ SubSeq(st.bytes, From(st, i), st.ends[i]) \in Frames(st.sent[i])
            /\ Id \in DOMAIN st.sent[i] /\ st.sent[i][Id] \in Commands[st.role]
  BY OwnAssumption
<1>2. st.bytes \in Seq(Chars) /\ L \in Nat /\ N \in Nat
  BY <1>1, WireAssumption, LenProperties
<1>3. \A i \in 1..N : st.sent[i] \in Messages
  BY <1>1, ElementOfSeq
<1> HIDE DEF N, L
<1>4. \A k \in 1..N : st.ends[k] \in 0..L
  BY <1>1
<1>5. End(st, 0) = 0
  <2>1. 0 + 1 = 1 /\ 1 - 1 = 0
    OBVIOUS
  <2> QED BY <2>1 DEF End, From
<1>6. End(st, N) = L
  BY <1>1, <1>2 DEF End
<1>7. ASSUME NEW k \in 1..N
      PROVE  st.ends[k] = End(st, k) /\ From(st, k) = End(st, k - 1) + 1
  <2>1. k + 1 # 1 /\ (k + 1) - 1 = k /\ (k - 1) + 1 = k /\ k \in Int
    BY <1>2
  <2>2. From(st, k + 1) = st.ends[k] + 1 /\ st.ends[k] \in Int
    BY <1>4, <1>7, <2>1 DEF From
  <2>3. From(st, k) \in Int
    <3>1. k # 1 => k - 1 \in 1..N
      BY <1>2
    <3>2. k # 1 => st.ends[k - 1] \in Int
      BY <1>4, <3>1
    <3> QED BY <3>2 DEF From
  <2>4. (st.ends[k] + 1) - 1 = st.ends[k] /\ (From(st, k) - 1) + 1 = From(st, k)
    BY <2>2, <2>3
  <2> QED BY <2>1, <2>2, <2>4 DEF End
<1>8. ASSUME NEW k \in 0..N PROVE End(st, k) \in 0..L
  <2>1. CASE k = 0
    BY <1>2, <1>5, <2>1
  <2>2. CASE k # 0
    <3>1. k \in 1..N
      BY <1>2, <2>2
    <3> QED BY <1>4, <1>7, <3>1
  <2> QED BY <2>1, <2>2
<1>9. \A k \in 1..N : IsFor(st.role, st.sent[k])
  BY <1>1 DEF IsFor
<1>10. \A k \in 1..N : SubSeq(st.bytes, End(st, k - 1) + 1, End(st, k)) \in Frames(st.sent[k])
  BY <1>1, <1>7
<1> HIDE DEF End, From, IsFor
<1> QED BY <1>1, <1>2, <1>3, <1>5, <1>6, <1>7, <1>8, <1>9, <1>10 DEF N, L

(* Every message is a byte long at least. *)
LEMMA EndsGrow ==
    ASSUME NEW st \in Streams, st.own
    PROVE  /\ \A k \in 1..Len(st.sent) : End(st, k - 1) < End(st, k)
           /\ \A i \in 1..Len(st.sent), j \in 1..Len(st.sent) :
                 i <= j => st.ends[i] <= st.ends[j]
<1> DEFINE N == Len(st.sent)
           L == Len(st.bytes)
           s == st.bytes
<1>1. /\ s \in Seq(Chars) /\ L \in Nat /\ N \in Nat
      /\ \A k \in 0..N : End(st, k) \in 0..L
      /\ \A k \in 1..N :
            /\ st.ends[k] = End(st, k)
            /\ SubSeq(s, End(st, k - 1) + 1, End(st, k)) \in Frames(st.sent[k])
            /\ st.sent[k] \in Messages /\ IsFor(st.role, st.sent[k])
  BY OwnStream
<1> HIDE DEF N, L, s, End, IsFor
<1>2. ASSUME NEW k \in 1..N PROVE End(st, k - 1) < End(st, k)
  <2> DEFINE a == End(st, k - 1)
             b == End(st, k)
  <2>1. k - 1 \in 0..N /\ k \in 0..N
    BY <1>1
  <2>2. a \in Nat /\ b \in Nat
    BY <1>1, <2>1
  <2> HIDE DEF a, b
  <2>3. SubSeq(s, a + 1, b) \in Frames(st.sent[k]) /\ DOMAIN st.sent[k] # {}
    BY <1>1, <1>2 DEF a, b, IsFor
  <2>4. SubSeq(s, a + 1, b) \in Seq(Chars) /\ SubSeq(s, a + 1, b) # <<>>
    BY <1>1, <2>3, FrameReads
  <2>5. Len(SubSeq(s, a + 1, b)) = IF a + 1 <= b THEN b - (a + 1) + 1 ELSE 0
    BY <1>1, <2>2, SubSeqProperties
  <2>6. Len(SubSeq(s, a + 1, b)) # 0
    BY <2>4, EmptySeq
  <2>7. a + 1 <= b
    BY <2>5, <2>6
  <2>8. a < b
    BY <2>2, <2>7
  <2> QED BY <2>8 DEF a, b
<1>3. ASSUME NEW i \in 1..N PROVE \A j \in 1..N : i <= j => End(st, i) <= End(st, j)
  <2> DEFINE T == {d \in Nat : i + d <= N => End(st, i) <= End(st, i + d)}
  <2>1. 0 \in T
    <3>1. i + 0 = i /\ i \in 0..N
      BY <1>1
    <3>2. End(st, i) \in Int
      BY <1>1, <3>1
    <3> QED BY <3>1, <3>2
  <2>2. ASSUME NEW d \in Nat, d \in T PROVE d + 1 \in T
    <3> SUFFICES ASSUME i + (d + 1) <= N PROVE End(st, i) <= End(st, i + (d + 1))
      OBVIOUS
    <3>1. /\ i + d <= N /\ i + (d + 1) \in 1..N /\ (i + (d + 1)) - 1 = i + d
          /\ i \in 0..N /\ i + d \in 0..N /\ i + (d + 1) \in 0..N
      BY <1>1
    <3>2. End(st, i) <= End(st, i + d)
      BY <2>2, <3>1
    <3>3. End(st, i + d) < End(st, i + (d + 1))
      BY <1>2, <3>1
    <3>4. End(st, i) \in Int /\ End(st, i + d) \in Int /\ End(st, i + (d + 1)) \in Int
      BY <1>1, <3>1
    <3> QED BY <3>2, <3>3, <3>4
  <2>3. \A d \in Nat : d \in T
    <3> HIDE DEF T
    <3> QED BY <2>1, <2>2, Induction
  <2>4. ASSUME NEW j \in 1..N, i <= j PROVE End(st, i) <= End(st, j)
    <3>1. j - i \in Nat /\ i + (j - i) = j /\ j <= N
      BY <1>1, <2>4
    <3> QED BY <2>3, <3>1
  <2> QED BY <2>4
<1> QED BY <1>1, <1>2, <1>3 DEF N

(* Messages in front are dispatched, and the loop goes on behind them. *)
LEMMA FrontTaken ==
    ASSUME NEW st \in Streams, st.own, NEW p \in 0..Len(st.bytes)
    PROVE  \A k \in 0..Len(st.sent) :
               (End(st, k) <= p /\ \A i \in 1..k : ~Hollow(st.sent[i])) =>
                   Ended(Drain(st.role, SubSeq(st.bytes, End(st, k) + 1, p)),
                         Drain(st.role, SubSeq(st.bytes, 1, p)), SubSeq(st.sent, 1, k))
<1> DEFINE N == Len(st.sent)
           L == Len(st.bytes)
           s == st.bytes
           role == st.role
           all == Drain(role, SubSeq(s, 1, p))
           Left(k) == SubSeq(s, End(st, k) + 1, p)
           Clear(k) == \A i \in 1..k : ~Hollow(st.sent[i])
           Good(k) == (End(st, k) <= p /\ Clear(k)) =>
                          Ended(Drain(role, Left(k)), all, SubSeq(st.sent, 1, k))
           T == {k \in Nat : k <= N => Good(k)}
<1>1. /\ s \in Seq(Chars) /\ L \in Nat /\ st.sent \in Seq(Messages) /\ N \in Nat
      /\ End(st, 0) = 0
      /\ \A k \in 0..N : End(st, k) \in 0..L
      /\ \A k \in 1..N :
            /\ SubSeq(s, End(st, k - 1) + 1, End(st, k)) \in Frames(st.sent[k])
            /\ st.sent[k] \in Messages /\ IsFor(role, st.sent[k])
      /\ p \in Nat /\ p <= L /\ L = Len(s)
  BY OwnStream
<1>2. \A k \in 1..N : End(st, k - 1) < End(st, k)
  BY EndsGrow
<1> HIDE DEF N, L, s, role, End, IsFor, Hollow
<1>3. Good(0)
  <2>1. SubSeq(st.sent, 1, 0) = <<>>
    BY <1>1, SubSeqEmpty
  <2>2. Left(0) = SubSeq(s, 1, p)
    <3>1. 0 + 1 = 1
      OBVIOUS
    <3> QED BY <1>1, <3>1
  <2>3. SubSeq(s, 1, p) \in Seq(Chars)
    <3>1. 0 \in Nat /\ 0 <= p /\ p <= p /\ p <= Len(s) /\ 0 + 1 = 1
      BY <1>1
    <3> QED BY <1>1, <3>1, Pieces
  <2>4. Ended(all, all, <<>>)
    BY <2>3, DrainShape
  <2> HIDE DEF all
  <2> QED BY <2>1, <2>2, <2>4 DEF all
<1>4. ASSUME NEW k \in Nat, k + 1 <= N, Good(k) PROVE Good(k + 1)
  <2> SUFFICES ASSUME End(st, k + 1) <= p, Clear(k + 1)
               PROVE  Ended(Drain(role, Left(k + 1)), all, SubSeq(st.sent, 1, k + 1))
    OBVIOUS
  <2> DEFINE a == End(st, k)
             b == End(st, k + 1)
             m == st.sent[k + 1]
             fr == SubSeq(s, a + 1, b)
  <2>0. k + 1 \in 1..N /\ (k + 1) - 1 = k /\ k \in 0..N /\ k + 1 \in 0..N
    BY <1>1, <1>4
  <2>1. a \in Nat /\ b \in Nat /\ a < b
    BY <1>1, <1>2, <2>0
  <2>2. m \in Messages /\ IsFor(role, m) /\ fr \in Frames(m) /\ ~Hollow(m)
    <3>1. m \in Messages /\ IsFor(role, m)
      BY <1>1, <2>0
    <3>2. SubSeq(s, End(st, (k + 1) - 1) + 1, End(st, k + 1)) \in Frames(st.sent[k + 1])
      BY <1>1, <2>0, Zenon
    <3>3. fr \in Frames(m)
      BY <2>0, <3>2, Zenon
    <3>4. k + 1 \in 1..(k + 1)
      OBVIOUS
    <3>5. ~Hollow(m)
      BY <3>4, Zenon
    <3> QED BY <3>1, <3>3, <3>5
  <2> HIDE DEF a, b, m
  <2>3. b <= p /\ a <= b /\ a <= p
    BY <1>1, <2>1 DEF b
  <2>4. Left(k + 1) \in Seq(Chars) /\ Left(k) = fr \o Left(k + 1)
    <3>1. s \in Seq(Chars) /\ p \in Nat /\ p <= Len(s)
      BY <1>1
    <3>2. SubSeq(s, b + 1, p) \in Seq(Chars) /\ SubSeq(s, a + 1, p) = fr \o SubSeq(s, b + 1, p)
      BY <2>1, <2>3, <3>1, Pieces
    <3> QED BY <3>2 DEF a, b
  <2>5. Ended(Drain(role, Left(k)), all, SubSeq(st.sent, 1, k))
    <3>1. Clear(k)
      <4>1. \A i \in 1..k : i \in 1..(k + 1)
        OBVIOUS
      <4> QED BY <4>1
    <3> QED BY <1>4, <2>3, <3>1 DEF a
  <2> DEFINE rest == Left(k + 1)
  <2> HIDE DEF fr, all, Left
  <2>6. Ended(Drain(role, rest), Drain(role, fr \o rest), Append(<<>>, m))
    BY <2>2, <2>4, FrameTaken
  <2>7. IsSeq(SubSeq(st.sent, 1, k)) /\ IsSeq(Append(<<>>, m))
    <3>0. \A i \in 1..k : i \in 1..N
      <4>1. N \in Nat
        BY <1>1
      <4> QED BY <2>0, <4>1
    <3>1. \A i \in 1..k : st.sent[i] \in Messages
      <4>1. \A i \in 1..N : st.sent[i] \in Messages
        BY <1>1
      <4> QED BY <3>0, <4>1
    <3>2. SubSeq(st.sent, 1, k) \in Seq(Messages)
      BY <1>1, <3>1, SubSeqProperties
    <3> QED BY <3>2, EmptyIsSeq, AppendIsSeq DEF IsSeq
  <2>8. SubSeq(st.sent, 1, k + 1) = SubSeq(st.sent, 1, k) \o Append(<<>>, m)
    <3>1. Append(<<>>, m) = <<m>>
      OBVIOUS
    <3>2. 1 \in 1..Len(st.sent) /\ k + 1 \in 1..Len(st.sent) /\ (k + 1) - 1 = k
      BY <1>1, <2>0 DEF N
    <3>3. SubSeq(st.sent, 1, k + 1) = SubSeq(st.sent, 1, k) \o <<st.sent[k + 1]>>
      BY <1>1, <3>2, SubSeqRecursiveSecond
    <3> QED BY <3>1, <3>3 DEF m
  <2> DEFINE G == SubSeq(st.sent, 1, k)
             h == Append(<<>>, m)
  <2> HIDE DEF rest, G, h
  <2>9. Ended(Drain(role, rest), all, G \o h)
    <3>1. Ended(Drain(role, fr \o rest), all, G)
      BY <2>4, <2>5 DEF rest, G
    <3> QED BY <2>6, <2>7, <3>1, EndedTwice DEF G, h
  <2> QED BY <2>8, <2>9 DEF rest, G, h
<1> HIDE DEF Good
<1>5. 0 \in T
  BY <1>3
<1>6. ASSUME NEW k \in Nat, k \in T PROVE k + 1 \in T
  <2>1. k + 1 <= N => k <= N
    BY <1>1
  <2> QED BY <1>4, <1>6, <2>1
<1>7. \A k \in Nat : k \in T
  <2> HIDE DEF T
  <2> QED BY <1>5, <1>6, Induction
<1>8. \A k \in 0..N : Good(k)
  <2> TAKE k \in 0..N
  <2>1. k \in Nat /\ k <= N
    BY <1>1
  <2> QED BY <1>7, <2>1
<1> QED BY <1>8 DEF Good, N, s, role

(* One read of the first p bytes of a stream dispatches the messages that  *)
(* are whole, up to the first with an empty value.                         *)
Reached(st, p, k) ==
    LET z == Drain(st.role, SubSeq(st.bytes, 1, p))
    IN  /\ z.got = SubSeq(st.sent, 1, k)
        /\ \A i \in 1..k : st.ends[i] <= p /\ ~Hollow(st.sent[i])
        /\ \/ k = Len(st.sent) /\ z.err = "none"
           \/ k + 1 <= Len(st.sent) /\ p < st.ends[k + 1] /\ z.err = "none"
           \/ /\ k + 1 <= Len(st.sent) /\ st.ends[k + 1] <= p
              /\ Hollow(st.sent[k + 1]) /\ z.err = "data"

LEMMA FarReached ==
    ASSUME NEW st \in Streams, st.own, NEW p \in 0..Len(st.bytes)
    PROVE  \E k \in 0..Len(st.sent) : Reached(st, p, k)
<1> DEFINE N == Len(st.sent)
           L == Len(st.bytes)
           s == st.bytes
           role == st.role
           Left(k) == SubSeq(s, End(st, k) + 1, p)
           T == {j \in 1..N : p < st.ends[j] \/ Hollow(st.sent[j])}
<1>1. /\ s \in Seq(Chars) /\ L \in Nat /\ st.sent \in Seq(Messages) /\ N \in Nat
      /\ End(st, 0) = 0 /\ End(st, N) = L
      /\ \A k \in 0..N : End(st, k) \in 0..L
      /\ \A k \in 1..N :
            /\ st.ends[k] = End(st, k)
            /\ SubSeq(s, End(st, k - 1) + 1, End(st, k)) \in Frames(st.sent[k])
            /\ st.sent[k] \in Messages /\ IsFor(role, st.sent[k])
      /\ p \in Nat /\ p <= L /\ L = Len(s)
  BY OwnStream
<1> HIDE DEF N, L, s, role, End, IsFor, Hollow
<1>0. N \in Nat /\ p \in Nat /\ L \in Nat
  BY <1>1
<1>e. \A k \in 1..N : st.ends[k] = End(st, k) /\ st.ends[k] \in 0..L
  <2> TAKE k \in 1..N
  <2>1. k \in 0..N
    BY <1>0
  <2> QED BY <1>1, <2>1
<1>2. PICK k \in 0..N :
          /\ \A i \in 1..k : i \in 1..N /\ ~(p < st.ends[i]) /\ ~Hollow(st.sent[i])
          /\ k = N \/ (k + 1 \in 1..N /\ (p < st.ends[k + 1] \/ Hollow(st.sent[k + 1])))
  <2>1. CASE T = {}
    <3>1. N \in 0..N
      BY <1>1
    <3>2. \A i \in 1..N : ~(p < st.ends[i]) /\ ~Hollow(st.sent[i])
      BY <2>1
    <3> QED BY <3>1, <3>2
  <2>2. CASE T # {}
    <3>1. T \in SUBSET Nat
      BY <1>1
    <3>2. PICK j \in T : \A i \in T : j <= i
      <4> HIDE DEF T
      <4> QED BY <2>2, <3>1, Least
    <3>3. j \in 1..N /\ (p < st.ends[j] \/ Hollow(st.sent[j]))
      BY <3>2
    <3>4. j - 1 \in 0..N /\ (j - 1) + 1 = j
      BY <1>1, <3>3
    <3>5. ASSUME NEW i \in 1..(j - 1)
          PROVE  i \in 1..N /\ ~(p < st.ends[i]) /\ ~Hollow(st.sent[i])
      <4>1. i \in 1..N /\ ~(j <= i)
        BY <1>1, <3>3
      <4>2. i \notin T
        BY <3>2, <4>1
      <4> QED BY <4>1, <4>2
    <3> HIDE DEF T
    <3> QED BY <3>3, <3>4, <3>5
  <2> QED BY <2>1, <2>2
<1>3. \A i \in 1..k : st.ends[i] <= p /\ ~Hollow(st.sent[i])
  <2> TAKE i \in 1..k
  <2>1. i \in 1..N /\ ~(p < st.ends[i]) /\ ~Hollow(st.sent[i])
    BY <1>2
  <2>2. st.ends[i] \in 0..L
    BY <1>e, <2>1
  <2>3. st.ends[i] <= p
    BY <1>0, <2>1, <2>2
  <2> QED BY <2>1, <2>3
<1>4. End(st, k) <= p /\ End(st, k) \in Nat
  <2>1. CASE k = 0
    BY <1>1, <2>1
  <2>2. CASE k # 0
    <3>1. k \in 1..k /\ k \in 1..N
      BY <1>0, <2>2
    <3>2. st.ends[k] <= p
      BY <1>3, <3>1
    <3>3. st.ends[k] = End(st, k) /\ st.ends[k] \in 0..L
      BY <1>e, <3>1
    <3> QED BY <1>0, <3>2, <3>3
  <2> QED BY <2>1, <2>2
<1>5. Ended(Drain(role, Left(k)), Drain(role, SubSeq(s, 1, p)), SubSeq(st.sent, 1, k))
  BY <1>3, <1>4, FrontTaken DEF N, s, role
<1>6. Left(k) \in Seq(Chars) /\ Len(Left(k)) = p - End(st, k)
  <2>1. p <= p /\ p <= Len(s)
    BY <1>1
  <2> QED BY <1>1, <1>4, <2>1, Pieces
<1>7. IsSeq(SubSeq(st.sent, 1, k)) /\ SubSeq(st.sent, 1, k) \o <<>> = SubSeq(st.sent, 1, k)
  <2>1. \A i \in 1..k : st.sent[i] \in Messages
    BY <1>1, <1>2
  <2>2. SubSeq(st.sent, 1, k) \in Seq(Messages)
    BY <1>1, <2>1, SubSeqProperties
  <2> QED BY <2>2, ConcatEmptySeq DEF IsSeq
<1> DEFINE z == Drain(role, SubSeq(s, 1, p))
<1>8. ASSUME NEW e, Drain(role, Left(k)) = St(Left(k), <<>>, e, FALSE)
      PROVE  z.got = SubSeq(st.sent, 1, k) /\ z.err = e
  <2>1. PICK x, g, e2 : /\ Drain(role, Left(k)) = St(x, g, e2, FALSE)
                        /\ z = St(x, SubSeq(st.sent, 1, k) \o g, e2, FALSE)
    BY <1>5 DEF Ended
  <2>2. g = <<>> /\ e2 = e
    BY <1>8, <2>1 DEF St
  <2>3. z.got = SubSeq(st.sent, 1, k) \o <<>> /\ z.err = e
    <3> HIDE DEF z
    <3> QED BY <2>1, <2>2 DEF St
  <2> QED BY <1>7, <2>3
<1> HIDE DEF z, Left
<1>9. CASE k = N
  <2>1. Len(Left(k)) = 0
    BY <1>1, <1>4, <1>6, <1>9
  <2>2. Left(k) = <<>>
    BY <1>6, <2>1, EmptySeq
  <2>3. Waits(Left(k)) /\ ~Takes(role, Left(k))
    BY <2>2 DEF Waits, Takes
  <2>4. Drain(role, Left(k)) = St(Left(k), <<>>, "none", FALSE)
    BY <1>6, <2>3, DrainStops, PassWaits
  <2>5. z.got = SubSeq(st.sent, 1, k) /\ z.err = "none"
    BY <1>8, <2>4
  <2>6. Reached(st, p, k)
    BY <1>3, <1>9, <2>5 DEF Reached, z, N, s, role
  <2> QED BY <2>6 DEF N
<1>10. CASE k # N
  <2> DEFINE a == End(st, k)
             b == End(st, k + 1)
             m == st.sent[k + 1]
             fr == SubSeq(s, a + 1, b)
  <2>0. k + 1 \in 1..N /\ k + 1 \in 0..N /\ (k + 1) - 1 = k /\ k + 1 <= N
    BY <1>1, <1>2, <1>10
  <2>1. /\ m \in Messages /\ IsFor(role, m) /\ b \in Nat /\ b <= L
        /\ st.ends[k + 1] = b
    <3>1. m \in Messages /\ IsFor(role, m)
      BY <1>1, <2>0
    <3>2. st.ends[k + 1] = b /\ b \in 0..L
      BY <1>e, <2>0
    <3> QED BY <1>0, <3>1, <3>2
  <2>2. fr \in Frames(m)
    <3>1. SubSeq(s, End(st, (k + 1) - 1) + 1, End(st, k + 1)) \in Frames(st.sent[k + 1])
      BY <1>1, <2>0, Zenon
    <3> QED BY <2>0, <3>1, Zenon
  <2>3. a < b
    <3>1. \A j \in 1..N : End(st, j - 1) < End(st, j)
      BY EndsGrow DEF N
    <3> QED BY <2>0, <3>1
  <2>4. Left(k) = SubSeq(s, a + 1, p) /\ a \in Nat /\ a <= p
    BY <1>4 DEF Left
  <2> HIDE DEF a, b, m, fr
  <2>5. CASE p < b
    <3>1. s \in Seq(Chars) /\ a <= p /\ p <= b /\ b <= Len(s) /\ p \in Nat
      BY <1>1, <2>1, <2>4, <2>5
    <3>2. /\ Left(k) \in Seq(Chars) /\ SubSeq(s, p + 1, b) \in Seq(Chars)
          /\ fr = Left(k) \o SubSeq(s, p + 1, b)
      BY <2>1, <2>4, <3>1, Pieces DEF fr
    <3>3. Len(fr) = b - a
      <4>1. b <= b /\ a <= b
        BY <2>1, <2>3, <2>4
      <4> QED BY <2>1, <2>4, <3>1, <4>1, Pieces DEF fr
    <3>4. Prefix(Left(k), fr)
      BY <3>2, ConcatPrefix
    <3>5. Len(Left(k)) < Len(fr)
      BY <1>6, <2>1, <2>4, <2>5, <3>1, <3>3 DEF a
    <3>6. Drain(role, Left(k)) = St(Left(k), <<>>, "none", FALSE)
      BY <2>1, <2>2, <3>2, <3>4, <3>5, FrameWaits
    <3>7. z.got = SubSeq(st.sent, 1, k) /\ z.err = "none"
      BY <1>8, <3>6
    <3>8. k + 1 <= Len(st.sent) /\ p < st.ends[k + 1]
      BY <2>0, <2>1, <2>5 DEF N
    <3>9. Reached(st, p, k)
      BY <1>3, <3>7, <3>8 DEF Reached, z, s, role
    <3> QED BY <3>9 DEF N
  <2>6. CASE ~(p < b)
    <3>1. b <= p /\ Hollow(m)
      BY <1>1, <1>2, <1>10, <2>1, <2>6 DEF m
    <3>2. s \in Seq(Chars) /\ a <= b /\ p <= Len(s) /\ p \in Nat
      BY <1>1, <2>1, <2>3, <2>4
    <3>3. SubSeq(s, b + 1, p) \in Seq(Chars) /\ Left(k) = fr \o SubSeq(s, b + 1, p)
      BY <2>1, <2>4, <3>1, <3>2, Pieces DEF fr
    <3>4. Drain(role, Left(k)) = St(Left(k), <<>>, "data", FALSE)
      BY <2>1, <2>2, <3>1, <3>3, FrameTaken
    <3>5. z.got = SubSeq(st.sent, 1, k) /\ z.err = "data"
      BY <1>8, <3>4
    <3>6. k + 1 <= Len(st.sent) /\ st.ends[k + 1] <= p /\ Hollow(st.sent[k + 1])
      BY <2>0, <2>1, <3>1 DEF N, m
    <3>7. Reached(st, p, k)
      BY <1>3, <3>5, <3>6 DEF Reached, z, s, role
    <3> QED BY <3>7 DEF N
  <2> QED BY <2>5, <2>6
<1> QED BY <1>9, <1>10

(* What one read of all the bytes gives, in the words of the property. *)
LEMMA ReachedArrives ==
    ASSUME Reading, CutsDoNotMatter, stream.own,
           NEW k \in 0..Len(stream.sent), Reached(stream, pos, k)
    PROVE  OwnMessagesArrive
<1> DEFINE N == Len(stream.sent)
           refused == {i \in Complete : Hollow(stream.sent[i])}
           z == Drain(stream.role, Seen)
<1>1. N \in Nat /\ pos \in Nat /\ k \in Nat /\ k <= N
  <2>1. N \in Nat /\ Len(stream.bytes) \in Nat
    BY OwnStream DEF Reading
  <2> QED BY <2>1 DEF Reading
<1>2. /\ z.got = SubSeq(stream.sent, 1, k)
      /\ \A i \in 1..k : stream.ends[i] <= pos /\ ~Hollow(stream.sent[i])
      /\ \/ k = N /\ z.err = "none"
         \/ k + 1 <= N /\ pos < stream.ends[k + 1] /\ z.err = "none"
         \/ /\ k + 1 <= N /\ stream.ends[k + 1] <= pos
            /\ Hollow(stream.sent[k + 1]) /\ z.err = "data"
  BY DEF Reached, Seen
<1>3. got = z.got /\ err = z.err
  BY DEF CutsDoNotMatter
<1>4. /\ \A i \in 1..N : stream.ends[i] \in Nat
      /\ \A i \in 1..N, j \in 1..N : i <= j => stream.ends[i] <= stream.ends[j]
  <2>1. \A i \in 1..N, j \in 1..N : i <= j => stream.ends[i] <= stream.ends[j]
    BY EndsGrow DEF Reading
  <2>2. stream.ends \in [1..N -> 0..Len(stream.bytes)] /\ Len(stream.bytes) \in Nat
    BY OwnAssumption, OwnStream DEF Reading
  <2> QED BY <2>1, <2>2
<1>5. Complete = {i \in 1..N : stream.ends[i] <= pos}
  BY DEF Complete
<1> HIDE DEF N, z, Hollow
<1>6. \A i \in 1..k : i \in 1..N
  BY <1>1
<1>7. CASE z.err = "none"
  <2>1. ASSUME NEW i \in 1..N, stream.ends[i] <= pos PROVE i \in 1..k
    <3>1. CASE k = N
      BY <3>1
    <3>2. CASE k + 1 <= N /\ pos < stream.ends[k + 1]
      <4>1. k + 1 \in 1..N
        BY <1>1, <3>2
      <4>2. ~(k + 1 <= i)
        <5>1. k + 1 <= i => stream.ends[k + 1] <= stream.ends[i]
          BY <1>4, <4>1
        <5>2. stream.ends[k + 1] \in Nat /\ stream.ends[i] \in Nat
          BY <1>4, <4>1
        <5> QED BY <1>1, <2>1, <3>2, <5>1, <5>2
      <4> QED BY <1>1, <4>2
    <3> QED BY <1>2, <1>7, <3>1, <3>2
  <2>2. Complete = 1..k
    BY <1>2, <1>5, <1>6, <2>1
  <2>3. refused = {}
    BY <1>2, <2>2
  <2>4. Cardinality(Complete) = k
    <3>1. k = 0 \/ ~(1 > k)
      BY <1>1
    <3>2. 1 \in Int /\ k \in Int /\ (k - 1) + 1 = k
      BY <1>1
    <3>3. Cardinality(1..k) = IF 1 > k THEN 0 ELSE k - 1 + 1
      BY <3>2, FS_Interval
    <3> QED BY <1>1, <2>2, <3>1, <3>3
  <2> QED BY <1>2, <1>3, <1>7, <2>3, <2>4 DEF OwnMessagesArrive
<1>8. CASE z.err # "none"
  <2>1. /\ k + 1 <= N /\ stream.ends[k + 1] <= pos /\ Hollow(stream.sent[k + 1])
        /\ z.err = "data"
    BY <1>2, <1>8
  <2>2. k + 1 \in 1..N
    BY <1>1, <2>1
  <2>3. k + 1 \in refused
    BY <1>5, <2>1, <2>2
  <2>4. refused \in SUBSET Nat
    BY <1>1, <1>5
  <2>5. ASSUME NEW i \in refused PROVE k + 1 <= i
    <3>1. i \in 1..N /\ Hollow(stream.sent[i])
      BY <1>5
    <3>2. i \notin 1..k
      BY <1>2, <3>1
    <3> QED BY <1>1, <3>1, <3>2
  <2>6. Min(refused) = k + 1
    <3> HIDE DEF refused
    <3>1. Min(refused) \in refused /\ \A i \in refused : Min(refused) <= i
      BY <2>3, <2>4, MinIsLeast
    <3>2. Min(refused) <= k + 1 /\ k + 1 <= Min(refused) /\ Min(refused) \in Nat
      BY <2>3, <2>4, <2>5, <3>1
    <3> QED BY <1>1, <3>2
  <2>7. Min(refused) - 1 = k /\ refused # {}
    BY <1>1, <2>3, <2>6
  <2> QED BY <1>2, <1>3, <2>1, <2>7 DEF OwnMessagesArrive
<1> QED BY <1>7, <1>8

(* For every set of messages and every stream of them, however it is cut:  *)
(* the messages arrive whole, in order, each once and as soon as their     *)
(* last byte is there; only an empty value closes the connection, after    *)
(* what was sent before it (sandutil.lua:24, sands.lua:275-309).           *)
THEOREM MessagesArrive == Spec => []OwnMessagesArrive
<1>1. Reading /\ CutsDoNotMatter => OwnMessagesArrive
  <2> SUFFICES ASSUME Reading, CutsDoNotMatter PROVE OwnMessagesArrive
    OBVIOUS
  <2>1. CASE ~stream.own
    BY <2>1 DEF OwnMessagesArrive
  <2>2. CASE stream.own
    <3>1. \E k \in 0..Len(stream.sent) : Reached(stream, pos, k)
      BY <2>2, FarReached DEF Reading
    <3> QED BY <2>2, <3>1, ReachedArrives
  <2> QED BY <2>1, <2>2
<1> QED BY <1>1, ReadingHolds, CutsNeverMatter, PTL

-----------------------------------------------------------------------------
(* The channel of messages.  More bytes never take a message back. *)
LEMMA ReachedGrows ==
    ASSUME NEW st \in Streams, st.own, NEW p \in 0..Len(st.bytes), NEW q \in 0..Len(st.bytes),
           p <= q, NEW k \in 0..Len(st.sent), NEW j \in 0..Len(st.sent),
           Reached(st, p, k), Reached(st, q, j)
    PROVE  k <= j
<1> DEFINE N == Len(st.sent)
<1>1. N \in Nat /\ Len(st.bytes) \in Nat
  BY OwnStream
<1> HIDE DEF N
<1> SUFFICES ASSUME j < k PROVE FALSE
  BY <1>1 DEF N
<1>2. j + 1 \in 1..k /\ j + 1 \in 1..N /\ j # N
  BY <1>1 DEF N
<1>3. st.ends[j + 1] <= p /\ ~Hollow(st.sent[j + 1])
  BY <1>2 DEF Reached
<1>4. q < st.ends[j + 1]
  BY <1>2, <1>3 DEF Reached, N
<1>5. st.ends[j + 1] \in 0..Len(st.bytes)
  BY <1>2, OwnAssumption DEF N
<1> QED BY <1>1, <1>3, <1>4, <1>5

(* Messages k + 1 to j of those sent are the next of those to come. *)
LEMMA NextMessages ==
    ASSUME NEW w \in Seq(Messages), NEW k \in Nat, NEW j \in Nat, k < j, j <= Len(w)
    PROVE  LET todo == SubSeq(w, k + 1, Len(w))
           IN  /\ Len(todo) = Len(w) - k
               /\ SubSeq(w, 1, j) = SubSeq(w, 1, k) \o SubSeq(todo, 1, j - k)
               /\ SubSeq(w, j + 1, Len(w)) = SubSeq(todo, (j - k) + 1, Len(todo))
<1> DEFINE N == Len(w)
           todo == SubSeq(w, k + 1, N)
<1>1. N \in Nat /\ k + 1 \in 1..N /\ N \in 1..N /\ j - k \in 1..(N - k)
  BY LenProperties
<1>2. \A i \in (k + 1)..N : w[i] \in Messages
  BY <1>1, ElementOfSeq
<1>3. /\ todo \in Seq(Messages)
      /\ Len(todo) = IF k + 1 <= N THEN N - (k + 1) + 1 ELSE 0
  BY <1>1, <1>2, SubSeqProperties
<1> HIDE DEF N
<1>4. Len(todo) = N - k
  BY <1>1, <1>3
<1>5. SubSeq(todo, 1, j - k) = SubSeq(w, k + 1, j)
  <2>1. /\ 1 \in 1..(N - (k + 1) + 1) /\ j - k \in 1..(N - (k + 1) + 1)
        /\ k + 1 + 1 - 1 = k + 1 /\ k + 1 + (j - k) - 1 = j
    BY <1>1
  <2>2. SubSeq(todo, 1, j - k) = SubSeq(w, k + 1 + 1 - 1, k + 1 + (j - k) - 1)
    BY <1>1, <2>1, SubSeqOfSubSeq DEF N
  <2> QED BY <2>1, <2>2
<1>6. SubSeq(w, 1, j) = SubSeq(w, 1, k) \o SubSeq(w, k + 1, j)
  <2>1. 1 \in 1..(Len(w) + 1) /\ k \in (1 - 1)..Len(w) /\ j \in k..Len(w)
    BY <1>1 DEF N
  <2> QED BY <2>1, ConcatAdjacentSubSeq
<1>7. SubSeq(w, j + 1, N) = SubSeq(todo, (j - k) + 1, N - k)
  <2>1. CASE j = N
    <3>1. N < j + 1 /\ N - k < (j - k) + 1 /\ (j - k) + 1 \in Int /\ N - k \in Int
      BY <1>1, <2>1
    <3>2. SubSeq(w, j + 1, N) = <<>>
      BY <1>1, <3>1, SubSeqEmpty
    <3>3. SubSeq(todo, (j - k) + 1, N - k) = <<>>
      BY <3>1, SubSeqEmpty
    <3> QED BY <3>2, <3>3
  <2>2. CASE j # N
    <3>1. /\ (j - k) + 1 \in 1..(N - (k + 1) + 1) /\ N - k \in 1..(N - (k + 1) + 1)
          /\ k + 1 + ((j - k) + 1) - 1 = j + 1 /\ k + 1 + (N - k) - 1 = N
      BY <1>1, <2>2 DEF N
    <3>2. SubSeq(todo, (j - k) + 1, N - k)
            = SubSeq(w, k + 1 + ((j - k) + 1) - 1, k + 1 + (N - k) - 1)
      BY <1>1, <3>1, SubSeqOfSubSeq DEF N
    <3> QED BY <3>1, <3>2
  <2> QED BY <2>1, <2>2
<1> QED BY <1>4, <1>5, <1>6, <1>7 DEF N

(* So many of the messages sent have been handed over. *)
LEMMA HandedOver ==
    ASSUME NEW st \in Streams, st.own, NEW p \in 0..Len(st.bytes)
    PROVE  \E k \in 0..Len(st.sent) :
               /\ Reached(st, p, k) /\ Len(SubSeq(st.sent, 1, k)) = k
               /\ Drain(st.role, SubSeq(st.bytes, 1, p)).got = SubSeq(st.sent, 1, k)
<1>1. PICK k \in 0..Len(st.sent) : Reached(st, p, k)
  BY FarReached
<1>2. Drain(st.role, SubSeq(st.bytes, 1, p)).got = SubSeq(st.sent, 1, k)
  BY <1>1 DEF Reached
<1>3. st.sent \in Seq(Messages) /\ Len(st.sent) \in Nat
  BY OwnStream
<1>4. \A i \in 1..k : st.sent[i] \in Messages
  BY <1>3, ElementOfSeq
<1>5. Len(SubSeq(st.sent, 1, k)) = IF 1 <= k THEN k - 1 + 1 ELSE 0
  BY <1>3, <1>4, SubSeqProperties
<1>6. Len(SubSeq(st.sent, 1, k)) = k
  BY <1>3, <1>5
<1> QED BY <1>1, <1>2, <1>6

LEMMA ChannelStep ==
    Reading /\ CutsDoNotMatter /\ Reading' /\ CutsDoNotMatter' /\ [Next]_vars
        => [Channel!Next]_Channel!mvars
<1> SUFFICES ASSUME Reading, CutsDoNotMatter, Reading', CutsDoNotMatter', [Next]_vars
             PROVE  [Channel!Next]_Channel!mvars
  OBVIOUS
<1>1. CASE UNCHANGED vars
  BY <1>1 DEF vars, Channel!mvars, Promised
<1>2. ASSUME NEW n \in 1..(Len(stream.bytes) - pos), Recv(n)
      PROVE  [Channel!Next]_Channel!mvars
  <2>1. stream' = stream /\ pos' = pos + n
    BY <1>2 DEF Recv
  <2>2. Promised' = Promised
    BY <2>1 DEF Promised
  <2>3. CASE ~Promised
    BY <2>2, <2>3 DEF Channel!mvars
  <2>4. CASE Promised
    <3> DEFINE w == stream.sent
               todo == SubSeq(w, Len(got) + 1, Len(w))
    <3>1. /\ stream \in Streams /\ stream.own /\ w \in Seq(Messages)
          /\ Len(w) \in Nat /\ Len(stream.bytes) \in Nat
      BY <2>4, OwnStream DEF Promised, Reading
    <3>2. PICK k \in 0..Len(w) :
              Reached(stream, pos, k) /\ got = SubSeq(w, 1, k) /\ Len(got) = k
      <4>1. pos \in 0..Len(stream.bytes)
        BY DEF Reading
      <4>2. got = Drain(stream.role, SubSeq(stream.bytes, 1, pos)).got
        BY DEF CutsDoNotMatter, Seen
      <4> QED BY <3>1, <4>1, <4>2, HandedOver
    <3>3. pos' \in 0..Len(stream.bytes)
      BY <2>1 DEF Reading
    <3>4. got' = Drain(stream.role, SubSeq(stream.bytes, 1, pos')).got
      BY <2>1 DEF CutsDoNotMatter, Seen
    <3>5. PICK j \in 0..Len(w) :
              Reached(stream, pos', j) /\ got' = SubSeq(w, 1, j) /\ Len(got') = j
      BY <3>1, <3>3, <3>4, HandedOver
    <3>6. k <= j
      <4>1. pos \in 0..Len(stream.bytes) /\ pos <= pos'
        BY <2>1, <3>1 DEF Reading
      <4> QED BY <3>1, <3>2, <3>3, <3>5, <4>1, ReachedGrows
    <3>7. CASE k = j
      BY <2>1, <2>2, <3>2, <3>5, <3>7 DEF Channel!mvars
    <3>8. CASE k # j
      <4>1. k \in Nat /\ j \in Nat /\ k < j /\ j <= Len(w)
        BY <3>1, <3>6, <3>8
      <4>2. /\ Len(todo) = Len(w) - k
            /\ SubSeq(w, 1, j) = SubSeq(w, 1, k) \o SubSeq(todo, 1, j - k)
            /\ SubSeq(w, j + 1, Len(w)) = SubSeq(todo, (j - k) + 1, Len(todo))
        <5>1. todo = SubSeq(w, k + 1, Len(w))
          BY <3>2
        <5> HIDE DEF todo
        <5> QED BY <3>1, <4>1, <5>1, NextMessages
      <4>3. j - k \in 1..Len(todo)
        BY <3>1, <4>1, <4>2
      <4>4. todo' = SubSeq(w, j + 1, Len(w))
        BY <2>1, <3>5
      <4>5. /\ got' = got \o SubSeq(todo, 1, j - k)
            /\ todo' = SubSeq(todo, (j - k) + 1, Len(todo))
        BY <3>2, <3>5, <4>2, <4>4
      <4>6. Channel!Deliver(j - k)
        BY <2>2, <2>4, <4>5 DEF Channel!Deliver
      <4>7. Channel!Next
        BY <2>4, <4>3, <4>6 DEF Channel!Next
      <4> QED BY <4>7
    <3> QED BY <3>7, <3>8
  <2> QED BY <2>3, <2>4
<1> QED BY <1>1, <1>2 DEF Next

(* The framing implements the channel of whole messages on which the       *)
(* applications of both ends rely: those sent come out in order, each once *)
(* and unchanged.                                                          *)
THEOREM ChannelImplemented == Spec => ImplementsChannel
<1>1. Init => Channel!Init
  <2> SUFFICES ASSUME Init PROVE Channel!Init
    OBVIOUS
  <2>1. CASE ~Promised
    BY <2>1, EmptySeq DEF Init, Channel!Init
  <2>2. CASE Promised
    <3>1. stream.sent \in Seq(Messages)
      BY <2>2, OwnStream DEF Promised, Init
    <3>2. Len(got) + 1 = 1 /\ got = <<>>
      BY EmptySeq DEF Init
    <3>3. SubSeq(stream.sent, 1, Len(stream.sent)) = stream.sent
      BY <3>1, SubSeqFull
    <3> QED BY <2>2, <3>1, <3>2, <3>3 DEF Channel!Init
  <2> QED BY <2>1, <2>2
<1>2. Reading /\ CutsDoNotMatter /\ Reading' /\ CutsDoNotMatter' /\ [Next]_vars
        => [Channel!Next]_Channel!mvars
  BY ChannelStep
<1> QED BY <1>1, <1>2, ReadingHolds, CutsNeverMatter, PTL
        DEF Spec, ImplementsChannel, Channel!Spec
=============================================================================
