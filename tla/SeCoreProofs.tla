---------------------------- MODULE SeCoreProofs ----------------------------
(***************************************************************************)
(* Proofs about the scheduler for any set of threads: a blocked call       *)
(* returns exactly once, and no watcher outlives its wait.                 *)
(***************************************************************************)
EXTENDS SeCore, TLAPS, SequenceTheorems

(* The current thread is on the running list, and threads run only between *)
(* two rounds of callbacks.                                                *)
CurRuns ==
    /\ cur # Main => InRunq(cur) /\ loop = <<{}, {}>>
    /\ timer \cap pendTimer = {}
    /\ \A th \in io : mode[th] \in IoOps

IInv == TypeOK /\ OneWakeup /\ WaitersArmed /\ CacheFreed /\ CurRuns

-----------------------------------------------------------------------------
(* list_del takes one thread off a list without duplicates and leaves all  *)
(* the others.                                                             *)
LEMMA ListDelProperties ==
    ASSUME runq \in Seq(Threads),
           \A i, j \in 1..Len(runq) : runq[i] = runq[j] => i = j,
           NEW th \in Threads, InRunq(th)
    PROVE  /\ ListDel(th) \in Seq(Threads)
           /\ \A i, j \in 1..Len(ListDel(th)) :
                  ListDel(th)[i] = ListDel(th)[j] => i = j
           /\ \A x \in Threads : (\E i \in 1..Len(ListDel(th)) : ListDel(th)[i] = x)
                                     <=> InRunq(x) /\ x # th
<1> DEFINE k == CHOOSE i \in 1..Len(runq) : runq[i] = th
           n == Len(runq)
           d == [j \in 1..(n - 1) |-> IF j < k THEN runq[j] ELSE runq[j + 1]]
<1>1. n \in Nat /\ k \in 1..n /\ runq[k] = th
  BY DEF InRunq
<1>2. \A i \in 1..n : runq[i] \in Threads
  OBVIOUS
<1>3. n - 1 \in Nat
  BY <1>1
<1>4. d \in [1..(n - 1) -> Threads]
  BY <1>1, <1>2
<1>5. d \in Seq(Threads) /\ Len(d) = n - 1
  BY <1>3, <1>4, IsASeq
<1>6. \A i, j \in 1..(n - 1) : d[i] = d[j] => i = j
  BY <1>1
<1>7. ASSUME NEW x \in Threads
      PROVE  (\E i \in 1..(n - 1) : d[i] = x) <=> InRunq(x) /\ x # th
  <2>1. ASSUME NEW i \in 1..(n - 1), d[i] = x PROVE InRunq(x) /\ x # th
    <3>1. CASE i < k
      BY <1>1, <2>1, <3>1 DEF InRunq
    <3>2. CASE ~(i < k)
      BY <1>1, <2>1, <3>2 DEF InRunq
    <3> QED BY <3>1, <3>2
  <2>2. ASSUME NEW i \in 1..n, runq[i] = x, x # th
        PROVE  \E j \in 1..(n - 1) : d[j] = x
    <3>1. CASE i < k
      <4>1. i \in 1..(n - 1) /\ d[i] = x
        BY <1>1, <2>2, <3>1
      <4> QED BY <4>1
    <3>2. CASE i > k
      <4>1. i - 1 \in 1..(n - 1) /\ d[i - 1] = x
        BY <1>1, <2>2, <3>2
      <4> QED BY <4>1
    <3>3. i < k \/ i > k
      BY <1>1, <2>2
    <3> QED BY <3>1, <3>2, <3>3
  <2> QED BY <2>1, <2>2 DEF InRunq
<1> QED BY <1>5, <1>6, <1>7 DEF ListDel

(* list_add_tail of a thread that is not on the list. *)
LEMMA AppendProps ==
    ASSUME runq \in Seq(Threads),
           \A i, j \in 1..Len(runq) : runq[i] = runq[j] => i = j,
           NEW th \in Threads, ~InRunq(th), runq' = Append(runq, th)
    PROVE  /\ runq' \in Seq(Threads)
           /\ \A i, j \in 1..Len(runq') : runq'[i] = runq'[j] => i = j
           /\ \A x \in Threads : InRunq(x)' <=> InRunq(x) \/ x = th
<1> DEFINE n == Len(runq)
<1>1. /\ runq' \in Seq(Threads) /\ Len(runq') = n + 1 /\ n \in Nat
      /\ \A i \in 1..n : runq'[i] = runq[i]
      /\ runq'[n + 1] = th
  BY AppendProperties
<1>2. \A i, j \in 1..(n + 1) : runq'[i] = runq'[j] => i = j
  BY <1>1 DEF InRunq
<1>3. \A x \in Threads : InRunq(x)' <=> InRunq(x) \/ x = th
  BY <1>1 DEF InRunq
<1> QED BY <1>1, <1>2, <1>3

(* list_move_tail of the first thread. *)
LEMMA RotateProps ==
    ASSUME runq \in Seq(Threads), runq # <<>>,
           \A i, j \in 1..Len(runq) : runq[i] = runq[j] => i = j,
           runq' = Append(Tail(runq), Head(runq))
    PROVE  /\ runq' \in Seq(Threads)
           /\ \A i, j \in 1..Len(runq') : runq'[i] = runq'[j] => i = j
           /\ \A x \in Threads : InRunq(x)' <=> InRunq(x)
           /\ Head(runq) \in Threads /\ InRunq(Head(runq))
<1> DEFINE n == Len(runq)
<1>1. /\ n \in Nat /\ n >= 1
      /\ Tail(runq) \in Seq(Threads) /\ Len(Tail(runq)) = n - 1
      /\ \A i \in 1..(n - 1) : Tail(runq)[i] = runq[i + 1]
      /\ Head(runq) = runq[1] /\ runq[1] \in Threads
  OBVIOUS
<1>2. /\ runq' \in Seq(Threads) /\ Len(runq') = n
      /\ \A i \in 1..(n - 1) : runq'[i] = runq[i + 1]
      /\ runq'[n] = runq[1]
  BY <1>1, AppendProperties
<1> HIDE DEF n
<1>3. ASSUME NEW i \in 1..n, NEW j \in 1..n, runq'[i] = runq'[j] PROVE i = j
  <2>1. CASE i = n /\ j # n
    <3>1. j \in 1..(n - 1) /\ j + 1 \in 1..n /\ 1 \in 1..n
      BY <1>1, <2>1
    <3>2. runq[1] = runq[j + 1]
      BY <1>2, <1>3, <2>1, <3>1
    <3>3. 1 = j + 1
      BY <3>1, <3>2 DEF n
    <3> QED BY <3>1, <3>3
  <2>2. CASE i # n /\ j = n
    <3>1. i \in 1..(n - 1) /\ i + 1 \in 1..n /\ 1 \in 1..n
      BY <1>1, <2>2
    <3>2. runq[1] = runq[i + 1]
      BY <1>2, <1>3, <2>2, <3>1
    <3>3. 1 = i + 1
      BY <3>1, <3>2 DEF n
    <3> QED BY <3>1, <3>3
  <2>3. CASE i # n /\ j # n
    <3>1. i \in 1..(n - 1) /\ j \in 1..(n - 1) /\ i + 1 \in 1..n /\ j + 1 \in 1..n
      BY <1>1, <2>3
    <3>2. runq[i + 1] = runq[j + 1]
      BY <1>2, <1>3, <3>1
    <3>3. i + 1 = j + 1
      BY <3>1, <3>2 DEF n
    <3> QED BY <3>1, <3>3
  <2> QED BY <2>1, <2>2, <2>3
<1>4. ASSUME NEW x \in Threads, InRunq(x) PROVE \E j \in 1..n : runq'[j] = x
  <2>1. PICK i \in 1..n : runq[i] = x
    BY <1>4 DEF InRunq, n
  <2>2. CASE i = 1
    <3>1. n \in 1..n /\ runq'[n] = x
      BY <1>1, <1>2, <2>1, <2>2
    <3> QED BY <3>1
  <2>3. CASE i # 1
    <3>1. i - 1 \in 1..(n - 1) /\ i - 1 \in 1..n /\ (i - 1) + 1 = i
      BY <1>1, <2>3
    <3>2. runq'[i - 1] = x
      BY <1>2, <2>1, <3>1
    <3> QED BY <3>1, <3>2
  <2> QED BY <2>2, <2>3
<1>5. ASSUME NEW x \in Threads, NEW i \in 1..n, runq'[i] = x
      PROVE  \E j \in 1..n : runq[j] = x
  <2>1. CASE i = n
    <3>1. 1 \in 1..n /\ runq[1] = x
      BY <1>1, <1>2, <1>5, <2>1
    <3> QED BY <3>1
  <2>2. CASE i # n
    <3>1. i \in 1..(n - 1) /\ i + 1 \in 1..n
      BY <1>1, <2>2
    <3>2. runq[i + 1] = x
      BY <1>2, <1>5, <3>1
    <3> QED BY <3>1, <3>2
  <2> QED BY <2>1, <2>2
<1>6. \A x \in Threads : InRunq(x)' <=> InRunq(x)
  BY <1>2, <1>4, <1>5 DEF InRunq, n
<1>7. \A i, j \in 1..Len(runq') : runq'[i] = runq'[j] => i = j
  BY <1>2, <1>3
<1>8. InRunq(Head(runq))
  <2>1. 1 \in 1..Len(runq)
    BY <1>1 DEF n
  <2> QED BY <1>1, <2>1 DEF InRunq
<1> QED BY <1>1, <1>2, <1>6, <1>7, <1>8

-----------------------------------------------------------------------------
(* The current thread blocks or returns: off the list, its watchers armed. *)
LEMMA BlockKeeps ==
    ASSUME IInv, cur # Main,
           NEW m \in IoOps \cup {"none", "sleep"},
           mode' = [mode EXCEPT ![cur] = m],
           runq' = ListDel(cur), cur' = Main,
           m = "none" => timer' = timer /\ io' = io,
           m = "sleep" => timer' = timer \cup {cur} /\ io' = io,
           m \in IoOps => timer' \in {timer, timer \cup {cur}} /\ io' = io \cup {cur},
           buf' = buf \/ (m = "read" /\ buf' = buf \cup {cur}),
           UNCHANGED <<pendTimer, pendIo, gone>>
    PROVE  IInv'
<1> USE DEF IInv
<1>1. /\ cur \in Threads /\ InRunq(cur) /\ pendTimer = {} /\ pendIo = {}
      /\ mode[cur] = "ready"
      /\ cur \notin timer /\ cur \notin io /\ cur \notin buf
  BY DEF TypeOK, CurRuns, OneWakeup, WaitersArmed, CacheFreed, loop, IoOps
<1>2. /\ runq' \in Seq(Threads)
      /\ \A i, j \in 1..Len(runq') : runq'[i] = runq'[j] => i = j
      /\ \A x \in Threads : InRunq(x)' <=> InRunq(x) /\ x # cur
  <2>1. /\ ListDel(cur) \in Seq(Threads)
        /\ \A i, j \in 1..Len(ListDel(cur)) : ListDel(cur)[i] = ListDel(cur)[j] => i = j
        /\ \A x \in Threads : (\E i \in 1..Len(ListDel(cur)) : ListDel(cur)[i] = x)
                                <=> InRunq(x) /\ x # cur
    BY <1>1, ListDelProperties DEF TypeOK, OneWakeup
  <2>2. \A x \in Threads : InRunq(x)' <=> \E i \in 1..Len(ListDel(cur)) : ListDel(cur)[i] = x
    BY DEF InRunq
  <2> QED BY <2>1, <2>2
<1>3. /\ mode' \in [Threads -> IoOps \cup {"none", "ready", "sleep"}]
      /\ mode'[cur] = m
      /\ \A x \in Threads : x # cur => mode'[x] = mode[x]
  BY <1>1 DEF TypeOK
<1>4. TypeOK'
  BY <1>1, <1>2, <1>3, ThreadsAssumption DEF TypeOK
<1>5. OneWakeup'
  <2>1. \A th \in Threads : InRunq(th)' <=> mode'[th] = "ready"
    BY <1>1, <1>2, <1>3 DEF OneWakeup, IoOps
  <2>2. timer' \subseteq timer \cup {cur} /\ io' \subseteq io \cup {cur}
    OBVIOUS
  <2>3. \A th \in timer' \cup io' \cup pendTimer' \cup pendIo' : ~InRunq(th)'
    BY <1>1, <1>2, <2>2 DEF OneWakeup, TypeOK
  <2> QED BY <1>2, <2>1, <2>3 DEF OneWakeup
<1>6. WaitersArmed'
  <2>1. \A th \in Threads : mode'[th] \in IoOps => th \in io'
    BY <1>1, <1>3 DEF WaitersArmed, IoOps
  <2>2. \A th \in Threads : mode'[th] = "sleep" => th \in timer' \cup pendTimer'
    BY <1>1, <1>3 DEF WaitersArmed, IoOps
  <2>3. \A th \in timer' \cup io' \cup pendTimer' \cup pendIo' : Blocked(th)'
    BY <1>1, <1>3 DEF WaitersArmed, Blocked, TypeOK, IoOps
  <2> QED BY <1>1, <2>1, <2>2, <2>3 DEF WaitersArmed
<1>7. CacheFreed'
  BY <1>1, <1>3 DEF CacheFreed, TypeOK
<1>8. CurRuns'
  BY <1>1, <1>3, ThreadsAssumption DEF CurRuns, TypeOK, IoOps
<1> QED BY <1>4, <1>5, <1>6, <1>7, <1>8

(* A callback wakes a blocked thread and stops its watchers. *)
LEMMA WakeKeeps ==
    ASSUME IInv, NEW th \in Threads, Blocked(th), cur = Main,
           Wakeup(th),
           timer' = timer \ {th}, io' = io \ {th}, buf' = buf \ {th},
           pendTimer' = pendTimer \ {th}, pendIo' = pendIo \ {th},
           UNCHANGED <<cur, gone>>
    PROVE  IInv'
<1> USE DEF IInv
<1>1. mode[th] # "ready" /\ ~InRunq(th)
  BY DEF Blocked, OneWakeup, IoOps
<1>2. /\ runq' \in Seq(Threads)
      /\ \A i, j \in 1..Len(runq') : runq'[i] = runq'[j] => i = j
      /\ \A x \in Threads : InRunq(x)' <=> InRunq(x) \/ x = th
  BY <1>1, AppendProps DEF TypeOK, OneWakeup, Wakeup
<1>3. /\ mode' \in [Threads -> IoOps \cup {"none", "ready", "sleep"}]
      /\ mode'[th] = "ready"
      /\ \A x \in Threads : x # th => mode'[x] = mode[x]
  BY DEF TypeOK, Wakeup
<1>4. TypeOK'
  BY <1>2, <1>3 DEF TypeOK
<1>5. OneWakeup'
  <2>1. \A x \in Threads : InRunq(x)' <=> mode'[x] = "ready"
    BY <1>2, <1>3 DEF OneWakeup
  <2>2. \A x \in timer' \cup io' \cup pendTimer' \cup pendIo' : ~InRunq(x)'
    BY <1>2 DEF OneWakeup, TypeOK
  <2> QED BY <1>2, <2>1, <2>2 DEF OneWakeup
<1>6. WaitersArmed'
  <2>1. \A x \in Threads : mode'[x] \in IoOps => x \in io'
    BY <1>3 DEF WaitersArmed, IoOps
  <2>2. \A x \in Threads : mode'[x] = "sleep" => x \in timer' \cup pendTimer'
    BY <1>3 DEF WaitersArmed
  <2>3. \A x \in timer' \cup io' \cup pendTimer' \cup pendIo' : Blocked(x)'
    BY <1>3 DEF WaitersArmed, Blocked, TypeOK
  <2>4. pendIo' \subseteq io'
    BY DEF WaitersArmed
  <2> QED BY <2>1, <2>2, <2>3, <2>4 DEF WaitersArmed
<1>7. CacheFreed'
  BY <1>3 DEF CacheFreed, TypeOK
<1>8. CurRuns'
  BY <1>3 DEF CurRuns, TypeOK
<1> QED BY <1>4, <1>5, <1>6, <1>7, <1>8

(* Every step keeps the invariant.                                         *)
LEMMA NextIInv == IInv /\ [Next]_vars => IInv'
<1> SUFFICES ASSUME IInv, [Next]_vars PROVE IInv'
  OBVIOUS
<1> USE DEF IInv
<1>1. CASE Schedule
  <2>1. /\ runq' \in Seq(Threads)
        /\ \A i, j \in 1..Len(runq') : runq'[i] = runq'[j] => i = j
        /\ \A x \in Threads : InRunq(x)' <=> InRunq(x)
        /\ cur' \in Threads /\ InRunq(cur')
    BY <1>1, RotateProps DEF Schedule, TypeOK, OneWakeup
  <2>2. UNCHANGED <<mode, timer, io, buf, pendTimer, pendIo, gone>>
        /\ pendTimer = {} /\ pendIo = {}
    BY <1>1 DEF Schedule, loop
  <2>3. TypeOK'
    BY <2>1, <2>2 DEF TypeOK
  <2>4. OneWakeup'
    BY <2>1, <2>2 DEF OneWakeup, TypeOK
  <2>5. WaitersArmed' /\ CacheFreed'
    BY <2>2 DEF WaitersArmed, CacheFreed, Blocked
  <2>6. InRunq(cur)'
    <3>1. \A x \in Threads : (\E i \in 1..Len(runq') : runq'[i] = x) <=> InRunq(x)
      BY <2>1 DEF InRunq
    <3>2. \E i \in 1..Len(runq') : runq'[i] = cur'
      BY <2>1, <3>1
    <3> QED BY <3>2 DEF InRunq
  <2>7. CurRuns'
    BY <2>2, <2>6 DEF CurRuns, loop
  <2> QED BY <2>3, <2>4, <2>5, <2>7
<1>2. ASSUME NEW th \in Threads, Go(th) PROVE IInv'
  <2>1. mode[th] = "none" /\ ~InRunq(th)
    BY <1>2 DEF Go, OneWakeup
  <2>2. /\ runq' \in Seq(Threads)
        /\ \A i, j \in 1..Len(runq') : runq'[i] = runq'[j] => i = j
        /\ \A x \in Threads : InRunq(x)' <=> InRunq(x) \/ x = th
    BY <1>2, <2>1, AppendProps DEF TypeOK, OneWakeup, Go
  <2>3. /\ mode' \in [Threads -> IoOps \cup {"none", "ready", "sleep"}]
        /\ mode'[th] = "ready"
        /\ \A x \in Threads : x # th => mode'[x] = mode[x]
    BY <1>2 DEF TypeOK, Go
  <2>4. UNCHANGED <<cur, timer, io, buf, pendTimer, pendIo>> /\ gone' \in 0..MaxGo
    BY <1>2, ThreadsAssumption DEF Go, loop, TypeOK
  <2>5. th \notin timer \cup io \cup pendTimer \cup pendIo \cup buf
    BY <2>1 DEF WaitersArmed, Blocked, IoOps, CacheFreed
  <2>6. TypeOK'
    BY <2>2, <2>3, <2>4 DEF TypeOK
  <2>7. OneWakeup'
    BY <2>2, <2>3, <2>4, <2>5 DEF OneWakeup, TypeOK
  <2>8. WaitersArmed' /\ CacheFreed'
    BY <2>1, <2>3, <2>4, <2>5 DEF WaitersArmed, CacheFreed, Blocked, IoOps, TypeOK
  <2>9. CurRuns'
    BY <2>2, <2>3, <2>4, <2>5, ThreadsAssumption DEF CurRuns, loop, TypeOK
  <2> QED BY <2>6, <2>7, <2>8, <2>9
<1>3. CASE Sleep
  BY <1>3, BlockKeeps DEF Sleep, loop, IoOps
<1>4. ASSUME NEW timeout \in BOOLEAN,
             \/ \E part \in BOOLEAN : Read(timeout, part)
             \/ Write(timeout) \/ Connect(timeout) \/ Accept(timeout)
      PROVE  IInv'
  <2>1. PICK m \in IoOps : /\ WaitIo(m, timeout)
                           /\ buf' = buf \/ (m = "read" /\ buf' = buf \cup {cur})
    BY <1>4 DEF Read, Write, Connect, Accept, IoOps
  <2> QED BY <2>1, BlockKeeps DEF WaitIo, loop, IoOps
<1>5. CASE Finish
  BY <1>5, BlockKeeps DEF Finish, loop, IoOps
<1>6. ASSUME NEW e \in SUBSET Threads, NEW r \in SUBSET Threads, Poll(e, r)
      PROVE  IInv'
  <2>1. TypeOK'
    BY <1>6 DEF Poll, TypeOK
  <2>2. OneWakeup'
    BY <1>6 DEF Poll, OneWakeup, InRunq
  <2>3. WaitersArmed' /\ CacheFreed'
    BY <1>6 DEF Poll, WaitersArmed, CacheFreed, Blocked, loop
  <2>4. CurRuns'
    BY <1>6 DEF Poll, CurRuns
  <2> QED BY <2>1, <2>2, <2>3, <2>4
<1>7. ASSUME NEW th \in Threads, OnTimer(th) PROVE IInv'
  <2>1. cur = Main /\ Blocked(th) /\ th \notin timer
    BY <1>7 DEF OnTimer, CurRuns, loop, WaitersArmed
  <2>2. CASE mode[th] = "sleep"
    <3>1. th \notin io /\ th \notin pendIo
      BY <2>2 DEF CurRuns, WaitersArmed, IoOps
    <3>2. th \notin buf
      BY <2>2 DEF CacheFreed
    <3> QED BY <1>7, <2>1, <2>2, <3>1, <3>2, WakeKeeps
            DEF OnTimer, OnSleep, OnReadTimeout, OnIoTimeout
  <2>3. CASE mode[th] # "sleep"
    <3>1. buf' = buf \ {th} /\ WakeupIo(th, pendTimer \ {th}, pendIo)
      BY <1>7, <2>3 DEF OnTimer, OnSleep, OnReadTimeout, OnIoTimeout, CacheFreed
    <3> QED BY <1>7, <2>1, <3>1, WakeKeeps DEF OnTimer, WakeupIo
  <2> QED BY <2>2, <2>3
<1>8. ASSUME NEW th \in Threads, OnIo(th) PROVE IInv'
  <2>1. cur = Main /\ th \in io /\ mode[th] \in IoOps /\ pendTimer = {}
    BY <1>8 DEF OnIo, CurRuns, loop, WaitersArmed
  <2>2. CASE WakeupIo(th, pendTimer, pendIo \ {th}) /\ buf' = buf \ {th}
    BY <1>8, <2>1, <2>2, WakeKeeps DEF OnIo, WakeupIo, Blocked
  <2>3. CASE /\ Again(th) /\ UNCHANGED <<cur, gone>>
             /\ buf' = buf \/ (mode[th] = "read" /\ buf' = buf \cup {th})
    <3>1. TypeOK'
      BY <2>3 DEF Again, TypeOK
    <3>2. OneWakeup'
      BY <2>3 DEF Again, OneWakeup, InRunq
    <3>3. WaitersArmed' /\ CacheFreed'
      BY <2>3 DEF Again, WaitersArmed, CacheFreed, Blocked
    <3>4. CurRuns'
      BY <2>1, <2>3 DEF Again, CurRuns
    <3> QED BY <3>1, <3>2, <3>3, <3>4
  <2>4. /\ UNCHANGED <<cur, gone>>
        /\ \/ WakeupIo(th, pendTimer, pendIo \ {th}) /\ buf' = buf \ {th}
           \/ Again(th) /\ (buf' = buf \/ (mode[th] = "read" /\ buf' = buf \cup {th}))
    BY <1>8 DEF OnIo, OnRead, OnWrite, OnConnect, OnAccept, CacheFreed
  <2> QED BY <2>2, <2>3, <2>4
<1>9. CASE UNCHANGED vars
  BY <1>9 DEF vars, TypeOK, OneWakeup, WaitersArmed, CacheFreed, CurRuns,
              InRunq, Blocked, loop
<1> QED BY <1>1, <1>2, <1>3, <1>4, <1>5, <1>6, <1>7, <1>8, <1>9 DEF Next, Block

(* The inductive invariant holds of every behaviour of the scheduler. *)
THEOREM Invariance == Spec => []IInv
<1>1. Init => IInv
  <2> SUFFICES ASSUME Init PROVE IInv
    OBVIOUS
  <2>1. PICK th \in Threads :
            /\ runq = <<th>>
            /\ mode = [t \in Threads |-> IF t = th THEN "ready" ELSE "none"]
    BY DEF Init
  <2>2. runq \in Seq(Threads) /\ Len(runq) = 1 /\ runq[1] = th
    BY <2>1
  <2>3. TypeOK
    BY <2>1, <2>2, ThreadsAssumption DEF Init, TypeOK
  <2>4. OneWakeup
    BY <2>1, <2>2 DEF Init, OneWakeup, InRunq
  <2>5. WaitersArmed /\ CacheFreed /\ CurRuns
    BY <2>1 DEF Init, WaitersArmed, CacheFreed, CurRuns, IoOps
  <2> QED BY <2>3, <2>4, <2>5 DEF IInv
<1>2. IInv /\ [Next]_vars => IInv'
  BY NextIInv
<1> QED BY <1>1, <1>2, PTL DEF Spec

(* A blocked call returns once: no thread is put on the running list twice *)
(* (se_thread_wakeup, se_thread_wakeup_io).                                *)
THEOREM WokenOnce == Spec => []OneWakeup
<1>1. IInv => OneWakeup
  BY DEF IInv
<1> QED BY <1>1, Invariance, PTL

(* The running list, the watchers and the waits keep their shape.          *)
THEOREM TypeCorrect == Spec => []TypeOK
<1>1. IInv => TypeOK
  BY DEF IInv
<1> QED BY <1>1, Invariance, PTL

(* No lost wakeup and no stale watcher: the assertions of se_thread_free   *)
(* about watchers never fail.                                              *)
THEOREM WatchersMatchWaits == Spec => []WaitersArmed
<1>1. IInv => WaitersArmed
  BY DEF IInv
<1> QED BY <1>1, Invariance, PTL

(* Only a blocked read holds a partial read: the assertions of l_se_read   *)
(* and se_thread_free about thread->buf never fail.                        *)
THEOREM PartialReadsFreed == Spec => []CacheFreed
<1>1. IInv => CacheFreed
  BY DEF IInv
<1> QED BY <1>1, Invariance, PTL

-----------------------------------------------------------------------------
(* The scheduler implements Coroutines.                                    *)

(* list_del on a list that is not that of the current state. *)
Del(q, th) ==
    LET i == CHOOSE i \in 1..Len(q) : q[i] = th
    IN  [j \in 1..(Len(q) - 1) |-> IF j < i THEN q[j] ELSE q[j + 1]]

(* Taking off the last one, when it is on the list only there. *)
LEMMA DelLast ==
    ASSUME NEW q \in Seq(Threads), NEW th \in Threads,
           \A i \in 1..Len(q) : q[i] # th
    PROVE  Del(Append(q, th), th) = q
<1> DEFINE n == Len(q)
           a == Append(q, th)
           k == CHOOSE i \in 1..Len(a) : a[i] = th
<1>1. /\ n \in Nat /\ Len(a) = n + 1 /\ a[n + 1] = th
      /\ \A i \in 1..n : a[i] = q[i]
  BY AppendProperties
<1>2. k \in 1..(n + 1) /\ a[k] = th
  <2>1. n + 1 \in 1..Len(a)
    BY <1>1
  <2>2. \E i \in 1..Len(a) : a[i] = th
    BY <1>1, <2>1
  <2> QED BY <1>1, <2>2
<1> HIDE DEF k, a
<1>3. k = n + 1
  BY <1>1, <1>2
<1>4. Del(a, th) = [j \in 1..(Len(a) - 1) |-> IF j < k THEN a[j] ELSE a[j + 1]]
  BY DEF Del, k
<1>5. Del(a, th) = [j \in 1..n |-> q[j]]
  BY <1>1, <1>3, <1>4
<1>6. q = [j \in 1..n |-> q[j]]
  OBVIOUS
<1> QED BY <1>5, <1>6 DEF a

(* Taking one off and appending another can change places. *)
LEMMA DelAppend ==
    ASSUME NEW q \in Seq(Threads), NEW x \in Threads, NEW y \in Threads, x # y,
           \A i, j \in 1..Len(q) : q[i] = q[j] => i = j,
           NEW k \in 1..Len(q), q[k] = x
    PROVE  /\ Del(Append(q, y), x) = Append(Del(q, x), y)
           /\ Del(q, x) \in Seq(Threads)
<1> DEFINE n == Len(q)
           a == Append(q, y)
           l == CHOOSE i \in 1..Len(a) : a[i] = x
           m == CHOOSE i \in 1..Len(q) : q[i] = x
           d == [j \in 1..(n - 1) |-> IF j < k THEN q[j] ELSE q[j + 1]]
<1>1. /\ n \in Nat /\ Len(a) = n + 1 /\ a[n + 1] = y
      /\ \A i \in 1..n : a[i] = q[i]
      /\ n - 1 \in Nat /\ \A i \in 1..n : q[i] \in Threads
  BY AppendProperties
<1>2. m = k
  <2>1. m \in 1..Len(q) /\ q[m] = x
    OBVIOUS
  <2> QED BY <2>1
<1>3. l = k
  <2>1. k \in 1..Len(a) /\ a[k] = x
    BY <1>1
  <2>2. l \in 1..Len(a) /\ a[l] = x
    BY <2>1
  <2> HIDE DEF l, a
  <2>3. l \in 1..n
    BY <1>1, <2>2
  <2> QED BY <1>1, <2>2, <2>3
<1>4. Del(q, x) = d
  BY <1>2 DEF Del
<1>5. Del(a, x) = [j \in 1..(Len(a) - 1) |-> IF j < l THEN a[j] ELSE a[j + 1]]
  BY DEF Del
<1> HIDE DEF l, m, a
<1>6. Del(a, x) = [j \in 1..n |-> IF j < k THEN a[j] ELSE a[j + 1]]
  BY <1>1, <1>3, <1>5
<1>7. d \in [1..(n - 1) -> Threads]
  BY <1>1
<1>8. d \in Seq(Threads) /\ Len(d) = n - 1
  BY <1>1, <1>7, IsASeq
<1> HIDE DEF d
<1> DEFINE b == Append(d, y)
<1>9. /\ b \in Seq(Threads) /\ Len(b) = n /\ b[n] = y
      /\ \A i \in 1..(n - 1) : b[i] = d[i]
  BY <1>1, <1>8, AppendProperties
<1> HIDE DEF b
<1>10. ASSUME NEW j \in 1..n
       PROVE  b[j] = IF j < k THEN a[j] ELSE a[j + 1]
  <2>1. CASE j = n
    BY <1>1, <1>9, <2>1
  <2>2. CASE j # n
    <3>1. j \in 1..(n - 1) /\ j \in 1..n /\ j + 1 \in 1..n
      BY <1>1, <2>2
    <3>2. b[j] = d[j]
      BY <1>9, <3>1
    <3>3. d[j] = IF j < k THEN q[j] ELSE q[j + 1]
      BY <3>1 DEF d
    <3> QED BY <1>1, <3>1, <3>2, <3>3
  <2> QED BY <2>1, <2>2
<1>11. b = [j \in 1..n |-> b[j]]
  BY <1>9
<1>12. b = Del(a, x)
  BY <1>6, <1>10, <1>11
<1> QED BY <1>4, <1>8, <1>12 DEF a, b

(* What the running list and the timers stand for in Coroutines. *)
Queue == IF cur = Main THEN runq ELSE ListDel(cur)
Deadline == timer \cup pendTimer
InQueue(th) == \E i \in 1..Len(Queue) : Queue[i] = th

LEMMA QueueDel ==
    /\ Queue = IF cur = Main THEN runq ELSE Del(runq, cur)
    /\ Queue' = IF cur' = Main THEN runq' ELSE Del(runq', cur')
BY DEF Queue, ListDel, Del

Serves == Service!Next \/ UNCHANGED Service!cvars

(* The operations of Coroutines in terms of the scheduler's state. *)
LEMMA ServiceActions ==
    /\ UNCHANGED <<Queue, cur, Deadline, io, pendTimer, pendIo>> => Serves
    /\ /\ cur = Main /\ pendTimer = {} /\ pendIo = {} /\ Queue # <<>>
       /\ cur' = Head(Queue) /\ Queue' = Tail(Queue)
       /\ UNCHANGED <<Deadline, io, pendTimer, pendIo>>
       => Serves
    /\ \A th \in Threads :
          /\ cur # Main /\ cur # th /\ ~InQueue(th) /\ th \notin Deadline \cup io
          /\ Queue' = Append(Queue, th)
          /\ UNCHANGED <<cur, Deadline, io, pendTimer, pendIo>>
          => Serves
    /\ \A d, e \in BOOLEAN :
          /\ d \/ e
          /\ cur # Main /\ cur \notin Deadline \cup io
          /\ Deadline' = IF d THEN Deadline \cup {cur} ELSE Deadline
          /\ io' = IF e THEN io \cup {cur} ELSE io
          /\ cur' = Main
          /\ UNCHANGED <<Queue, pendTimer, pendIo>>
          => Serves
    /\ /\ cur # Main /\ cur \notin Deadline \cup io
       /\ cur' = Main
       /\ UNCHANGED <<Queue, Deadline, io, pendTimer, pendIo>>
       => Serves
    /\ \A d, e \in SUBSET Threads :
          /\ cur = Main /\ Queue = <<>> /\ pendTimer = {} /\ pendIo = {}
          /\ d \subseteq Deadline /\ e \subseteq io
          /\ pendTimer' = d /\ pendIo' = e
          /\ UNCHANGED <<Queue, cur, Deadline, io>>
          => Serves
    /\ \A th \in Threads :
          /\ cur = Main /\ th \in pendTimer \cup pendIo /\ ~InQueue(th)
          /\ Queue' = Append(Queue, th)
          /\ Deadline' = Deadline \ {th} /\ io' = io \ {th}
          /\ pendTimer' = pendTimer \ {th} /\ pendIo' = pendIo \ {th}
          /\ UNCHANGED cur
          => Serves
    /\ \A th \in Threads :
          /\ th \in pendIo /\ th \notin pendTimer
          /\ pendIo' = pendIo \ {th}
          /\ UNCHANGED <<Queue, cur, Deadline, io, pendTimer>>
          => Serves
<1> USE DEF Serves
<1>1. UNCHANGED <<Queue, cur, Deadline, io, pendTimer, pendIo>> => Serves
  BY DEF Queue, Deadline, Service!cvars
<1>2. /\ cur = Main /\ pendTimer = {} /\ pendIo = {} /\ Queue # <<>>
      /\ cur' = Head(Queue) /\ Queue' = Tail(Queue)
      /\ UNCHANGED <<Deadline, io, pendTimer, pendIo>>
      => Serves
  BY DEF Queue, Deadline, Service!Next, Service!Run, Service!waits
<1>3. \A th \in Threads :
          /\ cur # Main /\ cur # th /\ ~InQueue(th) /\ th \notin Deadline \cup io
          /\ Queue' = Append(Queue, th)
          /\ UNCHANGED <<cur, Deadline, io, pendTimer, pendIo>>
          => Serves
  BY DEF Queue, Deadline, InQueue, Service!Next, Service!Spawn, Service!Queued, Service!waits
<1>4. \A d, e \in BOOLEAN :
          /\ d \/ e
          /\ cur # Main /\ cur \notin Deadline \cup io
          /\ Deadline' = IF d THEN Deadline \cup {cur} ELSE Deadline
          /\ io' = IF e THEN io \cup {cur} ELSE io
          /\ cur' = Main
          /\ UNCHANGED <<Queue, pendTimer, pendIo>>
          => Serves
  BY DEF Queue, Deadline, Service!Next, Service!Wait
<1>5. /\ cur # Main /\ cur \notin Deadline \cup io
      /\ cur' = Main
      /\ UNCHANGED <<Queue, Deadline, io, pendTimer, pendIo>>
      => Serves
  BY DEF Queue, Deadline, Service!Next, Service!Return, Service!waits
<1>6. \A d, e \in SUBSET Threads :
          /\ cur = Main /\ Queue = <<>> /\ pendTimer = {} /\ pendIo = {}
          /\ d \subseteq Deadline /\ e \subseteq io
          /\ pendTimer' = d /\ pendIo' = e
          /\ UNCHANGED <<Queue, cur, Deadline, io>>
          => Serves
  BY DEF Queue, Deadline, Service!Next, Service!Poll
<1>7. \A th \in Threads :
          /\ cur = Main /\ th \in pendTimer \cup pendIo /\ ~InQueue(th)
          /\ Queue' = Append(Queue, th)
          /\ Deadline' = Deadline \ {th} /\ io' = io \ {th}
          /\ pendTimer' = pendTimer \ {th} /\ pendIo' = pendIo \ {th}
          /\ UNCHANGED cur
          => Serves
  BY DEF Queue, Deadline, InQueue, Service!Next, Service!Wake, Service!Queued
<1>8. \A th \in Threads :
          /\ th \in pendIo /\ th \notin pendTimer
          /\ pendIo' = pendIo \ {th}
          /\ UNCHANGED <<Queue, cur, Deadline, io, pendTimer>>
          => Serves
  BY DEF Queue, Deadline, Service!Next, Service!WaitOn
<1> QED BY <1>1, <1>2, <1>3, <1>4, <1>5, <1>6, <1>7, <1>8

(* A coroutine that waits or returns leaves the queue as it is. *)
LEMMA BlockQueue ==
    ASSUME IInv, cur # Main, runq' = ListDel(cur), cur' = Main
    PROVE  UNCHANGED Queue /\ cur \notin Deadline \cup io /\ pendTimer = {} /\ pendIo = {}
<1>1. Queue' = runq' /\ Queue = ListDel(cur)
  BY DEF Queue
<1>2. cur \in Threads /\ InRunq(cur) /\ pendTimer = {} /\ pendIo = {}
  BY DEF IInv, TypeOK, CurRuns, loop
<1>3. cur \notin timer \cup io
  BY <1>2 DEF IInv, OneWakeup
<1> QED BY <1>1, <1>2, <1>3 DEF Deadline

(* A callback that ends a wait. *)
LEMMA WakeServes ==
    ASSUME IInv, NEW th \in Threads, th \in pendTimer \cup pendIo,
           runq' = Append(runq, th), cur' = cur,
           timer' = timer \ {th}, io' = io \ {th},
           pendTimer' = pendTimer \ {th}, pendIo' = pendIo \ {th}
    PROVE  Serves
<1>1. cur = Main /\ ~InRunq(th)
  BY DEF IInv, CurRuns, loop, OneWakeup
<1>2. Queue = runq /\ Queue' = runq'
  BY <1>1, QueueDel
<1>3. ~InQueue(th)
  BY <1>1, <1>2 DEF InQueue, InRunq
<1>4. Deadline' = Deadline \ {th}
  BY DEF Deadline
<1> QED BY <1>1, <1>2, <1>3, <1>4, ServiceActions

LEMMA ServiceStep == IInv /\ [Next]_vars => [Service!Next]_Service!cvars
<1> SUFFICES ASSUME IInv, [Next]_vars PROVE Serves
  BY DEF Serves
<1>1. CASE Schedule
  <2>1. /\ runq \in Seq(Threads) /\ runq # <<>>
        /\ \A i, j \in 1..Len(runq) : runq[i] = runq[j] => i = j
        /\ cur = Main /\ pendTimer = {} /\ pendIo = {}
        /\ cur' = Head(runq) /\ runq' = Append(Tail(runq), Head(runq))
        /\ UNCHANGED <<timer, io, pendTimer, pendIo>>
    BY <1>1 DEF Schedule, IInv, TypeOK, OneWakeup, loop
  <2>2. /\ Tail(runq) \in Seq(Threads) /\ Head(runq) \in Threads
        /\ \A i \in 1..Len(Tail(runq)) : Tail(runq)[i] # Head(runq)
    <3>1. /\ Tail(runq) \in Seq(Threads) /\ Head(runq) \in Threads /\ Head(runq) = runq[1]
          /\ Len(Tail(runq)) = Len(runq) - 1 /\ Len(runq) \in Nat /\ Len(runq) >= 1
          /\ \A i \in 1..Len(Tail(runq)) : Tail(runq)[i] = runq[i + 1]
      BY <2>1
    <3>2. \A i \in 1..Len(Tail(runq)) : i + 1 \in 1..Len(runq) /\ 1 \in 1..Len(runq) /\ i + 1 # 1
      BY <3>1
    <3> QED BY <2>1, <3>1, <3>2
  <2>3. Del(runq', cur') = Tail(runq)
    BY <2>1, <2>2, DelLast
  <2>4. cur' # Main
    BY <2>1, <2>2, ThreadsAssumption
  <2>5. Queue = runq /\ Queue' = Tail(runq)
    BY <2>1, <2>3, <2>4, QueueDel
  <2>6. UNCHANGED Deadline
    BY <2>1 DEF Deadline
  <2> QED BY <2>1, <2>5, <2>6, ServiceActions
<1>2. ASSUME NEW th \in Threads, Go(th) PROVE Serves
  <2>1. /\ cur # Main /\ mode[th] = "none" /\ runq' = Append(runq, th)
        /\ UNCHANGED <<cur, timer, io, pendTimer, pendIo>>
    BY <1>2 DEF Go, loop
  <2>2. /\ runq \in Seq(Threads) /\ cur \in Threads /\ InRunq(cur) /\ ~InRunq(th)
        /\ \A i, j \in 1..Len(runq) : runq[i] = runq[j] => i = j
        /\ th \notin Deadline \cup io
    BY <2>1 DEF IInv, TypeOK, CurRuns, OneWakeup, WaitersArmed, Blocked, Deadline, IoOps
  <2>3. cur # th
    BY <2>2
  <2>4. PICK k \in 1..Len(runq) : runq[k] = cur
    BY <2>2 DEF InRunq
  <2>5. Del(Append(runq, th), cur) = Append(Del(runq, cur), th)
    BY <2>2, <2>3, <2>4, DelAppend
  <2>6. Queue = Del(runq, cur) /\ Queue' = Append(Queue, th)
    BY <2>1, <2>5, QueueDel
  <2>7. ~InQueue(th)
    <3>1. \A x \in Threads : (\E i \in 1..Len(ListDel(cur)) : ListDel(cur)[i] = x)
                                <=> InRunq(x) /\ x # cur
      BY <2>2, ListDelProperties
    <3>2. Queue = ListDel(cur)
      BY <2>1 DEF Queue
    <3> QED BY <2>2, <3>1, <3>2 DEF InQueue
  <2>8. UNCHANGED Deadline
    BY <2>1 DEF Deadline
  <2> QED BY <2>1, <2>2, <2>3, <2>6, <2>7, <2>8, ServiceActions
<1>3. CASE Sleep
  <2>1. /\ cur # Main /\ runq' = ListDel(cur) /\ cur' = Main
        /\ timer' = timer \cup {cur} /\ UNCHANGED <<io, pendTimer, pendIo>>
    BY <1>3 DEF Sleep, loop
  <2>2. UNCHANGED Queue /\ cur \notin Deadline \cup io
    BY <2>1, BlockQueue
  <2>3. Deadline' = Deadline \cup {cur}
    BY <2>1 DEF Deadline
  <2>4. TRUE \in BOOLEAN /\ FALSE \in BOOLEAN
    OBVIOUS
  <2> QED BY <2>1, <2>2, <2>3, <2>4, ServiceActions
<1>4. ASSUME NEW timeout \in BOOLEAN,
             \/ \E part \in BOOLEAN : Read(timeout, part)
             \/ Write(timeout) \/ Connect(timeout) \/ Accept(timeout)
      PROVE  Serves
  <2>1. PICK m \in IoOps : WaitIo(m, timeout)
    BY <1>4 DEF Read, Write, Connect, Accept, IoOps
  <2>2. /\ cur # Main /\ runq' = ListDel(cur) /\ cur' = Main
        /\ timer' = IF timeout THEN timer \cup {cur} ELSE timer
        /\ io' = io \cup {cur} /\ UNCHANGED <<pendTimer, pendIo>>
    BY <2>1 DEF WaitIo, loop
  <2>3. UNCHANGED Queue /\ cur \notin Deadline \cup io
    BY <2>2, BlockQueue
  <2>4. Deadline' = IF timeout THEN Deadline \cup {cur} ELSE Deadline
    BY <2>2 DEF Deadline
  <2>5. TRUE \in BOOLEAN
    OBVIOUS
  <2> QED BY <2>2, <2>3, <2>4, <2>5, ServiceActions
<1>5. CASE Finish
  <2>1. /\ cur # Main /\ runq' = ListDel(cur) /\ cur' = Main
        /\ UNCHANGED <<timer, io, pendTimer, pendIo>>
    BY <1>5 DEF Finish, loop
  <2>2. UNCHANGED <<Queue, Deadline>> /\ cur \notin Deadline \cup io
    BY <2>1, BlockQueue DEF Deadline
  <2> QED BY <2>1, <2>2, ServiceActions
<1>6. ASSUME NEW e \in SUBSET Threads, NEW r \in SUBSET Threads, Poll(e, r)
      PROVE  Serves
  <2>1. /\ cur = Main /\ runq = <<>> /\ pendTimer = {} /\ pendIo = {}
        /\ e \subseteq timer /\ r \subseteq io
        /\ timer' = timer \ e /\ pendTimer' = e /\ pendIo' = r
        /\ UNCHANGED <<runq, cur, io>>
    BY <1>6 DEF Poll, loop
  <2>2. Queue = <<>> /\ UNCHANGED Queue
    BY <2>1, QueueDel
  <2>3. UNCHANGED Deadline /\ e \subseteq Deadline
    BY <2>1 DEF Deadline
  <2> QED BY <2>1, <2>2, <2>3, ServiceActions
<1>7. ASSUME NEW th \in Threads, OnTimer(th) PROVE Serves
  <2>1. th \in pendTimer /\ th \notin timer /\ cur' = cur
    BY <1>7 DEF OnTimer, IInv, CurRuns
  <2>2. CASE OnSleep(th)
    <3>1. th \notin io /\ th \notin pendIo
      BY <2>2 DEF OnSleep, IInv, CurRuns, WaitersArmed, IoOps
    <3> QED BY <2>1, <2>2, <3>1, WakeServes DEF OnSleep, Wakeup
  <2>3. CASE WakeupIo(th, pendTimer \ {th}, pendIo)
    BY <2>1, <2>3, WakeServes DEF WakeupIo, Wakeup
  <2> QED BY <1>7, <2>2, <2>3 DEF OnTimer, OnReadTimeout, OnIoTimeout
<1>8. ASSUME NEW th \in Threads, OnIo(th) PROVE Serves
  <2>1. th \in pendIo /\ pendTimer = {} /\ cur' = cur /\ cur = Main
    BY <1>8 DEF OnIo, IInv, CurRuns, loop
  <2>2. CASE WakeupIo(th, pendTimer, pendIo \ {th})
    BY <2>1, <2>2, WakeServes DEF WakeupIo, Wakeup
  <2>3. CASE Again(th)
    <3>1. UNCHANGED <<Queue, Deadline>>
      BY <2>1, <2>3, QueueDel DEF Again, Deadline
    <3> QED BY <2>1, <2>3, <3>1, ServiceActions DEF Again
  <2> QED BY <1>8, <2>2, <2>3 DEF OnIo, OnRead, OnWrite, OnConnect, OnAccept
<1>9. CASE UNCHANGED vars
  <2>1. UNCHANGED <<Queue, Deadline>>
    BY <1>9, QueueDel DEF vars, Deadline
  <2> QED BY <1>9, <2>1, ServiceActions DEF vars
<1> QED BY <1>1, <1>2, <1>3, <1>4, <1>5, <1>6, <1>7, <1>8, <1>9 DEF Next, Block

(* The scheduler implements Coroutines for any set of threads: ready ones  *)
(* run in order, and a wait ends once, by something it was for, however    *)
(* timers and descriptors fire together (se_core.c:48-77, 132-158).        *)
THEOREM SchedulerImplemented == Spec => ImplementsCoroutines
<1>1. Init => Service!Init
  BY DEF Init, Service!Init, Service!waits
<1>2. IInv /\ [Next]_vars => [Service!Next]_Service!cvars
  BY ServiceStep
<1> QED BY <1>1, <1>2, Invariance, PTL DEF Spec, ImplementsCoroutines, Service!Spec
=============================================================================
